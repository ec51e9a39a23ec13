----------------------------- MODULE RunnerProofs -----------------------------
(***************************************************************************)
(* Runner for any number of writers, attempts, records and disturbances:   *)
(* types, and what every batch is licensed by.  Then with one writer whose *)
(* abandoned batches do not come back: it implements Publisher.            *)
(***************************************************************************)
EXTENDS RunnerRefinement, DnsPlanProofs, FiniteSetTheorems

\* The part of TypeOK that is about the processes.
LocalOK ==
  /\ pc \in [Writers -> Locations]
  /\ opts \in [Writers -> Options]
  /\ ctx \in [Writers -> {"live", "done"}]
  /\ attempt \in [Writers -> 1..MaxAttempts]
  /\ cell \in [Writers -> Cells]
  /\ leaked \in SUBSET Goroutine
  /\ snap \in [Writers -> SUBSET Record]
  /\ plan \in [Writers -> SUBSET Operation]
  /\ tag \in [Writers -> Tags \cup {0}]
  /\ reply \in [Writers -> {"none", "applied", "refused"}]
  /\ outcome \in [Writers -> {"none", "ok", "error"}]

\* A process that waits for another attempt may have one.
AttemptsLeft == \A w \in Writers : pc[w] = "backoff" => attempt[w] < MaxAttempts

\* Delete mode has its own way to the plan.
ReadsToDelete == \A w \in Writers : pc[w] = "read" => opts[w].mode = "delete"

\* The licence is there from planning on, until the attempt ends.
PlanLicensed ==
  \A w \in Writers : pc[w] \in {"send", "await", "verify"} => Licensed(opts[w], cell[w], plan[w])

\* The evidence of an attempt does not change once it is planned on.
NoProbeRuns == \A w \in Writers : pc[w] \in {"read", "send", "await", "verify"} => Running(w) = {}

IInv ==
  /\ TypeOK
  /\ AttemptsLeft
  /\ ReadsToDelete
  /\ PlanLicensed
  /\ BatchLicensed

LEMMA TypeParts ==
  TypeOK <=> /\ LocalOK
             /\ zone \in SUBSET Record
             /\ egress \in [Family -> Probed]
             /\ batches \in SUBSET Batch
             /\ faults \in 0..MaxFaults
BY DEF TypeOK, LocalOK

LEMMA Constants ==
  /\ MaxAttempts \in Nat \ {0} /\ MaxFaults \in Nat /\ Config \in Settings
  /\ \A o \in Options : /\ o \in RunOptions
                        /\ o.selection \in SUBSET Family /\ o.partial \in BOOLEAN
                        /\ o.mode = "delete" <=> o.selection # {}
<1>1. \A o \in Options : o \in RunOptions /\ ((o.mode = "delete") <=> (o.selection # {}))
  BY RunnerAssumption
<1>2. \A o \in RunOptions : o.selection \in SUBSET Family /\ o.partial \in BOOLEAN
  BY DEF RunOptions
<1> QED BY <1>1, <1>2, RunnerAssumption

LEMMA CellTypes ==
  /\ NoCells \in Cells
  /\ \A st \in {"none", "running", "ok", "retryable", "fatal"} : CellOf(st) \in Cell
  /\ \A a \in Probed : Answer(a) \in Cell
BY DEF NoCells, Cells, CellOf, Cell, Answer, Probed

-----------------------------------------------------------------------------
(* The helpers that several actions share. *)

\* When runOnce returns, the process is idle or may try again.
LEMMA AttemptReturnsKeeps ==
  ASSUME LocalOK, NEW w \in Writers, NEW err \in Errors, AttemptReturns(w, err)
  PROVE  /\ LocalOK'
         /\ pc' = [pc EXCEPT ![w] = pc'[w]]
         /\ pc'[w] \in {"idle", "backoff"}
         /\ pc'[w] = "backoff" => attempt[w] < MaxAttempts
         /\ \A v \in Writers \ {w} : cell'[v] = cell[v] /\ plan'[v] = plan[v]
         /\ opts' = opts /\ attempt' = attempt
<1>1. pc'[w] \in {"idle", "backoff"} /\ (pc'[w] = "backoff" => attempt[w] < MaxAttempts)
  BY DEF AttemptReturns, CanRetry, LocalOK
<1>2. pc' = [pc EXCEPT ![w] = pc'[w]]
  BY DEF AttemptReturns, LocalOK
<1>3. pc' \in [Writers -> Locations]
  BY <1>1, <1>2 DEF LocalOK, Locations
<1>4. cell' \in [Writers -> Cells] /\ \A v \in Writers \ {w} : cell'[v] = cell[v]
  <2> DEFINE new == [f \in Family |->
               IF CanRetry(w, err) /\ f \notin Running(w) THEN cell[w][f] ELSE CellOf("none")]
  <2>1. new \in Cells
    BY CellTypes DEF LocalOK, Cells
  <2>2. cell' = [cell EXCEPT ![w] = new]
    BY DEF AttemptReturns
  <2> HIDE DEF new
  <2> QED BY <2>1, <2>2 DEF LocalOK
<1>5. leaked' \in SUBSET Goroutine
  <2>1. \A f \in Running(w) : [writer |-> w, attempt |-> attempt[w], family |-> f] \in Goroutine
    BY DEF Goroutine, Running, LocalOK
  <2> QED BY <2>1 DEF AttemptReturns, LocalOK
<1>6. outcome' \in [Writers -> {"none", "ok", "error"}]
  BY DEF AttemptReturns, LocalOK
<1>7. /\ snap' \in [Writers -> SUBSET Record] /\ plan' \in [Writers -> SUBSET Operation]
      /\ tag' \in [Writers -> Tags \cup {0}] /\ reply' \in [Writers -> {"none", "applied", "refused"}]
      /\ \A v \in Writers \ {w} : plan'[v] = plan[v]
  BY DEF AttemptReturns, LocalOK
<1>8. opts' = opts /\ ctx' = ctx /\ attempt' = attempt
  BY DEF AttemptReturns
<1> QED BY <1>1, <1>2, <1>3, <1>4, <1>5, <1>6, <1>7, <1>8 DEF LocalOK

\* What ends an attempt leaves the other processes alone.
LEMMA AttemptReturnsIInv ==
  ASSUME IInv, NEW w \in Writers, NEW err \in Errors, AttemptReturns(w, err),
         zone' = zone, egress' = egress, batches' \subseteq batches, faults' \in 0..MaxFaults
  PROVE  IInv'
<1>1. LocalOK /\ TypeOK
  BY TypeParts DEF IInv
<1>2. /\ LocalOK' /\ pc' = [pc EXCEPT ![w] = pc'[w]] /\ pc'[w] \in {"idle", "backoff"}
      /\ pc'[w] = "backoff" => attempt[w] < MaxAttempts
      /\ \A v \in Writers \ {w} : cell'[v] = cell[v] /\ plan'[v] = plan[v]
      /\ opts' = opts /\ attempt' = attempt
  BY <1>1, AttemptReturnsKeeps
<1>3. TypeOK'
  BY <1>1, <1>2, TypeParts DEF TypeOK, LocalOK
<1>4. \A v \in Writers \ {w} : pc'[v] = pc[v]
  BY <1>1, <1>2 DEF LocalOK
<1>5. AttemptsLeft' /\ ReadsToDelete'
  BY <1>2, <1>4 DEF IInv, AttemptsLeft, ReadsToDelete
<1>6. PlanLicensed'
  BY <1>2, <1>4 DEF IInv, PlanLicensed
<1>7. BatchLicensed'
  BY DEF IInv, BatchLicensed
<1> QED BY <1>3, <1>5, <1>6, <1>7 DEF IInv

LEMMA BeginAttemptIInv ==
  ASSUME IInv, NEW w \in Writers, NEW o \in Options, NEW n \in 1..MaxAttempts,
         BeginAttempt(w, o, n), opts' = [opts EXCEPT ![w] = o], ctx' \in [Writers -> {"live", "done"}],
         outcome' \in [Writers -> {"none", "ok", "error"}],
         UNCHANGED <<zone, egress, batches, leaked, snap, plan, tag, reply, faults>>
  PROVE  IInv'
<1>1. LocalOK /\ TypeOK
  BY TypeParts DEF IInv
<1>2. attempt' \in [Writers -> 1..MaxAttempts]
  BY <1>1 DEF BeginAttempt, LocalOK
<1>3. /\ pc' \in [Writers -> Locations] /\ pc'[w] \in {"gather", "read"}
      /\ pc'[w] = "read" => o.mode = "delete"
      /\ \A v \in Writers \ {w} : pc'[v] = pc[v] /\ attempt'[v] = attempt[v] /\ opts'[v] = opts[v]
      /\ opts'[w] = o /\ opts' \in [Writers -> Options]
  BY <1>1 DEF BeginAttempt, LocalOK, Locations
<1>4. cell' \in [Writers -> Cells] /\ \A v \in Writers \ {w} : cell'[v] = cell[v]
  <2> DEFINE new == IF o.mode = "delete" THEN NoCells ELSE [f \in Family |-> CellOf("running")]
  <2>1. new \in Cells
    BY CellTypes DEF Cells
  <2>2. cell' = [cell EXCEPT ![w] = new]
    BY DEF BeginAttempt
  <2> HIDE DEF new
  <2> QED BY <1>1, <2>1, <2>2 DEF LocalOK
<1>5. TypeOK'
  BY <1>1, <1>2, <1>3, <1>4 DEF TypeOK
<1>6. AttemptsLeft' /\ ReadsToDelete'
  BY <1>3 DEF IInv, AttemptsLeft, ReadsToDelete
<1>7. PlanLicensed'
  BY <1>3, <1>4 DEF IInv, PlanLicensed
<1>8. BatchLicensed'
  BY DEF IInv, BatchLicensed
<1> QED BY <1>5, <1>6, <1>7, <1>8 DEF IInv

\* Every failed call has an excuse, or is one of at most MaxFaults disturbances.
LEMMA ExcuseFaults ==
  ASSUME TypeOK, NEW w \in Writers, NEW err, Excuse(w, err)
  PROVE  err \in Errors /\ faults' \in 0..MaxFaults
BY Constants DEF Excuse, Disturb, Errors, TypeOK

\* A goroutine that still runs changes one cell, and no licence rests on that cell.
LEMMA SetCellIInv ==
  ASSUME IInv, NEW w \in Writers, NEW f \in Running(w), NEW c \in Cell, SetCell(w, f, c),
         faults' \in 0..MaxFaults
  PROVE  IInv'
<1>1. TypeOK /\ f \in Family /\ cell[w][f].st = "running"
  BY DEF IInv, Running
<1>2. cell' = [cell EXCEPT ![w][f] = c]
  BY DEF SetCell
<1>3. cell' \in [Writers -> Cells] /\ \A v \in Writers \ {w} : cell'[v] = cell[v]
  BY <1>1, <1>2 DEF TypeOK, Cells
<1>4. /\ zone' = zone /\ egress' = egress /\ batches' = batches /\ pc' = pc /\ opts' = opts
      /\ ctx' = ctx /\ attempt' = attempt /\ leaked' = leaked /\ snap' = snap /\ plan' = plan
      /\ tag' = tag /\ reply' = reply /\ outcome' = outcome
  BY DEF SetCell
<1>5. TypeOK'
  BY <1>1, <1>3, <1>4 DEF TypeOK
<1>6. AttemptsLeft' /\ ReadsToDelete' /\ BatchLicensed'
  BY <1>4 DEF IInv, AttemptsLeft, ReadsToDelete, BatchLicensed
<1>7. PlanLicensed'
  <2> SUFFICES ASSUME NEW v \in Writers, pc[v] \in {"send", "await", "verify"}
               PROVE  Licensed(opts[v], cell'[v], plan[v])
    BY <1>4 DEF PlanLicensed
  <2>1. Licensed(opts[v], cell[v], plan[v])
    BY DEF IInv, PlanLicensed
  <2>2. CASE v # w
    BY <1>3, <2>1, <2>2
  <2>3. CASE v = w
    <3>1. opts[w].mode = "delete"
      BY <1>1, <2>1, <2>3 DEF Licensed
    <3> QED BY <2>1, <2>3, <3>1 DEF Licensed, Goal
  <2> QED BY <2>2, <2>3
<1> QED BY <1>5, <1>6, <1>7 DEF IInv

\* The plan of an attempt concerns what the attempt may change.
LEMMA PlanForType ==
  ASSUME NEW recs \in SUBSET Record, NEW o \in Options, NEW c \in Cells
  PROVE  /\ PlanFor(recs, o, c) \in SUBSET Operation
         /\ \A op \in PlanFor(recs, o, c) : OpType(op) \in Goal(o, c)
<1>1. ObservedIn(c) \in SUBSET Family /\ AddressIn(c) \in [Family -> Addr \cup {NoAddr}]
  BY DEF ObservedIn, AddressIn, Cells, Cell, Probed
<1>2. CASE o.mode = "delete"
  <2>1. \A op \in BuildDeletePlan(recs, o.selection) : op \in Operation /\ OpType(op) \in o.selection
    BY Constants, BuildDeletePlanType
  <2> QED BY <1>2, <2>1 DEF PlanFor, Goal
<1>3. CASE o.mode # "delete"
  <2>1. \A op \in BuildObservedAddressPlan(recs, AddressIn(c), ObservedIn(c), Config) :
          op \in Operation /\ OpType(op) \in ObservedIn(c)
    BY <1>1, Constants, BuildObservedAddressPlanType
  <2>2. \A op \in ForcePushPlan(recs, AddressIn(c), ObservedIn(c), Config) :
          op \in Operation /\ OpType(op) \in ObservedIn(c)
    BY <1>1, Constants, ForcePushPlanType
  <2>3. PlanFor(recs, o, c) \in {BuildObservedAddressPlan(recs, AddressIn(c), ObservedIn(c), Config),
                                 ForcePushPlan(recs, AddressIn(c), ObservedIn(c), Config)}
    BY <1>3 DEF PlanFor, ReconcilePlan
  <2>4. Goal(o, c) = ObservedIn(c)
    BY <1>3 DEF Goal
  <2> QED BY <2>1, <2>2, <2>3, <2>4
<1> QED BY <1>2, <1>3

\* Planning ends the attempt or leaves a plan that has its licence.
LEMMA PlannedIInv ==
  ASSUME IInv, NEW w \in Writers, NEW p \in SUBSET Operation, Planned(w, p),
         opts[w].dry \/ Licensed(opts[w], cell[w], p),
         UNCHANGED <<zone, egress, batches, faults>>
  PROVE  IInv'
<1>1. TypeOK
  BY DEF IInv
<1>2. CASE p = {} \/ opts[w].dry
  <2>1. AttemptReturns(w, "nil") /\ "nil" \in Errors /\ faults' \in 0..MaxFaults
    BY <1>1, <1>2 DEF Planned, Errors, TypeOK
  <2> QED BY <2>1, AttemptReturnsIInv
<1>3. CASE ~ (p = {} \/ opts[w].dry)
  <2>1. /\ plan' = [plan EXCEPT ![w] = p] /\ pc' = [pc EXCEPT ![w] = "send"]
        /\ UNCHANGED <<opts, ctx, attempt, cell, leaked, snap, tag, reply, outcome>>
    BY <1>3 DEF Planned
  <2>2. TypeOK'
    BY <1>1, <2>1 DEF TypeOK, Locations
  <2>3. AttemptsLeft' /\ ReadsToDelete' /\ BatchLicensed'
    BY <1>1, <2>1 DEF IInv, TypeOK, AttemptsLeft, ReadsToDelete, BatchLicensed
  <2>4. PlanLicensed'
    BY <1>1, <1>3, <2>1 DEF IInv, TypeOK, PlanLicensed
  <2> QED BY <2>2, <2>3, <2>4 DEF IInv
<1> QED BY <1>2, <1>3

\* What collect hands to the planner.
LEMMA EvidenceTypes ==
  ASSUME NEW c \in Cells
  PROVE  /\ ObservedIn(c) \in SUBSET Family
         /\ AddressIn(c) \in [Family -> Addr \cup {NoAddr}]
         /\ \A f \in Family : AddressIn(c)[f] = c[f].addr
BY DEF ObservedIn, AddressIn, Cells, Cell, Probed

\* A zone that passes the verification of an attempt is at its goal.
LEMMA VerifiedIsGoal ==
  ASSUME TypeOK, NEW w \in Writers, Verified(w)
  PROVE  \A f \in Goal(opts[w], cell[w]) : Publishes(zone, f, GoalAddr(opts[w], cell[w], f), Config)
<1>0. zone \in SUBSET Record /\ cell[w] \in Cells
  BY DEF TypeOK
<1>1. CASE opts[w].mode = "delete"
  BY <1>1 DEF Verified, VerifyDeletedTypes, Goal, GoalAddr, Publishes, ByType
<1>2. CASE opts[w].mode # "delete"
  <2>1. \A f \in ObservedIn(cell[w]) :
          VerifyTypeState(ByType(zone, f), f, AddressIn(cell[w])[f], Config)
    BY <1>2 DEF Verified, VerifyObservedAddressState, Observed, Address
  <2>2. \A f \in ObservedIn(cell[w]) : Publishes(zone, f, AddressIn(cell[w])[f], Config)
    BY <1>0, <2>1, VerifyIsPublishes
  <2>3. \A f \in ObservedIn(cell[w]) : AddressIn(cell[w])[f] = cell[w][f].addr
    BY <1>0, EvidenceTypes
  <2> QED BY <1>2, <2>2, <2>3 DEF Goal, GoalAddr
<1> QED BY <1>1, <1>2

-----------------------------------------------------------------------------
LEMMA InitIInv == Init => IInv
<1> SUFFICES ASSUME Init PROVE IInv
  OBVIOUS
<1>1. (CHOOSE o \in Options : TRUE) \in Options
  BY RunnerAssumption
<1>2. opts \in [Writers -> Options]
  BY <1>1 DEF Init
<1>3. zone \in SUBSET Record /\ egress \in [Family -> Probed]
  BY RunnerAssumption DEF Init, States, Probed
<1>4. TypeOK
  BY <1>2, <1>3, CellTypes, Constants DEF Init, TypeOK, Locations
<1>5. AttemptsLeft /\ ReadsToDelete /\ PlanLicensed /\ BatchLicensed
  BY DEF Init, AttemptsLeft, ReadsToDelete, PlanLicensed, BatchLicensed
<1> QED BY <1>4, <1>5 DEF IInv

LEMMA AdvanceIInv ==
  ASSUME IInv, NEW w \in Writers, Advance(w)
  PROVE  IInv'
<1>0. TypeOK /\ faults \in 0..MaxFaults
  BY DEF IInv, TypeOK
<1>1. CASE BackoffEnds(w)
  <2>1. pc[w] = "backoff" /\ attempt[w] + 1 \in 1..MaxAttempts
    BY <1>0, <1>1, Constants DEF BackoffEnds, IInv, AttemptsLeft, TypeOK
  <2>2. opts[w] \in Options /\ opts' = [opts EXCEPT ![w] = opts[w]]
    BY <1>0, <1>1 DEF BackoffEnds, TypeOK
  <2>3. ctx' \in [Writers -> {"live", "done"}] /\ outcome' \in [Writers -> {"none", "ok", "error"}]
    BY <1>0, <1>1 DEF BackoffEnds, TypeOK
  <2> QED BY <1>1, <2>1, <2>2, <2>3, BeginAttemptIInv DEF BackoffEnds
<1>2. ASSUME NEW f \in Family, ProbeAnswers(w, f) PROVE IInv'
  <2>1. Answer(egress[f]) \in Cell
    BY <1>0, CellTypes DEF TypeOK
  <2> QED BY <1>0, <1>2, <2>1, SetCellIInv DEF ProbeAnswers
<1>3. CASE CollectReads(w)
  <2>1. TypeOK'
    BY <1>0, <1>3 DEF CollectReads, TypeOK, Locations
  <2>2. AttemptsLeft' /\ ReadsToDelete' /\ PlanLicensed' /\ BatchLicensed'
    BY <1>0, <1>3 DEF CollectReads, TypeOK, IInv, AttemptsLeft, ReadsToDelete, PlanLicensed, BatchLicensed
  <2> QED BY <2>1, <2>2 DEF IInv
<1>4. CASE CollectFails(w)
  <2>1. CollectError(w) \in Errors
    BY DEF CollectError, Errors
  <2> QED BY <1>0, <1>4, <2>1, AttemptReturnsIInv DEF CollectFails
<1>5. CASE Plans(w)
  <2>0. Collected(w) /\ CollectError(w) = "nil" /\ UNCHANGED <<zone, egress, batches, faults>>
    BY <1>5 DEF Plans
  <2>1. CASE Unplannable(snap[w], Observed(w))
    <3>1. AttemptReturns(w, "fatal") /\ "fatal" \in Errors
      BY <1>5, <2>1 DEF Plans, Errors
    <3> QED BY <1>0, <2>0, <3>1, AttemptReturnsIInv
  <2>2. CASE ~ Unplannable(snap[w], Observed(w))
    <3> DEFINE p == PlanFor(snap[w], opts[w], cell[w])
    <3>1. Planned(w, p)
      BY <1>5, <2>2 DEF Plans
    <3>2. snap[w] \in SUBSET Record /\ opts[w] \in Options /\ cell[w] \in Cells
      BY <1>0 DEF TypeOK
    <3>3. p \in SUBSET Operation /\ \A op \in p : OpType(op) \in Goal(opts[w], cell[w])
      BY <3>2, PlanForType
    <3> HIDE DEF p
    <3>4. opts[w].mode # "delete" =>
            /\ Goal(opts[w], cell[w]) = Family \/ (opts[w].partial /\ Goal(opts[w], cell[w]) # {})
            /\ \A f \in Family : cell[w][f].st # "running"
      <4>1. Observed(w) # {}
        BY <2>2 DEF Unplannable
      <4>2. \A f \in Family : cell[w][f].st # "running"
        BY <2>0 DEF Collected, Running
      <4>3. Family \ Observed(w) = {} \/ opts[w].partial
        BY <2>0 DEF CollectError
      <4>4. Observed(w) \subseteq Family /\ Observed(w) = ObservedIn(cell[w])
        BY DEF Observed, ObservedIn
      <4> QED BY <4>1, <4>2, <4>3, <4>4 DEF Goal
    <3>5. opts[w].dry \/ Licensed(opts[w], cell[w], p)
      BY <3>3, <3>4 DEF Licensed
    <3> QED BY <2>0, <3>1, <3>3, <3>5, PlannedIInv
  <2> QED BY <2>1, <2>2
<1>6. CASE DeleteReads(w)
  <2> DEFINE p == PlanFor(zone, opts[w], cell[w])
  <2>1. Planned(w, p) /\ UNCHANGED <<zone, egress, batches, faults>>
    BY <1>6 DEF DeleteReads
  <2>2. opts[w].mode = "delete"
    BY <1>6 DEF DeleteReads, IInv, ReadsToDelete
  <2>3. zone \in SUBSET Record /\ opts[w] \in Options /\ cell[w] \in Cells
    BY <1>0 DEF TypeOK
  <2>4. p \in SUBSET Operation /\ \A op \in p : OpType(op) \in Goal(opts[w], cell[w])
    BY <2>3, PlanForType
  <2> HIDE DEF p
  <2>5. opts[w].dry \/ Licensed(opts[w], cell[w], p)
    BY <2>2, <2>4 DEF Licensed
  <2> QED BY <2>1, <2>4, <2>5, PlannedIInv
<1>7. CASE Sends(w)
  <2>1. PICK t \in FreeTag : batches' = batches \cup {BatchOf(w, t)} /\ tag' = [tag EXCEPT ![w] = t]
    BY <1>7 DEF Sends
  <2>2. /\ pc[w] = "send" /\ pc' = [pc EXCEPT ![w] = "await"]
        /\ UNCHANGED <<zone, egress, opts, ctx, attempt, cell, leaked, snap, plan, reply, outcome, faults>>
    BY <1>7 DEF Sends
  <2>3. t \in Tags
    BY DEF FreeTag
  <2>4. BatchOf(w, t) \in Batch
    BY <1>0, <2>3 DEF BatchOf, Batch, TypeOK
  <2>5. TypeOK'
    BY <1>0, <2>1, <2>2, <2>3, <2>4 DEF TypeOK, Locations
  <2>6. Licensed(opts[w], cell[w], plan[w])
    BY <2>2 DEF IInv, PlanLicensed
  <2>7. BatchLicensed'
    BY <2>1, <2>6 DEF IInv, BatchLicensed, BatchOf
  <2>8. AttemptsLeft' /\ ReadsToDelete' /\ PlanLicensed'
    BY <1>0, <2>2, <2>6 DEF TypeOK, IInv, AttemptsLeft, ReadsToDelete, PlanLicensed
  <2> QED BY <2>5, <2>7, <2>8 DEF IInv
<1>8. CASE SendAborted(w)
  <2>1. "fatal" \in Errors
    BY DEF Errors
  <2> QED BY <1>0, <1>8, <2>1, AttemptReturnsIInv DEF SendAborted
<1>9. CASE ApplyReturns(w)
  <2>1. pc[w] = "await" /\ UNCHANGED <<zone, egress, batches, faults>>
    BY <1>9 DEF ApplyReturns
  <2>2. CASE AttemptReturns(w, "fatal")
    <3>1. "fatal" \in Errors
      BY DEF Errors
    <3> QED BY <1>0, <2>1, <2>2, <3>1, AttemptReturnsIInv
  <2>3. CASE /\ pc' = [pc EXCEPT ![w] = "verify"] /\ tag' = [tag EXCEPT ![w] = 0]
             /\ reply' = [reply EXCEPT ![w] = "none"]
             /\ UNCHANGED <<opts, ctx, attempt, cell, leaked, snap, plan, outcome>>
    <3>1. TypeOK'
      BY <1>0, <2>1, <2>3 DEF TypeOK, Locations
    <3>2. AttemptsLeft' /\ ReadsToDelete' /\ PlanLicensed' /\ BatchLicensed'
      BY <1>0, <2>1, <2>3 DEF TypeOK, IInv, AttemptsLeft, ReadsToDelete, PlanLicensed, BatchLicensed
    <3> QED BY <3>1, <3>2 DEF IInv
  <2> QED BY <1>9, <2>2, <2>3 DEF ApplyReturns
<1>10. CASE Verifies(w)
  <2>1. (IF Verified(w) THEN "nil" ELSE "fatal") \in Errors
    BY DEF Errors
  <2> QED BY <1>0, <1>10, <2>1, AttemptReturnsIInv DEF Verifies
<1> QED BY <1>1, <1>2, <1>3, <1>4, <1>5, <1>6, <1>7, <1>8, <1>9, <1>10 DEF Advance

LEMMA ServeIInv ==
  ASSUME IInv, NEW m \in batches, ServerApplies(m) \/ ServerRefuses(m)
  PROVE  IInv'
<1>0. TypeOK /\ m \in Batch
  BY DEF IInv, TypeOK
<1>1. /\ batches' = batches \ {m} /\ faults' \in 0..MaxFaults
      /\ UNCHANGED <<egress, pc, opts, ctx, attempt, cell, leaked, snap, plan, tag, outcome>>
  BY <1>0, Constants DEF ServerApplies, ServerRefuses, Answers, Disturb, TypeOK
<1>2. reply' \in [Writers -> {"none", "applied", "refused"}]
  <2>1. PICK r \in {"applied", "refused"} : Answers(m, r)
    BY DEF ServerApplies, ServerRefuses
  <2> QED BY <1>0, <2>1 DEF Answers, TypeOK
<1>3. zone' \in SUBSET Record
  <2>1. CASE ServerApplies(m)
    <3>1. PICK fresh \in FreshIds(m.plan, Ids \ UsedIds) : zone' = ApplyBatch(zone, m.plan, fresh)
      BY <2>1 DEF ServerApplies
    <3>2. zone \in SUBSET Record /\ m.plan \in SUBSET Operation /\ Ids \ UsedIds \in SUBSET Ids
      BY <1>0 DEF TypeOK, Batch
    <3> QED BY <3>1, <3>2, ApplyBatchType
  <2>2. CASE ServerRefuses(m)
    BY <1>0, <2>2 DEF ServerRefuses, TypeOK
  <2> QED BY <2>1, <2>2
<1>4. TypeOK'
  BY <1>0, <1>1, <1>2, <1>3 DEF TypeOK
<1>5. AttemptsLeft' /\ ReadsToDelete' /\ PlanLicensed' /\ BatchLicensed'
  BY <1>1 DEF IInv, AttemptsLeft, ReadsToDelete, PlanLicensed, BatchLicensed
<1> QED BY <1>4, <1>5 DEF IInv

LEMMA DisturbanceIInv ==
  ASSUME IInv, Disturbance
  PROVE  IInv'
<1>0. TypeOK /\ faults \in 0..MaxFaults
  BY DEF IInv, TypeOK
<1>1. ASSUME NEW w \in Writers, BackoffAborted(w) PROVE IInv'
  <2>1. "fatal" \in Errors
    BY DEF Errors
  <2> QED BY <1>0, <1>1, <2>1, AttemptReturnsIInv DEF BackoffAborted
<1>2. ASSUME NEW w \in Writers, Cancel(w) PROVE IInv'
  <2>1. TypeOK'
    BY <1>0, <1>2, Constants DEF Cancel, Disturb, TypeOK
  <2>2. AttemptsLeft' /\ ReadsToDelete' /\ PlanLicensed' /\ BatchLicensed'
    BY <1>2 DEF Cancel, IInv, AttemptsLeft, ReadsToDelete, PlanLicensed, BatchLicensed
  <2> QED BY <2>1, <2>2 DEF IInv
<1>3. ASSUME NEW w \in Writers, Crash(w) PROVE IInv'
  <2>1. batches' \subseteq batches
    BY <1>3 DEF Crash, Abandon
  <2>2. TypeOK'
    BY <1>0, <1>3, <2>1, CellTypes, Constants DEF Crash, Disturb, TypeOK, Locations
  <2>3. AttemptsLeft' /\ ReadsToDelete' /\ PlanLicensed'
    BY <1>0, <1>3 DEF Crash, TypeOK, IInv, AttemptsLeft, ReadsToDelete, PlanLicensed
  <2>4. BatchLicensed'
    BY <2>1 DEF IInv, BatchLicensed
  <2> QED BY <2>2, <2>3, <2>4 DEF IInv
<1>4. ASSUME NEW w \in Writers, NEW err \in Errors, ReadFails(w, err) PROVE IInv'
  BY <1>0, <1>4, ExcuseFaults, AttemptReturnsIInv DEF ReadFails
<1>5. ASSUME NEW w \in Writers, NEW err \in Errors, ApplyLost(w, err) PROVE IInv'
  <2>1. batches' \subseteq batches
    BY <1>5 DEF ApplyLost, Abandon
  <2> QED BY <1>0, <1>5, <2>1, ExcuseFaults, AttemptReturnsIInv DEF ApplyLost
<1>6. ASSUME NEW w \in Writers, NEW err \in Errors, NEW f \in Family, ProbeFails(w, f, err) PROVE IInv'
  <2>1. err \in {"retryable", "fatal"}
    BY <1>6 DEF ProbeFails, Excuse
  <2>2. CellOf(err) \in Cell
    BY <2>1, CellTypes
  <2> QED BY <1>0, <1>6, <2>2, ExcuseFaults, SetCellIInv DEF ProbeFails
<1>7. ASSUME NEW f \in Family, NEW a \in Probed, EgressChanges(f, a) PROVE IInv'
  <2>1. TypeOK'
    BY <1>0, <1>7, Constants DEF EgressChanges, Disturb, TypeOK, local
  <2>2. AttemptsLeft' /\ ReadsToDelete' /\ PlanLicensed' /\ BatchLicensed'
    BY <1>7 DEF EgressChanges, local, IInv, AttemptsLeft, ReadsToDelete, PlanLicensed, BatchLicensed
  <2> QED BY <2>1, <2>2 DEF IInv
<1> QED BY <1>1, <1>2, <1>3, <1>4, <1>5, <1>6, <1>7 DEF Disturbance

LEMMA NextIInv == IInv /\ [Next]_vars => IInv'
<1> SUFFICES ASSUME IInv, [Next]_vars PROVE IInv'
  OBVIOUS
<1>0. TypeOK
  BY DEF IInv
<1>1. ASSUME NEW w \in Writers, Starts(w) PROVE IInv'
  <2>1. PICK o \in Options : Start(w, o)
    BY <1>1 DEF Starts
  <2>2. 1 \in 1..MaxAttempts
    BY Constants
  <2>3. ctx' \in [Writers -> {"live", "done"}] /\ outcome' \in [Writers -> {"none", "ok", "error"}]
    BY <1>0, <2>1 DEF Start, TypeOK
  <2> QED BY <2>1, <2>2, <2>3, BeginAttemptIInv DEF Start
<1>2. ASSUME NEW w \in Writers, Advance(w) PROVE IInv'
  BY <1>2, AdvanceIInv
<1>3. ASSUME NEW g \in leaked, LeakedProbeEnds(g) PROVE IInv'
  <2>1. TypeOK'
    BY <1>0, <1>3 DEF LeakedProbeEnds, TypeOK
  <2>2. AttemptsLeft' /\ ReadsToDelete' /\ PlanLicensed' /\ BatchLicensed'
    BY <1>3 DEF LeakedProbeEnds, IInv, AttemptsLeft, ReadsToDelete, PlanLicensed, BatchLicensed
  <2> QED BY <2>1, <2>2 DEF IInv
<1>4. CASE Serve
  BY <1>4, ServeIInv DEF Serve
<1>5. CASE Disturbance
  BY <1>5, DisturbanceIInv
<1>6. CASE UNCHANGED vars
  BY <1>0, <1>6 DEF vars, local, TypeOK, IInv, AttemptsLeft, ReadsToDelete, PlanLicensed, BatchLicensed
<1> QED BY <1>1, <1>2, <1>3, <1>4, <1>5, <1>6 DEF Next

\* With any number of processes, attempts and disturbances every variable
\* keeps its type: in particular no attempt counter passes MaxAttempts.
THEOREM TypeCorrect == Spec => []TypeOK
<1>1. IInv => TypeOK
  BY DEF IInv
<1> QED BY InitIInv, NextIInv, <1>1, PTL DEF Spec

\* No batch reaches the provider without its licence, however many processes
\* run, fail and are interrupted.
THEOREM EveryBatchIsLicensed == Spec => []BatchLicensed
<1>1. IInv => BatchLicensed
  BY DEF IInv
<1> QED BY InitIInv, NextIInv, <1>1, PTL DEF Spec

-----------------------------------------------------------------------------
(***************************************************************************)
(* What a batch may change, however late it is handled and whatever others *)
(* have done to the zone meanwhile.  A batch names records by ID only.  It *)
(* can hit another type of record only if that ID has come to name one, so *)
(* the argument is about IDs.                                              *)
(***************************************************************************)


\* Records that a snapshot, a plan or a batch still speaks of.
Referred ==
  (UNION {snap[w] : w \in Writers})
    \cup (UNION {Current(plan[w]) : w \in Writers})
    \cup (UNION {Current(m.plan) : m \in batches})

Known == zone \cup Referred

\* An ID stands for records of one type.
TypesFixed(recs) == \A r, q \in recs : r.id = q.id => r.type = q.type

ChangeInv ==
  /\ TypesFixed(Known)
  /\ \A w \in Writers : TypesKept(plan[w])
  /\ \A m \in batches : TypesKept(m.plan)

-----------------------------------------------------------------------------
(* Plans speak of records that were read, and keep their types. *)

LEMMA PlanForFaithful ==
  ASSUME NEW recs, NEW o, NEW c
  PROVE  Faithful(PlanFor(recs, o, c), recs)
BY DeletePlanParts, ObservedPlanFaithful, ForcePushPlanFaithful DEF PlanFor, ReconcilePlan

-----------------------------------------------------------------------------
(* Steps that leave the zone alone learn of nothing but what it holds. *)

LEMMA PlansAreFaithful ==
  ASSUME ChangeInv
  PROVE  /\ \A w \in Writers : snap[w] \subseteq Known /\ Faithful(plan[w], Known)
         /\ \A m \in batches : Faithful(m.plan, Known)
         /\ zone \subseteq Known
BY DEF ChangeInv, Known, Referred, Faithful

LEMMA QuietStep ==
  ASSUME ChangeInv, zone' = zone,
         \A w \in Writers : snap'[w] \subseteq Known /\ Faithful(plan'[w], Known),
         \A m \in batches' : Faithful(m.plan, Known)
  PROVE  ChangeInv'
<1>1. Known' \subseteq Known
  <2>1. zone' \subseteq Known
    BY DEF Known
  <2>2. UNION {snap'[w] : w \in Writers} \subseteq Known
    OBVIOUS
  <2>3. UNION {Current(plan'[w]) : w \in Writers} \subseteq Known
    BY DEF Faithful
  <2>4. UNION {Current(m.plan) : m \in batches'} \subseteq Known
    BY DEF Faithful
  <2>5. Known' = zone' \cup (UNION {snap'[w] : w \in Writers})
                   \cup (UNION {Current(plan'[w]) : w \in Writers})
                   \cup (UNION {Current(m.plan) : m \in batches'})
    BY DEF Known, Referred, Current, Updates, Deletes
  <2> QED BY <2>1, <2>2, <2>3, <2>4, <2>5
<1>2. TypesFixed(Known')
  BY <1>1 DEF ChangeInv, TypesFixed
<1>3. (\A w \in Writers : TypesKept(plan'[w])) /\ (\A m \in batches' : TypesKept(m.plan))
  BY DEF Faithful
<1> QED BY <1>2, <1>3 DEF ChangeInv, TypesFixed, TypesKept, Updates

LEMMA NothingIsFaithful == \A recs : Faithful({}, recs)
BY DEF Faithful, Current, TypesKept, Updates, Deletes

\* An attempt that returns forgets.
LEMMA ForgetsQuietly ==
  ASSUME ChangeInv, TypeOK, NEW w \in Writers,
         snap' = [snap EXCEPT ![w] = {}], plan' = [plan EXCEPT ![w] = {}],
         zone' = zone, batches' \subseteq batches
  PROVE  ChangeInv'
<1>1. \A v \in Writers : /\ snap'[v] = IF v = w THEN {} ELSE snap[v]
                         /\ plan'[v] = IF v = w THEN {} ELSE plan[v]
  BY DEF TypeOK
<1>2. \A v \in Writers : snap'[v] \subseteq Known /\ Faithful(plan'[v], Known)
  BY <1>1, PlansAreFaithful, NothingIsFaithful
<1>3. \A m \in batches' : Faithful(m.plan, Known)
  BY PlansAreFaithful
<1> QED BY <1>2, <1>3, QuietStep

LEMMA ReturnsQuietly ==
  ASSUME ChangeInv, TypeOK, NEW w \in Writers, NEW err, AttemptReturns(w, err),
         zone' = zone, batches' \subseteq batches
  PROVE  ChangeInv'
<1>1. snap' = [snap EXCEPT ![w] = {}] /\ plan' = [plan EXCEPT ![w] = {}]
  BY DEF AttemptReturns
<1> QED BY <1>1, ForgetsQuietly

LEMMA StaysQuietly ==
  ASSUME ChangeInv, zone' = zone, snap' = snap, plan' = plan, batches' \subseteq batches
  PROVE  ChangeInv'
BY PlansAreFaithful, QuietStep

LEMMA PlannedQuietly ==
  ASSUME ChangeInv, TypeOK, NEW w \in Writers, NEW p, Planned(w, p), Faithful(p, Known),
         zone' = zone, batches' = batches
  PROVE  ChangeInv'
<1>1. CASE p = {} \/ opts[w].dry
  BY <1>1, ReturnsQuietly DEF Planned
<1>2. CASE ~ (p = {} \/ opts[w].dry)
  <2>1. plan' = [plan EXCEPT ![w] = p] /\ snap' = snap
    BY <1>2 DEF Planned
  <2>2. \A v \in Writers : plan'[v] = IF v = w THEN p ELSE plan[v]
    BY <2>1 DEF TypeOK
  <2> QED BY <2>1, <2>2, PlansAreFaithful, QuietStep
<1> QED BY <1>1, <1>2

LEMMA WiderSnapshot ==
  ASSUME NEW p, NEW recs, NEW more, Faithful(p, recs), recs \subseteq more
  PROVE  Faithful(p, more)
BY DEF Faithful

LEMMA AdvanceChangeInv ==
  ASSUME ChangeInv, TypeOK, NEW w \in Writers, Advance(w)
  PROVE  ChangeInv'
<1>1. CASE BackoffEnds(w)
  BY <1>1, StaysQuietly DEF BackoffEnds
<1>2. ASSUME NEW f \in Family, ProbeAnswers(w, f) PROVE ChangeInv'
  BY <1>2, StaysQuietly DEF ProbeAnswers, SetCell
<1>3. CASE CollectReads(w)
  <2>1. snap' = [snap EXCEPT ![w] = zone] /\ zone' = zone /\ plan' = plan /\ batches' = batches
    BY <1>3 DEF CollectReads
  <2>2. \A v \in Writers : snap'[v] = IF v = w THEN zone ELSE snap[v]
    BY <2>1 DEF TypeOK
  <2> QED BY <2>1, <2>2, PlansAreFaithful, QuietStep
<1>4. CASE CollectFails(w)
  BY <1>4, ReturnsQuietly DEF CollectFails
<1>5. CASE Plans(w)
  <2>1. zone' = zone /\ batches' = batches
    BY <1>5 DEF Plans
  <2>2. Faithful(PlanFor(snap[w], opts[w], cell[w]), Known)
    BY PlansAreFaithful, PlanForFaithful, WiderSnapshot
  <2>3. AttemptReturns(w, "fatal") \/ Planned(w, PlanFor(snap[w], opts[w], cell[w]))
    BY <1>5 DEF Plans
  <2> QED BY <2>1, <2>2, <2>3, ReturnsQuietly, PlannedQuietly
<1>6. CASE DeleteReads(w)
  <2>1. zone' = zone /\ batches' = batches /\ Planned(w, PlanFor(zone, opts[w], cell[w]))
    BY <1>6 DEF DeleteReads
  <2>2. Faithful(PlanFor(zone, opts[w], cell[w]), Known)
    BY PlansAreFaithful, PlanForFaithful, WiderSnapshot
  <2> QED BY <2>1, <2>2, PlannedQuietly
<1>7. CASE Sends(w)
  <2>1. PICK t \in FreeTag : batches' = batches \cup {BatchOf(w, t)}
    BY <1>7 DEF Sends
  <2>2. zone' = zone /\ snap' = snap /\ plan' = plan
    BY <1>7 DEF Sends
  <2>3. BatchOf(w, t).plan = plan[w]
    BY DEF BatchOf
  <2>4. \A m \in batches' : Faithful(m.plan, Known)
    BY <2>1, <2>3, PlansAreFaithful
  <2> QED BY <2>2, <2>4, PlansAreFaithful, QuietStep
<1>8. CASE SendAborted(w)
  BY <1>8, ReturnsQuietly DEF SendAborted
<1>9. CASE ApplyReturns(w)
  <2>1. zone' = zone /\ batches' = batches
    BY <1>9 DEF ApplyReturns
  <2>2. AttemptReturns(w, "fatal") \/ (plan' = plan /\ snap' = snap)
    BY <1>9 DEF ApplyReturns
  <2> QED BY <2>1, <2>2, ReturnsQuietly, StaysQuietly
<1>10. CASE Verifies(w)
  <2>1. zone' = zone /\ batches' = batches /\ \E err : AttemptReturns(w, err)
    BY <1>10 DEF Verifies
  <2> QED BY <2>1, ReturnsQuietly
<1> QED BY <1>1, <1>2, <1>3, <1>4, <1>5, <1>6, <1>7, <1>8, <1>9, <1>10 DEF Advance

LEMMA DisturbanceChangeInv ==
  ASSUME ChangeInv, TypeOK, Disturbance
  PROVE  ChangeInv'
<1>1. ASSUME NEW w \in Writers, BackoffAborted(w) PROVE ChangeInv'
  BY <1>1, ReturnsQuietly DEF BackoffAborted
<1>2. ASSUME NEW w \in Writers, Cancel(w) PROVE ChangeInv'
  BY <1>2, StaysQuietly DEF Cancel
<1>3. ASSUME NEW w \in Writers, Crash(w) PROVE ChangeInv'
  BY <1>3, ForgetsQuietly DEF Crash, Abandon
<1>4. ASSUME NEW w \in Writers, NEW err \in Errors, ReadFails(w, err) PROVE ChangeInv'
  BY <1>4, ReturnsQuietly DEF ReadFails
<1>5. ASSUME NEW w \in Writers, NEW err \in Errors, ApplyLost(w, err) PROVE ChangeInv'
  BY <1>5, ReturnsQuietly DEF ApplyLost, Abandon
<1>6. ASSUME NEW w \in Writers, NEW err \in Errors, NEW f \in Family, ProbeFails(w, f, err)
      PROVE  ChangeInv'
  BY <1>6, StaysQuietly DEF ProbeFails, SetCell
<1>7. ASSUME NEW f \in Family, NEW a \in Probed, EgressChanges(f, a) PROVE ChangeInv'
  BY <1>7, StaysQuietly DEF EgressChanges, local
<1> QED BY <1>1, <1>2, <1>3, <1>4, <1>5, <1>6, <1>7 DEF Disturbance

-----------------------------------------------------------------------------
(* The step that changes the zone. *)

\* No ID that anybody knows is given to a new record.
LEMMA KnownIdsAreUsed == \A r \in Known : r.id \in UsedIds
BY DEF Known, Referred, Current, UsedIds, Named

\* Every record after a batch was there, stands for one it names, or is new.
LEMMA AfterBatch ==
  ASSUME NEW recs, NEW p, NEW fresh, NEW r \in ApplyBatch(recs, p, fresh), TypesKept(p)
  PROVE  \/ r \in recs
         \/ \E op \in Updates(p) : r.id = op.current.id /\ r.type = op.current.type
         \/ \E c \in Creates(p) : r.id = fresh[c] /\ r.type = c.desired.type
BY DEF ApplyBatch, WithId, TypesKept

LEMMA AppliesChangeInv ==
  ASSUME ChangeInv, NEW m \in batches, ServerApplies(m)
  PROVE  ChangeInv'
<1>1. PICK fresh \in FreshIds(m.plan, Ids \ UsedIds) : zone' = ApplyBatch(zone, m.plan, fresh)
  BY DEF ServerApplies
<1>2. batches' \subseteq batches /\ snap' = snap /\ plan' = plan
  BY DEF ServerApplies, Answers
<1> DEFINE Old(r) == \E q \in Known : r.id = q.id /\ r.type = q.type
           New(r) == \E c \in Creates(m.plan) : r.id = fresh[c] /\ r.type = c.desired.type
<1>3. Referred' \subseteq Referred
  <2>1. Referred' = (UNION {snap[w] : w \in Writers})
                      \cup (UNION {Current(plan[w]) : w \in Writers})
                      \cup (UNION {Current(n.plan) : n \in batches'})
    BY <1>2 DEF Referred, Current, Updates, Deletes
  <2> QED BY <1>2, <2>1 DEF Referred
<1>4. \A r \in Known' : Old(r) \/ New(r)
  <2>1. \A r \in Referred' : Old(r)
    BY <1>3 DEF Known
  <2>2. ASSUME NEW r \in zone' PROVE Old(r) \/ New(r)
    <3>1. TypesKept(m.plan)
      BY DEF ChangeInv
    <3>2. \A op \in Updates(m.plan) : op.current \in Known
      BY DEF Known, Referred, Current
    <3>3. zone \subseteq Known
      BY DEF Known
    <3> QED BY <1>1, <2>2, <3>1, <3>2, <3>3, AfterBatch
  <2> QED BY <2>1, <2>2 DEF Known
<1>5. \A r : Old(r) => r.id \in UsedIds
  BY KnownIdsAreUsed
<1>6. \A r : New(r) => r.id \notin UsedIds
  BY DEF FreshIds
<1>7. \A r, q : New(r) /\ New(q) /\ r.id = q.id => r.type = q.type
  BY DEF FreshIds
<1>8. \A r, q : Old(r) /\ Old(q) /\ r.id = q.id => r.type = q.type
  BY DEF ChangeInv, TypesFixed
<1> HIDE DEF Old, New
<1>9. \A r, q \in Known' : r.id = q.id => r.type = q.type
  BY <1>4, <1>5, <1>6, <1>7, <1>8
<1>10. (\A w \in Writers : TypesKept(plan[w])) /\ (\A n \in batches' : TypesKept(n.plan))
  BY <1>2 DEF ChangeInv
<1> QED BY <1>2, <1>9, <1>10 DEF ChangeInv, TypesFixed, TypesKept, Updates

LEMMA InitChangeInv == Init => ChangeInv
<1> SUFFICES ASSUME Init PROVE ChangeInv
  OBVIOUS
<1>1. UniqueIds(zone) /\ batches = {} /\ \A w \in Writers : snap[w] = {} /\ plan[w] = {}
  BY RunnerAssumption DEF Init, States
<1>2. Known = zone
  BY <1>1 DEF Known, Referred, Current, Updates, Deletes
<1> QED BY <1>1, <1>2 DEF ChangeInv, TypesFixed, TypesKept, UniqueIds, Updates

LEMMA NextChangeInv == TypeOK /\ ChangeInv /\ [Next]_vars => ChangeInv'
<1> SUFFICES ASSUME TypeOK, ChangeInv, [Next]_vars PROVE ChangeInv'
  OBVIOUS
<1>1. ASSUME NEW w \in Writers, Starts(w) PROVE ChangeInv'
  BY <1>1, StaysQuietly DEF Starts, Start
<1>2. ASSUME NEW w \in Writers, Advance(w) PROVE ChangeInv'
  BY <1>2, AdvanceChangeInv
<1>3. ASSUME NEW g \in leaked, LeakedProbeEnds(g) PROVE ChangeInv'
  BY <1>3, StaysQuietly DEF LeakedProbeEnds
<1>4. ASSUME NEW m \in batches, ServerApplies(m) PROVE ChangeInv'
  BY <1>4, AppliesChangeInv
<1>5. ASSUME NEW m \in batches, ServerRefuses(m) PROVE ChangeInv'
  BY <1>5, StaysQuietly DEF ServerRefuses, Answers
<1>6. CASE Disturbance
  BY <1>6, DisturbanceChangeInv
<1>7. CASE UNCHANGED vars
  BY <1>7, StaysQuietly DEF vars, local
<1> QED BY <1>1, <1>2, <1>3, <1>4, <1>5, <1>6, <1>7 DEF Next, Serve

\* A batch leaves the types alone that it has no evidence for.
LEMMA AppliesOnlyLicensed ==
  ASSUME ChangeInv, BatchLicensed, NEW m \in batches, ServerApplies(m), NEW t,
         t \notin Goal(m.opts, m.cells)
  PROVE  ByType(zone', t) = ByType(zone, t)
<1>1. PICK fresh \in FreshIds(m.plan, Ids \ UsedIds) : zone' = ApplyBatch(zone, m.plan, fresh)
  BY DEF ServerApplies
<1>2. TypesKept(m.plan) /\ TypesFixed(Known)
  BY DEF ChangeInv
<1>3. \A op \in m.plan : OpType(op) # t
  BY DEF BatchLicensed, Licensed
<1>4. \A op \in Updates(m.plan) \cup Deletes(m.plan) : op.current.type # t
  BY <1>3 DEF Updates, Deletes, OpType
<1>5. \A c \in Creates(m.plan) : c.desired.type # t
  BY <1>3 DEF Creates, OpType
<1>6. ByType(zone', t) \subseteq ByType(zone, t)
  <2> SUFFICES ASSUME NEW r \in zone', r.type = t PROVE r \in zone
    BY DEF ByType
  <2> QED BY <1>1, <1>2, <1>4, <1>5, AfterBatch
<1>7. ByType(zone, t) \subseteq ByType(zone', t)
  <2> SUFFICES ASSUME NEW r \in zone, r.type = t PROVE r \in zone'
    BY DEF ByType
  <2>1. ASSUME NEW op \in Updates(m.plan) \cup Deletes(m.plan) PROVE op.current.id # r.id
    <3>1. op.current \in Known /\ r \in Known
      BY DEF Known, Referred, Current
    <3> QED BY <1>2, <1>4, <3>1 DEF TypesFixed
  <2>2. r.id \notin Named(m.plan)
    BY <2>1 DEF Named
  <2> QED BY <1>1, <2>2 DEF ApplyBatch
<1> QED BY <1>6, <1>7

\* Nothing but a batch changes the zone.
LEMMA OnlyBatchesChange ==
  ASSUME TypeOK, [Next]_vars, zone' # zone
  PROVE  \E m \in batches \ batches' : ServerApplies(m)
<1>1. \A w \in Writers : ~ Starts(w) /\ ~ Advance(w)
  BY DEF Starts, Start, Advance, BackoffEnds, ProbeAnswers, SetCell, CollectReads, CollectFails,
         Plans, DeleteReads, Sends, SendAborted, ApplyReturns, Verifies
<1>2. ~ Disturbance
  BY DEF Disturbance, BackoffAborted, Cancel, Crash, ReadFails, ApplyLost, ProbeFails, SetCell,
         EgressChanges
<1>3. PICK m \in batches : ServerApplies(m)
  BY <1>1, <1>2 DEF Next, Serve, LeakedProbeEnds, ServerRefuses, vars
<1>4. m \notin batches'
  BY <1>3 DEF ServerApplies, Answers
<1> QED BY <1>3, <1>4

\* Whatever the provider does with a batch, and however late, it changes no
\* record of a type that the batch has no evidence for, and no CNAME ever.
THEOREM ChangesAreLicensed == Spec => OnlyLicensedChange
<1>1. IInv /\ ChangeInv /\ [Next]_vars =>
        [\A t \in RecordType : ByType(zone', t) # ByType(zone, t) =>
           \E m \in batches \ batches' : t \in Goal(m.opts, m.cells)]_vars
  <2> SUFFICES ASSUME IInv, ChangeInv, [Next]_vars, NEW t \in RecordType,
                      ByType(zone', t) # ByType(zone, t)
               PROVE  \E m \in batches \ batches' : t \in Goal(m.opts, m.cells)
    OBVIOUS
  <2>1. TypeOK /\ BatchLicensed
    BY DEF IInv
  <2>2. PICK m \in batches \ batches' : ServerApplies(m)
    BY <2>1, OnlyBatchesChange DEF ByType
  <2> QED BY <2>1, <2>2, AppliesOnlyLicensed
<1>2. IInv => TypeOK
  BY DEF IInv
<1> QED BY InitIInv, NextIInv, InitChangeInv, NextChangeInv, <1>1, <1>2, PTL
        DEF Spec, OnlyLicensedChange

-----------------------------------------------------------------------------
(* A sole writer. *)

\* One process, as the README's operational assumption has it, and no batch that
\* takes effect after its sender has given it up.  The second part is an addition:
\* the client only cancels its request, and nothing in the code or the README
\* keeps the provider from handling the batch later.
SoleWriter == (\E w : Writers = {w}) /\ ~ LateApply

\* A batch in front of the provider is the one that its sender waits for.
BatchIsAwaited ==
  \A m \in batches :
    pc[m.writer] = "await" /\ reply[m.writer] = "none" /\ m = BatchOf(m.writer, tag[m.writer])

ReplyIsAwaited == \A w \in Writers : pc[w] # "await" => reply[w] = "none"

SnapIsCurrent == \A w \in Writers : pc[w] = "wait" => snap[w] = zone

\* What an attempt must find for its plan not to be refused.
Plannable(recs, o, c) == o.mode # "delete" => ~ Unplannable(recs, ObservedIn(c))

\* Until the provider has handled the batch, planning again would give it again.
PlanIsCurrent ==
  \A w \in Writers : pc[w] = "send" \/ (pc[w] = "await" /\ reply[w] = "none") =>
    plan[w] = PlanFor(zone, opts[w], cell[w]) /\ Plannable(zone, opts[w], cell[w])

SoleInv ==
  /\ UniqueIds(zone)
  /\ BatchIsAwaited
  /\ ReplyIsAwaited
  /\ SnapIsCurrent
  /\ PlanIsCurrent
  /\ NoProbeRuns

-----------------------------------------------------------------------------
\* The plan of an attempt takes the families of its goal there, and leaves the
\* others as they are.
LEMMA PlanForAchieves ==
  ASSUME NEW recs \in SUBSET Record, UniqueIds(recs), NEW o \in Options, NEW c \in Cells,
         NEW free \in SUBSET Ids, NEW fresh \in FreshIds(PlanFor(recs, o, c), free)
  PROVE  LET after == ApplyBatch(recs, PlanFor(recs, o, c), fresh)
         IN /\ \A f \in Goal(o, c) : Publishes(after, f, GoalAddr(o, c, f), Config)
            /\ \A t : t \notin Goal(o, c) => ByType(after, t) = ByType(recs, t)
<1> DEFINE p == PlanFor(recs, o, c)
           after == ApplyBatch(recs, p, fresh)
<1>1. CASE o.mode = "delete"
  <2>1. p = BuildDeletePlan(recs, o.selection)
    BY <1>1 DEF PlanFor
  <2>2. after = {r \in recs : r.type \notin o.selection}
    BY <2>1, DeletePlanAchieves
  <2> HIDE DEF after
  <2>3. \A f \in o.selection : Publishes(after, f, NoAddr, Config)
    BY <2>2 DEF Publishes
  <2>4. \A t : t \notin o.selection => ByType(after, t) = ByType(recs, t)
    BY <2>2 DEF ByType
  <2> QED BY <1>1, <2>3, <2>4 DEF Goal, GoalAddr, after
<1>2. CASE o.mode # "delete"
  <2>1. /\ ObservedIn(c) \in SUBSET Family /\ AddressIn(c) \in [Family -> Addr \cup {NoAddr}]
        /\ \A f \in Family : AddressIn(c)[f] = c[f].addr
        /\ Config \in Settings
    BY EvidenceTypes, Constants
  <2>2. \/ p = BuildObservedAddressPlan(recs, AddressIn(c), ObservedIn(c), Config)
        \/ /\ BuildObservedAddressPlan(recs, AddressIn(c), ObservedIn(c), Config) = {}
           /\ p = ForcePushPlan(recs, AddressIn(c), ObservedIn(c), Config)
    BY <1>2 DEF PlanFor, ReconcilePlan
  <2>3. fresh \in FreshIds(p, free)
    OBVIOUS
  <2> DEFINE observed == ObservedIn(c)
             addr == AddressIn(c)
  <2> HIDE DEF p, observed, addr
  <2>4. /\ \A f \in observed : Publishes(after, f, addr[f], Config)
        /\ \A t : t \notin observed => ByType(after, t) = ByType(recs, t)
    <3>1. observed \in SUBSET Family /\ addr \in [Family -> Addr \cup {NoAddr}] /\ Config \in Settings
      BY <2>1 DEF observed, addr
    <3>2. \/ p = BuildObservedAddressPlan(recs, addr, observed, Config)
          \/ /\ BuildObservedAddressPlan(recs, addr, observed, Config) = {}
             /\ p = ForcePushPlan(recs, addr, observed, Config)
      BY <2>2 DEF observed, addr
    <3>3. ASSUME NEW f \in observed
          PROVE  Publishes(ApplyBatch(recs, p, fresh), f, addr[f], Config)
      BY <2>3, <3>1, <3>2, ReconcileAchieves, SMTT(60)
    <3>4. ASSUME NEW t, t \notin observed
          PROVE  ByType(ApplyBatch(recs, p, fresh), t) = ByType(recs, t)
      BY <2>3, <3>1, <3>2, <3>4, ReconcileAchieves, SMTT(60)
    <3> QED BY <3>3, <3>4
  <2> HIDE DEF after
  <2>5. Goal(o, c) = ObservedIn(c) /\ \A f : GoalAddr(o, c, f) = c[f].addr
    BY <1>2 DEF Goal, GoalAddr
  <2>6. \A f \in ObservedIn(c) : AddressIn(c)[f] = c[f].addr
    BY <2>1
  <2> QED BY <2>4, <2>5, <2>6 DEF after, p, observed, addr
<1> QED BY <1>1, <1>2

LEMMA PlanForRewritesOnce ==
  ASSUME NEW recs, NEW o, NEW c
  PROVE  RewritesOnce(PlanFor(recs, o, c))
<1>1. RewritesOnce(BuildDeletePlan(recs, o.selection))
  BY DeletePlanParts DEF RewritesOnce
<1> QED BY <1>1, ObservedPlanFaithful, ForcePushPlanFaithful DEF PlanFor, ReconcilePlan

\* With nothing to write, everything is at its goal.
LEMMA NothingToDo ==
  ASSUME NEW recs \in SUBSET Record, UniqueIds(recs), NEW o \in Options, NEW c \in Cells,
         PlanFor(recs, o, c) = {}
  PROVE  \A f \in Goal(o, c) : Publishes(recs, f, GoalAddr(o, c, f), Config)
<1>1. CASE o.mode = "delete"
  <2>1. \A f \in o.selection : ByType(recs, f) = {}
    BY <1>1 DEF PlanFor, BuildDeletePlan
  <2> QED BY <1>1, <2>1 DEF Goal, GoalAddr, Publishes, ByType
<1>2. CASE o.mode # "delete"
  <2>1. BuildObservedAddressPlan(recs, AddressIn(c), ObservedIn(c), Config) = {}
    BY <1>2 DEF PlanFor, ReconcilePlan
  <2>2. \A f \in ObservedIn(c) : Publishes(recs, f, AddressIn(c)[f], Config)
    BY <2>1, ObservedPlanIsEmpty
  <2>3. \A f \in ObservedIn(c) : f \in Family
    BY EvidenceTypes
  <2> QED BY <1>2, <2>2, <2>3, EvidenceTypes DEF Goal, GoalAddr
<1> QED BY <1>1, <1>2

-----------------------------------------------------------------------------
(* The step that changes the zone. *)

\* The provider gets the plan for the zone that it holds.
LEMMA BatchIsCurrent ==
  ASSUME TypeOK, BatchIsAwaited, PlanIsCurrent, NEW m \in batches
  PROVE  /\ m.writer \in Writers /\ m.opts \in Options /\ m.cells \in Cells
         /\ m.opts = opts[m.writer] /\ m.cells = cell[m.writer] /\ m.tag = tag[m.writer]
         /\ pc[m.writer] = "await" /\ reply[m.writer] = "none"
         /\ m.plan = PlanFor(zone, m.opts, m.cells)
<1>1. m \in Batch
  BY DEF TypeOK
<1>2. m.writer \in Writers
  BY <1>1 DEF Batch
<1>3. pc[m.writer] = "await" /\ reply[m.writer] = "none" /\ m = BatchOf(m.writer, tag[m.writer])
  BY DEF BatchIsAwaited
<1>4. /\ m.plan = plan[m.writer] /\ m.opts = opts[m.writer] /\ m.cells = cell[m.writer]
      /\ m.tag = tag[m.writer]
  BY <1>3 DEF BatchOf
<1>5. m.opts \in Options /\ m.cells \in Cells
  BY <1>2, <1>4 DEF TypeOK
<1>6. m.plan = PlanFor(zone, m.opts, m.cells)
  BY <1>2, <1>3, <1>4 DEF PlanIsCurrent
<1> QED BY <1>2, <1>3, <1>4, <1>5, <1>6

\* A batch that is the plan for the zone that it meets takes the families of its
\* goal there, and leaves the others as they are.
LEMMA CurrentAchieves ==
  ASSUME TypeOK, UniqueIds(zone), NEW m \in batches, ServerApplies(m),
         m.plan = PlanFor(zone, m.opts, m.cells)
  PROVE  /\ zone' \in SUBSET Record /\ UniqueIds(zone')
         /\ \A f \in Goal(m.opts, m.cells) : Publishes(zone', f, GoalAddr(m.opts, m.cells, f), Config)
         /\ \A t : t \notin Goal(m.opts, m.cells) => ByType(zone', t) = ByType(zone, t)
<1> DEFINE free == Ids \ UsedIds
           p == PlanFor(zone, m.opts, m.cells)
<1>1. m.plan = p /\ m.opts \in Options /\ m.cells \in Cells /\ zone \in SUBSET Record
  BY DEF TypeOK, Batch
<1>2. PICK fresh \in FreshIds(p, free) : zone' = ApplyBatch(zone, p, fresh)
  BY <1>1 DEF ServerApplies
<1>3. free \in SUBSET Ids /\ free \cap {r.id : r \in zone} = {}
  BY DEF UsedIds
<1>4. Faithful(p, zone) /\ RewritesOnce(p) /\ p \in SUBSET Operation
  BY <1>1, PlanForFaithful, PlanForRewritesOnce, PlanForType
<1>5. /\ \A f \in Goal(m.opts, m.cells) : Publishes(zone', f, GoalAddr(m.opts, m.cells, f), Config)
      /\ \A t : t \notin Goal(m.opts, m.cells) => ByType(zone', t) = ByType(zone, t)
  <2> HIDE DEF free
  <2> QED BY <1>1, <1>2, <1>3, PlanForAchieves
<1> HIDE DEF free, p
<1>6. zone' \in SUBSET Record
  BY <1>1, <1>2, <1>3, <1>4, ApplyBatchType
<1>7. UniqueIds(zone')
  BY <1>2, <1>3, <1>4, IdsStayUnique
<1> QED BY <1>5, <1>6, <1>7

LEMMA AppliesAchieves ==
  ASSUME IInv, SoleInv, NEW m \in batches, ServerApplies(m)
  PROVE  /\ zone' \in SUBSET Record /\ UniqueIds(zone')
         /\ \A f \in Goal(m.opts, m.cells) : Publishes(zone', f, GoalAddr(m.opts, m.cells, f), Config)
         /\ \A t : t \notin Goal(m.opts, m.cells) => ByType(zone', t) = ByType(zone, t)
BY BatchIsCurrent, CurrentAchieves DEF IInv, SoleInv

-----------------------------------------------------------------------------
(* The inductive invariant. *)

LEMMA InitSoleInv == Init => SoleInv
<1> SUFFICES ASSUME Init PROVE SoleInv
  OBVIOUS
<1>1. UniqueIds(zone)
  BY RunnerAssumption DEF Init, States
<1>2. BatchIsAwaited /\ ReplyIsAwaited /\ SnapIsCurrent /\ PlanIsCurrent /\ NoProbeRuns
  BY DEF Init, BatchIsAwaited, ReplyIsAwaited, SnapIsCurrent, PlanIsCurrent, NoProbeRuns
<1> QED BY <1>1, <1>2 DEF SoleInv

\* Away from the planned part of an attempt there is nothing to remember.
LEMMA AtRest ==
  ASSUME SoleInv, NEW w \in Writers, Writers = {w}, zone' = zone,
         pc'[w] \in {"idle", "gather", "backoff"}, reply'[w] = "none", batches' = {}
  PROVE  SoleInv'
<1>1. UniqueIds(zone')
  BY DEF SoleInv
<1>2. /\ BatchIsAwaited' /\ ReplyIsAwaited' /\ SnapIsCurrent' /\ PlanIsCurrent' /\ NoProbeRuns'
  BY DEF BatchIsAwaited, ReplyIsAwaited, SnapIsCurrent, PlanIsCurrent, NoProbeRuns
<1> QED BY <1>1, <1>2 DEF SoleInv

\* Nothing is outstanding unless the process waits for it.
LEMMA NothingOutstanding ==
  ASSUME TypeOK, SoleInv, NEW w \in Writers, Writers = {w}, pc[w] # "await" \/ reply[w] # "none"
  PROVE  batches = {}
<1>1. \A m \in batches : m.writer = w
  BY DEF TypeOK, Batch
<1> QED BY <1>1 DEF SoleInv, BatchIsAwaited

\* Giving up a batch is the end of it.
LEMMA AbandonEmpties ==
  ASSUME TypeOK, NEW w \in Writers, Writers = {w}, ~ LateApply, Abandon(w)
  PROVE  batches' = {}
BY DEF TypeOK, Batch, Abandon

LEMMA ReturnsSoleInv ==
  ASSUME TypeOK, SoleInv, NEW w \in Writers, Writers = {w}, NEW err \in Errors,
         AttemptReturns(w, err), zone' = zone, batches' = {}
  PROVE  SoleInv'
<1>1. LocalOK
  BY TypeParts
<1>2. pc'[w] \in {"idle", "backoff"} /\ reply'[w] = "none"
  BY <1>1, AttemptReturnsKeeps DEF AttemptReturns, LocalOK
<1> QED BY <1>2, AtRest

\* A step that leaves these alone leaves the invariant alone.
LEMMA StaysSoleInv ==
  ASSUME SoleInv,
         UNCHANGED <<zone, batches, pc, opts, cell, snap, plan, tag, reply>>
  PROVE  SoleInv'
BY DEF SoleInv, BatchIsAwaited, BatchOf, ReplyIsAwaited, SnapIsCurrent, PlanIsCurrent, NoProbeRuns, Running

LEMMA SetCellSoleInv ==
  ASSUME TypeOK, SoleInv, NEW w \in Writers, Writers = {w}, NEW f \in Running(w), NEW c, SetCell(w, f, c)
  PROVE  SoleInv'
<1>1. pc[w] \notin {"read", "send", "await", "verify"}
  BY DEF SoleInv, NoProbeRuns
<1>2. batches = {}
  BY <1>1, NothingOutstanding
<1>3. zone' = zone /\ batches' = batches /\ pc' = pc /\ snap' = snap /\ reply' = reply
  BY DEF SetCell
<1>4. BatchIsAwaited' /\ ReplyIsAwaited' /\ SnapIsCurrent' /\ PlanIsCurrent' /\ NoProbeRuns'
  BY <1>1, <1>2, <1>3
     DEF SoleInv, BatchIsAwaited, ReplyIsAwaited, SnapIsCurrent, PlanIsCurrent, NoProbeRuns
<1> QED BY <1>3, <1>4 DEF SoleInv

LEMMA BeginsSoleInv ==
  ASSUME TypeOK, SoleInv, NEW w \in Writers, Writers = {w}, NEW o, NEW n, BeginAttempt(w, o, n),
         pc[w] \in {"idle", "backoff"}, zone' = zone, batches' = batches, reply' = reply
  PROVE  SoleInv'
<1>1. batches' = {}
  BY NothingOutstanding
<1>2. reply'[w] = "none"
  BY DEF SoleInv, ReplyIsAwaited
<1>3. pc'[w] = IF o.mode = "delete" THEN "read" ELSE "gather"
  BY DEF BeginAttempt, TypeOK
<1>4. CASE o.mode = "delete"
  <2>1. cell'[w] = NoCells
    BY <1>4 DEF BeginAttempt, TypeOK
  <2>2. Running(w)' = {}
    BY <2>1 DEF Running, NoCells, CellOf
  <2>3. BatchIsAwaited' /\ ReplyIsAwaited' /\ SnapIsCurrent' /\ PlanIsCurrent' /\ NoProbeRuns'
    BY <1>1, <1>2, <1>3, <1>4, <2>2
       DEF BatchIsAwaited, ReplyIsAwaited, SnapIsCurrent, PlanIsCurrent, NoProbeRuns
  <2> QED BY <2>3 DEF SoleInv
<1>5. CASE o.mode # "delete"
  BY <1>1, <1>2, <1>3, <1>5, AtRest
<1> QED BY <1>4, <1>5

\* Planning from what is still there.
LEMMA PlannedSoleInv ==
  ASSUME TypeOK, SoleInv, NEW w \in Writers, Writers = {w}, pc[w] \in {"wait", "read"}, Running(w) = {},
         Plannable(zone, opts[w], cell[w]), Planned(w, PlanFor(zone, opts[w], cell[w])),
         zone' = zone, batches' = batches
  PROVE  SoleInv'
<1> DEFINE p == PlanFor(zone, opts[w], cell[w])
<1>1. batches' = {} /\ reply[w] = "none"
  BY NothingOutstanding DEF SoleInv, ReplyIsAwaited
<1>2. CASE AttemptReturns(w, "nil")
  <2>1. "nil" \in Errors
    BY DEF Errors
  <2> QED BY <1>1, <1>2, <2>1, ReturnsSoleInv
<1>3. CASE /\ plan' = [plan EXCEPT ![w] = p] /\ pc' = [pc EXCEPT ![w] = "send"]
           /\ UNCHANGED <<opts, cell, snap, tag, reply>>
  <2>1. plan'[w] = p /\ pc'[w] = "send"
    BY <1>3 DEF TypeOK
  <2> HIDE DEF p
  <2>2. BatchIsAwaited' /\ ReplyIsAwaited' /\ SnapIsCurrent'
    BY <1>1, <1>3, <2>1 DEF BatchIsAwaited, ReplyIsAwaited, SnapIsCurrent
  <2>3. PlanIsCurrent'
    BY <1>3, <2>1 DEF PlanIsCurrent, p
  <2>4. NoProbeRuns'
    BY <1>3, <2>1 DEF NoProbeRuns, Running
  <2> QED BY <2>2, <2>3, <2>4 DEF SoleInv
<1> QED BY <1>2, <1>3 DEF Planned

LEMMA AdvanceSoleInv ==
  ASSUME TypeOK, ReadsToDelete, SoleInv, NEW w \in Writers, Writers = {w}, Advance(w)
  PROVE  SoleInv'
<1>0. "nil" \in Errors /\ "fatal" \in Errors
  BY DEF Errors
<1>1. CASE BackoffEnds(w)
  BY <1>1, BeginsSoleInv DEF BackoffEnds
<1>2. ASSUME NEW f \in Family, ProbeAnswers(w, f) PROVE SoleInv'
  BY <1>2, SetCellSoleInv DEF ProbeAnswers
<1>3. CASE CollectReads(w)
  <2>1. pc'[w] = "wait" /\ snap'[w] = zone
    BY <1>3 DEF CollectReads, TypeOK
  <2>2. batches = {}
    BY <1>3, NothingOutstanding DEF CollectReads
  <2>3. zone' = zone /\ batches' = batches /\ reply' = reply /\ reply[w] = "none"
    BY <1>3 DEF CollectReads, SoleInv, ReplyIsAwaited
  <2>4. BatchIsAwaited' /\ ReplyIsAwaited' /\ SnapIsCurrent' /\ PlanIsCurrent' /\ NoProbeRuns'
    BY <2>1, <2>2, <2>3 DEF BatchIsAwaited, ReplyIsAwaited, SnapIsCurrent, PlanIsCurrent, NoProbeRuns
  <2> QED BY <2>3, <2>4 DEF SoleInv
<1>4. CASE CollectFails(w)
  <2>1. CollectError(w) \in Errors
    BY DEF CollectError, Errors
  <2>2. batches' = {}
    BY <1>4, NothingOutstanding DEF CollectFails, Collected
  <2> QED BY <1>4, <2>1, <2>2, ReturnsSoleInv DEF CollectFails
<1>5. CASE Plans(w)
  <2>1. pc[w] = "wait" /\ Running(w) = {} /\ zone' = zone /\ batches' = batches /\ snap[w] = zone
    BY <1>5 DEF Plans, Collected, SoleInv, SnapIsCurrent
  <2>2. CASE Unplannable(zone, Observed(w))
    <3>1. AttemptReturns(w, "fatal")
      BY <1>5, <2>1, <2>2 DEF Plans
    <3>2. batches' = {}
      BY <2>1, NothingOutstanding
    <3> QED BY <1>0, <2>1, <3>1, <3>2, ReturnsSoleInv
  <2>3. CASE ~ Unplannable(zone, Observed(w))
    <3>1. Planned(w, PlanFor(zone, opts[w], cell[w]))
      BY <1>5, <2>1, <2>3 DEF Plans
    <3>2. Plannable(zone, opts[w], cell[w])
      BY <2>3 DEF Plannable, Observed
    <3> QED BY <2>1, <3>1, <3>2, PlannedSoleInv
  <2> QED BY <2>2, <2>3
<1>6. CASE DeleteReads(w)
  <2>1. /\ pc[w] = "read" /\ zone' = zone /\ batches' = batches
        /\ Planned(w, PlanFor(zone, opts[w], cell[w]))
    BY <1>6 DEF DeleteReads
  <2>2. Running(w) = {} /\ Plannable(zone, opts[w], cell[w])
    BY <2>1 DEF SoleInv, NoProbeRuns, ReadsToDelete, Plannable
  <2> QED BY <2>1, <2>2, PlannedSoleInv
<1>7. CASE Sends(w)
  <2>1. PICK t \in FreeTag : batches' = batches \cup {BatchOf(w, t)} /\ tag' = [tag EXCEPT ![w] = t]
    BY <1>7 DEF Sends
  <2>2. /\ pc[w] = "send" /\ pc' = [pc EXCEPT ![w] = "await"]
        /\ UNCHANGED <<zone, opts, cell, snap, plan, reply>>
    BY <1>7 DEF Sends
  <2>3. batches' = {BatchOf(w, t)} /\ reply[w] = "none"
    BY <2>1, <2>2, NothingOutstanding DEF SoleInv, ReplyIsAwaited
  <2>4. pc'[w] = "await" /\ tag'[w] = t
    BY <2>1, <2>2 DEF TypeOK
  <2>5. BatchIsAwaited'
    BY <2>2, <2>3, <2>4 DEF BatchIsAwaited, BatchOf
  <2>6. ReplyIsAwaited' /\ SnapIsCurrent' /\ PlanIsCurrent' /\ NoProbeRuns'
    BY <2>2, <2>3, <2>4 DEF SoleInv, ReplyIsAwaited, SnapIsCurrent, PlanIsCurrent, NoProbeRuns, Running
  <2> QED BY <2>2, <2>5, <2>6 DEF SoleInv
<1>8. CASE SendAborted(w)
  <2>1. batches' = {}
    BY <1>8, NothingOutstanding DEF SendAborted
  <2> QED BY <1>0, <1>8, <2>1, ReturnsSoleInv DEF SendAborted
<1>9. CASE ApplyReturns(w)
  <2>1. pc[w] = "await" /\ reply[w] \in {"applied", "refused"} /\ zone' = zone /\ batches' = batches
    BY <1>9 DEF ApplyReturns
  <2>2. batches' = {}
    BY <2>1, NothingOutstanding
  <2>3. CASE AttemptReturns(w, "fatal")
    BY <1>0, <2>1, <2>2, <2>3, ReturnsSoleInv
  <2>4. CASE /\ pc' = [pc EXCEPT ![w] = "verify"] /\ reply' = [reply EXCEPT ![w] = "none"]
             /\ UNCHANGED cell
    <3>1. pc'[w] = "verify" /\ reply'[w] = "none"
      BY <2>4 DEF TypeOK
    <3>2. BatchIsAwaited' /\ ReplyIsAwaited' /\ SnapIsCurrent' /\ PlanIsCurrent' /\ NoProbeRuns'
      BY <2>1, <2>2, <2>4, <3>1
         DEF SoleInv, BatchIsAwaited, ReplyIsAwaited, SnapIsCurrent, PlanIsCurrent, NoProbeRuns, Running
    <3> QED BY <2>1, <3>2 DEF SoleInv
  <2> QED BY <1>9, <2>3, <2>4 DEF ApplyReturns
<1>10. CASE Verifies(w)
  <2>1. PICK err \in Errors : AttemptReturns(w, err)
    BY <1>0, <1>10 DEF Verifies
  <2>2. batches' = {} /\ zone' = zone
    BY <1>10, NothingOutstanding DEF Verifies
  <2> QED BY <2>1, <2>2, ReturnsSoleInv
<1> QED BY <1>1, <1>2, <1>3, <1>4, <1>5, <1>6, <1>7, <1>8, <1>9, <1>10 DEF Advance

LEMMA AnswersSoleInv ==
  ASSUME TypeOK, SoleInv, NEW w \in Writers, Writers = {w}, NEW m \in batches,
         NEW r \in {"applied", "refused"}, Answers(m, r), UniqueIds(zone')
  PROVE  SoleInv'
<1>1. m.writer = w /\ pc[w] = "await" /\ m.tag = tag[w]
  BY BatchIsCurrent DEF SoleInv
<1>2. \A n \in batches : n = BatchOf(w, tag[w])
  BY DEF SoleInv, BatchIsAwaited, TypeOK, Batch
<1>3. batches' = {}
  BY <1>2 DEF Answers
<1>4. reply'[w] = r /\ pc' = pc /\ cell' = cell
  BY <1>1 DEF Answers, TypeOK
<1>5. BatchIsAwaited' /\ ReplyIsAwaited' /\ SnapIsCurrent' /\ PlanIsCurrent' /\ NoProbeRuns'
  BY <1>1, <1>3, <1>4
     DEF SoleInv, BatchIsAwaited, ReplyIsAwaited, SnapIsCurrent, PlanIsCurrent, NoProbeRuns, Running
<1> QED BY <1>5 DEF SoleInv

LEMMA DisturbanceSoleInv ==
  ASSUME TypeOK, SoleInv, NEW w \in Writers, Writers = {w}, ~ LateApply, Disturbance
  PROVE  SoleInv'
<1>1. CASE BackoffAborted(w)
  <2>1. batches' = {} /\ "fatal" \in Errors
    BY <1>1, NothingOutstanding DEF BackoffAborted, Errors
  <2> QED BY <1>1, <2>1, ReturnsSoleInv DEF BackoffAborted
<1>2. CASE Cancel(w)
  BY <1>2, StaysSoleInv DEF Cancel
<1>3. CASE Crash(w)
  <2>1. batches' = {}
    BY <1>3, AbandonEmpties DEF Crash
  <2>2. pc'[w] = "idle" /\ reply'[w] = "none"
    BY <1>3 DEF Crash, TypeOK
  <2> QED BY <1>3, <2>1, <2>2, AtRest DEF Crash
<1>4. ASSUME NEW err \in Errors, ReadFails(w, err) PROVE SoleInv'
  <2>1. batches' = {}
    BY <1>4, NothingOutstanding DEF ReadFails
  <2> QED BY <1>4, <2>1, ReturnsSoleInv DEF ReadFails
<1>5. ASSUME NEW err \in Errors, ApplyLost(w, err) PROVE SoleInv'
  <2>1. batches' = {}
    BY <1>5, AbandonEmpties DEF ApplyLost
  <2> QED BY <1>5, <2>1, ReturnsSoleInv DEF ApplyLost
<1>6. ASSUME NEW err \in Errors, NEW f \in Family, ProbeFails(w, f, err) PROVE SoleInv'
  BY <1>6, SetCellSoleInv DEF ProbeFails
<1>7. ASSUME NEW f \in Family, NEW a \in Probed, EgressChanges(f, a) PROVE SoleInv'
  BY <1>7, StaysSoleInv DEF EgressChanges, local
<1> QED BY <1>1, <1>2, <1>3, <1>4, <1>5, <1>6, <1>7 DEF Disturbance

LEMMA NextSoleInv ==
  ASSUME SoleWriter, IInv, SoleInv, [Next]_vars
  PROVE  SoleInv'
<1>0. PICK w \in Writers : Writers = {w}
  BY DEF SoleWriter
<1>1. TypeOK /\ ReadsToDelete /\ ~ LateApply
  BY DEF IInv, SoleWriter
<1>2. CASE Starts(w)
  BY <1>0, <1>1, <1>2, BeginsSoleInv DEF Starts, Start
<1>3. CASE Advance(w)
  BY <1>0, <1>1, <1>3, AdvanceSoleInv
<1>4. ASSUME NEW g \in leaked, LeakedProbeEnds(g) PROVE SoleInv'
  BY <1>4, StaysSoleInv DEF LeakedProbeEnds
<1>5. ASSUME NEW m \in batches, ServerApplies(m) PROVE SoleInv'
  <2>1. Answers(m, "applied") /\ UniqueIds(zone')
    BY <1>5, AppliesAchieves DEF ServerApplies
  <2> QED BY <1>0, <1>1, <2>1, AnswersSoleInv
<1>6. ASSUME NEW m \in batches, ServerRefuses(m) PROVE SoleInv'
  <2>1. Answers(m, "refused") /\ UniqueIds(zone')
    BY <1>6 DEF ServerRefuses, SoleInv
  <2> QED BY <1>0, <1>1, <2>1, AnswersSoleInv
<1>7. CASE Disturbance
  BY <1>0, <1>1, <1>7, DisturbanceSoleInv
<1>8. CASE UNCHANGED vars
  BY <1>8, StaysSoleInv DEF vars, local
<1> QED BY <1>0, <1>2, <1>3, <1>4, <1>5, <1>6, <1>7, <1>8 DEF Next, Serve

-----------------------------------------------------------------------------
(* How runs end. *)

\* What an attempt needs to have established for its goal to be a goal.
GoalEstablished(o, c) == o.mode # "delete" => Goal(o, c) = Family \/ (o.partial /\ Goal(o, c) # {})

\* A collect that reports no error has evidence enough.
LEMMA CollectedEnough ==
  ASSUME NEW w \in Writers, CollectError(w) = "nil", ~ Unplannable(zone, Observed(w))
  PROVE  GoalEstablished(opts[w], cell[w])
<1>1. Observed(w) # {}
  BY DEF Unplannable
<1>2. Family \ Observed(w) = {} \/ opts[w].partial
  BY DEF CollectError
<1>3. Observed(w) \subseteq Family /\ Observed(w) = ObservedIn(cell[w])
  BY DEF Observed, ObservedIn
<1> QED BY <1>1, <1>2, <1>3 DEF GoalEstablished, Goal

\* An attempt that returns with an error does not end the run with success.
LEMMA ReturnsOutcome ==
  ASSUME TypeOK, NEW w \in Writers, NEW err \in Errors, AttemptReturns(w, err)
  PROVE  /\ opts' = opts
         /\ \/ pc'[w] = "backoff" /\ outcome' = outcome
            \/ /\ pc'[w] = "idle" /\ outcome'[w] \in {"ok", "error"}
               /\ outcome'[w] = "ok" => err = "nil"
BY DEF AttemptReturns, CanRetry, TypeOK, Errors

\* Success means that the goal of the attempt is one, and is met.
Succeeded(w) ==
  /\ GoalEstablished(opts[w], cell[w])
  /\ \A f \in Goal(opts[w], cell[w]) : Publishes(zone, f, GoalAddr(opts[w], cell[w], f), Config)

\* What a step of a process may do to the run: nothing that is seen from
\* outside, its beginning, or its end.
Continues(w) == (pc[w] # "idle") = (pc'[w] # "idle") /\ opts'[w] = opts[w] /\ outcome'[w] = outcome[w]

Ends(w) ==
  /\ pc[w] # "idle" /\ pc'[w] = "idle" /\ opts'[w] = opts[w]
  /\ outcome'[w] \in {"ok", "error"}
  /\ outcome'[w] = "ok" /\ ~ opts[w].dry => Succeeded(w)

LEMMA ReturnsEnds ==
  ASSUME TypeOK, NEW w \in Writers, pc[w] # "idle", NEW err \in Errors, AttemptReturns(w, err),
         err = "nil" /\ ~ opts[w].dry => Succeeded(w)
  PROVE  Continues(w) \/ Ends(w)
<1>1. /\ opts' = opts
      /\ \/ pc'[w] = "backoff" /\ outcome' = outcome
         \/ /\ pc'[w] = "idle" /\ outcome'[w] \in {"ok", "error"}
            /\ outcome'[w] = "ok" => err = "nil"
  BY ReturnsOutcome
<1> QED BY <1>1 DEF Continues, Ends

LEMMA PlannedEnds ==
  ASSUME IInv, SoleInv, NEW w \in Writers, pc[w] # "idle",
         Planned(w, PlanFor(zone, opts[w], cell[w])), GoalEstablished(opts[w], cell[w])
  PROVE  Continues(w) \/ Ends(w)
<1>0. TypeOK /\ "nil" \in Errors
  BY DEF IInv, Errors
<1>1. CASE PlanFor(zone, opts[w], cell[w]) = {} \/ opts[w].dry
  <2>1. AttemptReturns(w, "nil")
    BY <1>1 DEF Planned
  <2>2. ~ opts[w].dry => Succeeded(w)
    BY <1>0, <1>1, NothingToDo DEF Succeeded, SoleInv, TypeOK
  <2> QED BY <1>0, <2>1, <2>2, ReturnsEnds
<1>2. CASE ~ (PlanFor(zone, opts[w], cell[w]) = {} \/ opts[w].dry)
  <2>1. pc' = [pc EXCEPT ![w] = "send"] /\ UNCHANGED <<opts, outcome>>
    BY <1>2 DEF Planned
  <2> QED BY <1>0, <2>1 DEF Continues, TypeOK
<1> QED BY <1>1, <1>2

LEMMA AdvanceEnds ==
  ASSUME IInv, SoleInv, NEW w \in Writers, Advance(w)
  PROVE  Continues(w) \/ Ends(w)
<1>0. TypeOK /\ "nil" \in Errors /\ "fatal" \in Errors
  BY DEF IInv, Errors
<1>1. CASE BackoffEnds(w)
  BY <1>0, <1>1 DEF BackoffEnds, BeginAttempt, Continues, TypeOK
<1>2. ASSUME NEW f \in Family, ProbeAnswers(w, f) PROVE Continues(w) \/ Ends(w)
  BY <1>2 DEF ProbeAnswers, SetCell, Continues
<1>3. CASE CollectReads(w)
  BY <1>0, <1>3 DEF CollectReads, Continues, TypeOK
<1>4. CASE CollectFails(w)
  <2>1. CollectError(w) \in Errors /\ CollectError(w) # "nil"
    BY <1>4 DEF CollectFails, CollectError, Errors
  <2> QED BY <1>0, <1>4, <2>1, ReturnsEnds DEF CollectFails, Collected
<1>5. CASE Plans(w)
  <2>1. pc[w] = "wait" /\ snap[w] = zone /\ CollectError(w) = "nil"
    BY <1>5 DEF Plans, Collected, SoleInv, SnapIsCurrent
  <2>2. CASE Unplannable(zone, Observed(w))
    <3>1. AttemptReturns(w, "fatal")
      BY <1>5, <2>1, <2>2 DEF Plans
    <3> QED BY <1>0, <2>1, <3>1, ReturnsEnds
  <2>3. CASE ~ Unplannable(zone, Observed(w))
    <3>1. Planned(w, PlanFor(zone, opts[w], cell[w]))
      BY <1>5, <2>1, <2>3 DEF Plans
    <3> QED BY <2>1, <2>3, <3>1, CollectedEnough, PlannedEnds
  <2> QED BY <2>2, <2>3
<1>6. CASE DeleteReads(w)
  <2>1. pc[w] = "read" /\ Planned(w, PlanFor(zone, opts[w], cell[w]))
    BY <1>6 DEF DeleteReads
  <2>2. GoalEstablished(opts[w], cell[w])
    BY <2>1 DEF IInv, ReadsToDelete, GoalEstablished
  <2> QED BY <2>1, <2>2, PlannedEnds
<1>7. CASE Sends(w)
  BY <1>0, <1>7 DEF Sends, Continues, TypeOK
<1>8. CASE SendAborted(w)
  BY <1>0, <1>8, ReturnsEnds DEF SendAborted
<1>9. CASE ApplyReturns(w)
  <2>1. pc[w] = "await"
    BY <1>9 DEF ApplyReturns
  <2>2. CASE AttemptReturns(w, "fatal")
    BY <1>0, <2>1, <2>2, ReturnsEnds
  <2>3. CASE pc' = [pc EXCEPT ![w] = "verify"] /\ UNCHANGED <<opts, outcome>>
    BY <1>0, <2>1, <2>3 DEF Continues, TypeOK
  <2> QED BY <1>9, <2>2, <2>3 DEF ApplyReturns
<1>10. CASE Verifies(w)
  <2>1. pc[w] = "verify"
    BY <1>10 DEF Verifies
  <2>2. CASE Verified(w)
    <3>1. AttemptReturns(w, "nil")
      BY <1>10, <2>2 DEF Verifies
    <3>2. GoalEstablished(opts[w], cell[w])
      BY <2>1 DEF IInv, PlanLicensed, Licensed, GoalEstablished
    <3>3. Succeeded(w)
      BY <1>0, <2>2, <3>2, VerifiedIsGoal DEF Succeeded
    <3> QED BY <1>0, <2>1, <3>1, <3>3, ReturnsEnds
  <2>3. CASE ~ Verified(w)
    <3>1. AttemptReturns(w, "fatal")
      BY <1>10, <2>3 DEF Verifies
    <3> QED BY <1>0, <2>1, <3>1, ReturnsEnds
  <2> QED BY <2>2, <2>3
<1> QED BY <1>1, <1>2, <1>3, <1>4, <1>5, <1>6, <1>7, <1>8, <1>9, <1>10 DEF Advance

LEMMA DisturbanceEnds ==
  ASSUME IInv, NEW w \in Writers, Writers = {w}, Disturbance
  PROVE  Continues(w) \/ Ends(w)
<1>0. TypeOK
  BY DEF IInv
<1>1. CASE BackoffAborted(w)
  <2>1. "fatal" \in Errors
    BY DEF Errors
  <2> QED BY <1>0, <1>1, <2>1, ReturnsEnds DEF BackoffAborted
<1>2. CASE Cancel(w)
  BY <1>2 DEF Cancel, Continues
<1>3. CASE Crash(w)
  <2>1. pc'[w] = "idle" /\ outcome'[w] = "error" /\ opts' = opts /\ pc[w] # "idle"
    BY <1>0, <1>3 DEF Crash, TypeOK
  <2> QED BY <2>1 DEF Ends
<1>4. ASSUME NEW err \in Errors, ReadFails(w, err) \/ ApplyLost(w, err) PROVE Continues(w) \/ Ends(w)
  <2>1. err # "nil" /\ AttemptReturns(w, err) /\ pc[w] # "idle"
    BY <1>4 DEF ReadFails, ApplyLost, Excuse
  <2> QED BY <1>0, <2>1, ReturnsEnds
<1>5. ASSUME NEW err \in Errors, NEW f \in Family, ProbeFails(w, f, err) PROVE Continues(w) \/ Ends(w)
  BY <1>5 DEF ProbeFails, SetCell, Continues
<1>6. ASSUME NEW f \in Family, NEW a \in Probed, EgressChanges(f, a) PROVE Continues(w) \/ Ends(w)
  BY <1>6 DEF EgressChanges, local, Continues
<1> QED BY <1>1, <1>2, <1>3, <1>4, <1>5, <1>6 DEF Disturbance

\* Every step, as it looks from outside.
LEMMA StepFromOutside ==
  ASSUME IInv, SoleInv, NEW w \in Writers, Writers = {w}, [Next]_vars
  PROVE  \/ zone' = zone /\ Continues(w)
         \/ zone' = zone /\ Ends(w)
         \/ \E o \in Options : zone' = zone /\ Start(w, o)
         \/ \E m \in batches : ServerApplies(m)
<1>1. ASSUME NEW o \in Options, Start(w, o) PROVE zone' = zone /\ Start(w, o)
  BY <1>1 DEF Start
<1>2. CASE Advance(w)
  <2>1. zone' = zone
    BY <1>2 DEF Advance, BackoffEnds, ProbeAnswers, SetCell, CollectReads, CollectFails,
                Plans, DeleteReads, Sends, SendAborted, ApplyReturns, Verifies
  <2> QED BY <1>2, <2>1, AdvanceEnds
<1>3. ASSUME NEW g \in leaked, LeakedProbeEnds(g) PROVE zone' = zone /\ Continues(w)
  BY <1>3 DEF LeakedProbeEnds, Continues
<1>4. ASSUME NEW m \in batches, ServerRefuses(m) PROVE zone' = zone /\ Continues(w)
  BY <1>4 DEF ServerRefuses, Answers, Continues
<1>5. CASE Disturbance
  <2>1. zone' = zone
    BY <1>5 DEF Disturbance, BackoffAborted, Cancel, Crash, ReadFails, ApplyLost, ProbeFails, SetCell,
                EgressChanges
  <2> QED BY <1>5, <2>1, DisturbanceEnds
<1>6. CASE UNCHANGED vars
  BY <1>6 DEF vars, local, Continues
<1> QED BY <1>1, <1>2, <1>3, <1>4, <1>5, <1>6 DEF Next, Starts, Serve

-----------------------------------------------------------------------------
(* The refinement. *)

LEMMA SoleIsTheWriter ==
  ASSUME SoleWriter
  PROVE  Sole \in Writers /\ Writers = {Sole}
BY DEF SoleWriter, Sole

\* The goal of an attempt as Publisher has it.
GoalOf(o, c) == [f \in Goal(o, c) |-> GoalAddr(o, c, f)]

LEMMA GoalIsAGoal ==
  ASSUME NEW o \in Options, NEW c \in Cells, GoalEstablished(o, c)
  PROVE  GoalOf(o, c) \in Abstract!Goals(o) /\ DOMAIN GoalOf(o, c) = Goal(o, c)
<1>1. CASE o.mode = "delete"
  BY <1>1 DEF GoalOf, Goal, GoalAddr, Abstract!Goals
<1>2. CASE o.mode # "delete"
  <2>1. Goal(o, c) \in SUBSET Family
    BY <1>2, EvidenceTypes DEF Goal
  <2>2. GoalOf(o, c) \in [Goal(o, c) -> Addr \cup {NoAddr}]
    BY <1>2, <2>1 DEF GoalOf, GoalAddr, Cells, Cell, Probed
  <2>3. Goal(o, c) \in {gs \in SUBSET Family : gs = Family \/ (o.partial /\ gs # {})}
    BY <1>2, <2>1 DEF GoalEstablished
  <2> QED BY <1>2, <2>2, <2>3 DEF GoalOf, Abstract!Goals, Abstract!Family, Family
<1> QED BY <1>1, <1>2

LEMMA MeetsIs ==
  ASSUME NEW z, NEW o, NEW c,
         \A f \in Goal(o, c) : Publishes(z, f, GoalAddr(o, c, f), Config)
  PROVE  Abstract!Meets(z, GoalOf(o, c))
BY DEF GoalOf, Abstract!Meets, Publishes, Abstract!Publishes

LEMMA AbstractInit ==
  ASSUME SoleWriter, Init
  PROVE  Abstract!Init
<1>1. Sole \in Writers
  BY SoleIsTheWriter
<1>2. opts[Sole] \in Options /\ pc[Sole] = "idle" /\ outcome[Sole] = "none"
  BY <1>1, InitIInv DEF Init, IInv, TypeOK
<1> QED BY <1>2 DEF Init, Abstract!Init

LEMMA AbstractStep ==
  ASSUME SoleWriter, IInv, SoleInv, [Next]_vars
  PROVE  [Abstract!Next]_(Abstract!vars)
<1> DEFINE w == Sole
<1>0. w \in Writers /\ Writers = {w} /\ TypeOK
  BY SoleIsTheWriter DEF IInv
<1> HIDE DEF w
<1>1. CASE zone' = zone /\ Continues(w)
  BY <1>1 DEF Continues, Abstract!vars, w
<1>2. CASE zone' = zone /\ Ends(w)
  <2>1. outcome'[w] = "ok" /\ ~ opts[w].dry => \E g \in Abstract!Goals(opts[w]) : Abstract!Meets(zone, g)
    BY <1>0, <1>2, GoalIsAGoal, MeetsIs DEF Ends, Succeeded, TypeOK
  <2>2. Abstract!Finish(outcome'[w])
    BY <1>2, <2>1 DEF Ends, Abstract!Finish, w
  <2> QED BY <1>2, <2>2 DEF Ends, Abstract!Next
<1>3. ASSUME NEW o \in Options, zone' = zone, Start(w, o) PROVE Abstract!Begin
  <2>1. pc[w] = "idle" /\ pc'[w] # "idle" /\ opts'[w] = o /\ outcome'[w] = "none"
    BY <1>0, <1>3 DEF Start, BeginAttempt, TypeOK
  <2> QED BY <1>3, <2>1 DEF Abstract!Begin, w
<1>4. ASSUME NEW m \in batches, ServerApplies(m) PROVE Abstract!Publish
  <2>1. /\ m.writer = w /\ m.opts = opts[w] /\ m.cells = cell[w] /\ pc[w] = "await"
        /\ m.opts \in Options /\ m.cells \in Cells
    BY <1>0, BatchIsCurrent DEF SoleInv
  <2>2. ~ opts[w].dry /\ GoalEstablished(m.opts, m.cells)
    BY <2>1 DEF IInv, BatchLicensed, Licensed, GoalEstablished
  <2>3. /\ zone' \in SUBSET Record
        /\ \A f \in Goal(m.opts, m.cells) : Publishes(zone', f, GoalAddr(m.opts, m.cells, f), Config)
        /\ \A t : t \notin Goal(m.opts, m.cells) => ByType(zone', t) = ByType(zone, t)
    BY <1>4, AppliesAchieves
  <2> DEFINE g == GoalOf(m.opts, m.cells)
  <2>4. g \in Abstract!Goals(m.opts) /\ DOMAIN g = Goal(m.opts, m.cells)
    BY <2>1, <2>2, GoalIsAGoal
  <2>5. Abstract!Meets(zone', g)
    BY <2>3, MeetsIs
  <2> HIDE DEF g
  <2>6. \A t \in Abstract!RecordType \ DOMAIN g : Abstract!ByType(zone', t) = Abstract!ByType(zone, t)
    BY <2>3, <2>4 DEF Abstract!ByType, ByType
  <2>7. pc' = pc /\ opts' = opts /\ outcome' = outcome
    BY <1>4 DEF ServerApplies, Answers
  <2>8. zone' \subseteq Abstract!Record
    BY <2>3 DEF Abstract!Record, Record, Abstract!RecordType, RecordType, Abstract!Family, Family
  <2> QED BY <2>1, <2>2, <2>4, <2>5, <2>6, <2>7, <2>8 DEF Abstract!Publish, w
<1> QED BY <1>0, <1>1, <1>2, <1>3, <1>4, StepFromOutside DEF Abstract!Next

\* With one process whose abandoned batches do not come back, whatever is lost,
\* retried, cancelled or killed, dns-update implements Publisher.
THEOREM SoleWriterImplements ==
  ASSUME SoleWriter
  PROVE  Spec => ImplementsPublisher
<1>1. Init => Abstract!Init
  BY AbstractInit
<1>2. IInv /\ SoleInv /\ [Next]_vars => [Abstract!Next]_(Abstract!vars)
  BY AbstractStep
<1>3. IInv /\ SoleInv /\ [Next]_vars => SoleInv'
  BY NextSoleInv
<1> QED BY InitIInv, NextIInv, InitSoleInv, <1>1, <1>2, <1>3, PTL
        DEF Spec, ImplementsPublisher, Abstract!Spec
=============================================================================
