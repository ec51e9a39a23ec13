-------------------------- MODULE RunnerAuditProofs --------------------------
(***************************************************************************)
(* The history of RunnerAudit for any number of processes, and abandoned   *)
(* batches that take effect at any time: where a written address comes     *)
(* from, which batches can be stale, what they can do to a family, and     *)
(* what a success means whoever else writes.                               *)
(***************************************************************************)
EXTENDS RunnerAudit, RunnerProofs

Resting == {"idle", "backoff"}

\* What a plan writes is what its attempt has observed.
PlanIsEvidence ==
  \A w \in Writers : pc[w] \in {"send", "await"} =>
    \A op \in plan[w] : op.kind # "delete" =>
      /\ OpType(op) \in ObservedIn(cell[w])
      /\ op.desired.content = cell[w][OpType(op)].addr

\* What an attempt has observed was there during the attempt.
EvidenceWasSeen ==
  \A w \in Writers : pc[w] \notin Resting =>
    \A f \in Family :
      /\ egress[f] \in seen[w][f]
      /\ f \in ObservedIn(cell[w]) => cell[w][f].addr \in seen[w][f]

\* Only the process that waits for a batch bears its tag, and it has changed
\* neither its options nor its evidence since.
TagIsAwaited ==
  \A m \in batches : tag[m.writer] = m.tag =>
    pc[m.writer] = "await" /\ m.opts = opts[m.writer] /\ m.cells = cell[m.writer]

LastType ==
  last \in SUBSET [writer : Writers, opts : Options, cells : Cells,
                   result : {"pending", "none", "ok", "error"}]

\* While the attempt that changed the zone last goes on, it is about that change.
PendingIsAwaited ==
  \A d \in last : d.result = "pending" =>
    /\ pc[d.writer] \in {"await", "verify"}
    /\ d.opts = opts[d.writer] /\ d.cells = cell[d.writer]

AuditInv ==
  /\ NoProbeRuns
  /\ PlanIsEvidence
  /\ EvidenceWasSeen
  /\ TagIsAwaited
  /\ LastType
  /\ PendingIsAwaited
  /\ DivergenceDetected

-----------------------------------------------------------------------------
\* A plan writes to a family only what was observed of it.
LEMMA PlanForWrites ==
  ASSUME NEW recs, NEW o, NEW c
  PROVE  \A op \in PlanFor(recs, o, c) : op.kind # "delete" =>
           OpType(op) \in ObservedIn(c) /\ op.desired.content = c[OpType(op)].addr
<1>0. ObservedIn(c) \subseteq Family /\ \A f \in Family : AddressIn(c)[f] = c[f].addr
  BY DEF ObservedIn, AddressIn
<1>1. \A op \in BuildDeletePlan(recs, o.selection) : op.kind = "delete"
  BY OpKinds DEF BuildDeletePlan
<1>2. ASSUME NEW op \in BuildObservedAddressPlan(recs, AddressIn(c), ObservedIn(c), Config),
             op.kind # "delete"
      PROVE  OpType(op) \in ObservedIn(c) /\ op.desired.content = c[OpType(op)].addr
  <2>1. PICK f \in ObservedIn(c) : op \in BuildTypePlan(ByType(recs, f), f, AddressIn(c)[f], Config)
    BY DEF BuildObservedAddressPlan
  <2> DEFINE d == DesiredRecord(f, AddressIn(c)[f], Config)
  <2>2. d.type = f /\ d.content = c[f].addr
    BY <1>0, <2>1 DEF DesiredRecord
  <2>3. \/ \E r \in ByType(recs, f) : op = DeleteOp(r)
        \/ op = CreateOp(d)
        \/ \E r \in ByType(recs, f) : op = UpdateOp(r, d)
    BY <2>1, TypePlanOps
  <2> HIDE DEF d
  <2>4. op.desired = d /\ op.kind \in {"create", "update"}
    BY <1>2, <2>3, OpKinds
  <2>5. op.kind = "update" => op.current.type = f
    BY <2>3, OpKinds DEF ByType
  <2> QED BY <2>1, <2>2, <2>4, <2>5 DEF OpType
<1>3. ASSUME NEW op \in ForcePushPlan(recs, AddressIn(c), ObservedIn(c), Config)
      PROVE  op.kind # "delete" =>
               OpType(op) \in ObservedIn(c) /\ op.desired.content = c[OpType(op)].addr
  <2>1. PICK f \in ObservedIn(c) :
          /\ op.desired = DesiredRecord(f, AddressIn(c)[f], Config)
          /\ op.kind = "update" /\ op.current.type = f
    BY ForcePushPlanParts
  <2>2. op.desired.content = c[f].addr
    BY <1>0, <2>1 DEF DesiredRecord
  <2> QED BY <2>1, <2>2 DEF OpType
<1> QED BY <1>1, <1>2, <1>3 DEF PlanFor, ReconcilePlan

-----------------------------------------------------------------------------
(* What a step may mean to a process. *)

\* The records that a process plans from.
Base(w) == IF pc[w] = "read" THEN zone ELSE snap[w]

\* What lets an attempt end well: a verified batch, or nothing to write.
Earned(w) ==
  \/ pc[w] = "verify" /\ Verified(w)
  \/ pc[w] \in {"wait", "read"} /\ (opts[w].dry \/ PlanFor(Base(w), opts[w], cell[w]) = {})

\* It is not about the process.
Untouched(w) ==
  /\ pc'[w] = pc[w] /\ opts'[w] = opts[w] /\ cell'[w] = cell[w]
  /\ snap'[w] = snap[w] /\ plan'[w] = plan[w] /\ tag'[w] = tag[w]

\* An attempt begins, with no evidence.
BeginsAfresh(w) ==
  /\ pc[w] \in Resting /\ pc'[w] \in {"gather", "read"}
  /\ tag'[w] = tag[w] /\ egress' = egress
  /\ \A f \in Family : cell'[w][f].st # "ok" /\ (pc'[w] = "read" => cell'[w][f].st # "running")

\* A probe ends.
Gathers(w) ==
  /\ pc'[w] = pc[w] /\ opts'[w] = opts[w] /\ snap'[w] = snap[w] /\ plan'[w] = plan[w] /\ tag'[w] = tag[w]
  /\ \E f \in Running(w) : \E c \in Cell :
       (c.st = "ok" => c.addr = egress[f]) /\ cell'[w] = [cell[w] EXCEPT ![f] = c]

\* The attempt goes on, from the read to the plan, the batch and the reply.
Proceeds(w) ==
  /\ opts'[w] = opts[w] /\ cell'[w] = cell[w]
  /\ \/ pc[w] = "gather" /\ pc'[w] = "wait" /\ tag'[w] = tag[w] /\ snap'[w] = zone
     \/ /\ pc[w] \in {"wait", "read"} /\ pc'[w] = "send" /\ tag'[w] = tag[w]
        /\ Running(w) = {}
        /\ plan'[w] = PlanFor(Base(w), opts[w], cell[w])
     \/ /\ pc[w] = "send" /\ pc'[w] = "await" /\ plan'[w] = plan[w]
        /\ tag'[w] \notin {m.tag : m \in batches}
     \/ pc[w] = "await" /\ pc'[w] = "verify" /\ tag'[w] = 0

\* The attempt ends; it ends well only if that is earned.
EndsAttempt(w) ==
  /\ pc'[w] \in Resting
  /\ tag'[w] = 0
  /\ pc'[w] = "idle" /\ outcome'[w] = "ok" => Earned(w)

Steps(w) ==
  Untouched(w) \/ BeginsAfresh(w) \/ Gathers(w) \/ Proceeds(w) \/ EndsAttempt(w)

LEMMA ReturnsSteps ==
  ASSUME TypeOK, NEW v \in Writers, NEW w \in Writers, NEW err \in Errors, AttemptReturns(v, err),
         err = "nil" => Earned(v)
  PROVE  Steps(w)
<1>1. CASE w # v
  <2>1. Untouched(w)
    BY <1>1 DEF AttemptReturns, Untouched, TypeOK
  <2> QED BY <2>1 DEF Steps
<1>2. CASE w = v
  <2>1. pc'[w] \in Resting /\ tag'[w] = 0
    BY <1>2 DEF AttemptReturns, TypeOK, Resting
  <2>2. pc'[w] = "idle" /\ outcome'[w] = "ok" => err = "nil"
    BY <1>2 DEF AttemptReturns, CanRetry, TypeOK, Errors
  <2> QED BY <1>2, <2>1, <2>2 DEF EndsAttempt, Steps
<1> QED BY <1>1, <1>2

LEMMA BeginsSteps ==
  ASSUME TypeOK, NEW v \in Writers, NEW w \in Writers, pc[v] \in Resting, NEW o \in Options, NEW n,
         BeginAttempt(v, o, n), opts' = [opts EXCEPT ![v] = o], UNCHANGED <<egress, snap, plan, tag>>
  PROVE  Steps(w)
<1>1. CASE w # v
  <2>1. Untouched(w)
    BY <1>1 DEF BeginAttempt, Untouched, TypeOK
  <2> QED BY <2>1 DEF Steps
<1>2. CASE w = v
  <2>1. /\ pc'[w] = IF o.mode = "delete" THEN "read" ELSE "gather"
        /\ cell'[w] = IF o.mode = "delete" THEN NoCells ELSE [f \in Family |-> CellOf("running")]
    BY <1>2 DEF BeginAttempt, TypeOK
  <2>2. \A f \in Family : cell'[w][f].st # "ok" /\ (pc'[w] = "read" => cell'[w][f].st # "running")
    BY <2>1 DEF NoCells, CellOf
  <2>3. BeginsAfresh(w)
    BY <1>2, <2>1, <2>2 DEF BeginsAfresh
  <2> QED BY <2>3 DEF Steps
<1> QED BY <1>1, <1>2

LEMMA SetCellSteps ==
  ASSUME TypeOK, NEW v \in Writers, NEW w \in Writers, NEW f \in Running(v), NEW c \in Cell,
         SetCell(v, f, c), c.st = "ok" => c.addr = egress[f]
  PROVE  Steps(w)
<1>1. CASE w # v
  <2>1. Untouched(w)
    BY <1>1 DEF SetCell, Untouched, TypeOK
  <2> QED BY <2>1 DEF Steps
<1>2. CASE w = v
  <2>1. cell'[w] = [cell[w] EXCEPT ![f] = c]
    BY <1>2 DEF SetCell, TypeOK
  <2>2. Gathers(w)
    BY <1>2, <2>1 DEF Gathers, SetCell
  <2> QED BY <2>2 DEF Steps
<1> QED BY <1>1, <1>2

LEMMA PlannedSteps ==
  ASSUME TypeOK, NEW v \in Writers, NEW w \in Writers, pc[v] \in {"wait", "read"},
         Running(v) = {}, Planned(v, PlanFor(Base(v), opts[v], cell[v]))
  PROVE  Steps(w)
<1> DEFINE p == PlanFor(Base(v), opts[v], cell[v])
<1>1. CASE p = {} \/ opts[v].dry
  <2>1. AttemptReturns(v, "nil") /\ "nil" \in Errors
    BY <1>1 DEF Planned, Errors
  <2>2. Earned(v)
    BY <1>1 DEF Earned
  <2> QED BY <2>1, <2>2, ReturnsSteps
<1>2. CASE ~ (p = {} \/ opts[v].dry)
  <2>1. /\ plan' = [plan EXCEPT ![v] = p] /\ pc' = [pc EXCEPT ![v] = "send"]
        /\ opts' = opts /\ cell' = cell /\ snap' = snap /\ tag' = tag
    BY <1>2 DEF Planned
  <2>2. CASE w # v
    <3>1. Untouched(w)
      BY <2>1, <2>2 DEF Untouched, TypeOK
    <3> QED BY <3>1 DEF Steps
  <2>3. CASE w = v
    <3>1. plan'[w] = p /\ pc'[w] = "send"
      BY <2>1, <2>3 DEF TypeOK
    <3>2. Proceeds(w)
      BY <2>1, <2>3, <3>1 DEF Proceeds
    <3> QED BY <3>2 DEF Steps
  <2> QED BY <2>2, <2>3
<1> QED BY <1>1, <1>2

\* A step that leaves all processes alone.
LEMMA StaysSteps ==
  ASSUME NEW w, UNCHANGED <<pc, opts, cell, snap, plan, tag>>
  PROVE  Steps(w)
BY DEF Steps, Untouched

LEMMA AdvanceSteps ==
  ASSUME TypeOK, NoProbeRuns, NEW v \in Writers, NEW w \in Writers, Advance(v)
  PROVE  Steps(w)
<1>0. "nil" \in Errors /\ "fatal" \in Errors
  BY DEF Errors
<1>1. CASE BackoffEnds(v)
  <2>1. opts[v] \in Options /\ opts' = [opts EXCEPT ![v] = opts[v]]
    BY <1>1 DEF BackoffEnds, TypeOK
  <2> QED BY <1>1, <2>1, BeginsSteps DEF BackoffEnds, Resting
<1>2. ASSUME NEW f \in Family, ProbeAnswers(v, f) PROVE Steps(w)
  <2>1. Answer(egress[f]) \in Cell /\ Answer(egress[f]).addr = egress[f]
    BY CellTypes DEF TypeOK, Answer
  <2> QED BY <1>2, <2>1, SetCellSteps DEF ProbeAnswers
<1>3. CASE CollectReads(v)
  <2>1. CASE w # v
    BY <1>3, <2>1 DEF CollectReads, Untouched, Steps, TypeOK
  <2>2. CASE w = v
    BY <1>3, <2>2 DEF CollectReads, Proceeds, Steps, TypeOK
  <2> QED BY <2>1, <2>2
<1>4. CASE CollectFails(v)
  <2>1. CollectError(v) \in Errors
    BY DEF CollectError, Errors
  <2> QED BY <1>4, <2>1, ReturnsSteps DEF CollectFails, Collected
<1>5. CASE Plans(v)
  <2>1. pc[v] = "wait" /\ Running(v) = {}
    BY <1>5 DEF Plans, Collected
  <2>2. AttemptReturns(v, "fatal") \/ Planned(v, PlanFor(Base(v), opts[v], cell[v]))
    BY <1>5, <2>1 DEF Plans, Base
  <2> QED BY <1>0, <2>1, <2>2, ReturnsSteps, PlannedSteps
<1>6. CASE DeleteReads(v)
  <2>1. pc[v] = "read" /\ Running(v) = {} /\ Planned(v, PlanFor(Base(v), opts[v], cell[v]))
    BY <1>6 DEF DeleteReads, NoProbeRuns, Base
  <2> QED BY <2>1, PlannedSteps
<1>7. CASE Sends(v)
  <2>1. PICK t \in FreeTag : tag' = [tag EXCEPT ![v] = t]
    BY <1>7 DEF Sends
  <2>2. t \notin {m.tag : m \in batches}
    BY DEF FreeTag
  <2>3. pc[v] = "send" /\ pc' = [pc EXCEPT ![v] = "await"] /\ UNCHANGED <<opts, cell, snap, plan>>
    BY <1>7 DEF Sends
  <2>4. CASE w # v
    BY <2>1, <2>3, <2>4 DEF Untouched, Steps, TypeOK
  <2>5. CASE w = v
    BY <2>1, <2>2, <2>3, <2>5 DEF Proceeds, Steps, TypeOK
  <2> QED BY <2>4, <2>5
<1>8. CASE SendAborted(v)
  BY <1>0, <1>8, ReturnsSteps DEF SendAborted
<1>9. CASE ApplyReturns(v)
  <2>1. CASE AttemptReturns(v, "fatal")
    BY <1>0, <2>1, ReturnsSteps
  <2>2. CASE /\ pc[v] = "await" /\ pc' = [pc EXCEPT ![v] = "verify"] /\ tag' = [tag EXCEPT ![v] = 0]
             /\ UNCHANGED <<opts, cell, snap, plan>>
    <3>1. CASE w # v
      BY <2>2, <3>1 DEF Untouched, Steps, TypeOK
    <3>2. CASE w = v
      BY <2>2, <3>2 DEF Proceeds, Steps, TypeOK
    <3> QED BY <3>1, <3>2
  <2> QED BY <1>9, <2>1, <2>2 DEF ApplyReturns
<1>10. CASE Verifies(v)
  BY <1>0, <1>10, ReturnsSteps DEF Verifies, Earned
<1> QED BY <1>1, <1>2, <1>3, <1>4, <1>5, <1>6, <1>7, <1>8, <1>9, <1>10 DEF Advance

LEMMA DisturbanceSteps ==
  ASSUME TypeOK, NEW w \in Writers, Disturbance
  PROVE  Steps(w)
<1>1. ASSUME NEW v \in Writers, BackoffAborted(v) PROVE Steps(w)
  <2>1. "fatal" \in Errors
    BY DEF Errors
  <2> QED BY <1>1, <2>1, ReturnsSteps DEF BackoffAborted
<1>2. ASSUME NEW v \in Writers, Cancel(v) PROVE Steps(w)
  BY <1>2, StaysSteps DEF Cancel
<1>3. ASSUME NEW v \in Writers, Crash(v) PROVE Steps(w)
  <2>1. CASE w # v
    BY <1>3, <2>1 DEF Crash, Untouched, Steps, TypeOK
  <2>2. CASE w = v
    BY <1>3, <2>2 DEF Crash, EndsAttempt, Resting, Steps, TypeOK
  <2> QED BY <2>1, <2>2
<1>4. ASSUME NEW v \in Writers, NEW err \in Errors, ReadFails(v, err) \/ ApplyLost(v, err) PROVE Steps(w)
  <2>1. err # "nil" /\ AttemptReturns(v, err)
    BY <1>4 DEF ReadFails, ApplyLost, Excuse
  <2> QED BY <2>1, ReturnsSteps
<1>5. ASSUME NEW v \in Writers, NEW err \in Errors, NEW f \in Family, ProbeFails(v, f, err)
      PROVE  Steps(w)
  <2>1. err \in {"retryable", "fatal"} /\ f \in Running(v) /\ SetCell(v, f, CellOf(err))
    BY <1>5 DEF ProbeFails, Excuse
  <2>2. CellOf(err) \in Cell /\ CellOf(err).st # "ok"
    BY <2>1, CellTypes DEF CellOf
  <2> QED BY <2>1, <2>2, SetCellSteps
<1>6. ASSUME NEW f \in Family, NEW a \in Probed, EgressChanges(f, a) PROVE Steps(w)
  BY <1>6, StaysSteps DEF EgressChanges, local
<1> QED BY <1>1, <1>2, <1>3, <1>4, <1>5, <1>6 DEF Disturbance

LEMMA EveryStepSteps ==
  ASSUME TypeOK, NoProbeRuns, [Next]_vars, NEW w \in Writers
  PROVE  Steps(w)
<1>1. ASSUME NEW v \in Writers, Starts(v) PROVE Steps(w)
  BY <1>1, BeginsSteps DEF Starts, Start, Resting
<1>2. ASSUME NEW v \in Writers, Advance(v) PROVE Steps(w)
  BY <1>2, AdvanceSteps
<1>3. ASSUME NEW g \in leaked, LeakedProbeEnds(g) PROVE Steps(w)
  BY <1>3, StaysSteps DEF LeakedProbeEnds
<1>4. CASE Serve
  BY <1>4, StaysSteps DEF Serve, ServerApplies, ServerRefuses, Answers
<1>5. CASE Disturbance
  BY <1>5, DisturbanceSteps
<1>6. CASE UNCHANGED vars
  BY <1>6, StaysSteps DEF vars, local
<1> QED BY <1>1, <1>2, <1>3, <1>4, <1>5, <1>6 DEF Next

\* Whoever sends a batch waits for it.
LEMMA NewBatches ==
  ASSUME TypeOK, [Next]_vars, NEW m \in batches', m \notin batches
  PROVE  /\ m.writer \in Writers /\ pc[m.writer] = "send" /\ pc'[m.writer] = "await"
         /\ m.opts = opts'[m.writer] /\ m.cells = cell'[m.writer]
         /\ m.opts = opts[m.writer] /\ m.cells = cell[m.writer] /\ m.plan = plan[m.writer]
         /\ m.tag \notin {n.tag : n \in batches} /\ batches' = batches \cup {m} /\ zone' = zone
<1>1. PICK w \in Writers : Sends(w)
  <2>1. ~ Serve
    BY DEF Serve, ServerApplies, ServerRefuses, Answers
  <2>2. ~ Disturbance
    BY DEF Disturbance, BackoffAborted, Cancel, Crash, Abandon, ReadFails, ApplyLost, ProbeFails, SetCell,
           EgressChanges
  <2>3. \A w \in Writers : ~ Starts(w)
    BY DEF Starts, Start
  <2>4. \A w \in Writers : Advance(w) => Sends(w)
    BY DEF Advance, BackoffEnds, ProbeAnswers, SetCell, CollectReads, CollectFails, Plans, DeleteReads,
           SendAborted, ApplyReturns, Verifies
  <2>5. \A g \in leaked : ~ LeakedProbeEnds(g)
    BY DEF LeakedProbeEnds
  <2>6. ~ UNCHANGED vars
    BY DEF vars
  <2> QED BY <2>1, <2>2, <2>3, <2>4, <2>5, <2>6 DEF Next
<1>2. PICK t \in FreeTag : m = BatchOf(w, t) /\ batches' = batches \cup {m}
  BY <1>1 DEF Sends
<1>3. pc[w] = "send" /\ pc'[w] = "await" /\ opts' = opts /\ cell' = cell /\ zone' = zone
  BY <1>1 DEF Sends, TypeOK
<1>4. t \notin {n.tag : n \in batches}
  BY DEF FreeTag
<1> QED BY <1>2, <1>3, <1>4 DEF BatchOf

-----------------------------------------------------------------------------
(* Each part of the invariant is kept. *)

LEMMA KeepsNoProbeRuns ==
  ASSUME NoProbeRuns, \A w \in Writers : Steps(w)
  PROVE  NoProbeRuns'
<1> SUFFICES ASSUME NEW w \in Writers, pc'[w] \in {"read", "send", "await", "verify"}
             PROVE  Running(w)' = {}
  BY DEF NoProbeRuns
<1>1. CASE Untouched(w)
  BY <1>1 DEF Untouched, NoProbeRuns, Running
<1>2. CASE BeginsAfresh(w)
  BY <1>2 DEF BeginsAfresh, Running
<1>3. CASE Gathers(w)
  BY <1>3 DEF Gathers, NoProbeRuns
<1>4. CASE Proceeds(w)
  BY <1>4 DEF Proceeds, NoProbeRuns, Running
<1> QED BY <1>1, <1>2, <1>3, <1>4 DEF Steps, EndsAttempt, Resting

LEMMA KeepsPlanIsEvidence ==
  ASSUME NoProbeRuns, PlanIsEvidence, \A w \in Writers : Steps(w)
  PROVE  PlanIsEvidence'
<1> SUFFICES ASSUME NEW w \in Writers, pc'[w] \in {"send", "await"}, NEW op \in plan'[w], op.kind # "delete"
             PROVE  OpType(op) \in ObservedIn(cell'[w]) /\ op.desired.content = cell'[w][OpType(op)].addr
  BY DEF PlanIsEvidence
<1>1. CASE Untouched(w)
  BY <1>1 DEF Untouched, PlanIsEvidence
<1>2. CASE BeginsAfresh(w)
  BY <1>2 DEF BeginsAfresh
<1>3. CASE Gathers(w)
  BY <1>3 DEF Gathers, NoProbeRuns
<1>4. CASE Proceeds(w)
  <2>1. cell'[w] = cell[w]
    BY <1>4 DEF Proceeds
  <2>2. CASE pc[w] = "send" /\ plan'[w] = plan[w]
    BY <2>1, <2>2 DEF PlanIsEvidence
  <2>3. CASE plan'[w] = PlanFor(Base(w), opts[w], cell[w])
    BY <2>1, <2>3, PlanForWrites
  <2> QED BY <1>4, <2>1, <2>2, <2>3 DEF Proceeds
<1> QED BY <1>1, <1>2, <1>3, <1>4 DEF Steps, EndsAttempt, Resting

LEMMA KeepsEvidenceWasSeen ==
  ASSUME TypeOK, EvidenceWasSeen, \A w \in Writers : Steps(w), RecordEgress
  PROVE  EvidenceWasSeen'
<1> SUFFICES ASSUME NEW w \in Writers, pc'[w] \notin Resting, NEW f \in Family
             PROVE  /\ egress'[f] \in seen'[w][f]
                    /\ f \in ObservedIn(cell'[w]) => cell'[w][f].addr \in seen'[w][f]
  BY DEF EvidenceWasSeen
<1>1. seen'[w][f] = IF Begins(w) THEN {egress[f]} ELSE seen[w][f] \cup {egress'[f]}
  BY DEF RecordEgress, Resting
<1>2. CASE BeginsAfresh(w)
  BY <1>1, <1>2 DEF BeginsAfresh, Begins, Resting, ObservedIn
<1>3. CASE pc[w] \notin Resting
  <2>1. /\ seen'[w][f] = seen[w][f] \cup {egress'[f]}
        /\ egress[f] \in seen[w][f]
        /\ f \in ObservedIn(cell[w]) => cell[w][f].addr \in seen[w][f]
    BY <1>1, <1>3 DEF Begins, Resting, EvidenceWasSeen
  <2>2. f \in ObservedIn(cell'[w]) => cell'[w][f].addr \in seen[w][f]
    <3>1. CASE cell'[w] = cell[w]
      BY <2>1, <3>1
    <3>2. CASE Gathers(w)
      BY <2>1, <3>2 DEF Gathers, ObservedIn, TypeOK, Cells
    <3> QED BY <1>3, <3>1, <3>2 DEF Steps, Untouched, BeginsAfresh, Proceeds, EndsAttempt
  <2> QED BY <2>1, <2>2
<1> QED BY <1>2, <1>3 DEF Steps, Untouched, Gathers, Proceeds, EndsAttempt, Resting

LEMMA KeepsTagIsAwaited ==
  ASSUME TypeOK, NoProbeRuns, TagIsAwaited, [Next]_vars, \A w \in Writers : Steps(w)
  PROVE  TagIsAwaited'
<1> SUFFICES ASSUME NEW m \in batches', tag'[m.writer] = m.tag
             PROVE  /\ pc'[m.writer] = "await"
                    /\ m.opts = opts'[m.writer] /\ m.cells = cell'[m.writer]
  BY DEF TagIsAwaited
<1>1. CASE m \notin batches
  BY <1>1, NewBatches
<1>2. CASE m \in batches
  <2> DEFINE w == m.writer
  <2>1. w \in Writers /\ m.tag # 0
    BY <1>2 DEF TypeOK, Batch, Tags
  <2>2. tag[w] = m.tag => pc[w] = "await" /\ m.opts = opts[w] /\ m.cells = cell[w]
    BY <1>2 DEF TagIsAwaited
  <2>3. m.tag \in {n.tag : n \in batches}
    BY <1>2
  <2> HIDE DEF w
  <2>4. tag'[w] = m.tag
    BY DEF w
  <2>5. CASE Untouched(w)
    BY <2>2, <2>4, <2>5 DEF Untouched, w
  <2>6. CASE BeginsAfresh(w)
    BY <2>2, <2>4, <2>6 DEF BeginsAfresh, Resting
  <2>7. CASE Gathers(w)
    BY <2>1, <2>2, <2>4, <2>7 DEF Gathers, NoProbeRuns
  <2>8. CASE Proceeds(w)
    BY <2>1, <2>2, <2>3, <2>4, <2>8 DEF Proceeds
  <2> QED BY <2>1, <2>4, <2>5, <2>6, <2>7, <2>8 DEF Steps, EndsAttempt
<1> QED BY <1>1, <1>2

\* After a change, the last one is that of the batch that was handled.
LEMMA ChangeIsLast ==
  ASSUME TypeOK, TagIsAwaited, [Next]_vars, RecordLast, zone' # zone
  PROVE  LastType' /\ PendingIsAwaited' /\ DivergenceDetected'
<1>1. PICK m \in batches \ batches' : ServerApplies(m)
  BY OnlyBatchesChange
<1>2. UNCHANGED <<pc, opts, cell>>
  BY <1>1 DEF ServerApplies, Answers
<1>3. ASSUME NEW d \in last'
      PROVE  /\ d \in [writer : Writers, opts : Options, cells : Cells,
                       result : {"pending", "none", "ok", "error"}]
             /\ d.result # "ok"
             /\ d.result = "pending" => /\ pc[d.writer] = "await" /\ d.opts = opts[d.writer]
                                        /\ d.cells = cell[d.writer]
  <2>1. PICK n \in batches :
          d = [writer |-> n.writer, opts |-> n.opts, cells |-> n.cells,
               result |-> IF tag[n.writer] = n.tag THEN "pending" ELSE "error"]
    BY <1>3 DEF RecordLast
  <2>2. n \in Batch
    BY DEF TypeOK
  <2>3. n.writer \in Writers /\ n.opts \in Options /\ n.cells \in Cells
    BY <2>2 DEF Batch
  <2>4. tag[n.writer] = n.tag =>
          pc[n.writer] = "await" /\ n.opts = opts[n.writer] /\ n.cells = cell[n.writer]
    BY DEF TagIsAwaited
  <2> QED BY <2>1, <2>3, <2>4
<1>4. LastType'
  BY <1>3 DEF LastType
<1>5. PendingIsAwaited'
  BY <1>2, <1>3 DEF PendingIsAwaited
<1>6. DivergenceDetected'
  BY <1>3 DEF DivergenceDetected
<1> QED BY <1>4, <1>5, <1>6

\* Without a change, the last one may get its result: success if its attempt
\* has verified the zone that is still there.
LEMMA LastStays ==
  ASSUME TypeOK, TypeOK', NoProbeRuns, LastType, PendingIsAwaited, DivergenceDetected,
         \A w \in Writers : Steps(w), RecordLast, zone' = zone
  PROVE  LastType' /\ PendingIsAwaited' /\ DivergenceDetected'
<1>1. ASSUME NEW d \in last'
      PROVE  /\ d \in [writer : Writers, opts : Options, cells : Cells,
                       result : {"pending", "none", "ok", "error"}]
             /\ d.result = "pending" => /\ pc'[d.writer] \in {"await", "verify"}
                                        /\ d.opts = opts'[d.writer] /\ d.cells = cell'[d.writer]
             /\ d.result = "ok" => \A f \in Goal(d.opts, d.cells) :
                                     Publishes(zone, f, GoalAddr(d.opts, d.cells, f), Config)
  <2>1. PICK e \in last :
          d = IF e.result = "pending" /\ pc'[e.writer] \in {"idle", "backoff"}
              THEN [e EXCEPT !.result = IF pc'[e.writer] = "idle" THEN outcome'[e.writer] ELSE "error"]
              ELSE e
    BY <1>1 DEF RecordLast
  <2>2. /\ e \in [writer : Writers, opts : Options, cells : Cells,
                  result : {"pending", "none", "ok", "error"}]
        /\ e.result = "ok" => \A f \in Goal(e.opts, e.cells) :
                                Publishes(zone, f, GoalAddr(e.opts, e.cells, f), Config)
    BY DEF LastType, DivergenceDetected
  <2>3. e.writer \in Writers
    BY <2>2
  <2>4. e.result = "pending" =>
          /\ pc[e.writer] \in {"await", "verify"}
          /\ e.opts = opts[e.writer] /\ e.cells = cell[e.writer]
    BY DEF PendingIsAwaited
  <2>5. CASE e.result # "pending"
    BY <2>1, <2>2, <2>5
  <2>6. CASE e.result = "pending" /\ pc'[e.writer] \notin Resting
    <3>1. d = e
      BY <2>1, <2>6 DEF Resting
    <3>2. ~ BeginsAfresh(e.writer) /\ ~ EndsAttempt(e.writer)
      BY <2>4, <2>6 DEF BeginsAfresh, EndsAttempt, Resting
    <3>3. ~ Gathers(e.writer)
      BY <2>3, <2>4, <2>6 DEF Gathers, NoProbeRuns
    <3>4. /\ pc'[e.writer] \in {"await", "verify"}
          /\ opts'[e.writer] = opts[e.writer] /\ cell'[e.writer] = cell[e.writer]
      BY <2>3, <2>4, <2>6, <3>2, <3>3 DEF Steps, Untouched, Proceeds
    <3> QED BY <2>2, <2>4, <2>6, <3>1, <3>4
  <2>7. CASE e.result = "pending" /\ pc'[e.writer] \in Resting
    <3>1. /\ d.writer = e.writer /\ d.opts = e.opts /\ d.cells = e.cells
          /\ d.result = IF pc'[e.writer] = "idle" THEN outcome'[e.writer] ELSE "error"
          /\ d = [writer |-> e.writer, opts |-> e.opts, cells |-> e.cells, result |-> d.result]
      BY <2>1, <2>2, <2>7 DEF Resting
    <3>2. outcome'[e.writer] \in {"none", "ok", "error"}
      BY <2>3 DEF TypeOK
    <3>3. EndsAttempt(e.writer)
      BY <2>3, <2>4, <2>7 DEF Steps, Untouched, BeginsAfresh, Gathers, Proceeds, Resting
    <3>4. d.result = "ok" => Verified(e.writer)
      BY <2>4, <2>7, <3>1, <3>3 DEF EndsAttempt, Earned
    <3>5. d.result = "ok" => \A f \in Goal(d.opts, d.cells) :
                               Publishes(zone, f, GoalAddr(d.opts, d.cells, f), Config)
      BY <2>3, <2>4, <2>7, <3>1, <3>4, VerifiedIsGoal
    <3> QED BY <2>2, <3>1, <3>2, <3>5
  <2> QED BY <2>5, <2>6, <2>7
<1>2. LastType'
  BY <1>1 DEF LastType
<1>3. PendingIsAwaited'
  BY <1>1 DEF PendingIsAwaited
<1>4. DivergenceDetected'
  BY <1>1 DEF DivergenceDetected
<1> QED BY <1>2, <1>3, <1>4

-----------------------------------------------------------------------------
LEMMA InitAuditInv == AuditInit => AuditInv
BY DEF AuditInit, Init, AuditInv, NoProbeRuns, PlanIsEvidence, EvidenceWasSeen, TagIsAwaited, LastType,
       PendingIsAwaited, DivergenceDetected, Resting

\* A step of the history is a step of Runner.
LEMMA AuditStepIsStep == [AuditNext]_auditVars => [Next]_vars
BY DEF AuditNext, auditVars

LEMMA NextAuditInv == IInv /\ AuditInv /\ [AuditNext]_auditVars => AuditInv'
<1> SUFFICES ASSUME IInv, AuditInv, [AuditNext]_auditVars PROVE AuditInv'
  OBVIOUS
<1>1. [Next]_vars /\ TypeOK /\ TypeOK'
  BY AuditStepIsStep, NextIInv DEF IInv
<1>2. \A w \in Writers : Steps(w)
  BY <1>1, EveryStepSteps DEF AuditInv
<1>3. NoProbeRuns' /\ PlanIsEvidence' /\ TagIsAwaited'
  BY <1>1, <1>2, KeepsNoProbeRuns, KeepsPlanIsEvidence, KeepsTagIsAwaited DEF AuditInv
<1>4. CASE AuditNext
  <2>1. EvidenceWasSeen'
    BY <1>1, <1>2, <1>4, KeepsEvidenceWasSeen DEF AuditInv, AuditNext
  <2>2. LastType' /\ PendingIsAwaited' /\ DivergenceDetected'
    BY <1>1, <1>2, <1>4, ChangeIsLast, LastStays DEF AuditInv, AuditNext
  <2> QED BY <1>3, <2>1, <2>2 DEF AuditInv
<1>5. CASE UNCHANGED auditVars
  BY <1>3, <1>5
     DEF AuditInv, auditVars, vars, local, EvidenceWasSeen, LastType, PendingIsAwaited, DivergenceDetected
<1> QED BY <1>4, <1>5

\* With any number of processes, every address that a plan writes was that of
\* its family during the very attempt that writes it.
THEOREM EvidenceIsFresh == AuditSpec => []FreshEvidence
<1>1. IInv /\ AuditInv => FreshEvidence
  <2> SUFFICES ASSUME IInv, AuditInv, NEW w \in Writers, pc[w] \in {"send", "await"},
                      NEW op \in plan[w], op.kind # "delete"
               PROVE  op.desired.content \in seen[w][OpType(op)]
    BY DEF FreshEvidence
  <2>1. OpType(op) \in ObservedIn(cell[w]) /\ op.desired.content = cell[w][OpType(op)].addr
    BY DEF AuditInv, PlanIsEvidence
  <2>2. OpType(op) \in Family
    BY <2>1 DEF ObservedIn
  <2> QED BY <2>1, <2>2 DEF AuditInv, EvidenceWasSeen, Resting
<1>2. AuditInit => IInv
  BY InitIInv DEF AuditInit
<1>3. IInv /\ [AuditNext]_auditVars => IInv'
  BY AuditStepIsStep, NextIInv
<1> QED BY <1>1, <1>2, <1>3, InitAuditInv, NextAuditInv, PTL DEF AuditSpec

\* With any number of processes: when the attempt that changed the zone last
\* ends in success, its families hold what it was after.
THEOREM SuccessfulWritersAgree == AuditSpec => []DivergenceDetected
<1>1. AuditInv => DivergenceDetected
  BY DEF AuditInv
<1>2. AuditInit => IInv
  BY InitIInv DEF AuditInit
<1>3. IInv /\ [AuditNext]_auditVars => IInv'
  BY AuditStepIsStep, NextIInv
<1> QED BY <1>1, <1>2, <1>3, InitAuditInv, NextAuditInv, PTL DEF AuditSpec

-----------------------------------------------------------------------------
(* What a read is worth, for any number of processes and however late a     *)
(* batch takes effect.                                                      *)

\* No two updates of a plan rewrite the same record.
SeparateRewrites(p) == \A o, q \in Updates(p) : o.current.id = q.current.id => o = q

IdsSound ==
  /\ UniqueIds(zone)
  /\ \A w \in Writers : pc[w] = "wait" => UniqueIds(snap[w])
  /\ \A w \in Writers : pc[w] = "send" => SeparateRewrites(plan[w])
  /\ \A m \in batches : SeparateRewrites(m.plan)

TagsDiffer == \A m, n \in batches : m.tag = n.tag => m = n

\* What a process has read is still there, unless it has been overtaken.
SnapHolds == \A w \in Writers \ overtaken : pc[w] = "wait" => snap[w] = zone

\* What it is about to send is what it would plan now.
PlanHolds ==
  \A w \in Writers \ overtaken : pc[w] = "send" => plan[w] = PlanFor(zone, opts[w], cell[w])

ReadInv ==
  /\ IdsSound
  /\ TagsDiffer
  /\ SnapHolds
  /\ PlanHolds
  /\ PlanStillCurrent

LEMMA PlanForSeparates ==
  ASSUME NEW recs, UniqueIds(recs), NEW o, NEW c
  PROVE  SeparateRewrites(PlanFor(recs, o, c))
<1>1. Faithful(PlanFor(recs, o, c), recs) /\ RewritesOnce(PlanFor(recs, o, c))
  BY PlanForFaithful, PlanForRewritesOnce
<1> QED BY <1>1 DEF Faithful, Current, RewritesOnce, SeparateRewrites, UniqueIds

\* A batch keeps the IDs apart, whatever zone it meets.
LEMMA AppliesKeepsIds ==
  ASSUME UniqueIds(zone), NEW m \in batches, SeparateRewrites(m.plan), ServerApplies(m)
  PROVE  UniqueIds(zone')
<1> DEFINE free == Ids \ UsedIds
<1>1. PICK fresh \in FreshIds(m.plan, free) : zone' = ApplyBatch(zone, m.plan, fresh)
  BY DEF ServerApplies
<1> DEFINE Stays(r)    == r \in zone /\ r.id \notin Named(m.plan)
           Rewrites(r) == \E op \in Updates(m.plan) : r = WithId(op.desired, op.current.id)
           Created(r)  == \E c \in Creates(m.plan) : r = WithId(c.desired, fresh[c])
<1>2. \A r \in zone' : Stays(r) \/ Rewrites(r) \/ Created(r)
  BY <1>1 DEF ApplyBatch
<1>3. \A d, i : WithId(d, i).id = i
  BY DEF WithId
<1>4. \A r : Rewrites(r) => r.id \in Named(m.plan) /\ r.id \notin free
  BY <1>3 DEF Named, UsedIds
<1>5. \A r : Created(r) => r.id \in free
  BY <1>3 DEF FreshIds
<1>6. \A r : Stays(r) => r.id \notin Named(m.plan) /\ r.id \notin free
  BY DEF UsedIds
<1>7. \A r, q : Stays(r) /\ Stays(q) /\ r.id = q.id => r = q
  BY DEF UniqueIds
<1>8. \A r, q : Rewrites(r) /\ Rewrites(q) /\ r.id = q.id => r = q
  BY <1>3 DEF SeparateRewrites
<1>9. \A r, q : Created(r) /\ Created(q) /\ r.id = q.id => r = q
  BY <1>3 DEF FreshIds
<1> HIDE DEF Stays, Rewrites, Created, free
<1> QED BY <1>2, <1>4, <1>5, <1>6, <1>7, <1>8, <1>9 DEF UniqueIds

LEMMA KeepsIdsSound ==
  ASSUME TypeOK, IdsSound, [Next]_vars, \A w \in Writers : Steps(w)
  PROVE  IdsSound'
<1>1. UniqueIds(zone')
  BY OnlyBatchesChange, AppliesKeepsIds DEF IdsSound
<1>2. ASSUME NEW w \in Writers, pc'[w] = "wait" PROVE UniqueIds(snap'[w])
  BY <1>2 DEF IdsSound, Steps, Untouched, BeginsAfresh, Gathers, Proceeds, EndsAttempt, Resting
<1>3. ASSUME NEW w \in Writers, pc'[w] = "send" PROVE SeparateRewrites(plan'[w])
  <2>1. CASE pc[w] = "send" /\ plan'[w] = plan[w]
    BY <2>1 DEF IdsSound
  <2>2. CASE pc[w] \in {"wait", "read"} /\ plan'[w] = PlanFor(Base(w), opts[w], cell[w])
    <3>1. UniqueIds(Base(w))
      BY <2>2 DEF IdsSound, Base
    <3> QED BY <2>2, <3>1, PlanForSeparates
  <2> QED BY <1>3, <2>1, <2>2 DEF Steps, Untouched, BeginsAfresh, Gathers, Proceeds, EndsAttempt, Resting
<1>4. ASSUME NEW m \in batches' PROVE SeparateRewrites(m.plan)
  <2>1. CASE m \in batches
    BY <2>1 DEF IdsSound
  <2>2. CASE m \notin batches
    <3>1. m.writer \in Writers /\ pc[m.writer] = "send" /\ m.plan = plan[m.writer]
      BY <2>2, NewBatches
    <3> QED BY <3>1 DEF IdsSound
  <2> QED BY <2>1, <2>2
<1>5. (\A w \in Writers : pc[w] = "wait" => UniqueIds(snap[w]))'
  BY <1>2
<1>6. (\A w \in Writers : pc[w] = "send" => SeparateRewrites(plan[w]))'
  BY <1>3 DEF SeparateRewrites, Updates
<1>7. (\A m \in batches : SeparateRewrites(m.plan))'
  BY <1>4 DEF SeparateRewrites, Updates
<1> QED BY <1>1, <1>5, <1>6, <1>7 DEF IdsSound, UniqueIds

LEMMA KeepsTagsDiffer ==
  ASSUME TypeOK, TagsDiffer, [Next]_vars
  PROVE  TagsDiffer'
<1> SUFFICES ASSUME NEW m \in batches', NEW n \in batches', m.tag = n.tag PROVE m = n
  BY DEF TagsDiffer
<1>1. CASE m \in batches /\ n \in batches
  BY <1>1 DEF TagsDiffer
<1>2. CASE m \notin batches
  BY <1>2, NewBatches
<1>3. CASE n \notin batches
  BY <1>3, NewBatches
<1> QED BY <1>1, <1>2, <1>3

\* After a change, only the process whose batch it was, and that waits for it,
\* need not have been overtaken; it has nothing more in front of the provider.
LEMMA ChangeOvertakes ==
  ASSUME TypeOK, TagIsAwaited, TagIsAwaited', TagsDiffer, [Next]_vars, RecordOvertaken, zone' # zone
  PROVE  SnapHolds' /\ PlanHolds' /\ PlanStillCurrent'
<1>1. PICK m \in batches \ batches' : ServerApplies(m)
  BY OnlyBatchesChange
<1>2. UNCHANGED <<pc, tag>> /\ batches' = batches \ {m}
  BY <1>1 DEF ServerApplies, Answers
<1>3. ASSUME NEW w \in Writers, w \notin overtaken', pc[w] \in {"wait", "send", "await"}
      PROVE  m.writer = w /\ ~ Late(m)
  BY <1>2, <1>3 DEF RecordOvertaken
<1>4. ~ Late(m) => pc[m.writer] = "await"
  BY DEF TagIsAwaited, Late
<1>5. SnapHolds' /\ PlanHolds'
  BY <1>2, <1>3, <1>4 DEF SnapHolds, PlanHolds
<1>6. ASSUME NEW n \in batches', Timely(n)' PROVE FALSE
  <2>1. tag'[n.writer] = n.tag /\ n.writer \notin overtaken'
    BY <1>6 DEF Timely, Late
  <2>2. n.writer \in Writers /\ pc[n.writer] = "await"
    BY <1>2, <2>1 DEF TagIsAwaited, TypeOK, Batch
  <2>3. m.writer = n.writer /\ m.tag = n.tag
    BY <1>2, <1>3, <2>1, <2>2 DEF Late
  <2> QED BY <1>2, <2>3 DEF TagsDiffer
<1>7. PlanStillCurrent'
  BY <1>6 DEF PlanStillCurrent
<1> QED BY <1>5, <1>7

\* Without a change, what was read stays true.
LEMMA QuietReads ==
  ASSUME TypeOK, NoProbeRuns, TagIsAwaited, TagIsAwaited', SnapHolds, PlanHolds, PlanStillCurrent,
         [Next]_vars, \A w \in Writers : Steps(w), RecordOvertaken, zone' = zone
  PROVE  SnapHolds' /\ PlanHolds' /\ PlanStillCurrent'
<1>1. ASSUME NEW w \in Writers, w \notin overtaken', pc'[w] \in {"wait", "send", "await", "verify"}
      PROVE  w \notin overtaken \/ pc[w] \in {"gather", "read"}
  BY <1>1 DEF RecordOvertaken
<1>2. ASSUME NEW w \in Writers, w \notin overtaken', pc'[w] = "wait" PROVE snap'[w] = zone
  BY <1>1, <1>2 DEF SnapHolds, Steps, Untouched, BeginsAfresh, Gathers, Proceeds, EndsAttempt, Resting
<1>3. ASSUME NEW w \in Writers, w \notin overtaken', pc'[w] = "send"
      PROVE  plan'[w] = PlanFor(zone, opts'[w], cell'[w])
  <2>1. CASE Untouched(w)
    BY <1>1, <1>3, <2>1 DEF PlanHolds, Untouched
  <2>2. CASE Gathers(w)
    BY <1>3, <2>2 DEF Gathers, NoProbeRuns
  <2>3. CASE Proceeds(w)
    <3>1. /\ pc[w] \in {"wait", "read"} /\ plan'[w] = PlanFor(Base(w), opts[w], cell[w])
          /\ opts'[w] = opts[w] /\ cell'[w] = cell[w]
      BY <1>3, <2>3 DEF Proceeds
    <3>2. Base(w) = zone
      BY <1>1, <1>3, <3>1 DEF SnapHolds, Base
    <3> QED BY <3>1, <3>2
  <2> QED BY <1>3, <2>1, <2>2, <2>3 DEF Steps, BeginsAfresh, EndsAttempt, Resting
<1>4. ASSUME NEW n \in batches', Timely(n)' PROVE n.plan = PlanFor(zone, n.opts, n.cells)
  <2> DEFINE v == n.writer
  <2>1. tag'[v] = n.tag /\ v \notin overtaken'
    BY <1>4 DEF Timely, Late
  <2>2. pc'[v] = "await"
    BY <2>1 DEF TagIsAwaited
  <2>3. CASE n \notin batches
    <3>1. v \in Writers /\ pc[v] = "send" /\ n.opts = opts[v] /\ n.cells = cell[v] /\ n.plan = plan[v]
      BY <2>3, NewBatches
    <3>2. v \notin overtaken
      BY <1>1, <2>1, <2>2, <3>1
    <3> QED BY <3>1, <3>2 DEF PlanHolds
  <2>4. CASE n \in batches
    <3>1. v \in Writers /\ n.tag # 0 /\ n.tag \in {m.tag : m \in batches}
      BY <2>4 DEF TypeOK, Batch, Tags
    <3>2. Steps(v)
      BY <3>1
    <3> HIDE DEF v
    <3>3. tag[v] = n.tag /\ pc[v] = "await"
      BY <2>1, <2>2, <3>1, <3>2
         DEF Steps, Untouched, BeginsAfresh, Gathers, Proceeds, EndsAttempt, Resting
    <3>4. v \notin overtaken
      BY <1>1, <2>1, <2>2, <3>1, <3>3
    <3>5. Timely(n)
      BY <3>3, <3>4 DEF Timely, Late, v
    <3> QED BY <2>4, <3>5 DEF PlanStillCurrent
  <2> QED BY <2>3, <2>4
<1> QED BY <1>2, <1>3, <1>4 DEF SnapHolds, PlanHolds, PlanStillCurrent

LEMMA InitReadInv == AuditInit => ReadInv
<1> SUFFICES ASSUME AuditInit PROVE ReadInv
  OBVIOUS
<1>1. UniqueIds(zone) /\ batches = {} /\ \A w \in Writers : pc[w] = "idle"
  BY RunnerAssumption DEF AuditInit, Init, States
<1> QED BY <1>1 DEF ReadInv, IdsSound, TagsDiffer, SnapHolds, PlanHolds, PlanStillCurrent

LEMMA NextReadInv == IInv /\ AuditInv /\ ReadInv /\ [AuditNext]_auditVars => ReadInv'
<1> SUFFICES ASSUME IInv, AuditInv, ReadInv, [AuditNext]_auditVars PROVE ReadInv'
  OBVIOUS
<1>1. [Next]_vars /\ TypeOK
  BY AuditStepIsStep DEF IInv
<1>2. \A w \in Writers : Steps(w)
  BY <1>1, EveryStepSteps DEF AuditInv
<1>3. NoProbeRuns /\ TagIsAwaited /\ TagIsAwaited'
  BY NextAuditInv DEF AuditInv
<1>4. IdsSound' /\ TagsDiffer'
  BY <1>1, <1>2, KeepsIdsSound, KeepsTagsDiffer DEF ReadInv
<1>5. SnapHolds' /\ PlanHolds' /\ PlanStillCurrent'
  <2>1. CASE AuditNext
    BY <1>1, <1>2, <1>3, <2>1, ChangeOvertakes, QuietReads DEF ReadInv, AuditNext
  <2>2. CASE UNCHANGED auditVars
    BY <2>2 DEF auditVars, vars, local, ReadInv, SnapHolds, PlanHolds, PlanStillCurrent, Timely, Late
  <2> QED BY <2>1, <2>2
<1> QED BY <1>4, <1>5 DEF ReadInv

-----------------------------------------------------------------------------
(* What follows from it. *)

\* A published family holds one record at most.
LEMMA PublishedIsSmall ==
  ASSUME NEW recs \in SUBSET Record, NEW f, NEW a, NEW s, Publishes(recs, f, a, s)
  PROVE  IsFiniteSet(ByType(recs, f)) /\ Cardinality(ByType(recs, f)) \in 0..1
<1> DEFINE mine == ByType(recs, f)
<1>1. mine = {} \/ \E r : mine = {r}
  BY PublishedIs
<1> HIDE DEF mine
<1>2. CASE mine = {}
  <2>1. IsFiniteSet(mine) /\ Cardinality(mine) = 0
    BY <1>2, FS_EmptySet
  <2> QED BY <2>1 DEF mine
<1>3. ASSUME NEW r, mine = {r} PROVE IsFiniteSet(mine) /\ Cardinality(mine) = 1
  BY <1>3, FS_Singleton
<1> QED BY <1>1, <1>2, <1>3 DEF mine

\* A published family without records has the nil address.
LEMMA PublishedNothing ==
  ASSUME NEW recs \in SUBSET Record, NEW f, NEW a, NEW s, Publishes(recs, f, a, s), ByType(recs, f) = {}
  PROVE  a = NoAddr
<1>1. a # NoAddr => \E r : ByType(recs, f) = {r}
  BY PublishedIs
<1> QED BY <1>1

LEMMA AuditInvariant == AuditSpec => [](IInv /\ AuditInv /\ ReadInv)
<1>1. AuditInit => IInv
  BY InitIInv DEF AuditInit
<1>2. IInv /\ [AuditNext]_auditVars => IInv'
  BY AuditStepIsStep, NextIInv
<1> QED BY <1>1, <1>2, InitAuditInv, NextAuditInv, InitReadInv, NextReadInv, PTL DEF AuditSpec

\* With any number of processes, and however late batches take effect: a batch in
\* front of the provider is the plan for the zone as it is, unless it comes late
\* or its sender has been overtaken.
THEOREM PlansAreCurrent == AuditSpec => []PlanStillCurrent
<1>1. ReadInv => PlanStillCurrent
  BY DEF ReadInv
<1> QED BY <1>1, AuditInvariant, PTL

\* A batch that is neither late nor overtaken takes the families of its goal
\* there, and leaves the others as they are.
LEMMA TimelyAchieves ==
  ASSUME IInv, ReadInv, [Next]_vars, zone' # zone, \A m \in batches \ batches' : Timely(m)
  PROVE  \E m \in batches \ batches' :
           /\ zone' \in SUBSET Record
           /\ \A f \in Goal(m.opts, m.cells) : Publishes(zone', f, GoalAddr(m.opts, m.cells, f), Config)
           /\ \A t : t \notin Goal(m.opts, m.cells) => ByType(zone', t) = ByType(zone, t)
<1>1. TypeOK /\ UniqueIds(zone)
  BY DEF IInv, ReadInv, IdsSound
<1>2. PICK m \in batches \ batches' : ServerApplies(m)
  BY <1>1, OnlyBatchesChange
<1>3. m.plan = PlanFor(zone, m.opts, m.cells)
  BY DEF ReadInv, PlanStillCurrent
<1> QED BY <1>1, <1>2, <1>3, CurrentAchieves

\* Only an explicit ip=none, -delete, or a batch that comes late or whose sender
\* was overtaken takes the last record of a family away.
THEOREM RemovalsHaveEvidence == AuditSpec => RemovalNeedsEvidence
<1>1. IInv /\ AuditInv /\ ReadInv /\ [AuditNext]_auditVars =>
        [\A f \in Family : ByType(zone, f) # {} /\ ByType(zone', f) = {} =>
           \E m \in batches \ batches' :
             \/ f \in Goal(m.opts, m.cells) /\ GoalAddr(m.opts, m.cells, f) = NoAddr
             \/ ~ Timely(m)]_auditVars
  <2> SUFFICES ASSUME IInv, ReadInv, [Next]_vars, NEW f \in Family,
                      ByType(zone, f) # {}, ByType(zone', f) = {},
                      \A m \in batches \ batches' : Timely(m)
               PROVE  \E m \in batches \ batches' :
                        f \in Goal(m.opts, m.cells) /\ GoalAddr(m.opts, m.cells, f) = NoAddr
    BY AuditStepIsStep
  <2>1. zone' # zone
    OBVIOUS
  <2>2. PICK m \in batches \ batches' :
          /\ zone' \in SUBSET Record
          /\ \A g \in Goal(m.opts, m.cells) : Publishes(zone', g, GoalAddr(m.opts, m.cells, g), Config)
          /\ \A t : t \notin Goal(m.opts, m.cells) => ByType(zone', t) = ByType(zone, t)
    BY <2>1, TimelyAchieves
  <2>3. f \in Goal(m.opts, m.cells)
    BY <2>2
  <2>4. Publishes(zone', f, GoalAddr(m.opts, m.cells, f), Config)
    BY <2>2, <2>3
  <2>5. GoalAddr(m.opts, m.cells, f) = NoAddr
    BY <2>2, <2>4, PublishedNothing
  <2> QED BY <2>3, <2>5
<1> QED BY <1>1, AuditInvariant, PTL DEF AuditSpec, RemovalNeedsEvidence

\* A family that changes holds one record at most, unless by a batch that comes
\* late or whose sender was overtaken.
THEOREM NobodyDuplicates == AuditSpec => NoNewDuplicates
<1>1. IInv /\ AuditInv /\ ReadInv /\ [AuditNext]_auditVars =>
        [\A f \in Family : ByType(zone', f) # ByType(zone, f) =>
           \/ Cardinality(ByType(zone', f)) <= 1
           \/ \E m \in batches \ batches' : ~ Timely(m)]_auditVars
  <2> SUFFICES ASSUME IInv, ReadInv, [Next]_vars, NEW f \in Family, ByType(zone', f) # ByType(zone, f),
                      \A m \in batches \ batches' : Timely(m)
               PROVE  Cardinality(ByType(zone', f)) <= 1
    BY AuditStepIsStep
  <2>1. zone' # zone
    OBVIOUS
  <2>2. PICK m \in batches \ batches' :
          /\ zone' \in SUBSET Record
          /\ \A g \in Goal(m.opts, m.cells) : Publishes(zone', g, GoalAddr(m.opts, m.cells, g), Config)
          /\ \A t : t \notin Goal(m.opts, m.cells) => ByType(zone', t) = ByType(zone, t)
    BY <2>1, TimelyAchieves
  <2>3. Publishes(zone', f, GoalAddr(m.opts, m.cells, f), Config)
    BY <2>2
  <2>4. Cardinality(ByType(zone', f)) \in 0..1
    BY <2>2, <2>3, PublishedIsSmall
  <2> QED BY <2>4
<1> QED BY <1>1, AuditInvariant, PTL DEF AuditSpec, NoNewDuplicates

\* A run that ends in success, and was not a dry run, leaves its families as its
\* evidence or its selection demands: after a verified batch whatever others do,
\* and with nothing to write unless it was overtaken since it read.
THEOREM SuccessIsAligned == AuditSpec => SuccessMeansAligned
<1>1. IInv /\ AuditInv /\ ReadInv /\ [AuditNext]_auditVars =>
        [\A w \in Writers :
           /\ pc[w] # "idle" /\ pc'[w] = "idle" /\ outcome'[w] = "ok" /\ ~ opts[w].dry
           /\ pc[w] = "verify" \/ w \notin overtaken
           => \A f \in Goal(opts[w], cell[w]) :
                Publishes(zone, f, GoalAddr(opts[w], cell[w], f), Config)]_auditVars
  <2> SUFFICES ASSUME IInv, AuditInv, ReadInv, [Next]_vars, NEW w \in Writers,
                      pc[w] # "idle", pc'[w] = "idle", outcome'[w] = "ok", ~ opts[w].dry,
                      pc[w] = "verify" \/ w \notin overtaken
               PROVE  \A f \in Goal(opts[w], cell[w]) :
                        Publishes(zone, f, GoalAddr(opts[w], cell[w], f), Config)
    BY AuditStepIsStep
  <2>1. TypeOK /\ NoProbeRuns /\ UniqueIds(zone) /\ SnapHolds
    BY DEF IInv, AuditInv, ReadInv, IdsSound
  <2>2. Steps(w)
    BY <2>1, EveryStepSteps
  <2>3. Earned(w)
    BY <2>2 DEF Steps, Untouched, BeginsAfresh, Gathers, Proceeds, EndsAttempt
  <2>4. CASE pc[w] = "verify" /\ Verified(w)
    BY <2>1, <2>4, VerifiedIsGoal
  <2>5. CASE pc[w] \in {"wait", "read"} /\ PlanFor(Base(w), opts[w], cell[w]) = {}
    <3>1. Base(w) = zone
      BY <2>1, <2>5 DEF SnapHolds, Base
    <3>2. zone \in SUBSET Record /\ opts[w] \in Options /\ cell[w] \in Cells
      BY <2>1 DEF TypeOK
    <3> QED BY <2>1, <2>5, <3>1, <3>2, NothingToDo
  <2> QED BY <2>3, <2>4, <2>5 DEF Earned
<1> QED BY <1>1, AuditInvariant, PTL DEF AuditSpec, SuccessMeansAligned

-----------------------------------------------------------------------------
(* A sole writer. *)

\* What the last change was for is still there, even while nobody rests.
LastHolds ==
  \A d \in last : \A f \in Goal(d.opts, d.cells) :
    Publishes(zone, f, GoalAddr(d.opts, d.cells, f), Config)

LEMMA NextLastHolds ==
  ASSUME SoleWriter, IInv, SoleInv, LastType, LastHolds, [AuditNext]_auditVars
  PROVE  LastHolds'
<1>0. TypeOK /\ [Next]_vars
  BY AuditStepIsStep DEF IInv
<1>1. CASE AuditNext /\ zone' # zone
  <2>1. PICK m \in batches \ batches' : ServerApplies(m)
    BY <1>0, <1>1, OnlyBatchesChange
  <2>2. ASSUME NEW n \in batches PROVE n = m
    <3>1. PICK w : Writers = {w}
      BY DEF SoleWriter
    <3>2. m.writer \in Writers /\ n.writer \in Writers
      BY <1>0, BatchIsCurrent DEF SoleInv
    <3>3. m = BatchOf(m.writer, tag[m.writer]) /\ n = BatchOf(n.writer, tag[n.writer])
      BY DEF SoleInv, BatchIsAwaited
    <3> QED BY <3>1, <3>2, <3>3
  <2>3. \A d \in last' : d.opts = m.opts /\ d.cells = m.cells
    BY <1>1, <2>2 DEF AuditNext, RecordLast
  <2>4. \A f \in Goal(m.opts, m.cells) : Publishes(zone', f, GoalAddr(m.opts, m.cells, f), Config)
    BY <2>1, AppliesAchieves
  <2> QED BY <2>3, <2>4 DEF LastHolds
<1>2. CASE AuditNext /\ zone' = zone
  <2>1. \A d \in last' : \E e \in last : d.opts = e.opts /\ d.cells = e.cells
    <3>1. ASSUME NEW d \in last'
          PROVE  \E e \in last : d.opts = e.opts /\ d.cells = e.cells
      <4>1. PICK e \in last :
              d = IF e.result = "pending" /\ pc'[e.writer] \in {"idle", "backoff"}
                  THEN [e EXCEPT !.result = IF pc'[e.writer] = "idle" THEN outcome'[e.writer] ELSE "error"]
                  ELSE e
        BY <1>2 DEF AuditNext, RecordLast
      <4>2. e \in [writer : Writers, opts : Options, cells : Cells,
                   result : {"pending", "none", "ok", "error"}]
        BY DEF LastType
      <4> QED BY <4>1, <4>2
    <3> QED BY <3>1
  <2> QED BY <1>2, <2>1 DEF LastHolds
<1>3. CASE UNCHANGED auditVars
  BY <1>3 DEF auditVars, vars, LastHolds
<1> QED BY <1>1, <1>2, <1>3

\* With one process, which the README assumes, and no abandoned batch that takes
\* effect later, which it does not say, the last change stands, whatever was lost,
\* retried or killed since (run last_writer_wins has the counterexample with two
\* processes).
THEOREM SoleWriterWins ==
  ASSUME SoleWriter
  PROVE  AuditSpec => []LastWriterWins
<1>1. AuditInit => IInv /\ AuditInv /\ SoleInv /\ LastHolds
  BY InitIInv, InitAuditInv, InitSoleInv DEF AuditInit, LastHolds
<1>2. IInv /\ SoleInv /\ [AuditNext]_auditVars => IInv' /\ SoleInv'
  BY AuditStepIsStep, NextIInv, NextSoleInv
<1>3. IInv /\ AuditInv /\ SoleInv /\ LastHolds /\ [AuditNext]_auditVars => LastHolds'
  BY NextLastHolds DEF AuditInv
<1>4. LastHolds => LastWriterWins
  BY DEF LastHolds, LastWriterWins
<1> QED BY <1>1, <1>2, <1>3, <1>4, NextAuditInv, PTL DEF AuditSpec
=============================================================================
