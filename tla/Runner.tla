-------------------------------- MODULE Runner --------------------------------
(***************************************************************************)
(* Runs of dns-update against a DNS provider: internal/app/run.go with the *)
(* probe goroutines of collect, the retry loop of Run, the requests of the *)
(* provider client and the cancellation of the run's context, for one or   *)
(* several processes that manage the same name.                            *)
(*                                                                         *)
(* What runs between two blocking calls is one action.  A request is two:  *)
(* the provider handles a batch (ServerApplies, ServerRefuses) and the     *)
(* process learns of it (ApplyReturns), or does not (ApplyLost).  A batch  *)
(* whose sender has given up is dropped, or, if LateApply, stays with the  *)
(* provider and may take effect at any later time.                         *)
(***************************************************************************)
EXTENDS DnsPlan

CONSTANTS
  Writers,      \* the processes that run dns-update for the managed name
  MaxAttempts,  \* retry.Policy.MaxAttempts
  Options,      \* the command lines and configurations a run may start with
  Config,       \* record.ttl and proxied
  InitZones,    \* states of the managed name to start from
  InitEgress,   \* what the probes of the two families report at first
  LateApply,    \* may an abandoned batch still take effect?
  MaxFaults     \* bound on the disturbances of a behaviour (see Disturb)

\* opts.partial is probe.allow_partial_failure; main refuses -delete with -force-push.
RunOptions == [mode : {"reconcile", "force", "delete"}, dry : BOOLEAN,
               partial : BOOLEAN, selection : SUBSET Family]

ASSUME RunnerAssumption ==
  /\ MaxAttempts \in Nat \ {0}
  /\ MaxFaults \in Nat
  /\ LateApply \in BOOLEAN
  /\ Options \subseteq {o \in RunOptions : (o.mode = "delete") <=> (o.selection # {})}
  /\ Options # {}
  /\ Config \in Settings
  /\ InitZones \subseteq States
  /\ InitEgress \subseteq [Family -> Addr \cup {NoAddr}]
  /\ IsFiniteSet(Writers)

VARIABLES
  zone,      \* the provider's records of the managed name
  egress,    \* the address that a probe of each family would report
  batches,   \* the batches that the provider has yet to handle
  pc,        \* where each process is
  opts,      \* the options of its run
  ctx,       \* the run's context: "live" or "done"
  attempt,   \* the attempt counter of Run
  cell,      \* what the goroutine of each family has left for collect
  leaked,    \* goroutines that outlive the collect that started them
  snap,      \* the records that collect read
  plan,      \* the plan about to be applied
  tag,       \* the batch that the process waits for
  reply,     \* the provider's answer to it
  outcome,   \* how the last run ended
  faults     \* disturbances so far

local == <<pc, opts, ctx, attempt, cell, leaked, snap, plan, tag, reply, outcome>>
vars == <<zone, egress, batches, local, faults>>

Probed == Addr \cup {NoAddr}

\* The closure variables that one goroutine writes: address, observed flag and error.
Cell == [st : {"none", "running", "ok", "retryable", "fatal"}, addr : Probed]

CellOf(st) == [st |-> st, addr |-> NoAddr]
Answer(a)  == [st |-> "ok", addr |-> a]

Cells == [Family -> Cell]
NoCells == [f \in Family |-> CellOf("none")]

\* What a collect has established, in terms of its cells.
ObservedIn(c) == {f \in Family : c[f].st = "ok"}
AddressIn(c)  == [f \in Family |-> c[f].addr]

Errors == {"nil", "retryable", "fatal"}

Locations == {"idle", "gather", "wait", "read", "send", "await", "verify", "backoff"}

\* Enough tags for the batches that can be outstanding together.
Tags == 1 .. (MaxFaults + Cardinality(Writers) + 1)

\* A batch: its operations, and what its sender knew (history, see the properties).
Batch == [writer : Writers, tag : Tags, plan : SUBSET Operation, opts : Options, cells : Cells]

Goroutine == [writer : Writers, attempt : 1..MaxAttempts, family : Family]

TypeOK ==
  /\ zone \in SUBSET Record
  /\ egress \in [Family -> Probed]
  /\ batches \in SUBSET Batch
  /\ pc \in [Writers -> Locations]
  /\ opts \in [Writers -> Options]
  /\ ctx \in [Writers -> {"live", "done"}]
  /\ attempt \in [Writers -> 1..MaxAttempts]
  /\ cell \in [Writers -> Cells]
  /\ leaked \in SUBSET Goroutine
  /\ snap \in [Writers -> SUBSET Record]
  /\ plan \in [Writers -> SUBSET Operation]
  /\ tag \in [Writers -> Tags \cup {0}]
  /\ reply \in [Writers -> {"none", "applied", "refused"}]
  /\ outcome \in [Writers -> {"none", "ok", "error"}]
  /\ faults \in 0..MaxFaults

Init ==
  /\ zone \in InitZones
  /\ egress \in InitEgress
  /\ batches = {}
  /\ pc = [w \in Writers |-> "idle"]
  /\ opts \in [Writers -> {CHOOSE o \in Options : TRUE}]
  /\ ctx = [w \in Writers |-> "live"]
  /\ attempt = [w \in Writers |-> 1]
  /\ cell = [w \in Writers |-> NoCells]
  /\ leaked = {}
  /\ snap = [w \in Writers |-> {}]
  /\ plan = [w \in Writers |-> {}]
  /\ tag = [w \in Writers |-> 0]
  /\ reply = [w \in Writers |-> "none"]
  /\ outcome = [w \in Writers |-> "none"]
  /\ faults = 0

\* A fault, a cancellation or a change of the environment: MaxFaults of them in all.
Disturb == faults < MaxFaults /\ faults' = faults + 1

\* A failed call is charged to the budget unless the context explains it: a
\* request under a done context always fails, and never with a retryable error.
Excuse(w, err) ==
  \/ ctx[w] = "done" /\ err = "fatal" /\ UNCHANGED faults
  \/ ctx[w] = "live" /\ err \in {"retryable", "fatal"} /\ Disturb

-----------------------------------------------------------------------------
(* The retry loop of Run. *)

\* A slip: an address that an earlier attempt of the run has got is used again.
BeginAttemptReusing(w, o, n) ==
  /\ attempt' = [attempt EXCEPT ![w] = n]
  /\ pc' = [pc EXCEPT ![w] = IF o.mode = "delete" THEN "read" ELSE "gather"]
  /\ cell' = [cell EXCEPT ![w] =
       IF o.mode = "delete" THEN NoCells
       ELSE [f \in Family |-> IF n > 1 /\ cell[w][f].st = "ok" THEN cell[w][f] ELSE CellOf("running")]]

\* runOnce begins: collect starts both probes and ReadState; delete mode only reads.
BeginAttempt(w, o, n) ==
  /\ attempt' = [attempt EXCEPT ![w] = n]
  /\ pc' = [pc EXCEPT ![w] = IF o.mode = "delete" THEN "read" ELSE "gather"]
  /\ cell' = [cell EXCEPT ![w] =
       IF o.mode = "delete" THEN NoCells ELSE [f \in Family |-> CellOf("running")]]

\* A slip: one attempt too many.
CanRetryOnceMore(w, err) == err = "retryable" /\ attempt[w] <= MaxAttempts

CanRetry(w, err) == err = "retryable" /\ attempt[w] < MaxAttempts

\* The probes whose goroutine still runs.
Running(w) == {f \in Family : cell[w][f].st = "running"}

LeakedBy(w) == {g \in leaked : g.writer = w}

\* runOnce has returned err: Run waits for another attempt or returns.  The
\* locals of the attempt are dead (what the cells held stays visible until the
\* next attempt), and a probe that still runs has nobody to report to.  When
\* Run returns the process exits, and its goroutines with it.
AttemptReturns(w, err) ==
  /\ pc' = [pc EXCEPT ![w] = IF CanRetry(w, err) THEN "backoff" ELSE "idle"]
  /\ outcome' = [outcome EXCEPT ![w] =
       IF CanRetry(w, err) THEN @ ELSE IF err = "nil" THEN "ok" ELSE "error"]
  /\ leaked' = IF CanRetry(w, err)
               THEN leaked \cup {[writer |-> w, attempt |-> attempt[w], family |-> f] : f \in Running(w)}
               ELSE leaked \ LeakedBy(w)
  /\ cell' = [cell EXCEPT ![w] = [f \in Family |->
       IF CanRetry(w, err) /\ f \notin Running(w) THEN cell[w][f] ELSE CellOf("none")]]
  /\ snap' = [snap EXCEPT ![w] = {}]
  /\ plan' = [plan EXCEPT ![w] = {}]
  /\ tag' = [tag EXCEPT ![w] = 0]
  /\ reply' = [reply EXCEPT ![w] = "none"]
  /\ UNCHANGED <<opts, ctx, attempt>>

\* The scheduler starts the program (main creates a fresh context).
Start(w, o) ==
  /\ pc[w] = "idle"
  /\ opts' = [opts EXCEPT ![w] = o]
  /\ ctx' = [ctx EXCEPT ![w] = "live"]
  /\ BeginAttempt(w, o, 1)
  /\ outcome' = [outcome EXCEPT ![w] = "none"]
  /\ UNCHANGED <<zone, egress, batches, leaked, snap, plan, tag, reply, faults>>

\* The timer of sleep fires; if the context is done too, select may still pick it.
BackoffEnds(w) ==
  /\ pc[w] = "backoff"
  /\ BeginAttempt(w, opts[w], attempt[w] + 1)
  /\ UNCHANGED <<zone, egress, batches, opts, ctx, leaked, snap, plan, tag, reply, outcome, faults>>

BackoffAborted(w) ==
  /\ pc[w] = "backoff"
  /\ ctx[w] = "done"
  /\ AttemptReturns(w, "fatal")
  /\ UNCHANGED <<zone, egress, batches, faults>>

-----------------------------------------------------------------------------
(* collect: two probe goroutines beside ReadState. *)

SetCell(w, f, c) ==
  /\ cell' = [cell EXCEPT ![w][f] = c]
  /\ UNCHANGED <<zone, egress, batches, pc, opts, ctx, attempt, leaked, snap, plan, tag,
                 reply, outcome>>

ProbeAnswers(w, f) ==
  /\ f \in Running(w)
  /\ SetCell(w, f, Answer(egress[f]))
  /\ UNCHANGED faults

ProbeFails(w, f, err) ==
  /\ f \in Running(w)
  /\ Excuse(w, err)
  /\ SetCell(w, f, CellOf(err))

\* A goroutine of an earlier attempt ends: it writes to variables of a call
\* that has returned, which nobody reads.
LeakedProbeEnds(g) ==
  /\ g \in leaked
  /\ leaked' = leaked \ {g}
  /\ UNCHANGED <<zone, egress, batches, pc, opts, ctx, attempt, cell, snap, plan, tag, reply,
                 outcome, faults>>

CollectReads(w) ==
  /\ pc[w] = "gather"
  /\ snap' = [snap EXCEPT ![w] = zone]
  /\ pc' = [pc EXCEPT ![w] = "wait"]
  /\ UNCHANGED <<zone, egress, batches, opts, ctx, attempt, cell, leaked, plan, tag, reply,
                 outcome, faults>>

\* ReadState fails, in collect (which then leaves its probes behind), in
\* delete mode, or after the batch.
ReadFails(w, err) ==
  /\ pc[w] \in {"gather", "read", "verify"}
  /\ Excuse(w, err)
  /\ AttemptReturns(w, err)
  /\ UNCHANGED <<zone, egress, batches>>

Observed(w) == ObservedIn(cell[w])
Address(w)  == AddressIn(cell[w])

\* A slip: one probe is always enough.
CollectErrorLenient(w) ==
  LET failed == {cell[w][f].st : f \in Family \ Observed(w)}
  IN CASE ctx[w] = "done" -> "fatal"
       [] ctx[w] = "live" /\ Observed(w) # {} -> "nil"
       [] OTHER -> IF "retryable" \in failed THEN "retryable" ELSE "fatal"

\* collectProbeError.  bothProbesError marks its error retryable when both
\* probes are; errors.As finds the mark of one of them inside the others too.
CollectError(w) ==
  LET failed == {cell[w][f].st : f \in Family \ Observed(w)}
  IN CASE ctx[w] = "done" -> "fatal"
       [] ctx[w] = "live" /\ failed = {} -> "nil"
       [] ctx[w] = "live" /\ failed # {} /\ Observed(w) # {} /\ opts[w].partial -> "nil"
       [] OTHER -> IF "retryable" \in failed THEN "retryable" ELSE "fatal"

Collected(w) == pc[w] = "wait" /\ Running(w) = {}

CollectFails(w) ==
  /\ Collected(w)
  /\ CollectError(w) # "nil"
  /\ AttemptReturns(w, CollectError(w))
  /\ UNCHANGED <<zone, egress, batches, faults>>

-----------------------------------------------------------------------------
(* Planning, in runReconcileOnce and runDeleteOnce. *)

\* The plan of a reconcile attempt, after the force-push fallback.
ReconcilePlan(recs, o, c) ==
  LET p == BuildObservedAddressPlan(recs, AddressIn(c), ObservedIn(c), Config)
  IN IF p = {} /\ o.mode = "force"
     THEN ForcePushPlan(recs, AddressIn(c), ObservedIn(c), Config)
     ELSE p

\* The plan of an attempt with either mode.
PlanFor(recs, o, c) ==
  IF o.mode = "delete" THEN BuildDeletePlan(recs, o.selection) ELSE ReconcilePlan(recs, o, c)

\* The outcome of planning: nothing to write, or a batch to send.
Planned(w, p) ==
  IF p = {} \/ opts[w].dry
  THEN AttemptReturns(w, "nil")
  ELSE /\ plan' = [plan EXCEPT ![w] = p]
       /\ pc' = [pc EXCEPT ![w] = "send"]
       /\ UNCHANGED <<opts, ctx, attempt, cell, leaked, snap, tag, reply, outcome>>

Plans(w) ==
  /\ Collected(w)
  /\ CollectError(w) = "nil"
  /\ IF Unplannable(snap[w], Observed(w))
     THEN AttemptReturns(w, "fatal")
     ELSE Planned(w, PlanFor(snap[w], opts[w], cell[w]))
  /\ UNCHANGED <<zone, egress, batches, faults>>

\* Delete mode reads and plans in one step: nothing blocks in between.
DeleteReads(w) ==
  /\ pc[w] = "read"
  /\ Planned(w, PlanFor(zone, opts[w], cell[w]))
  /\ UNCHANGED <<zone, egress, batches, faults>>

-----------------------------------------------------------------------------
(* Provider.Apply and the verification. *)

\* The least tag that no outstanding batch bears, as a set.
FreeTag ==
  LET free == Tags \ {m.tag : m \in batches} IN {t \in free : \A u \in free : t <= u}

\* The batch that a process sends.
BatchOf(w, t) ==
  [writer |-> w, tag |-> t, plan |-> plan[w], opts |-> opts[w], cells |-> cell[w]]

Sends(w) ==
  /\ pc[w] = "send"
  /\ ctx[w] = "live"
  /\ \E t \in FreeTag :
       /\ batches' = batches \cup {BatchOf(w, t)}
       /\ tag' = [tag EXCEPT ![w] = t]
  /\ pc' = [pc EXCEPT ![w] = "await"]
  /\ UNCHANGED <<zone, egress, opts, ctx, attempt, cell, leaked, snap, plan, reply, outcome, faults>>

SendAborted(w) ==
  /\ pc[w] = "send"
  /\ ctx[w] = "done"
  /\ AttemptReturns(w, "fatal")
  /\ UNCHANGED <<zone, egress, batches, faults>>

\* IDs of existing records, and of records somebody still refers to.
UsedIds ==
  {r.id : r \in zone}
    \cup (UNION {{r.id : r \in snap[w]} : w \in Writers})
    \cup (UNION {Named(plan[w]) : w \in Writers})
    \cup (UNION {Named(m.plan) : m \in batches})

Answers(m, r) ==
  /\ batches' = batches \ {m}
  /\ reply' = [reply EXCEPT ![m.writer] = IF tag[m.writer] = m.tag THEN r ELSE @]
  /\ UNCHANGED <<egress, pc, opts, ctx, attempt, cell, leaked, snap, plan, tag, outcome>>

ServerApplies(m) ==
  /\ m \in batches
  /\ Accepts(zone, m.plan)
  /\ \E fresh \in FreshIds(m.plan, Ids \ UsedIds) : zone' = ApplyBatch(zone, m.plan, fresh)
  /\ Answers(m, "applied")
  /\ UNCHANGED faults

\* Because a record is gone, or for a reason of the provider's own.
ServerRefuses(m) ==
  /\ m \in batches
  /\ IF Accepts(zone, m.plan) THEN Disturb ELSE UNCHANGED faults
  /\ Answers(m, "refused")
  /\ UNCHANGED zone

\* A slip: the error of a refused batch is dropped.
ApplyReturnsUnchecked(w) ==
  /\ pc[w] = "await"
  /\ reply[w] # "none"
  /\ AttemptReturns(w, "nil")
  /\ UNCHANGED <<zone, egress, batches, faults>>

ApplyReturns(w) ==
  /\ pc[w] = "await"
  /\ \/ /\ reply[w] = "applied"
        /\ pc' = [pc EXCEPT ![w] = "verify"]
        /\ tag' = [tag EXCEPT ![w] = 0]
        /\ reply' = [reply EXCEPT ![w] = "none"]
        /\ UNCHANGED <<opts, ctx, attempt, cell, leaked, snap, plan, outcome>>
     \/ /\ reply[w] = "refused"
        /\ AttemptReturns(w, "fatal")
  /\ UNCHANGED <<zone, egress, batches, faults>>

\* What becomes of a batch whose sender no longer waits for it.
Abandon(w) ==
  batches' = IF LateApply THEN batches ELSE {m \in batches : m.writer # w}

\* A slip: the client itself repeats a request that got no usable answer
\* (option.WithMaxRetries above 0), without reading the records again.
ApplyLostResends(w, err) ==
  /\ pc[w] = "await"
  /\ Excuse(w, err)
  /\ IF err = "retryable"
     THEN /\ pc' = [pc EXCEPT ![w] = "send"]
          /\ reply' = [reply EXCEPT ![w] = "none"]
          /\ UNCHANGED <<opts, ctx, attempt, cell, leaked, snap, plan, tag, outcome>>
     ELSE AttemptReturns(w, err)
  /\ Abandon(w)
  /\ UNCHANGED <<zone, egress>>

\* Apply fails, whatever the provider did or will do with the batch: a broken
\* connection, a timeout, a 5xx answer, an unreadable reply, a done context.
ApplyLost(w, err) ==
  /\ pc[w] = "await"
  /\ Excuse(w, err)
  /\ AttemptReturns(w, err)
  /\ Abandon(w)
  /\ UNCHANGED <<zone, egress>>

\* The check after the batch of the run's own mode, on the records just read.
Verified(w) ==
  IF opts[w].mode = "delete"
  THEN VerifyDeletedTypes(zone, opts[w].selection)
  ELSE VerifyObservedAddressState(zone, Address(w), Observed(w), Config)

\* Slips: the result of the check is dropped; the check is repeated until it passes.
VerifiesBlindly(w) ==
  /\ pc[w] = "verify"
  /\ AttemptReturns(w, "nil")
  /\ UNCHANGED <<zone, egress, batches, faults>>

VerifiesUntilGood(w) ==
  /\ pc[w] = "verify"
  /\ IF Verified(w) THEN AttemptReturns(w, "nil") ELSE UNCHANGED local
  /\ UNCHANGED <<zone, egress, batches, faults>>

Verifies(w) ==
  /\ pc[w] = "verify"
  /\ AttemptReturns(w, IF Verified(w) THEN "nil" ELSE "fatal")
  /\ UNCHANGED <<zone, egress, batches, faults>>

-----------------------------------------------------------------------------
(* The environment. *)

\* SIGINT, SIGTERM or the -timeout of the run.
Cancel(w) ==
  /\ pc[w] # "idle"
  /\ ctx[w] = "live"
  /\ Disturb
  /\ ctx' = [ctx EXCEPT ![w] = "done"]
  /\ UNCHANGED <<zone, egress, batches, pc, opts, attempt, cell, leaked, snap, plan, tag,
                 reply, outcome>>

\* The process is killed, or the host goes down.  Nothing of it persists.
Crash(w) ==
  /\ pc[w] # "idle"
  /\ Disturb
  /\ pc' = [pc EXCEPT ![w] = "idle"]
  /\ outcome' = [outcome EXCEPT ![w] = "error"]
  /\ leaked' = leaked \ LeakedBy(w)
  /\ cell' = [cell EXCEPT ![w] = NoCells]
  /\ snap' = [snap EXCEPT ![w] = {}]
  /\ plan' = [plan EXCEPT ![w] = {}]
  /\ tag' = [tag EXCEPT ![w] = 0]
  /\ reply' = [reply EXCEPT ![w] = "none"]
  /\ Abandon(w)
  /\ UNCHANGED <<zone, egress, opts, ctx, attempt>>

EgressChanges(f, a) ==
  /\ a # egress[f]
  /\ Disturb
  /\ egress' = [egress EXCEPT ![f] = a]
  /\ UNCHANGED <<zone, batches, local>>

-----------------------------------------------------------------------------
\* The steps by which a process advances when nothing disturbs it, and those
\* by which a done context ends it.
Advance(w) ==
  \/ BackoffEnds(w)
  \/ \E f \in Family : ProbeAnswers(w, f)
  \/ CollectReads(w)
  \/ CollectFails(w)
  \/ Plans(w)
  \/ DeleteReads(w)
  \/ Sends(w)
  \/ SendAborted(w)
  \/ ApplyReturns(w)
  \/ Verifies(w)

Starts(w) == \E o \in Options : Start(w, o)

Serve == \E m \in batches : ServerApplies(m) \/ ServerRefuses(m)

Disturbance ==
  \/ \E w \in Writers : BackoffAborted(w) \/ Cancel(w) \/ Crash(w)
  \/ \E w \in Writers, err \in Errors :
       \/ ReadFails(w, err)
       \/ ApplyLost(w, err)
       \/ \E f \in Family : ProbeFails(w, f, err)
  \/ \E f \in Family, a \in Probed : EgressChanges(f, a)

Next ==
  \/ \E w \in Writers : Starts(w) \/ Advance(w)
  \/ \E g \in leaked : LeakedProbeEnds(g)
  \/ Serve
  \/ Disturbance

Spec == Init /\ [][Next]_vars

\* The program is single-minded: whatever can proceed does (its goroutines are
\* scheduled, the provider handles requests).  The timer of deploy/ starts the
\* next run again and again; nothing is assumed of the disturbances.
Fairness ==
  /\ \A w \in Writers : WF_vars(Advance(w)) /\ WF_vars(Starts(w))
  /\ WF_vars(Serve)

FairSpec == Spec /\ Fairness

-----------------------------------------------------------------------------
(* Properties. *)

\* The families that options and evidence are about, and what each is to hold.
Goal(o, c) == IF o.mode = "delete" THEN o.selection ELSE ObservedIn(c)
GoalAddr(o, c, f) == IF o.mode = "delete" THEN NoAddr ELSE c[f].addr

\* What options and evidence must be for plan p to go out.
Licensed(o, c, p) ==
  /\ ~ o.dry
  /\ o.mode # "delete" =>
       /\ Goal(o, c) = Family \/ (o.partial /\ Goal(o, c) # {})
       /\ \A f \in Family : c[f].st # "running"
  /\ \A op \in p : OpType(op) \in Goal(o, c)

\* No batch is sent without its licence: never in a dry run, never before both
\* probes have ended, never with a failed probe unless partial failure is
\* allowed and the other one succeeded, and never for a family whose probe
\* failed or that -delete did not select (collect, collectProbeError,
\* BuildObservedAddressPlan, BuildDeletePlan).
BatchLicensed == \A m \in batches : Licensed(m.opts, m.cells, m.plan)

\* A step of the provider changes no record of a type for which the batch that
\* it handles has no evidence, and the wrong type never: however late, lost or
\* concurrent the batches are.
OnlyLicensedChange ==
  [][\A t \in RecordType : ByType(zone', t) # ByType(zone, t) =>
       \E m \in batches \ batches' : t \in Goal(m.opts, m.cells)]_vars

\* Every run ends: the retry loop is bounded, and no wait depends on a probe
\* that nobody answers.
RunsEnd == \A w \in Writers : pc[w] # "idle" ~> pc[w] = "idle"

\* Once disturbances stop, the recurring runs bring the name to the observed
\* egress state and keep it there.
Aligned == \A f \in Family : Publishes(zone, f, egress[f], Config)
Converges == <>[] Aligned
=============================================================================
