------------------------------ MODULE RunnerAudit ------------------------------
(***************************************************************************)
(* Runner with history variables, for the properties that relate a state   *)
(* to earlier ones: what the egress has been since an attempt began, which *)
(* batch changed the zone last, and whose read another batch has made old. *)
(***************************************************************************)
EXTENDS Runner

VARIABLES
  seen,   \* seen[w][f]: every value of egress[f] since w's attempt began
  last,   \* the last batch that changed the zone (or nothing), and how its attempt ended
  overtaken  \* processes whose read is older than a change that was not their own

auditVars == <<vars, seen, last, overtaken>>

AuditInit ==
  /\ Init
  /\ seen = [w \in Writers |-> [f \in Family |-> {}]]
  /\ last = {}
  /\ overtaken = {}

Begins(w) == pc[w] \in {"idle", "backoff"} /\ pc'[w] \in {"gather", "read"}

RecordEgress ==
  seen' = [w \in Writers |-> [f \in Family |->
             CASE pc'[w] = "idle" -> {}
               [] Begins(w) -> {egress[f]}
               [] OTHER -> seen[w][f] \cup {egress'[f]}]]

\* A batch changes the zone, or the attempt that waited for the last change
\* ends.  Nobody verifies a batch that its sender has given up.
RecordLast ==
  last' = IF zone' # zone
          THEN {[writer |-> m.writer, opts |-> m.opts, cells |-> m.cells,
                 result |-> IF tag[m.writer] = m.tag THEN "pending" ELSE "error"] :
                  m \in batches \ batches'}
          ELSE {IF d.result = "pending" /\ pc'[d.writer] \in {"idle", "backoff"}
                THEN [d EXCEPT !.result = IF pc'[d.writer] = "idle" THEN outcome'[d.writer] ELSE "error"]
                ELSE d : d \in last}

\* The provider handles a batch whose sender no longer waits for it.
Late(m) == tag[m.writer] # m.tag

\* Between its read and its verification, a process is overtaken by a change
\* that any batch makes but the one it waits for: a batch of another process,
\* or one that it has itself given up, in this run or before it was killed.
RecordOvertaken ==
  overtaken' = {w \in Writers :
    /\ pc'[w] \in {"wait", "send", "await", "verify"}
    /\ pc[w] \notin {"gather", "read"}
    /\ \/ w \in overtaken
       \/ zone' # zone /\ \E m \in batches \ batches' : m.writer # w \/ Late(m)}

AuditNext == Next /\ RecordEgress /\ RecordLast /\ RecordOvertaken

AuditSpec == AuditInit /\ [][AuditNext]_auditVars

-----------------------------------------------------------------------------
\* An address that a plan writes was the egress of its family at some moment
\* of the very attempt that writes it: no address survives from an earlier
\* attempt, a leaked goroutine or an earlier run (collect keeps its results in
\* variables of the call).
FreshEvidence ==
  \A w \in Writers : pc[w] \in {"send", "await"} =>
    \A op \in plan[w] : op.kind # "delete" => op.desired.content \in seen[w][OpType(op)]

\* README, Operational Assumption: the verification after the batch detects
\* divergence.  If the attempt that changed the zone last ends in success, the
\* families it was about hold what its own evidence or selection demands,
\* whoever else wrote before or ran beside it.
DivergenceDetected ==
  \A d \in last : d.result = "ok" =>
    \A f \in Goal(d.opts, d.cells) : Publishes(zone, f, GoalAddr(d.opts, d.cells, f), Config)

\* README, Operational Assumption: with concurrent writers the outcome is
\* effectively last-writer-wins.  With everybody at rest, the families that
\* the last change was about hold what its sender demanded.
LastWriterWins ==
  (\A w \in Writers : pc[w] = "idle") /\ batches = {} =>
    \A d \in last : \A f \in Goal(d.opts, d.cells) :
      Publishes(zone, f, GoalAddr(d.opts, d.cells, f), Config)

\* The batches whose sender waits for them and has not been overtaken.
Timely(m) == ~ Late(m) /\ m.writer \notin overtaken

\* A batch in front of the provider is the plan for the zone as it is now,
\* although it was computed from an earlier read (nothing in it makes the
\* provider check that), unless a batch of somebody else or an abandoned one
\* has changed the zone in between.  In particular no write of the run's own
\* earlier attempts, confirmed or with a lost reply, makes a plan stale: Run
\* reads again for every attempt.
PlanStillCurrent ==
  \A m \in batches : Timely(m) => m.plan = PlanFor(zone, m.opts, m.cells)

\* CHANGELOG 1.3.7: only an explicit ip=none, or -delete, removes a managed
\* family: a failed, cancelled, leaked or retried probe never does.  What else
\* can empty a family is a batch that comes late or whose sender was overtaken.
RemovalNeedsEvidence ==
  [][\A f \in Family : ByType(zone, f) # {} /\ ByType(zone', f) = {} =>
       \E m \in batches \ batches' :
         \/ f \in Goal(m.opts, m.cells) /\ GoalAddr(m.opts, m.cells, f) = NoAddr
         \/ ~ Timely(m)]_auditVars

\* A family that changes holds one record at most, however many it had: no retry,
\* lost reply, cancellation or crash by itself leaves a duplicate.  Only a batch
\* that comes late or whose sender was overtaken can (the client cannot recall a
\* batch, and nothing in one makes the provider compare).
NoNewDuplicates ==
  [][\A f \in Family : ByType(zone', f) # ByType(zone, f) =>
       \/ Cardinality(ByType(zone', f)) <= 1
       \/ \E m \in batches \ batches' : ~ Timely(m)]_auditVars

\* A run that reports success, and was not a dry run, leaves the name as its own
\* evidence or selection demands: always when it has verified a batch, and when
\* it found nothing to do unless it was overtaken since it read (it does not
\* read a second time then).  A write whose reply was lost does not mislead it.
SuccessMeansAligned ==
  [][\A w \in Writers :
       /\ pc[w] # "idle" /\ pc'[w] = "idle" /\ outcome'[w] = "ok" /\ ~ opts[w].dry
       /\ pc[w] = "verify" \/ w \notin overtaken
       => \A f \in Goal(opts[w], cell[w]) :
            Publishes(zone, f, GoalAddr(opts[w], cell[w], f), Config)]_auditVars
=============================================================================
