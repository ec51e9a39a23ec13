---------------------------- MODULE Reconciliation ----------------------------
(***************************************************************************)
(* One undisturbed attempt of dns-update over any snapshot: the records    *)
(* are read, the plan is built, the batch is applied and the records are   *)
(* verified, with nobody else writing in between.  The module checks the   *)
(* planning algorithm against what the attempt has to achieve.             *)
(***************************************************************************)
EXTENDS DnsPlan

CONSTANTS
  Zones,    \* the states of the managed name an attempt may start from
  Config    \* the configured settings

ASSUME ZonesAreStates == Zones \subseteq States
ASSUME ConfigIsSettings == Config \in Settings

VARIABLES
  zone,     \* the records of the managed name at the provider
  input,    \* what the attempt works from: mode, evidence or selection
  plan,     \* the operations decided on
  phase,    \* "read", "planned", "applied" or "failed"
  before    \* the snapshot the attempt read (history)

vars == <<zone, input, plan, phase, before>>

Selections == SUBSET Family \ {{}}

\* RunOptions with the evidence of a reconcile run.
Inputs ==
  [mode : {"reconcile", "force"}, observed : SUBSET Family, addr : [Family -> Addr \cup {NoAddr}]]
    \cup [mode : {"delete"}, selection : Selections]

TypeOK ==
  /\ zone \in SUBSET Record
  /\ input \in Inputs
  /\ plan \in SUBSET Operation
  /\ phase \in {"read", "planned", "applied", "failed"}
  /\ before \in SUBSET Record

\* A family that was not observed carries no address: collect leaves it nil.
Init ==
  /\ zone \in Zones
  /\ input \in Inputs
  /\ input.mode # "delete" => \A f \in Family \ input.observed : input.addr[f] = NoAddr
  /\ plan = {}
  /\ phase = "read"
  /\ before = zone

\* BuildObservedAddressPlan and, when it is empty and -force-push is set, forcePushPlan.
ReconcilePlan(recs, in) ==
  LET p == BuildObservedAddressPlan(recs, in.addr, in.observed, Config)
  IN IF p = {} /\ in.mode = "force"
     THEN ForcePushPlan(recs, in.addr, in.observed, Config)
     ELSE p

\* The plan is refused: no family observed, or a CNAME at the managed name.
Refuse ==
  /\ phase = "read"
  /\ input.mode # "delete"
  /\ Unplannable(zone, input.observed)
  /\ phase' = "failed"
  /\ UNCHANGED <<zone, input, plan, before>>

Build ==
  /\ phase = "read"
  /\ input.mode # "delete"
  /\ ~ Unplannable(zone, input.observed)
  /\ plan' = ReconcilePlan(zone, input)
  /\ phase' = "planned"
  /\ UNCHANGED <<zone, input, before>>

BuildDelete ==
  /\ phase = "read"
  /\ input.mode = "delete"
  /\ plan' = BuildDeletePlan(zone, input.selection)
  /\ phase' = "planned"
  /\ UNCHANGED <<zone, input, before>>

Apply ==
  /\ phase = "planned"
  /\ plan # {}
  /\ Accepts(zone, plan)
  /\ \E fresh \in FreshIds(plan, Ids \ {r.id : r \in zone}) :
       zone' = ApplyBatch(zone, plan, fresh)
  /\ phase' = "applied"
  /\ UNCHANGED <<input, plan, before>>

Next == Refuse \/ Build \/ BuildDelete \/ Apply

Spec == Init /\ [][Next]_vars

-----------------------------------------------------------------------------
\* The post-apply check of the attempt's own mode.
Verified(recs) ==
  IF input.mode = "delete"
  THEN VerifyDeletedTypes(recs, input.selection)
  ELSE VerifyObservedAddressState(recs, input.addr, input.observed, Config)

Managed == IF input.mode = "delete" THEN input.selection ELSE input.observed

\* What the attempt is for, independently of the code's own verification.
Wanted(recs) ==
  /\ \A f \in Managed :
       Publishes(recs, f, IF input.mode = "delete" THEN NoAddr ELSE input.addr[f], Config)
  /\ input.mode # "delete" => \A r \in recs : r.type # "CNAME"

\* The post-apply verification (verifyTypeState) accepts a snapshot exactly
\* when it is what the attempt wants: no duplicate, drifted TTL or proxy flag
\* passes, and no right state is reported as a divergence.
VerificationIsExact ==
  phase # "failed" /\ Managed # {} => (Verified(zone) <=> Wanted(zone))

\* Planning agrees with it (buildTypePlan against verifyTypeState): the plan of
\* a plain attempt is empty exactly when nothing is wrong, so that a drifted
\* name is never taken for a matching one, nor a matching one rewritten on
\* every run of the timer.
NoopIffWanted ==
  phase = "planned" /\ input.mode # "force" => (plan = {} <=> Wanted(zone))

\* A batch that meets no interference is accepted and leaves what the attempt
\* wants, however many duplicate or drifted records the name had
\* (runReconcileOnce, runDeleteOnce).
ApplyAchieves ==
  /\ phase = "applied" => Wanted(zone)
  /\ phase = "planned" => Accepts(zone, plan)

\* The attempt settles: planning again from the state that it leaves yields
\* nothing to do, so that the next run of the timer does not write again.
Settles ==
  phase = "applied" /\ input.mode # "delete" =>
    BuildObservedAddressPlan(zone, input.addr, input.observed, Config) = {}

\* A record that already matches is kept under its ID, neither deleted and
\* created again nor patched, whatever duplicates surround it.
KeepsMatchingRecord ==
  phase = "applied" /\ input.mode = "reconcile" =>
    \A f \in input.observed :
      LET d == DesiredRecord(f, input.addr[f], Config)
      IN input.addr[f] # NoAddr /\ Matching(before, d) # {} =>
           ByType(zone, f) = FirstOf(Matching(before, d))

\* A batch disturbs no record outside the families that the attempt has
\* evidence for, or was told to delete: an unobserved family, the other
\* family of -delete and a CNAME stay as they are.
OnlyManagedTouched ==
  [][\A t \in RecordType \ Managed : ByType(zone', t) = ByType(zone, t)]_vars

\* -force-push on a name that already matches rewrites the record of every
\* observed family that has an address, in place: the same IDs, still
\* verified, and a family that is rightly absent stays absent.
ForceRewritesInPlace ==
  phase = "planned" /\ input.mode = "force" /\ Wanted(zone) =>
    /\ \A f \in input.observed : input.addr[f] # NoAddr => \E op \in plan : OpType(op) = f
    /\ \A fresh \in FreshIds(plan, Ids) : ApplyBatch(zone, plan, fresh) = zone
=============================================================================
