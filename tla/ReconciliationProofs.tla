------------------------- MODULE ReconciliationProofs -------------------------
(***************************************************************************)
(* The undisturbed attempt, for every snapshot, configuration, evidence    *)
(* and selection: whatever the number of records, duplicates and drifts.   *)
(***************************************************************************)
EXTENDS Reconciliation, DnsPlanProofs

\* The plan of an attempt, with either mode.
PlanOf(recs, in) ==
  IF in.mode = "delete" THEN BuildDeletePlan(recs, in.selection) ELSE ReconcilePlan(recs, in)

\* What an attempt knows of the snapshot it has read.
SnapshotFits == UniqueIds(before) /\ (phase # "applied" => zone = before)

\* The plan is the one for that snapshot, and it was not refused.
PlanFits ==
  phase \in {"planned", "applied"} =>
    /\ plan = PlanOf(before, input)
    /\ input.mode # "delete" => ~ Unplannable(before, input.observed)

\* The zone afterwards is the snapshot with the batch applied.
BatchFits ==
  phase = "applied" =>
    \E fresh \in FreshIds(plan, Ids \ {r.id : r \in before}) : zone = ApplyBatch(before, plan, fresh)

IInv == TypeOK /\ SnapshotFits /\ PlanFits /\ BatchFits

-----------------------------------------------------------------------------
LEMMA InputParts ==
  ASSUME NEW in \in Inputs
  PROVE  \/ in.mode = "delete" /\ in.selection \in SUBSET Family
         \/ /\ in.mode \in {"reconcile", "force"} /\ in.observed \in SUBSET Family
            /\ in.addr \in [Family -> Addr \cup {NoAddr}]
BY DEF Inputs, Selections

LEMMA PlanOfType ==
  ASSUME NEW recs \in SUBSET Record, NEW in \in Inputs
  PROVE  PlanOf(recs, in) \in SUBSET Operation
<1>1. CASE in.mode = "delete"
  BY <1>1, InputParts, BuildDeletePlanType DEF PlanOf
<1>2. CASE in.mode # "delete"
  <2>1. in.observed \in SUBSET Family /\ in.addr \in [Family -> Addr \cup {NoAddr}] /\ Config \in Settings
    BY <1>2, InputParts, ConfigIsSettings
  <2>2. \A op \in BuildObservedAddressPlan(recs, in.addr, in.observed, Config) : op \in Operation
    BY <2>1, BuildObservedAddressPlanType
  <2>3. \A op \in ForcePushPlan(recs, in.addr, in.observed, Config) : op \in Operation
    BY <2>1, ForcePushPlanType
  <2> QED BY <1>2, <2>2, <2>3 DEF PlanOf, ReconcilePlan
<1> QED BY <1>1, <1>2

\* Every plan speaks of the records that were read, and rewrites none twice.
LEMMA PlanOfFaithful ==
  ASSUME NEW recs, NEW in
  PROVE  Faithful(PlanOf(recs, in), recs) /\ RewritesOnce(PlanOf(recs, in))
<1>1. RewritesOnce(BuildDeletePlan(recs, in.selection))
  BY DeletePlanParts DEF RewritesOnce
<1> QED BY <1>1, DeletePlanParts, ObservedPlanFaithful, ForcePushPlanFaithful DEF PlanOf, ReconcilePlan

\* What an attempt is for, family by family.
LEMMA WantedIs ==
  ASSUME NEW recs \in SUBSET Record
  PROVE  /\ input.mode = "delete" =>
              (Wanted(recs) <=> \A f \in input.selection : ByType(recs, f) = {})
         /\ input.mode # "delete" =>
              (Wanted(recs) <=> /\ \A f \in input.observed : Publishes(recs, f, input.addr[f], Config)
                                /\ ByType(recs, "CNAME") = {})
<1>1. \A f : Publishes(recs, f, NoAddr, Config) <=> ByType(recs, f) = {}
  BY PublishedIs
<1>2. (\A r \in recs : r.type # "CNAME") <=> ByType(recs, "CNAME") = {}
  BY DEF ByType
<1> QED BY <1>1, <1>2 DEF Wanted, Managed

-----------------------------------------------------------------------------
LEMMA InitIInv == Init => IInv
<1> SUFFICES ASSUME Init PROVE IInv
  OBVIOUS
<1>1. zone \in SUBSET Record /\ UniqueIds(zone)
  BY ZonesAreStates DEF Init, States
<1> QED BY <1>1 DEF Init, IInv, TypeOK, SnapshotFits, PlanFits, BatchFits

LEMMA NextIInv == IInv /\ [Next]_vars => IInv'
<1> SUFFICES ASSUME IInv, [Next]_vars PROVE IInv'
  OBVIOUS
<1> USE DEF IInv
<1>1. CASE Refuse
  BY <1>1 DEF Refuse, TypeOK, SnapshotFits, PlanFits, BatchFits
<1>2. CASE Build
  <2>1. zone = before /\ plan' = PlanOf(before, input)
    BY <1>2 DEF Build, SnapshotFits, PlanOf
  <2>2. plan' \in SUBSET Operation
    BY <2>1, PlanOfType DEF TypeOK
  <2> QED BY <1>2, <2>1, <2>2 DEF Build, TypeOK, SnapshotFits, PlanFits, BatchFits
<1>3. CASE BuildDelete
  <2>1. zone = before /\ plan' = PlanOf(before, input)
    BY <1>3 DEF BuildDelete, SnapshotFits, PlanOf
  <2>2. plan' \in SUBSET Operation
    BY <2>1, PlanOfType DEF TypeOK
  <2> QED BY <1>3, <2>1, <2>2 DEF BuildDelete, TypeOK, SnapshotFits, PlanFits, BatchFits
<1>4. CASE Apply
  <2>1. zone = before /\ phase = "planned"
    BY <1>4 DEF Apply, SnapshotFits
  <2>2. PICK fresh \in FreshIds(plan, Ids \ {r.id : r \in before}) : zone' = ApplyBatch(before, plan, fresh)
    BY <1>4, <2>1 DEF Apply
  <2>3. Ids \ {r.id : r \in before} \in SUBSET Ids
    OBVIOUS
  <2>4. zone' \in SUBSET Record
    BY <2>2, <2>3, ApplyBatchType DEF TypeOK
  <2>5. TypeOK' /\ SnapshotFits' /\ PlanFits'
    BY <1>4, <2>1, <2>4 DEF Apply, TypeOK, SnapshotFits, PlanFits
  <2>6. BatchFits'
    BY <1>4, <2>2 DEF Apply, BatchFits
  <2> QED BY <2>5, <2>6
<1>5. CASE UNCHANGED vars
  BY <1>5 DEF vars, TypeOK, SnapshotFits, PlanFits, BatchFits
<1> QED BY <1>1, <1>2, <1>3, <1>4, <1>5 DEF Next

-----------------------------------------------------------------------------
\* The zone after the batch: the managed families are at their goal, the other
\* types are as they were.
LEMMA AfterTheBatch ==
  ASSUME IInv, NEW fresh \in FreshIds(plan, Ids \ {r.id : r \in before}),
         phase \in {"planned", "applied"}
  PROVE  LET after == ApplyBatch(before, plan, fresh)
         IN /\ after \in SUBSET Record /\ UniqueIds(after)
            /\ Wanted(after)
            /\ \A t \in RecordType \ Managed : ByType(after, t) = ByType(before, t)
<1> DEFINE free == Ids \ {r.id : r \in before}
           after == ApplyBatch(before, plan, fresh)
<1>1. /\ before \in SUBSET Record /\ plan \in SUBSET Operation /\ input \in Inputs /\ UniqueIds(before)
      /\ plan = PlanOf(before, input)
      /\ input.mode # "delete" => ~ Unplannable(before, input.observed)
  BY DEF IInv, TypeOK, SnapshotFits, PlanFits
<1>2. Faithful(plan, before) /\ RewritesOnce(plan)
  BY <1>1, PlanOfFaithful
<1>3. free \in SUBSET Ids /\ free \cap {r.id : r \in before} = {}
  OBVIOUS
<1>4. fresh \in FreshIds(plan, free)
  OBVIOUS
<1> HIDE DEF free
<1>5. after \in SUBSET Record
  BY <1>1, <1>3, <1>4, ApplyBatchType
<1>6. UniqueIds(after)
  BY <1>1, <1>2, <1>3, <1>4, IdsStayUnique
<1>7. CASE input.mode = "delete"
  <2>1. plan = BuildDeletePlan(before, input.selection)
    BY <1>1, <1>7 DEF PlanOf
  <2>2. after = {r \in before : r.type \notin input.selection}
    BY <1>1, <2>1, DeletePlanAchieves
  <2> HIDE DEF after
  <2>3. \A f \in input.selection : ByType(after, f) = {}
    BY <2>2 DEF ByType
  <2>4. \A t : t \notin input.selection => ByType(after, t) = ByType(before, t)
    BY <2>2 DEF ByType
  <2>5. Wanted(after)
    BY <1>5, <1>7, <2>3, WantedIs
  <2>6. \A t \in RecordType \ Managed : ByType(after, t) = ByType(before, t)
    BY <1>7, <2>4 DEF Managed
  <2> QED BY <1>5, <1>6, <2>5, <2>6 DEF after
<1>8. CASE input.mode # "delete"
  <2> DEFINE p == BuildObservedAddressPlan(before, input.addr, input.observed, Config)
             q == ForcePushPlan(before, input.addr, input.observed, Config)
  <2>0. /\ input.observed \in SUBSET Family /\ input.addr \in [Family -> Addr \cup {NoAddr}]
        /\ Config \in Settings
    BY <1>1, <1>8, InputParts, ConfigIsSettings
  <2>1. plan = IF p = {} /\ input.mode = "force" THEN q ELSE p
    BY <1>1, <1>8 DEF PlanOf, ReconcilePlan
  <2>2. ByType(before, "CNAME") = {} /\ "CNAME" \notin input.observed
    BY <1>1, <1>8, <2>0 DEF Unplannable, Family
  <2>3. /\ \A f \in input.observed : Publishes(after, f, input.addr[f], Config)
        /\ \A t : t \notin input.observed => ByType(after, t) = ByType(before, t)
    <3> DEFINE observed == input.observed
               addr == input.addr
    <3> HIDE DEF observed, addr
    <3>1. observed \in SUBSET Family /\ addr \in [Family -> Addr \cup {NoAddr}] /\ Config \in Settings
      BY <2>0 DEF observed, addr
    <3>2. \/ plan = BuildObservedAddressPlan(before, addr, observed, Config)
          \/ /\ BuildObservedAddressPlan(before, addr, observed, Config) = {}
             /\ plan = ForcePushPlan(before, addr, observed, Config)
      BY <2>1 DEF observed, addr
    <3>3. /\ \A f \in observed : Publishes(after, f, addr[f], Config)
          /\ \A t : t \notin observed => ByType(after, t) = ByType(before, t)
      BY <1>1, <1>3, <1>4, <3>1, <3>2, ReconcileAchieves
    <3> QED BY <3>3 DEF observed, addr
  <2> HIDE DEF after
  <2>4. Wanted(after)
    BY <1>5, <1>8, <2>2, <2>3, WantedIs
  <2>5. \A t \in RecordType \ Managed : ByType(after, t) = ByType(before, t)
    BY <1>8, <2>3 DEF Managed
  <2> QED BY <1>5, <1>6, <2>4, <2>5 DEF after
<1> QED BY <1>7, <1>8

LEMMA AppliedZone ==
  ASSUME IInv, phase = "applied"
  PROVE  UniqueIds(zone) /\ Wanted(zone)
<1>1. PICK fresh \in FreshIds(plan, Ids \ {r.id : r \in before}) : zone = ApplyBatch(before, plan, fresh)
  BY DEF IInv, BatchFits
<1> QED BY <1>1, AfterTheBatch

-----------------------------------------------------------------------------
\* Every variable keeps its type, whatever the snapshot and the inputs.
THEOREM TypeCorrect == Spec => []TypeOK
<1>1. IInv => TypeOK
  BY DEF IInv
<1> QED BY InitIInv, NextIInv, <1>1, PTL DEF Spec

\* The verification of a snapshot accepts it exactly when it is what the
\* attempt wants (verifyTypeState, VerifyDeletedTypes).
THEOREM VerifiesExactly == Spec => []VerificationIsExact
<1>1. IInv => VerificationIsExact
  <2> SUFFICES ASSUME IInv, phase # "failed", Managed # {} PROVE Verified(zone) <=> Wanted(zone)
    BY DEF VerificationIsExact
  <2>1. zone \in SUBSET Record
    BY DEF IInv, TypeOK
  <2>2. CASE input.mode = "delete"
    BY <2>1, <2>2, WantedIs DEF Verified, VerifyDeletedTypes
  <2>3. CASE input.mode # "delete"
    <3>1. \A f \in input.observed : VerifyTypeState(ByType(zone, f), f, input.addr[f], Config)
                                      <=> Publishes(zone, f, input.addr[f], Config)
      BY <2>1, VerifyIsPublishes
    <3>2. Unplannable(zone, input.observed) <=> ByType(zone, "CNAME") # {}
      BY <2>3 DEF Unplannable, Managed
    <3> QED BY <2>1, <2>3, <3>1, <3>2, WantedIs DEF Verified, VerifyObservedAddressState
  <2> QED BY <2>2, <2>3
<1> QED BY InitIInv, NextIInv, <1>1, PTL DEF Spec

\* The plan is empty exactly when nothing is wrong (buildTypePlan).
THEOREM PlansNothingIffWanted == Spec => []NoopIffWanted
<1>1. IInv => NoopIffWanted
  <2> SUFFICES ASSUME IInv, phase = "planned", input.mode # "force" PROVE plan = {} <=> Wanted(zone)
    BY DEF NoopIffWanted
  <2>1. /\ zone \in SUBSET Record /\ UniqueIds(zone) /\ plan = PlanOf(zone, input) /\ input \in Inputs
        /\ input.mode # "delete" => ~ Unplannable(zone, input.observed)
    BY DEF IInv, TypeOK, SnapshotFits, PlanFits
  <2>2. CASE input.mode = "delete"
    <3>1. plan = {} <=> \A f \in input.selection : ByType(zone, f) = {}
      BY <2>1, <2>2 DEF PlanOf, BuildDeletePlan
    <3> QED BY <2>1, <2>2, <3>1, WantedIs
  <2>3. CASE input.mode # "delete"
    <3>1. plan = BuildObservedAddressPlan(zone, input.addr, input.observed, Config)
      BY <2>1, <2>3 DEF PlanOf, ReconcilePlan
    <3>2. plan = {} <=> \A f \in input.observed : Publishes(zone, f, input.addr[f], Config)
      BY <2>1, <3>1, ObservedPlanIsEmpty
    <3>3. ByType(zone, "CNAME") = {}
      BY <2>1, <2>3 DEF Unplannable
    <3> QED BY <2>1, <2>3, <3>2, <3>3, WantedIs
  <2> QED BY <2>2, <2>3
<1> QED BY InitIInv, NextIInv, <1>1, PTL DEF Spec

\* A batch that nobody interferes with is accepted, and leaves the managed
\* families as the attempt wants them (runReconcileOnce, runDeleteOnce).
THEOREM BatchAchieves == Spec => []ApplyAchieves
<1>1. IInv => ApplyAchieves
  <2> SUFFICES ASSUME IInv PROVE ApplyAchieves
    OBVIOUS
  <2>1. ASSUME phase = "planned" PROVE Accepts(zone, plan)
    <3>1. zone = before /\ plan = PlanOf(before, input)
      BY <2>1 DEF IInv, SnapshotFits, PlanFits
    <3> QED BY <3>1, PlanOfFaithful, FaithfulIsAccepted
  <2> QED BY <2>1, AppliedZone DEF ApplyAchieves
<1> QED BY InitIInv, NextIInv, <1>1, PTL DEF Spec

\* Planning again from the state that the batch left yields nothing to do.
THEOREM AttemptSettles == Spec => []Settles
<1>1. IInv => Settles
  <2> SUFFICES ASSUME IInv, phase = "applied", input.mode # "delete"
               PROVE  BuildObservedAddressPlan(zone, input.addr, input.observed, Config) = {}
    BY DEF Settles
  <2>1. zone \in SUBSET Record /\ UniqueIds(zone) /\ Wanted(zone)
    BY AppliedZone DEF IInv, TypeOK
  <2>2. \A f \in input.observed : Publishes(zone, f, input.addr[f], Config)
    BY <2>1, WantedIs
  <2> QED BY <2>1, <2>2, ObservedPlanIsEmpty
<1> QED BY InitIInv, NextIInv, <1>1, PTL DEF Spec

\* A record that already matches keeps its ID, whatever duplicates it has.
THEOREM MatchingRecordStays == Spec => []KeepsMatchingRecord
<1>1. IInv => KeepsMatchingRecord
  <2> SUFFICES ASSUME IInv, phase = "applied", input.mode = "reconcile", NEW f \in input.observed,
                      input.addr[f] # NoAddr,
                      Matching(before, DesiredRecord(f, input.addr[f], Config)) # {}
               PROVE  ByType(zone, f) = FirstOf(Matching(before, DesiredRecord(f, input.addr[f], Config)))
    BY DEF KeepsMatchingRecord
  <2>1. /\ before \in SUBSET Record /\ UniqueIds(before) /\ input \in Inputs
        /\ plan = BuildObservedAddressPlan(before, input.addr, input.observed, Config)
    BY DEF IInv, TypeOK, SnapshotFits, PlanFits, PlanOf, ReconcilePlan
  <2>2. /\ input.observed \in SUBSET Family /\ input.addr \in [Family -> Addr \cup {NoAddr}]
        /\ Config \in Settings
    BY <2>1, InputParts, ConfigIsSettings
  <2>3. PICK fresh : zone = ApplyBatch(before, plan, fresh)
    BY DEF IInv, BatchFits
  <2>4. ByType(ApplyBatch(before, BuildObservedAddressPlan(before, input.addr, input.observed, Config), fresh), f) =
          FirstOf(Matching(before, DesiredRecord(f, input.addr[f], Config)))
    BY <2>1, <2>2, ObservedPlanKeeps, ZenonT(40)
  <2> QED BY <2>1, <2>3, <2>4
<1> QED BY InitIInv, NextIInv, <1>1, PTL DEF Spec

\* -force-push on a name that matches rewrites every family that has an
\* address, in place (forcePushPlan).
THEOREM ForcePushInPlace == Spec => []ForceRewritesInPlace
<1>1. IInv => ForceRewritesInPlace
  <2> SUFFICES ASSUME IInv, phase = "planned", input.mode = "force", Wanted(zone)
               PROVE  /\ \A f \in input.observed : input.addr[f] # NoAddr => \E op \in plan : OpType(op) = f
                      /\ \A fresh \in FreshIds(plan, Ids) : ApplyBatch(zone, plan, fresh) = zone
    BY DEF ForceRewritesInPlace
  <2>1. zone \in SUBSET Record /\ UniqueIds(zone) /\ plan = ReconcilePlan(zone, input)
    BY DEF IInv, TypeOK, SnapshotFits, PlanFits, PlanOf
  <2>2. \A f \in input.observed : Publishes(zone, f, input.addr[f], Config)
    BY <2>1, WantedIs
  <2>3. BuildObservedAddressPlan(zone, input.addr, input.observed, Config) = {}
    BY <2>1, <2>2, ObservedPlanIsEmpty
  <2>4. plan = ForcePushPlan(zone, input.addr, input.observed, Config)
    BY <2>1, <2>3 DEF ReconcilePlan
  <2>5. \A fresh : ApplyBatch(zone, plan, fresh) = zone
    BY <2>1, <2>2, <2>4, ForcePushIsIdempotent
  <2>6. \A f \in input.observed : input.addr[f] # NoAddr => \E op \in plan : OpType(op) = f
    BY <2>1, <2>2, <2>4, ForcePushRewrites
  <2> QED BY <2>5, <2>6
<1> QED BY InitIInv, NextIInv, <1>1, PTL DEF Spec

\* No step touches a record of a type that the attempt does not manage.
THEOREM OthersAreLeftAlone == Spec => OnlyManagedTouched
<1>1. IInv /\ [Next]_vars => [\A t \in RecordType \ Managed : ByType(zone', t) = ByType(zone, t)]_vars
  <2> SUFFICES ASSUME IInv, Next PROVE \A t \in RecordType \ Managed : ByType(zone', t) = ByType(zone, t)
    OBVIOUS
  <2>1. CASE zone' = zone
    BY <2>1
  <2>2. CASE Apply
    <3>1. zone = before /\ phase = "planned"
      BY <2>2 DEF Apply, IInv, SnapshotFits
    <3>2. PICK fresh \in FreshIds(plan, Ids \ {r.id : r \in before}) : zone' = ApplyBatch(before, plan, fresh)
      BY <2>2, <3>1 DEF Apply
    <3> QED BY <3>1, <3>2, AfterTheBatch
  <2> QED BY <2>1, <2>2 DEF Next, Refuse, Build, BuildDelete
<1> QED BY InitIInv, NextIInv, <1>1, PTL DEF Spec, OnlyManagedTouched
=============================================================================
