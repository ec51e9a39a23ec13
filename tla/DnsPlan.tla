------------------------------- MODULE DnsPlan -------------------------------
(***************************************************************************)
(* The pure core of dns-update: how a snapshot of the records of the       *)
(* managed name, together with what the egress probes established, becomes *)
(* a plan of operations (internal/provider), how the plan becomes one      *)
(* Cloudflare batch (internal/provider/cloudflare), and how a later        *)
(* snapshot is verified.  Record sets are TLA+ sets: the code sorts them   *)
(* by ID only to choose one record deterministically, as FirstOf does.      *)
(* All records carry the managed name: Client.ReadState drops the others.  *)
(***************************************************************************)
EXTENDS Integers, FiniteSets

CONSTANTS
  Addr,     \* the addresses that records hold and probes report
  NoAddr,   \* the nil address of a probe that answered ip=none
  Ids,      \* provider record IDs; their order is the order of sortRecords
  TTL       \* record.ttl values

ASSUME NoAddrIsNoAddress == NoAddr \notin Addr
ASSUME IdsAreNumbers == Ids \subseteq Nat

Family == {"A", "AAAA"}
RecordType == Family \cup {"CNAME"}

Record == [id : Ids, type : RecordType, content : Addr, ttl : TTL, proxied : BOOLEAN]

\* A provider.Record that has no ID yet: the Desired half of an operation.
Desired == [type : Family, content : Addr, ttl : TTL, proxied : BOOLEAN]

\* What config fixes for every managed record: record.ttl and proxied.
Settings == [ttl : TTL, proxied : BOOLEAN]

\* What a provider returns is a list, and the IDs in it are unique.
UniqueIds(recs) == \A r, q \in recs : r.id = q.id => r = q

States == {recs \in SUBSET Record : IsFiniteSet(recs) /\ UniqueIds(recs)}

-----------------------------------------------------------------------------
(* Operations and plans. *)

CreateOp(d)    == [kind |-> "create", desired |-> d]
UpdateOp(r, d) == [kind |-> "update", current |-> r, desired |-> d]
DeleteOp(r)    == [kind |-> "delete", current |-> r]

CreateOps == {CreateOp(d) : d \in Desired}
UpdateOps == {UpdateOp(r, d) : r \in Record, d \in Desired}
DeleteOps == {DeleteOp(r) : r \in Record}

Operation == CreateOps \cup UpdateOps \cup DeleteOps

Creates(plan) == {op \in plan : op.kind = "create"}
Updates(plan) == {op \in plan : op.kind = "update"}
Deletes(plan) == {op \in plan : op.kind = "delete"}

OpType(op) == IF op.kind = "create" THEN op.desired.type ELSE op.current.type

-----------------------------------------------------------------------------
(* Planning. *)

ByType(recs, t) == {r \in recs : r.type = t}

\* The record at index 0 after sortRecords, as a set: nothing of no records.
FirstOf(recs) == {r \in recs : \A q \in recs : r.id <= q.id}

\* A slip: the proxy setting is not compared.
MatchesButForProxy(r, d) == r.type = d.type /\ r.content = d.content /\ r.ttl = d.ttl

RecordMatchesDesired(r, d) ==
  /\ r.type = d.type
  /\ r.content = d.content
  /\ r.ttl = d.ttl
  /\ r.proxied = d.proxied

DesiredRecord(f, a, s) == [type |-> f, content |-> a, ttl |-> s.ttl, proxied |-> s.proxied]

Matching(recs, d) == {r \in recs : RecordMatchesDesired(r, d)}

\* A slip: the first record survives although a later one matches.
KeptFirst(recs, d) == FirstOf(recs)

\* The record of the family that survives: the first that already matches,
\* the first of all when none does.
Kept(recs, d) ==
  IF Matching(recs, d) # {} THEN FirstOf(Matching(recs, d)) ELSE FirstOf(recs)

\* Slips: matching duplicates stay; the survivor is always rewritten; nothing is deleted.
TypePlanSparesMatches(recs, f, a, s) ==
  LET d == DesiredRecord(f, a, s)
  IN CASE a = NoAddr -> {DeleteOp(r) : r \in recs}
       [] a # NoAddr /\ recs = {} -> {CreateOp(d)}
       [] OTHER -> {DeleteOp(r) : r \in recs \ (Kept(recs, d) \cup Matching(recs, d))}
                     \cup {UpdateOp(r, d) : r \in Kept(recs, d) \ Matching(recs, d)}

TypePlanRewrites(recs, f, a, s) ==
  LET d == DesiredRecord(f, a, s)
  IN CASE a = NoAddr -> {DeleteOp(r) : r \in recs}
       [] a # NoAddr /\ recs = {} -> {CreateOp(d)}
       [] OTHER -> {DeleteOp(r) : r \in recs \ Kept(recs, d)} \cup {UpdateOp(r, d) : r \in Kept(recs, d)}

TypePlanLeavesDuplicates(recs, f, a, s) ==
  LET d == DesiredRecord(f, a, s)
  IN CASE a = NoAddr -> {DeleteOp(r) : r \in recs}
       [] a # NoAddr /\ recs = {} -> {CreateOp(d)}
       [] OTHER -> {UpdateOp(r, d) : r \in Kept(recs, d) \ Matching(recs, d)}

BuildTypePlan(recs, f, a, s) ==
  LET d == DesiredRecord(f, a, s)
  IN CASE a = NoAddr -> {DeleteOp(r) : r \in recs}
       [] a # NoAddr /\ recs = {} -> {CreateOp(d)}
       [] OTHER -> {DeleteOp(r) : r \in recs \ Kept(recs, d)}
                     \cup {UpdateOp(r, d) : r \in Kept(recs, d) \ Matching(recs, d)}

\* The two errors of BuildObservedAddressPlan and VerifyObservedAddressState.
Unplannable(recs, observed) == observed = {} \/ ByType(recs, "CNAME") # {}

\* A slip: a family that was not observed has a nil address, so its records go.
BuildPlanForAllFamilies(recs, addr, observed, s) ==
  UNION {BuildTypePlan(ByType(recs, f), f, addr[f], s) : f \in Family}

BuildObservedAddressPlan(recs, addr, observed, s) ==
  UNION {BuildTypePlan(ByType(recs, f), f, addr[f], s) : f \in observed}

\* A slip: -delete=a takes the AAAA records along.
BuildDeletePlanForBoth(recs, selection) ==
  {DeleteOp(r) : r \in UNION {ByType(recs, f) : f \in Family}}

BuildDeletePlan(recs, selection) ==
  {DeleteOp(r) : r \in UNION {ByType(recs, f) : f \in selection}}

\* Slips: the A family only; a family that is rightly absent is not skipped.
ForcePushPlanOfA(recs, addr, observed, s) ==
  UNION {{UpdateOp(r, DesiredRecord(f, addr[f], s)) : r \in FirstOf(ByType(recs, f))} :
           f \in {g \in observed : g = "A" /\ addr[g] # NoAddr}}

ForcePushPlanUnguarded(recs, addr, observed, s) ==
  {CreateOp(DesiredRecord(f, addr[f], s)) : f \in {g \in observed : ByType(recs, g) = {}}}

\* -force-push: rewrite the first record of every observed family.
ForcePushPlan(recs, addr, observed, s) ==
  UNION {{UpdateOp(r, DesiredRecord(f, addr[f], s)) : r \in FirstOf(ByType(recs, f))} :
           f \in {g \in observed : addr[g] # NoAddr}}

-----------------------------------------------------------------------------
(* Verification. *)

\* A slip: one matching record is enough, whatever stands beside it.
VerifyTypeStateAny(recs, f, a, s) ==
  IF a = NoAddr
  THEN recs = {}
  ELSE \E r \in recs : RecordMatchesDesired(r, DesiredRecord(f, a, s))

VerifyTypeState(recs, f, a, s) ==
  IF a = NoAddr
  THEN recs = {}
  ELSE \E r \in recs : recs = {r} /\ RecordMatchesDesired(r, DesiredRecord(f, a, s))

VerifyObservedAddressState(recs, addr, observed, s) ==
  /\ ~ Unplannable(recs, observed)
  /\ \A f \in observed : VerifyTypeState(ByType(recs, f), f, addr[f], s)

VerifyDeletedTypes(recs, selection) == \A f \in selection : ByType(recs, f) = {}

-----------------------------------------------------------------------------
(* The batch endpoint: one transaction, deletes first, then patches, then  *)
(* posts.  It refuses a batch that names a record that is gone.            *)

Named(plan) == {op.current.id : op \in Updates(plan) \cup Deletes(plan)}

Accepts(recs, plan) == Named(plan) \subseteq {r.id : r \in recs}

WithId(d, i) ==
  [id |-> i, type |-> d.type, content |-> d.content, ttl |-> d.ttl, proxied |-> d.proxied]

\* The zone after the batch, when create operation c gets the ID fresh[c].
ApplyBatch(recs, plan, fresh) ==
  {r \in recs : r.id \notin Named(plan)}
    \cup {WithId(op.desired, op.current.id) : op \in Updates(plan)}
    \cup {WithId(c.desired, fresh[c]) : c \in Creates(plan)}

\* The ways in which the provider may pick IDs among the free ones.
FreshIds(plan, free) ==
  {fresh \in [Creates(plan) -> free] :
     \A c, d \in Creates(plan) : fresh[c] = fresh[d] => c = d}

-----------------------------------------------------------------------------
(* What the properties mean by a family that is as it should be: exactly    *)
(* one record, with every field as wanted, or none for the nil address.     *)
(* It is stated without the helpers of the code.                            *)

Publishes(recs, f, a, s) ==
  LET mine == {r \in recs : r.type = f}
  IN IF a = NoAddr
     THEN mine = {}
     ELSE \E i \in Ids : mine =
            {[id |-> i, type |-> f, content |-> a, ttl |-> s.ttl, proxied |-> s.proxied]}
=============================================================================
