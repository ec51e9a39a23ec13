---------------------------- MODULE DnsPlanProofs ----------------------------
(***************************************************************************)
(* What the planning operators of DnsPlan return, for every set of         *)
(* records, addresses and settings.                                        *)
(***************************************************************************)
EXTENDS DnsPlan, TLAPS, WellFoundedInduction

LEMMA ByTypeType ==
  ASSUME NEW recs \in SUBSET Record, NEW t
  PROVE  ByType(recs, t) \in SUBSET Record /\ \A r \in ByType(recs, t) : r.type = t
BY DEF ByType

LEMMA FirstOfSubset == \A recs : FirstOf(recs) \subseteq recs
BY DEF FirstOf

LEMMA KeptSubset == \A recs, d : Kept(recs, d) \subseteq recs
BY DEF Kept, FirstOf, Matching

LEMMA DesiredRecordType ==
  ASSUME NEW f \in Family, NEW a \in Addr, NEW s \in Settings
  PROVE  DesiredRecord(f, a, s) \in Desired /\ DesiredRecord(f, a, s).type = f
BY DEF DesiredRecord, Desired, Settings

\* The three kinds of operations, and the type of record that each is about.
LEMMA CreateOpType ==
  ASSUME NEW d \in Desired
  PROVE  CreateOp(d) \in Operation /\ OpType(CreateOp(d)) = d.type
<1>1. CreateOp(d) \in CreateOps
  BY DEF CreateOps
<1>2. CreateOp(d).kind = "create" /\ CreateOp(d).desired = d
  BY DEF CreateOp
<1> QED BY <1>1, <1>2 DEF Operation, OpType

LEMMA UpdateOpType ==
  ASSUME NEW r \in Record, NEW d \in Desired
  PROVE  UpdateOp(r, d) \in Operation /\ OpType(UpdateOp(r, d)) = r.type
<1>1. UpdateOp(r, d) \in UpdateOps
  BY DEF UpdateOps
<1>2. UpdateOp(r, d).kind # "create" /\ UpdateOp(r, d).current = r
  BY DEF UpdateOp
<1> QED BY <1>1, <1>2 DEF Operation, OpType

LEMMA DeleteOpType ==
  ASSUME NEW r \in Record
  PROVE  DeleteOp(r) \in Operation /\ OpType(DeleteOp(r)) = r.type
<1>1. DeleteOp(r) \in DeleteOps
  BY DEF DeleteOps
<1>2. DeleteOp(r).kind # "create" /\ DeleteOp(r).current = r
  BY DEF DeleteOp
<1> QED BY <1>1, <1>2 DEF Operation, OpType

\* The plan of one family consists of operations on that family.
LEMMA BuildTypePlanType ==
  ASSUME NEW recs \in SUBSET Record, NEW f \in Family, NEW a \in Addr \cup {NoAddr},
         NEW s \in Settings, \A r \in recs : r.type = f
  PROVE  \A op \in BuildTypePlan(recs, f, a, s) : op \in Operation /\ OpType(op) = f
<1> DEFINE d == DesiredRecord(f, a, s)
<1>1. CASE a = NoAddr
  <2>1. BuildTypePlan(recs, f, a, s) = {DeleteOp(r) : r \in recs}
    BY <1>1 DEF BuildTypePlan
  <2> QED BY <2>1, DeleteOpType
<1>2. CASE a # NoAddr
  <2>1. d \in Desired /\ d.type = f
    BY <1>2, DesiredRecordType
  <2> HIDE DEF d
  <2>2. CASE recs = {}
    <3>1. BuildTypePlan(recs, f, a, s) = {CreateOp(d)}
      BY <1>2, <2>2 DEF BuildTypePlan, d
    <3> QED BY <3>1, <2>1, CreateOpType
  <2>3. CASE recs # {}
    <3>1. BuildTypePlan(recs, f, a, s) =
            {DeleteOp(r) : r \in recs \ Kept(recs, d)}
              \cup {UpdateOp(r, d) : r \in Kept(recs, d) \ Matching(recs, d)}
      BY <1>2, <2>3 DEF BuildTypePlan, d
    <3>2. \A r \in Kept(recs, d) : r \in recs
      BY KeptSubset
    <3> QED BY <3>1, <3>2, <2>1, DeleteOpType, UpdateOpType
  <2> QED BY <2>2, <2>3
<1> QED BY <1>1, <1>2

\* A reconcile plan touches the observed families only.
LEMMA BuildObservedAddressPlanType ==
  ASSUME NEW recs \in SUBSET Record, NEW observed \in SUBSET Family,
         NEW addr \in [Family -> Addr \cup {NoAddr}], NEW s \in Settings
  PROVE  \A op \in BuildObservedAddressPlan(recs, addr, observed, s) :
           op \in Operation /\ OpType(op) \in observed
<1> SUFFICES ASSUME NEW f \in observed, NEW op \in BuildTypePlan(ByType(recs, f), f, addr[f], s)
             PROVE  op \in Operation /\ OpType(op) \in observed
  BY DEF BuildObservedAddressPlan
<1>1. f \in Family /\ addr[f] \in Addr \cup {NoAddr}
  OBVIOUS
<1>2. op \in Operation /\ OpType(op) = f
  BY <1>1, ByTypeType, BuildTypePlanType
<1> QED BY <1>2

LEMMA ForcePushPlanType ==
  ASSUME NEW recs \in SUBSET Record, NEW observed \in SUBSET Family,
         NEW addr \in [Family -> Addr \cup {NoAddr}], NEW s \in Settings
  PROVE  \A op \in ForcePushPlan(recs, addr, observed, s) :
           op \in Operation /\ OpType(op) \in observed
<1> SUFFICES ASSUME NEW f \in observed, addr[f] # NoAddr, NEW r \in FirstOf(ByType(recs, f))
             PROVE  /\ UpdateOp(r, DesiredRecord(f, addr[f], s)) \in Operation
                    /\ OpType(UpdateOp(r, DesiredRecord(f, addr[f], s))) \in observed
  BY DEF ForcePushPlan
<1>1. r \in Record /\ r.type = f
  BY ByTypeType, FirstOfSubset
<1>2. DesiredRecord(f, addr[f], s) \in Desired
  BY DesiredRecordType
<1> QED BY <1>1, <1>2, UpdateOpType

\* A delete plan touches the selected families only.
LEMMA BuildDeletePlanType ==
  ASSUME NEW recs \in SUBSET Record, NEW selection \in SUBSET Family
  PROVE  \A op \in BuildDeletePlan(recs, selection) : op \in Operation /\ OpType(op) \in selection
<1> SUFFICES ASSUME NEW f \in selection, NEW r \in ByType(recs, f)
             PROVE  DeleteOp(r) \in Operation /\ OpType(DeleteOp(r)) \in selection
  BY DEF BuildDeletePlan
<1> QED BY ByTypeType, DeleteOpType

\* Operations carry well-formed records.
LEMMA OperationParts ==
  ASSUME NEW op \in Operation
  PROVE  /\ op.kind \in {"update", "delete"} => op.current \in Record
         /\ op.kind \in {"create", "update"} => op.desired \in Desired
<1>1. CASE op \in CreateOps
  BY <1>1 DEF CreateOps, CreateOp
<1>2. CASE op \in UpdateOps
  BY <1>2 DEF UpdateOps, UpdateOp
<1>3. CASE op \in DeleteOps
  BY <1>3 DEF DeleteOps, DeleteOp
<1> QED BY <1>1, <1>2, <1>3 DEF Operation

LEMMA WithIdType ==
  ASSUME NEW d \in Desired, NEW i \in Ids
  PROVE  WithId(d, i) \in Record
BY DEF WithId, Desired, Record, RecordType

\* A batch turns records into records.
LEMMA ApplyBatchType ==
  ASSUME NEW recs \in SUBSET Record, NEW p \in SUBSET Operation, NEW free \in SUBSET Ids,
         NEW fresh \in FreshIds(p, free)
  PROVE  ApplyBatch(recs, p, fresh) \in SUBSET Record
<1>1. ASSUME NEW op \in Updates(p)
      PROVE  WithId(op.desired, op.current.id) \in Record
  <2>1. op.desired \in Desired /\ op.current.id \in Ids
    BY OperationParts DEF Updates, Record
  <2> QED BY <2>1, WithIdType
<1>2. ASSUME NEW c \in Creates(p)
      PROVE  WithId(c.desired, fresh[c]) \in Record
  <2>1. c.desired \in Desired
    BY OperationParts DEF Creates
  <2>2. fresh[c] \in Ids
    BY DEF FreshIds
  <2> QED BY <2>1, <2>2, WithIdType
<1> QED BY <1>1, <1>2 DEF ApplyBatch

-----------------------------------------------------------------------------
(* The record that survives, and what a published family is.               *)

Less == {p \in Nat \X Nat : p[1] < p[2]}

LEMMA LessIsWellFounded == IsWellFoundedOn(Less, Nat)
BY NatLessThanWellFounded, Zenon DEF OpToRel, Less

LEMMA NatMin ==
  ASSUME NEW S \in SUBSET Nat, S # {}
  PROVE  \E n \in S : \A k \in S : n <= k
<1>1. PICK n \in S : \A k \in S : ~ (<<k, n>> \in Less)
  BY LessIsWellFounded, WFMin
<1>2. ASSUME NEW k \in S PROVE n <= k
  <2>1. k \in Nat /\ n \in Nat
    OBVIOUS
  <2>2. k < n => <<k, n>> \in Less
    BY <2>1 DEF Less
  <2> QED BY <1>1, <2>1, <2>2
<1> QED BY <1>2

\* There is one first record of any records that have IDs of their own.
LEMMA FirstOfIsOne ==
  ASSUME NEW recs \in SUBSET Record, recs # {}, UniqueIds(recs)
  PROVE  \E k \in recs : FirstOf(recs) = {k}
<1> DEFINE ids == {r.id : r \in recs}
<1>1. ids \in SUBSET Nat /\ ids # {}
  BY IdsAreNumbers DEF Record
<1>2. PICK n \in ids : \A i \in ids : n <= i
  BY <1>1, NatMin
<1>3. PICK k \in recs : k.id = n
  OBVIOUS
<1>4. \A r \in recs : k.id <= r.id
  BY <1>2, <1>3
<1>5. \A r \in recs : r.id \in Nat
  BY <1>1
<1>6. ASSUME NEW r \in FirstOf(recs) PROVE r = k
  <2>1. r \in recs /\ r.id <= k.id
    BY DEF FirstOf
  <2>2. r.id = k.id
    BY <1>4, <1>5, <2>1
  <2> QED BY <2>1, <2>2 DEF UniqueIds
<1>7. k \in FirstOf(recs)
  BY <1>4 DEF FirstOf
<1> QED BY <1>6, <1>7

LEMMA UniqueIdsOfFewer ==
  ASSUME NEW recs, NEW fewer, UniqueIds(recs), fewer \subseteq recs
  PROVE  UniqueIds(fewer)
BY DEF UniqueIds

\* One record survives, and it is one that matches if there is one.
LEMMA KeptIsOne ==
  ASSUME NEW recs \in SUBSET Record, recs # {}, UniqueIds(recs), NEW d
  PROVE  \E k \in recs : /\ Kept(recs, d) = {k}
                         /\ Matching(recs, d) # {} => RecordMatchesDesired(k, d)
<1>1. Matching(recs, d) \subseteq recs /\ \A r \in Matching(recs, d) : RecordMatchesDesired(r, d)
  BY DEF Matching
<1>2. CASE Matching(recs, d) = {}
  BY <1>2, FirstOfIsOne DEF Kept
<1>3. CASE Matching(recs, d) # {}
  <2>1. UniqueIds(Matching(recs, d)) /\ Matching(recs, d) \in SUBSET Record
    BY <1>1, UniqueIdsOfFewer
  <2>2. PICK k \in Matching(recs, d) : FirstOf(Matching(recs, d)) = {k}
    BY <1>3, <2>1, FirstOfIsOne
  <2> QED BY <1>1, <1>3, <2>2 DEF Kept
<1> QED BY <1>2, <1>3

\* A record that matches is the desired one under an ID.
LEMMA MatchIsDesired ==
  ASSUME NEW r \in Record, NEW d
  PROVE  RecordMatchesDesired(r, d) <=> r = WithId(d, r.id)
<1>1. r = [id |-> r.id, type |-> r.type, content |-> r.content, ttl |-> r.ttl, proxied |-> r.proxied]
  BY DEF Record
<1>2. RecordMatchesDesired(r, d) => r = WithId(d, r.id)
  BY <1>1 DEF RecordMatchesDesired, WithId
<1>3. r = WithId(d, r.id) => RecordMatchesDesired(r, d)
  BY DEF RecordMatchesDesired, WithId
<1> QED BY <1>2, <1>3

\* What a published family is, in the terms of the code.
LEMMA PublishedIs ==
  ASSUME NEW recs \in SUBSET Record, NEW f, NEW a, NEW s
  PROVE  Publishes(recs, f, a, s) <=>
           IF a = NoAddr THEN ByType(recs, f) = {}
           ELSE \E i \in Ids : ByType(recs, f) = {WithId(DesiredRecord(f, a, s), i)}
<1>1. \A i : WithId(DesiredRecord(f, a, s), i) =
               [id |-> i, type |-> f, content |-> a, ttl |-> s.ttl, proxied |-> s.proxied]
  BY DEF WithId, DesiredRecord
<1> QED BY <1>1 DEF Publishes, ByType

\* verifyTypeState accepts the records of a family exactly when it is published.
LEMMA VerifyIsPublishes ==
  ASSUME NEW recs \in SUBSET Record, NEW f, NEW a, NEW s
  PROVE  VerifyTypeState(ByType(recs, f), f, a, s) <=> Publishes(recs, f, a, s)
<1> DEFINE d == DesiredRecord(f, a, s)
           mine == ByType(recs, f)
<1>1. \A r \in mine : r \in Record
  BY DEF ByType
<1>2. \A r \in Record : RecordMatchesDesired(r, d) <=> r = WithId(d, r.id)
  BY MatchIsDesired
<1>3. \A r \in Record : r.id \in Ids
  BY DEF Record
<1>4. \A i : WithId(d, i).id = i
  BY DEF WithId
<1>5. (\E r \in mine : mine = {r} /\ RecordMatchesDesired(r, d)) <=> \E i \in Ids : mine = {WithId(d, i)}
  <2> HIDE DEF d, mine
  <2>1. ASSUME NEW r \in mine, mine = {r}, RecordMatchesDesired(r, d)
        PROVE  \E i \in Ids : mine = {WithId(d, i)}
    BY <1>1, <1>2, <1>3, <2>1
  <2>2. ASSUME NEW i \in Ids, mine = {WithId(d, i)}
        PROVE  \E r \in mine : mine = {r} /\ RecordMatchesDesired(r, d)
    BY <1>1, <1>2, <1>4, <2>2
  <2> QED BY <2>1, <2>2
<1> HIDE DEF d
<1> QED BY <1>5, PublishedIs DEF VerifyTypeState, d

-----------------------------------------------------------------------------
(* What a batch does, type by type.                                         *)

\* The records that a plan wants updated or gone.
Current(p) == {op.current : op \in Updates(p) \cup Deletes(p)}

\* No update turns a record into one of another type.
TypesKept(p) == \A op \in Updates(p) : op.desired.type = op.current.type

Faithful(p, recs) == Current(p) \subseteq recs /\ TypesKept(p)

LEMMA OpKinds ==
  /\ \A d : CreateOp(d).kind = "create" /\ CreateOp(d).desired = d
  /\ \A r, d : /\ UpdateOp(r, d).kind = "update" /\ UpdateOp(r, d).current = r
               /\ UpdateOp(r, d).desired = d
  /\ \A r : DeleteOp(r).kind = "delete" /\ DeleteOp(r).current = r
BY DEF CreateOp, UpdateOp, DeleteOp

LEMMA FaithfulOps ==
  ASSUME NEW p, NEW recs,
         \A op \in p : /\ op.kind \in {"update", "delete"} => op.current \in recs
                       /\ op.kind = "update" => op.desired.type = op.current.type
  PROVE  Faithful(p, recs)
BY DEF Faithful, Current, TypesKept, Updates, Deletes

LEMMA FaithfulParts ==
  ASSUME NEW p, NEW recs, Faithful(p, recs), NEW op \in p
  PROVE  /\ op.kind \in {"update", "delete"} => op.current \in recs
         /\ op.kind = "update" => op.desired.type = op.current.type
BY DEF Faithful, Current, TypesKept, Updates, Deletes

\* The operations of a plan that are about records of type t.
OfType(p, t) == {op \in p : OpType(op) = t}

\* A batch does to the records of one type what its operations on that type
\* would do to them alone.
LEMMA BatchActsByType ==
  ASSUME NEW recs \in SUBSET Record, UniqueIds(recs), NEW p, Faithful(p, recs), NEW t, NEW fresh
  PROVE  ByType(ApplyBatch(recs, p, fresh), t) = ApplyBatch(ByType(recs, t), OfType(p, t), fresh)
<1>0. /\ Updates(OfType(p, t)) = {op \in Updates(p) : op.current.type = t}
      /\ Deletes(OfType(p, t)) = {op \in Deletes(p) : op.current.type = t}
      /\ Creates(OfType(p, t)) = {op \in Creates(p) : op.desired.type = t}
  BY DEF OfType, Updates, Deletes, Creates, OpType
<1>1. \A r \in recs : r.type = t => (r.id \in Named(p) <=> r.id \in Named(OfType(p, t)))
  <2>1. \A op \in Updates(p) \cup Deletes(p) : op.current \in recs
    BY DEF Faithful, Current
  <2> QED BY <1>0, <2>1 DEF Named, UniqueIds
<1>2. {r \in recs : r.id \notin Named(p) /\ r.type = t} =
        {r \in ByType(recs, t) : r.id \notin Named(OfType(p, t))}
  BY <1>1 DEF ByType
<1>3. \A d, i : WithId(d, i).type = d.type
  BY DEF WithId
<1>4. {r \in {WithId(op.desired, op.current.id) : op \in Updates(p)} : r.type = t} =
        {WithId(op.desired, op.current.id) : op \in Updates(OfType(p, t))}
  BY <1>0, <1>3 DEF Faithful, TypesKept
<1>5. {r \in {WithId(c.desired, fresh[c]) : c \in Creates(p)} : r.type = t} =
        {WithId(c.desired, fresh[c]) : c \in Creates(OfType(p, t))}
  BY <1>0, <1>3
<1>6. ByType(ApplyBatch(recs, p, fresh), t) =
        {r \in recs : r.id \notin Named(p) /\ r.type = t}
          \cup {r \in {WithId(op.desired, op.current.id) : op \in Updates(p)} : r.type = t}
          \cup {r \in {WithId(c.desired, fresh[c]) : c \in Creates(p)} : r.type = t}
  BY DEF ByType, ApplyBatch
<1> QED BY <1>2, <1>4, <1>5, <1>6 DEF ApplyBatch

\* Nothing to do leaves the records as they are.
LEMMA NoOperations ==
  \A recs, fresh : ApplyBatch(recs, {}, fresh) = recs /\ Accepts(recs, {})
BY DEF ApplyBatch, Accepts, Named, Updates, Deletes, Creates

\* Deletions alone.
LEMMA ApplyDeletes ==
  ASSUME NEW recs, UniqueIds(recs), NEW gone \in SUBSET recs, NEW fresh
  PROVE  ApplyBatch(recs, {DeleteOp(r) : r \in gone}, fresh) = recs \ gone
<1> DEFINE p == {DeleteOp(r) : r \in gone}
<1>1. Updates(p) = {} /\ Creates(p) = {} /\ Deletes(p) = p
  BY OpKinds DEF Updates, Creates, Deletes
<1>2. Named(p) = {r.id : r \in gone}
  <2>1. \A r : DeleteOp(r).current = r
    BY OpKinds
  <2>2. Named(p) = {op.current.id : op \in p}
    BY <1>1 DEF Named
  <2> QED BY <2>1, <2>2
<1> HIDE DEF p
<1>3. ApplyBatch(recs, p, fresh) = {r \in recs : r.id \notin {q.id : q \in gone}}
  BY <1>1, <1>2 DEF ApplyBatch
<1> QED BY <1>3 DEF UniqueIds, p

LEMMA ApplyCreate ==
  ASSUME NEW recs, NEW d, NEW fresh
  PROVE  ApplyBatch(recs, {CreateOp(d)}, fresh) = recs \cup {WithId(d, fresh[CreateOp(d)])}
<1> DEFINE p == {CreateOp(d)}
<1>1. Updates(p) = {} /\ Creates(p) = p /\ Deletes(p) = {}
  BY OpKinds DEF Updates, Creates, Deletes
<1> HIDE DEF p
<1>2. ApplyBatch(recs, p, fresh) = recs \cup {WithId(c.desired, fresh[c]) : c \in p}
  BY <1>1 DEF ApplyBatch, Named
<1>3. CreateOp(d).desired = d
  BY OpKinds
<1> QED BY <1>2, <1>3 DEF p

\* One record rewritten, the others removed.
LEMMA ApplyKeepOne ==
  ASSUME NEW recs, UniqueIds(recs), NEW k \in recs, NEW d, NEW fresh
  PROVE  ApplyBatch(recs, {DeleteOp(r) : r \in recs \ {k}} \cup {UpdateOp(k, d)}, fresh) = {WithId(d, k.id)}
<1> DEFINE p == {DeleteOp(r) : r \in recs \ {k}} \cup {UpdateOp(k, d)}
<1>1. /\ Updates(p) = {UpdateOp(k, d)} /\ Creates(p) = {}
      /\ Deletes(p) = {DeleteOp(r) : r \in recs \ {k}}
  BY OpKinds DEF Updates, Creates, Deletes
<1>2. UpdateOp(k, d).current = k /\ UpdateOp(k, d).desired = d
  BY OpKinds
<1>3. \A r \in recs : \E op \in Updates(p) \cup Deletes(p) : op.current = r
  <2>1. \A r : DeleteOp(r).current = r
    BY OpKinds
  <2> HIDE DEF p
  <2> QED BY <1>1, <1>2, <2>1
<1> HIDE DEF p
<1>4. \A r \in recs : r.id \in Named(p)
  BY <1>3 DEF Named
<1>5. ApplyBatch(recs, p, fresh) = {WithId(op.desired, op.current.id) : op \in {UpdateOp(k, d)}}
  BY <1>1, <1>4 DEF ApplyBatch
<1> QED BY <1>2, <1>5 DEF p

LEMMA ApplyRewrite ==
  ASSUME NEW recs, UniqueIds(recs), NEW k \in recs, NEW d, NEW fresh
  PROVE  ApplyBatch(recs, {UpdateOp(k, d)}, fresh) = (recs \ {k}) \cup {WithId(d, k.id)}
<1> DEFINE p == {UpdateOp(k, d)}
<1>1. Updates(p) = p /\ Creates(p) = {} /\ Deletes(p) = {}
  BY OpKinds DEF Updates, Creates, Deletes
<1>2. UpdateOp(k, d).current = k /\ UpdateOp(k, d).desired = d
  BY OpKinds
<1>3. Named(p) = {k.id}
  BY <1>1, <1>2 DEF Named
<1> HIDE DEF p
<1>4. ApplyBatch(recs, p, fresh) = (recs \ {k}) \cup {WithId(op.desired, op.current.id) : op \in p}
  BY <1>1, <1>3 DEF ApplyBatch, UniqueIds
<1> QED BY <1>2, <1>4 DEF p

-----------------------------------------------------------------------------
(* The plan of one family.                                                  *)

\* The three cases of buildTypePlan.
LEMMA TypePlanCases ==
  ASSUME NEW recs \in SUBSET Record, UniqueIds(recs), NEW f, NEW a, NEW s
  PROVE  LET d == DesiredRecord(f, a, s) IN
         \/ a = NoAddr /\ BuildTypePlan(recs, f, a, s) = {DeleteOp(r) : r \in recs}
         \/ a # NoAddr /\ recs = {} /\ BuildTypePlan(recs, f, a, s) = {CreateOp(d)}
         \/ a # NoAddr /\ \E k \in recs :
              /\ Kept(recs, d) = {k}
              /\ RecordMatchesDesired(k, d)
              /\ BuildTypePlan(recs, f, a, s) = {DeleteOp(r) : r \in recs \ {k}}
         \/ a # NoAddr /\ \E k \in recs :
              /\ Kept(recs, d) = {k}
              /\ Matching(recs, d) = {}
              /\ BuildTypePlan(recs, f, a, s) = {DeleteOp(r) : r \in recs \ {k}} \cup {UpdateOp(k, d)}
<1> DEFINE d == DesiredRecord(f, a, s)
<1>1. CASE a = NoAddr
  BY <1>1 DEF BuildTypePlan
<1>2. CASE a # NoAddr /\ recs = {}
  BY <1>2 DEF BuildTypePlan
<1>3. CASE a # NoAddr /\ recs # {}
  <2>1. BuildTypePlan(recs, f, a, s) =
          {DeleteOp(r) : r \in recs \ Kept(recs, d)}
            \cup {UpdateOp(r, d) : r \in Kept(recs, d) \ Matching(recs, d)}
    BY <1>3 DEF BuildTypePlan
  <2> HIDE DEF d
  <2>2. PICK k \in recs : /\ Kept(recs, d) = {k}
                          /\ Matching(recs, d) # {} => RecordMatchesDesired(k, d)
    BY <1>3, KeptIsOne
  <2>3. CASE Matching(recs, d) # {}
    <3>1. k \in Matching(recs, d)
      BY <2>2, <2>3 DEF Matching
    <3>2. {UpdateOp(r, d) : r \in Kept(recs, d) \ Matching(recs, d)} = {}
      BY <2>2, <3>1
    <3>3. BuildTypePlan(recs, f, a, s) = {DeleteOp(r) : r \in recs \ {k}}
      BY <2>1, <2>2, <3>2
    <3> QED BY <1>3, <2>2, <2>3, <3>3 DEF d
  <2>4. CASE Matching(recs, d) = {}
    <3>1. BuildTypePlan(recs, f, a, s) = {DeleteOp(r) : r \in recs \ {k}} \cup {UpdateOp(k, d)}
      BY <2>1, <2>2, <2>4
    <3> QED BY <1>3, <2>2, <2>4, <3>1 DEF d
  <2> QED BY <2>3, <2>4
<1> QED BY <1>1, <1>2, <1>3

\* Each operation of a family's plan deletes or rewrites a record that was
\* read, or creates the desired one.
LEMMA TypePlanOps ==
  ASSUME NEW recs, NEW f, NEW a, NEW s, NEW op \in BuildTypePlan(recs, f, a, s)
  PROVE  \/ \E r \in recs : op = DeleteOp(r)
         \/ op = CreateOp(DesiredRecord(f, a, s))
         \/ \E r \in recs : op = UpdateOp(r, DesiredRecord(f, a, s))
<1> DEFINE d == DesiredRecord(f, a, s)
<1>1. Kept(recs, d) \subseteq recs
  BY KeptSubset
<1> HIDE DEF d
<1>2. BuildTypePlan(recs, f, a, s) \subseteq
        {DeleteOp(r) : r \in recs} \cup {CreateOp(d)} \cup {UpdateOp(r, d) : r \in recs}
  BY <1>1 DEF BuildTypePlan, d
<1> QED BY <1>2 DEF d

\* The plan of a family speaks of the records that were read, and keeps their type.
LEMMA TypePlanFaithful ==
  ASSUME NEW recs, NEW f, NEW a, NEW s, \A r \in recs : r.type = f
  PROVE  Faithful(BuildTypePlan(recs, f, a, s), recs)
<1> DEFINE d == DesiredRecord(f, a, s)
<1>1. d.type = f
  BY DEF DesiredRecord
<1>2. \A op \in BuildTypePlan(recs, f, a, s) :
        (\E r \in recs : op = DeleteOp(r)) \/ op = CreateOp(d) \/ \E r \in recs : op = UpdateOp(r, d)
  BY TypePlanOps
<1> HIDE DEF d
<1>3. \A op \in BuildTypePlan(recs, f, a, s) :
        /\ op.kind \in {"update", "delete"} => op.current \in recs
        /\ op.kind = "update" => op.desired.type = op.current.type
  BY <1>1, <1>2, OpKinds
<1> QED BY <1>3, FaithfulOps

\* The plan of a family leaves the family published.
LEMMA TypePlanAchieves ==
  ASSUME NEW recs \in SUBSET Record, UniqueIds(recs), NEW f, NEW a, NEW s, NEW fresh,
         a # NoAddr /\ recs = {} => fresh[CreateOp(DesiredRecord(f, a, s))] \in Ids
  PROVE  LET after == ApplyBatch(recs, BuildTypePlan(recs, f, a, s), fresh)
         IN IF a = NoAddr THEN after = {}
            ELSE \E i \in Ids : after = {WithId(DesiredRecord(f, a, s), i)}
<1> DEFINE d == DesiredRecord(f, a, s)
           p == BuildTypePlan(recs, f, a, s)
<1>1. CASE a = NoAddr /\ p = {DeleteOp(r) : r \in recs}
  <2>1. ApplyBatch(recs, p, fresh) = recs \ recs
    BY <1>1, ApplyDeletes
  <2> QED BY <1>1, <2>1
<1>2. CASE a # NoAddr /\ recs = {} /\ p = {CreateOp(d)}
  <2>1. ApplyBatch(recs, p, fresh) = {WithId(d, fresh[CreateOp(d)])}
    BY <1>2, ApplyCreate
  <2> QED BY <1>2, <2>1
<1>3. ASSUME a # NoAddr, NEW k \in recs, RecordMatchesDesired(k, d), p = {DeleteOp(r) : r \in recs \ {k}}
      PROVE  \E i \in Ids : ApplyBatch(recs, p, fresh) = {WithId(d, i)}
  <2>1. ApplyBatch(recs, p, fresh) = {k}
    <3>1. recs \ {k} \in SUBSET recs /\ recs \ (recs \ {k}) = {k}
      OBVIOUS
    <3>2. ApplyBatch(recs, {DeleteOp(r) : r \in recs \ {k}}, fresh) = recs \ (recs \ {k})
      BY <3>1, ApplyDeletes
    <3> QED BY <1>3, <3>1, <3>2
  <2>2. k = WithId(d, k.id) /\ k.id \in Ids
    BY <1>3, MatchIsDesired DEF Record
  <2> QED BY <2>1, <2>2
<1>4. ASSUME a # NoAddr, NEW k \in recs, p = {DeleteOp(r) : r \in recs \ {k}} \cup {UpdateOp(k, d)}
      PROVE  \E i \in Ids : ApplyBatch(recs, p, fresh) = {WithId(d, i)}
  <2>1. ApplyBatch(recs, {DeleteOp(r) : r \in recs \ {k}} \cup {UpdateOp(k, d)}, fresh) = {WithId(d, k.id)}
    BY ApplyKeepOne
  <2>2. k.id \in Ids
    BY DEF Record
  <2> QED BY <1>4, <2>1, <2>2
<1> QED BY <1>1, <1>2, <1>3, <1>4, TypePlanCases

\* There is nothing to do for a family exactly when it is published.
LEMMA TypePlanIsEmpty ==
  ASSUME NEW recs \in SUBSET Record, UniqueIds(recs), NEW f, NEW a, NEW s
  PROVE  BuildTypePlan(recs, f, a, s) = {} <=>
           IF a = NoAddr THEN recs = {} ELSE \E i \in Ids : recs = {WithId(DesiredRecord(f, a, s), i)}
<1> DEFINE d == DesiredRecord(f, a, s)
           p == BuildTypePlan(recs, f, a, s)
           right == \E i \in Ids : recs = {WithId(d, i)}
<1>0. \A i : RecordMatchesDesired(WithId(d, i), d)
  BY DEF WithId, RecordMatchesDesired
<1>1. CASE a = NoAddr /\ p = {DeleteOp(r) : r \in recs}
  BY <1>1
<1>2. CASE a # NoAddr /\ recs = {} /\ p = {CreateOp(d)}
  BY <1>2
<1>3. ASSUME a # NoAddr, NEW k \in recs, RecordMatchesDesired(k, d), p = {DeleteOp(r) : r \in recs \ {k}}
      PROVE  p = {} <=> right
  <2>1. k = WithId(d, k.id) /\ k.id \in Ids
    BY <1>3, MatchIsDesired DEF Record
  <2>2. p = {} <=> recs = {k}
    BY <1>3
  <2> HIDE DEF d, p
  <2> QED BY <2>1, <2>2
<1>4. ASSUME a # NoAddr, NEW k \in recs, Matching(recs, d) = {},
             p = {DeleteOp(r) : r \in recs \ {k}} \cup {UpdateOp(k, d)}
      PROVE  p = {} <=> right
  <2>1. p # {}
    BY <1>4
  <2>2. ~ right
    BY <1>0, <1>4 DEF Matching
  <2> QED BY <2>1, <2>2
<1> QED BY <1>1, <1>2, <1>3, <1>4, TypePlanCases

\* No record is rewritten twice by a plan.
RewritesOnce(p) == \A o, q \in Updates(p) : o.current = q.current => o = q

\* A provider that still has the records that were read accepts the batch.
LEMMA FaithfulIsAccepted ==
  ASSUME NEW p, NEW recs, Faithful(p, recs)
  PROVE  Accepts(recs, p)
BY DEF Faithful, Current, Accepts, Named

\* A batch gives no ID to two records.
LEMMA IdsStayUnique ==
  ASSUME NEW recs, UniqueIds(recs), NEW p, Faithful(p, recs), RewritesOnce(p),
         NEW free, free \cap {r.id : r \in recs} = {}, NEW fresh \in FreshIds(p, free)
  PROVE  UniqueIds(ApplyBatch(recs, p, fresh))
<1> DEFINE Stays(r)   == r \in recs /\ r.id \notin Named(p)
           Rewrites(r) == \E op \in Updates(p) : r = WithId(op.desired, op.current.id)
           Created(r) == \E c \in Creates(p) : r = WithId(c.desired, fresh[c])
<1>1. \A r \in ApplyBatch(recs, p, fresh) : Stays(r) \/ Rewrites(r) \/ Created(r)
  BY DEF ApplyBatch
<1>2. \A d, i : WithId(d, i).id = i
  BY DEF WithId
<1>3. \A op \in Updates(p) : op.current.id \in Named(p) /\ op.current \in recs
  BY DEF Named, Faithful, Current
<1>4. \A r : Rewrites(r) => r.id \in Named(p) /\ r.id \notin free
  BY <1>2, <1>3
<1>5. \A r : Created(r) => r.id \in free
  BY <1>2 DEF FreshIds
<1>6. \A r : Stays(r) => r.id \notin Named(p) /\ r.id \notin free
  OBVIOUS
<1>7. \A r, q : Stays(r) /\ Stays(q) /\ r.id = q.id => r = q
  BY DEF UniqueIds
<1>8. \A r, q : Rewrites(r) /\ Rewrites(q) /\ r.id = q.id => r = q
  <2> SUFFICES ASSUME NEW o \in Updates(p), NEW q \in Updates(p), o.current.id = q.current.id
               PROVE  o = q
    BY <1>2
  <2> QED BY <1>3 DEF UniqueIds, RewritesOnce
<1>9. \A r, q : Created(r) /\ Created(q) /\ r.id = q.id => r = q
  <2> SUFFICES ASSUME NEW c \in Creates(p), NEW d \in Creates(p), fresh[c] = fresh[d]
               PROVE  c = d
    BY <1>2
  <2> QED BY DEF FreshIds
<1> HIDE DEF Stays, Rewrites, Created
<1> QED BY <1>1, <1>4, <1>5, <1>6, <1>7, <1>8, <1>9 DEF UniqueIds

LEMMA TypePlanRewritesOnce ==
  ASSUME NEW recs, NEW f, NEW a, NEW s
  PROVE  \A op \in Updates(BuildTypePlan(recs, f, a, s)) : op = UpdateOp(op.current, DesiredRecord(f, a, s))
<1> DEFINE d == DesiredRecord(f, a, s)
<1>1. \A op \in BuildTypePlan(recs, f, a, s) :
        (\E r \in recs : op = DeleteOp(r)) \/ op = CreateOp(d) \/ \E r \in recs : op = UpdateOp(r, d)
  BY TypePlanOps
<1> HIDE DEF d
<1>2. \A op \in Updates(BuildTypePlan(recs, f, a, s)) : op.kind = "update" /\ op \in BuildTypePlan(recs, f, a, s)
  BY DEF Updates
<1> QED BY <1>1, <1>2, OpKinds DEF d

-----------------------------------------------------------------------------
(* The three plans of an attempt. *)

LEMMA DeletePlanParts ==
  ASSUME NEW recs, NEW selection
  PROVE  LET p == BuildDeletePlan(recs, selection)
         IN /\ Faithful(p, recs)
            /\ Updates(p) = {} /\ Creates(p) = {} /\ Deletes(p) = p
            /\ \A op \in p : op.current.type \in selection
            /\ \A r \in recs : r.type \in selection => DeleteOp(r) \in p
<1> DEFINE p == BuildDeletePlan(recs, selection)
<1>1. \A op \in p : op.kind = "delete" /\ op.current \in recs /\ op.current.type \in selection
  BY OpKinds DEF BuildDeletePlan, ByType
<1>2. \A r \in recs : r.type \in selection => DeleteOp(r) \in p
  BY DEF BuildDeletePlan, ByType
<1> HIDE DEF p
<1>3. Faithful(p, recs)
  BY <1>1, FaithfulOps
<1> QED BY <1>1, <1>2, <1>3 DEF Updates, Creates, Deletes, p

LEMMA ObservedPlanFaithful ==
  ASSUME NEW recs, NEW addr, NEW observed, NEW s
  PROVE  LET p == BuildObservedAddressPlan(recs, addr, observed, s)
         IN Faithful(p, recs) /\ RewritesOnce(p)
<1> DEFINE p == BuildObservedAddressPlan(recs, addr, observed, s)
           P(f) == BuildTypePlan(ByType(recs, f), f, addr[f], s)
<1>1. \A op \in p : \E f \in observed : op \in P(f)
  BY DEF BuildObservedAddressPlan
<1>2. ASSUME NEW f \in observed, NEW op \in P(f)
      PROVE  /\ op.kind \in {"update", "delete"} => op.current \in recs /\ op.current.type = f
             /\ op.kind = "update" => /\ op.desired.type = op.current.type
                                      /\ op = UpdateOp(op.current, DesiredRecord(f, addr[f], s))
  <2>1. (\A r \in ByType(recs, f) : r.type = f) /\ ByType(recs, f) \subseteq recs
    BY DEF ByType
  <2>2. Faithful(P(f), ByType(recs, f))
    BY <2>1, TypePlanFaithful
  <2>3. /\ op.kind \in {"update", "delete"} => op.current \in ByType(recs, f)
        /\ op.kind = "update" => op.desired.type = op.current.type
    BY <2>2, FaithfulParts
  <2>4. op.kind = "update" => op = UpdateOp(op.current, DesiredRecord(f, addr[f], s))
    BY TypePlanRewritesOnce DEF Updates
  <2> QED BY <2>1, <2>3, <2>4
<1> HIDE DEF p, P
<1>3. Faithful(p, recs)
  BY <1>1, <1>2, FaithfulOps
<1>4. RewritesOnce(p)
  BY <1>1, <1>2 DEF RewritesOnce, Updates
<1> QED BY <1>3, <1>4 DEF p

\* The families of a reconcile plan do not mix.
LEMMA ObservedPlanOfType ==
  ASSUME NEW recs \in SUBSET Record, NEW observed, observed \subseteq Family, NEW addr,
         NEW s \in Settings, \A f \in observed : addr[f] \in Addr \cup {NoAddr}
  PROVE  \A f \in observed : OfType(BuildObservedAddressPlan(recs, addr, observed, s), f) =
                               BuildTypePlan(ByType(recs, f), f, addr[f], s)
<1> DEFINE p == BuildObservedAddressPlan(recs, addr, observed, s)
           P(f) == BuildTypePlan(ByType(recs, f), f, addr[f], s)
<1>1. p = UNION {P(f) : f \in observed}
  BY DEF BuildObservedAddressPlan
<1>2. \A f \in observed : \A op \in P(f) : OpType(op) = f
  <2> TAKE f \in observed
  <2>1. f \in Family /\ addr[f] \in Addr \cup {NoAddr}
    OBVIOUS
  <2> QED BY <2>1, ByTypeType, BuildTypePlanType
<1> HIDE DEF p, P
<1>3. \A f \in observed : OfType(p, f) = P(f)
  BY <1>1, <1>2 DEF OfType
<1> QED BY <1>3 DEF p, P

LEMMA ObservedPlanOfOther ==
  ASSUME NEW recs \in SUBSET Record, NEW observed, observed \subseteq Family, NEW addr,
         NEW s \in Settings, \A f \in observed : addr[f] \in Addr \cup {NoAddr}
  PROVE  \A t : t \notin observed => OfType(BuildObservedAddressPlan(recs, addr, observed, s), t) = {}
<1> DEFINE p == BuildObservedAddressPlan(recs, addr, observed, s)
           P(f) == BuildTypePlan(ByType(recs, f), f, addr[f], s)
<1>1. p = UNION {P(f) : f \in observed}
  BY DEF BuildObservedAddressPlan
<1>2. \A f \in observed : \A op \in P(f) : OpType(op) = f
  <2> TAKE f \in observed
  <2>1. f \in Family /\ addr[f] \in Addr \cup {NoAddr}
    OBVIOUS
  <2> QED BY <2>1, ByTypeType, BuildTypePlanType
<1> HIDE DEF p, P
<1>3. \A t : t \notin observed => OfType(p, t) = {}
  BY <1>1, <1>2 DEF OfType
<1> QED BY <1>3 DEF p

LEMMA ForcePushPlanParts ==
  ASSUME NEW recs, NEW addr, NEW observed, NEW s
  PROVE  \A op \in ForcePushPlan(recs, addr, observed, s) :
           \E f \in observed : \E r \in FirstOf(ByType(recs, f)) :
             /\ addr[f] # NoAddr
             /\ op = UpdateOp(r, DesiredRecord(f, addr[f], s))
             /\ op.kind = "update" /\ op.current = r /\ op.desired = DesiredRecord(f, addr[f], s)
             /\ r \in recs /\ r.type = f
BY OpKinds DEF ForcePushPlan, FirstOf, ByType

LEMMA ForcePushPlanFaithful ==
  ASSUME NEW recs, NEW addr, NEW observed, NEW s
  PROVE  LET p == ForcePushPlan(recs, addr, observed, s)
         IN Faithful(p, recs) /\ RewritesOnce(p) /\ Updates(p) = p /\ Creates(p) = {}
<1> DEFINE p == ForcePushPlan(recs, addr, observed, s)
<1>1. \A op \in p : \E f \in observed : \E r \in FirstOf(ByType(recs, f)) :
             /\ op = UpdateOp(r, DesiredRecord(f, addr[f], s))
             /\ op.kind = "update" /\ op.current = r /\ op.desired = DesiredRecord(f, addr[f], s)
             /\ r \in recs /\ r.type = f
  BY ForcePushPlanParts
<1>2. \A f : DesiredRecord(f, addr[f], s).type = f
  BY DEF DesiredRecord
<1> HIDE DEF p
<1>3. \A op \in p : op.kind = "update" /\ op.current \in recs /\ op.desired.type = op.current.type
  BY <1>1, <1>2
<1>4. Faithful(p, recs)
  BY <1>3, FaithfulOps
<1>5. Updates(p) = p /\ Creates(p) = {}
  BY <1>3 DEF Updates, Creates
<1>6. RewritesOnce(p)
  BY <1>1 DEF RewritesOnce, Updates
<1> QED BY <1>4, <1>5, <1>6 DEF p

-----------------------------------------------------------------------------
(* What the plans achieve.                                                  *)

\* The plan of a reconcile attempt brings every observed family to its goal
\* and leaves the other records as they are.
LEMMA ObservedPlanAchieves ==
  ASSUME NEW recs \in SUBSET Record, UniqueIds(recs), NEW observed \in SUBSET Family,
         NEW addr \in [Family -> Addr \cup {NoAddr}], NEW s \in Settings, NEW free \in SUBSET Ids,
         NEW fresh \in FreshIds(BuildObservedAddressPlan(recs, addr, observed, s), free)
  PROVE  LET after == ApplyBatch(recs, BuildObservedAddressPlan(recs, addr, observed, s), fresh)
         IN /\ \A f \in observed : Publishes(after, f, addr[f], s)
            /\ \A t : t \notin observed => ByType(after, t) = ByType(recs, t)
<1> DEFINE p == BuildObservedAddressPlan(recs, addr, observed, s)
           after == ApplyBatch(recs, p, fresh)
<1>0. \A f \in observed : addr[f] \in Addr \cup {NoAddr}
  OBVIOUS
<1>1. Faithful(p, recs)
  BY ObservedPlanFaithful
<1>2. \A f \in observed : OfType(p, f) = BuildTypePlan(ByType(recs, f), f, addr[f], s)
  BY <1>0, ObservedPlanOfType
<1>3. \A t : t \notin observed => OfType(p, t) = {}
  BY <1>0, ObservedPlanOfOther
<1>4. p \in SUBSET Operation
  BY BuildObservedAddressPlanType
<1>5. \A c \in Creates(p) : fresh[c] \in Ids
  BY DEF FreshIds
<1>6. fresh \in FreshIds(p, free)
  OBVIOUS
<1> HIDE DEF p
<1>7. after \in SUBSET Record
  BY <1>4, <1>6, ApplyBatchType
<1>8. \A t : ByType(after, t) = ApplyBatch(ByType(recs, t), OfType(p, t), fresh)
  BY <1>1, BatchActsByType
<1> HIDE DEF after
<1>9. ASSUME NEW f \in observed
      PROVE  Publishes(after, f, addr[f], s)
  <2> DEFINE mine == ByType(recs, f)
             d == DesiredRecord(f, addr[f], s)
  <2>1. mine \in SUBSET Record /\ UniqueIds(mine)
    BY UniqueIdsOfFewer DEF ByType
  <2>2. addr[f] # NoAddr /\ mine = {} => fresh[CreateOp(d)] \in Ids
    <3> SUFFICES ASSUME addr[f] # NoAddr, mine = {} PROVE fresh[CreateOp(d)] \in Ids
      OBVIOUS
    <3>1. BuildTypePlan(mine, f, addr[f], s) = {CreateOp(d)}
      BY DEF BuildTypePlan
    <3>2. CreateOp(d) \in p
      BY <1>2, <3>1 DEF OfType
    <3>3. CreateOp(d) \in Creates(p)
      BY <3>2, OpKinds DEF Creates
    <3> QED BY <1>5, <3>3
  <2> HIDE DEF mine, d
  <2>3. ByType(after, f) = ApplyBatch(mine, BuildTypePlan(mine, f, addr[f], s), fresh)
    BY <1>2, <1>8 DEF mine
  <2>4. IF addr[f] = NoAddr THEN ByType(after, f) = {}
        ELSE \E i \in Ids : ByType(after, f) = {WithId(d, i)}
    BY <2>1, <2>2, <2>3, TypePlanAchieves DEF d
  <2> QED BY <1>7, <2>4, PublishedIs DEF d
<1>10. ASSUME NEW t, t \notin observed
       PROVE  ByType(after, t) = ByType(recs, t)
  BY <1>3, <1>8, <1>10, NoOperations
<1> QED BY <1>9, <1>10 DEF p, after

\* There is nothing to do exactly when every observed family is at its goal.
LEMMA ObservedPlanIsEmpty ==
  ASSUME NEW recs \in SUBSET Record, UniqueIds(recs), NEW observed, NEW addr, NEW s
  PROVE  BuildObservedAddressPlan(recs, addr, observed, s) = {} <=>
           \A f \in observed : Publishes(recs, f, addr[f], s)
<1>1. ASSUME NEW f, NEW a
      PROVE  BuildTypePlan(ByType(recs, f), f, a, s) = {} <=> Publishes(recs, f, a, s)
  <2> DEFINE mine == ByType(recs, f)
             right == IF a = NoAddr THEN mine = {}
                      ELSE \E i \in Ids : mine = {WithId(DesiredRecord(f, a, s), i)}
  <2>1. Publishes(recs, f, a, s) <=> right
    BY PublishedIs
  <2>2. mine \in SUBSET Record /\ UniqueIds(mine)
    BY UniqueIdsOfFewer DEF ByType
  <2>3. BuildTypePlan(mine, f, a, s) = {} <=> right
    <3> HIDE DEF mine
    <3> QED BY <2>2, TypePlanIsEmpty
  <2> QED BY <2>1, <2>3
<1>2. BuildObservedAddressPlan(recs, addr, observed, s) = {} <=>
        \A f \in observed : BuildTypePlan(ByType(recs, f), f, addr[f], s) = {}
  BY DEF BuildObservedAddressPlan
<1> QED BY <1>1, <1>2

\* The plan of -delete removes the selected families and nothing else.
LEMMA DeletePlanAchieves ==
  ASSUME NEW recs, UniqueIds(recs), NEW selection, NEW fresh
  PROVE  ApplyBatch(recs, BuildDeletePlan(recs, selection), fresh) = {r \in recs : r.type \notin selection}
<1> DEFINE p == BuildDeletePlan(recs, selection)
           gone == {r \in recs : r.type \in selection}
<1>1. p = {DeleteOp(r) : r \in gone}
  BY DEF BuildDeletePlan, ByType
<1> HIDE DEF p
<1>2. ApplyBatch(recs, p, fresh) = recs \ gone
  BY <1>1, ApplyDeletes
<1>3. recs \ gone = {r \in recs : r.type \notin selection}
  OBVIOUS
<1> QED BY <1>2, <1>3 DEF p

\* Rewriting records that are as they should be changes nothing.
LEMMA ForcePushIsIdempotent ==
  ASSUME NEW recs \in SUBSET Record, UniqueIds(recs), NEW observed, NEW addr, NEW s, NEW fresh,
         \A f \in observed : Publishes(recs, f, addr[f], s)
  PROVE  ApplyBatch(recs, ForcePushPlan(recs, addr, observed, s), fresh) = recs
<1> DEFINE p == ForcePushPlan(recs, addr, observed, s)
<1>1. Faithful(p, recs) /\ Updates(p) = p /\ Creates(p) = {}
  BY ForcePushPlanFaithful
<1>2. ASSUME NEW op \in p
      PROVE  op.current \in recs /\ WithId(op.desired, op.current.id) = op.current
  <2>1. PICK f \in observed : \E r \in recs :
          /\ addr[f] # NoAddr /\ op.current = r /\ op.desired = DesiredRecord(f, addr[f], s)
          /\ r.type = f
    BY ForcePushPlanParts
  <2>0. PICK r \in recs :
          /\ addr[f] # NoAddr /\ op.current = r /\ op.desired = DesiredRecord(f, addr[f], s)
          /\ r.type = f
    BY <2>1
  <2> HIDE DEF p
  <2>2. PICK i \in Ids : ByType(recs, f) = {WithId(DesiredRecord(f, addr[f], s), i)}
    BY <2>0, PublishedIs
  <2>3. r = WithId(DesiredRecord(f, addr[f], s), i)
    BY <2>0, <2>2 DEF ByType
  <2>4. r.id = i
    BY <2>3 DEF WithId
  <2> QED BY <2>0, <2>3, <2>4
<1> HIDE DEF p
<1>3. ApplyBatch(recs, p, fresh) =
        {r \in recs : r.id \notin Named(p)} \cup {op.current : op \in p}
  BY <1>1, <1>2 DEF ApplyBatch
<1>4. Named(p) = {op.current.id : op \in p}
  BY <1>1 DEF Named, Deletes, Updates
<1>5. \A r \in recs : r.id \in Named(p) => r \in {op.current : op \in p}
  BY <1>2, <1>4 DEF UniqueIds
<1> QED BY <1>2, <1>3, <1>5 DEF p

\* A reconcile attempt achieves its goal, with either of its two plans.
LEMMA ReconcileAchieves ==
  ASSUME NEW recs \in SUBSET Record, UniqueIds(recs), NEW observed \in SUBSET Family,
         NEW addr \in [Family -> Addr \cup {NoAddr}], NEW s \in Settings, NEW free \in SUBSET Ids,
         NEW p, NEW fresh \in FreshIds(p, free),
         \/ p = BuildObservedAddressPlan(recs, addr, observed, s)
         \/ /\ BuildObservedAddressPlan(recs, addr, observed, s) = {}
            /\ p = ForcePushPlan(recs, addr, observed, s)
  PROVE  /\ \A f \in observed : Publishes(ApplyBatch(recs, p, fresh), f, addr[f], s)
         /\ \A t : t \notin observed => ByType(ApplyBatch(recs, p, fresh), t) = ByType(recs, t)
<1> DEFINE q == BuildObservedAddressPlan(recs, addr, observed, s)
<1>1. CASE p = q
  <2>1. fresh \in FreshIds(q, free) /\ ApplyBatch(recs, p, fresh) = ApplyBatch(recs, q, fresh)
    BY <1>1
  <2> QED BY <2>1, ObservedPlanAchieves
<1>2. CASE q = {} /\ p = ForcePushPlan(recs, addr, observed, s)
  <2>1. \A f \in observed : Publishes(recs, f, addr[f], s)
    BY <1>2, ObservedPlanIsEmpty
  <2>2. ApplyBatch(recs, p, fresh) = recs
    BY <1>2, <2>1, ForcePushIsIdempotent
  <2> QED BY <2>1, <2>2
<1> QED BY <1>1, <1>2

\* Every observed family with an address is rewritten, when it has a record.
LEMMA ForcePushRewrites ==
  ASSUME NEW recs \in SUBSET Record, UniqueIds(recs), NEW observed, NEW addr, NEW s,
         NEW f \in observed, addr[f] # NoAddr, Publishes(recs, f, addr[f], s)
  PROVE  \E op \in ForcePushPlan(recs, addr, observed, s) : OpType(op) = f
<1>1. PICK i \in Ids : ByType(recs, f) = {WithId(DesiredRecord(f, addr[f], s), i)}
  BY PublishedIs
<1>2. ByType(recs, f) # {} /\ ByType(recs, f) \in SUBSET Record /\ UniqueIds(ByType(recs, f))
  BY <1>1, UniqueIdsOfFewer DEF ByType
<1>3. PICK r \in ByType(recs, f) : FirstOf(ByType(recs, f)) = {r}
  BY <1>2, FirstOfIsOne
<1>4. UpdateOp(r, DesiredRecord(f, addr[f], s)) \in ForcePushPlan(recs, addr, observed, s)
  BY <1>3 DEF ForcePushPlan
<1>5. OpType(UpdateOp(r, DesiredRecord(f, addr[f], s))) = f
  BY <1>3, OpKinds DEF OpType, ByType
<1> QED BY <1>4, <1>5

\* A matching record of an observed family is the one that stays.
LEMMA ObservedPlanKeeps ==
  ASSUME NEW recs \in SUBSET Record, UniqueIds(recs), NEW observed \in SUBSET Family,
         NEW addr \in [Family -> Addr \cup {NoAddr}], NEW s \in Settings, NEW fresh,
         NEW f \in observed, addr[f] # NoAddr, Matching(recs, DesiredRecord(f, addr[f], s)) # {}
  PROVE  ByType(ApplyBatch(recs, BuildObservedAddressPlan(recs, addr, observed, s), fresh), f) =
           FirstOf(Matching(recs, DesiredRecord(f, addr[f], s)))
<1> DEFINE d == DesiredRecord(f, addr[f], s)
           mine == ByType(recs, f)
           p == BuildTypePlan(mine, f, addr[f], s)
<1>1. mine \in SUBSET Record /\ UniqueIds(mine)
  BY UniqueIdsOfFewer DEF ByType
<1>2. Matching(mine, d) = Matching(recs, d) /\ Matching(recs, d) # {}
  BY DEF Matching, ByType, RecordMatchesDesired, DesiredRecord
<1>3. PICK k \in mine : Kept(mine, d) = {k} /\ p = {DeleteOp(r) : r \in mine \ {k}}
  <2>1. mine # {}
    BY <1>2 DEF Matching
  <2> QED BY <1>1, <1>2, <2>1, TypePlanCases
<1>4. Kept(mine, d) = FirstOf(Matching(recs, d))
  BY <1>2 DEF Kept
<1>5. ApplyBatch(mine, p, fresh) = {k}
  <2>1. mine \ {k} \in SUBSET mine /\ mine \ (mine \ {k}) = {k}
    OBVIOUS
  <2>2. ApplyBatch(mine, {DeleteOp(r) : r \in mine \ {k}}, fresh) = mine \ (mine \ {k})
    BY <1>1, <2>1, ApplyDeletes
  <2> QED BY <1>3, <2>1, <2>2
<1>6. ByType(ApplyBatch(recs, BuildObservedAddressPlan(recs, addr, observed, s), fresh), f) =
        ApplyBatch(mine, p, fresh)
  <2> DEFINE whole == BuildObservedAddressPlan(recs, addr, observed, s)
  <2>0. \A g \in observed : addr[g] \in Addr \cup {NoAddr}
    OBVIOUS
  <2>1. Faithful(whole, recs) /\ OfType(whole, f) = p
    BY <2>0, ObservedPlanFaithful, ObservedPlanOfType
  <2> HIDE DEF whole, p
  <2>2. ByType(ApplyBatch(recs, whole, fresh), f) = ApplyBatch(mine, OfType(whole, f), fresh)
    BY <2>1, BatchActsByType
  <2> QED BY <2>1, <2>2 DEF whole
<1> QED BY <1>3, <1>4, <1>5, <1>6
=============================================================================
