------------------------------- MODULE MCRunner -------------------------------
(* Small instances of Runner: two addresses, up to two records a family.    *)
EXTENDS RunnerRefinement, TLC

CONSTANTS a1, a2, w1, w2

MCAddr == {a1, a2}
MCTTL == {300}
MCConfig == [ttl |-> 300, proxied |-> FALSE]

Rec(i, t, a) == [id |-> i, type |-> t, content |-> a, ttl |-> 300, proxied |-> FALSE]

Reconcile(p) == [mode |-> "reconcile", dry |-> FALSE, partial |-> p, selection |-> {}]
Force(p)     == [mode |-> "force", dry |-> FALSE, partial |-> p, selection |-> {}]
DryRun       == [mode |-> "reconcile", dry |-> TRUE, partial |-> TRUE, selection |-> {}]
Deletion(s)  == [mode |-> "delete", dry |-> FALSE, partial |-> TRUE, selection |-> s]

\* Plain runs, strict and partial.
PlainOptions == {Reconcile(TRUE), Reconcile(FALSE)}
LateOptions == {Reconcile(TRUE), Force(FALSE), Deletion({"A"})}
AllOptions == PlainOptions \cup {Force(TRUE), DryRun, Deletion({"A"}), Deletion(Family)}

\* Nothing yet; one record; a duplicate of A beside an AAAA; a CNAME.
MCZones == {{}, {Rec(1, "A", a1)}, {Rec(1, "A", a1), Rec(2, "A", a2), Rec(3, "AAAA", a1)}}
CNameZone == {{Rec(1, "CNAME", a1)}}
FewZones == {{}, {Rec(1, "A", a1)}}
DuplicateZone == {{Rec(1, "A", a1), Rec(2, "A", a2)}}
LateZones == {{}} \cup DuplicateZone
SoleZones == MCZones \cup CNameZone

\* Both families anywhere, or only a few starting points.
AnyEgress == [Family -> MCAddr \cup {NoAddr}]
FewEgress == {[f \in Family |-> IF f = "A" THEN a ELSE NoAddr] : a \in {a1, a2}}
OnlyAEgress == {[f \in Family |-> IF f = "A" THEN a1 ELSE NoAddr]}

PartialOnly == {Reconcile(TRUE)}

MCIds == 1..6
FewIds == 1..5
OneWriter == {w1}
TwoWriters == {w1, w2}
WriterSymmetry == Permutations(TwoWriters)
=============================================================================
