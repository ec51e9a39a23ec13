--------------------------- MODULE MCReconciliation ---------------------------
(* Every snapshot of up to three records with two addresses, two TTLs and   *)
(* both proxy settings, against every evidence, mode and selection.         *)
EXTENDS Reconciliation

CONSTANTS a1, a2

MCAddr == {a1, a2}
MCIds == 1..4
MCTTL == {1, 300}
MCConfig == [ttl |-> 300, proxied |-> FALSE]

\* What a record can look like: right, or wrong in the TTL, in the proxy flag.
Shapes == [type : Family, content : MCAddr, ttl : {300}, proxied : {FALSE}]
            \cup [type : Family, content : {a1}, ttl : {1}, proxied : {FALSE}]
            \cup [type : Family, content : {a1}, ttl : {300}, proxied : {TRUE}]
            \cup [type : {"CNAME"}, content : {a1}, ttl : {300}, proxied : {FALSE}]

MCZones ==
  LET Partial(D) == {{WithId(s[i], i) : i \in D} : s \in [D -> Shapes]}
  IN UNION {Partial(D) : D \in SUBSET (1..3)}
=============================================================================
