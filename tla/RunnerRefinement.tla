--------------------------- MODULE RunnerRefinement ---------------------------
(***************************************************************************)
(* Runner with one process implements Publisher: the two probes, the read, *)
(* the plan, the batch and its lost replies, the verification, the retries *)
(* and the crashes look from outside like one step on the zone, or none.   *)
(***************************************************************************)
EXTENDS Runner

\* The process that manages the name alone.
Sole == CHOOSE w \in Writers : TRUE

Abstract == INSTANCE Publisher
  WITH running <- pc[Sole] # "idle", opts <- opts[Sole], outcome <- outcome[Sole]

\* Every behaviour of a sole writer whose abandoned batches do not come back is
\* one of Publisher: each batch takes the families with evidence to their goal
\* at once, whatever was lost or retried before it, and a run that ends with
\* success leaves its goal met.
ImplementsPublisher == Abstract!Spec
=============================================================================
