----------------------------- MODULE MCRunnerAudit -----------------------------
(* The instances of MCRunner with the history variables of RunnerAudit.     *)
EXTENDS MCRunner, RunnerAudit
=============================================================================
