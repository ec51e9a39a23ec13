------------------------------- MODULE Publisher -------------------------------
(***************************************************************************)
(* What dns-update promises to the owner of a name that nobody else        *)
(* manages: a run either leaves the records alone or, in one step that     *)
(* everybody sees at once, brings every family that it has evidence for to *)
(* its goal; and a run that reports success leaves them there.  README.md, *)
(* "What it does"; internal/app/run.go.                                    *)
(***************************************************************************)
EXTENDS DnsPlan

CONSTANTS
  Options,    \* how a run may be asked for, as in Runner
  Config,     \* record.ttl and proxied
  InitZones   \* states of the name to start from

VARIABLES
  zone,      \* the provider's records of the name
  running,   \* is a run under way?
  opts,      \* its options
  outcome    \* how the last run ended

vars == <<zone, running, opts, outcome>>

\* The goals that a run with options o may come to pursue: an address, or the
\* absence of records, for each family that it has evidence for.
Goals(o) ==
  IF o.mode = "delete"
  THEN {[f \in o.selection |-> NoAddr]}
  ELSE UNION {[fs -> Addr \cup {NoAddr}] :
                fs \in {gs \in SUBSET Family : gs = Family \/ (o.partial /\ gs # {})}}

\* Records z are as goal g wants them.
Meets(z, g) == \A f \in DOMAIN g : Publishes(z, f, g[f], Config)

Init ==
  /\ zone \in InitZones
  /\ running = FALSE
  /\ opts \in Options
  /\ outcome = "none"

Begin ==
  /\ ~ running
  /\ running' = TRUE
  /\ opts' \in Options
  /\ outcome' = "none"
  /\ UNCHANGED zone

\* All families of the goal change together, and nothing else does.
Publish ==
  /\ running
  /\ ~ opts.dry
  /\ \E g \in Goals(opts) :
       /\ Meets(zone', g)
       /\ \A t \in RecordType \ DOMAIN g : ByType(zone', t) = ByType(zone, t)
  /\ zone' \subseteq Record
  /\ UNCHANGED <<running, opts, outcome>>

\* Success is reported only when the goal is met; failure at any time.
Finish(result) ==
  /\ running
  /\ result = "ok" /\ ~ opts.dry => \E g \in Goals(opts) : Meets(zone, g)
  /\ running' = FALSE
  /\ outcome' = result
  /\ UNCHANGED <<zone, opts>>

Next == Begin \/ Publish \/ \E result \in {"ok", "error"} : Finish(result)

Spec == Init /\ [][Next]_vars
=============================================================================
