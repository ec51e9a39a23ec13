-------------------------------- MODULE Startup --------------------------------
(***************************************************************************)
(* cmd/dns-update from the command line to the exit status: parsing flags, *)
(* resolving them against the environment, finding and loading the         *)
(* configuration while others may edit the files, the introspection modes, *)
(* building the runner, and the run (Runner.tla) as one step.              *)
(***************************************************************************)
EXTENDS Integers, Sequences

CONSTANTS
  Tokens,       \* command-line arguments, [flag, value]; flag "word" is a positional one
  MaxArgs,      \* bound on the length of a command line
  Environments, \* values of the environment variables, "unset" if not set
  Disks,        \* the files to start from
  MaxEdits      \* bound on the edits of others while the program starts

BoolFlags == {"dry-run", "force-push", "validate-config", "print-effective-config",
              "verbose", "version"}
Flags == BoolFlags \cup {"config", "delete", "timeout"}

\* The values that package flag, or deleteFlagValue.Set, accepts for a flag.
DeleteValues == {"true", "both", "a", "aaaa", "none"}
Durations == {"negative", "zero", "some"}
Accepted(f) ==
  CASE f \in BoolFlags -> {"true", "false"}
    [] f = "config"    -> {"", "given"}
    [] f = "delete"    -> DeleteValues
    [] f = "timeout"   -> Durations
    [] OTHER           -> {}

FlagValues == UNION {Accepted(f) : f \in Flags}

Default(f) ==
  CASE f \in BoolFlags -> "false"
    [] f = "config"    -> ""
    [] f = "delete"    -> "none"
    [] f = "timeout"   -> "zero"

\* resolveDefaultConfigPath looks for these, in this order; "given" is an explicit path.
Candidates == <<"cwd", "system">>
ConfigPaths == {"cwd", "system", "given"}

\* "denied" cannot be read, "invalid" can, but LoadWithOptions rejects it.  A token
\* file that is "garbled" passes Validate but not ReadSingleToken.
Disk == [config : [ConfigPaths -> {"good", "absent", "denied", "invalid"}],
         token : {"good", "garbled", "unsafe"}]

EnvBool == {"unset", "true", "yes", "no", "junk"}
Environment == [config : {"unset", "", "given"}, dry : EnvBool, verbose : EnvBool,
                timeout : Durations \cup {"unset", "junk"}]

ASSUME StartupAssumption ==
  /\ Tokens \subseteq [flag : Flags \cup {"word", "help", "unknown"}, value : STRING]
  /\ MaxArgs \in Nat /\ MaxEdits \in Nat
  /\ Environments \subseteq Environment
  /\ Disks \subseteq Disk

VARIABLES
  args,     \* the command line
  env,      \* the environment
  disk,     \* the files
  next,     \* index of the argument that Parse looks at
  values,   \* cliFlagValues
  visited,  \* the flags that were set
  phase,    \* where run() is
  opts,     \* runtimeOptions, once resolved
  source,   \* the configuration file in use, "" before one is chosen
  tried,    \* candidates that were not there
  code,     \* the exit status, -1 before
  edits,    \* edits so far
  missing   \* configuration files absent at some time since the start (history)

vars == <<args, env, disk, next, values, visited, phase, opts, source, tried, code, edits, missing>>

Options == [config : {"", "given"}, explicit : BOOLEAN, delete : {"none", "a", "aaaa", "both"},
            dry : BOOLEAN, force : BOOLEAN, inspect : {"none", "validate", "print"},
            verbose : BOOLEAN, timeout : {"zero", "some"}]

Phases == {"parse", "parsed", "load", "search", "found", "loaded", "start", "running", "exit"}

CommandLines == UNION {[1..n -> Tokens] : n \in 0..MaxArgs}

NoOptions == [config |-> "", explicit |-> FALSE, delete |-> "none", dry |-> FALSE, force |-> FALSE,
              inspect |-> "none", verbose |-> FALSE, timeout |-> "zero"]

Absent == {p \in ConfigPaths : disk.config[p] = "absent"}

TypeOK ==
  /\ args \in CommandLines
  /\ env \in Environments
  /\ disk \in Disk
  /\ next \in 1 .. MaxArgs + 1
  /\ values \in [Flags -> FlagValues] /\ \A f \in Flags : values[f] \in Accepted(f)
  /\ visited \subseteq Flags
  /\ phase \in Phases
  /\ opts \in Options
  /\ source \in ConfigPaths \cup {""}
  /\ tried \in 0 .. Len(Candidates)
  /\ code \in {-1, 0, 1, 2} /\ (code # -1 <=> phase = "exit")
  /\ edits \in 0..MaxEdits
  /\ Absent \subseteq missing /\ missing \subseteq ConfigPaths

Init ==
  /\ args \in CommandLines
  /\ env \in Environments
  /\ disk \in Disks
  /\ next = 1
  /\ values = [f \in Flags |-> Default(f)]
  /\ visited = {}
  /\ phase = "parse"
  /\ opts = NoOptions
  /\ source = ""
  /\ tried = 0
  /\ code = -1
  /\ edits = 0
  /\ missing = Absent

ExitWith(status) == phase' = "exit" /\ code' = status

-----------------------------------------------------------------------------
(* newFlagSet and Parse of package flag. *)

Current == args[next]
Flagged == next <= Len(args) /\ Current.flag # "word"

ParseFlag ==
  /\ phase = "parse"
  /\ Flagged
  /\ Current.value \in Accepted(Current.flag)
  /\ values' = [values EXCEPT ![Current.flag] = Current.value]
  /\ visited' = visited \cup {Current.flag}
  /\ next' = next + 1
  /\ UNCHANGED <<args, env, disk, phase, opts, source, tried, code, edits, missing>>

\* A slip: every error of Parse passes for -h.
ParseStopsQuietly ==
  /\ phase = "parse"
  /\ Flagged
  /\ Current.value \notin Accepted(Current.flag)
  /\ ExitWith(0)
  /\ UNCHANGED <<args, env, disk, next, values, visited, opts, source, tried, edits, missing>>

\* An unknown flag, a bad value, or -h.
ParseStops ==
  /\ phase = "parse"
  /\ Flagged
  /\ Current.value \notin Accepted(Current.flag)
  /\ ExitWith(IF Current.flag = "help" THEN 0 ELSE 2)
  /\ UNCHANGED <<args, env, disk, next, values, visited, opts, source, tried, edits, missing>>

\* Parse ends at the first positional argument; run() never looks at the rest.
ParseEnds ==
  /\ phase = "parse"
  /\ ~ Flagged
  /\ phase' = "parsed"
  /\ UNCHANGED <<args, env, disk, next, values, visited, opts, source, tried, code, edits, missing>>

\* printVersion succeeds or fails to write.
Version ==
  /\ phase = "parsed"
  /\ values["version"] = "true"
  /\ \E status \in {0, 1} : ExitWith(status)
  /\ UNCHANGED <<args, env, disk, next, values, visited, opts, source, tried, edits, missing>>

-----------------------------------------------------------------------------
(* resolveRuntimeOptions. *)

\* A slip: the environment overrides the command line.
ResolveBoolEnvFirst(f, raw) ==
  IF raw = "unset" THEN values[f]
  ELSE CASE raw \in {"true", "yes"} -> "true" [] raw = "no" -> "false" [] OTHER -> "error"

\* resolveBoolFlag and parseBoolValue.
ResolveBool(f, raw) ==
  IF f \in visited THEN values[f]
  ELSE CASE raw \in {"true", "yes"} -> "true"
         [] raw \in {"no", "unset"} -> "false"
         [] OTHER -> "error"

\* resolveDurationFlag; the sign is looked at afterwards.
ResolveTimeout ==
  CASE "timeout" \in visited -> values["timeout"]
    [] "timeout" \notin visited /\ env.timeout = "unset" -> "zero"
    [] OTHER -> IF env.timeout = "junk" THEN "error" ELSE env.timeout

\* deleteFlagValue.Set: bare -delete is -delete=true.
DeleteSelection == IF values["delete"] = "true" THEN "both" ELSE values["delete"]

Is(f) == values[f] = "true"

Resolved ==
  [config   |-> IF "config" \in visited THEN values["config"]
                ELSE IF env.config = "unset" THEN "" ELSE env.config,
   explicit |-> "config" \in visited \/ env.config # "unset",
   delete   |-> DeleteSelection,
   dry      |-> ResolveBool("dry-run", env.dry) = "true",
   force    |-> Is("force-push"),
   inspect  |-> IF Is("print-effective-config") THEN "print"
                ELSE IF Is("validate-config") THEN "validate" ELSE "none",
   verbose  |-> ResolveBool("verbose", env.verbose) = "true",
   timeout  |-> ResolveTimeout]

\* Slips: the sign of the timeout is not looked at; conflicting modes are let through.
UnresolvableUnsigned ==
  \/ ResolveBool("dry-run", env.dry) = "error"
  \/ ResolveBool("verbose", env.verbose) = "error"
  \/ ResolveTimeout = "error"
  \/ DeleteSelection # "none" /\ Is("force-push")
  \/ Is("validate-config") /\ Is("print-effective-config")

UnresolvableButForConflicts ==
  \/ ResolveBool("dry-run", env.dry) = "error"
  \/ ResolveBool("verbose", env.verbose) = "error"
  \/ ResolveTimeout \in {"error", "negative"}

Unresolvable ==
  \/ ResolveBool("dry-run", env.dry) = "error"
  \/ ResolveBool("verbose", env.verbose) = "error"
  \/ ResolveTimeout \in {"error", "negative"}
  \/ DeleteSelection # "none" /\ Is("force-push")
  \/ Is("validate-config") /\ Is("print-effective-config")

Resolve ==
  /\ phase = "parsed"
  /\ values["version"] # "true"
  /\ IF Unresolvable
     THEN ExitWith(2) /\ UNCHANGED opts
     ELSE phase' = "load" /\ opts' = Resolved /\ UNCHANGED code
  /\ UNCHANGED <<args, env, disk, next, values, visited, source, tried, edits, missing>>

-----------------------------------------------------------------------------
(* config.LoadWithOptions. *)

\* An explicit path, which must not be empty, or the search.
ChooseConfig ==
  /\ phase = "load"
  /\ CASE opts.explicit /\ opts.config = "" -> ExitWith(1) /\ UNCHANGED source
       [] opts.explicit /\ opts.config # "" ->
            phase' = "found" /\ source' = opts.config /\ UNCHANGED code
       [] OTHER -> phase' = "search" /\ UNCHANGED <<source, code>>
  /\ UNCHANGED <<args, env, disk, next, values, visited, opts, tried, edits, missing>>

\* A slip: a candidate that cannot be examined is passed over.
StatCandidateLenient ==
  /\ phase = "search"
  /\ IF tried = Len(Candidates)
     THEN ExitWith(1) /\ UNCHANGED <<source, tried>>
     ELSE LET p == Candidates[tried + 1]
          IN IF disk.config[p] \in {"absent", "denied"}
             THEN tried' = tried + 1 /\ UNCHANGED <<phase, code, source>>
             ELSE phase' = "found" /\ source' = p /\ UNCHANGED <<tried, code>>
  /\ UNCHANGED <<args, env, disk, next, values, visited, opts, edits, missing>>

\* One round of the loop in resolveDefaultConfigPath.
StatCandidate ==
  /\ phase = "search"
  /\ IF tried = Len(Candidates)
     THEN ExitWith(1) /\ UNCHANGED <<source, tried>>
     ELSE LET p == Candidates[tried + 1]
          IN CASE disk.config[p] = "absent" ->
                    tried' = tried + 1 /\ UNCHANGED <<phase, code, source>>
               [] disk.config[p] = "denied" -> ExitWith(1) /\ UNCHANGED <<source, tried>>
               [] OTHER -> phase' = "found" /\ source' = p /\ UNCHANGED <<tried, code>>
  /\ UNCHANGED <<args, env, disk, next, values, visited, opts, edits, missing>>

\* loadFileConfig and normalize, which ends with securefile.Validate.
LoadConfig ==
  /\ phase = "found"
  /\ IF disk.config[source] = "good" /\ disk.token # "unsafe"
     THEN phase' = "loaded" /\ UNCHANGED code
     ELSE ExitWith(1)
  /\ UNCHANGED <<args, env, disk, next, values, visited, opts, source, tried, edits, missing>>

-----------------------------------------------------------------------------
\* handleIntrospection: print and leave, or go on.
Introspect ==
  /\ phase = "loaded"
  /\ IF opts.inspect = "none"
     THEN phase' = "start" /\ UNCHANGED code
     ELSE \E status \in {0, 1} : ExitWith(status)
  /\ UNCHANGED <<args, env, disk, next, values, visited, opts, source, tried, edits, missing>>

\* app.New reads the token file again, and checks it again.
NewRunner ==
  /\ phase = "start"
  /\ IF disk.token = "good"
     THEN phase' = "running" /\ UNCHANGED code
     ELSE ExitWith(1)
  /\ UNCHANGED <<args, env, disk, next, values, visited, opts, source, tried, edits, missing>>

\* Runner.Run returns.
RunReturns ==
  /\ phase = "running"
  /\ \E status \in {0, 1} : ExitWith(status)
  /\ UNCHANGED <<args, env, disk, next, values, visited, opts, source, tried, edits, missing>>

\* Somebody installs, removes or rewrites a file while the program starts.
Edit(d) ==
  /\ phase # "exit"
  /\ edits < MaxEdits
  /\ edits' = edits + 1
  /\ disk' = d
  /\ missing' = missing \cup {p \in ConfigPaths : d.config[p] = "absent"}
  /\ UNCHANGED <<args, env, next, values, visited, phase, opts, source, tried, code>>

Next ==
  \/ ParseFlag
  \/ ParseStops
  \/ ParseEnds
  \/ Version
  \/ Resolve
  \/ ChooseConfig
  \/ StatCandidate
  \/ LoadConfig
  \/ Introspect
  \/ NewRunner
  \/ RunReturns
  \/ \E d \in Disks : Edit(d)

Spec == Init /\ [][Next]_vars

-----------------------------------------------------------------------------
(* What the command line asks for, read as a whole: the flags before the   *)
(* first positional argument, the last of each; the environment for what   *)
(* they leave open.                                                        *)

FlagArgs == {i \in 1..Len(args) : \A j \in 1..i : args[j].flag # "word"}
Uses(f) == {i \in FlagArgs : args[i].flag = f}
LastUse(f) == CHOOSE i \in Uses(f) : \A j \in Uses(f) : j <= i
Asked(f, otherwise) == IF Uses(f) = {} THEN otherwise ELSE args[LastUse(f)].value

\* The first argument that Parse cannot accept, as a set.
Fatal ==
  LET bad == {i \in FlagArgs : args[i].value \notin Accepted(args[i].flag)}
  IN {i \in bad : \A j \in bad : i <= j}

AskedHelp == \E i \in Fatal : args[i].flag = "help"
AskedVersion == Fatal = {} /\ Asked("version", "false") = "true"
AskedInspection ==
  Fatal = {} /\ \E f \in {"validate-config", "print-effective-config"} : Asked(f, "false") = "true"

AskedDry == Asked("dry-run", env.dry)
AskedDelete == Asked("delete", "none")
AskedTimeout == Asked("timeout", env.timeout)

UsageError ==
  \/ Fatal # {} /\ ~ AskedHelp
  \/ Fatal = {} /\ ~ AskedVersion /\
       \/ "junk" \in {AskedDry, Asked("verbose", env.verbose), AskedTimeout}
       \/ AskedTimeout = "negative"
       \/ AskedDelete # "none" /\ Asked("force-push", "false") = "true"
       \/ \A f \in {"validate-config", "print-effective-config"} : Asked(f, "false") = "true"

\* Properties.

\* A run starts with what the command line as a whole and the environment ask
\* for: flags beat variables even when they restate a default, the last use of
\* a flag wins, -delete never comes with -force-push, and none starts when
\* help, the version or an introspection was asked for (run, resolveRuntimeOptions).
RunsAsAsked ==
  phase = "running" =>
    /\ ~ AskedHelp /\ ~ AskedVersion /\ ~ AskedInspection /\ ~ UsageError
    /\ opts.dry <=> AskedDry \in {"true", "yes"}
    /\ opts.delete = IF AskedDelete = "true" THEN "both" ELSE AskedDelete
    /\ opts.force <=> Asked("force-push", "false") = "true"
    /\ opts.timeout = IF AskedTimeout = "unset" THEN "zero" ELSE AskedTimeout
    /\ opts.delete = "none" \/ ~ opts.force

\* The scheduler can trust the exit status: 2 is a usage error, found before
\* any file is read, and 0 without a run means that help, the version or an
\* introspection was asked for.
ExitStatusMeans ==
  phase = "exit" =>
    /\ code = 2 <=> UsageError
    /\ code = 2 => source = "" /\ tried = 0

QuietSuccessIsAskedFor ==
  [][phase' = "exit" /\ code' = 0 =>
       phase = "running" \/ AskedHelp \/ AskedVersion \/ AskedInspection]_vars

\* README, Behavior notes: a path that was given is used and no other, and the
\* system-wide file only if the working directory had none at some time since
\* the start, whatever others do to the files meanwhile.
ConfigInUse ==
  phase \in {"loaded", "start", "running"} =>
    LET given == Asked("config", IF env.config = "unset" THEN "" ELSE env.config)
        explicit == Uses("config") # {} \/ env.config # "unset"
    IN /\ explicit => source = given
       /\ ~ explicit => source = "cwd" \/ (source = "system" /\ "cwd" \in missing)

\* dns-update(1): -dry-run prints the changes without mutating DNS records.
\* The last -dry-run of a command line, wherever it stands, decides.
DryRunHonored ==
  LET uses == {i \in 1..Len(args) : args[i].flag = "dry-run"}
  IN phase = "running" =>
       ((\E i \in uses : args[i].value = "true" /\ \A j \in uses : j <= i) => opts.dry)
=============================================================================
