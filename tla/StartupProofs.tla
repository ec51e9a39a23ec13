----------------------------- MODULE StartupProofs -----------------------------
(***************************************************************************)
(* Startup for command lines of any length, every environment and any      *)
(* number of edits: flags are parsed one after another, and what comes out *)
(* is what the command line says as a whole.                               *)
(***************************************************************************)
EXTENDS Startup, SequenceTheorems, TLAPS

\* Arguments that Parse has consumed.
Done == 1 .. next - 1

Resolving == {"load", "search", "found", "loaded", "start", "running"}

\* Every argument so far is a flag with a value that it takes.
AllAccepted ==
  /\ next \in 1 .. Len(args) + 1
  /\ \A i \in Done : args[i].flag # "word" /\ args[i].value \in Accepted(args[i].flag)
  /\ phase \notin {"parse", "exit"} => ~ Flagged

\* What is set, and to what.
LastWins ==
  \A f \in Flags :
    IF f \in visited
    THEN \E i \in Done : /\ args[i].flag = f /\ values[f] = args[i].value
                         /\ \A j \in Done : args[j].flag = f => j <= i
    ELSE values[f] = Default(f) /\ \A i \in Done : args[i].flag # f

\* What the options are, and when there are any.
OptionsKept ==
  /\ phase \in Resolving => opts = Resolved /\ ~ Unresolvable /\ ~ Is("version")
  /\ phase \in {"start", "running"} => opts.inspect = "none"

\* Which file is being looked for or is in use.
ConfigKept ==
  /\ phase \in {"parse", "parsed", "load"} => source = "" /\ tried = 0
  /\ phase = "search" => ~ opts.explicit /\ (tried > 0 => "cwd" \in missing)
  /\ phase \in {"found", "loaded", "start", "running"} =>
       IF opts.explicit THEN source = opts.config
       ELSE source = "cwd" \/ (source = "system" /\ "cwd" \in missing)

IInv ==
  /\ TypeOK
  /\ AllAccepted
  /\ LastWins
  /\ OptionsKept
  /\ ConfigKept
  /\ ExitStatusMeans

-----------------------------------------------------------------------------
(* Command lines. *)

LEMMA ArgsAreTokens ==
  ASSUME TypeOK
  PROVE  /\ args \in Seq(Tokens) /\ Len(args) \in 0 .. MaxArgs
         /\ \A i \in 1 .. Len(args) : args[i] \in Tokens
<1>1. PICK n \in 0 .. MaxArgs : args \in [1 .. n -> Tokens]
  BY DEF TypeOK, CommandLines
<1>2. n \in Nat
  BY <1>1, StartupAssumption
<1>3. args \in Seq(Tokens) /\ Len(args) = n
  BY <1>1, <1>2
<1>4. \A i \in 1 .. n : args[i] \in Tokens
  BY <1>1
<1> QED BY <1>1, <1>3, <1>4, StartupAssumption

LEMMA FlagCases ==
  /\ \A f \in Flags : f \in BoolFlags \/ f = "config" \/ f = "delete" \/ f = "timeout"
  /\ {"config", "delete", "timeout"} \cap BoolFlags = {}
BY DEF Flags, BoolFlags

\* The values that each flag takes, without the CASE.
LEMMA AcceptedValues ==
  /\ \A f \in BoolFlags : Accepted(f) = {"true", "false"}
  /\ Accepted("config") = {"", "given"}
  /\ Accepted("delete") = DeleteValues
  /\ Accepted("timeout") = Durations
  /\ \A f : f \notin Flags => Accepted(f) = {}
<1>1. \A f \in BoolFlags : f \notin {"config", "delete", "timeout"}
  BY FlagCases
<1>2. \A f \in BoolFlags : Accepted(f) = {"true", "false"}
  BY <1>1 DEF Accepted
<1>3. Accepted("config") = {"", "given"} /\ Accepted("delete") = DeleteValues /\ Accepted("timeout") = Durations
  BY FlagCases DEF Accepted
<1>4. \A f : f \notin Flags => Accepted(f) = {}
  <2> TAKE f
  <2> HAVE f \notin Flags
  <2>1. f \notin BoolFlags /\ f # "config" /\ f # "delete" /\ f # "timeout"
    BY DEF Flags
  <2> QED BY <2>1 DEF Accepted
<1> QED BY <1>2, <1>3, <1>4

LEMMA FlagsOfAccepted ==
  ASSUME NEW f, NEW v \in Accepted(f)
  PROVE  f \in Flags /\ v \in FlagValues
BY AcceptedValues DEF FlagValues

LEMMA DefaultsAccepted ==
  \A f \in Flags : Default(f) \in Accepted(f)
<1> TAKE f \in Flags
<1>1. CASE f \in BoolFlags
  <2>1. Default(f) = "false"
    BY <1>1, FlagCases DEF Default
  <2> QED BY <1>1, <2>1, AcceptedValues
<1>2. CASE f \in {"config", "delete", "timeout"}
  <2>1. Default("config") = "" /\ Default("delete") = "none" /\ Default("timeout") = "zero"
    BY FlagCases DEF Default
  <2> QED BY <1>2, <2>1, AcceptedValues DEF DeleteValues, Durations
<1> QED BY <1>1, <1>2, FlagCases

\* Once Parse has ended, what was asked for is what was set.
LEMMA AskedIsSet ==
  ASSUME IInv, phase \notin {"parse", "exit"}
  PROVE  /\ Fatal = {}
         /\ \A f \in Flags : \A o : Asked(f, o) = IF f \in visited THEN values[f] ELSE o
         /\ \A f \in Flags : Uses(f) # {} <=> f \in visited
<1>1. /\ Len(args) \in Nat /\ next \in 1 .. Len(args) + 1
      /\ next <= Len(args) => args[next].flag = "word"
      /\ \A i \in Done : args[i].flag # "word" /\ args[i].value \in Accepted(args[i].flag)
  BY ArgsAreTokens, StartupAssumption DEF IInv, AllAccepted, Flagged, Current
<1>2. FlagArgs = Done
  <2>1. ASSUME NEW i \in FlagArgs
        PROVE  i \in Done
    <3>1. i \in 1 .. Len(args) /\ \A j \in 1 .. i : args[j].flag # "word"
      BY DEF FlagArgs
    <3>2. ~ (next <= i)
      BY <1>1, <3>1
    <3> QED BY <1>1, <3>1, <3>2 DEF Done
  <2>2. ASSUME NEW i \in Done
        PROVE  i \in FlagArgs
    <3>1. i \in 1 .. Len(args) /\ \A j \in 1 .. i : j \in Done
      BY <1>1 DEF Done
    <3> QED BY <1>1, <3>1 DEF FlagArgs
  <2> QED BY <2>1, <2>2
<1>3. Fatal = {}
  BY <1>1, <1>2 DEF Fatal
<1>4. ASSUME NEW f \in Flags
      PROVE  /\ Uses(f) # {} <=> f \in visited
             /\ \A o : Asked(f, o) = IF f \in visited THEN values[f] ELSE o
  <2>1. Uses(f) = {i \in Done : args[i].flag = f}
    BY <1>2 DEF Uses
  <2>2. CASE f \in visited
    <3>1. PICK i \in Done : /\ args[i].flag = f /\ values[f] = args[i].value
                            /\ \A j \in Done : args[j].flag = f => j <= i
      BY <2>2 DEF IInv, LastWins
    <3>2. i \in Uses(f) /\ \A j \in Uses(f) : j <= i
      BY <2>1, <3>1
    <3>3. \A k : k \in Uses(f) /\ (\A j \in Uses(f) : j <= k) => k = i
      <4>1. \A k \in Uses(f) : k \in Int
        BY <1>1, <2>1 DEF Done
      <4> QED BY <3>2, <4>1
    <3>4. LastUse(f) = i
      BY <3>2, <3>3 DEF LastUse
    <3> QED BY <2>2, <3>1, <3>2, <3>4 DEF Asked
  <2>3. CASE f \notin visited
    BY <2>1, <2>3 DEF IInv, LastWins, Asked
  <2> QED BY <2>2, <2>3
<1> QED BY <1>3, <1>4

\* Where Parse cannot go on is the first argument that it cannot accept.
LEMMA StopsAtFatal ==
  ASSUME IInv, phase = "parse", Flagged, Current.value \notin Accepted(Current.flag)
  PROVE  Fatal = {next}
<1>1. /\ Len(args) \in Nat /\ next \in 1 .. Len(args)
      /\ args[next].flag # "word" /\ args[next].value \notin Accepted(args[next].flag)
      /\ \A i \in Done : args[i].flag # "word" /\ args[i].value \in Accepted(args[i].flag)
  BY ArgsAreTokens, StartupAssumption DEF IInv, AllAccepted, Flagged, Current
<1>2. \A j \in 1 .. next : j \in Done \/ j = next
  BY <1>1 DEF Done
<1>3. \A j \in 1 .. next : args[j].flag # "word"
  BY <1>1, <1>2
<1>4. next \in FlagArgs
  BY <1>1, <1>3 DEF FlagArgs
<1> DEFINE bad == {i \in FlagArgs : args[i].value \notin Accepted(args[i].flag)}
<1>5. next \in bad
  BY <1>1, <1>4
<1>6. \A i \in bad : i \in Int /\ next <= i
  <2> TAKE i \in bad
  <2>1. i \in 1 .. Len(args) /\ i \notin Done
    BY <1>1 DEF FlagArgs
  <2> QED BY <1>1, <2>1 DEF Done
<1>7. Fatal = {i \in bad : \A j \in bad : i <= j}
  BY DEF Fatal
<1> HIDE DEF bad
<1>8. \A i \in bad : (\A j \in bad : i <= j) => i = next
  BY <1>1, <1>5, <1>6
<1> QED BY <1>5, <1>6, <1>7, <1>8

-----------------------------------------------------------------------------
(* What the flags and the environment come to. *)

LEMMA ValuesOK ==
  ASSUME TypeOK
  PROVE  /\ \A f \in BoolFlags : values[f] \in {"true", "false"}
         /\ values["config"] \in {"", "given"}
         /\ values["delete"] \in DeleteValues
         /\ values["timeout"] \in Durations
<1>1. \A f \in Flags : values[f] \in Accepted(f)
  BY DEF TypeOK
<1>2. BoolFlags \subseteq Flags /\ {"config", "delete", "timeout"} \subseteq Flags
  BY DEF Flags
<1>3. \A f \in BoolFlags : values[f] \in {"true", "false"}
  BY <1>1, <1>2, AcceptedValues
<1>4. values["config"] \in {"", "given"} /\ values["delete"] \in DeleteValues /\ values["timeout"] \in Durations
  BY <1>1, <1>2, AcceptedValues
<1> QED BY <1>3, <1>4

LEMMA EnvOK ==
  ASSUME TypeOK
  PROVE  /\ env.config \in {"unset", "", "given"}
         /\ env.dry \in EnvBool /\ env.verbose \in EnvBool
         /\ env.timeout \in Durations \cup {"unset", "junk"}
<1>1. env \in Environment
  BY StartupAssumption DEF TypeOK
<1> QED BY <1>1 DEF Environment

\* A flag that is off unless it is set is as it was asked for.
LEMMA AskedBool ==
  ASSUME IInv, phase \notin {"parse", "exit"}, NEW f \in BoolFlags
  PROVE  Asked(f, "false") = values[f]
<1>1. f \in Flags /\ Default(f) = "false"
  BY FlagCases DEF Flags, Default
<1>2. f \notin visited => values[f] = "false"
  BY <1>1 DEF IInv, LastWins
<1> QED BY <1>1, <1>2, AskedIsSet

LEMMA BoolIsResolved ==
  ASSUME IInv, phase \notin {"parse", "exit"}, NEW f \in BoolFlags, NEW raw \in EnvBool
  PROVE  /\ ResolveBool(f, raw) = "error" <=> Asked(f, raw) = "junk"
         /\ ResolveBool(f, raw) = "true" <=> Asked(f, raw) \in {"true", "yes"}
<1>1. f \in Flags /\ values[f] \in {"true", "false"}
  BY ValuesOK DEF IInv, Flags
<1>2. Asked(f, raw) = IF f \in visited THEN values[f] ELSE raw
  BY <1>1, AskedIsSet
<1>3. CASE f \in visited
  BY <1>1, <1>2, <1>3 DEF ResolveBool
<1>4. CASE f \notin visited
  <2>1. raw \in {"true", "yes"} => ResolveBool(f, raw) = "true"
    BY <1>4 DEF ResolveBool
  <2>2. raw \in {"no", "unset"} => ResolveBool(f, raw) = "false"
    BY <1>4 DEF ResolveBool
  <2>3. raw = "junk" => ResolveBool(f, raw) = "error"
    BY <1>4 DEF ResolveBool
  <2>4. raw \in {"true", "yes"} \/ raw \in {"no", "unset"} \/ raw = "junk"
    BY DEF EnvBool
  <2> QED BY <1>2, <1>4, <2>1, <2>2, <2>3, <2>4
<1> QED BY <1>3, <1>4

LEMMA TimeoutIsResolved ==
  ASSUME IInv, phase \notin {"parse", "exit"}
  PROVE  /\ ResolveTimeout \in {"error", "negative"} <=> AskedTimeout \in {"junk", "negative"}
         /\ ResolveTimeout \notin {"error", "negative"} =>
              /\ ResolveTimeout \in {"zero", "some"}
              /\ ResolveTimeout = IF AskedTimeout = "unset" THEN "zero" ELSE AskedTimeout
<1>1. /\ values["timeout"] \in {"negative", "zero", "some"}
      /\ env.timeout \in {"negative", "zero", "some", "unset", "junk"}
  BY ValuesOK, EnvOK DEF IInv, Durations
<1>2. AskedTimeout = IF "timeout" \in visited THEN values["timeout"] ELSE env.timeout
  BY AskedIsSet DEF AskedTimeout, Flags
<1>3. CASE "timeout" \in visited
  <2>1. ResolveTimeout = values["timeout"]
    BY <1>3 DEF ResolveTimeout
  <2> QED BY <1>1, <1>2, <1>3, <2>1
<1>4. CASE "timeout" \notin visited /\ env.timeout = "unset"
  <2>1. ResolveTimeout = "zero"
    BY <1>4 DEF ResolveTimeout
  <2> QED BY <1>2, <1>4, <2>1
<1>5. CASE "timeout" \notin visited /\ env.timeout # "unset"
  <2>1. ResolveTimeout = IF env.timeout = "junk" THEN "error" ELSE env.timeout
    BY <1>5 DEF ResolveTimeout
  <2> QED BY <1>1, <1>2, <1>5, <2>1
<1> QED BY <1>3, <1>4, <1>5

LEMMA DeleteIsResolved ==
  ASSUME IInv, phase \notin {"parse", "exit"}
  PROVE  /\ DeleteSelection = IF AskedDelete = "true" THEN "both" ELSE AskedDelete
         /\ DeleteSelection \in {"none", "a", "aaaa", "both"}
         /\ DeleteSelection # "none" <=> AskedDelete # "none"
<1>1. values["delete"] \in {"true", "both", "a", "aaaa", "none"}
  BY ValuesOK DEF IInv, DeleteValues
<1>2. "delete" \in Flags /\ Default("delete") = "none"
  BY FlagCases DEF Flags, Default
<1>3. AskedDelete = values["delete"]
  BY <1>2, AskedIsSet DEF AskedDelete, IInv, LastWins
<1> QED BY <1>1, <1>3 DEF DeleteSelection

\* resolveRuntimeOptions refuses what is asked for exactly if that is an error
\* of usage.
LEMMA UsageErrorMeans ==
  ASSUME IInv, phase \notin {"parse", "exit"}
  PROVE  /\ UsageError <=> ~ Is("version") /\ Unresolvable
         /\ AskedVersion <=> Is("version")
         /\ AskedInspection <=> Is("validate-config") \/ Is("print-effective-config")
         /\ ~ AskedHelp
<1>1. Fatal = {}
  BY AskedIsSet
<1>2. AskedVersion <=> Is("version")
  BY <1>1, AskedBool DEF AskedVersion, Is, BoolFlags
<1>3. AskedInspection <=> Is("validate-config") \/ Is("print-effective-config")
  BY <1>1, AskedBool DEF AskedInspection, Is, BoolFlags
<1>4. (\A f \in {"validate-config", "print-effective-config"} : Asked(f, "false") = "true")
        <=> Is("validate-config") /\ Is("print-effective-config")
  BY AskedBool DEF Is, BoolFlags
<1>5. Asked("force-push", "false") = "true" <=> Is("force-push")
  BY AskedBool DEF Is, BoolFlags
<1>6. /\ ResolveBool("dry-run", env.dry) = "error" <=> AskedDry = "junk"
      /\ ResolveBool("verbose", env.verbose) = "error" <=> Asked("verbose", env.verbose) = "junk"
  BY BoolIsResolved, EnvOK DEF IInv, AskedDry, BoolFlags
<1>7. UsageError <=>
        /\ ~ Is("version")
        /\ \/ AskedDry = "junk" \/ Asked("verbose", env.verbose) = "junk"
           \/ AskedTimeout \in {"junk", "negative"}
           \/ AskedDelete # "none" /\ Is("force-push")
           \/ Is("validate-config") /\ Is("print-effective-config")
  BY <1>1, <1>2, <1>4, <1>5 DEF UsageError
<1>8. UsageError <=> ~ Is("version") /\ Unresolvable
  BY <1>6, <1>7, TimeoutIsResolved, DeleteIsResolved DEF Unresolvable
<1>9. ~ AskedHelp
  BY <1>1 DEF AskedHelp
<1> QED BY <1>2, <1>3, <1>8, <1>9

LEMMA ResolvedIsOptions ==
  ASSUME IInv, phase \notin {"parse", "exit"}, ~ Unresolvable
  PROVE  Resolved \in Options
<1>1. DeleteSelection \in {"none", "a", "aaaa", "both"}
  BY DeleteIsResolved
<1>2. ResolveTimeout \in {"zero", "some"}
  BY TimeoutIsResolved DEF Unresolvable
<1>3. (IF "config" \in visited THEN values["config"]
       ELSE IF env.config = "unset" THEN "" ELSE env.config) \in {"", "given"}
  BY ValuesOK, EnvOK DEF IInv
<1> QED BY <1>1, <1>2, <1>3 DEF Resolved, Options, Is

-----------------------------------------------------------------------------
(* Steps. *)

\* Leaving the program changes the phase and the exit status only.
LEMMA ExitType ==
  ASSUME TypeOK, NEW status \in {0, 1, 2}, ExitWith(status),
         UNCHANGED <<args, env, disk, next, values, visited, opts, source, tried, edits, missing>>
  PROVE  TypeOK'
<1>1. phase' = "exit" /\ code' = status
  BY DEF ExitWith
<1>2. status # -1 /\ status \in {-1, 0, 1, 2}
  OBVIOUS
<1>3. code' \in {-1, 0, 1, 2} /\ (code' # -1 <=> phase' = "exit")
  BY <1>1, <1>2
<1>4. phase' \in Phases
  BY <1>1 DEF Phases
<1>5. tried' \in 0 .. Len(Candidates) /\ next' \in 1 .. MaxArgs + 1 /\ edits' \in 0 .. MaxEdits
  BY DEF TypeOK
<1>6. values' \in [Flags -> FlagValues] /\ \A f \in Flags : values'[f] \in Accepted(f)
  BY DEF TypeOK
<1>7. args' \in CommandLines /\ env' \in Environments /\ disk' \in Disk
  BY DEF TypeOK
<1>8. visited' \subseteq Flags /\ opts' \in Options /\ source' \in ConfigPaths \cup {""}
  BY DEF TypeOK
<1>9. Absent' \subseteq missing' /\ missing' \subseteq ConfigPaths
  BY DEF TypeOK, Absent
<1> QED BY <1>3, <1>4, <1>5, <1>6, <1>7, <1>8, <1>9 DEF TypeOK

LEMMA InitImpliesIInv == Init => IInv
<1> SUFFICES ASSUME Init
             PROVE  IInv
  OBVIOUS
<1>1. PICK n \in 0 .. MaxArgs : args \in [1 .. n -> Tokens]
  BY DEF Init, CommandLines
<1>2. n \in Nat /\ MaxArgs \in Nat /\ MaxEdits \in Nat
  BY <1>1, StartupAssumption
<1>3. Len(args) = n
  BY <1>1, <1>2
<1>4. \A f \in Flags : Default(f) \in Accepted(f) /\ Default(f) \in FlagValues
  BY DefaultsAccepted, FlagsOfAccepted
<1>5. values \in [Flags -> FlagValues] /\ \A f \in Flags : values[f] = Default(f)
  BY <1>4 DEF Init
<1>6. disk \in Disk
  BY StartupAssumption DEF Init
<1>7. next = 1 /\ tried = 0 /\ edits = 0 /\ code = -1
  BY DEF Init
<1>8. next \in 1 .. MaxArgs + 1 /\ next \in 1 .. Len(args) + 1 /\ edits \in 0 .. MaxEdits
  BY <1>2, <1>3, <1>7
<1>9. tried \in 0 .. Len(Candidates)
  BY <1>7 DEF Candidates
<1>10. opts \in Options
  BY DEF Init, Options, NoOptions
<1>11. code \in {-1, 0, 1, 2} /\ (code # -1 <=> phase = "exit") /\ phase \in Phases
  BY <1>7 DEF Init, Phases
<1>12. Absent \subseteq missing /\ missing \subseteq ConfigPaths
  BY DEF Init, Absent
<1>13. args \in CommandLines /\ env \in Environments /\ visited \subseteq Flags /\ source \in ConfigPaths \cup {""}
  BY DEF Init
<1>14. TypeOK
  BY <1>4, <1>5, <1>6, <1>8, <1>9, <1>10, <1>11, <1>12, <1>13 DEF TypeOK
<1>15. Done = {}
  <2>1. \A i \in Int : ~ (i \in 1 .. 1 - 1)
    OBVIOUS
  <2>2. \A i \in Done : i \in Int
    BY <1>7 DEF Done
  <2> QED BY <1>7, <2>1, <2>2 DEF Done
<1>16. AllAccepted
  BY <1>8, <1>15 DEF Init, AllAccepted
<1>17. LastWins
  BY <1>5, <1>15 DEF Init, LastWins
<1>18. OptionsKept /\ ConfigKept /\ ExitStatusMeans
  BY DEF Init, OptionsKept, ConfigKept, ExitStatusMeans, Resolving
<1> QED BY <1>14, <1>16, <1>17, <1>18 DEF IInv

\* What the arguments say does not change.
LEMMA AskedKept ==
  ASSUME UNCHANGED <<args, env>>
  PROVE  /\ UsageError' <=> UsageError
         /\ Fatal' = Fatal
BY DEF UsageError, Fatal, FlagArgs, Uses, LastUse, Asked, AskedHelp, AskedVersion, AskedDry,
       AskedDelete, AskedTimeout

LEMMA ParseFlagKeeps == IInv /\ ParseFlag => IInv'
<1> SUFFICES ASSUME IInv, ParseFlag
             PROVE  IInv'
  OBVIOUS
<1> DEFINE f == Current.flag
           v == Current.value
<1>1. /\ phase = "parse" /\ next <= Len(args) /\ f # "word" /\ v \in Accepted(f)
      /\ values' = [values EXCEPT ![f] = v] /\ visited' = visited \cup {f} /\ next' = next + 1
      /\ UNCHANGED <<args, env, disk, phase, opts, source, tried, code, edits, missing>>
  BY DEF ParseFlag, Flagged
<1>2. f = args[next].flag /\ v = args[next].value
  BY DEF Current
<1>3. f \in Flags /\ v \in FlagValues
  BY <1>1, FlagsOfAccepted
<1>4. Len(args) \in 0 .. MaxArgs /\ MaxArgs \in Nat /\ next \in 1 .. Len(args)
  BY <1>1, ArgsAreTokens, StartupAssumption DEF IInv, AllAccepted
<1>5. Done' = Done \cup {next} /\ next \notin Done /\ \A i \in Done : i <= next
  BY <1>1, <1>4 DEF Done
<1> HIDE DEF f, v
<1>6. TypeOK'
  <2>1. /\ values' \in [Flags -> FlagValues]
        /\ \A g \in Flags : values'[g] = IF g = f THEN v ELSE values[g]
    BY <1>1, <1>3 DEF IInv, TypeOK
  <2>2. \A g \in Flags : values'[g] \in Accepted(g)
    BY <1>1, <2>1 DEF IInv, TypeOK
  <2>3. \A n, m, k \in Nat : k \in 1 .. n /\ n <= m => k + 1 \in 1 .. m + 1
    OBVIOUS
  <2>4. next' \in 1 .. MaxArgs + 1
    BY <1>1, <1>4, <2>3
  <2>5. visited' \subseteq Flags
    BY <1>1, <1>3 DEF IInv, TypeOK
  <2> QED BY <1>1, <2>1, <2>2, <2>4, <2>5 DEF IInv, TypeOK, Absent
<1>7. AllAccepted'
  <2>1. next' \in 1 .. Len(args') + 1
    BY <1>1, <1>4
  <2>2. \A i \in Done' : args'[i].flag # "word" /\ args'[i].value \in Accepted(args'[i].flag)
    BY <1>1, <1>2, <1>5 DEF IInv, AllAccepted
  <2> QED BY <1>1, <2>1, <2>2 DEF AllAccepted
<1>8. LastWins'
  <2> SUFFICES ASSUME NEW g \in Flags
               PROVE  IF g \in visited'
                      THEN \E i \in Done' : /\ args'[i].flag = g /\ values'[g] = args'[i].value
                                            /\ \A j \in Done' : args'[j].flag = g => j <= i
                      ELSE values'[g] = Default(g) /\ \A i \in Done' : args'[i].flag # g
    BY DEF LastWins
  <2>1. CASE g = f
    <3>1. values'[g] = args'[next].value /\ args'[next].flag = g /\ next \in Done' /\ g \in visited'
      BY <1>1, <1>2, <1>3, <1>5, <2>1 DEF IInv, TypeOK
    <3>2. \A j \in Done' : j <= next
      BY <1>4, <1>5
    <3> QED BY <3>1, <3>2
  <2>2. CASE g # f
    <3>1. values'[g] = values[g] /\ (g \in visited' <=> g \in visited)
      BY <1>1, <2>2 DEF IInv, TypeOK
    <3>2. \A j \in Done' : args'[j].flag = g => j \in Done
      BY <1>1, <1>2, <1>5, <2>2
    <3>3. CASE g \in visited
      <4>1. PICK i \in Done : /\ args[i].flag = g /\ values[g] = args[i].value
                              /\ \A j \in Done : args[j].flag = g => j <= i
        BY <3>3 DEF IInv, LastWins
      <4>2. i \in Done' /\ args'[i].flag = g /\ values'[g] = args'[i].value
        BY <1>1, <1>5, <3>1, <4>1
      <4>3. \A j \in Done' : args'[j].flag = g => j <= i
        BY <1>1, <3>2, <4>1
      <4> QED BY <3>1, <3>3, <4>2, <4>3
    <3>4. CASE g \notin visited
      <4>1. values[g] = Default(g) /\ \A i \in Done : args[i].flag # g
        BY <3>4 DEF IInv, LastWins
      <4> QED BY <1>1, <3>1, <3>2, <3>4, <4>1
    <3> QED BY <3>3, <3>4
  <2> QED BY <2>1, <2>2
<1>9. OptionsKept' /\ ConfigKept' /\ ExitStatusMeans'
  BY <1>1 DEF IInv, OptionsKept, ConfigKept, ExitStatusMeans, Resolving
<1> QED BY <1>6, <1>7, <1>8, <1>9 DEF IInv

LEMMA ParseStopsKeeps == IInv /\ ParseStops => IInv'
<1> SUFFICES ASSUME IInv, ParseStops
             PROVE  IInv'
  OBVIOUS
<1>1. /\ phase = "parse" /\ Flagged /\ Current.value \notin Accepted(Current.flag)
      /\ phase' = "exit" /\ code' = IF Current.flag = "help" THEN 0 ELSE 2
      /\ UNCHANGED <<args, env, disk, next, values, visited, opts, source, tried, edits, missing>>
  BY DEF ParseStops, ExitWith
<1>2. Fatal = {next}
  BY <1>1, StopsAtFatal
<1>3. AskedHelp <=> Current.flag = "help"
  BY <1>2 DEF AskedHelp, Current
<1>4. UsageError <=> ~ AskedHelp
  BY <1>2 DEF UsageError
<1>5. source = "" /\ tried = 0
  BY <1>1 DEF IInv, ConfigKept
<1>6. ExitStatusMeans'
  <2>1. UsageError' <=> UsageError
    BY <1>1, AskedKept
  <2>2. code' = 2 <=> UsageError
    BY <1>1, <1>3, <1>4
  <2>3. source' = "" /\ tried' = 0
    BY <1>1, <1>5
  <2> QED BY <2>1, <2>2, <2>3 DEF ExitStatusMeans
<1>7. TypeOK'
  <2>1. (IF Current.flag = "help" THEN 0 ELSE 2) \in {0, 1, 2}
    OBVIOUS
  <2> QED BY <1>1, <2>1, ExitType DEF IInv, ExitWith
<1>8. AllAccepted' /\ LastWins' /\ OptionsKept' /\ ConfigKept'
  BY <1>1 DEF IInv, AllAccepted, LastWins, OptionsKept, ConfigKept, Resolving, Done
<1> QED BY <1>6, <1>7, <1>8 DEF IInv

LEMMA ParseEndsKeeps == IInv /\ ParseEnds => IInv'
<1> SUFFICES ASSUME IInv, ParseEnds
             PROVE  IInv'
  OBVIOUS
<1>1. /\ phase = "parse" /\ ~ Flagged /\ phase' = "parsed"
      /\ UNCHANGED <<args, env, disk, next, values, visited, opts, source, tried, code, edits, missing>>
  BY DEF ParseEnds
<1>2. TypeOK'
  BY <1>1 DEF IInv, TypeOK, Phases, Absent
<1>3. AllAccepted' /\ LastWins'
  BY <1>1 DEF IInv, AllAccepted, LastWins, Done, Flagged, Current
<1>4. OptionsKept' /\ ConfigKept' /\ ExitStatusMeans'
  BY <1>1 DEF IInv, OptionsKept, ConfigKept, ExitStatusMeans, Resolving
<1> QED BY <1>2, <1>3, <1>4 DEF IInv

\* After Parse, flags and environment stay, and with them all that they say.
LEMMA LaterKeeps ==
  ASSUME IInv, phase \notin {"parse", "exit"}, UNCHANGED <<args, env, next, values, visited>>
  PROVE  /\ AllAccepted' /\ LastWins'
         /\ Resolved' = Resolved /\ (Unresolvable' <=> Unresolvable) /\ (Is("version")' <=> Is("version"))
         /\ UsageError' <=> UsageError
<1>1. AllAccepted' /\ LastWins'
  BY DEF IInv, AllAccepted, LastWins, Done, Flagged, Current
<1>2. Resolved' = Resolved /\ (Unresolvable' <=> Unresolvable) /\ (Is("version")' <=> Is("version"))
  BY DEF Resolved, Unresolvable, Is, ResolveBool, ResolveTimeout, DeleteSelection
<1> QED BY <1>1, <1>2, AskedKept

\* Leaving with 0 or 1 after Parse, when there was no error of usage.
LEMMA ExitKeeps ==
  ASSUME IInv, phase \notin {"parse", "exit"}, ~ UsageError, NEW status \in {0, 1}, ExitWith(status),
         UNCHANGED <<args, env, disk, next, values, visited, opts, source, tried, edits, missing>>
  PROVE  IInv'
<1>1. phase' = "exit" /\ code' \in {0, 1}
  BY DEF ExitWith
<1>2. TypeOK'
  BY ExitType DEF IInv
<1>3. ExitStatusMeans'
  <2>1. UsageError' <=> UsageError
    BY LaterKeeps
  <2>2. code' # 2
    BY <1>1
  <2> QED BY <2>1, <2>2 DEF ExitStatusMeans
<1>4. OptionsKept' /\ ConfigKept'
  BY <1>1 DEF OptionsKept, ConfigKept, Resolving
<1> QED BY <1>2, <1>3, <1>4, LaterKeeps DEF IInv

LEMMA NoUsageError ==
  ASSUME IInv, phase \in Resolving
  PROVE  ~ UsageError /\ ~ AskedVersion /\ ~ AskedHelp /\ phase \notin {"parse", "exit"}
BY UsageErrorMeans DEF IInv, OptionsKept, Resolving

LEMMA ResolveKeeps == IInv /\ (Version \/ Resolve) => IInv'
<1> SUFFICES ASSUME IInv, Version \/ Resolve
             PROVE  IInv'
  OBVIOUS
<1>1. phase = "parsed"
  BY DEF Version, Resolve
<1>2. CASE Version
  <2>1. Is("version")
    BY <1>2 DEF Version, Is
  <2>2. ~ UsageError
    BY <1>1, <2>1, UsageErrorMeans
  <2> QED BY <1>1, <1>2, <2>2, ExitKeeps DEF Version
<1>3. CASE Resolve /\ Unresolvable
  <2>1. /\ phase' = "exit" /\ code' = 2 /\ ~ Is("version")
        /\ UNCHANGED <<args, env, disk, next, values, visited, opts, source, tried, edits, missing>>
    BY <1>3 DEF Resolve, ExitWith, Is
  <2>2. UsageError /\ source = "" /\ tried = 0
    BY <1>1, <1>3, <2>1, UsageErrorMeans DEF IInv, ConfigKept
  <2>3. ExitStatusMeans'
    BY <1>1, <2>1, <2>2, LaterKeeps DEF ExitStatusMeans
  <2>4. TypeOK'
    BY <2>1, ExitType DEF IInv, ExitWith
  <2>5. OptionsKept' /\ ConfigKept'
    BY <2>1 DEF OptionsKept, ConfigKept, Resolving
  <2> QED BY <1>1, <2>1, <2>3, <2>4, <2>5, LaterKeeps DEF IInv
<1>4. CASE Resolve /\ ~ Unresolvable
  <2>1. /\ phase' = "load" /\ opts' = Resolved /\ ~ Is("version")
        /\ UNCHANGED <<args, env, disk, next, values, visited, source, tried, code, edits, missing>>
    BY <1>4 DEF Resolve, Is
  <2>2. opts' \in Options
    BY <1>1, <1>4, <2>1, ResolvedIsOptions
  <2>3. TypeOK'
    BY <1>1, <2>1, <2>2 DEF IInv, TypeOK, Phases, Absent
  <2>4. OptionsKept'
    BY <1>1, <1>4, <2>1, LaterKeeps DEF OptionsKept
  <2>5. ConfigKept' /\ ExitStatusMeans'
    BY <1>1, <2>1 DEF IInv, ConfigKept, ExitStatusMeans
  <2> QED BY <1>1, <2>1, <2>3, <2>4, <2>5, LaterKeeps DEF IInv
<1> QED BY <1>2, <1>3, <1>4

\* A step between Resolve and the run that goes on: nothing of the command
\* line changes, only where the program is and which file it looks at.
LEMMA GoingOnKeeps ==
  ASSUME IInv, phase \in Resolving, phase' \in Resolving,
         UNCHANGED <<args, env, disk, next, values, visited, opts, code, edits, missing>>,
         source' \in ConfigPaths \cup {""}, tried' \in 0 .. Len(Candidates),
         phase' \in {"start", "running"} => opts.inspect = "none",
         ConfigKept'
  PROVE  IInv'
<1>1. phase \notin {"parse", "exit"} /\ phase' \notin {"parse", "exit"} /\ phase' \in Phases
  BY DEF Resolving, Phases
<1>2. code' \in {-1, 0, 1, 2} /\ (code' # -1 <=> phase' = "exit")
  BY <1>1 DEF IInv, TypeOK
<1>3. TypeOK'
  BY <1>1, <1>2 DEF IInv, TypeOK, Absent
<1>4. OptionsKept'
  BY <1>1, LaterKeeps DEF IInv, OptionsKept
<1>5. ExitStatusMeans'
  BY <1>1 DEF ExitStatusMeans
<1> QED BY <1>1, <1>3, <1>4, <1>5, LaterKeeps DEF IInv

\* The two places that are searched.
LEMMA SearchOrder ==
  /\ Len(Candidates) = 2
  /\ Candidates[1] = "cwd" /\ Candidates[2] = "system"
  /\ 0 .. Len(Candidates) = {0, 1, 2}
<1>1. 0 .. 2 = {0, 1, 2}
  OBVIOUS
<1> QED BY <1>1 DEF Candidates

LEMMA ChooseConfigKeeps == IInv /\ ChooseConfig => IInv'
<1> SUFFICES ASSUME IInv, ChooseConfig
             PROVE  IInv'
  OBVIOUS
<1>1. /\ phase = "load" /\ phase \in Resolving
      /\ UNCHANGED <<args, env, disk, next, values, visited, opts, tried, edits, missing>>
  BY DEF ChooseConfig, Resolving
<1>2. source = "" /\ tried = 0
  BY <1>1 DEF IInv, ConfigKept
<1>3. tried' = 0 /\ tried' \in 0 .. Len(Candidates)
  BY <1>1, <1>2, SearchOrder
<1>4. CASE opts.explicit /\ opts.config = ""
  <2>1. ExitWith(1) /\ UNCHANGED source
    BY <1>4 DEF ChooseConfig
  <2> QED BY <1>1, <2>1, NoUsageError, ExitKeeps
<1>5. CASE opts.explicit /\ opts.config # ""
  <2>1. phase' = "found" /\ source' = opts.config /\ UNCHANGED code
    BY <1>5 DEF ChooseConfig
  <2>2. opts.config \in {"", "given"}
    BY DEF IInv, TypeOK, Options
  <2>3. source' \in ConfigPaths \cup {""}
    BY <2>1, <2>2 DEF ConfigPaths
  <2>4. ConfigKept'
    BY <1>1, <1>5, <2>1 DEF ConfigKept
  <2> QED BY <1>1, <1>3, <2>1, <2>3, <2>4, GoingOnKeeps DEF Resolving
<1>6. CASE ~ opts.explicit
  <2>1. phase' = "search" /\ UNCHANGED <<source, code>>
    BY <1>6 DEF ChooseConfig
  <2>2. ~ (tried' > 0)
    BY <1>3
  <2>3. phase' = "search" /\ ~ opts'.explicit
    BY <1>1, <1>6, <2>1
  <2>4. ConfigKept'
    BY <2>2, <2>3 DEF ConfigKept
  <2>5. source' \in ConfigPaths \cup {""}
    BY <2>1 DEF IInv, TypeOK
  <2> QED BY <1>1, <1>3, <2>1, <2>4, <2>5, GoingOnKeeps DEF Resolving
<1> QED BY <1>4, <1>5, <1>6

LEMMA StatCandidateKeeps == IInv /\ StatCandidate => IInv'
<1> SUFFICES ASSUME IInv, StatCandidate
             PROVE  IInv'
  OBVIOUS
<1>1. /\ phase = "search" /\ phase \in Resolving
      /\ UNCHANGED <<args, env, disk, next, values, visited, opts, edits, missing>>
  BY DEF StatCandidate, Resolving
<1>2. ~ opts.explicit /\ (tried > 0 => "cwd" \in missing)
  BY <1>1 DEF IInv, ConfigKept
<1>3. tried \in {0, 1, 2}
  BY SearchOrder DEF IInv, TypeOK
<1>4. CASE tried = 2
  <2>1. ExitWith(1) /\ UNCHANGED <<source, tried>>
    BY <1>4, SearchOrder DEF StatCandidate
  <2> QED BY <1>1, <2>1, NoUsageError, ExitKeeps
<1>5. CASE tried \in {0, 1}
  <2> DEFINE p == Candidates[tried + 1]
  <2>1. /\ p = (IF tried = 0 THEN "cwd" ELSE "system")
        /\ tried # Len(Candidates)
    BY <1>5, SearchOrder
  <2> HIDE DEF p
  <2>2. p \in ConfigPaths
    BY <2>1 DEF ConfigPaths
  <2>3. CASE disk.config[p] = "absent"
    <3>1. tried' = tried + 1 /\ UNCHANGED <<phase, code, source>>
      BY <2>1, <2>3 DEF StatCandidate, p
    <3>2. p \in missing
      BY <2>2, <2>3 DEF IInv, TypeOK, Absent
    <3>3. "cwd" \in missing
      BY <1>2, <1>5, <2>1, <3>2
    <3>4. ConfigKept'
      BY <1>1, <1>2, <3>1, <3>3 DEF ConfigKept
    <3>5. tried' \in 0 .. Len(Candidates)
      BY <1>5, <3>1, SearchOrder
    <3>6. source' \in ConfigPaths \cup {""}
      BY <3>1 DEF IInv, TypeOK
    <3> QED BY <1>1, <3>1, <3>4, <3>5, <3>6, GoingOnKeeps
  <2>4. CASE disk.config[p] = "denied"
    <3>1. ExitWith(1) /\ UNCHANGED <<source, tried>>
      BY <2>1, <2>4 DEF StatCandidate, p
    <3> QED BY <1>1, <3>1, NoUsageError, ExitKeeps
  <2>5. CASE disk.config[p] \notin {"absent", "denied"}
    <3>1. phase' = "found" /\ source' = p /\ UNCHANGED <<tried, code>>
      BY <2>1, <2>5 DEF StatCandidate, p
    <3>2. source' = "cwd" \/ (source' = "system" /\ "cwd" \in missing)
      BY <1>2, <1>5, <2>1, <3>1
    <3>3. ConfigKept'
      BY <1>1, <1>2, <3>1, <3>2 DEF ConfigKept
    <3>4. tried' \in 0 .. Len(Candidates)
      BY <1>5, <3>1, SearchOrder
    <3> QED BY <1>1, <2>2, <3>1, <3>3, <3>4, GoingOnKeeps DEF Resolving
  <2> QED BY <2>3, <2>4, <2>5
<1> QED BY <1>3, <1>4, <1>5

\* Reading the configuration, and each later step before the run, goes on to
\* the phase that it names, or leaves.
LEMMA OnwardKeeps ==
  ASSUME IInv, NEW then,
         \/ phase = "found" /\ then = "loaded"
         \/ phase = "loaded" /\ then = "start" /\ opts.inspect = "none"
         \/ phase = "start" /\ then = "running",
         phase' = then,
         UNCHANGED <<args, env, disk, next, values, visited, opts, source, tried, code, edits, missing>>
  PROVE  IInv'
<1>1. /\ phase \in {"found", "loaded", "start"} /\ phase' \in {"loaded", "start", "running"}
      /\ phase \in Resolving /\ phase' \in Resolving
  BY DEF Resolving
<1>2. phase' \in {"start", "running"} => opts.inspect = "none"
  BY DEF IInv, OptionsKept
<1>3. ConfigKept'
  BY <1>1 DEF IInv, ConfigKept
<1>4. source' \in ConfigPaths \cup {""} /\ tried' \in 0 .. Len(Candidates)
  BY DEF IInv, TypeOK
<1> QED BY <1>1, <1>2, <1>3, <1>4, GoingOnKeeps

LEMMA LoadToRunKeeps ==
  IInv /\ (LoadConfig \/ Introspect \/ NewRunner \/ RunReturns) => IInv'
<1> SUFFICES ASSUME IInv, LoadConfig \/ Introspect \/ NewRunner \/ RunReturns
             PROVE  IInv'
  OBVIOUS
<1>1. /\ phase \in Resolving
      /\ UNCHANGED <<args, env, disk, next, values, visited, opts, source, tried, edits, missing>>
  BY DEF LoadConfig, Introspect, NewRunner, RunReturns, Resolving
<1>2. ASSUME NEW status \in {0, 1}, ExitWith(status)
      PROVE  IInv'
  BY <1>1, <1>2, NoUsageError, ExitKeeps
<1>3. CASE LoadConfig
  BY <1>1, <1>2, <1>3, OnwardKeeps DEF LoadConfig
<1>4. CASE Introspect
  BY <1>1, <1>2, <1>4, OnwardKeeps DEF Introspect
<1>5. CASE NewRunner
  BY <1>1, <1>2, <1>5, OnwardKeeps DEF NewRunner
<1>6. CASE RunReturns
  BY <1>2, <1>6 DEF RunReturns
<1> QED BY <1>3, <1>4, <1>5, <1>6

LEMMA EditKeeps == IInv /\ (\E d \in Disks : Edit(d)) => IInv'
<1> SUFFICES ASSUME IInv, NEW d \in Disks, Edit(d)
             PROVE  IInv'
  OBVIOUS
<1>1. /\ phase # "exit" /\ edits < MaxEdits /\ edits' = edits + 1 /\ disk' = d
      /\ missing' = missing \cup {p \in ConfigPaths : d.config[p] = "absent"}
      /\ UNCHANGED <<args, env, next, values, visited, phase, opts, source, tried, code>>
  BY DEF Edit
<1>2. edits' \in 0 .. MaxEdits
  <2>1. \A n, k \in Nat : k < n => k + 1 \in 0 .. n
    OBVIOUS
  <2>2. MaxEdits \in Nat /\ edits \in 0 .. MaxEdits
    BY StartupAssumption DEF IInv, TypeOK
  <2>3. edits \in Nat
    BY <2>2
  <2> QED BY <1>1, <2>1, <2>2, <2>3
<1>3. disk' \in Disk
  BY <1>1, StartupAssumption
<1>4. Absent' \subseteq missing' /\ missing' \subseteq ConfigPaths
  BY <1>1 DEF IInv, TypeOK, Absent
<1>5. TypeOK'
  BY <1>1, <1>2, <1>3, <1>4 DEF IInv, TypeOK
<1>6. AllAccepted' /\ LastWins'
  BY <1>1 DEF IInv, AllAccepted, LastWins, Done, Flagged, Current
<1>7. OptionsKept'
  BY <1>1, LaterKeeps DEF IInv, OptionsKept, Resolving
<1>8. missing \subseteq missing'
  BY <1>1
<1>9. ConfigKept'
  BY <1>1, <1>8 DEF IInv, ConfigKept
<1>10. ExitStatusMeans'
  BY <1>1 DEF ExitStatusMeans
<1> QED BY <1>5, <1>6, <1>7, <1>9, <1>10 DEF IInv

LEMMA StutterKeeps == IInv /\ UNCHANGED vars => IInv'
<1> SUFFICES ASSUME IInv, UNCHANGED vars
             PROVE  IInv'
  OBVIOUS
<1>1. UNCHANGED <<args, env>> /\ (UsageError' <=> UsageError)
  BY AskedKept DEF vars
<1>2. TypeOK'
  BY DEF IInv, TypeOK, vars, Absent
<1>3. AllAccepted' /\ LastWins'
  BY DEF IInv, AllAccepted, LastWins, Done, Flagged, Current, vars
<1>4. OptionsKept'
  <2>1. Resolved' = Resolved /\ (Unresolvable' <=> Unresolvable) /\ (Is("version")' <=> Is("version"))
    BY DEF Resolved, Unresolvable, Is, ResolveBool, ResolveTimeout, DeleteSelection, vars
  <2>2. UNCHANGED <<phase, opts>>
    BY DEF vars
  <2> QED BY <2>1, <2>2 DEF IInv, OptionsKept
<1>5. ConfigKept'
  BY DEF IInv, ConfigKept, vars
<1>6. ExitStatusMeans'
  BY <1>1 DEF IInv, ExitStatusMeans, vars
<1> QED BY <1>2, <1>3, <1>4, <1>5, <1>6 DEF IInv

LEMMA NextKeepsIInv == IInv /\ [Next]_vars => IInv'
BY ParseFlagKeeps, ParseStopsKeeps, ParseEndsKeeps, ResolveKeeps, ChooseConfigKeeps,
   StatCandidateKeeps, LoadToRunKeeps, EditKeeps, StutterKeeps DEF Next

-----------------------------------------------------------------------------
\* The invariant that the theorems rest on.
LEMMA Invariance == Spec => []IInv
BY InitImpliesIInv, NextKeepsIInv, PTL DEF Spec

\* Every state of the process from the command line to its exit status is of
\* its type: every flag holds a value that package flag or deleteFlagValue.Set
\* accepts for it.
THEOREM TypeCorrect == Spec => []TypeOK
<1>1. IInv => TypeOK
  BY DEF IInv
<1> QED BY <1>1, Invariance, PTL

\* The exit status 2 is an error of usage, for every command line and
\* environment, and comes before any file is looked for.
THEOREM ExitStatusIsRight == Spec => []ExitStatusMeans
<1>1. IInv => ExitStatusMeans
  BY DEF IInv
<1> QED BY <1>1, Invariance, PTL

LEMMA RunningIsAsAsked == IInv => RunsAsAsked
<1> SUFFICES ASSUME IInv, phase = "running"
             PROVE  /\ ~ AskedHelp /\ ~ AskedVersion /\ ~ AskedInspection /\ ~ UsageError
                    /\ opts.dry <=> AskedDry \in {"true", "yes"}
                    /\ opts.delete = IF AskedDelete = "true" THEN "both" ELSE AskedDelete
                    /\ opts.force <=> Asked("force-push", "false") = "true"
                    /\ opts.timeout = IF AskedTimeout = "unset" THEN "zero" ELSE AskedTimeout
                    /\ opts.delete = "none" \/ ~ opts.force
  BY DEF RunsAsAsked
<1>1. phase \in Resolving /\ phase \notin {"parse", "exit"}
  BY DEF Resolving
<1>2. opts = Resolved /\ ~ Unresolvable /\ opts.inspect = "none"
  BY <1>1 DEF IInv, OptionsKept
<1>3. ~ AskedHelp /\ ~ AskedVersion /\ ~ UsageError
  BY <1>1, NoUsageError
<1>4. ~ AskedInspection
  BY <1>1, <1>2, UsageErrorMeans DEF Resolved
<1>5. opts.dry <=> AskedDry \in {"true", "yes"}
  BY <1>1, <1>2, BoolIsResolved, EnvOK DEF Resolved, AskedDry, IInv, BoolFlags
<1>6. opts.delete = IF AskedDelete = "true" THEN "both" ELSE AskedDelete
  BY <1>1, <1>2, DeleteIsResolved DEF Resolved
<1>7. opts.force <=> Asked("force-push", "false") = "true"
  BY <1>1, <1>2, AskedBool DEF Resolved, Is, BoolFlags
<1>8. opts.timeout = IF AskedTimeout = "unset" THEN "zero" ELSE AskedTimeout
  BY <1>1, <1>2, TimeoutIsResolved DEF Resolved, Unresolvable
<1>9. opts.delete = "none" \/ ~ opts.force
  BY <1>2 DEF Resolved, Unresolvable
<1> QED BY <1>3, <1>4, <1>5, <1>6, <1>7, <1>8, <1>9

\* A run has the options that the command line as a whole and the environment
\* ask for, however long the command line and in whatever order its flags.
THEOREM TheRunIsAsAsked == Spec => []RunsAsAsked
BY RunningIsAsAsked, Invariance, PTL

\* Without positional arguments the whole command line is flags.
AllFlags == \A i \in 1 .. Len(args) : args[i].flag # "word"

\* dns-update(1) is right about -dry-run wherever no positional argument hides
\* it: for a command line of flags alone, of any length and in any order, the
\* last -dry-run decides whatever else is said (run, resolveRuntimeOptions).
THEOREM DryRunIsHonored == Spec => [](AllFlags => DryRunHonored)
<1>1. ASSUME IInv, AllFlags
      PROVE  DryRunHonored
  <2> DEFINE uses == {i \in 1 .. Len(args) : args[i].flag = "dry-run"}
  <2> SUFFICES ASSUME phase = "running", NEW i \in uses,
                      args[i].value = "true", \A j \in uses : j <= i
               PROVE  opts.dry
    BY DEF DryRunHonored
  <2>1. Len(args) \in Nat
    BY <1>1, ArgsAreTokens DEF IInv
  <2>2. FlagArgs = 1 .. Len(args)
    BY <1>1, <2>1 DEF AllFlags, FlagArgs
  <2>3. Uses("dry-run") = uses
    BY <2>2 DEF Uses
  <2>4. \A k \in uses : (\A j \in uses : j <= k) => k = i
    BY <2>1
  <2>5. LastUse("dry-run") = i
    BY <2>3, <2>4 DEF LastUse
  <2>6. AskedDry = "true"
    BY <2>3, <2>5 DEF AskedDry, Asked
  <2> QED BY <1>1, <2>6, RunningIsAsAsked DEF RunsAsAsked
<1> QED BY <1>1, Invariance, PTL

LEMMA ConfigIsInUse == IInv => ConfigInUse
<1> SUFFICES ASSUME IInv, phase \in {"loaded", "start", "running"}
             PROVE  ConfigInUse
  BY DEF ConfigInUse
<1>1. phase \in Resolving /\ phase \notin {"parse", "exit"}
  BY DEF Resolving
<1>2. "config" \in Flags
  BY DEF Flags
<1>3. opts = Resolved
  BY <1>1 DEF IInv, OptionsKept
<1>4. opts.explicit <=> Uses("config") # {} \/ env.config # "unset"
  BY <1>1, <1>2, <1>3, AskedIsSet DEF Resolved
<1>5. opts.config = Asked("config", IF env.config = "unset" THEN "" ELSE env.config)
  BY <1>1, <1>2, <1>3, AskedIsSet DEF Resolved
<1>6. IF opts.explicit THEN source = opts.config
      ELSE source = "cwd" \/ (source = "system" /\ "cwd" \in missing)
  BY DEF IInv, ConfigKept
<1> QED BY <1>4, <1>5, <1>6 DEF ConfigInUse

\* The configuration that is loaded is the one that was given, or the first of
\* the search order that was not missing, however often others edit the files.
THEOREM TheConfigIsTheOneAskedFor == Spec => []ConfigInUse
BY ConfigIsInUse, Invariance, PTL

LEMMA QuietExit ==
  ASSUME IInv, Next, phase' = "exit", code' = 0
  PROVE  phase = "running" \/ AskedHelp \/ AskedVersion \/ AskedInspection
<1>1. CASE ParseStops
  <2>1. phase = "parse" /\ Flagged /\ Current.value \notin Accepted(Current.flag) /\ Current.flag = "help"
    BY <1>1 DEF ParseStops, ExitWith
  <2>2. Fatal = {next}
    BY <2>1, StopsAtFatal
  <2> QED BY <2>1, <2>2 DEF AskedHelp, Current
<1>2. CASE Version
  <2>1. phase = "parsed" /\ Is("version")
    BY <1>2 DEF Version, Is
  <2> QED BY <2>1, UsageErrorMeans
<1>3. CASE Introspect
  <2>1. phase = "loaded" /\ opts.inspect # "none"
    BY <1>3 DEF Introspect
  <2>2. opts = Resolved
    BY <2>1 DEF IInv, OptionsKept, Resolving
  <2>3. Is("validate-config") \/ Is("print-effective-config")
    BY <2>1, <2>2 DEF Resolved
  <2> QED BY <2>1, <2>3, UsageErrorMeans
<1>4. CASE RunReturns
  BY <1>4 DEF RunReturns
<1>5. CASE Resolve
  BY <1>5 DEF Resolve, ExitWith
<1>6. CASE ChooseConfig
  BY <1>6 DEF ChooseConfig, ExitWith
<1>7. CASE StatCandidate
  BY <1>7 DEF StatCandidate, ExitWith
<1>8. CASE LoadConfig \/ NewRunner
  BY <1>8 DEF LoadConfig, NewRunner, ExitWith
<1>9. CASE ParseFlag \/ ParseEnds \/ \E d \in Disks : Edit(d)
  BY <1>9 DEF ParseFlag, ParseEnds, Edit
<1> QED BY <1>1, <1>2, <1>3, <1>4, <1>5, <1>6, <1>7, <1>8, <1>9 DEF Next

\* The process succeeds without a run only if it was asked to explain itself.
THEOREM SuccessIsEarned == Spec => QuietSuccessIsAskedFor
<1>1. IInv /\ [Next]_vars =>
        [phase' = "exit" /\ code' = 0 =>
           phase = "running" \/ AskedHelp \/ AskedVersion \/ AskedInspection]_vars
  BY QuietExit
<1> QED BY <1>1, Invariance, PTL DEF Spec, QuietSuccessIsAskedFor
=============================================================================
