------------------------------- MODULE MCStartup -------------------------------
(* Command lines of up to three arguments against a few environments, with  *)
(* files that change once.                                                  *)
EXTENDS Startup

Arg(f, v) == [flag |-> f, value |-> v]

MCTokens == {Arg("dry-run", "true"), Arg("dry-run", "false"), Arg("delete", "true"),
             Arg("delete", "a"), Arg("delete", "junk"), Arg("force-push", "true"),
             Arg("validate-config", "true"), Arg("print-effective-config", "true"),
             Arg("version", "true"), Arg("config", "given"), Arg("config", ""),
             Arg("timeout", "negative"), Arg("timeout", "some"), Arg("help", ""), Arg("word", "a")}

\* Just -delete, -dry-run and a positional argument.
DeleteTokens == {Arg("dry-run", "true"), Arg("delete", "true"), Arg("delete", "a"), Arg("word", "a")}

NoEnvironment == [config |-> "unset", dry |-> "unset", verbose |-> "unset", timeout |-> "unset"]
BareEnvironment == {NoEnvironment}
MCEnvironments ==
  {NoEnvironment, [NoEnvironment EXCEPT !.dry = "yes"], [NoEnvironment EXCEPT !.dry = "junk"],
   [NoEnvironment EXCEPT !.config = "given", !.timeout = "negative"],
   [NoEnvironment EXCEPT !.config = "", !.dry = "no"]}

Files(c, s, g, t) ==
  [config |-> [p \in ConfigPaths |-> CASE p = "cwd" -> c [] p = "system" -> s [] OTHER -> g],
   token |-> t]

MCDisks == {Files("good", "good", "good", "good"), Files("absent", "good", "absent", "garbled"),
            Files("denied", "good", "invalid", "good"), Files("absent", "absent", "good", "unsafe")}
OneDisk == {Files("good", "good", "good", "good")}
=============================================================================
