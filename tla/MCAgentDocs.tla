------------------------------ MODULE MCAgentDocs ------------------------------
(* Two skill files; a slug that collides with another as a Gemini command.  *)
EXTENDS AgentDocs

MCContract == <<"docs", "agents", "contract.md">>
SkillFile(name) == <<"docs", "agents", "skills", name>>
MCSkillFiles == {SkillFile("a.md"), SkillFile("b.md")}

ContractDoc(body) == [kind |-> "contract", slug |-> "contract", summary |-> "none", body |-> body]
SkillDoc(slug, body) == [kind |-> "skill", slug |-> slug, summary |-> "does it", body |-> body]

MCStem == [s \in {"dns-update-gate"} |-> "gate"]
MCDocuments == {ContractDoc("v1"), SkillDoc("gate", "v1"), SkillDoc("gate", "v2"),
                SkillDoc("dns-update-gate", "v1")}

SkillTree(agent) ==
  << <<agent>>, <<agent, "settings.json">>, <<agent, "skills">>,
     <<agent, "skills", "dns-update-gate">>, <<agent, "skills", "dns-update-gate", "SKILL.md">>,
     <<agent, "skills", "gate">>, <<agent, "skills", "gate", "SKILL.md">>,
     <<agent, "skills", "note.md">> >>

MCOrder ==
  SkillTree(".agents") \o SkillTree(".claude")
    \o << <<".gemini">>, <<".gemini", "commands">>, <<".gemini", "commands", "dns-update">>,
          <<".gemini", "commands", "dns-update", "gate">>,
          <<"AGENTS.md">>, <<"CLAUDE.md">>, <<"GEMINI.md">>,
          <<"docs">>, <<"docs", "agents">>, MCContract, <<"docs", "agents", "skills">>,
          SkillFile("a.md"), SkillFile("b.md")>>

\* One place of each kind: a root document, above a managed root, a managed root,
\* a directory below one, an output, strays beside the outputs, a neighbour.
MCPlaces ==
  {<<"AGENTS.md">>, <<".agents">>, <<".agents", "skills">>, <<".agents", "skills", "gate">>,
   <<".claude", "skills", "note.md">>, <<".claude", "settings.json">>,
   <<".gemini", "commands", "dns-update">>, <<".gemini", "commands", "dns-update", "gate">>}

\* A repository with the given files, and the directories above them.
Repository(files) ==
  files @@ [q \in UNION {Ancestors(p) : p \in DOMAIN files} |-> Dir]

Sources == (MCContract :> File(ContractDoc("v1"))) @@ (SkillFile("a.md") :> File(SkillDoc("gate", "v1")))

\* Nothing rendered yet; the projections of a skill that has a new name now.
OldDocs == <<ContractDoc("v1"), SkillDoc("dns-update-gate", "v1")>>
Fresh    == Repository(Sources)
Outdated == Repository(Sources @@ [p \in DOMAIN Outputs(OldDocs) |-> File(Outputs(OldDocs)[p])])
MCTrees == {Fresh, Outdated}
=============================================================================
