------------------------------- MODULE AgentDocs -------------------------------
(***************************************************************************)
(* internal/agentdocs and cmd/agentdocgen: the projections of the documents *)
(* under docs/agents into the files that the coding agents read.  Write    *)
(* removes and writes files one at a time and may be cut off between any   *)
(* two steps; Check judges what it finds; people edit the tree between the *)
(* runs, and the sources at any time.                                      *)
(*                                                                         *)
(* The repository is a function from the paths that exist to nodes.  What  *)
(* is in a file is the data it was rendered from, not its text.            *)
(***************************************************************************)
EXTENDS Naturals, SequencesExt

CONSTANTS
  Documents,    \* well-formed source documents
  Stem,         \* slugs that begin with "dns-update-", with what follows it
  Contract,     \* docs/agents/contract.md
  SkillFiles,   \* paths that match docs/agents/skills/*.md
  Order,        \* the paths of the instance in the order of their text
  Places,       \* paths that somebody edits by hand
  InitTrees,    \* repositories to start from
  MaxEvents     \* bound on the edits and interruptions of a behaviour

SourceFiles == {Contract} \cup SkillFiles
Paths == ToSet(Order)

\* What comes first in a sorted list of paths.  The contract precedes the skills.
First(paths) ==
  Order[CHOOSE i \in DOMAIN Order :
          Order[i] \in paths /\ \A j \in DOMAIN Order : Order[j] \in paths => i <= j]

Dir == [kind |-> "dir"]
File(content) == [kind |-> "file", content |-> content]
Link(target) == [kind |-> "link", target |-> target]

\* A file that is not a well-formed document, nor the text of any projection.
Junk == [junk |-> TRUE]
Empty == [empty |-> TRUE]

VARIABLES
  tree,     \* the repository
  pc,       \* where the program is
  mode,     \* "write" or "check"
  loaded,   \* the documents that Load has read
  todo,     \* the paths that are left to read, to remove or to write, in order
  exit,     \* how the last run ended
  events    \* edits and interruptions so far

vars == <<tree, pc, mode, loaded, todo, exit, events>>

WithNode(t, p, node) == [q \in DOMAIN t \cup {p} |-> IF q = p THEN node ELSE t[q]]
WithDirs(t, paths)   == [q \in DOMAIN t \cup paths |-> IF q \in DOMAIN t THEN t[q] ELSE Dir]

Ancestors(p) == {SubSeq(p, 1, n) : n \in 1 .. Len(p) - 1}
Exists(p) == p \in DOMAIN tree
IsKind(p, kind) == Exists(p) /\ tree[p].kind = kind

\* A file system: what is not a directory has nothing below it.
IsNode(n) == n = Dir \/ (n.kind = "file" /\ n = File(n.content)) \/ (n.kind = "link" /\ n = Link(n.target))
WellFormed(t) ==
  /\ DOMAIN t \subseteq Paths
  /\ \A p \in DOMAIN t : IsNode(t[p]) /\ \A q \in Ancestors(p) : q \in DOMAIN t /\ t[q] = Dir

TypeOK ==
  /\ WellFormed(tree)
  /\ pc \in {"idle", "load", "remove", "write", "open", "fill"}
  /\ mode \in {"write", "check"}
  /\ loaded \in Seq(Documents)
  /\ todo \subseteq Paths
  /\ exit \in {"none", "ok", "error", "cut"}
  /\ events \in 0 .. MaxEvents

-----------------------------------------------------------------------------
(* Plan: what the documents are rendered to. *)

RootDocs == {<<"AGENTS.md">>, <<"CLAUDE.md">>, <<"GEMINI.md">>}

geminiCommandLeaf(slug) == IF slug \in DOMAIN Stem THEN Stem[slug] ELSE slug

\* How a root document names a skill: the agents' prefixes differ with its path.
Invocation(slug, target) == IF target = <<"GEMINI.md">> THEN geminiCommandLeaf(slug) ELSE slug

RootMarkdown(contract, skills, target) ==
  [target |-> target, body |-> contract.body,
   helpers |-> [i \in DOMAIN skills |-> <<Invocation(skills[i].slug, target), skills[i].summary>>]]

SkillMarkdown(s) == [name |-> s.slug, description |-> s.summary, body |-> s.body]
SkillTOML(s)     == [description |-> s.summary, prompt |-> s.body]

MarkdownPaths(s) == {<<".agents", "skills", s.slug, "SKILL.md">>, <<".claude", "skills", s.slug, "SKILL.md">>}
CommandPath(s)   == <<".gemini", "commands", "dns-update", geminiCommandLeaf(s.slug)>>
SkillPaths(s)    == MarkdownPaths(s) \cup {CommandPath(s)}

OfKind(docs, kind) == SelectSeq(docs, LAMBDA d : d.kind = kind)
Skills(docs) == {d \in ToSet(docs) : d.kind = "skill"}

\* splitSources wants one contract; Plan wants every path once.
Plannable(docs) ==
  /\ Len(OfKind(docs, "contract")) = 1
  /\ \A i, j \in DOMAIN docs :
       i # j /\ docs[i].kind = "skill" /\ docs[j].kind = "skill"
         => SkillPaths(docs[i]) \cap SkillPaths(docs[j]) = {}

\* The outputs, as a function from paths to contents.
Outputs(docs) ==
  LET contract == Head(OfKind(docs, "contract"))
      Skill(p) == CHOOSE s \in Skills(docs) : p \in SkillPaths(s)
  IN [p \in RootDocs \cup (UNION {SkillPaths(s) : s \in Skills(docs)}) |->
        IF p \in RootDocs THEN RootMarkdown(contract, OfKind(docs, "skill"), p)
        ELSE IF p \in MarkdownPaths(Skill(p)) THEN SkillMarkdown(Skill(p)) ELSE SkillTOML(Skill(p))]

\* Every path that is spoken of has its place in the order, with those above it.
ASSUME AgentDocsAssumption ==
  /\ Order \in Seq(Seq(STRING) \ {<<>>})
  /\ \A p \in Paths : Ancestors(p) \subseteq Paths
  /\ RootDocs \subseteq Paths /\ Places \subseteq Paths
  /\ \A d \in Documents : d.kind = "skill" => SkillPaths(d) \subseteq Paths
  /\ \A p \in SourceFiles : p \in Paths /\ IsStrictPrefix(<<"docs", "agents">>, p)
  /\ \A t \in InitTrees : WellFormed(t)
  /\ MaxEvents \in Nat

-----------------------------------------------------------------------------
(* What the program sees of the tree. *)

ManagedDirs == {<<".agents", "skills">>, <<".claude", "skills">>, <<".gemini", "commands">>}

\* What is on path p and no directory: at most one node.
Ends(p) == {q \in Ancestors(p) \cup {p} : Exists(q) /\ tree[q] # Dir}

\* firstManagedSymlink finds a symlink; lstat fails below a file.
FirstSymlink(p) == {q \in Ends(p) : tree[q].kind = "link"}
BelowFile(p) == \E q \in Ends(p) : q # p /\ tree[q].kind = "file"

\* managedPaths fails where a managed root cannot be a directory.
Unlistable == \E d \in ManagedDirs : \E q \in Ends(d) : tree[q].kind = "file"

\* A slip: a link in place of a managed root is not listed.
ManagedPathsInDirs ==
  {p \in RootDocs : Exists(p) /\ tree[p] # Dir}
    \cup {p \in DOMAIN tree : tree[p] # Dir /\ \E d \in ManagedDirs : IsStrictPrefix(d, p)}

\* managedPaths: root documents, links in place of a managed root or above
\* one, and whatever else is below one; never a directory.
ManagedPaths ==
  {p \in RootDocs : Exists(p) /\ tree[p] # Dir}
    \cup (UNION {FirstSymlink(d) : d \in ManagedDirs})
    \cup {p \in DOMAIN tree : tree[p] # Dir /\ \E d \in ManagedDirs : IsStrictPrefix(d, p)}

Stale(outs) == ManagedPaths \ DOMAIN outs

-----------------------------------------------------------------------------
(* A run of agentdocgen. *)

Returns(result) ==
  /\ pc' = "idle"
  /\ exit' = result
  /\ todo' = {}
  /\ UNCHANGED <<mode, loaded, events>>

\* main, and the globbing of Load.
Begin(m) ==
  /\ pc = "idle"
  /\ pc' = "load"
  /\ mode' = m
  /\ loaded' = <<>>
  /\ todo' = {Contract} \cup {p \in SkillFiles : Exists(p)}
  /\ exit' = "none"
  /\ UNCHANGED <<tree, events>>

\* A slip: what the document says is not validated.
ReadSourceUnparsed ==
  /\ pc = "load"
  /\ todo # {}
  /\ IF IsKind(First(todo), "file")
     THEN /\ loaded' = Append(loaded, tree[First(todo)].content)
          /\ todo' = todo \ {First(todo)}
          /\ UNCHANGED <<pc, mode, exit, events>>
     ELSE Returns("error")
  /\ UNCHANGED tree

\* One source: it must be there, regular and well-formed.
ReadSource ==
  /\ pc = "load"
  /\ todo # {}
  /\ IF IsKind(First(todo), "file") /\ tree[First(todo)].content \in Documents
     THEN /\ loaded' = Append(loaded, tree[First(todo)].content)
          /\ todo' = todo \ {First(todo)}
          /\ UNCHANGED <<pc, mode, exit, events>>
     ELSE Returns("error")
  /\ UNCHANGED tree

AllRead == pc = "load" /\ todo = {}

\* A slip: a symlink in place of an output is read through.
MatchesFollowing(outs) ==
  \A p \in DOMAIN outs : IsKind(p, "link") \/ (IsKind(p, "file") /\ tree[p].content = outs[p])

\* readManagedOutput finds the output where it belongs.
Matches(outs) == \A p \in DOMAIN outs : IsKind(p, "file") /\ tree[p].content = outs[p]

\* Check.  Whatever it cannot plan, list or read makes it fail as well.
Judge ==
  /\ AllRead
  /\ mode = "check"
  /\ IF Plannable(loaded) /\ ~ Unlistable /\ Stale(Outputs(loaded)) = {} /\ Matches(Outputs(loaded))
     THEN Returns("ok")
     ELSE Returns("error")
  /\ UNCHANGED tree

\* Write, up to its first removal.
StartWriting ==
  /\ AllRead
  /\ mode = "write"
  /\ IF Plannable(loaded) /\ ~ Unlistable
     THEN /\ pc' = "remove"
          /\ todo' = Stale(Outputs(loaded))
          /\ UNCHANGED <<mode, loaded, exit, events>>
     ELSE Returns("error")
  /\ UNCHANGED tree

RemoveStale ==
  /\ pc = "remove"
  /\ IF todo # {}
     THEN /\ tree' = [p \in DOMAIN tree \ {First(todo)} |-> tree[p]]
          /\ todo' = todo \ {First(todo)}
          /\ UNCHANGED pc
     ELSE /\ pc' = "write"
          /\ todo' = DOMAIN Outputs(loaded)
          /\ UNCHANGED tree
  /\ UNCHANGED <<mode, loaded, exit, events>>

\* A slip: the path is not examined.
PrepareUnguarded ==
  /\ pc = "write"
  /\ todo # {}
  /\ IF BelowFile(First(todo))
     THEN Returns("error") /\ UNCHANGED tree
     ELSE /\ tree' = WithDirs(tree, Ancestors(First(todo)))
          /\ pc' = "open"
          /\ UNCHANGED <<mode, loaded, todo, exit, events>>

\* ensureSafeWritePath and makeDirs.
Prepare ==
  /\ pc = "write"
  /\ todo # {}
  /\ IF BelowFile(First(todo)) \/ FirstSymlink(First(todo)) # {}
     THEN Returns("error") /\ UNCHANGED tree
     ELSE /\ tree' = WithDirs(tree, Ancestors(First(todo)))
          /\ pc' = "open"
          /\ UNCHANGED <<mode, loaded, todo, exit, events>>

\* The file that opening path p reaches: the operating system follows a link.
Reached(p) == IF IsKind(p, "link") THEN tree[p].target ELSE p
Put(p, content) == WithNode(tree, Reached(p), File(content))

\* os.WriteFile truncates the file (or creates it, or fails on a directory) ...
Open ==
  /\ pc = "open"
  /\ IF IsKind(First(todo), "dir")
     THEN Returns("error") /\ UNCHANGED tree
     ELSE /\ tree' = Put(First(todo), Empty)
          /\ pc' = "fill"
          /\ UNCHANGED <<mode, loaded, todo, exit, events>>

\* ... and writes the content.
Fill ==
  /\ pc = "fill"
  /\ tree' = Put(First(todo), Outputs(loaded)[First(todo)])
  /\ todo' = todo \ {First(todo)}
  /\ pc' = "write"
  /\ UNCHANGED <<mode, loaded, exit, events>>

Written ==
  /\ pc = "write"
  /\ todo = {}
  /\ Returns("ok")
  /\ UNCHANGED tree

-----------------------------------------------------------------------------
(* The environment. *)

Event == events < MaxEvents /\ events' = events + 1

\* A call fails (a full disk, a read-only directory), or the process is killed.
Interrupted ==
  /\ pc # "idle"
  /\ Event
  /\ pc' = "idle"
  /\ exit' = "cut"
  /\ todo' = {}
  /\ UNCHANGED <<tree, mode, loaded>>

Without(p) == [q \in {r \in DOMAIN tree : ~ IsPrefix(p, r)} |-> tree[q]]

\* Somebody removes what is at path p, or puts something else there.
Edit(p) ==
  /\ pc = "idle" \/ p \in SourceFiles
  /\ \A q \in Ancestors(p) : Exists(q) => tree[q] = Dir
  /\ Event
  /\ \/ Exists(p) /\ tree' = Without(p)
     \/ \E node \in {Dir, File(Junk), Link(Contract)}
                      \cup (IF p \in SourceFiles THEN {File(d) : d \in Documents} ELSE {}) :
          tree' = WithNode(WithDirs(Without(p), Ancestors(p)), p, node)
  /\ tree' # tree
  /\ UNCHANGED <<pc, mode, loaded, todo, exit>>

-----------------------------------------------------------------------------
Init ==
  /\ tree \in InitTrees
  /\ pc = "idle"
  /\ mode = "write"
  /\ loaded = <<>>
  /\ todo = {}
  /\ exit = "none"
  /\ events = 0

Runs ==
  \/ ReadSource \/ Judge \/ StartWriting \/ RemoveStale \/ Prepare \/ Open \/ Fill \/ Written

Next ==
  \/ \E m \in {"write", "check"} : Begin(m)
  \/ Runs
  \/ Interrupted
  \/ \E p \in Places \cup SourceFiles : Edit(p)

Spec == Init /\ [][Next]_vars

-----------------------------------------------------------------------------
(* Properties. *)

\* The part of the repository that belongs to the generator.
Owned(p) ==
  \/ p \in RootDocs
  \/ \E d \in ManagedDirs : IsPrefix(d, p) \/ IsPrefix(p, d)

\* A repository holds the projections of docs, each in a file of its own, and
\* nothing else of the generator's but directories.
Projects(t, docs) ==
  /\ Plannable(docs)
  /\ {p \in DOMAIN t : Owned(p) /\ t[p] # Dir} = DOMAIN Outputs(docs)
  /\ \A p \in DOMAIN Outputs(docs) : t[p] = File(Outputs(docs)[p])

Returned == pc # "idle" /\ pc' = "idle" /\ exit' # "cut"

\* The exit status tells the truth, whatever interrupted runs and hand edits
\* have left behind: -check succeeds exactly on a repository that holds the
\* projections of its sources, and a run that writes succeeds only if it has
\* made it one (generate.go, Write and Check; CI relies on the former).
ExitStatusMeans ==
  [][Returned =>
       IF mode = "check"
       THEN exit' = "ok" <=> (AllRead /\ Projects(tree, loaded))
       ELSE exit' = "ok" => Projects(tree, loaded)]_vars

\* What the generator leaves to people: sources that cannot be read or rendered,
\* a file where a managed root should be, anything but a file in place of an output.
Obstructed ==
  \/ pc = "load" /\ todo # {}
  \/ ~ Plannable(loaded)
  \/ \E d \in ManagedDirs : \E q \in Ancestors(d) \cup {d} : IsKind(q, "file")
  \/ \E p \in DOMAIN Outputs(loaded) : IsKind(p, "link") \/ IsKind(p, "dir")

\* An uninterrupted run that writes repairs everything else: it fails only on
\* such an obstacle, however mixed the files were that it found.
WriteRepairs ==
  [][Returned /\ mode = "write" /\ exit' = "error" => Obstructed]_vars

\* The generator never changes a file that is not its own, not even through a
\* symlink in place of one: neither the sources nor their neighbours.
OthersUntouched ==
  [][events' = events =>
       \A p \in DOMAIN tree : ~ Owned(p) => p \in DOMAIN tree' /\ tree'[p] = tree[p]]_vars
=============================================================================
