--------------------------- MODULE AgentDocsProofs ---------------------------
(***************************************************************************)
(* AgentDocs for every set of documents, every tree and any number of      *)
(* edits and interruptions: what the exit status says about the tree, what *)
(* a run repairs, and that it stays among the paths of the generator.      *)
(***************************************************************************)
EXTENDS AgentDocs, SequenceTheorems, WellFoundedInduction, TLAPS

\* The provers do not know that a literal is a string.
Name == STRING \cup {"docs", "agents", ".agents", ".claude", ".gemini", "skills", "commands"}
Path == Seq(Name) \ {<<>>}

Working == {"remove", "write", "open", "fill"}

\* What is there of the generator's.
Occupied == {p \in DOMAIN tree : Owned(p) /\ tree[p] # Dir}

\* Only a run that writes and knows its outputs gets as far as the tree.
MayWrite == pc \in Working => mode = "write" /\ Plannable(loaded)

\* What is left to remove is there, and is all that should not be.
StaleIsListed ==
  pc = "remove" => todo \subseteq Occupied /\ Occupied \subseteq DOMAIN Outputs(loaded) \cup todo

\* What is left to write is all that is not as it should be.
RestIsWritten ==
  pc \in Working \ {"remove"} =>
    /\ todo \subseteq DOMAIN Outputs(loaded)
    /\ Occupied \subseteq DOMAIN Outputs(loaded)
    /\ \A p \in DOMAIN Outputs(loaded) \ todo : Exists(p) /\ tree[p] = File(Outputs(loaded)[p])

\* The output that is being written is where it seems to be.
WayIsClear ==
  pc \in {"open", "fill"} =>
    /\ todo # {}
    /\ \A q \in Ancestors(First(todo)) : Exists(q) /\ tree[q] = Dir
    /\ ~ IsKind(First(todo), "link")
    /\ pc = "fill" => IsKind(First(todo), "file")

IInv == TypeOK /\ MayWrite /\ StaleIsListed /\ RestIsWritten /\ WayIsClear

-----------------------------------------------------------------------------
(* Paths. *)

LEMMA PathsArePaths == Paths \subseteq Path
<1>1. \A i \in DOMAIN Order : Order[i] \in Seq(STRING) \ {<<>>}
  BY AgentDocsAssumption
<1>2. Seq(STRING) \subseteq Seq(Name)
  BY DEF Name
<1>3. \A i \in DOMAIN Order : Order[i] \in Path
  BY <1>1, <1>2 DEF Path
<1> QED BY <1>3 DEF Paths, ToSet

\* A path above or at another agrees with it component by component.
LEMMA PrefixIs ==
  ASSUME NEW q \in Seq(Name), NEW p \in Seq(Name)
  PROVE  IsPrefix(q, p) <=> Len(q) <= Len(p) /\ \A i \in 1 .. Len(q) : q[i] = p[i]
<1> DEFINE m == Len(q)
<1>1. m \in Nat /\ Len(p) \in Nat /\ \A i \in 1 .. m : q[i] \in Name
  OBVIOUS
<1>2. SubSeq(q, 1, m) = q
  BY SubSeqFull
<1>3. ASSUME m <= Len(p)
      PROVE  q = SubSeq(p, 1, m) <=> \A i \in 1 .. m : q[i] = p[i]
  <2>1. \A i \in 1 .. m : p[i] \in Name
    BY <1>1, <1>3
  <2> DEFINE s == SubSeq(p, 1, m)
  <2>2. s \in Seq(Name) /\ Len(s) = m /\ \A i \in 1 .. m : s[i] = p[i]
    BY <1>1, <2>1, SubSeqProperties
  <2> HIDE DEF s
  <2>3. (\A i \in 1 .. m : q[i] = p[i]) => q = s
    BY <1>1, <2>2, SeqEqual
  <2> QED BY <2>2, <2>3 DEF s
<1> QED BY <1>1, <1>2, <1>3 DEF IsPrefix

LEMMA PathIs ==
  ASSUME NEW p \in Path
  PROVE  p \in Seq(Name) /\ Len(p) \in Nat \ {0}
BY EmptySeq DEF Path

LEMMA BeginsAlike ==
  ASSUME NEW q \in Path, NEW p \in Path, IsPrefix(q, p)
  PROVE  /\ Len(q) <= Len(p) /\ \A i \in 1 .. Len(q) : q[i] = p[i]
         /\ q[1] = p[1]
<1>1. /\ q \in Seq(Name) /\ Len(q) \in Nat \ {0}
      /\ p \in Seq(Name) /\ Len(p) \in Nat \ {0}
  BY PathIs
<1>2. Len(q) <= Len(p) /\ \A i \in 1 .. Len(q) : q[i] = p[i]
  BY <1>1, PrefixIs
<1> QED BY <1>1, <1>2

LEMMA AncestorIs ==
  ASSUME NEW p \in Path
  PROVE  /\ Ancestors(p) \subseteq Path
         /\ \A q \in Path : q \in Ancestors(p) <=> Len(q) < Len(p) /\ IsPrefix(q, p)
<1>1. p \in Seq(Name) /\ Len(p) \in Nat
  BY DEF Path
<1>2. ASSUME NEW n \in 1 .. Len(p) - 1
      PROVE  /\ SubSeq(p, 1, n) \in Seq(Name) /\ Len(SubSeq(p, 1, n)) = n
             /\ \A i \in 1 .. n : SubSeq(p, 1, n)[i] = p[i]
  <2>1. \A i \in 1 .. n : p[i] \in Name
    BY <1>1
  <2> QED BY <1>1, <2>1, SubSeqProperties
<1>3. ASSUME NEW q \in Ancestors(p)
      PROVE  q \in Path /\ Len(q) < Len(p) /\ IsPrefix(q, p)
  <2>1. PICK n \in 1 .. Len(p) - 1 : q = SubSeq(p, 1, n)
    BY DEF Ancestors
  <2>2. q \in Seq(Name) /\ Len(q) = n /\ \A i \in 1 .. n : q[i] = p[i]
    BY <1>2, <2>1
  <2>3. q # <<>> /\ Len(q) < Len(p)
    BY <1>1, <2>2
  <2> QED BY <1>1, <2>2, <2>3, PrefixIs DEF Path
<1>4. ASSUME NEW q \in Path, Len(q) < Len(p), IsPrefix(q, p)
      PROVE  q \in Ancestors(p)
  <2>1. q \in Seq(Name) /\ Len(q) \in 1 .. Len(p) - 1
    BY <1>1, <1>4, EmptySeq DEF Path
  <2>2. q = SubSeq(p, 1, Len(q))
    BY <2>1, <1>4, SubSeqFull DEF IsPrefix
  <2> QED BY <2>1, <2>2 DEF Ancestors
<1> QED BY <1>3, <1>4

\* What is below something below a path is below that path.
LEMMA PrefixIsTransitive ==
  ASSUME NEW p \in Path, NEW q \in Path, NEW r \in Path, IsPrefix(p, q), IsPrefix(q, r)
  PROVE  IsPrefix(p, r)
<1>1. p \in Seq(Name) /\ q \in Seq(Name) /\ r \in Seq(Name)
  BY DEF Path
<1>2. Len(p) <= Len(q) /\ \A i \in 1 .. Len(p) : p[i] = q[i]
  BY <1>1, PrefixIs
<1>3. Len(q) <= Len(r) /\ \A i \in 1 .. Len(q) : q[i] = r[i]
  BY <1>1, PrefixIs
<1>4. Len(p) <= Len(r) /\ \A i \in 1 .. Len(p) : p[i] = r[i]
  BY <1>1, <1>2, <1>3
<1> QED BY <1>1, <1>4, PrefixIs

-----------------------------------------------------------------------------
(* What belongs to the generator, and where its outputs are. *)

LEMMA ManagedPathsOf ==
  /\ \A d \in ManagedDirs : d \in Path /\ Len(d) = 2 /\ d[1] # "docs" /\ d \notin RootDocs
  /\ \A p \in RootDocs : p \in Path /\ Len(p) = 1 /\ p[1] # "docs"
  /\ \A d \in ManagedDirs : \A p \in RootDocs : p[1] # d[1]
<1>1. ASSUME NEW a \in Name, NEW b \in Name
      PROVE  <<a, b>> \in Path /\ Len(<<a, b>>) = 2 /\ <<a, b>>[1] = a
  <2>1. <<a, b>> \in Seq(Name) /\ Len(<<a, b>>) = 2 /\ <<a, b>>[1] = a
    OBVIOUS
  <2> QED BY <2>1, EmptySeq DEF Path
<1>2. \A d \in ManagedDirs : \E a, b \in Name : d = <<a, b>> /\ a \in {".agents", ".claude", ".gemini"}
  BY DEF ManagedDirs, Name
<1>3. \A p \in RootDocs : Len(p) = 1 /\ p[1] \in {"AGENTS.md", "CLAUDE.md", "GEMINI.md"}
  BY DEF RootDocs
<1>4. \A p \in RootDocs : p \in Path
  BY AgentDocsAssumption, PathsArePaths
<1>5. \A d \in ManagedDirs : d \in Path /\ Len(d) = 2 /\ d[1] \in {".agents", ".claude", ".gemini"}
  BY <1>1, <1>2
<1> QED BY <1>3, <1>4, <1>5

LEMMA DocsIsNotOwned ==
  ASSUME NEW p \in Path, p[1] = "docs"
  PROVE  ~ Owned(p)
<1>2. ASSUME NEW d \in ManagedDirs
      PROVE  ~ IsPrefix(d, p) /\ ~ IsPrefix(p, d)
  BY ManagedPathsOf, BeginsAlike
<1>3. p \notin RootDocs
  BY ManagedPathsOf
<1> QED BY <1>2, <1>3 DEF Owned

\* The sources lie elsewhere, with everything above and below them.
LEMMA SourcesAreApart ==
  ASSUME NEW p \in SourceFiles
  PROVE  /\ p \in Path
         /\ ~ Owned(p)
         /\ \A q \in Ancestors(p) : ~ Owned(q)
         /\ \A q \in Path : IsPrefix(p, q) => ~ Owned(q)
<1> DEFINE d == <<"docs", "agents">>
<1>1. p \in Path /\ IsPrefix(d, p)
  BY AgentDocsAssumption, PathsArePaths DEF IsStrictPrefix
<1>2. p[1] = "docs"
  <2>1. "docs" \in Name /\ "agents" \in Name
    BY DEF Name
  <2>2. d \in Seq(Name) /\ Len(d) = 2 /\ d[1] = "docs"
    BY <2>1
  <2> HIDE DEF d
  <2>3. d \in Path
    BY <2>2, EmptySeq DEF Path
  <2> QED BY <1>1, <2>2, <2>3, BeginsAlike
<1>3. ASSUME NEW q \in Path, IsPrefix(p, q) \/ q \in Ancestors(p)
      PROVE  q[1] = "docs"
  BY <1>1, <1>2, <1>3, AncestorIs, BeginsAlike
<1>4. Ancestors(p) \subseteq Path
  BY <1>1, AncestorIs
<1> QED BY <1>1, <1>2, <1>3, <1>4, DocsIsNotOwned

\* An output is a root document or a file at the fourth level below a managed directory.
LEMMA OutputIs ==
  ASSUME NEW docs \in Seq(Documents), NEW p \in DOMAIN Outputs(docs)
  PROVE  /\ p \in Paths /\ p \in Path
         /\ \/ p \in RootDocs
            \/ Len(p) = 4 /\ \E d \in ManagedDirs : IsPrefix(d, p)
         /\ Owned(p)
<1>1. \/ p \in RootDocs
      \/ \E s \in Skills(docs) : p \in SkillPaths(s)
  BY DEF Outputs
<1>2. CASE p \in RootDocs
  BY <1>2, AgentDocsAssumption, PathsArePaths DEF Owned
<1>3. ASSUME NEW s \in Skills(docs), p \in SkillPaths(s)
      PROVE  p \in Paths /\ Len(p) = 4 /\ \E d \in ManagedDirs : IsPrefix(d, p)
  <2>1. s \in Documents /\ s.kind = "skill"
    BY DEF Skills, ToSet
  <2>2. p \in Paths
    BY <1>3, <2>1, AgentDocsAssumption
  <2>3. p \in Seq(Name)
    BY <2>2, PathsArePaths DEF Path
  <2>4. Len(p) = 4 /\ \E d \in ManagedDirs : p[1] = d[1] /\ p[2] = d[2]
    BY <1>3 DEF SkillPaths, MarkdownPaths, CommandPath, ManagedDirs
  <2>5. PICK d \in ManagedDirs : p[1] = d[1] /\ p[2] = d[2]
    BY <2>4
  <2>6. d \in Seq(Name) /\ Len(d) = 2
    BY ManagedPathsOf DEF Path
  <2>7. \A i \in 1 .. Len(d) : d[i] = p[i]
    BY <2>5, <2>6
  <2>8. Len(d) <= Len(p)
    BY <2>4, <2>6
  <2>9. IsPrefix(d, p)
    BY <2>3, <2>6, <2>7, <2>8, PrefixIs, Zenon
  <2> QED BY <2>2, <2>4, <2>9
<1> QED BY <1>1, <1>2, <1>3, PathsArePaths DEF Owned

\* Above an output there are paths of the generator and no other outputs.
LEMMA AboveOutputs ==
  ASSUME NEW docs \in Seq(Documents), NEW p \in DOMAIN Outputs(docs), NEW q \in Ancestors(p)
  PROVE  Owned(q) /\ q \notin DOMAIN Outputs(docs)
<1>1. p \in Path /\ p \in Seq(Name) /\ Len(p) \in Nat \ {0}
  BY OutputIs, PathIs
<1>2. /\ q \in Path /\ Len(q) < Len(p) /\ IsPrefix(q, p)
      /\ q \in Seq(Name) /\ Len(q) \in Nat \ {0}
  BY <1>1, AncestorIs, PathIs
<1>3. q[1] = p[1] /\ \A i \in 1 .. Len(q) : q[i] = p[i]
  BY <1>1, <1>2, BeginsAlike
<1> DEFINE m == Len(q)
           n == Len(p)
<1>4. m \in Nat /\ n \in Nat /\ m # 0 /\ m < n
  BY <1>1, <1>2
<1>5. n # 1 /\ (n = 4 => m # 4) /\ (m = 1 \/ m >= 2)
  <2> HIDE DEF m, n
  <2> QED BY <1>4
<1>6. p \notin RootDocs
  BY <1>5, ManagedPathsOf
<1>7. Len(p) = 4
  BY <1>6, OutputIs
<1>8. PICK d \in ManagedDirs : IsPrefix(d, p)
  BY <1>6, OutputIs
<1>9. d \in Seq(Name) /\ Len(d) = 2 /\ \A i \in 1 .. 2 : d[i] = p[i]
  BY <1>1, <1>8, ManagedPathsOf, PrefixIs DEF Path
<1>10. IsPrefix(d, q) \/ IsPrefix(q, d)
  <2>1. CASE Len(q) >= 2
    <3>1. Len(d) <= Len(q) /\ \A i \in 1 .. Len(d) : d[i] = q[i]
      BY <1>2, <1>3, <1>9, <2>1
    <3> QED BY <1>2, <1>9, <3>1, PrefixIs
  <2>2. CASE Len(q) = 1
    <3>1. Len(q) <= Len(d) /\ \A i \in 1 .. Len(q) : q[i] = d[i]
      BY <1>3, <1>9, <2>2
    <3> QED BY <1>2, <1>9, <3>1, PrefixIs
  <2> QED BY <1>5, <2>1, <2>2
<1>11. q[1] = d[1]
  BY <1>2, <1>3, <1>9
<1>12. q \notin RootDocs
  BY <1>11, ManagedPathsOf
<1>13. q \notin DOMAIN Outputs(docs)
  BY <1>7, <1>12, <1>5, OutputIs
<1> QED BY <1>10, <1>13 DEF Owned

-----------------------------------------------------------------------------
(* The order of the paths. *)

Less == {p \in Nat \X Nat : p[1] < p[2]}

LEMMA FirstIsOne ==
  ASSUME NEW paths \in SUBSET Paths, paths # {}
  PROVE  First(paths) \in paths
<1> DEFINE places == {i \in DOMAIN Order : Order[i] \in paths}
<1>1. places \in SUBSET Nat
  BY AgentDocsAssumption
<1>2. places # {}
  BY DEF Paths, ToSet
<1>3. IsWellFoundedOn(Less, Nat)
  BY NatLessThanWellFounded, Zenon DEF OpToRel, Less
<1> HIDE DEF places
<1>4. PICK i \in places : \A j \in places : ~ (<<j, i>> \in Less)
  BY <1>1, <1>2, <1>3, WFMin
<1>5. ASSUME NEW j \in places
      PROVE  i <= j
  <2>1. i \in Nat /\ j \in Nat
    BY <1>1
  <2>2. j < i => <<j, i>> \in Less
    BY <2>1 DEF Less
  <2> QED BY <1>4, <2>1, <2>2
<1> DEFINE n == CHOOSE k \in DOMAIN Order :
                  Order[k] \in paths /\ \A j \in DOMAIN Order : Order[j] \in paths => k <= j
<1>6. Order[n] \in paths
  BY <1>4, <1>5 DEF places
<1> QED BY <1>6 DEF First

-----------------------------------------------------------------------------
(* File systems. *)

LEMMA NodesAre ==
  /\ IsNode(Dir)
  /\ \A c : IsNode(File(c)) /\ File(c) # Dir /\ File(c).kind = "file" /\ File(c).content = c
  /\ \A p : IsNode(Link(p)) /\ Link(p) # Dir /\ Link(p).kind = "link"
  /\ \A n : IsNode(n) /\ n # Dir => n.kind \in {"file", "link"}
  /\ \A n : IsNode(n) /\ n.kind = "file" => n = File(n.content)
  /\ Dir.kind = "dir"
BY DEF IsNode, Dir, File, Link

LEMMA StrictlyAbove ==
  ASSUME NEW p \in Path, NEW q \in Path, IsPrefix(q, p), q # p
  PROVE  q \in Ancestors(p)
<1>1. q \in Seq(Name) /\ p \in Seq(Name) /\ Len(q) \in Nat /\ Len(p) \in Nat
  BY PathIs
<1>2. Len(q) <= Len(p) /\ \A i \in 1 .. Len(q) : q[i] = p[i]
  BY BeginsAlike
<1>3. Len(q) # Len(p)
  BY <1>1, <1>2, SeqEqual
<1>4. Len(q) < Len(p)
  BY <1>1, <1>2, <1>3
<1> QED BY <1>4, AncestorIs

LEMMA AncestorsAreStrict ==
  ASSUME NEW p \in Path, NEW q \in Ancestors(p)
  PROVE  q \in Path /\ q # p /\ IsPrefix(q, p) /\ ~ IsPrefix(p, q)
<1>1. q \in Path /\ Len(q) < Len(p) /\ IsPrefix(q, p)
  BY AncestorIs
<1>2. Len(p) \in Nat /\ Len(q) \in Nat
  BY <1>1, PathIs
<1>3. ~ (Len(p) <= Len(q))
  BY <1>1, <1>2
<1> QED BY <1>1, <1>3, BeginsAlike, <1>2

LEMMA AncestorsOfAncestors ==
  ASSUME NEW p \in Path, NEW q \in Ancestors(p), NEW r \in Ancestors(q)
  PROVE  r \in Ancestors(p)
<1>1. q \in Path /\ Len(q) < Len(p) /\ IsPrefix(q, p)
  BY AncestorIs
<1>2. r \in Path /\ Len(r) < Len(q) /\ IsPrefix(r, q)
  BY <1>1, AncestorIs
<1>3. Len(p) \in Nat /\ Len(q) \in Nat /\ Len(r) \in Nat
  BY <1>1, <1>2, PathIs
<1>4. IsPrefix(r, p)
  BY <1>1, <1>2, PrefixIsTransitive
<1> QED BY <1>1, <1>2, <1>3, <1>4, AncestorIs

LEMMA PrefixOfItself ==
  ASSUME NEW p \in Path
  PROVE  IsPrefix(p, p)
BY PathIs, PrefixIs

\* Above what is there, everything is there, and a directory.
LEMMA WellFormedParts ==
  ASSUME NEW t, WellFormed(t), NEW p \in DOMAIN t
  PROVE  p \in Paths /\ p \in Path /\ IsNode(t[p]) /\ \A q \in Ancestors(p) : q \in DOMAIN t /\ t[q] = Dir
BY PathsArePaths DEF WellFormed

LEMMA RemovalIsWellFormed ==
  ASSUME NEW t, WellFormed(t), NEW p, p \in DOMAIN t => t[p] # Dir
  PROVE  WellFormed([q \in DOMAIN t \ {p} |-> t[q]])
BY DEF WellFormed

LEMMA WithDirsIsWellFormed ==
  ASSUME NEW t, WellFormed(t), NEW p \in Paths,
         \A q \in Ancestors(p) : q \in DOMAIN t => t[q] = Dir
  PROVE  /\ WellFormed(WithDirs(t, Ancestors(p)))
         /\ \A q \in Ancestors(p) : q \in DOMAIN WithDirs(t, Ancestors(p)) /\ WithDirs(t, Ancestors(p))[q] = Dir
<1> DEFINE u == WithDirs(t, Ancestors(p))
<1>1. DOMAIN u = DOMAIN t \cup Ancestors(p)
  BY DEF WithDirs
<1>2. \A q \in DOMAIN t : u[q] = t[q]
  BY DEF WithDirs
<1>3. \A q \in Ancestors(p) : u[q] = Dir
  BY DEF WithDirs
<1>4. p \in Path
  BY PathsArePaths
<1> HIDE DEF u
<1>5. ASSUME NEW q \in DOMAIN u
      PROVE  q \in Paths /\ IsNode(u[q]) /\ \A r \in Ancestors(q) : r \in DOMAIN u /\ u[r] = Dir
  <2>1. CASE q \in DOMAIN t
    BY <1>1, <1>2, <2>1, WellFormedParts
  <2>2. CASE q \in Ancestors(p)
    BY <1>1, <1>3, <1>4, <2>2, AncestorsOfAncestors, AgentDocsAssumption, NodesAre
  <2> QED BY <1>1, <2>1, <2>2
<1>6. WellFormed(u)
  BY <1>5 DEF WellFormed
<1> QED BY <1>1, <1>3, <1>6 DEF u

LEMMA WithNodeIsWellFormed ==
  ASSUME NEW t, WellFormed(t), NEW p \in Paths, NEW n, IsNode(n),
         \A q \in Ancestors(p) : q \in DOMAIN t /\ t[q] = Dir,
         \A q \in DOMAIN t : p \notin Ancestors(q)
  PROVE  WellFormed(WithNode(t, p, n))
<1> DEFINE u == WithNode(t, p, n)
<1>1. DOMAIN u = DOMAIN t \cup {p} /\ u[p] = n /\ \A q \in DOMAIN t \ {p} : u[q] = t[q]
  BY DEF WithNode
<1>2. p \notin Ancestors(p)
  BY PathsArePaths, AncestorsAreStrict
<1> HIDE DEF u
<1>3. ASSUME NEW q \in DOMAIN u
      PROVE  q \in Paths /\ IsNode(u[q]) /\ \A r \in Ancestors(q) : r \in DOMAIN u /\ u[r] = Dir
  <2>1. CASE q = p
    BY <1>1, <1>2, <2>1
  <2>2. CASE q # p
    BY <1>1, <2>2, WellFormedParts
  <2> QED BY <2>1, <2>2
<1> QED BY <1>3 DEF WellFormed, u

LEMMA WithoutIsWellFormed ==
  ASSUME WellFormed(tree), NEW p \in Path
  PROVE  WellFormed(Without(p)) /\ \A q \in DOMAIN Without(p) : q # p /\ p \notin Ancestors(q)
<1> DEFINE u == Without(p)
<1>1. /\ \A q : q \in DOMAIN u <=> q \in DOMAIN tree /\ ~ IsPrefix(p, q)
      /\ \A q \in DOMAIN u : u[q] = tree[q]
  BY DEF Without
<1> HIDE DEF u
<1>2. ASSUME NEW q \in DOMAIN u
      PROVE  /\ q \in Paths /\ IsNode(u[q]) /\ q # p /\ p \notin Ancestors(q)
             /\ \A r \in Ancestors(q) : r \in DOMAIN u /\ u[r] = Dir
  <2>1. q \in DOMAIN tree /\ q \in Paths /\ q \in Path /\ IsNode(u[q]) /\ ~ IsPrefix(p, q)
    BY <1>1, WellFormedParts
  <2>2. q # p /\ p \notin Ancestors(q)
    BY <2>1, PrefixOfItself, AncestorsAreStrict
  <2>3. ASSUME NEW r \in Ancestors(q)
        PROVE  r \in DOMAIN u /\ u[r] = Dir
    <3>1. r \in DOMAIN tree /\ tree[r] = Dir
      BY <2>1, WellFormedParts
    <3>2. r \in Path /\ IsPrefix(r, q)
      BY <2>1, AncestorsAreStrict
    <3>3. ~ IsPrefix(p, r)
      BY <2>1, <3>2, PrefixIsTransitive
    <3> QED BY <1>1, <3>1, <3>3
  <2> QED BY <2>1, <2>2, <2>3
<1> QED BY <1>2 DEF WellFormed, u

-----------------------------------------------------------------------------
(* What the program sees. *)

\* With every managed root a directory, a link or absent, the program finds all
\* that there is of the generator's.
LEMMA ManagedIsOccupied ==
  ASSUME WellFormed(tree)
  PROVE  /\ ManagedPaths \subseteq Occupied
         /\ ~ Unlistable => ManagedPaths = Occupied
<1>1. ASSUME NEW d \in ManagedDirs, NEW q \in Ends(d)
      PROVE  q \in Occupied /\ (tree[q].kind = "file" \/ q \in FirstSymlink(d))
  <2>1. q \in DOMAIN tree /\ tree[q] # Dir /\ q \in Ancestors(d) \cup {d}
    BY <1>1 DEF Ends, Exists
  <2>2. IsPrefix(q, d)
    BY <2>1, ManagedPathsOf, AncestorsAreStrict, PrefixOfItself
  <2>3. tree[q].kind \in {"file", "link"}
    BY <2>1, WellFormedParts, NodesAre
  <2> QED BY <1>1, <2>1, <2>2, <2>3 DEF Occupied, Owned, FirstSymlink
<1>2. ASSUME NEW p \in ManagedPaths
      PROVE  p \in Occupied
  <2>1. CASE p \in RootDocs /\ Exists(p) /\ tree[p] # Dir
    BY <2>1 DEF Occupied, Owned, Exists
  <2>2. ASSUME NEW d \in ManagedDirs, p \in FirstSymlink(d)
        PROVE  p \in Occupied
    BY <1>1, <2>2 DEF FirstSymlink
  <2>3. ASSUME NEW d \in ManagedDirs, p \in DOMAIN tree, tree[p] # Dir, IsStrictPrefix(d, p)
        PROVE  p \in Occupied
    BY <2>3 DEF Occupied, Owned, IsStrictPrefix
  <2> QED BY <2>1, <2>2, <2>3 DEF ManagedPaths
<1>3. ASSUME ~ Unlistable, NEW p \in Occupied
      PROVE  p \in ManagedPaths
  <2>1. p \in DOMAIN tree /\ tree[p] # Dir /\ Owned(p) /\ p \in Path
    BY WellFormedParts DEF Occupied
  <2>2. CASE p \in RootDocs
    BY <2>1, <2>2 DEF ManagedPaths, Exists
  <2>3. ASSUME NEW d \in ManagedDirs, IsPrefix(d, p), p # d
        PROVE  p \in ManagedPaths
    BY <2>1, <2>3 DEF ManagedPaths, IsStrictPrefix
  <2>4. ASSUME NEW d \in ManagedDirs, IsPrefix(p, d)
        PROVE  p \in ManagedPaths
    <3>1. p \in Ends(d)
      BY <2>1, <2>4, ManagedPathsOf, StrictlyAbove DEF Ends, Exists
    <3>2. p \in FirstSymlink(d)
      BY <1>1, <1>3, <3>1 DEF Unlistable
    <3> QED BY <3>2 DEF ManagedPaths
  <2>5. ASSUME NEW d \in ManagedDirs, p = d
        PROVE  p \in ManagedPaths
    BY <2>1, <2>4, <2>5, PrefixOfItself
  <2> QED BY <2>1, <2>2, <2>3, <2>4, <2>5 DEF Owned
<1> QED BY <1>2, <1>3

\* Where the tree holds the projections, the managed roots can be listed.
LEMMA OutputsAreListable ==
  ASSUME WellFormed(tree), NEW docs \in Seq(Documents), Occupied \subseteq DOMAIN Outputs(docs)
  PROVE  ~ Unlistable
<1> SUFFICES ASSUME NEW d \in ManagedDirs, NEW q \in Ends(d)
             PROVE  FALSE
  BY DEF Unlistable
<1>1. q \in DOMAIN tree /\ tree[q] # Dir /\ q \in Ancestors(d) \cup {d}
  BY DEF Ends, Exists
<1>2. d \in Path /\ Len(d) = 2
  BY ManagedPathsOf
<1>3. q \in Path /\ IsPrefix(q, d) /\ q[1] = d[1] /\ Len(q) <= Len(d)
  BY <1>1, <1>2, AncestorsAreStrict, PrefixOfItself, BeginsAlike
<1>4. q \in DOMAIN Outputs(docs)
  BY <1>1, <1>3 DEF Occupied, Owned
<1>5. q \notin RootDocs
  BY <1>3, ManagedPathsOf
<1>6. Len(q) = 4
  BY <1>4, <1>5, OutputIs
<1> QED BY <1>2, <1>3, <1>6

\* The verdict of Check is what the tree looks like.
LEMMA VerdictIsProjects ==
  ASSUME WellFormed(tree), NEW docs \in Seq(Documents)
  PROVE  (Plannable(docs) /\ ~ Unlistable /\ Stale(Outputs(docs)) = {} /\ Matches(Outputs(docs)))
           <=> Projects(tree, docs)
<1> DEFINE outs == Outputs(docs)
<1>1. \A p \in DOMAIN outs : Owned(p)
  BY OutputIs
<1>2. Projects(tree, docs) <=>
        /\ Plannable(docs) /\ Occupied = DOMAIN outs
        /\ \A p \in DOMAIN outs : tree[p] = File(outs[p])
  BY DEF Projects, Occupied
<1>3. Stale(outs) = {} <=> ManagedPaths \subseteq DOMAIN outs
  BY DEF Stale
<1>4. Matches(outs) <=> \A p \in DOMAIN outs : p \in DOMAIN tree /\ tree[p] = File(outs[p])
  <2>1. \A p \in DOMAIN tree : IsNode(tree[p])
    BY WellFormedParts
  <2> HIDE DEF outs
  <2> QED BY <2>1, NodesAre DEF Matches, IsKind, Exists
<1>5. Occupied \subseteq DOMAIN outs => ~ Unlistable
  BY OutputsAreListable
<1>6. Occupied \subseteq DOMAIN tree
  BY DEF Occupied
<1>7. Matches(outs) => DOMAIN outs \subseteq Occupied
  BY <1>1, <1>4, NodesAre DEF Occupied
<1> HIDE DEF outs
<1>8. ManagedPaths \subseteq Occupied /\ (~ Unlistable => ManagedPaths = Occupied)
  BY ManagedIsOccupied
<1> QED BY <1>2, <1>3, <1>4, <1>5, <1>6, <1>7, <1>8 DEF outs

\* Whoever edits a source leaves what belongs to the generator as it is.
LEMMA SourceEdit ==
  ASSUME WellFormed(tree), NEW p \in SourceFiles, Edit(p), NEW q, Owned(q), q \in Path
  PROVE  /\ q \in DOMAIN tree' <=> q \in DOMAIN tree
         /\ q \in DOMAIN tree => tree'[q] = tree[q]
<1>1. ~ IsPrefix(p, q) /\ q # p /\ q \notin Ancestors(p)
  BY SourcesAreApart
<1> DEFINE u == Without(p)
<1>2. (q \in DOMAIN u <=> q \in DOMAIN tree) /\ (q \in DOMAIN tree => u[q] = tree[q])
  BY <1>1 DEF Without
<1> HIDE DEF u
<1>3. CASE tree' = u
  BY <1>2, <1>3
<1>4. ASSUME NEW node, tree' = WithNode(WithDirs(u, Ancestors(p)), p, node)
      PROVE  /\ q \in DOMAIN tree' <=> q \in DOMAIN tree
             /\ q \in DOMAIN tree => tree'[q] = tree[q]
  BY <1>1, <1>2, <1>4 DEF WithNode, WithDirs
<1>5. tree' = u \/ \E node : tree' = WithNode(WithDirs(u, Ancestors(p)), p, node)
  BY DEF Edit, u
<1> QED BY <1>3, <1>4, <1>5

-----------------------------------------------------------------------------
(* The invariant. *)

LEMMA InitIInv == Init => IInv
<1> SUFFICES ASSUME Init PROVE IInv
  OBVIOUS
<1>1. WellFormed(tree) /\ 0 \in 0 .. MaxEvents /\ <<>> \in Seq(Documents)
  BY AgentDocsAssumption DEF Init
<1>2. TypeOK
  BY <1>1 DEF Init, TypeOK
<1> QED BY <1>2 DEF Init, IInv, MayWrite, StaleIsListed, RestIsWritten, WayIsClear, Working

\* A program that has ended owes nothing.
LEMMA IdleIInv ==
  ASSUME TypeOK', pc' = "idle"
  PROVE  IInv'
BY DEF IInv, MayWrite, StaleIsListed, RestIsWritten, WayIsClear, Working

LEMMA ReturnsIInv ==
  ASSUME IInv, NEW result \in {"ok", "error"}, Returns(result), UNCHANGED tree
  PROVE  IInv'
<1>1. TypeOK'
  BY DEF IInv, TypeOK, Returns
<1> QED BY <1>1, IdleIInv DEF Returns

LEMMA BeginIInv ==
  ASSUME IInv, NEW m \in {"write", "check"}, Begin(m)
  PROVE  IInv'
<1>1. {Contract} \cup {p \in SkillFiles : Exists(p)} \subseteq Paths
  BY AgentDocsAssumption DEF SourceFiles
<1>2. <<>> \in Seq(Documents)
  OBVIOUS
<1>3. TypeOK'
  BY <1>1, <1>2 DEF IInv, TypeOK, Begin
<1> QED BY <1>3 DEF IInv, Begin, MayWrite, StaleIsListed, RestIsWritten, WayIsClear, Working

LEMMA ReadSourceIInv ==
  ASSUME IInv, ReadSource
  PROVE  IInv'
<1>1. CASE Returns("error")
  BY <1>1, ReturnsIInv DEF ReadSource
<1>2. CASE /\ tree[First(todo)].content \in Documents
           /\ loaded' = Append(loaded, tree[First(todo)].content)
           /\ todo' = todo \ {First(todo)}
           /\ UNCHANGED <<pc, mode, exit, events>>
  <2>1. loaded' \in Seq(Documents)
    BY <1>2 DEF IInv, TypeOK
  <2>2. TypeOK'
    BY <1>2, <2>1 DEF IInv, TypeOK, ReadSource
  <2> QED BY <1>2, <2>2 DEF ReadSource, IInv, MayWrite, StaleIsListed, RestIsWritten, WayIsClear, Working
<1> QED BY <1>1, <1>2 DEF ReadSource

LEMMA JudgeIInv ==
  ASSUME IInv, Judge
  PROVE  IInv'
BY ReturnsIInv DEF Judge

LEMMA StartWritingIInv ==
  ASSUME IInv, StartWriting
  PROVE  IInv'
<1>1. CASE Returns("error")
  BY <1>1, ReturnsIInv DEF StartWriting
<1>2. CASE /\ Plannable(loaded) /\ ~ Unlistable
           /\ pc' = "remove"
           /\ todo' = Stale(Outputs(loaded))
           /\ UNCHANGED <<mode, loaded, exit, events>>
  <2>1. WellFormed(tree) /\ tree' = tree
    BY DEF IInv, TypeOK, StartWriting
  <2>2. ManagedPaths = Occupied
    BY <1>2, <2>1, ManagedIsOccupied
  <2>3. todo' \subseteq Occupied /\ Occupied \subseteq DOMAIN Outputs(loaded) \cup todo'
    BY <1>2, <2>2 DEF Stale
  <2>4. Occupied \subseteq Paths /\ Occupied' = Occupied
    BY <2>1, WellFormedParts DEF Occupied
  <2>5. TypeOK'
    BY <1>2, <2>1, <2>3, <2>4 DEF IInv, TypeOK
  <2>6. MayWrite'
    BY <1>2 DEF MayWrite, StartWriting
  <2>7. StaleIsListed'
    BY <1>2, <2>3, <2>4 DEF StaleIsListed
  <2> QED BY <1>2, <2>5, <2>6, <2>7 DEF IInv, RestIsWritten, WayIsClear, Working
<1> QED BY <1>1, <1>2 DEF StartWriting

LEMMA RemoveStaleIInv ==
  ASSUME IInv, RemoveStale
  PROVE  IInv'
<1> DEFINE p == First(todo)
           outs == Outputs(loaded)
<1>1. /\ WellFormed(tree) /\ todo \subseteq Paths /\ loaded' = loaded /\ loaded \in Seq(Documents)
      /\ todo \subseteq Occupied /\ Occupied \subseteq DOMAIN outs \cup todo
      /\ MayWrite'
  BY DEF IInv, TypeOK, StaleIsListed, RemoveStale, MayWrite, Working
<1>2. CASE todo # {}
  <2>1. p \in todo /\ p \in Occupied
    BY <1>1, <1>2, FirstIsOne
  <2>2. tree' = [q \in DOMAIN tree \ {p} |-> tree[q]] /\ todo' = todo \ {p} /\ pc' = "remove"
    BY <1>2 DEF RemoveStale
  <2> HIDE DEF p, outs
  <2>3. WellFormed(tree')
    BY <1>1, <2>1, <2>2, RemovalIsWellFormed DEF Occupied
  <2>4. TypeOK'
    BY <1>1, <2>2, <2>3 DEF IInv, TypeOK, RemoveStale
  <2>5. Occupied' = Occupied \ {p}
    BY <2>2 DEF Occupied
  <2>6. todo' \subseteq Occupied' /\ Occupied' \subseteq DOMAIN outs \cup todo'
    BY <1>1, <2>2, <2>5
  <2>7. StaleIsListed'
    BY <1>1, <2>6 DEF StaleIsListed, outs
  <2> QED BY <1>1, <2>2, <2>4, <2>7 DEF IInv, RestIsWritten, WayIsClear, Working
<1>3. CASE todo = {}
  <2>1. pc' = "write" /\ todo' = DOMAIN outs /\ tree' = tree
    BY <1>3 DEF RemoveStale
  <2>2. DOMAIN outs \subseteq Paths
    BY <1>1, OutputIs
  <2>3. TypeOK'
    BY <1>1, <2>1, <2>2 DEF IInv, TypeOK, RemoveStale
  <2>4. Occupied' \subseteq DOMAIN outs
    BY <1>1, <1>3, <2>1 DEF Occupied
  <2>5. RestIsWritten'
    BY <1>1, <2>1, <2>4 DEF RestIsWritten
  <2> QED BY <1>1, <2>1, <2>3, <2>5 DEF IInv, StaleIsListed, WayIsClear
<1> QED BY <1>2, <1>3

\* The next output, while there is one.
LEMMA NextOutput ==
  ASSUME IInv, pc \in {"write", "open", "fill"}, todo # {}
  PROVE  /\ First(todo) \in todo /\ First(todo) \in Paths /\ First(todo) \in Path
         /\ First(todo) \in DOMAIN Outputs(loaded) /\ Owned(First(todo))
BY FirstIsOne, PathsArePaths, OutputIs DEF IInv, TypeOK, RestIsWritten, Working

LEMMA PrepareIInv ==
  ASSUME IInv, Prepare
  PROVE  IInv'
<1> DEFINE p == First(todo)
           outs == Outputs(loaded)
           up == Ancestors(p)
<1>1. /\ WellFormed(tree) /\ loaded \in Seq(Documents)
      /\ todo \subseteq DOMAIN outs /\ Occupied \subseteq DOMAIN outs
      /\ \A q \in DOMAIN outs \ todo : q \in DOMAIN tree /\ tree[q] = File(outs[q])
      /\ p \in todo /\ p \in Paths /\ p \in Path
  BY NextOutput DEF IInv, TypeOK, RestIsWritten, Prepare, Working, Exists
<1>2. CASE Returns("error") /\ UNCHANGED tree
  BY <1>2, ReturnsIInv
<1>3. CASE /\ ~ BelowFile(p) /\ FirstSymlink(p) = {}
           /\ tree' = WithDirs(tree, up)
           /\ pc' = "open"
           /\ UNCHANGED <<mode, loaded, todo, exit, events>>
  <2>1. \A q \in Ends(p) : tree[q].kind \in {"file", "link"}
    BY <1>1, WellFormedParts, NodesAre DEF Ends, Exists
  <2>2. \A q \in up : q \in DOMAIN tree => tree[q] = Dir
    <3> SUFFICES ASSUME NEW q \in up, q \in DOMAIN tree, tree[q] # Dir PROVE FALSE
      OBVIOUS
    <3>1. q \in Ends(p) /\ q # p
      BY <1>1, AncestorsAreStrict DEF Ends, Exists
    <3> QED BY <1>3, <2>1, <3>1 DEF BelowFile, FirstSymlink
  <2>3. p \in DOMAIN tree => tree[p].kind # "link"
    BY <1>3, NodesAre DEF FirstSymlink, Ends, Exists
  <2>4. p \notin up
    BY <1>1, AncestorsAreStrict
  <2> HIDE DEF p, outs, up
  <2>5. WellFormed(tree') /\ \A q \in up : q \in DOMAIN tree' /\ tree'[q] = Dir
    BY <1>1, <1>3, <2>2, WithDirsIsWellFormed DEF up
  <2>6. /\ DOMAIN tree' = DOMAIN tree \cup up
        /\ \A q \in DOMAIN tree : tree'[q] = tree[q]
    BY <1>3 DEF WithDirs
  <2>7. Occupied' = Occupied
    BY <2>5, <2>6 DEF Occupied
  <2>8. TypeOK'
    BY <1>3, <2>5 DEF IInv, TypeOK
  <2>9. MayWrite'
    BY <1>3 DEF IInv, MayWrite, Prepare, Working
  <2>10. RestIsWritten'
    <3>1. Outputs(loaded)' = outs /\ todo' = todo
      BY <1>3 DEF outs
    <3>2. \A q \in DOMAIN outs \ todo : q \in DOMAIN tree' /\ tree'[q] = File(outs[q])
      BY <1>1, <2>6
    <3> QED BY <1>1, <2>7, <3>1, <3>2 DEF RestIsWritten, Exists
  <2>11. WayIsClear'
    <3>1. First(todo)' = p /\ todo' # {} /\ pc' = "open"
      BY <1>1, <1>3 DEF p
    <3>2. ~ (p \in DOMAIN tree' /\ tree'[p].kind = "link")
      BY <2>3, <2>4, <2>6
    <3> QED BY <2>5, <3>1, <3>2 DEF WayIsClear, IsKind, Exists, up
  <2> QED BY <1>3, <2>8, <2>9, <2>10, <2>11 DEF IInv, StaleIsListed
<1> QED BY <1>2, <1>3 DEF Prepare

\* Opening and filling reach the output itself, and change nothing else.
LEMMA PutIsThere ==
  ASSUME IInv, pc \in {"open", "fill"}, ~ IsKind(First(todo), "dir"), NEW content,
         tree' = Put(First(todo), content)
  PROVE  /\ DOMAIN tree' = DOMAIN tree \cup {First(todo)}
         /\ tree'[First(todo)] = File(content)
         /\ \A q \in DOMAIN tree \ {First(todo)} : tree'[q] = tree[q]
         /\ WellFormed(tree') /\ Occupied' = Occupied \cup {First(todo)}
<1> DEFINE p == First(todo)
<1>1. /\ WellFormed(tree) /\ p \in Paths /\ p \in Path /\ Owned(p)
      /\ ~ IsKind(p, "link")
      /\ \A q \in Ancestors(p) : q \in DOMAIN tree /\ tree[q] = Dir
  BY NextOutput DEF IInv, TypeOK, WayIsClear, Exists
<1>2. tree' = WithNode(tree, p, File(content))
  BY <1>1 DEF Put, Reached
<1>3. \A q \in DOMAIN tree : p \notin Ancestors(q)
  BY <1>1, WellFormedParts, NodesAre DEF IsKind, Exists
<1> HIDE DEF p
<1>4. WellFormed(tree')
  BY <1>1, <1>2, <1>3, WithNodeIsWellFormed, NodesAre
<1>5. /\ DOMAIN tree' = DOMAIN tree \cup {p}
      /\ tree'[p] = File(content)
      /\ \A q \in DOMAIN tree \ {p} : tree'[q] = tree[q]
  BY <1>2 DEF WithNode
<1>6. Occupied' = Occupied \cup {p}
  BY <1>1, <1>5, NodesAre DEF Occupied
<1> QED BY <1>4, <1>5, <1>6 DEF p

LEMMA OpenIInv ==
  ASSUME IInv, Open
  PROVE  IInv'
<1> DEFINE p == First(todo)
           outs == Outputs(loaded)
<1>1. CASE Returns("error") /\ UNCHANGED tree
  BY <1>1, ReturnsIInv
<1>2. CASE /\ ~ IsKind(p, "dir")
           /\ tree' = Put(p, Empty)
           /\ pc' = "fill"
           /\ UNCHANGED <<mode, loaded, todo, exit, events>>
  <2>1. pc = "open" /\ todo # {}
    BY DEF Open, IInv, WayIsClear
  <2>2. p \in todo /\ p \in DOMAIN outs /\ p \in Path
    BY <2>1, NextOutput
  <2>3. /\ DOMAIN tree' = DOMAIN tree \cup {p} /\ tree'[p] = File(Empty)
        /\ \A q \in DOMAIN tree \ {p} : tree'[q] = tree[q]
        /\ WellFormed(tree') /\ Occupied' = Occupied \cup {p}
    BY <1>2, <2>1, PutIsThere
  <2>4. /\ todo \subseteq DOMAIN outs /\ Occupied \subseteq DOMAIN outs
        /\ \A q \in DOMAIN outs \ todo : q \in DOMAIN tree /\ tree[q] = File(outs[q])
        /\ \A q \in Ancestors(p) : q \in DOMAIN tree /\ tree[q] = Dir
    BY <2>1 DEF IInv, RestIsWritten, WayIsClear, Working, Exists
  <2>5. p \notin Ancestors(p)
    BY <2>2, AncestorsAreStrict
  <2>6. Outputs(loaded)' = outs /\ First(todo)' = p /\ todo' = todo
    BY <1>2
  <2>7. TypeOK'
    BY <1>2, <2>3 DEF IInv, TypeOK
  <2>8. MayWrite'
    BY <1>2, <2>1 DEF IInv, MayWrite, Working
  <2> HIDE DEF p, outs
  <2>9. RestIsWritten'
    <3>1. \A q \in DOMAIN outs \ todo : q \in DOMAIN tree' /\ tree'[q] = File(outs[q])
      BY <2>2, <2>3, <2>4
    <3> QED BY <2>2, <2>3, <2>4, <2>6, <3>1 DEF RestIsWritten, Exists
  <2>10. WayIsClear'
    <3>1. \A q \in Ancestors(p) : q \in DOMAIN tree' /\ tree'[q] = Dir
      BY <2>3, <2>4, <2>5
    <3>2. p \in DOMAIN tree' /\ tree'[p].kind = "file" /\ tree'[p].kind # "link"
      BY <2>3, NodesAre
    <3> QED BY <2>2, <2>6, <3>1, <3>2 DEF WayIsClear, IsKind, Exists
  <2> QED BY <1>2, <2>7, <2>8, <2>9, <2>10 DEF IInv, StaleIsListed
<1> QED BY <1>1, <1>2 DEF Open

LEMMA FillIInv ==
  ASSUME IInv, Fill
  PROVE  IInv'
<1> DEFINE p == First(todo)
           outs == Outputs(loaded)
<1>1. /\ pc = "fill" /\ todo # {} /\ IsKind(p, "file") /\ ~ IsKind(p, "dir")
      /\ tree' = Put(p, outs[p]) /\ todo' = todo \ {p} /\ pc' = "write"
      /\ UNCHANGED <<mode, loaded, exit, events>>
  BY DEF Fill, IInv, WayIsClear, IsKind
<1>2. p \in todo /\ p \in DOMAIN outs
  BY <1>1, NextOutput
<1>3. /\ DOMAIN tree' = DOMAIN tree \cup {p} /\ tree'[p] = File(outs[p])
      /\ \A q \in DOMAIN tree \ {p} : tree'[q] = tree[q]
      /\ WellFormed(tree') /\ Occupied' = Occupied \cup {p}
  BY <1>1, PutIsThere
<1>4. /\ todo \subseteq DOMAIN outs /\ Occupied \subseteq DOMAIN outs
      /\ \A q \in DOMAIN outs \ todo : q \in DOMAIN tree /\ tree[q] = File(outs[q])
  BY <1>1 DEF IInv, RestIsWritten, Working, Exists
<1>5. Outputs(loaded)' = outs
  BY <1>1
<1> HIDE DEF p, outs
<1>6. TypeOK'
  BY <1>1, <1>3 DEF IInv, TypeOK
<1>7. MayWrite'
  BY <1>1 DEF IInv, MayWrite, Working
<1>8. RestIsWritten'
  <2>1. \A q \in DOMAIN outs \ todo' : q \in DOMAIN tree' /\ tree'[q] = File(outs[q])
    BY <1>1, <1>3, <1>4
  <2> QED BY <1>1, <1>2, <1>3, <1>4, <1>5, <2>1 DEF RestIsWritten, Exists
<1> QED BY <1>1, <1>6, <1>7, <1>8 DEF IInv, StaleIsListed, WayIsClear

LEMMA WrittenIInv ==
  ASSUME IInv, Written
  PROVE  IInv'
BY ReturnsIInv DEF Written

LEMMA InterruptedIInv ==
  ASSUME IInv, Interrupted
  PROVE  IInv'
<1>1. events' \in 0 .. MaxEvents
  BY AgentDocsAssumption DEF IInv, TypeOK, Interrupted, Event
<1>2. TypeOK'
  BY <1>1 DEF IInv, TypeOK, Interrupted
<1> QED BY <1>2, IdleIInv DEF Interrupted

LEMMA EditTypeOK ==
  ASSUME IInv, NEW p \in Places \cup SourceFiles, Edit(p)
  PROVE  TypeOK'
<1>1. WellFormed(tree) /\ p \in Paths /\ p \in Path
  BY AgentDocsAssumption, PathsArePaths DEF IInv, TypeOK
<1> DEFINE u == Without(p)
           v == WithDirs(u, Ancestors(p))
<1>2. WellFormed(u) /\ \A q \in DOMAIN u : p \notin Ancestors(q)
  BY <1>1, WithoutIsWellFormed
<1>3. \A q \in Ancestors(p) : q \in DOMAIN u => u[q] = Dir
  BY DEF Edit, Exists, Without
<1>4. \/ tree' = u
      \/ \E node : IsNode(node) /\ tree' = WithNode(v, p, node)
  <2>1. \A node \in {Dir, File(Junk), Link(Contract)}
                     \cup (IF p \in SourceFiles THEN {File(d) : d \in Documents} ELSE {}) : IsNode(node)
    BY NodesAre
  <2> QED BY <2>1 DEF Edit
<1> HIDE DEF u
<1>5. WellFormed(v) /\ \A q \in Ancestors(p) : q \in DOMAIN v /\ v[q] = Dir
  BY <1>1, <1>2, <1>3, WithDirsIsWellFormed
<1>6. \A q \in DOMAIN v : p \notin Ancestors(q)
  <2>1. DOMAIN v = DOMAIN u \cup Ancestors(p)
    BY DEF WithDirs
  <2>2. \A q \in Ancestors(p) : p \notin Ancestors(q)
    BY <1>1, AncestorsOfAncestors, AncestorsAreStrict
  <2> QED BY <1>2, <2>1, <2>2
<1> HIDE DEF v
<1>7. WellFormed(tree')
  BY <1>1, <1>2, <1>4, <1>5, <1>6, WithNodeIsWellFormed
<1>8. events' \in 0 .. MaxEvents
  BY AgentDocsAssumption DEF IInv, TypeOK, Edit, Event
<1> QED BY <1>7, <1>8 DEF IInv, TypeOK, Edit

LEMMA EditIInv ==
  ASSUME IInv, NEW p \in Places \cup SourceFiles, Edit(p)
  PROVE  IInv'
<1>1. TypeOK'
  BY EditTypeOK
<1>2. UNCHANGED <<pc, mode, loaded, todo>>
  BY DEF Edit
<1>3. CASE pc = "idle"
  BY <1>1, <1>2, <1>3, IdleIInv
<1>4. CASE p \in SourceFiles
  <2>1. WellFormed(tree) /\ WellFormed(tree') /\ loaded \in Seq(Documents)
    BY <1>1 DEF IInv, TypeOK
  <2>2. \A q \in Path : Owned(q) =>
          /\ q \in DOMAIN tree' <=> q \in DOMAIN tree
          /\ q \in DOMAIN tree => tree'[q] = tree[q]
    BY <1>4, <2>1, SourceEdit
  <2>3. DOMAIN tree \subseteq Path /\ DOMAIN tree' \subseteq Path
    BY <2>1, WellFormedParts
  <2>4. Occupied' = Occupied
    BY <2>2, <2>3 DEF Occupied
  <2>5. MayWrite' /\ StaleIsListed'
    BY <1>2, <2>4 DEF IInv, MayWrite, StaleIsListed
  <2>6. RestIsWritten'
    <3> SUFFICES ASSUME pc \in Working \ {"remove"}
                 PROVE  /\ todo \subseteq DOMAIN Outputs(loaded)
                        /\ Occupied \subseteq DOMAIN Outputs(loaded)
                        /\ \A q \in DOMAIN Outputs(loaded) \ todo :
                             q \in DOMAIN tree' /\ tree'[q] = File(Outputs(loaded)[q])
      BY <1>2, <2>4 DEF RestIsWritten, Exists
    <3>1. \A q \in DOMAIN Outputs(loaded) : q \in Path /\ Owned(q)
      BY <2>1, OutputIs
    <3>2. /\ todo \subseteq DOMAIN Outputs(loaded) /\ Occupied \subseteq DOMAIN Outputs(loaded)
          /\ \A q \in DOMAIN Outputs(loaded) \ todo :
               q \in DOMAIN tree /\ tree[q] = File(Outputs(loaded)[q])
      BY DEF IInv, RestIsWritten, Exists
    <3> QED BY <2>2, <3>1, <3>2
  <2>7. WayIsClear'
    <3> DEFINE o == First(todo)
    <3> SUFFICES ASSUME pc \in {"open", "fill"}
                 PROVE  /\ todo # {}
                        /\ \A q \in Ancestors(o) : q \in DOMAIN tree' /\ tree'[q] = Dir
                        /\ ~ (o \in DOMAIN tree' /\ tree'[o].kind = "link")
                        /\ pc = "fill" => o \in DOMAIN tree' /\ tree'[o].kind = "file"
      BY <1>2 DEF WayIsClear, Exists, IsKind
    <3>1. /\ todo # {}
          /\ \A q \in Ancestors(o) : q \in DOMAIN tree /\ tree[q] = Dir
          /\ ~ (o \in DOMAIN tree /\ tree[o].kind = "link")
          /\ pc = "fill" => o \in DOMAIN tree /\ tree[o].kind = "file"
      BY DEF IInv, WayIsClear, Exists, IsKind
    <3>2. o \in Path /\ Owned(o) /\ o \in DOMAIN Outputs(loaded)
      BY <3>1, NextOutput
    <3>3. \A q \in Ancestors(o) : q \in Path /\ Owned(q)
      BY <2>1, <3>2, AboveOutputs, AncestorsAreStrict
    <3> HIDE DEF o
    <3> QED BY <2>2, <3>1, <3>2, <3>3
  <2> QED BY <1>1, <2>5, <2>6, <2>7 DEF IInv
<1> QED BY <1>3, <1>4 DEF Edit

LEMMA NextIInv == IInv /\ [Next]_vars => IInv'
<1> SUFFICES ASSUME IInv, [Next]_vars PROVE IInv'
  OBVIOUS
<1>1. CASE \E m \in {"write", "check"} : Begin(m)
  BY <1>1, BeginIInv
<1>2. CASE Runs
  BY <1>2, ReadSourceIInv, JudgeIInv, StartWritingIInv, RemoveStaleIInv, PrepareIInv, OpenIInv,
     FillIInv, WrittenIInv DEF Runs
<1>3. CASE Interrupted
  BY <1>3, InterruptedIInv
<1>4. CASE \E p \in Places \cup SourceFiles : Edit(p)
  BY <1>4, EditIInv
<1>5. CASE UNCHANGED vars
  BY <1>5 DEF vars, IInv, TypeOK, MayWrite, StaleIsListed, RestIsWritten, WayIsClear, Occupied,
     Exists, IsKind
<1> QED BY <1>1, <1>2, <1>3, <1>4, <1>5 DEF Next

-----------------------------------------------------------------------------
(* What every step keeps to. *)

\* Each way in which a run returns.
LEMMA Returning ==
  ASSUME Next, Returned
  PROVE  \/ ReadSource /\ todo # {} /\ pc = "load" /\ exit' = "error"
         \/ Judge
         \/ StartWriting /\ (~ Plannable(loaded) \/ Unlistable) /\ exit' = "error"
         \/ Prepare /\ (BelowFile(First(todo)) \/ FirstSymlink(First(todo)) # {}) /\ exit' = "error"
         \/ Open /\ IsKind(First(todo), "dir") /\ exit' = "error"
         \/ Written /\ exit' = "ok"
<1>1. pc # "idle" /\ pc' = "idle" /\ exit' # "cut"
  BY DEF Returned
<1>2. ~ \E m \in {"write", "check"} : Begin(m)
  BY <1>1 DEF Begin
<1>3. ~ Interrupted
  BY <1>1 DEF Interrupted
<1>4. ~ \E p \in Places \cup SourceFiles : Edit(p)
  BY <1>1 DEF Edit
<1>5. CASE ReadSource
  BY <1>1, <1>5 DEF ReadSource, Returns
<1>6. CASE StartWriting
  BY <1>1, <1>6 DEF StartWriting, Returns
<1>7. ~ RemoveStale
  BY <1>1 DEF RemoveStale
<1>8. CASE Prepare
  BY <1>1, <1>8 DEF Prepare, Returns
<1>9. CASE Open
  BY <1>1, <1>9 DEF Open, Returns
<1>10. ~ Fill
  BY <1>1 DEF Fill
<1>11. CASE Written
  BY <1>11 DEF Written, Returns
<1> QED BY <1>2, <1>3, <1>4, <1>5, <1>6, <1>7, <1>8, <1>9, <1>10, <1>11 DEF Next, Runs

\* Check tells what the tree looks like, and Write what it has made of it.
LEMMA VerdictStep ==
  ASSUME IInv, Next, Returned
  PROVE  IF mode = "check"
         THEN exit' = "ok" <=> (AllRead /\ Projects(tree, loaded))
         ELSE exit' = "ok" => Projects(tree, loaded)
<1>1. WellFormed(tree) /\ loaded \in Seq(Documents)
  BY DEF IInv, TypeOK
<1>2. CASE ReadSource /\ todo # {} /\ exit' = "error"
  BY <1>2 DEF AllRead
<1>3. CASE Judge
  <2>1. exit' = "ok" <=> /\ Plannable(loaded) /\ ~ Unlistable
                         /\ Stale(Outputs(loaded)) = {} /\ Matches(Outputs(loaded))
    BY <1>3 DEF Judge, Returns
  <2> QED BY <1>1, <1>3, <2>1, VerdictIsProjects DEF Judge
<1>4. CASE (StartWriting \/ Prepare \/ Open) /\ exit' = "error"
  BY <1>4 DEF StartWriting, Prepare, Open, IInv, MayWrite, Working
<1>5. CASE Written
  <2>1. pc = "write" /\ todo = {} /\ pc \in Working /\ pc # "remove"
    BY <1>5 DEF Written, Working
  <2>2. /\ mode = "write" /\ Plannable(loaded) /\ Occupied \subseteq DOMAIN Outputs(loaded)
        /\ \A p \in DOMAIN Outputs(loaded) : p \in DOMAIN tree /\ tree[p] = File(Outputs(loaded)[p])
    BY <2>1 DEF IInv, MayWrite, RestIsWritten, Exists
  <2>3. DOMAIN Outputs(loaded) \subseteq Occupied
    BY <1>1, <2>2, OutputIs, NodesAre DEF Occupied
  <2> QED BY <2>2, <2>3 DEF Projects, Occupied
<1> QED BY <1>2, <1>3, <1>4, <1>5, Returning

\* What makes Write give up is not of its own making.
LEMMA RepairStep ==
  ASSUME IInv, Next, Returned, mode = "write", exit' = "error"
  PROVE  Obstructed
<1>1. WellFormed(tree) /\ loaded \in Seq(Documents)
  BY DEF IInv, TypeOK
<1>2. CASE ReadSource /\ todo # {} /\ pc = "load"
  BY <1>2 DEF Obstructed
<1>3. CASE StartWriting /\ (~ Plannable(loaded) \/ Unlistable)
  <2>1. CASE Unlistable
    <3>1. PICK d \in ManagedDirs : \E q \in Ends(d) : tree[q].kind = "file"
      BY <2>1 DEF Unlistable
    <3> QED BY <3>1 DEF Obstructed, Ends, IsKind
  <2> QED BY <1>3, <2>1 DEF Obstructed
<1>4. CASE Prepare /\ (BelowFile(First(todo)) \/ FirstSymlink(First(todo)) # {})
  <2> DEFINE p == First(todo)
  <2>1. pc = "write" /\ p \in Path /\ p \in DOMAIN Outputs(loaded)
    BY <1>4, NextOutput DEF Prepare
  <2>2. Occupied \subseteq DOMAIN Outputs(loaded)
    BY <2>1 DEF IInv, RestIsWritten, Working
  <2> HIDE DEF p
  <2>3. ~ \E q \in Ends(p) : q # p
    <3> SUFFICES ASSUME NEW q \in Ends(p), q # p PROVE FALSE
      OBVIOUS
    <3>1. q \in Ancestors(p) /\ q \in DOMAIN tree /\ tree[q] # Dir
      BY DEF Ends, Exists
    <3>2. Owned(q) /\ q \notin DOMAIN Outputs(loaded)
      BY <1>1, <2>1, <3>1, AboveOutputs
    <3> QED BY <2>2, <3>1, <3>2 DEF Occupied
  <2>4. FirstSymlink(p) # {}
    BY <1>4, <2>3 DEF BelowFile, p
  <2>5. IsKind(p, "link")
    BY <2>3, <2>4 DEF FirstSymlink, Ends, IsKind
  <2> QED BY <2>1, <2>5 DEF Obstructed
<1>5. CASE Open /\ IsKind(First(todo), "dir")
  <2>1. First(todo) \in DOMAIN Outputs(loaded)
    BY <1>5, NextOutput DEF Open, IInv, WayIsClear
  <2> QED BY <1>5, <2>1 DEF Obstructed
<1>6. ~ Judge
  BY DEF Judge
<1> QED BY <1>2, <1>3, <1>4, <1>5, <1>6, Returning

\* What somebody else may have put there stays there.
LEMMA ApartStep ==
  ASSUME IInv, Next, events' = events, NEW p \in DOMAIN tree, ~ Owned(p)
  PROVE  p \in DOMAIN tree' /\ tree'[p] = tree[p]
<1>1. events \in Nat
  BY AgentDocsAssumption DEF IInv, TypeOK
<1>2. ~ Event
  BY <1>1 DEF Event
<1>3. CASE UNCHANGED tree
  BY <1>3
<1>4. CASE RemoveStale /\ todo # {}
  <2>1. First(todo) \in Occupied
    BY <1>4, FirstIsOne DEF IInv, TypeOK, StaleIsListed, RemoveStale
  <2>2. First(todo) # p
    BY <2>1 DEF Occupied
  <2> QED BY <1>4, <2>2 DEF RemoveStale
<1>5. CASE tree' = WithDirs(tree, Ancestors(First(todo)))
  BY <1>5 DEF WithDirs
<1>6. CASE pc \in {"open", "fill"} /\ ~ IsKind(First(todo), "dir") /\ \E content : tree' = Put(First(todo), content)
  <2>1. Owned(First(todo))
    BY <1>6, NextOutput DEF IInv, WayIsClear
  <2> QED BY <1>6, <2>1, PutIsThere
<1>7. CASE Fill
  <2>1. ~ IsKind(First(todo), "dir")
    BY <1>7 DEF Fill, IInv, WayIsClear, IsKind
  <2> QED BY <1>6, <1>7, <2>1 DEF Fill
<1>8. CASE Open
  BY <1>3, <1>6, <1>8 DEF Open
<1>9. CASE Prepare
  BY <1>3, <1>5, <1>9 DEF Prepare
<1>10. CASE RemoveStale
  BY <1>3, <1>4, <1>10 DEF RemoveStale
<1>11. CASE ReadSource \/ Judge \/ StartWriting \/ Written
  BY <1>3, <1>11 DEF ReadSource, Judge, StartWriting, Written
<1>12. CASE \E m \in {"write", "check"} : Begin(m)
  BY <1>3, <1>12 DEF Begin
<1>13. ~ Interrupted /\ ~ \E q \in Places \cup SourceFiles : Edit(q)
  BY <1>2 DEF Interrupted, Edit
<1> QED BY <1>7, <1>8, <1>9, <1>10, <1>11, <1>12, <1>13 DEF Next, Runs

-----------------------------------------------------------------------------
\* Whatever people and interruptions do, the tree stays a file system and the
\* program knows where it is.
THEOREM TypeCorrect == Spec => []TypeOK
<1>1. IInv => TypeOK
  BY DEF IInv
<1> QED BY InitIInv, NextIInv, <1>1, PTL DEF Spec

\* The exit status of agentdocgen says what the tree looks like, on every tree
\* and after every history: -check succeeds exactly on the projections of the
\* sources, and a run that writes succeeds only if it has left them (generate.go,
\* Check and Write).
THEOREM ExitStatusIsRight == Spec => ExitStatusMeans
<1>1. IInv /\ [Next]_vars => [Returned => IF mode = "check"
                                THEN exit' = "ok" <=> (AllRead /\ Projects(tree, loaded))
                                ELSE exit' = "ok" => Projects(tree, loaded)]_vars
  BY VerdictStep
<1> QED BY InitIInv, NextIInv, <1>1, PTL DEF Spec, ExitStatusMeans

\* Write repairs what an interrupted run has left, and gives up only on what is
\* for people to remove (generate.go, Write and ensureSafeWritePath).
THEOREM WriteIsARepair == Spec => WriteRepairs
<1>1. IInv /\ [Next]_vars => [Returned /\ mode = "write" /\ exit' = "error" => Obstructed]_vars
  BY RepairStep
<1> QED BY InitIInv, NextIInv, <1>1, PTL DEF Spec, WriteRepairs

\* No run of the generator changes a file that is not its own, whatever links
\* people put in its way (generate.go, ensureSafeWritePath and staleManagedPaths).
THEOREM OthersAreLeftAlone == Spec => OthersUntouched
<1>1. IInv /\ [Next]_vars =>
        [events' = events =>
           \A p \in DOMAIN tree : ~ Owned(p) => p \in DOMAIN tree' /\ tree'[p] = tree[p]]_vars
  BY ApartStep
<1> QED BY InitIInv, NextIInv, <1>1, PTL DEF Spec, OthersUntouched
=============================================================================
