-------------------------------- MODULE Loading --------------------------------
(***************************************************************************)
(* From the configuration file to a provider that holds the token:         *)
(* config.LoadWithOptions up to securefile.Validate, and newProvider with  *)
(* securefile.ReadSingleToken, one system call at a time, while an         *)
(* operator replaces, rewrites, moves or opens up the token file.          *)
(***************************************************************************)
EXTENDS Config, SecureFile

CONSTANTS
  Setups,       \* configurations, environments, and how the files differ from
  BaseFs,       \* a file system with directories and token files in order
  BaseInodes,
  Inodes,       \* the inodes there can be
  Tokens,       \* contents that are one token of at most maxTokenBytes bytes
  OtherContents,  \* and contents that are not
  OtherFile,    \* a file and a directory that a symlink may lead to
  OtherDir

Paths == [abs : BOOLEAN, names : Seq(STRING)]
URLs == [scheme : STRING, host : STRING, extra : STRING]
Inode == [perm : SUBSET (OwnerBits \cup OtherBits), content : Tokens \cup OtherContents]

\* The configuration as the decoder leaves it.
RawConfig ==
  [name : Seq(STRING), zone : Seq(STRING), ttl : Int, ipv4 : URLs, ipv6 : URLs, allowHTTP : BOOLEAN,
   probeTimeout : Seq(Int), timeout : Seq(Int), type : STRING, zoneID : STRING, token : Paths,
   baseURL : URLs]

\* What is in f, and what is in g for the rest; f with y at x.
Over(f, g) == [x \in DOMAIN f \cup DOMAIN g |-> IF x \in DOMAIN f THEN f[x] ELSE g[x]]
Put(f, x, y) == [z \in DOMAIN f \cup {x} |-> IF z = x THEN y ELSE f[z]]

\* A configuration, an environment in which the variable may be set, where the
\* configuration file is, and what the files of the base look like instead.
IsSetup(s) ==
  /\ s.raw \in RawConfig
  /\ s.env \in Seq(Paths)
  /\ s.config \in Paths /\ s.config.names # <<>>
  /\ s.edits \in Nat
  /\ \A p \in DOMAIN s.nodes : s.nodes[p].kind = "file" =>
       s.nodes[p].ino \in DOMAIN s.inodes \cup DOMAIN BaseInodes
  /\ DOMAIN s.inodes \subseteq Inodes
  /\ \A i \in DOMAIN s.inodes : s.inodes[i] \in Inode

ASSUME LoadingAssumption ==
  /\ Tokens \cap OtherContents = {}
  /\ APIHost \notin LoopbackHosts
  /\ "" \notin {IPv4Host, IPv6Host, APIHost} \cup LoopbackHosts
  /\ WorkingDir \in Seq(STRING)
  /\ \A s \in Setups : IsSetup(s)
  /\ \A p \in DOMAIN BaseFs : BaseFs[p].kind = "file" => BaseFs[p].ino \in DOMAIN BaseInodes
  /\ DOMAIN BaseInodes \subseteq Inodes
  /\ \A i \in DOMAIN BaseInodes : BaseInodes[i] \in Inode

VARIABLES
  setup,    \* the configuration file, the environment, and the bound on edits
  fs,       \* the nodes of the file system by absolute path
  inodes,   \* permissions and content of each inode
  phase,    \* "validate" while the configuration is loaded, then "read"
  pc,       \* what is done next
  index,    \* the directory that the walk has reached
  path,     \* cfg.Provider.Cloudflare.APITokenFile
  fd,       \* the inode that is open, if any
  token,    \* the token, once it is read
  result,   \* "running", "ready" or "failed"
  edits,    \* edits so far
  private   \* inodes that have been private at some time (history)

program == <<phase, pc, index, path, fd, token, result>>
vars == <<setup, fs, inodes, program, edits, private>>

Unread == "unread"
NoInode == 0

TypeOK ==
  /\ \A p \in DOMAIN fs : fs[p].kind = "file" => fs[p].ino \in DOMAIN inodes
  /\ DOMAIN inodes \subseteq Inodes
  /\ \A i \in DOMAIN inodes : inodes[i] \in Inode
  /\ phase \in {"validate", "read"}
  /\ pc \in {"config", "walk", "leaf", "url", "open", "stat", "read", "client"}
  /\ pc = "walk" => index \in DOMAIN tokenPathDirectories(path)
  /\ fd \in DOMAIN inodes \cup {NoInode}
  /\ token \in Tokens \cup {Unread}
  /\ result \in {"running", "ready", "failed"}
  /\ edits \in 0 .. setup.edits
  /\ private \subseteq DOMAIN inodes

Fails ==
  /\ result' = "failed"
  /\ UNCHANGED <<phase, pc, index, path, fd, token>>

Proceeds(next) ==
  /\ pc' = next
  /\ UNCHANGED <<phase, index, path, fd, token, result>>

\* An action of the program: it leaves the file system alone.
Step(location) ==
  /\ result = "running"
  /\ pc = location
  /\ UNCHANGED <<setup, fs, inodes, edits, private>>

-----------------------------------------------------------------------------
(* config.LoadWithOptions *)

Raw == applyEnvironment(setup.raw, setup.env, Path(TRUE, WorkingDir))

\* The file is read and most of it is validated.
LoadConfig ==
  /\ Step("config")
  /\ IF ValidRecord(Raw) /\ ValidProbe(Raw) /\ ValidProvider(Raw)
     THEN /\ path' = TokenPath(Raw, DirOf(setup.config))
          /\ pc' = "walk"
          /\ UNCHANGED <<phase, index, fd, token, result>>
     ELSE Fails

\* One lstat of validateParentDirectory.
Walk ==
  /\ Step("walk")
  /\ LET directories == tokenPathDirectories(path)
     IN IF ~ AcceptsDirectory(fs, index, directories) THEN Fails
        ELSE IF index = Len(directories) THEN Proceeds("leaf")
        ELSE /\ index' = index + 1
             /\ UNCHANGED <<phase, pc, path, fd, token, result>>

ValidateLeaf ==
  /\ phase = "validate"
  /\ Step("leaf")
  /\ IF AcceptsLeaf(fs, inodes, path) THEN Proceeds("url") ELSE Fails

\* The rest of the configuration; the runner is built, and its provider.
ParseBaseURL ==
  /\ Step("url")
  /\ IF ParsesAsHTTPSURL(setup.raw.baseURL)
     THEN /\ phase' = "read"
          /\ pc' = "walk"
          /\ index' = 1
          /\ UNCHANGED <<path, fd, token, result>>
     ELSE Fails

-----------------------------------------------------------------------------
(* securefile.ReadSingleToken, and cloudflare.New *)

ReadLeaf ==
  /\ phase = "read"
  /\ Step("leaf")
  /\ IF validatePathLeaf(fs, path) THEN Proceeds("open") ELSE Fails

\* openNoFollow, and the test for a regular file that follows it; the program
\* runs as the owner of the file.
Open ==
  /\ Step("open")
  /\ LET node == Lstat(fs, Location(path))
     IN IF node.kind = "file" /\ "ur" \in inodes[node.ino].perm
        THEN /\ fd' = node.ino
             /\ pc' = "stat"
             /\ UNCHANGED <<phase, index, path, token, result>>
        ELSE Fails

\* A slip: the permissions are those of whatever has the path by now.
StatByPath ==
  /\ Step("stat")
  /\ IF AcceptsLeaf(fs, inodes, path) THEN Proceeds("read") ELSE Fails

Stat ==
  /\ Step("stat")
  /\ IF hasSecurePermissions(path, inodes[fd].perm) THEN Proceeds("read") ELSE Fails

\* A slip: what was read is not examined.
ReadAnything ==
  /\ Step("read")
  /\ token' = inodes[fd].content
  /\ pc' = "client"
  /\ UNCHANGED <<phase, index, path, fd, result>>

Read ==
  /\ Step("read")
  /\ IF inodes[fd].content \in Tokens
     THEN /\ token' = inodes[fd].content
          /\ pc' = "client"
          /\ UNCHANGED <<phase, index, path, fd, result>>
     ELSE Fails

NewClient ==
  /\ Step("client")
  /\ IF ClientAccepts(setup.raw)
     THEN result' = "ready" /\ UNCHANGED <<phase, pc, index, path, fd, token>>
     ELSE Fails

-----------------------------------------------------------------------------
(* The operator. *)

\* Where README.md puts the token file: the variable, if it is set, and the
\* configuration file otherwise; each relative to where it was said.
Meant(s) ==
  LET given == IF s.env # <<>> THEN Head(s.env) ELSE s.raw.token
      dir == IF s.env # <<>> THEN WorkingDir ELSE Location(DirOf(s.config))
  IN Path(TRUE, IF given.abs THEN given.names ELSE dir \o given.names)

IsPrivate(i) == hasSecurePermissions(Meant(setup), inodes[i].perm)

Edit ==
  /\ result = "running"
  /\ edits < setup.edits
  /\ edits' = edits + 1
  /\ UNCHANGED <<setup, program>>
  /\ private' = private \cup {i \in DOMAIN inodes' : IsPrivate(i)'}

Leaf == FollowOnce(fs, FollowOnce(fs, Meant(setup).names))
Parent == Front(Leaf)

\* A new file takes the place of the old one in one step.
Rotate(perm, content) ==
  /\ \E i \in Inodes \ DOMAIN inodes :
       /\ \A j \in Inodes \ DOMAIN inodes : i <= j
       /\ inodes' = Put(inodes, i, [perm |-> perm, content |-> content])
       /\ fs' = Put(fs, Leaf, Regular(i))
  /\ Edit

\* The file that is there is written or gets other permissions.
Rewrite(content) ==
  /\ At(fs, Leaf).kind = "file"
  /\ inodes' = [inodes EXCEPT ![fs[Leaf].ino].content = content]
  /\ UNCHANGED fs
  /\ Edit

Chmod(perm) ==
  /\ At(fs, Leaf).kind = "file"
  /\ inodes' = [inodes EXCEPT ![fs[Leaf].ino].perm = perm]
  /\ UNCHANGED fs
  /\ Edit

\* Something else takes the place of the file, or of its directory.
Displace ==
  /\ \/ \E node \in {Nothing, Special, Symlink(OtherFile)} : fs' = Put(fs, Leaf, node)
     \/ fs' = Put(fs, Parent, Symlink(OtherDir))
     \/ fs' = Put(fs, Parent, Directory(OwnerBits \cup {"gw"}))
  /\ UNCHANGED inodes
  /\ Edit

-----------------------------------------------------------------------------
Init ==
  /\ setup \in Setups
  /\ fs = Over(setup.nodes, BaseFs)
  /\ inodes = Over(setup.inodes, BaseInodes)
  /\ phase = "validate"
  /\ pc = "config"
  /\ index = 1
  /\ path = Blank
  /\ fd = NoInode
  /\ token = Unread
  /\ result = "running"
  /\ edits = 0
  /\ private = {i \in DOMAIN inodes : IsPrivate(i)}

Loads ==
  \/ LoadConfig \/ Walk \/ ValidateLeaf \/ ParseBaseURL
  \/ ReadLeaf \/ Open \/ Stat \/ Read \/ NewClient

Operates ==
  \/ \E perm \in {OwnerBits, {"ur", "uw", "gr"}, {"ur", "gr"}} :
       Chmod(perm) \/ \E content \in Tokens : Rotate(perm, content)
  \/ \E content \in Tokens \cup OtherContents : Rewrite(content)
  \/ Displace

Next == Loads \/ Operates

Spec == Init /\ [][Next]_vars

-----------------------------------------------------------------------------
(* Properties. *)

\* README.md, "Configuration": what every field has to be.
DocumentedProbe(url, host, allowHTTP) ==
  \/ url = NoURL
  \/ url \in {URL("https", h, "none") : h \in {host} \cup LoopbackHosts}
  \/ allowHTTP /\ url \in {URL("http", h, "none") : h \in LoopbackHosts}

Documented(raw, env) ==
  /\ raw.name # <<>> /\ raw.zone # <<>>
  /\ ToSet(raw.name) \cup ToSet(raw.zone) \subseteq ValidLabels
  /\ \E n \in 1 .. Len(raw.name) : SubSeq(raw.name, n, Len(raw.name)) = raw.zone
  /\ raw.ttl = 1 \/ (30 <= raw.ttl /\ raw.ttl <= 86400)
  /\ DocumentedProbe(raw.ipv4, IPv4Host, raw.allowHTTP)
  /\ DocumentedProbe(raw.ipv6, IPv6Host, raw.allowHTTP)
  /\ \A t \in {raw.probeTimeout, raw.timeout} : t = <<>> \/ Head(t) > 0
  /\ raw.type = "cloudflare"
  /\ raw.zoneID \in {"hexadecimal", "CLOUDFLARE_ZONE_ID"}
  /\ (IF env # <<>> THEN Head(env) ELSE raw.token) # Blank
  /\ raw.baseURL \in {NoURL} \cup {URL("https", h, "none") : h \in {APIHost} \cup LoopbackHosts}

\* A configuration is refused because of what it says exactly if it says
\* something undocumented, although the checks are spread over the walk to the
\* token file and repeated in the client: a probe may not leave the host of
\* its own family, and what -validate-config accepts does not fail in New.
ConfigIsSound ==
  /\ pc \in {"config", "url"} /\ result = "failed" => ~ Documented(setup.raw, setup.env)
  /\ phase = "read" => Documented(setup.raw, setup.env)
  /\ pc = "client" => result # "failed"

\* The token file in use is the one that is meant, for each combination of
\* variable and field, relative and absolute, and of the two directories.
TokenPathMeans ==
  pc # "config" => Location(path) = Meant(setup).names

\* README.md, "Security Notes": which token files are fit for use; those of
\* systemd may be open to their group, if they are named by an absolute path.
Acceptable ==
  LET names == Meant(setup).names
      start == Len(Location(path)) - Len(path.names)
      parent == Front(names)
      leaf == Lstat(fs, names)
  IN /\ \A n \in start .. Len(parent) :
          LET node == Lstat(fs, SubSeq(names, 1, n))
          IN node.kind = "dir" \/ (node.kind = "link" /\ n = 1 /\ n < Len(parent) /\ start = 0)
     /\ Lstat(fs, parent).perm \cap {"gw", "ow"} = {}
     /\ leaf.kind = "file"
     /\ IsPrivate(leaf.ino)
     /\ path.abs \/ inodes[leaf.ino].perm \cap OtherBits = {}

\* Validate and ReadSingleToken are written separately and must agree: on a
\* file system that stays as it is, Validate accepts exactly the fit files, and
\* what it has accepted fails later only if its owner cannot read it or for
\* want of a token in it.
ChecksAgree ==
  edits = 0 /\ pc # "config" =>
    /\ phase = "validate" /\ pc # "url" /\ result = "failed" => ~ Acceptable
    /\ pc = "url" \/ phase = "read" => Acceptable
    /\ phase = "read" /\ result = "failed" =>
         LET held == inodes[At(fs, Leaf).ino]
         IN \/ pc = "open" /\ "ur" \notin held.perm
            \/ pc = "read" /\ held.content \notin Tokens

\* However the file is replaced, moved, linked or opened up between any two
\* system calls, the token that is used was read from a file that has been
\* private at some time, and it is one whole token.
TokenWasPrivate ==
  token # Unread => fd \in private /\ token \in Tokens
=============================================================================
