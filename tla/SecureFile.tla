------------------------------ MODULE SecureFile ------------------------------
(***************************************************************************)
(* internal/securefile on a Unix system: what Validate and ReadSingleToken *)
(* look at on the way to a token file.  Absolute paths are sequences of    *)
(* names, and <<>> is the root; permissions are sets of bits.  A file name *)
(* leads to an inode, which keeps its identity when it is renamed.         *)
(***************************************************************************)
EXTENDS Integers, SequencesExt

CONSTANTS
  WorkingDir,      \* the working directory, absolute
  CredentialsDir   \* CREDENTIALS_DIRECTORY, absolute; <<>> if it is not set

OwnerBits == {"ur", "uw", "ux"}
OtherBits == {"gr", "gw", "gx", "or", "ow", "ox"}

\* Nodes of a file system: a directory, a symlink, a file, anything else.
Directory(perm) == [kind |-> "dir", perm |-> perm]
Symlink(target) == [kind |-> "link", target |-> target]
Regular(ino)    == [kind |-> "file", ino |-> ino]
Special         == [kind |-> "special"]
Nothing         == [kind |-> "absent"]

At(fs, p) == IF p \in DOMAIN fs THEN fs[p] ELSE Nothing

\* The kernel follows symlinks to directories: one step, and two, which is as
\* many as a path of an instance meets.
FollowOnce(fs, p) ==
  LET links == {n \in 1 .. Len(p) - 1 : At(fs, SubSeq(p, 1, n)).kind = "link"}
  IN IF links = {} THEN p
     ELSE LET n == CHOOSE i \in links : \A j \in links : i <= j
          IN fs[SubSeq(p, 1, n)].target \o SubSeq(p, n + 1, Len(p))

\* lstat: the node that the path leads to, without following its last name.
Lstat(fs, p) == At(fs, FollowOnce(fs, FollowOnce(fs, p)))

-----------------------------------------------------------------------------
\* tokenPathDirectories: every directory from the root, or from the working
\* directory, down to the parent; directories[1] is where the walk begins, and
\* all of it for the root, which is its own parent.
tokenPathDirectories(path) ==
  LET start == IF path.abs THEN <<>> ELSE WorkingDir
      depth == IF path.names = <<>> THEN 1 ELSE Len(path.names)
  IN [i \in 1 .. depth |-> start \o SubSeq(path.names, 1, i - 1)]

Location(path) == (IF path.abs THEN <<>> ELSE WorkingDir) \o path.names

\* A slip: an alias is fine as the parent directory, too.
allowRootAliasSymlinkAnywhere(i, directories) == i = 2 /\ directories[1] = <<>>

\* A symlink below the root, like /var on macOS, is fine unless it is the parent.
allowRootAliasSymlink(i, directories) ==
  i = 2 /\ i # Len(directories) /\ directories[1] = <<>>

\* One step of validateParentDirectory; the parent must not be writable by others.
AcceptsDirectory(fs, i, directories) ==
  LET node == Lstat(fs, directories[i])
  IN \/ node.kind = "link" /\ allowRootAliasSymlink(i, directories)
     \/ /\ node.kind = "dir"
        /\ i = Len(directories) => node.perm \cap {"gw", "ow"} = {}

isSystemdCredentialPath(path) ==
  /\ path.abs
  /\ Len(CredentialsDir) >= 2
  /\ CredentialsDir[Len(CredentialsDir) - 1] = "credentials"
  /\ IsStrictPrefix(CredentialsDir, path.names)

\* Private to the owner, or a credential that only its group may read as well.
hasSecurePermissions(path, perm) ==
  \/ perm \cap OtherBits = {}
  \/ isSystemdCredentialPath(path) /\ perm \subseteq {"ur", "gr"}

\* Validate looks at the leaf by its path; ReadSingleToken only for a symlink.
AcceptsLeaf(fs, inodes, path) ==
  LET node == Lstat(fs, Location(path))
  IN node.kind = "file" /\ hasSecurePermissions(path, inodes[node.ino].perm)

validatePathLeaf(fs, path) == Lstat(fs, Location(path)).kind \notin {"absent", "link"}
=============================================================================
