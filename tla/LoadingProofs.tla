----------------------------- MODULE LoadingProofs -----------------------------
(***************************************************************************)
(* Loading for every configuration, environment, file system and number of *)
(* edits: what is accepted, where the token is looked for, and which file  *)
(* it can come from whatever happens to the files meanwhile.               *)
(***************************************************************************)
EXTENDS Loading, SequenceTheorems, TLAPS

\* The way to each place.
Route ==
  /\ pc = "config" => path = Blank /\ index = 1 /\ phase = "validate"
  /\ pc = "url" => phase = "validate"
  /\ pc \in {"open", "stat", "read", "client"} => phase = "read"

\* What is past the first action has passed its tests.
Accepted ==
  /\ pc # "config" => /\ ValidRecord(Raw) /\ ValidProbe(Raw) /\ ValidProvider(Raw)
                      /\ path = TokenPath(Raw, DirOf(setup.config))
  /\ phase = "read" => ParsesAsHTTPSURL(setup.raw.baseURL)

\* Why it has failed, if it has.
Refused ==
  result = "failed" =>
    /\ pc = "config" => ~ (ValidRecord(Raw) /\ ValidProbe(Raw) /\ ValidProvider(Raw))
    /\ pc = "url" => ~ ParsesAsHTTPSURL(setup.raw.baseURL)
    /\ pc # "client"

\* What is open, and what has been read from it.
Held ==
  /\ pc \in {"stat", "read", "client"} => fd \in DOMAIN inodes
  /\ pc \in {"read", "client"} => fd \in private
  /\ token # Unread => pc = "client"

\* The history has every file that is private now.
PrivateIsKnown == \A i \in DOMAIN inodes : IsPrivate(i) => i \in private

IInv ==
  /\ TypeOK
  /\ setup \in Setups
  /\ Route
  /\ Accepted
  /\ Refused
  /\ Held
  /\ PrivateIsKnown

-----------------------------------------------------------------------------
(* Configurations and paths. *)

LEMMA SetupParts ==
  ASSUME setup \in Setups
  PROVE  /\ IsSetup(setup)
         /\ setup.raw \in RawConfig /\ setup.raw.token \in Paths
         /\ setup.env \in Seq(Paths) /\ setup.config \in Paths /\ setup.config.names # <<>>
         /\ setup.edits \in Nat
<1>1. IsSetup(setup)
  BY LoadingAssumption
<1> QED BY <1>1 DEF IsSetup, RawConfig

LEMMA PathParts ==
  /\ \A a \in BOOLEAN, n \in Seq(STRING) : /\ Path(a, n) \in Paths
                                           /\ Path(a, n).abs = a /\ Path(a, n).names = n
  /\ \A p \in Paths : p.abs \in BOOLEAN /\ p.names \in Seq(STRING)
  /\ Blank \in Paths
<1>1. <<>> \in Seq(STRING)
  BY EmptySeq
<1> QED BY <1>1 DEF Path, Paths, Blank

LEMMA JoinParts ==
  ASSUME NEW dir \in Paths, NEW p \in Paths
  PROVE  Join(dir, p) \in Paths /\ Join(dir, p).abs = dir.abs /\ Join(dir, p).names = dir.names \o p.names
<1>1. dir.names \o p.names \in Seq(STRING) /\ dir.abs \in BOOLEAN
  BY PathParts, ConcatProperties
<1> QED BY <1>1, PathParts DEF Join

LEMMA FrontIsSeq ==
  ASSUME NEW s \in Seq(STRING)
  PROVE  Front(s) \in Seq(STRING)
<1>1. \A i \in 1 .. Len(s) - 1 : s[i] \in STRING
  BY LenProperties, ElementOfSeq
<1>2. Len(s) - 1 \in Int
  BY LenProperties
<1> QED BY <1>1, <1>2, SubSeqProperties DEF Front

\* What a configuration says, with the variable in place of its token file.
LEMMA RawParts ==
  ASSUME setup \in Setups
  PROVE  /\ Raw.token = IF setup.env = <<>> THEN setup.raw.token
                        ELSE resolvePath(Head(setup.env), Path(TRUE, WorkingDir))
         /\ Raw.token \in Paths
         /\ Raw = [setup.raw EXCEPT !.token = Raw.token]
<1>1. setup.raw \in RawConfig /\ setup.env \in Seq(Paths)
  BY SetupParts
<1>2. setup.env # <<>> => Head(setup.env) \in Paths
  BY <1>1, HeadTailProperties
<1>3. Path(TRUE, WorkingDir) \in Paths
  BY LoadingAssumption, PathParts
<1>4. setup.env # <<>> => resolvePath(Head(setup.env), Path(TRUE, WorkingDir)) \in Paths
  BY <1>2, <1>3, JoinParts DEF resolvePath
<1> QED BY <1>1, <1>4 DEF Raw, applyEnvironment, RawConfig

LEMMA DirOfParts ==
  ASSUME NEW p \in Paths
  PROVE  DirOf(p) \in Paths /\ DirOf(p).abs = p.abs /\ DirOf(p).names = Front(p.names)
BY PathParts, FrontIsSeq DEF DirOf

\* Where a path leads is a path from the root.
LEMMA LocationIsSeq ==
  ASSUME NEW p \in Paths
  PROVE  /\ Location(p) \in Seq(STRING)
         /\ p.abs => Location(p) = p.names
         /\ ~ p.abs => Location(p) = WorkingDir \o p.names
<1>1. WorkingDir \in Seq(STRING) /\ <<>> \in Seq(STRING) /\ p.names \in Seq(STRING)
  BY LoadingAssumption, EmptySeq, PathParts
<1>2. <<>> \o p.names = p.names
  BY <1>1, ConcatEmptySeq
<1>3. WorkingDir \o p.names \in Seq(STRING)
  BY <1>1, ConcatProperties
<1> QED BY <1>1, <1>2, <1>3 DEF Location

LEMMA NamesAssociate ==
  ASSUME NEW a \in Seq(STRING), NEW b \in Seq(STRING), NEW c \in Seq(STRING)
  PROVE  (a \o b) \o c = a \o (b \o c)
OBVIOUS

\* A path that is joined to a directory leads to where that directory is.
LEMMA JoinLocation ==
  ASSUME NEW base \in Paths, NEW p \in Paths
  PROVE  Location(Join(base, p)) = Location(base) \o p.names
<1> DEFINE j == Join(base, p)
<1>1. j \in Paths /\ j.abs = base.abs /\ j.names = base.names \o p.names
  BY JoinParts
<1>2. base.names \in Seq(STRING) /\ p.names \in Seq(STRING) /\ base.abs \in BOOLEAN
  BY PathParts
<1>3. WorkingDir \in Seq(STRING)
  BY LoadingAssumption
<1>4. (WorkingDir \o base.names) \o p.names = WorkingDir \o (base.names \o p.names)
  BY <1>2, <1>3, NamesAssociate
<1> HIDE DEF j
<1>5. CASE base.abs
  <2>1. Location(j) = j.names
    BY <1>1, <1>5, LocationIsSeq
  <2>2. Location(base) = base.names
    BY <1>5, LocationIsSeq
  <2> QED BY <1>1, <2>1, <2>2 DEF j
<1>6. CASE ~ base.abs
  <2>1. Location(j) = WorkingDir \o j.names
    BY <1>1, <1>6, LocationIsSeq
  <2>2. Location(base) = WorkingDir \o base.names
    BY <1>6, LocationIsSeq
  <2> QED BY <1>1, <1>4, <2>1, <2>2 DEF j
<1> QED BY <1>5, <1>6

\* The path to the token file leads where README puts it.
LEMMA TokenPathIsMeant ==
  ASSUME setup \in Setups, Raw.token # Blank
  PROVE  /\ TokenPath(Raw, DirOf(setup.config)) \in Paths
         /\ Location(TokenPath(Raw, DirOf(setup.config))) = Meant(setup).names
         /\ Meant(setup) \in Paths /\ Meant(setup).abs
<1> DEFINE p == TokenPath(Raw, DirOf(setup.config))
           base == DirOf(setup.config)
           w == Path(TRUE, WorkingDir)
           given == IF setup.env # <<>> THEN Head(setup.env) ELSE setup.raw.token
           dir == IF setup.env # <<>> THEN WorkingDir ELSE Location(base)
           names == IF given.abs THEN given.names ELSE dir \o given.names
<1>1. /\ setup.raw.token \in Paths /\ setup.config \in Paths /\ Raw.token \in Paths
      /\ setup.env # <<>> => Head(setup.env) \in Paths
  BY SetupParts, RawParts, HeadTailProperties
<1>2. base \in Paths
  BY <1>1, DirOfParts
<1>3. given \in Paths /\ WorkingDir \in Seq(STRING) /\ Location(base) \in Seq(STRING)
  BY <1>1, <1>2, LocationIsSeq, LoadingAssumption
<1>4. w \in Paths /\ w.abs /\ w.names = WorkingDir
  BY <1>3, PathParts
<1>5. dir \in Seq(STRING) /\ given.names \in Seq(STRING)
  BY <1>3, PathParts
<1>6. dir \o given.names \in Seq(STRING)
  BY <1>5, ConcatProperties
<1>7. names \in Seq(STRING)
  BY <1>5, <1>6
<1>8. Meant(setup) = Path(TRUE, names)
  BY DEF Meant
<1>9. Meant(setup) \in Paths /\ Meant(setup).abs /\ Meant(setup).names = names
  <2> HIDE DEF names
  <2> QED BY <1>7, <1>8, PathParts
<1>10. Join(base, Raw.token) \in Paths
  BY <1>1, <1>2, JoinParts
<1>11. p \in Paths
  BY <1>1, <1>10 DEF TokenPath
<1>12. Raw.token = IF setup.env = <<>> THEN setup.raw.token ELSE resolvePath(Head(setup.env), w)
  BY RawParts
<1>13. setup.env = <<>> => given = setup.raw.token /\ dir = Location(base)
  OBVIOUS
<1>14. setup.env # <<>> => given = Head(setup.env) /\ dir = WorkingDir
  OBVIOUS
<1>15. p = IF Raw.token.abs THEN Raw.token ELSE Join(base, Raw.token)
  BY DEF TokenPath
<1>16. given.abs => names = given.names
  OBVIOUS
<1>17. ~ given.abs => names = dir \o given.names
  OBVIOUS
<1> HIDE DEF p, base, given, dir, names, w
<1>18. Location(p) = names
  <2>1. CASE given.abs
    <3>1. Raw.token = given
      BY <1>12, <1>13, <1>14, <2>1 DEF resolvePath
    <3>2. p = given
      BY <1>15, <2>1, <3>1
    <3> QED BY <1>3, <1>16, <2>1, <3>2, LocationIsSeq
  <2>2. CASE ~ given.abs /\ setup.env # <<>>
    <3>1. Raw.token = Join(w, given)
      BY <1>12, <1>14, <2>2 DEF resolvePath
    <3>2. Join(w, given).abs = w.abs
      BY <1>3, <1>4, JoinParts
    <3>3. Location(Join(w, given)) = Location(w) \o given.names
      BY <1>3, <1>4, JoinLocation
    <3>4. Location(w) = WorkingDir
      BY <1>4, LocationIsSeq
    <3> QED BY <1>4, <1>14, <1>15, <1>17, <2>2, <3>1, <3>2, <3>3, <3>4
  <2>3. CASE ~ given.abs /\ setup.env = <<>>
    <3>1. p = Join(base, given)
      BY <1>12, <1>13, <1>15, <2>3
    <3>2. Location(p) = Location(base) \o given.names
      BY <1>2, <1>3, <3>1, JoinLocation
    <3> QED BY <1>13, <1>17, <2>3, <3>2
  <2> QED BY <2>1, <2>2, <2>3
<1> QED BY <1>9, <1>11, <1>18 DEF p, base

\* Permissions that are fit for the path as it was given are fit for the path
\* that is meant, which may look like a credential only if the other does.
LEMMA SecureIsPrivate ==
  ASSUME setup \in Setups, Raw.token # Blank, NEW perm,
         hasSecurePermissions(TokenPath(Raw, DirOf(setup.config)), perm)
  PROVE  hasSecurePermissions(Meant(setup), perm)
<1> DEFINE p == TokenPath(Raw, DirOf(setup.config))
<1>1. p \in Paths /\ Location(p) = Meant(setup).names /\ Meant(setup).abs
  BY TokenPathIsMeant
<1> HIDE DEF p
<1>2. p.abs => p.names = Meant(setup).names
  BY <1>1, LocationIsSeq
<1>3. isSystemdCredentialPath(p) => isSystemdCredentialPath(Meant(setup))
  BY <1>1, <1>2 DEF isSystemdCredentialPath
<1> QED BY <1>3 DEF hasSecurePermissions, p

-----------------------------------------------------------------------------
(* What is accepted is what is documented. *)

LEMMA SuffixByPlace ==
  ASSUME NEW S, NEW s \in Seq(S), NEW t \in Seq(S)
  PROVE  IsSuffix(s, t) <=> /\ Len(s) <= Len(t)
                            /\ \A i \in 1 .. Len(s) : s[i] = t[Len(t) - Len(s) + i]
<1> DEFINE r == Reverse(s)
           u == Reverse(t)
<1>1. Len(s) \in Nat /\ Len(t) \in Nat /\ DOMAIN s = 1 .. Len(s) /\ DOMAIN t = 1 .. Len(t)
  BY LenProperties
<1>2. /\ r \in Seq(S) /\ Len(r) = Len(s)
      /\ \A i \in 1 .. Len(s) : r[i] = s[Len(s) - i + 1]
  BY <1>1 DEF Reverse
<1>3. /\ u \in Seq(S) /\ Len(u) = Len(t)
      /\ \A i \in 1 .. Len(t) : u[i] = t[Len(t) - i + 1]
  BY <1>1 DEF Reverse
<1> HIDE DEF r, u
<1>4. IsSuffix(s, t) <=> Len(s) <= Len(t) /\ SubSeq(r, 1, Len(s)) = SubSeq(u, 1, Len(s))
  BY <1>2, <1>3 DEF IsSuffix, IsPrefix, r, u
<1>5. ASSUME Len(s) <= Len(t)
      PROVE  SubSeq(r, 1, Len(s)) = SubSeq(u, 1, Len(s))
               <=> \A i \in 1 .. Len(s) : s[i] = t[Len(t) - Len(s) + i]
  <2> DEFINE v == SubSeq(r, 1, Len(s))
             w == SubSeq(u, 1, Len(s))
  <2>1. \A i \in 1 .. Len(s) : r[i] \in S /\ u[i] \in S
    BY <1>1, <1>2, <1>3, <1>5, ElementOfSeq
  <2>2. v \in Seq(S) /\ Len(v) = Len(s) /\ \A i \in 1 .. Len(s) : v[i] = r[i]
    BY <1>1, <2>1, SubSeqProperties
  <2>3. w \in Seq(S) /\ Len(w) = Len(s) /\ \A i \in 1 .. Len(s) : w[i] = u[i]
    BY <1>1, <2>1, SubSeqProperties
  <2> HIDE DEF v, w
  <2>4. v = w <=> \A i \in 1 .. Len(s) : v[i] = w[i]
    BY <2>2, <2>3, SeqEqual
  <2>5. v = w <=> \A i \in 1 .. Len(s) : s[Len(s) - i + 1] = t[Len(t) - i + 1]
    BY <1>1, <1>2, <1>3, <1>5, <2>2, <2>3, <2>4
  <2>6. ASSUME \A i \in 1 .. Len(s) : s[Len(s) - i + 1] = t[Len(t) - i + 1]
        PROVE  \A i \in 1 .. Len(s) : s[i] = t[Len(t) - Len(s) + i]
    <3> TAKE i \in 1 .. Len(s)
    <3>1. Len(s) - i + 1 \in 1 .. Len(s)
      BY <1>1
    <3>2. Len(s) - (Len(s) - i + 1) + 1 = i /\ Len(t) - (Len(s) - i + 1) + 1 = Len(t) - Len(s) + i
      BY <1>1
    <3> QED BY <2>6, <3>1, <3>2
  <2>7. ASSUME \A i \in 1 .. Len(s) : s[i] = t[Len(t) - Len(s) + i]
        PROVE  \A i \in 1 .. Len(s) : s[Len(s) - i + 1] = t[Len(t) - i + 1]
    <3> TAKE i \in 1 .. Len(s)
    <3>1. Len(s) - i + 1 \in 1 .. Len(s)
      BY <1>1
    <3>2. Len(t) - Len(s) + (Len(s) - i + 1) = Len(t) - i + 1
      BY <1>1
    <3> QED BY <2>7, <3>1, <3>2
  <2> QED BY <2>5, <2>6, <2>7 DEF v, w
<1> QED BY <1>4, <1>5

\* A name is in a zone if the rest of it from some label on is the zone.
LEMMA NameWithinZone ==
  ASSUME NEW S, NEW name \in Seq(S), NEW zone \in Seq(S), zone # <<>>
  PROVE  isNameWithinZone(name, zone)
           <=> \E n \in 1 .. Len(name) : SubSeq(name, n, Len(name)) = zone
<1>1. /\ Len(name) \in Nat /\ Len(zone) \in Nat \ {0}
      /\ DOMAIN name = 1 .. Len(name) /\ DOMAIN zone = 1 .. Len(zone)
  BY LenProperties, EmptySeq
<1>2. \A n \in 1 .. Len(name) :
        /\ SubSeq(name, n, Len(name)) \in Seq(S)
        /\ Len(SubSeq(name, n, Len(name))) = Len(name) - n + 1
        /\ \A i \in 1 .. Len(name) - n + 1 : SubSeq(name, n, Len(name))[i] = name[n + i - 1]
  <2> TAKE n \in 1 .. Len(name)
  <2>1. \A i \in n .. Len(name) : name[i] \in S
    BY <1>1, ElementOfSeq
  <2> QED BY <1>1, <2>1, SubSeqProperties
<1>3. IsSuffix(zone, name) <=> \E n \in 1 .. Len(name) : SubSeq(name, n, Len(name)) = zone
  <2>1. ASSUME IsSuffix(zone, name)
        PROVE  \E n \in 1 .. Len(name) : SubSeq(name, n, Len(name)) = zone
    <3> DEFINE n == Len(name) - Len(zone) + 1
    <3>1. /\ Len(zone) <= Len(name)
          /\ \A i \in 1 .. Len(zone) : zone[i] = name[Len(name) - Len(zone) + i]
      BY <2>1, SuffixByPlace
    <3>2. n \in 1 .. Len(name) /\ Len(name) - n + 1 = Len(zone)
      BY <1>1, <3>1
    <3>3. \A i \in 1 .. Len(zone) : n + i - 1 = Len(name) - Len(zone) + i
      BY <1>1
    <3> HIDE DEF n
    <3> DEFINE r == SubSeq(name, n, Len(name))
    <3>4. r \in Seq(S) /\ Len(r) = Len(zone) /\ \A i \in 1 .. Len(zone) : r[i] = name[n + i - 1]
      BY <1>2, <3>2
    <3> HIDE DEF r
    <3>5. \A i \in 1 .. Len(zone) : r[i] = zone[i]
      BY <3>1, <3>3, <3>4
    <3>6. r = zone
      BY <3>4, <3>5, SeqEqual
    <3> QED BY <3>2, <3>6 DEF r
  <2>2. ASSUME NEW n \in 1 .. Len(name), SubSeq(name, n, Len(name)) = zone
        PROVE  IsSuffix(zone, name)
    <3>1. Len(zone) = Len(name) - n + 1 /\ \A i \in 1 .. Len(zone) : zone[i] = name[n + i - 1]
      BY <1>2, <2>2
    <3>2. \A i \in 1 .. Len(zone) : n + i - 1 = Len(name) - Len(zone) + i
      BY <1>1, <3>1
    <3>3. \A i \in 1 .. Len(zone) : zone[i] = name[Len(name) - Len(zone) + i]
      BY <3>1, <3>2
    <3>4. Len(zone) <= Len(name)
      BY <1>1, <3>1
    <3> QED BY <3>3, <3>4, SuffixByPlace
  <2> QED BY <2>1, <2>2
<1>4. name = zone => IsSuffix(zone, name)
  <2> HAVE name = zone
  <2>1. \A i \in 1 .. Len(zone) : Len(name) - Len(zone) + i = i
    BY <1>1
  <2> QED BY <1>1, <2>1, SuffixByPlace
<1> QED BY <1>3, <1>4 DEF isNameWithinZone, IsStrictSuffix

LEMMA URLParts ==
  ASSUME NEW url \in URLs, NEW s, NEW h, NEW x
  PROVE  url = URL(s, h, x) <=> url.scheme = s /\ url.host = h /\ url.extra = x
<1>1. url = URL(url.scheme, url.host, url.extra)
  BY DEF URLs, URL
<1>2. URL(s, h, x).scheme = s /\ URL(s, h, x).host = h /\ URL(s, h, x).extra = x
  BY DEF URL
<1> QED BY <1>1, <1>2

LEMMA URLsOfHosts ==
  ASSUME NEW url \in URLs, NEW s, NEW H
  PROVE  url \in {URL(s, h, "none") : h \in H}
           <=> url.scheme = s /\ url.extra = "none" /\ url.host \in H
<1>1. ASSUME NEW h \in H, url = URL(s, h, "none")
      PROVE  url.scheme = s /\ url.extra = "none" /\ url.host \in H
  BY <1>1, URLParts
<1>2. ASSUME url.scheme = s, url.extra = "none", url.host \in H
      PROVE  url = URL(s, url.host, "none")
  BY <1>2, URLParts
<1> QED BY <1>1, <1>2

LEMMA ProbeIsDocumented ==
  ASSUME NEW url \in URLs, NEW host, host # "", NEW allow \in BOOLEAN
  PROVE  ParsesAsProbeURL(url, host, allow) <=> DocumentedProbe(url, host, allow)
<1>1. "" \notin LoopbackHosts
  BY LoadingAssumption
<1>2. CASE url = NoURL
  BY <1>2 DEF ParsesAsProbeURL, DocumentedProbe, OrDefault, URL, NoURL, validateURLStructure, validateTrustedHost
<1>3. CASE url # NoURL
  <2>2. DocumentedProbe(url, host, allow) <=>
          \/ url.scheme = "https" /\ url.extra = "none" /\ url.host \in {host} \cup LoopbackHosts
          \/ allow /\ url.scheme = "http" /\ url.extra = "none" /\ url.host \in LoopbackHosts
    <3> DEFINE H == {host} \cup LoopbackHosts
    <3> HIDE DEF H
    <3>1. url \in {URL("https", h, "none") : h \in H}
            <=> url.scheme = "https" /\ url.extra = "none" /\ url.host \in H
      BY URLsOfHosts, ZenonT(40)
    <3>2. url \in {URL("http", h, "none") : h \in LoopbackHosts}
            <=> url.scheme = "http" /\ url.extra = "none" /\ url.host \in LoopbackHosts
      BY URLsOfHosts, ZenonT(40)
    <3> QED BY <1>3, <3>1, <3>2, Zenon DEF DocumentedProbe, H
  <2>3. ParsesAsProbeURL(url, host, allow) <=>
          /\ \/ url.scheme = "https"
             \/ url.scheme = "http" /\ allow /\ url.host \in LoopbackHosts
          /\ url.host # "" /\ url.extra = "none" /\ (url.host = host \/ url.host \in LoopbackHosts)
    BY <1>3 DEF ParsesAsProbeURL, OrDefault, validateURLStructure, validateTrustedHost
  <2> QED BY <1>1, <2>2, <2>3
<1> QED BY <1>2, <1>3

LEMMA BaseURLIsDocumented ==
  ASSUME NEW url \in URLs
  PROVE  ParsesAsHTTPSURL(url)
           <=> url \in {NoURL} \cup {URL("https", h, "none") : h \in {APIHost} \cup LoopbackHosts}
<1>1. "" \notin LoopbackHosts /\ APIHost # ""
  BY LoadingAssumption
<1>2. CASE url = NoURL
  BY <1>1, <1>2 DEF ParsesAsHTTPSURL, OrDefault, URL, NoURL, validateURLStructure, validateTrustedHost
<1>3. CASE url # NoURL
  <2>2. ParsesAsHTTPSURL(url) <=>
          /\ url.scheme = "https"
          /\ url.host # "" /\ url.extra = "none" /\ (url.host = APIHost \/ url.host \in LoopbackHosts)
    BY <1>3 DEF ParsesAsHTTPSURL, OrDefault, validateURLStructure, validateTrustedHost
  <2> DEFINE H == {APIHost} \cup LoopbackHosts
  <2> HIDE DEF H
  <2>3. url \in {URL("https", h, "none") : h \in H}
          <=> url.scheme = "https" /\ url.extra = "none" /\ url.host \in H
    BY URLsOfHosts
  <2>4. url.host \in H => url.host # ""
    BY <1>1 DEF H
  <2>5. ParsesAsHTTPSURL(url) <=> url \in {URL("https", h, "none") : h \in H}
    BY <2>2, <2>3, <2>4 DEF H
  <2> QED BY <1>3, <2>5, Zenon DEF H
<1> QED BY <1>2, <1>3

\* What is accepted as a base URL is accepted again by the client.
LEMMA ClientAgrees ==
  ASSUME setup \in Setups, ParsesAsHTTPSURL(setup.raw.baseURL)
  PROVE  ClientAccepts(setup.raw)
BY DEF ParsesAsHTTPSURL, ClientAccepts, validateURLStructure, validateTrustedHost

LEMMA TokenIsGiven ==
  ASSUME setup \in Setups
  PROVE  Raw.token # Blank
           <=> (IF setup.env # <<>> THEN Head(setup.env) ELSE setup.raw.token) # Blank
<1> DEFINE w == Path(TRUE, WorkingDir)
<1>1. setup.env # <<>> => Head(setup.env) \in Paths
  BY SetupParts, HeadTailProperties
<1>2. w \in Paths /\ w.abs
  BY LoadingAssumption, PathParts
<1> HIDE DEF w
<1>3. setup.env # <<>> => Join(w, Head(setup.env)).abs
  BY <1>1, <1>2, JoinParts
<1>4. ~ Blank.abs
  BY DEF Blank, Path
<1>5. Raw.token = IF setup.env = <<>> THEN setup.raw.token ELSE resolvePath(Head(setup.env), w)
  BY RawParts DEF w
<1> QED BY <1>3, <1>4, <1>5 DEF resolvePath

LEMMA TTLIsNotZero ==
  ASSUME NEW ttl \in Int, validateCloudflareTTL(ttl)
  PROVE  ttl # 0
BY DEF validateCloudflareTTL

LEMMA DocumentedIsAccepted ==
  ASSUME setup \in Setups
  PROVE  Documented(setup.raw, setup.env)
           <=> /\ ValidRecord(Raw) /\ ValidProbe(Raw) /\ ValidProvider(Raw)
               /\ ParsesAsHTTPSURL(setup.raw.baseURL)
<1> DEFINE raw == setup.raw
           given == IF setup.env # <<>> THEN Head(setup.env) ELSE setup.raw.token
<1>1. raw \in RawConfig
  BY SetupParts
<1>2. /\ Raw.name = raw.name /\ Raw.zone = raw.zone /\ Raw.ttl = raw.ttl
      /\ Raw.ipv4 = raw.ipv4 /\ Raw.ipv6 = raw.ipv6 /\ Raw.allowHTTP = raw.allowHTTP
      /\ Raw.probeTimeout = raw.probeTimeout /\ Raw.timeout = raw.timeout
      /\ Raw.type = raw.type /\ Raw.zoneID = raw.zoneID
  BY <1>1, RawParts DEF RawConfig
<1>3. /\ raw.name \in Seq(STRING) /\ raw.zone \in Seq(STRING) /\ raw.ttl \in Int
      /\ raw.ipv4 \in URLs /\ raw.ipv6 \in URLs /\ raw.baseURL \in URLs /\ raw.allowHTTP \in BOOLEAN
  BY <1>1 DEF RawConfig
<1>4. Raw.token # Blank <=> given # Blank
  BY TokenIsGiven
<1>5. IPv4Host # "" /\ IPv6Host # ""
  BY LoadingAssumption
<1> HIDE DEF given, raw
<1>6. raw.zone # <<>> =>
        (isNameWithinZone(raw.name, raw.zone)
           <=> \E n \in 1 .. Len(raw.name) : SubSeq(raw.name, n, Len(raw.name)) = raw.zone)
  BY <1>3, NameWithinZone
<1>7. ValidProbe(Raw) <=> /\ DocumentedProbe(raw.ipv4, IPv4Host, raw.allowHTTP)
                          /\ DocumentedProbe(raw.ipv6, IPv6Host, raw.allowHTTP)
                          /\ raw.probeTimeout = <<>> \/ Head(raw.probeTimeout) > 0
  BY <1>2, <1>3, <1>5, ProbeIsDocumented DEF ValidProbe, ParsesAsDuration
<1>8. ParsesAsHTTPSURL(raw.baseURL)
        <=> raw.baseURL \in {NoURL} \cup {URL("https", h, "none") : h \in {APIHost} \cup LoopbackHosts}
  BY <1>3, BaseURLIsDocumented
<1>9. ValidProvider(Raw) <=> /\ raw.timeout = <<>> \/ Head(raw.timeout) > 0
                             /\ raw.type = "cloudflare"
                             /\ validateCloudflareTTL(raw.ttl)
                             /\ raw.zoneID \in {"hexadecimal", "CLOUDFLARE_ZONE_ID"}
                             /\ given # Blank
  BY <1>2, <1>4 DEF ValidProvider, ParsesAsDuration
<1>10. ValidRecord(Raw) <=> /\ raw.name # <<>> /\ raw.zone # <<>>
                            /\ ToSet(raw.name) \cup ToSet(raw.zone) \subseteq ValidLabels
                            /\ \E n \in 1 .. Len(raw.name) : SubSeq(raw.name, n, Len(raw.name)) = raw.zone
                            /\ raw.ttl # 0
  BY <1>2, <1>6 DEF ValidRecord, normalizeFQDN
<1>11. validateCloudflareTTL(raw.ttl) => raw.ttl # 0
  BY <1>3, TTLIsNotZero
<1>12. Documented(raw, setup.env) <=>
         /\ raw.name # <<>> /\ raw.zone # <<>>
         /\ ToSet(raw.name) \cup ToSet(raw.zone) \subseteq ValidLabels
         /\ \E n \in 1 .. Len(raw.name) : SubSeq(raw.name, n, Len(raw.name)) = raw.zone
         /\ validateCloudflareTTL(raw.ttl)
         /\ DocumentedProbe(raw.ipv4, IPv4Host, raw.allowHTTP)
         /\ DocumentedProbe(raw.ipv6, IPv6Host, raw.allowHTTP)
         /\ \A t \in {raw.probeTimeout, raw.timeout} : t = <<>> \/ Head(t) > 0
         /\ raw.type = "cloudflare"
         /\ raw.zoneID \in {"hexadecimal", "CLOUDFLARE_ZONE_ID"}
         /\ given # Blank
         /\ raw.baseURL \in {NoURL} \cup {URL("https", h, "none") : h \in {APIHost} \cup LoopbackHosts}
  BY DEF Documented, given, raw, validateCloudflareTTL
<1>13. (\A t \in {raw.probeTimeout, raw.timeout} : t = <<>> \/ Head(t) > 0)
         <=> /\ raw.probeTimeout = <<>> \/ Head(raw.probeTimeout) > 0
             /\ raw.timeout = <<>> \/ Head(raw.timeout) > 0
  OBVIOUS
<1> QED BY <1>7, <1>8, <1>9, <1>10, <1>11, <1>12, <1>13 DEF raw

-----------------------------------------------------------------------------
(* The invariant. *)

LEMMA WalkStarts ==
  ASSUME NEW p \in Paths
  PROVE  /\ 1 \in DOMAIN tokenPathDirectories(p)
         /\ Len(tokenPathDirectories(p)) \in Nat \ {0}
         /\ DOMAIN tokenPathDirectories(p) = 1 .. Len(tokenPathDirectories(p))
<1>1. Len(p.names) \in Nat /\ (p.names # <<>> => Len(p.names) # 0)
  BY PathParts, LenProperties, EmptySeq
<1> DEFINE depth == IF p.names = <<>> THEN 1 ELSE Len(p.names)
<1>2. depth \in Nat \ {0}
  BY <1>1
<1>3. DOMAIN tokenPathDirectories(p) = 1 .. depth
  BY DEF tokenPathDirectories
<1> HIDE DEF depth
<1>4. Len(tokenPathDirectories(p)) = depth
  BY <1>2, <1>3
<1> QED BY <1>2, <1>3, <1>4

\* Past the first action the path is a path.
LEMMA PathIsFound ==
  ASSUME IInv, pc # "config"
  PROVE  /\ path \in Paths
         /\ Location(path) = Meant(setup).names
         /\ Raw.token # Blank
         /\ path = TokenPath(Raw, DirOf(setup.config))
<1>1. setup \in Setups /\ Raw.token # Blank /\ path = TokenPath(Raw, DirOf(setup.config))
  BY DEF IInv, Accepted, ValidProvider
<1> QED BY <1>1, TokenPathIsMeant

LEMMA InitImpliesIInv == Init => IInv
<1> SUFFICES ASSUME Init
             PROVE  IInv
  OBVIOUS
<1>1. setup \in Setups /\ IsSetup(setup) /\ setup.edits \in Nat
  BY SetupParts DEF Init
<1>2. /\ \A p \in DOMAIN setup.nodes : setup.nodes[p].kind = "file" =>
           setup.nodes[p].ino \in DOMAIN setup.inodes \cup DOMAIN BaseInodes
      /\ DOMAIN setup.inodes \subseteq Inodes
      /\ \A i \in DOMAIN setup.inodes : setup.inodes[i] \in Inode
  BY <1>1 DEF IsSetup
<1>3. /\ \A p \in DOMAIN BaseFs : BaseFs[p].kind = "file" => BaseFs[p].ino \in DOMAIN BaseInodes
      /\ DOMAIN BaseInodes \subseteq Inodes
      /\ \A i \in DOMAIN BaseInodes : BaseInodes[i] \in Inode
  BY LoadingAssumption
<1>4. fs = Over(setup.nodes, BaseFs) /\ inodes = Over(setup.inodes, BaseInodes)
  BY DEF Init
<1>5. /\ DOMAIN fs = DOMAIN setup.nodes \cup DOMAIN BaseFs
      /\ \A x \in DOMAIN setup.nodes : fs[x] = setup.nodes[x]
      /\ \A x \in DOMAIN BaseFs \ DOMAIN setup.nodes : fs[x] = BaseFs[x]
  BY <1>4 DEF Over
<1>6. /\ DOMAIN inodes = DOMAIN setup.inodes \cup DOMAIN BaseInodes
      /\ \A x \in DOMAIN setup.inodes : inodes[x] = setup.inodes[x]
      /\ \A x \in DOMAIN BaseInodes \ DOMAIN setup.inodes : inodes[x] = BaseInodes[x]
  BY <1>4 DEF Over
<1>7. \A p \in DOMAIN fs : fs[p].kind = "file" => fs[p].ino \in DOMAIN inodes
  BY <1>2, <1>3, <1>5, <1>6
<1>8. DOMAIN inodes \subseteq Inodes /\ \A i \in DOMAIN inodes : inodes[i] \in Inode
  BY <1>2, <1>3, <1>6
<1>9. TypeOK
  BY <1>1, <1>7, <1>8 DEF Init, TypeOK
<1>10. Route /\ Accepted /\ Refused /\ Held /\ PrivateIsKnown
  BY DEF Init, Route, Accepted, Refused, Held, PrivateIsKnown, Unread
<1> QED BY <1>1, <1>9, <1>10 DEF IInv

\* The program's steps leave the files, the setup and the history alone.
LEMMA StepKeeps ==
  ASSUME IInv, NEW l, Step(l)
  PROVE  /\ setup' = setup /\ fs' = fs /\ inodes' = inodes /\ edits' = edits /\ private' = private
         /\ Raw' = Raw
         /\ PrivateIsKnown'
         /\ result = "running" /\ pc = l
<1>1. /\ setup' = setup /\ fs' = fs /\ inodes' = inodes /\ edits' = edits /\ private' = private
      /\ result = "running" /\ pc = l
  BY DEF Step
<1>2. Raw' = Raw /\ PrivateIsKnown'
  BY <1>1 DEF Raw, IInv, PrivateIsKnown, IsPrivate, Meant
<1> QED BY <1>1, <1>2

LEMMA LoadConfigKeeps == IInv /\ LoadConfig => IInv'
<1> SUFFICES ASSUME IInv, LoadConfig
             PROVE  IInv'
  OBVIOUS
<1>1. Step("config")
  BY DEF LoadConfig
<1> DEFINE ok == ValidRecord(Raw) /\ ValidProbe(Raw) /\ ValidProvider(Raw)
<1>2. CASE ok
  <2>1. /\ path' = TokenPath(Raw, DirOf(setup.config)) /\ pc' = "walk"
        /\ UNCHANGED <<phase, index, fd, token, result>>
    BY <1>2 DEF LoadConfig
  <2>2. setup \in Setups /\ Raw.token # Blank
    BY <1>2 DEF IInv, ValidProvider
  <2>3. path' \in Paths
    BY <2>1, <2>2, TokenPathIsMeant
  <2>4. index' = 1 /\ phase' = "validate"
    BY <1>1, <2>1 DEF IInv, Route, Step
  <2>5. index' \in DOMAIN tokenPathDirectories(path')
    BY <2>3, <2>4, WalkStarts
  <2>6. TypeOK'
    BY <1>1, <2>1, <2>5, StepKeeps DEF IInv, TypeOK
  <2>7. Accepted'
    BY <1>1, <1>2, <2>1, <2>4, StepKeeps DEF Accepted
  <2>8. Route' /\ Refused' /\ Held'
    BY <1>1, <2>1, <2>4, StepKeeps DEF IInv, Route, Refused, Held
  <2> QED BY <1>1, <2>6, <2>7, <2>8, StepKeeps DEF IInv
<1>3. CASE ~ ok
  <2>1. result' = "failed" /\ UNCHANGED <<phase, pc, index, path, fd, token>>
    BY <1>3 DEF LoadConfig, Fails
  <2>2. TypeOK'
    BY <1>1, <2>1, StepKeeps DEF IInv, TypeOK
  <2>3. Refused'
    BY <1>1, <1>3, <2>1, StepKeeps DEF Refused
  <2>4. Route' /\ Accepted' /\ Held'
    BY <1>1, <2>1, StepKeeps DEF IInv, Route, Accepted, Held
  <2> QED BY <1>1, <2>2, <2>3, <2>4, StepKeeps DEF IInv
<1> QED BY <1>2, <1>3

\* A failure anywhere else but for the reasons that Refused gives.
LEMMA FailsKeeps ==
  ASSUME IInv, NEW l, Step(l), Fails, l \notin {"config", "url", "client"}
  PROVE  IInv'
<1>1. result' = "failed" /\ UNCHANGED <<phase, pc, index, path, fd, token>>
  BY DEF Fails
<1>2. TypeOK'
  BY <1>1, StepKeeps DEF IInv, TypeOK
<1>3. Refused'
  BY <1>1, StepKeeps DEF Refused
<1>4. Route' /\ Accepted' /\ Held'
  BY <1>1, StepKeeps DEF IInv, Route, Accepted, Held
<1> QED BY <1>2, <1>3, <1>4, StepKeeps DEF IInv

LEMMA WalkKeeps == IInv /\ Walk => IInv'
<1> SUFFICES ASSUME IInv, Walk
             PROVE  IInv'
  OBVIOUS
<1>1. Step("walk")
  BY DEF Walk
<1>2. path \in Paths
  BY <1>1, PathIsFound DEF Step
<1> DEFINE directories == tokenPathDirectories(path)
<1>3. /\ Len(directories) \in Nat \ {0} /\ DOMAIN directories = 1 .. Len(directories)
      /\ index \in 1 .. Len(directories)
  BY <1>1, <1>2, WalkStarts DEF IInv, TypeOK, Step
<1> HIDE DEF directories
<1>4. CASE Fails
  BY <1>1, <1>4, FailsKeeps
<1>5. CASE Proceeds("leaf")
  <2>1. pc' = "leaf" /\ UNCHANGED <<phase, index, path, fd, token, result>>
    BY <1>5 DEF Proceeds
  <2>2. TypeOK'
    BY <1>1, <2>1, StepKeeps DEF IInv, TypeOK
  <2>3. Route' /\ Accepted' /\ Refused' /\ Held'
    BY <1>1, <2>1, StepKeeps DEF IInv, Route, Accepted, Refused, Held
  <2> QED BY <1>1, <2>2, <2>3, StepKeeps DEF IInv
<1>6. CASE index # Len(directories) /\ index' = index + 1 /\ UNCHANGED <<phase, pc, path, fd, token, result>>
  <2>1. index' \in DOMAIN tokenPathDirectories(path')
    <3>1. index + 1 \in 1 .. Len(directories)
      <4>1. \A n \in Nat : index \in 1 .. n /\ index # n => index + 1 \in 1 .. n
        OBVIOUS
      <4> QED BY <1>3, <1>6, <4>1
    <3>2. tokenPathDirectories(path') = directories
      BY <1>6 DEF directories
    <3> QED BY <1>3, <1>6, <3>1, <3>2
  <2>2. TypeOK'
    BY <1>1, <1>6, <2>1, StepKeeps DEF IInv, TypeOK
  <2>3. Route' /\ Accepted' /\ Refused' /\ Held'
    BY <1>1, <1>6, StepKeeps DEF IInv, Route, Accepted, Refused, Held
  <2> QED BY <1>1, <2>2, <2>3, StepKeeps DEF IInv
<1> QED BY <1>4, <1>5, <1>6 DEF Walk, directories

LEMMA LeafKeeps == IInv /\ (ValidateLeaf \/ ReadLeaf) => IInv'
<1> SUFFICES ASSUME IInv, ValidateLeaf \/ ReadLeaf
             PROVE  IInv'
  OBVIOUS
<1>1. Step("leaf")
  BY DEF ValidateLeaf, ReadLeaf
<1>2. CASE Fails
  BY <1>1, <1>2, FailsKeeps
<1>3. CASE \/ phase = "validate" /\ Proceeds("url")
           \/ phase = "read" /\ Proceeds("open")
  <2>1. /\ \/ phase = "validate" /\ pc' = "url"
           \/ phase = "read" /\ pc' = "open"
        /\ UNCHANGED <<phase, index, path, fd, token, result>>
    BY <1>3 DEF Proceeds
  <2>2. TypeOK'
    BY <1>1, <2>1, StepKeeps DEF IInv, TypeOK
  <2>3. Route' /\ Accepted' /\ Refused' /\ Held'
    BY <1>1, <2>1, StepKeeps DEF IInv, Route, Accepted, Refused, Held
  <2> QED BY <1>1, <2>2, <2>3, StepKeeps DEF IInv
<1> QED BY <1>2, <1>3 DEF ValidateLeaf, ReadLeaf

LEMMA ParseBaseURLKeeps == IInv /\ ParseBaseURL => IInv'
<1> SUFFICES ASSUME IInv, ParseBaseURL
             PROVE  IInv'
  OBVIOUS
<1>1. Step("url")
  BY DEF ParseBaseURL
<1>2. path \in Paths
  BY <1>1, PathIsFound DEF Step
<1>3. CASE ParsesAsHTTPSURL(setup.raw.baseURL)
  <2>1. phase' = "read" /\ pc' = "walk" /\ index' = 1 /\ UNCHANGED <<path, fd, token, result>>
    BY <1>3 DEF ParseBaseURL
  <2>2. index' \in DOMAIN tokenPathDirectories(path')
    BY <1>2, <2>1, WalkStarts
  <2>3. TypeOK'
    BY <1>1, <2>1, <2>2, StepKeeps DEF IInv, TypeOK
  <2>4. Route' /\ Accepted' /\ Refused' /\ Held'
    BY <1>1, <1>3, <2>1, StepKeeps DEF IInv, Route, Accepted, Refused, Held
  <2> QED BY <1>1, <2>3, <2>4, StepKeeps DEF IInv
<1>4. CASE ~ ParsesAsHTTPSURL(setup.raw.baseURL)
  <2>1. result' = "failed" /\ UNCHANGED <<phase, pc, index, path, fd, token>>
    BY <1>4 DEF ParseBaseURL, Fails
  <2>2. TypeOK'
    BY <1>1, <2>1, StepKeeps DEF IInv, TypeOK
  <2>3. Route' /\ Accepted' /\ Refused' /\ Held'
    BY <1>1, <1>4, <2>1, StepKeeps DEF IInv, Route, Accepted, Refused, Held
  <2> QED BY <1>1, <2>2, <2>3, StepKeeps DEF IInv
<1> QED BY <1>3, <1>4

LEMMA OpenKeeps == IInv /\ Open => IInv'
<1> SUFFICES ASSUME IInv, Open
             PROVE  IInv'
  OBVIOUS
<1>1. Step("open")
  BY DEF Open
<1> DEFINE node == Lstat(fs, Location(path))
<1>2. node.kind = "file" => node.ino \in DOMAIN inodes
  BY DEF Lstat, At, Nothing, IInv, TypeOK
<1> HIDE DEF node
<1>3. CASE Fails
  BY <1>1, <1>3, FailsKeeps
<1>4. CASE node.kind = "file" /\ fd' = node.ino /\ pc' = "stat" /\ UNCHANGED <<phase, index, path, token, result>>
  <2>1. TypeOK'
    BY <1>1, <1>2, <1>4, StepKeeps DEF IInv, TypeOK
  <2>2. Route' /\ Accepted' /\ Refused' /\ Held'
    BY <1>1, <1>2, <1>4, StepKeeps DEF IInv, Route, Accepted, Refused, Held
  <2> QED BY <1>1, <2>1, <2>2, StepKeeps DEF IInv
<1> QED BY <1>3, <1>4 DEF Open, node

LEMMA StatKeeps == IInv /\ Stat => IInv'
<1> SUFFICES ASSUME IInv, Stat
             PROVE  IInv'
  OBVIOUS
<1>1. Step("stat")
  BY DEF Stat
<1>2. CASE Fails
  BY <1>1, <1>2, FailsKeeps
<1>3. CASE hasSecurePermissions(path, inodes[fd].perm) /\ Proceeds("read")
  <2>1. pc' = "read" /\ UNCHANGED <<phase, index, path, fd, token, result>>
    BY <1>3 DEF Proceeds
  <2>2. fd \in DOMAIN inodes
    BY <1>1 DEF IInv, Held, Step
  <2>3. IsPrivate(fd)
    BY <1>1, <1>3, PathIsFound, SecureIsPrivate DEF Step, IsPrivate, IInv
  <2>4. fd \in private
    BY <2>2, <2>3 DEF IInv, PrivateIsKnown
  <2>5. TypeOK'
    BY <1>1, <2>1, StepKeeps DEF IInv, TypeOK
  <2>6. Route' /\ Accepted' /\ Refused' /\ Held'
    BY <1>1, <2>1, <2>2, <2>4, StepKeeps DEF IInv, Route, Accepted, Refused, Held
  <2> QED BY <1>1, <2>5, <2>6, StepKeeps DEF IInv
<1> QED BY <1>2, <1>3 DEF Stat

LEMMA ReadKeeps == IInv /\ Read => IInv'
<1> SUFFICES ASSUME IInv, Read
             PROVE  IInv'
  OBVIOUS
<1>1. Step("read")
  BY DEF Read
<1>2. CASE Fails
  BY <1>1, <1>2, FailsKeeps
<1>3. CASE /\ inodes[fd].content \in Tokens
           /\ token' = inodes[fd].content
           /\ pc' = "client"
           /\ UNCHANGED <<phase, index, path, fd, result>>
  <2>1. TypeOK'
    BY <1>1, <1>3, StepKeeps DEF IInv, TypeOK
  <2>2. Route' /\ Accepted' /\ Refused' /\ Held'
    BY <1>1, <1>3, StepKeeps DEF IInv, Route, Accepted, Refused, Held
  <2> QED BY <1>1, <2>1, <2>2, StepKeeps DEF IInv
<1> QED BY <1>2, <1>3 DEF Read

LEMMA NewClientKeeps == IInv /\ NewClient => IInv'
<1> SUFFICES ASSUME IInv, NewClient
             PROVE  IInv'
  OBVIOUS
<1>1. Step("client")
  BY DEF NewClient
<1>2. ClientAccepts(setup.raw)
  BY <1>1, ClientAgrees DEF IInv, Route, Accepted, Step
<1>3. result' = "ready" /\ UNCHANGED <<phase, pc, index, path, fd, token>>
  BY <1>2 DEF NewClient
<1>4. TypeOK'
  BY <1>1, <1>3, StepKeeps DEF IInv, TypeOK
<1>5. Route' /\ Accepted' /\ Refused' /\ Held'
  BY <1>1, <1>3, StepKeeps DEF IInv, Route, Accepted, Refused, Held
<1> QED BY <1>1, <1>4, <1>5, StepKeeps DEF IInv

\* What an edit does to the files keeps every file an inode.
FilesKept ==
  /\ \A p \in DOMAIN fs' : fs'[p].kind = "file" => fs'[p].ino \in DOMAIN inodes'
  /\ DOMAIN inodes \subseteq DOMAIN inodes' /\ DOMAIN inodes' \subseteq Inodes
  /\ \A i \in DOMAIN inodes' : inodes'[i] \in Inode

LEMMA EditKeeps ==
  ASSUME IInv, Edit, FilesKept
  PROVE  IInv'
<1>1. /\ result = "running" /\ edits' = edits + 1 /\ edits < setup.edits /\ setup' = setup
      /\ UNCHANGED <<phase, pc, index, path, fd, token, result>>
  BY DEF Edit, program
<1>2. private' = private \cup {i \in DOMAIN inodes' : IsPrivate(i)'}
  BY DEF Edit
<1>3. edits' \in 0 .. setup'.edits
  BY <1>1, SetupParts DEF IInv, TypeOK
<1>4. private' \subseteq DOMAIN inodes'
  BY <1>2 DEF IInv, TypeOK, FilesKept
<1>5. TypeOK'
  <2>1. fd' \in DOMAIN inodes' \cup {NoInode} /\ token' \in Tokens \cup {Unread}
    BY <1>1 DEF IInv, TypeOK, FilesKept, Unread, NoInode
  <2>2. pc' = "walk" => index' \in DOMAIN tokenPathDirectories(path')
    BY <1>1 DEF IInv, TypeOK
  <2>3. /\ phase' \in {"validate", "read"}
        /\ pc' \in {"config", "walk", "leaf", "url", "open", "stat", "read", "client"}
        /\ result' \in {"running", "ready", "failed"}
    BY <1>1 DEF IInv, TypeOK
  <2>4. (\A p \in DOMAIN fs : fs[p].kind = "file" => fs[p].ino \in DOMAIN inodes)'
    BY DEF FilesKept
  <2>5. (\A i \in DOMAIN inodes : inodes[i] \in Inode)' /\ (DOMAIN inodes \subseteq Inodes)'
    BY DEF FilesKept
  <2> QED BY <1>3, <1>4, <2>1, <2>2, <2>3, <2>4, <2>5 DEF TypeOK
<1>6. PrivateIsKnown'
  <2> SUFFICES ASSUME NEW i \in DOMAIN inodes', IsPrivate(i)'
               PROVE  i \in private'
    BY DEF PrivateIsKnown
  <2> QED BY <1>2
<1>7. Raw' = Raw
  BY <1>1 DEF Raw
<1>8. Route' /\ Accepted' /\ Refused'
  BY <1>1, <1>7 DEF IInv, Route, Accepted, Refused
<1>9. Held'
  BY <1>1, <1>2 DEF IInv, Held, FilesKept, Unread
<1> QED BY <1>1, <1>5, <1>6, <1>8, <1>9 DEF IInv

LEMMA RotateKeeps ==
  ASSUME IInv, NEW perm \in SUBSET (OwnerBits \cup OtherBits), NEW content \in Tokens, Rotate(perm, content)
  PROVE  IInv'
<1> PICK i \in Inodes \ DOMAIN inodes :
           /\ inodes' = Put(inodes, i, [perm |-> perm, content |-> content])
           /\ fs' = Put(fs, Leaf, Regular(i))
  BY DEF Rotate
<1>1. /\ DOMAIN inodes' = DOMAIN inodes \cup {i}
      /\ inodes'[i] = [perm |-> perm, content |-> content]
      /\ \A j \in DOMAIN inodes : inodes'[j] = inodes[j]
  BY DEF Put
<1>2. /\ DOMAIN fs' = DOMAIN fs \cup {Leaf}
      /\ fs'[Leaf] = Regular(i)
      /\ \A p \in DOMAIN fs : p # Leaf => fs'[p] = fs[p]
  BY DEF Put
<1>3. [perm |-> perm, content |-> content] \in Inode /\ Regular(i).ino = i
  BY DEF Inode, Regular
<1>4. DOMAIN inodes' \subseteq Inodes /\ \A j \in DOMAIN inodes' : inodes'[j] \in Inode
  BY <1>1, <1>3 DEF IInv, TypeOK
<1>5. \A p \in DOMAIN fs' : fs'[p].kind = "file" => fs'[p].ino \in DOMAIN inodes'
  BY <1>1, <1>2, <1>3 DEF IInv, TypeOK
<1>6. FilesKept
  BY <1>1, <1>4, <1>5 DEF FilesKept
<1> QED BY <1>6, EditKeeps DEF Rotate

LEMMA RewriteKeeps ==
  ASSUME IInv, NEW content \in Tokens \cup OtherContents, Rewrite(content)
  PROVE  IInv'
<1> DEFINE i == fs[Leaf].ino
<1>1. i \in DOMAIN inodes
  BY DEF Rewrite, At, Nothing, IInv, TypeOK
<1>2. inodes' = [inodes EXCEPT ![i].content = content] /\ fs' = fs
  BY DEF Rewrite
<1> HIDE DEF i
<1>3. [inodes[i] EXCEPT !.content = content] \in Inode
  BY <1>1 DEF IInv, TypeOK, Inode
<1>4. DOMAIN inodes' = DOMAIN inodes /\ \A j \in DOMAIN inodes' : inodes'[j] \in Inode
  BY <1>1, <1>2, <1>3 DEF IInv, TypeOK
<1>5. FilesKept
  BY <1>2, <1>4 DEF FilesKept, IInv, TypeOK
<1> QED BY <1>5, EditKeeps DEF Rewrite

LEMMA ChmodKeeps ==
  ASSUME IInv, NEW perm \in SUBSET (OwnerBits \cup OtherBits), Chmod(perm)
  PROVE  IInv'
<1> DEFINE i == fs[Leaf].ino
<1>1. i \in DOMAIN inodes
  BY DEF Chmod, At, Nothing, IInv, TypeOK
<1>2. inodes' = [inodes EXCEPT ![i].perm = perm] /\ fs' = fs
  BY DEF Chmod
<1> HIDE DEF i
<1>3. [inodes[i] EXCEPT !.perm = perm] \in Inode
  BY <1>1 DEF IInv, TypeOK, Inode
<1>4. DOMAIN inodes' = DOMAIN inodes /\ \A j \in DOMAIN inodes' : inodes'[j] \in Inode
  BY <1>1, <1>2, <1>3 DEF IInv, TypeOK
<1>5. FilesKept
  BY <1>2, <1>4 DEF FilesKept, IInv, TypeOK
<1> QED BY <1>5, EditKeeps DEF Chmod

LEMMA DisplaceKeeps == IInv /\ Displace => IInv'
<1> SUFFICES ASSUME IInv, Displace
             PROVE  IInv'
  OBVIOUS
<1>1. PICK x, node : fs' = Put(fs, x, node) /\ node.kind # "file"
  BY DEF Displace, Nothing, Special, Symlink, Directory
<1>2. /\ DOMAIN fs' = DOMAIN fs \cup {x} /\ fs'[x] = node
      /\ \A p \in DOMAIN fs : p # x => fs'[p] = fs[p]
  BY <1>1 DEF Put
<1>3. inodes' = inodes
  BY DEF Displace
<1>4. \A p \in DOMAIN fs' : fs'[p].kind = "file" => fs'[p].ino \in DOMAIN inodes'
  BY <1>1, <1>2, <1>3 DEF IInv, TypeOK
<1>5. FilesKept
  BY <1>3, <1>4 DEF FilesKept, IInv, TypeOK
<1> QED BY <1>5, EditKeeps DEF Displace

LEMMA NextKeepsIInv == IInv /\ [Next]_vars => IInv'
<1> SUFFICES ASSUME IInv, [Next]_vars
             PROVE  IInv'
  OBVIOUS
<1>1. CASE Loads
  BY <1>1, LoadConfigKeeps, WalkKeeps, LeafKeeps, ParseBaseURLKeeps, OpenKeeps, StatKeeps, ReadKeeps,
     NewClientKeeps DEF Loads
<1>2. CASE Operates
  <2>1. {OwnerBits, {"ur", "uw", "gr"}, {"ur", "gr"}} \subseteq SUBSET (OwnerBits \cup OtherBits)
    BY DEF OwnerBits, OtherBits
  <2> QED BY <1>2, <2>1, RotateKeeps, RewriteKeeps, ChmodKeeps, DisplaceKeeps DEF Operates
<1>3. CASE UNCHANGED vars
  <2>1. UNCHANGED <<setup, fs, inodes, phase, pc, index, path, fd, token, result, edits, private>>
    BY <1>3 DEF vars, program
  <2>2. Raw' = Raw /\ \A i : IsPrivate(i)' = IsPrivate(i)
    BY <2>1 DEF Raw, IsPrivate, Meant
  <2>3. TypeOK'
    BY <2>1 DEF IInv, TypeOK
  <2>4. Route' /\ Accepted' /\ Refused' /\ Held'
    BY <2>1, <2>2 DEF IInv, Route, Accepted, Refused, Held
  <2>5. PrivateIsKnown'
    BY <2>1, <2>2 DEF IInv, PrivateIsKnown
  <2> QED BY <2>1, <2>3, <2>4, <2>5 DEF IInv
<1> QED BY <1>1, <1>2, <1>3 DEF Next

LEMMA AlwaysIInv == Spec => []IInv
BY InitImpliesIInv, NextKeepsIInv, PTL DEF Spec

-----------------------------------------------------------------------------
(* The theorems. *)

\* Whatever is set up and edited, the state is what it is meant to be: an open
\* file has an inode, and the walk is at a directory of the path.
THEOREM TypeCorrect == Spec => []TypeOK
<1>1. IInv => TypeOK
  BY DEF IInv
<1> QED BY <1>1, AlwaysIInv, PTL

\* LoadWithOptions, Validate and cloudflare.New refuse a configuration for
\* what it says if and only if it says something that README does not allow.
THEOREM AcceptsTheDocumented == Spec => []ConfigIsSound
<1>1. IInv => ConfigIsSound
  BY DocumentedIsAccepted DEF IInv, Route, Accepted, Refused, ConfigIsSound
<1> QED BY <1>1, AlwaysIInv, PTL

\* For every combination of variable, field and directories, applyEnvironment
\* and normalizeProviderConfig find the file that README means.
THEOREM FindsTheTokenFile == Spec => []TokenPathMeans
<1>1. IInv => TokenPathMeans
  BY PathIsFound DEF TokenPathMeans
<1> QED BY <1>1, AlwaysIInv, PTL

\* However many edits there are between the system calls of Validate and
\* ReadSingleToken, the token comes from a file that was private at some time.
THEOREM TokenIsFromPrivateFile == Spec => []TokenWasPrivate
<1>1. IInv => TokenWasPrivate
  BY DEF IInv, TypeOK, Held, TokenWasPrivate
<1> QED BY <1>1, AlwaysIInv, PTL

-----------------------------------------------------------------------------
(* The two checks of the token file, on files that nobody edits. *)

LEMMA SubSeqOfJoined ==
  ASSUME NEW a \in Seq(STRING), NEW b \in Seq(STRING), NEW k \in 0 .. Len(b)
  PROVE  SubSeq(a \o b, 1, Len(a) + k) = a \o SubSeq(b, 1, k)
<1> DEFINE s == SubSeq(a \o b, 1, Len(a) + k)
           t == SubSeq(b, 1, k)
           u == a \o t
<1>1. Len(a) \in Nat /\ Len(b) \in Nat /\ k \in Nat /\ k <= Len(b)
  BY LenProperties
<1>2. /\ a \o b \in Seq(STRING) /\ Len(a \o b) = Len(a) + Len(b)
      /\ \A i \in 1 .. Len(a) + Len(b) : (a \o b)[i] = IF i <= Len(a) THEN a[i] ELSE b[i - Len(a)]
  BY ConcatProperties
<1>3. \A i \in 1 .. Len(a) + k : (a \o b)[i] \in STRING
  BY <1>1, <1>2, ElementOfSeq
<1>4. /\ s \in Seq(STRING) /\ Len(s) = Len(a) + k
      /\ \A i \in 1 .. Len(a) + k : s[i] = (a \o b)[i]
  BY <1>1, <1>3, SubSeqProperties
<1>5. \A i \in 1 .. k : b[i] \in STRING
  BY <1>1, ElementOfSeq
<1>6. t \in Seq(STRING) /\ Len(t) = k /\ \A i \in 1 .. k : t[i] = b[i]
  BY <1>1, <1>5, SubSeqProperties
<1> HIDE DEF s, t
<1>7. /\ u \in Seq(STRING) /\ Len(u) = Len(a) + k
      /\ \A i \in 1 .. Len(a) + k : u[i] = IF i <= Len(a) THEN a[i] ELSE t[i - Len(a)]
  BY <1>6, ConcatProperties
<1> HIDE DEF u
<1>8. \A i \in 1 .. Len(a) + k : s[i] = u[i]
  <2> TAKE i \in 1 .. Len(a) + k
  <2>1. i \in 1 .. Len(a) + Len(b)
    BY <1>1
  <2>2. CASE i <= Len(a)
    BY <1>2, <1>4, <1>7, <2>1, <2>2
  <2>3. CASE ~ (i <= Len(a))
    <3>1. i - Len(a) \in 1 .. k
      BY <1>1, <2>3
    <3> QED BY <1>2, <1>4, <1>6, <1>7, <2>1, <2>3, <3>1
  <2> QED BY <2>2, <2>3
<1>9. s = u
  BY <1>4, <1>7, <1>8, SeqEqual
<1> QED BY <1>9 DEF s, t, u

LEMMA FrontParts ==
  ASSUME NEW s \in Seq(STRING)
  PROVE  /\ Len(Front(s)) \in Nat
         /\ Len(Front(s)) = IF Len(s) > 0 THEN Len(s) - 1 ELSE 0
         /\ SubSeq(s, 1, Len(Front(s))) = Front(s)
<1>1. Len(s) \in Nat
  BY LenProperties
<1>2. \A i \in 1 .. Len(s) - 1 : s[i] \in STRING
  BY <1>1, ElementOfSeq
<1>3. Len(Front(s)) = IF Len(s) > 0 THEN Len(s) - 1 ELSE 0
  <2>1. Len(SubSeq(s, 1, Len(s) - 1)) = IF 1 <= Len(s) - 1 THEN Len(s) - 1 - 1 + 1 ELSE 0
    BY <1>1, <1>2, SubSeqProperties
  <2> QED BY <1>1, <2>1 DEF Front
<1>4. CASE Len(s) > 0
  BY <1>1, <1>3, <1>4 DEF Front
<1>5. CASE Len(s) = 0
  <2>1. SubSeq(s, 1, 0) = <<>> /\ SubSeq(s, 1, Len(s) - 1) = <<>>
    BY <1>5, SubSeqEmpty
  <2> QED BY <1>3, <1>5, <2>1 DEF Front
<1> QED BY <1>1, <1>3, <1>4, <1>5

\* The directories of the walk lead from where the path starts to its parent.
LEMMA WalkIsAlongThePath ==
  ASSUME NEW p \in Paths, ~ p.abs => p.names # <<>>
  PROVE  LET d == tokenPathDirectories(p)
             names == Location(p)
             start == Len(Location(p)) - Len(p.names)
             parent == Front(Location(p))
         IN /\ start \in Nat /\ Len(parent) \in Nat
            /\ Len(d) = Len(parent) - start + 1
            /\ \A i \in 1 .. Len(d) : d[i] = SubSeq(names, 1, start + i - 1)
            /\ d[1] = <<>> <=> start = 0
            /\ SubSeq(names, 1, Len(parent)) = parent
<1> DEFINE d == tokenPathDirectories(p)
           names == Location(p)
           from == IF p.abs THEN <<>> ELSE WorkingDir
           start == Len(Location(p)) - Len(p.names)
           parent == Front(Location(p))
           depth == IF p.names = <<>> THEN 1 ELSE Len(p.names)
<1>1. /\ p.names \in Seq(STRING) /\ Len(p.names) \in Nat /\ p.abs \in BOOLEAN
      /\ p.names = <<>> <=> Len(p.names) = 0
  BY PathParts, LenProperties, EmptySeq
<1>2. from \in Seq(STRING) /\ names \in Seq(STRING) /\ names = from \o p.names
  BY LoadingAssumption, LocationIsSeq, EmptySeq DEF Location
<1>3. /\ Len(from) \in Nat /\ Len(names) = Len(from) + Len(p.names)
      /\ from = <<>> <=> Len(from) = 0
  BY <1>1, <1>2, LenProperties, ConcatProperties, EmptySeq
<1>4. p.abs => Len(from) = 0
  BY EmptySeq
<1>5. start = Len(from)
  BY <1>1, <1>3
<1>6. /\ depth \in Nat \ {0}
      /\ depth = Len(p.names) \/ (depth = 1 /\ Len(p.names) = 0)
      /\ Len(p.names) = 0 => p.abs
  <2>1. CASE p.names = <<>>
    BY <1>1, <2>1
  <2>2. CASE p.names # <<>>
    BY <1>1, <2>2
  <2> QED BY <2>1, <2>2
<1>7. d = [i \in 1 .. depth |-> from \o SubSeq(p.names, 1, i - 1)]
  BY DEF tokenPathDirectories
<1> HIDE DEF from, names, start, parent, depth, d
<1>8. /\ Len(parent) \in Nat
      /\ Len(parent) = IF Len(names) > 0 THEN Len(names) - 1 ELSE 0
      /\ SubSeq(names, 1, Len(parent)) = parent
  BY <1>2, FrontParts DEF parent, names
<1>10. Len(d) = depth
  BY <1>6, <1>7
<1>11. depth = Len(parent) - start + 1
  <2>1. CASE depth = Len(p.names)
    BY <1>1, <1>3, <1>5, <1>6, <1>8, <2>1
  <2>2. CASE depth = 1 /\ Len(p.names) = 0
    BY <1>3, <1>4, <1>5, <1>6, <1>8, <2>2
  <2> QED BY <1>6, <2>1, <2>2
<1>12. \A i \in 1 .. depth : d[i] = SubSeq(names, 1, start + i - 1)
  <2> TAKE i \in 1 .. depth
  <2>1. i - 1 \in 0 .. Len(p.names) /\ start + i - 1 = Len(from) + (i - 1)
    BY <1>1, <1>3, <1>5, <1>6
  <2>2. SubSeq(from \o p.names, 1, Len(from) + (i - 1)) = from \o SubSeq(p.names, 1, i - 1)
    BY <1>1, <1>2, <2>1, SubSeqOfJoined
  <2> QED BY <1>2, <1>7, <2>1, <2>2
<1>13. d[1] = from
  <2>1. d[1] = from \o SubSeq(p.names, 1, 0)
    BY <1>6, <1>7
  <2>2. SubSeq(p.names, 1, 0) = <<>>
    BY SubSeqEmpty
  <2> QED BY <1>2, <2>1, <2>2, ConcatEmptySeq
<1>14. d[1] = <<>> <=> start = 0
  BY <1>3, <1>5, <1>13
<1>15. start \in Nat
  BY <1>3, <1>5
<1> QED BY <1>8, <1>10, <1>11, <1>12, <1>14, <1>15 DEF d, names, start, parent

\* On files that have not been edited, what is accepted so far has passed its
\* test and would pass it again, and what has failed has failed its own.
Walked ==
  edits = 0 /\ pc # "config" =>
    LET d == tokenPathDirectories(path)
        node == Lstat(fs, Location(path))
    IN /\ \A j \in DOMAIN d :
            phase = "read" \/ pc # "walk" \/ j < index => AcceptsDirectory(fs, j, d)
       /\ phase = "read" \/ pc = "url" => AcceptsLeaf(fs, inodes, path)
       /\ pc \in {"stat", "read", "client"} => fd = node.ino
       /\ result = "failed" /\ phase = "validate" =>
            /\ pc = "walk" => ~ AcceptsDirectory(fs, index, d)
            /\ pc = "leaf" => ~ AcceptsLeaf(fs, inodes, path)
       /\ result = "failed" /\ phase = "read" =>
            \/ pc = "open" /\ "ur" \notin inodes[node.ino].perm
            \/ pc = "read" /\ inodes[node.ino].content \notin Tokens

LEMMA WalkedAtFirst == Init => Walked
BY DEF Init, Walked

\* What the program leaves alone, Walked can be read with.
LEMMA WalkedRest ==
  ASSUME IInv, NEW l, Step(l), path' = path
  PROVE  /\ edits' = edits /\ tokenPathDirectories(path') = tokenPathDirectories(path)
         /\ Lstat(fs', Location(path')) = Lstat(fs, Location(path))
         /\ \A j, d : AcceptsDirectory(fs', j, d) <=> AcceptsDirectory(fs, j, d)
         /\ AcceptsLeaf(fs', inodes', path') <=> AcceptsLeaf(fs, inodes, path)
         /\ inodes' = inodes
BY StepKeeps

LEMMA WalkedKeeps == IInv /\ Walked /\ [Next]_vars => Walked'
<1> SUFFICES ASSUME IInv, Walked, [Next]_vars
             PROVE  Walked'
  OBVIOUS
<1> DEFINE d == tokenPathDirectories(path)
           node == Lstat(fs, Location(path))
           accepts(j) == AcceptsDirectory(fs, j, d)
           leaf == AcceptsLeaf(fs, inodes, path)
           Goal == edits = 0 /\ pc' # "config" =>
             /\ \A j \in DOMAIN d : phase' = "read" \/ pc' # "walk" \/ j < index' => accepts(j)
             /\ phase' = "read" \/ pc' = "url" => leaf
             /\ pc' \in {"stat", "read", "client"} => fd' = node.ino
             /\ result' = "failed" /\ phase' = "validate" =>
                  /\ pc' = "walk" => ~ accepts(index')
                  /\ pc' = "leaf" => ~ leaf
             /\ result' = "failed" /\ phase' = "read" =>
                  \/ pc' = "open" /\ "ur" \notin inodes[node.ino].perm
                  \/ pc' = "read" /\ inodes[node.ino].content \notin Tokens
           Had == edits = 0 /\ pc # "config" =>
             /\ \A j \in DOMAIN d : phase = "read" \/ pc # "walk" \/ j < index => accepts(j)
             /\ phase = "read" \/ pc = "url" => leaf
             /\ pc \in {"stat", "read", "client"} => fd = node.ino
             /\ result = "failed" /\ phase = "validate" =>
                  /\ pc = "walk" => ~ accepts(index)
                  /\ pc = "leaf" => ~ leaf
             /\ result = "failed" /\ phase = "read" =>
                  \/ pc = "open" /\ "ur" \notin inodes[node.ino].perm
                  \/ pc = "read" /\ inodes[node.ino].content \notin Tokens
<1>1. Had
  BY DEF Walked
<1>2. ASSUME NEW l, Step(l), path' = path, Goal
      PROVE  Walked'
  BY <1>2, WalkedRest, Zenon DEF Walked
<1>3. pc # "config" => /\ DOMAIN d = 1 .. Len(d) /\ Len(d) \in Nat \ {0}
                       /\ pc = "walk" => index \in 1 .. Len(d)
  BY PathIsFound, WalkStarts DEF IInv, TypeOK
<1>4. phase \in {"validate", "read"} /\ (pc = "url" => phase = "validate")
      /\ (pc \in {"open", "stat", "read", "client"} => phase = "read")
  BY DEF IInv, TypeOK, Route
<1>5. leaf => node.kind = "file" /\ hasSecurePermissions(path, inodes[node.ino].perm)
  BY DEF AcceptsLeaf
<1>6. IInv'
  BY NextKeepsIInv
<1>7. d = tokenPathDirectories(path) /\ node = Lstat(fs, Location(path))
      /\ (leaf <=> AcceptsLeaf(fs, inodes, path)) /\ \A j : accepts(j) <=> AcceptsDirectory(fs, j, d)
  OBVIOUS
<1>8. CASE LoadConfig
  <2>1. CASE pc' = "config"
    BY <2>1 DEF Walked
  <2>2. CASE pc' # "config"
    <3>1. /\ pc' = "walk" /\ index' = index /\ phase' = phase /\ result' = "running"
          /\ pc = "config"
      BY <1>8, <2>2 DEF LoadConfig, Step, Fails
    <3>2. index' = 1 /\ phase' = "validate"
      BY <3>1 DEF IInv, Route
    <3>3. path' \in Paths
      <4>1. path' = TokenPath(Raw, DirOf(setup.config)) /\ Raw.token # Blank
        BY <1>8, <2>2, <3>1 DEF LoadConfig, Fails, ValidProvider
      <4> QED BY <4>1, TokenPathIsMeant DEF IInv
    <3>4. DOMAIN tokenPathDirectories(path') = 1 .. Len(tokenPathDirectories(path'))
          /\ Len(tokenPathDirectories(path')) \in Nat
      BY <3>3, WalkStarts
    <3>5. \A j \in DOMAIN tokenPathDirectories(path') : ~ (j < index')
      BY <3>2, <3>4
    <3> QED BY <3>1, <3>2, <3>5 DEF Walked
  <2> QED BY <2>1, <2>2
<1> HIDE DEF d, node, accepts, leaf
<1>9. CASE Walk
  <2>1. Step("walk") /\ pc = "walk" /\ result = "running"
    BY <1>9 DEF Walk, Step
  <2>2. \/ ~ accepts(index) /\ result' = "failed" /\ UNCHANGED <<phase, pc, index, path, fd, token>>
        \/ /\ accepts(index) /\ index = Len(d) /\ pc' = "leaf"
           /\ UNCHANGED <<phase, index, path, fd, token, result>>
        \/ /\ accepts(index) /\ index # Len(d) /\ index' = index + 1
           /\ UNCHANGED <<phase, pc, path, fd, token, result>>
    BY <1>7, <1>9 DEF Walk, Fails, Proceeds
  <2>3. CASE ~ accepts(index) /\ result' = "failed" /\ UNCHANGED <<phase, pc, index, path, fd, token>>
    <3>1. Goal
      BY <1>1, <1>3, <1>4, <2>1, <2>3
    <3> QED BY <1>2, <2>1, <2>3, <3>1
  <2>4. CASE /\ accepts(index) /\ index = Len(d) /\ pc' = "leaf"
             /\ UNCHANGED <<phase, index, path, fd, token, result>>
    <3>1. \A j \in 1 .. Len(d) : j < index \/ j = index
      <4>1. \A n \in Nat : \A j \in 1 .. n : j < n \/ j = n
        OBVIOUS
      <4> QED BY <1>3, <2>1, <2>4, <4>1
    <3>2. Goal
      BY <1>1, <1>3, <1>4, <2>1, <2>4, <3>1
    <3> QED BY <1>2, <2>1, <2>4, <3>2
  <2>5. CASE /\ accepts(index) /\ index # Len(d) /\ index' = index + 1
             /\ UNCHANGED <<phase, pc, path, fd, token, result>>
    <3>1. \A j \in 1 .. Len(d) : j < index + 1 => j < index \/ j = index
      BY <1>3, <2>1
    <3>2. Goal
      BY <1>1, <1>3, <1>4, <2>1, <2>5, <3>1
    <3> QED BY <1>2, <2>1, <2>5, <3>2
  <2> QED BY <2>2, <2>3, <2>4, <2>5
<1>10. CASE ValidateLeaf
  <2>1. Step("leaf") /\ pc = "leaf" /\ result = "running" /\ phase = "validate" /\ path' = path
    BY <1>10 DEF ValidateLeaf, Step, Fails, Proceeds
  <2>2. Goal
    BY <1>1, <1>7, <1>10, <2>1 DEF ValidateLeaf, Fails, Proceeds
  <2> QED BY <1>2, <2>1, <2>2
<1>11. CASE ParseBaseURL
  <2>1. Step("url") /\ pc = "url" /\ result = "running" /\ phase = "validate" /\ path' = path
    BY <1>4, <1>11 DEF ParseBaseURL, Step, Fails
  <2>2. Goal
    BY <1>1, <1>11, <2>1 DEF ParseBaseURL, Fails
  <2> QED BY <1>2, <2>1, <2>2
<1>12. CASE ReadLeaf
  <2>1. Step("leaf") /\ pc = "leaf" /\ result = "running" /\ phase = "read" /\ path' = path
    BY <1>12 DEF ReadLeaf, Step, Fails, Proceeds
  <2>2. leaf /\ edits = 0 => validatePathLeaf(fs, path)
    BY <1>5, <1>7 DEF validatePathLeaf
  <2>3. Goal
    BY <1>1, <1>12, <2>1, <2>2 DEF ReadLeaf, Fails, Proceeds
  <2> QED BY <1>2, <2>1, <2>3
<1>13. CASE Open
  <2>1. Step("open") /\ pc = "open" /\ result = "running" /\ phase = "read" /\ path' = path
    BY <1>4, <1>13 DEF Open, Step, Fails
  <2>2. \/ /\ ~ (node.kind = "file" /\ "ur" \in inodes[node.ino].perm)
           /\ result' = "failed" /\ UNCHANGED <<phase, pc, index, path, fd, token>>
        \/ fd' = node.ino /\ pc' = "stat" /\ UNCHANGED <<phase, index, path, token, result>>
    BY <1>7, <1>13 DEF Open, Fails
  <2>3. Goal
    BY <1>1, <1>5, <2>1, <2>2
  <2> QED BY <1>2, <2>1, <2>3
<1>14. CASE Stat
  <2>1. Step("stat") /\ pc = "stat" /\ result = "running" /\ phase = "read" /\ path' = path
    BY <1>4, <1>14 DEF Stat, Step, Fails, Proceeds
  <2>2. Goal
    BY <1>1, <1>5, <1>14, <2>1 DEF Stat, Fails, Proceeds
  <2> QED BY <1>2, <2>1, <2>2
<1>15. CASE Read
  <2>1. Step("read") /\ pc = "read" /\ result = "running" /\ phase = "read" /\ path' = path
    BY <1>4, <1>15 DEF Read, Step, Fails
  <2>2. Goal
    BY <1>1, <1>15, <2>1 DEF Read, Fails
  <2> QED BY <1>2, <2>1, <2>2
<1>16. CASE NewClient
  <2>1. Step("client") /\ pc = "client" /\ phase = "read"
    BY <1>4, <1>16 DEF NewClient, Step
  <2>2. ClientAccepts(setup.raw)
    BY <2>1, ClientAgrees DEF IInv, Accepted
  <2>3. result' = "ready" /\ UNCHANGED <<phase, pc, index, path, fd, token>>
    BY <1>16, <2>2 DEF NewClient
  <2>4. Goal
    BY <1>1, <2>1, <2>3
  <2> QED BY <1>2, <2>1, <2>3, <2>4
<1>17. CASE Operates
  <2>1. Edit
    BY <1>17 DEF Operates, Chmod, Rotate, Rewrite, Displace
  <2>2. edits' # 0
    BY <2>1, SetupParts DEF Edit, IInv, TypeOK
  <2> QED BY <2>2 DEF Walked
<1>18. CASE UNCHANGED vars
  BY <1>18 DEF vars, program, Walked
<1> QED BY <1>8, <1>9, <1>10, <1>11, <1>12, <1>13, <1>14, <1>15, <1>16, <1>17, <1>18 DEF Next, Loads

\* What README allows is what the walk and the look at the leaf accept.
LEMMA AcceptableIsAccepted ==
  ASSUME IInv, pc # "config"
  PROVE  Acceptable <=> /\ \A j \in DOMAIN tokenPathDirectories(path) :
                             AcceptsDirectory(fs, j, tokenPathDirectories(path))
                        /\ AcceptsLeaf(fs, inodes, path)
<1> DEFINE d == tokenPathDirectories(path)
           names == Location(path)
           start == Len(Location(path)) - Len(path.names)
           parent == Front(Location(path))
           at(n) == Lstat(fs, SubSeq(names, 1, n))
           leaf == Lstat(fs, names)
<1>1. path \in Paths /\ names = Meant(setup).names /\ Raw.token # Blank
  BY PathIsFound
<1>2. Meant(setup).abs
  BY <1>1, TokenPathIsMeant DEF IInv
<1>3. ~ path.abs => path.names # <<>>
  <2> SUFFICES ASSUME ~ path.abs
               PROVE  path.names # <<>>
    OBVIOUS
  <2>1. path = TokenPath(Raw, DirOf(setup.config))
    BY PathIsFound
  <2>2. Raw.token \in Paths /\ DirOf(setup.config) \in Paths
    BY RawParts, SetupParts, DirOfParts DEF IInv
  <2>3. ~ Raw.token.abs /\ path = Join(DirOf(setup.config), Raw.token)
    BY <2>1 DEF TokenPath
  <2>4. path.names = DirOf(setup.config).names \o Raw.token.names
    BY <2>2, <2>3, JoinParts
  <2>5. Raw.token.names # <<>>
    BY <1>1, <2>2, <2>3 DEF Blank, Path, Paths
  <2>6. Raw.token.names \in Seq(STRING) /\ DirOf(setup.config).names \in Seq(STRING)
    BY <2>2, PathParts
  <2>7. Len(path.names) = Len(DirOf(setup.config).names) + Len(Raw.token.names)
    BY <2>4, <2>6, ConcatProperties
  <2>8. Len(Raw.token.names) \in Nat \ {0} /\ Len(DirOf(setup.config).names) \in Nat
    BY <2>5, <2>6, LenProperties, EmptySeq
  <2>9. Len(path.names) # 0
    <3>1. \A m \in Nat, n \in Nat \ {0} : m + n # 0
      OBVIOUS
    <3> QED BY <2>7, <2>8, <3>1
  <2> QED BY <2>9, EmptySeq
<1>4. /\ start \in Nat /\ Len(parent) \in Nat
      /\ Len(d) = Len(parent) - start + 1
      /\ \A i \in 1 .. Len(d) : d[i] = SubSeq(names, 1, start + i - 1)
      /\ d[1] = <<>> <=> start = 0
      /\ SubSeq(names, 1, Len(parent)) = parent
  BY <1>1, <1>3, WalkIsAlongThePath
<1>5. DOMAIN d = 1 .. Len(d) /\ Len(d) \in Nat \ {0}
  BY <1>1, WalkStarts
<1>6. Acceptable <=>
        /\ \A n \in start .. Len(parent) :
             \/ at(n).kind = "dir"
             \/ (at(n).kind = "link" /\ n = 1 /\ n < Len(parent) /\ start = 0)
        /\ Lstat(fs, parent).perm \cap {"gw", "ow"} = {}
        /\ leaf.kind = "file"
        /\ IsPrivate(leaf.ino)
        /\ path.abs \/ inodes[leaf.ino].perm \cap OtherBits = {}
  BY <1>1 DEF Acceptable
<1>7. /\ IsPrivate(leaf.ino)
      /\ path.abs \/ inodes[leaf.ino].perm \cap OtherBits = {}
      <=> hasSecurePermissions(path, inodes[leaf.ino].perm)
  <2>1. path.abs => path.names = Meant(setup).names
    BY <1>1, LocationIsSeq
  <2>2. isSystemdCredentialPath(path) <=> path.abs /\ isSystemdCredentialPath(Meant(setup))
    BY <1>2, <2>1 DEF isSystemdCredentialPath
  <2> QED BY <2>2 DEF IsPrivate, hasSecurePermissions
<1>8. leaf.kind = "file" /\ hasSecurePermissions(path, inodes[leaf.ino].perm)
        <=> AcceptsLeaf(fs, inodes, path)
  BY DEF AcceptsLeaf
<1> HIDE DEF d, names, start, parent, leaf
<1>9. \A i \in 1 .. Len(d) :
        AcceptsDirectory(fs, i, d) <=>
          \/ at(start + i - 1).kind = "link" /\ i = 2 /\ i # Len(d) /\ d[1] = <<>>
          \/ /\ at(start + i - 1).kind = "dir"
             /\ i = Len(d) => at(start + i - 1).perm \cap {"gw", "ow"} = {}
  BY <1>4 DEF AcceptsDirectory, allowRootAliasSymlink
<1>10. Lstat(fs, parent) = at(Len(parent))
  BY <1>4
<1> HIDE DEF at
<1>11. ASSUME \A i \in 1 .. Len(d) : AcceptsDirectory(fs, i, d)
       PROVE  /\ \A n \in start .. Len(parent) :
                   \/ at(n).kind = "dir"
                   \/ (at(n).kind = "link" /\ n = 1 /\ n < Len(parent) /\ start = 0)
              /\ Lstat(fs, parent).perm \cap {"gw", "ow"} = {}
  <2>1. ASSUME NEW n \in start .. Len(parent)
        PROVE  \/ at(n).kind = "dir"
               \/ (at(n).kind = "link" /\ n = 1 /\ n < Len(parent) /\ start = 0)
    <3>1. n - start + 1 \in 1 .. Len(d) /\ start + (n - start + 1) - 1 = n
      BY <1>4
    <3>2. \/ at(n).kind = "link" /\ n - start + 1 = 2 /\ n - start + 1 # Len(d) /\ d[1] = <<>>
          \/ at(n).kind = "dir"
      BY <1>9, <1>11, <3>1
    <3>3. n - start + 1 = 2 /\ n - start + 1 # Len(d) /\ start = 0 => n = 1 /\ n < Len(parent)
      BY <1>4
    <3> QED BY <1>4, <3>2, <3>3
  <2>2. Lstat(fs, parent).perm \cap {"gw", "ow"} = {}
    <3>1. Len(d) \in 1 .. Len(d) /\ start + Len(d) - 1 = Len(parent)
      BY <1>4, <1>5
    <3> QED BY <1>9, <1>10, <1>11, <3>1
  <2> QED BY <2>1, <2>2
<1>12. ASSUME \A n \in start .. Len(parent) :
                \/ at(n).kind = "dir"
                \/ (at(n).kind = "link" /\ n = 1 /\ n < Len(parent) /\ start = 0),
              Lstat(fs, parent).perm \cap {"gw", "ow"} = {},
              NEW i \in 1 .. Len(d)
       PROVE  AcceptsDirectory(fs, i, d)
  <2>1. start + i - 1 \in start .. Len(parent)
    BY <1>4
  <2>2. i = Len(d) => start + i - 1 = Len(parent)
    BY <1>4
  <2>3. start + i - 1 = 1 /\ start + i - 1 < Len(parent) /\ start = 0 => i = 2 /\ i # Len(d)
    BY <1>4
  <2> QED BY <1>4, <1>9, <1>10, <1>12, <2>1, <2>2, <2>3
<1>13. (\A i \in 1 .. Len(d) : AcceptsDirectory(fs, i, d)) <=>
         /\ \A n \in start .. Len(parent) :
              \/ at(n).kind = "dir"
              \/ (at(n).kind = "link" /\ n = 1 /\ n < Len(parent) /\ start = 0)
         /\ Lstat(fs, parent).perm \cap {"gw", "ow"} = {}
  BY <1>11, <1>12
<1>14. Acceptable <=> /\ \A i \in DOMAIN d : AcceptsDirectory(fs, i, d)
                      /\ AcceptsLeaf(fs, inodes, path)
  BY <1>5, <1>6, <1>7, <1>8, <1>13
<1> QED BY <1>14 DEF d

\* On a file system that stays as it is, Validate refuses only unfit files,
\* and what it has accepted ReadSingleToken and New accept too, unless its
\* owner cannot read it or there is no token in it.
THEOREM TheChecksAgree == Spec => []ChecksAgree
<1>1. IInv /\ Walked => ChecksAgree
  <2> SUFFICES ASSUME IInv, Walked, edits = 0, pc # "config"
               PROVE  /\ phase = "validate" /\ pc # "url" /\ result = "failed" => ~ Acceptable
                      /\ pc = "url" \/ phase = "read" => Acceptable
                      /\ phase = "read" /\ result = "failed" =>
                           LET held == inodes[At(fs, Leaf).ino]
                           IN \/ pc = "open" /\ "ur" \notin held.perm
                              \/ pc = "read" /\ held.content \notin Tokens
    BY DEF ChecksAgree
  <2>1. path \in Paths /\ Location(path) = Meant(setup).names
    BY PathIsFound
  <2>2. Lstat(fs, Location(path)) = At(fs, Leaf)
    BY <2>1 DEF Lstat, Leaf
  <2>3. phase = "validate" => pc \in {"walk", "leaf", "url"}
    BY DEF IInv, TypeOK, Route
  <2>4. pc = "walk" => index \in DOMAIN tokenPathDirectories(path)
    BY DEF IInv, TypeOK
  <2>5. phase = "validate" /\ pc # "url" /\ result = "failed" => ~ Acceptable
    BY <2>3, <2>4, AcceptableIsAccepted DEF Walked
  <2>6. pc = "url" \/ phase = "read" => Acceptable
    BY AcceptableIsAccepted DEF Walked
  <2>7. phase = "read" /\ result = "failed" =>
          \/ pc = "open" /\ "ur" \notin inodes[At(fs, Leaf).ino].perm
          \/ pc = "read" /\ inodes[At(fs, Leaf).ino].content \notin Tokens
    BY <2>2 DEF Walked
  <2> QED BY <2>5, <2>6, <2>7
<1> QED BY <1>1, InitImpliesIInv, NextKeepsIInv, WalkedAtFirst, WalkedKeeps, PTL DEF Spec
=============================================================================
