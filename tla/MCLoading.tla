------------------------------- MODULE MCLoading -------------------------------
(* Configurations that differ from a good one in two fields, token files in *)
(* every state that the checks tell apart, and edits of a few of them.      *)
EXTENDS Loading

MCWorkingDir == <<"run">>
MCCredentialsDir == <<"run", "credentials", "unit">>
MCOtherFile == <<"etc", "other">>
MCOtherDir == <<"srv">>
MCInodes == 1..8
MCTokens == {"t1", "t2"}
MCOtherContents == {"empty", "two words", "too long"}

Ascii == {"example", "com", "www", "*"}
MCLoopback == {"localhost"}

Good == [name |-> <<"www", "example", "com">>, zone |-> <<"example", "com">>, ttl |-> 300,
         ipv4 |-> NoURL, ipv6 |-> NoURL, allowHTTP |-> FALSE, probeTimeout |-> <<>>,
         timeout |-> <<>>, type |-> "cloudflare", zoneID |-> "hexadecimal",
         token |-> Path(FALSE, <<"token">>), baseURL |-> NoURL]

Names == {<<>>, <<"com">>, <<"example", "com">>, <<"www", "example", "com">>,
          <<"*", "example", "com">>, <<"example", "com", "www">>, <<"", "com">>}
Hosts == {"", "4.ip.omsab.net", "6.ip.omsab.net", "api.cloudflare.com", "localhost", "elsewhere"}
MCURLs == {NoURL} \cup {URL(s, h, "none") : s \in {"https", "http", "ftp"}, h \in Hosts}
          \cup {URL("https", "localhost", x) : x \in {"user", "fragment", "query"}}
Durations == {<<>>, <<-1>>, <<0>>, <<1>>}

Values ==
  [name |-> Names, zone |-> Names, ttl |-> {0, 1, 2, 29, 30, 86400, 86401}, ipv4 |-> MCURLs,
   ipv6 |-> MCURLs, allowHTTP |-> BOOLEAN, probeTimeout |-> Durations, timeout |-> Durations,
   type |-> {"", "cloudflare", "route53"}, zoneID |-> {"", "hexadecimal", "CLOUDFLARE_ZONE_ID", "zone"},
   token |-> {Blank, Path(FALSE, <<"token">>), Path(TRUE, <<"var", "dns", "token">>)}, baseURL |-> MCURLs]

Variants ==
  UNION {{[Good EXCEPT ![f] = v, ![g] = w] : v \in Values[f], w \in Values[g]} :
           f, g \in DOMAIN Values}

-----------------------------------------------------------------------------
Open755 == OwnerBits \cup {"gr", "gx", "or", "ox"}
Mode600 == {"ur", "uw"}
Mode440 == {"ur", "gr"}
Mode640 == {"ur", "uw", "gr"}

Dirs == {<<>>, <<"etc">>, <<"etc", "dns">>, <<"run">>, <<"run", "sub">>, <<"srv">>,
         <<"run", "credentials">>, MCCredentialsDir, <<"private">>, <<"private", "dns">>}

\* A token where each path leads, and /var as a link to /private.
TokenFiles ==
  (<<"etc", "dns", "token">> :> Regular(1)) @@ (<<"run", "token">> :> Regular(2))
    @@ (<<"run", "credentials", "unit", "token">> :> Regular(3))
    @@ (<<"private", "dns", "token">> :> Regular(4)) @@ (<<"run", "sub", "token">> :> Regular(5))
    @@ (<<"srv", "token">> :> Regular(6)) @@ (MCOtherFile :> Regular(6))

GoodFs == TokenFiles @@ (<<"var">> :> Symlink(<<"private">>)) @@ [d \in Dirs |-> Directory(Open755)]
GoodInodes == [i \in 1..6 |-> [perm |-> IF i = 3 THEN Mode440 ELSE Mode600,
                               content |-> IF i = 6 THEN "t2" ELSE "t1"]]

ConfigFile == Path(TRUE, <<"etc", "dns", "config.json">>)

Setup(raw, env, config, nodes, inos, n) ==
  [raw |-> raw, env |-> env, config |-> config, nodes |-> nodes, inodes |-> inos, edits |-> n]

AsIs == <<>>

\* What the configuration says.
ConfigSetups == {Setup(raw, <<>>, ConfigFile, AsIs, AsIs, 0) : raw \in Variants}

\* Which of field, variable and directories decide where the token is.
TokenPaths == {Blank, Path(TRUE, <<>>), Path(FALSE, <<"token">>), Path(FALSE, <<"sub", "token">>),
               Path(TRUE, <<"var", "dns", "token">>), Path(TRUE, MCCredentialsDir \o <<"token">>),
               Path(FALSE, <<"credentials", "unit", "token">>)}
ConfigFiles == {ConfigFile, Path(FALSE, <<"config.json">>), Path(FALSE, <<"sub", "config.json">>)}
Envs == {<<>>} \cup {<<p>> : p \in TokenPaths}
WithToken(p) == [Good EXCEPT !.token = p]

PathSetups ==
  {Setup(WithToken(p), e, c, AsIs, AsIs, 0) : p \in TokenPaths, e \in Envs, c \in ConfigFiles}

\* How the file, its directory and what is above it look.
UsedPaths == {Path(TRUE, <<"etc", "dns", "token">>), Path(TRUE, <<"var", "dns", "token">>),
              Path(TRUE, MCCredentialsDir \o <<"token">>), Path(TRUE, <<"var", "token">>)}
Leaves == {Nothing, Special, Symlink(MCOtherFile), Directory(Open755), Regular(1)}
Parents == {Directory(Open755), Directory(Open755 \cup {"gw"}), Symlink(MCOtherDir), Special, Nothing}
Perms == {Mode600, Mode440, Mode640, {"ur"}, {}, {"ur", "or"}}

FileSetups ==
  UNION {
    LET p == q.names
    IN {Setup(WithToken(q), <<>>, ConfigFile, (p :> leaf) @@ (Front(p) :> parent),
              (1 :> [perm |-> perm, content |-> content]), 0) :
          leaf \in Leaves, parent \in Parents, perm \in Perms, content \in MCTokens \cup MCOtherContents}
    : q \in UsedPaths}
  \cup {Setup(WithToken(q), <<>>, ConfigFile, (SubSeq(q.names, 1, n) :> node), AsIs, 0) :
          q \in UsedPaths, n \in 0 .. 2, node \in {Symlink(MCOtherDir), Special, Nothing}}

\* Which of them are edited meanwhile.
EditSetups ==
  {Setup(WithToken(q), <<>>, ConfigFile, AsIs, AsIs, 3) :
     q \in {Path(TRUE, <<"var", "dns", "token">>), Path(TRUE, MCCredentialsDir \o <<"token">>)}}

MCSetups == ConfigSetups \cup PathSetups \cup FileSetups \cup EditSetups
=============================================================================
