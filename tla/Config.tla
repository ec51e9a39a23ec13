-------------------------------- MODULE Config --------------------------------
(***************************************************************************)
(* internal/config: which configurations are accepted, and where the token *)
(* file is.  Names are sequences of labels, URLs and paths are records of  *)
(* the parts that the code looks at, durations are numbers of seconds.     *)
(***************************************************************************)
EXTENDS Integers, SequencesExt

CONSTANTS
  ValidLabels,    \* 1 to 63 bytes of letters, digits, - and _; or the label *
  IPv4Host, IPv6Host, APIHost,   \* hosts of the default URLs
  LoopbackHosts   \* localhost and the loopback addresses

\* A path: absolute or not, and its components.
Path(abs, names) == [abs |-> abs, names |-> names]
Blank == Path(FALSE, <<>>)

Join(dir, path) == Path(dir.abs, dir.names \o path.names)
DirOf(path) == Path(path.abs, Front(path.names))

\* resolvePath leaves a blank path blank, so that it is refused later.
resolvePath(path, dir) == IF path = Blank \/ path.abs THEN path ELSE Join(dir, path)

\* A slip: the variable's path is taken relative to the configuration file.
applyEnvironmentLate(raw, env, workingDir) ==
  IF env = <<>> THEN raw ELSE [raw EXCEPT !.token = Head(env)]

\* env holds the value of the variable, if it is set; set to nothing counts.
applyEnvironment(raw, env, workingDir) ==
  IF env = <<>> THEN raw ELSE [raw EXCEPT !.token = resolvePath(Head(env), workingDir)]

-----------------------------------------------------------------------------
(* record *)

\* A name of at most 253 bytes; the case of letters and the final dot are gone.
normalizeFQDN(name) == name # <<>> /\ ToSet(name) \subseteq ValidLabels

isNameWithinZone(name, zone) == name = zone \/ IsStrictSuffix(zone, name)

ValidRecord(raw) ==
  /\ normalizeFQDN(raw.name)
  /\ normalizeFQDN(raw.zone)
  /\ isNameWithinZone(raw.name, raw.zone)
  /\ raw.ttl # 0

-----------------------------------------------------------------------------
(* probe *)

URL(scheme, host, extra) == [scheme |-> scheme, host |-> host, extra |-> extra]

\* The empty string, for which the default URL stands in.
NoURL == URL("", "", "none")
OrDefault(url, host) == IF url = NoURL THEN URL("https", host, "none") ELSE url

validateTrustedHost(url, host) == url.host = host \/ url.host \in LoopbackHosts

\* extra is "user", "fragment" or "query" where the URL has such a part.
validateURLStructure(url, host) ==
  /\ url.host # ""
  /\ url.extra = "none"
  /\ validateTrustedHost(url, host)

\* A slip: over HTTP, too, the default host will do.
ParsesAsProbeURLAnyHost(raw, host, allowHTTP) ==
  LET url == OrDefault(raw, host)
  IN (url.scheme = "https" \/ (url.scheme = "http" /\ allowHTTP)) /\ validateURLStructure(url, host)

ParsesAsProbeURL(raw, host, allowHTTP) ==
  LET url == OrDefault(raw, host)
  IN /\ \/ url.scheme = "https"
        \/ url.scheme = "http" /\ allowHTTP /\ url.host \in LoopbackHosts
     /\ validateURLStructure(url, host)

\* A duration may be absent; 0 also stands for one that does not parse.
ParsesAsDuration(raw) == raw = <<>> \/ Head(raw) > 0

ValidProbe(raw) ==
  /\ ParsesAsProbeURL(raw.ipv4, IPv4Host, raw.allowHTTP)
  /\ ParsesAsProbeURL(raw.ipv6, IPv6Host, raw.allowHTTP)
  /\ ParsesAsDuration(raw.probeTimeout)

-----------------------------------------------------------------------------
(* provider *)

validateCloudflareTTL(ttl) == ttl = 1 \/ (30 <= ttl /\ ttl <= 86400)

\* What normalizeProviderConfig asks for before it looks at the token file.
ValidProvider(raw) ==
  /\ ParsesAsDuration(raw.timeout)
  /\ raw.type = "cloudflare"
  /\ validateCloudflareTTL(raw.ttl)
  /\ raw.zoneID \in {"hexadecimal", "CLOUDFLARE_ZONE_ID"}
  /\ raw.token # Blank

TokenPath(raw, baseDir) == IF raw.token.abs THEN raw.token ELSE Join(baseDir, raw.token)

\* ... and afterwards.
ParsesAsHTTPSURL(raw) ==
  LET url == OrDefault(raw, APIHost) IN url.scheme = "https" /\ validateURLStructure(url, APIHost)

\* The second check of the base URL, in the provider client.
ClientAccepts(raw) ==
  LET url == OrDefault(raw.baseURL, APIHost)
  IN /\ url.host # ""
     /\ url.extra = "none"
     /\ (url.host = APIHost /\ url.scheme = "https") \/ url.host \in LoopbackHosts
=============================================================================
