----------------------------- MODULE UrlHandler -----------------------------
(***************************************************************************)
(* The URL algorithms of UrlHandler, beside those the gateway and          *)
(* CollaborationService use to lead a URL to its page and its project.     *)
(*                                                                         *)
(* A URL is what is typed: a record with a protocol of the special kind    *)
(* (http and the like), a host, perhaps a port, a path and perhaps a query *)
(* and a fragment; or a text that does not parse.  A path is the sequence  *)
(* of what its slashes separate: <<"">> is "/", <<"a", "">> is "/a/".      *)
(***************************************************************************)
EXTENDS Integers, Sequences, FiniteSets

CONSTANTS
    Unparsable,     \* texts that new URL() throws on
    Loopback,       \* localhost and 127.0.0.1
    DotLocal,       \* hosts that end in .local
    Domains,        \* hosts the pattern for domains accepts
    Suspicious,     \* hosts one of suspiciousPatterns matches
    DevNames,       \* hosts whose name contains dev or test
    StagingNames,   \* hosts whose name contains staging or stg
    withoutWww,     \* a host without its leading www.
    None            \* a port that is not there, a value that is undefined

DefaultPort == [protocol \in {"http:", "https:", "ftp:"} |->
                  CASE protocol = "http:" -> 80 [] protocol = "https:" -> 443 [] OTHER -> 21]

\* new URL(): the port of the protocol is left out.
Parsed(url) ==
    IF url.port = DefaultPort[url.protocol] THEN [url EXCEPT !.port = None] ELSE url

\* CollaborationGateway.normalizeUrl
gatewayNormalizeUrl(url) ==
    IF url \in Unparsable THEN url
    ELSE [Parsed(url) EXCEPT !.query = FALSE, !.fragment = FALSE]

\* Mutant: the last segment goes, whatever it is.
WithoutSlash_AnySegment(path) ==
    IF Len(path) > 1 THEN SubSeq(path, 1, Len(path) - 1) ELSE path

\* One trailing slash goes, that of the root stays.
WithoutSlash(path) ==
    IF Len(path) > 1 /\ path[Len(path)] = "" THEN SubSeq(path, 1, Len(path) - 1) ELSE path

\* Mutant: the query stays.
normalizeUrl_KeepsQuery(url) ==
    IF url \in Unparsable \cup {None} THEN url
    ELSE [protocol |-> IF url.hostname \in Loopback THEN "http:" ELSE "https:",
          hostname |-> url.hostname, port |-> Parsed(url).port,
          path |-> WithoutSlash(url.path), query |-> url.query, fragment |-> FALSE]

\* Mutant: on this host the protocol is the one that was given.
normalizeUrl_KeepsLocalProtocol(url) ==
    IF url \in Unparsable \cup {None} THEN url
    ELSE [protocol |-> IF url.hostname \in Loopback THEN url.protocol ELSE "https:",
          hostname |-> url.hostname, port |-> Parsed(url).port,
          path |-> WithoutSlash(url.path), query |-> FALSE, fragment |-> FALSE]

normalizeUrl(url) ==
    IF url \in Unparsable \cup {None} THEN url
    ELSE [protocol |-> IF url.hostname \in Loopback THEN "http:" ELSE "https:",
          hostname |-> url.hostname, port |-> Parsed(url).port,
          path |-> WithoutSlash(url.path), query |-> FALSE, fragment |-> FALSE]

\* The truncated SHA-256 of a text, laid out as a UUID: no two texts share one.
HashOf(text) == [sha256 |-> text]

urlToProjectId(url) == HashOf(normalizeUrl(url))

\* CollaborationService hashes the page the gateway hands it as it is.
pageToProjectId(url) == HashOf(gatewayNormalizeUrl(url))

Valid(url) ==
    /\ url \notin Unparsable
    /\ url.protocol \in {"http:", "https:"}
    /\ url.hostname \in Loopback \cup DotLocal \cup Domains

validateUrl(url) ==
    IF Valid(url) THEN [isValid |-> TRUE, normalizedUrl |-> normalizeUrl(url)]
    ELSE [isValid |-> FALSE, normalizedUrl |-> None]

extractDomainFromUrl(url) ==
    IF url \in Unparsable THEN url ELSE withoutWww[url.hostname]

\* Which of these places comes as the n-th.
PlaceOf(places, n) == CHOOSE i \in places : Cardinality({j \in places : j < i}) = n - 1

\* filter(): what a sequence has at these places, in its order.
Filtered(seq, places) == [n \in 1..Cardinality(places) |-> seq[PlaceOf(places, n)]]

PathSegments(path) == Filtered(path, {i \in DOMAIN path : path[i] # ""})

\* The domain, followed by the first segment of the path.
generateProjectNameFromUrl(url) ==
    IF url \in Unparsable THEN <<None>>
    ELSE <<withoutWww[url.hostname]>> \o
           LET segments == PathSegments(url.path)
           IN  IF segments = <<>> THEN <<>> ELSE <<Head(segments)>>

createDefaultSettings(isUrlBased) ==
    LET keys == {"allowComments", "allowGuests", "isPublic", "maxCollaborators",
                 "enableRealTimeSync", "enableMouseTracking", "enableNotifications"}
                \cup IF isUrlBased THEN {"autoCreateFromUrl", "urlBasedProject", "autoSync"} ELSE {}
    IN  [key \in keys |-> IF key = "maxCollaborators" THEN 50 ELSE TRUE]

\* Only what is no text at all cannot be hashed.
convertSingleUrl(url) ==
    [url |-> url, success |-> url # None,
     projectId |-> IF url = None THEN None ELSE urlToProjectId(url)]

convertUrlsToProjectIds(urls) ==
    LET results    == [i \in DOMAIN urls |-> convertSingleUrl(urls[i])]
        successful == Filtered(results, {i \in DOMAIN results : results[i].success})
    IN  [results |-> results,
         projectIds |-> [i \in DOMAIN successful |-> successful[i].projectId]]

checkIsDevelopment(hostname) == hostname \in Loopback \cup DotLocal \cup DevNames

estimateProjectType(hostname) ==
    CASE checkIsDevelopment(hostname) -> "development"
      [] ~checkIsDevelopment(hostname) /\ hostname \in StagingNames -> "staging"
      [] OTHER -> "production"

DefaultAnalysis ==
    [isLocalhost |-> FALSE, isDevelopment |-> FALSE, hasPath |-> FALSE, hasQuery |-> FALSE,
     hasFragment |-> FALSE, protocol |-> "https:", hostname |-> None, pathSegments |-> <<>>,
     estimatedProjectType |-> "production"]

analyzeUrlPattern(url) ==
    IF url \in Unparsable THEN DefaultAnalysis
    ELSE [isLocalhost |-> url.hostname \in Loopback,
          isDevelopment |-> checkIsDevelopment(url.hostname),
          hasPath |-> url.path # <<"">>, hasQuery |-> url.query, hasFragment |-> url.fragment,
          protocol |-> url.protocol, hostname |-> url.hostname,
          pathSegments |-> PathSegments(url.path),
          estimatedProjectType |-> estimateProjectType(url.hostname)]

\* One warning for each check that fails.
SecurityWarnings(url) ==
    (IF url.protocol = "http:" /\ url.hostname \notin Loopback THEN {"protocol"} ELSE {}) \cup
    (IF url.hostname \in Suspicious THEN {"domain"} ELSE {}) \cup
    IF Parsed(url).port \in {None, 80, 443, 3000, 3001, 8000, 8080} THEN {} ELSE {"port"}

validateUrlSecurity(url) ==
    LET warnings == IF url \in Unparsable THEN {"format"} ELSE SecurityWarnings(url)
    IN  [isSafe |-> warnings = {}, warnings |-> warnings]
=============================================================================
