------------------------------ MODULE Protocol ------------------------------
(***************************************************************************)
(* How the server answers one JSON-RPC request, by each of its two         *)
(* transports: the loop over standard input, and the HTTP handler with the *)
(* middleware around it (internal/mcp, internal/auth). The transports have *)
(* a dispatcher and a set of handlers each.                                *)
(*                                                                         *)
(* A protocol revision is its place in the order of their dates, 0 where   *)
(* none is given; the revisions implemented are the even ones. A result is *)
(* the fields added to it, the revision it names, and whether a provider   *)
(* (tools, resources, prompts, databases) was asked. main sets them all.   *)
(***************************************************************************)
EXTENDS Integers, Sequences, FiniteSetsExt

(***************************************************************************)
(* Revisions                                                               *)
(***************************************************************************)
supportedProtocolVersions == {2, 4, 6, 8}
ProtocolVersion == 8
ModernProtocolVersion == 10

NegotiateProtocolVersion(requested) ==
  IF requested = 0 THEN ProtocolVersion
  ELSE Max({2} \cup {v \in supportedProtocolVersions : v <= requested})

\* A request is modern when its _meta names a revision; over HTTP also when
\* the header names one that is none of the legacy ones.
isModernRequest(r) == r.version # 0
isModernHTTP(r, h) ==
  isModernRequest(r) \/ h.version \notin supportedProtocolVersions \cup {0}

(***************************************************************************)
(* Answers                                                                 *)
(***************************************************************************)
NoAnswer == [code |-> 0, fields |-> {"none"}, names |-> 0, ran |-> FALSE]
Result(fields, ran) == [code |-> 0, fields |-> fields, names |-> 0, ran |-> ran]
Failure(code, ran) == [code |-> code, fields |-> {}, names |-> 0, ran |-> ran]

ParseError == -32700
MethodNotFound == -32601
InvalidParams == -32602
Internal == -32603
HeaderMismatch == -32020
Unsupported == -32022

mergeModernFields(fields, cacheable) ==
  fields \cup {"resultType", "serverInfo"}
         \cup (IF cacheable THEN {"ttlMs"} ELSE {})

resourceNotFoundCode(r) == IF isModernRequest(r) THEN InvalidParams ELSE -32002

\* server/discover builds its fields itself.
DiscoverFields == {"resultType", "serverInfo", "ttlMs"}

\* What is wrong with a modern request whatever its transport; 0: nothing.
validateModernRequestStdio(r) ==
  CASE ~r.caps -> InvalidParams
    [] r.caps /\ r.version # ModernProtocolVersion -> Unsupported
    [] OTHER -> 0

(***************************************************************************)
(* Standard input                                                          *)
(***************************************************************************)
sendResponseFor(r, cacheable, ran) ==
  Result(IF isModernRequest(r) THEN mergeModernFields({}, cacheable) ELSE {}, ran)

\* A handler that decodes its parameters and asks a provider.
Asking(r, out, cacheable) ==
  IF ~r.decodes THEN Failure(InvalidParams, FALSE)
  ELSE IF out # "ok" THEN Failure(Internal, TRUE)
  ELSE sendResponseFor(r, cacheable, TRUE)

handleResourceRead(r, out) ==
  IF r.decodes /\ out = "unknown" THEN Failure(resourceNotFoundCode(r), TRUE)
  ELSE Asking(r, out, TRUE)

handleSelectDatabase(r) ==
  IF ~r.decodes \/ r.name = "" THEN Failure(InvalidParams, FALSE)
  ELSE sendResponseFor(r, FALSE, TRUE)

handleInitialize(r) ==
  IF ~r.decodes THEN Failure(InvalidParams, FALSE)
  ELSE [Result({}, FALSE) EXCEPT !.names = NegotiateProtocolVersion(r.asked)]

handleRequest(r, out) ==
  LET rejected == isModernRequest(r) /\ validateModernRequestStdio(r) # 0
  IN CASE rejected -> Failure(validateModernRequestStdio(r), FALSE)
       [] ~rejected /\ r.method = "initialize" ->
            IF isModernRequest(r) THEN Failure(MethodNotFound, FALSE)
            ELSE handleInitialize(r)
       [] ~rejected /\ r.method = "server/discover" -> Result(DiscoverFields, FALSE)
       [] ~rejected /\ r.method = "ping" -> sendResponseFor(r, FALSE, FALSE)
       [] ~rejected /\ r.method \in {"tools/list", "resources/list", "prompts/list"} ->
            sendResponseFor(r, TRUE, TRUE)
       [] ~rejected /\ r.method \in {"tools/call", "prompts/get"} -> Asking(r, out, FALSE)
       [] ~rejected /\ r.method = "resources/read" -> handleResourceRead(r, out)
       [] ~rejected /\ r.method = "pgedge/listDatabases" ->
            IF out # "ok" THEN Failure(Internal, TRUE) ELSE sendResponseFor(r, FALSE, TRUE)
       [] ~rejected /\ r.method = "pgedge/selectDatabase" -> handleSelectDatabase(r)
       [] OTHER -> Failure(MethodNotFound, FALSE)

\* One line of input. A notification has no id, which is not a null one.
Run(r, out) ==
  IF ~r.parses THEN Failure(ParseError, FALSE)
  ELSE IF r.id = "absent" THEN NoAnswer
  ELSE handleRequest(r, out)

(***************************************************************************)
(* HTTP                                                                    *)
(***************************************************************************)

\* A request has a name and a uri among its parameters: "" is an absent one,
\* "?" one that is no text, for which neither is found.
nameOrURI(r) ==
  CASE "?" \in {r.name, r.uri} -> ""
    [] "?" \notin {r.name, r.uri} /\ r.name # "" -> r.name
    [] OTHER -> r.uri

\* A header value is given plainly or in base64, which may not decode.
decodeHeaderValue(v) == IF v[1] = "broken" THEN "?" ELSE v[2]

methodsRequiringMcpName == {"tools/call", "resources/read", "prompts/get"}

NameHeaderMatches(r, h) ==
  /\ h.name[1] \in {"plain", "base64"}
  /\ decodeHeaderValue(h.name) = nameOrURI(r)

\* Mutant: the method of the body is not compared with its header.
validateModernHeaders_AnyMethod(r, h) ==
  CASE h.version = 0 -> HeaderMismatch
    [] h.version # 0 /\ ~isModernRequest(r) -> InvalidParams
    [] h.version # 0 /\ isModernRequest(r)
       /\ (\/ h.version # r.version
           \/ h.method = ""
           \/ r.method \in methodsRequiringMcpName /\ ~NameHeaderMatches(r, h))
       -> HeaderMismatch
    [] OTHER -> 0

validateModernHeaders(r, h) ==
  CASE h.version = 0 -> HeaderMismatch
    [] h.version # 0 /\ ~isModernRequest(r) -> InvalidParams
    [] h.version # 0 /\ isModernRequest(r)
       /\ (\/ h.version # r.version
           \/ h.method # r.method
           \/ r.method \in methodsRequiringMcpName /\ ~NameHeaderMatches(r, h))
       -> HeaderMismatch
    [] OTHER -> 0

validateModernRequestHTTP(r, h) ==
  IF validateModernHeaders(r, h) # 0 THEN validateModernHeaders(r, h)
  ELSE validateModernRequestStdio(r)

\* The handlers above that answer with a cacheable result.
cacheableMethods == {"tools/list", "resources/list", "prompts/list", "resources/read"}

\* The second dispatcher, whose results are wrapped by its caller.
AskingHTTP(r, out) ==
  IF ~r.decodes THEN Failure(InvalidParams, FALSE)
  ELSE IF out # "ok" THEN Failure(Internal, TRUE) ELSE Result({}, TRUE)

handleRequestHTTP(r, out) ==
  CASE r.method = "initialize" ->
         IF isModernRequest(r) THEN Failure(MethodNotFound, FALSE)
         ELSE IF ~r.decodes THEN Failure(InvalidParams, FALSE)
         ELSE [Result({}, FALSE) EXCEPT !.names = NegotiateProtocolVersion(r.asked)]
    [] r.method = "server/discover" -> Result(DiscoverFields, FALSE)
    [] r.method = "ping" -> Result({}, FALSE)
    [] r.method \in {"tools/list", "resources/list", "prompts/list"} -> Result({}, TRUE)
    [] r.method \in {"tools/call", "prompts/get"} -> AskingHTTP(r, out)
    [] r.method = "resources/read" ->
         IF r.decodes /\ out = "unknown" THEN Failure(resourceNotFoundCode(r), TRUE)
         ELSE AskingHTTP(r, out)
    [] r.method = "pgedge/listDatabases" ->
         IF out # "ok" THEN Failure(Internal, TRUE) ELSE Result({}, TRUE)
    [] r.method = "pgedge/selectDatabase" ->
         IF ~r.decodes \/ r.name = "" THEN Failure(InvalidParams, FALSE)
         ELSE Result({}, TRUE)
    [] OTHER -> Failure(MethodNotFound, FALSE)

wrapModernResultForMethod(r, answer) ==
  [answer EXCEPT !.fields = mergeModernFields(@, r.method \in cacheableMethods)]

\* A POST to /mcp/v1: its status and its body.
handleHTTPRequest(r, h, out) ==
  LET modern   == isModernHTTP(r, h)
      rejected == IF modern THEN validateModernRequestHTTP(r, h) ELSE 0
      answer   == handleRequestHTTP(r, out)
  IN CASE ~r.parses -> <<200, Failure(ParseError, FALSE)>>
       [] r.parses /\ r.id = "absent" -> <<202, NoAnswer>>
       [] r.parses /\ r.id # "absent" /\ rejected # 0 -> <<400, Failure(rejected, FALSE)>>
       [] OTHER ->
            <<IF modern /\ answer.code = MethodNotFound THEN 404 ELSE 200,
              IF modern /\ answer.code = 0 THEN wrapModernResultForMethod(r, answer)
              ELSE answer>>

(***************************************************************************)
(* What a caller of this transport is to send                              *)
(***************************************************************************)

\* The parameter that the handler of a method takes: the uri for
\* resources/read, the name for the rest.
Target(r) == IF r.method = "resources/read" THEN r.uri ELSE r.name

\* The request has that one only, and it is a text.
NamedOnce(r) ==
  /\ Target(r) # "?"
  /\ IF r.method = "resources/read" THEN r.name = "" ELSE r.uri = ""

\* The headers repeat the body: of a modern request its revision, its method
\* and what its handler takes; of a legacy one no more than its revision.
Mirrors(r, h) ==
  IF r.version = 0 THEN h.version \in supportedProtocolVersions \cup {0}
  ELSE /\ h.version = r.version /\ h.method = r.method
       /\ r.method \in methodsRequiringMcpName =>
            h.name[1] \in {"plain", "base64"} /\ h.name[2] = Target(r)

(***************************************************************************)
(* The middleware                                                          *)
(***************************************************************************)

\* Scheme, host and the port, its default where none is written; <<>> when it
\* is no origin. more: a path, a query, a fragment or user information.
normaliseOrigin(o) ==
  IF o.scheme \in {"http", "https"} /\ o.host # "" /\ ~o.more
  THEN <<o.scheme, o.host, IF o.port # 0 THEN o.port
                           ELSE IF o.scheme = "https" THEN 443 ELSE 80>>
  ELSE <<>>

originFromIssuer(issuer) == [issuer EXCEPT !.more = FALSE]

EffectiveOrigins(configured, issuer) ==
  configured \cup {originFromIssuer(i) : i \in
                     {i \in issuer : i.scheme \in {"http", "https"} /\ i.host # ""}}

loopback == {"localhost", "127.0.0.1", "::1"}

\* A list entry that is no origin keeps the server from starting.
NewOriginPolicy(origins) == \A o \in origins : normaliseOrigin(o) # <<>>

\* origin: {} when the header is absent.
Allow(origins, origin) ==
  \A o \in origin :
    /\ normaliseOrigin(o) # <<>>
    /\ \/ normaliseOrigin(o) \in {normaliseOrigin(a) : a \in origins}
       \/ origins = {} /\ o.host \in loopback

\* The caller's address: the nearest entry of the forwarding header that is
\* no trusted proxy. An entry that is no address ("?") ends the search.
Resolve(socket, list, trusted) ==
  LET known == {i \in DOMAIN list : list[i] \notin trusted}
  IN IF socket \notin trusted \/ known = {} \/ list[Max(known)] = "?" THEN socket
     ELSE list[Max(known)]

\* The paths of the authorisation server, which are there when OAuth is used;
\* the two that describe it need no credential even when it is not.
WellKnown == {"/.well-known/oauth-authorization-server", "/.well-known/oauth-protected-resource"}
OAuthPaths ==
  WellKnown \cup {"/oauth/register", "/oauth/authorize", "/oauth/token", "/oauth/device",
                  "/oauth/device/verify", "/oauth/revoke", "/oauth/static/logo",
                  "/oauth/static/favicon"}
OpenPaths == {"/health", "/api/user/info", "/api/openapi.json"}
PublicPaths(oauth) == OpenPaths \cup WellKnown \cup (IF oauth THEN OAuthPaths ELSE {})

\* The handlers in the order buildHandler puts them: the status of a request
\* and what its handler answers, 200 being whatever that of a public path says.
\* signIn: a call of authenticate_user.
Serve(q, origins, authEnabled, passwordLogin, oauth) ==
  LET open     == q.path \in PublicPaths(oauth) \/ (passwordLogin /\ q.signIn)
      present  == OpenPaths \cup (IF oauth THEN OAuthPaths ELSE {})
      answered == handleHTTPRequest(q.body, q.headers, q.out)
      refused(status) == <<status, NoAnswer>>
  IN CASE ~Allow(origins, q.origin) -> refused(403)
       [] OTHER ->
            IF authEnabled /\ ~open /\ ~q.valid THEN refused(401)
            ELSE IF q.path \in present THEN refused(200)
            ELSE IF q.path # "/mcp/v1" THEN refused(404)
            ELSE IF q.verb # "POST" THEN refused(405)
            ELSE IF answered[2].ran /\ q.out = "panic" THEN refused(500)
            ELSE answered
=============================================================================
