------------------------------ MODULE MCServer ------------------------------
(***************************************************************************)
(* The rest of the server, each part in behaviours of its own, the others  *)
(* at rest: its configuration; the database a request is answered from;    *)
(* and the pure operators on small inputs.                                 *)
(***************************************************************************)
EXTENDS RequestRouting, ServerConfiguration, TLC

CONSTANTS r1, r2, t1, Nothing

VARIABLES part, kind, input

\* The configurations between which reloads go: both databases for everyone,
\* the first withheld from users or from models, one only.
Entry(forUsers, forModels) == [open |-> forUsers, llm |-> forModels]
Both == [first |-> 1, entry |-> [d \in {1, 2} |-> Entry(TRUE, TRUE)]]
Withheld == [first |-> 1, entry |-> [d \in {1, 2} |-> Entry(d = 2, d = 1)]]
OnlySecond == [first |-> 2, entry |-> [d \in {2} |-> Entry(TRUE, TRUE)]]
MCCatalogues == {Both, Withheld, OnlySecond}

\* Each rule of merging with the settings it ties together, and the databases.
TLS == {"http_enabled", "tls_enabled", "cert_file", "private_key"}
Auth == {"auth_enabled", "token_file"}
MCTopics == {{"http_address"}, {"rate_limit"}, {"trace_file"}, {"query_database"}, {"count_rows"},
             TLS, Auth, Auth \cup {"api_tokens", "password_login"}, Auth \cup {"oauth", "issuer"},
             Auth \cup {"issuer", "lifetime"},
             {"kb_enabled", "kb_path", "kb_provider"}, {"key", "key_file"}, {}}
MCVaried(t) == CASE t = TLS -> {"tls_enabled"}
                 [] t # Auth /\ Auth \subseteq t -> {"password_login", "issuer"}
                 [] OTHER -> t

Single(name, user) == [name |-> name, host |-> "localhost", hosts |-> <<>>, user |-> user,
                       attrs |-> "", cert |-> "", certkey |-> ""]
Multi(name) == [Single(name, "u") EXCEPT !.host = "", !.hosts = <<"m">>]
Named == {Single("d1", "u"), Single("d1", ""), Single("d2", "u"), Multi("d1")}
MCDBLists(t) == IF t # {} THEN {<<>>}
  ELSE {<<>>} \cup {<<d>> : d \in Named} \cup {<<d, Single("d2", "u")>> : d \in Named}
NoEnv == [host |-> "", user |-> "", pghost |-> "", pguser |-> "", hosts |-> {}, attrs |-> "",
          cert |-> "", certkey |-> "", pgcert |-> "", pgcertkey |-> ""]
SomeEnv == [NoEnv EXCEPT !.user = "e", !.hosts = {<<"m">>}]
MCDBEnvs(t) == IF t # {} THEN {NoEnv}
  ELSE {[NoEnv EXCEPT !.host = h, !.user = u, !.pghost = s, !.pguser = p] :
          h \in {"", "h1"}, u \in {"", "e"}, s \in {"", "h2"}, p \in {"", "p"}}
       \cup {[SomeEnv EXCEPT !.hosts = {s}] : s \in {<<"m">>, <<"?">>, <<>>, Conf!Malformed}}
       \cup {[SomeEnv EXCEPT !.attrs = "any"], [SomeEnv EXCEPT !.attrs = "worst"],
             [SomeEnv EXCEPT !.host = "h1"], [NoEnv EXCEPT !.attrs = "any"],
             [NoEnv EXCEPT !.cert = "c", !.pgcertkey = "k"], [NoEnv EXCEPT !.pgcert = "c"]}
NoDBFlags == [host |-> {}, user |-> {}, hosts |-> {}, attrs |-> {}, cert |-> {}, certkey |-> {}]
MCDBFlags(t) == IF t # {} THEN {NoDBFlags}
  ELSE {NoDBFlags} \cup {[NoDBFlags EXCEPT !.host = {h}] : h \in {"h3", ""}}
    \cup {[NoDBFlags EXCEPT !.user = {u}] : u \in {"f", ""}}
    \cup {[NoDBFlags EXCEPT !.hosts = {s}] : s \in {<<"n">>, Conf!Malformed}}
    \cup {[NoDBFlags EXCEPT !.attrs = {"any"}], [NoDBFlags EXCEPT !.certkey = {"c"}]}

Pure == INSTANCE MCAlgorithms WITH
  defaultRowLimit <- 2, maxRowLimit <- 3, Empty <- Nothing

pureVars == <<kind, input>>
all == <<part, vars, configVars, pureVars>>

\* No settings, no databases; no authentication.
ConfigurationRests ==
  /\ topic = {} /\ file = [settings |-> <<>>, databases |-> <<>>, broken |-> FALSE]
  /\ env = [settings |-> <<>>, databases |-> NoEnv]
  /\ flags = [settings |-> <<>>, databases |-> NoDBFlags, configFileSet |-> FALSE]
  /\ Conf!Init
NobodyIsAnyone == principal = [t \in Tokens |-> [api |-> FALSE, bound |-> None]]
RouteRests == authEnabled = FALSE /\ started = Both /\ NobodyIsAnyone /\ Init
PureRests == kind = "none" /\ input = "none"

ServerInit ==
  \/ part = "configuration" /\ Conf!Init /\ RouteRests /\ PureRests
  \/ /\ part = "routing" /\ Init /\ (~authEnabled => NobodyIsAnyone)
     /\ ConfigurationRests /\ PureRests
  \/ part = "pure" /\ Pure!Init /\ ConfigurationRests /\ RouteRests

ServerNext ==
  \/ part = "configuration" /\ Conf!Next /\ UNCHANGED <<part, vars, pureVars>>
  \/ part = "routing" /\ Next /\ UNCHANGED <<part, configVars, pureVars>>

ServerSpec == ServerInit /\ [][ServerNext]_all

\* The requests are alike.
Alike == Permutations({r1, r2})

\* See MCAlgorithms: how a statement is read and its result limited; what a
\* similarity search ranks, cuts and chooses; what a prompt or a custom tool
\* makes of its arguments; how a request is admitted and answered.
StatementsRead ==
  part = "pure" => /\ Pure!ResidueIsCode /\ Pure!SecondStatementIsSeen
                   /\ Pure!WritesAreSeen /\ Pure!OwnLimitIsSeen /\ Pure!CapHolds /\ Pure!PagesJoinUp
SearchSound ==
  part = "pure" => /\ Pure!ColumnsAgree /\ Pure!ChunksCover
                   /\ Pure!EveryRowIsChunked /\ Pure!SelectionSound
RequestsHonoured ==
  part = "pure" => /\ Pure!PromptsFilledIn /\ Pure!ParamsBind
                   /\ Pure!ListedBeforeUse /\ Pure!WritingToolsSaySo
                   /\ Pure!TransportsAgree /\ Pure!EraRespected
                   /\ Pure!ExactlyAdmitted /\ Pure!AddressIsTheCallers
=============================================================================
