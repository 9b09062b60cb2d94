----------------------------- MODULE Configuration -----------------------------
(***************************************************************************)
(* The server's configuration (internal/config): defaults, a YAML file,    *)
(* environment variables and command-line flags merged in that order, then *)
(* validated; and the reload a SIGHUP asks for while the server runs.      *)
(*                                                                         *)
(* A setting stands for all the settings merged by the same rule (its      *)
(* kind): the hundred or so lines that copy one field each differ only in  *)
(* the field.  "" , "false" and "nil" are the zero values of a text, a     *)
(* bool and a *bool.                                                       *)
(***************************************************************************)
EXTENDS Naturals, Sequences, FiniteSets

CONSTANTS
  Topics,     \* sets of settings looked at together, the others absent
  Varied(_),  \* those of them that variables and flags may give
  DBLists(_),    \* database lists a file may have
  DBEnvs(_),     \* PGEDGE_DB_* and PG* variables: see ApplyDatabaseEnv
  DBFlags(_),    \* -db-* flags: see ApplyDatabaseFlags
  KeyFileHolds, \* what the key file contains, "" when it is missing
  MaxEdits    \* bound: edits of the file

VARIABLES topic, file, env, flags, config, phase, edits, outcome
vars == <<topic, file, env, flags, config, phase, edits, outcome>>

Kind ==
  [http_address |-> "text", trace_file |-> "text", rate_limit |-> "text",
   http_enabled |-> "switch", tls_enabled |-> "switch",
   cert_file |-> "text", private_key |-> "text",
   query_database |-> "choice", count_rows |-> "forgotten",
   auth_enabled |-> "auth", token_file |-> "tokens",
   api_tokens |-> "choice", password_login |-> "choice", oauth |-> "choice",
   issuer |-> "text", lifetime |-> "text",
   kb_enabled |-> "kb switch", kb_path |-> "kb text", kb_provider |-> "kb text",
   key |-> "text", key_file |-> "text"]

Default ==
  [http_address |-> ":8080", trace_file |-> "", rate_limit |-> "10",
   http_enabled |-> "false", tls_enabled |-> "false",
   cert_file |-> "", private_key |-> "",
   query_database |-> "nil", count_rows |-> "nil",
   auth_enabled |-> "true", token_file |-> "",
   api_tokens |-> "nil", password_login |-> "nil", oauth |-> "nil",
   issuer |-> "", lifetime |-> "1h",
   kb_enabled |-> "false", kb_path |-> "", kb_provider |-> "ollama",
   key |-> "", key_file |-> ""]

WithFlag == {"http_address", "trace_file", "http_enabled", "tls_enabled", "cert_file",
             "private_key", "auth_enabled", "token_file"}
WithEnv == DOMAIN Kind \ {"key_file", "lifetime"}

IsBool(x) == Kind[x] \in {"switch", "choice", "forgotten", "auth", "kb switch"}
\* An issuer may be none that is accepted, nor need a lifetime (which stands
\* for the rest of the OAuth settings) be.
Values(x) == IF IsBool(x) THEN {"true", "false"}
             ELSE IF x \in {"issuer", "lifetime"} THEN {"a", "bad"} ELSE {"a"}
Given(t, allowed) == {g \in [t -> {"absent", "true", "false", "a", "bad"}] :
                        \A x \in t : g[x] \in {"absent"} \cup (IF x \in allowed THEN Values(x) ELSE {})}

-----------------------------------------------------------------------------
(* Merging the settings.                                                   *)

\* The file is read into an empty Config: what it does not mention is zero.
Zero(x) == IF Kind[x] \in {"choice", "forgotten"} THEN "nil" ELSE IF IsBool(x) THEN "false" ELSE ""
Parsed(f) == [x \in DOMAIN f |-> IF f[x] = "absent" THEN Zero(x) ELSE f[x]]

\* mergeConfig: which fields of the file are copied over the defaults.
Copies(src, x) ==
  CASE Kind[x] = "text" -> src[x] # ""
    [] Kind[x] = "switch" -> src[x] = "true"
    [] Kind[x] = "choice" -> src[x] # "nil"
    [] Kind[x] \in {"auth", "tokens"} -> src["token_file"] # "" \/ src["auth_enabled"] = "false"
    [] Kind[x] = "kb switch" -> src["kb_path"] # "" \/ src["kb_enabled"] = "true"
    [] Kind[x] = "kb text" -> (src["kb_path"] # "" \/ src["kb_enabled"] = "true") /\ src[x] # ""
    [] Kind[x] = "forgotten" -> FALSE
MergeConfig(dest, src) == [x \in DOMAIN dest |-> IF Copies(src, x) THEN src[x] ELSE dest[x]]

\* A variable or flag that is given replaces the value; the rest stays.
Override(dest, given) == [x \in DOMAIN dest |-> IF given[x] = "absent" THEN dest[x] ELSE given[x]]

\* A key file is read only when there is no key yet.
ReadKeyFile(s) ==
  IF {"key", "key_file"} \subseteq DOMAIN s /\ s["key"] = "" /\ s["key_file"] # "" /\ KeyFileHolds # ""
    THEN [s EXCEPT !["key"] = KeyFileHolds] ELSE s

-----------------------------------------------------------------------------
(* The databases.  Variables and flags apply to the first of the list.     *)

DefaultDB == [name |-> "default", host |-> "localhost", hosts |-> <<>>, user |-> "",
              attrs |-> "", cert |-> "", certkey |-> ""]
Or(value, old) == IF value = "" THEN old ELSE value

Only(S) == CHOOSE x \in S : TRUE

\* A list of hosts is given as a text, which may be none.
Malformed == <<"no list">>

\* Without a database in the file, one is made up if a user is named; a
\* standard PG* variable replaces only a value still at its default. A list
\* of hosts that is none is ignored. hosts: {} when it is not given.
ApplyDatabaseEnv(dbs, e) ==
  LET first == IF dbs # <<>> THEN dbs
               ELSE IF e.user # "" \/ e.pguser # "" THEN <<DefaultDB>> ELSE <<>>
      Own(d) == [d EXCEPT !.host = Or(e.host, @), !.user = Or(e.user, @),
                          !.cert = Or(e.cert, @), !.certkey = Or(e.certkey, @)]
      Standard(d) == [d EXCEPT !.host = IF @ = "localhost" THEN Or(e.pghost, @) ELSE @,
                               !.user = Or(@, e.pguser), !.cert = Or(@, e.pgcert),
                               !.certkey = Or(@, e.pgcertkey)]
      Hosts(d) == IF e.hosts \in {{}, {Malformed}} THEN d
                  ELSE [d EXCEPT !.hosts = Only(e.hosts), !.host = ""]
      Attrs(d) == [d EXCEPT !.attrs = Or(e.attrs, @)]
  IN IF first = <<>> THEN <<>> ELSE [first EXCEPT ![1] = Attrs(Hosts(Standard(Own(@))))]

\* A flag is {} or what it was given, if only an empty text.
Set(flag, old) == IF flag = {} THEN old ELSE Only(flag)
ApplyDatabaseFlags(dbs, f) ==
  LET given == \E x \in DOMAIN f : f[x] # {}
      first == IF dbs = <<>> /\ given THEN <<DefaultDB>> ELSE dbs
      Own(d) == [d EXCEPT !.host = Set(f.host, @), !.user = Set(f.user, @),
                          !.cert = Set(f.cert, @), !.certkey = Set(f.certkey, @)]
      Hosts(d) == IF f.hosts = {} THEN d ELSE [d EXCEPT !.hosts = Only(f.hosts), !.host = ""]
      Attrs(d) == [d EXCEPT !.attrs = Set(f.attrs, @)]
  IN IF first = <<>> THEN <<>> ELSE [first EXCEPT ![1] = Attrs(Hosts(Own(@)))]

\* "?": characters that a host name has not, or a port that is none.
ValidDatabase(d) ==
  /\ d.name # "" /\ d.user # ""
  /\ d.hosts = <<>> \/ d.host = ""
  /\ d.host # "?" /\ \A i \in DOMAIN d.hosts : d.hosts[i] \notin {"", "?"}
  /\ d.attrs # "" => d.hosts # <<>> /\ d.attrs \in {"any", "primary"}
  /\ (d.cert # "") = (d.certkey # "")

ValidDatabases(dbs) ==
  /\ \A i \in DOMAIN dbs : ValidDatabase(dbs[i])
  /\ \A i, j \in DOMAIN dbs : dbs[i].name = dbs[j].name => i = j

\* A setting that is not looked at is absent from every source.
Setting(s, x) == IF x \in DOMAIN s THEN s[x] ELSE Default[x]

OAuthActive(s) ==
  Setting(s, "auth_enabled") = "true" /\ Setting(s, "oauth") # "false" /\ Setting(s, "issuer") # ""

\* With authentication there is a way to be authenticated, and what OAuth
\* uses is acceptable if it is used.
ValidAuth(s) ==
  Setting(s, "auth_enabled") = "true" =>
    /\ \/ Setting(s, "api_tokens") # "false" \/ Setting(s, "password_login") # "false"
       \/ OAuthActive(s)
    /\ OAuthActive(s) => "bad" \notin {Setting(s, "issuer"), Setting(s, "lifetime")}

ValidSettings(s) ==
  /\ Setting(s, "tls_enabled") = "true" =>
       /\ Setting(s, "http_enabled") = "true"
       /\ Setting(s, "cert_file") # "" /\ Setting(s, "private_key") # ""
  /\ ValidAuth(s)

Valid(c) == ValidSettings(c.settings) /\ ValidDatabases(c.databases)

-----------------------------------------------------------------------------
(* Loading.                                                                *)

Defaults(t) == [settings |-> [x \in t |-> Default[x]], databases |-> <<>>]

FromFile(t, f) ==
  IF f.broken THEN Defaults(t)
  ELSE [settings |-> MergeConfig(Defaults(t).settings, Parsed(f.settings)), databases |-> f.databases]

Unchecked(t, f, e, g) ==
  LET c == FromFile(t, f) IN
  [settings |-> Override(ReadKeyFile(Override(c.settings, e.settings)), g.settings),
   databases |-> ApplyDatabaseFlags(ApplyDatabaseEnv(c.databases, e.databases), g.databases)]

\* A file that cannot be read or parsed is an error only when it was named
\* on the command line; a -db-hosts that is no list of hosts always is one.
Unusable(f, g) == (f.broken /\ g.configFileSet) \/ Malformed \in g.databases.hosts

LoadConfig_CheckedEarly(t, f, e, g) ==
  LET c == FromFile(t, f)
      early == [c EXCEPT !.databases = ApplyDatabaseEnv(@, e.databases)]
  IN IF Unusable(f, g) \/ ~Valid(early)
       THEN [ok |-> FALSE, config |-> Defaults(t)]
       ELSE [ok |-> TRUE, config |-> Unchecked(t, f, e, g)]
LoadConfig(t, f, e, g) ==
  LET c == Unchecked(t, f, e, g)
  IN IF Unusable(f, g) \/ ~Valid(c)
       THEN [ok |-> FALSE, config |-> Defaults(t)] ELSE [ok |-> TRUE, config |-> c]

\* The flags a reload starts from: of those given at the start, main hands on
\* the ones about databases and tracing.
ReloadFlags(g) ==
  [settings |-> [x \in DOMAIN g.settings |-> IF x = "trace_file" THEN g.settings[x] ELSE "absent"],
   databases |-> g.databases, configFileSet |-> FALSE]

Init ==
  /\ topic \in Topics
  /\ file \in [settings : Given(topic, topic), databases : DBLists(topic), broken : BOOLEAN]
  /\ env \in [settings : Given(topic, WithEnv \cap Varied(topic)), databases : DBEnvs(topic)]
  /\ flags \in [settings : Given(topic, WithFlag \cap Varied(topic)), databases : DBFlags(topic),
               configFileSet : BOOLEAN]
  /\ config = Defaults(topic) /\ phase = "starting" /\ edits = 0 /\ outcome = "none"

\* main: a configuration that does not load ends the program.
Start ==
  LET loaded == LoadConfig(topic, file, env, flags) IN
  /\ phase = "starting"
  /\ phase' = IF loaded.ok THEN "up" ELSE "refused"
  /\ config' = IF loaded.ok THEN loaded.config ELSE config
  /\ UNCHANGED <<topic, file, env, flags, edits, outcome>>

\* Someone edits the file, or is seen doing so.
Edit ==
  /\ phase = "up" /\ edits < MaxEdits
  /\ file' \in [settings : Given(topic, topic), databases : DBLists(topic), broken : BOOLEAN]
  /\ edits' = edits + 1 /\ outcome' = "none"
  /\ UNCHANGED <<topic, env, flags, config, phase>>

\* SIGHUP, heard in HTTP mode only: the new configuration replaces the old
\* one whole, or an error leaves the old one.
Reload ==
  LET loaded == LoadConfig(topic, file, env, ReloadFlags(flags)) IN
  /\ phase = "up" /\ edits > 0 /\ outcome = "none"
  /\ config' = IF loaded.ok THEN loaded.config ELSE config
  /\ outcome' = IF loaded.ok THEN "reloaded" ELSE "failed"
  /\ UNCHANGED <<topic, file, env, flags, phase, edits>>

Next == Start \/ Edit \/ Reload
Spec == Init /\ [][Next]_vars

-----------------------------------------------------------------------------
(* Properties.                                                             *)

TypeOK ==
  /\ topic \in Topics /\ phase \in {"starting", "up", "refused"} /\ edits \in 0 .. MaxEdits
  /\ DOMAIN config.settings = topic /\ outcome \in {"none", "reloaded", "failed"}

\* The order the code and its documentation promise: a flag before a
\* variable, a variable before the file, the file before the default; of a
\* key, the key file before a key written in the configuration.
Ranked(x, g) ==
  IF x = "key" THEN
    IF env.settings[x] # "absent" THEN env.settings[x]
    ELSE IF ~file.broken /\ "key_file" \in topic /\ file.settings["key_file"] # "absent" /\ KeyFileHolds # ""
      THEN KeyFileHolds
    ELSE IF file.broken \/ file.settings[x] = "absent" THEN Default[x] ELSE file.settings[x]
  ELSE IF g.settings[x] # "absent" THEN g.settings[x]
  ELSE IF env.settings[x] # "absent" THEN env.settings[x]
  ELSE IF file.broken \/ file.settings[x] = "absent" THEN Default[x] ELSE file.settings[x]

\* The four places where the code departs from that order: count_rows in the
\* file is never read; a file that leaves authentication out turns it off; a
\* knowledge base section with neither enabled nor a path is dropped; a key in
\* the file keeps the key file from being read.
Departs(x) ==
  \/ Kind[x] = "forgotten"
  \/ Kind[x] = "auth" /\ file.settings["auth_enabled"] = "absent"
  \/ Kind[x] \in {"kb switch", "kb text"} /\ file.settings["kb_path"] = "absent"
       /\ file.settings["kb_enabled"] # "true"
  \/ x = "key" /\ file.settings["key"] # "absent"

\* Everywhere else each setting has the value of its highest source, after a
\* start and after a reload alike.
SourcesRanked ==
  phase = "up" /\ outcome # "failed" /\ (edits > 0 => outcome = "reloaded") =>
    \A x \in topic : Departs(x) \/
      config.settings[x] = Ranked(x, IF outcome = "reloaded" THEN ReloadFlags(flags) ELSE flags)

\* What runs is valid, overrides included: distinct names, a user, one way to
\* name the hosts, TLS only with HTTP and a certificate, authentication with
\* some way to be authenticated.
RunningIsValid == phase = "up" => Valid(config)

\* The -db flags the server was started with keep their rank in a reload: the
\* first database is what a fresh start on the same file would make it.
ReloadKeepsDatabaseFlags ==
  phase = "up" /\ outcome = "reloaded" =>
    config.databases = Unchecked(topic, file, env, flags).databases

\* What Reload says of itself: when the file cannot be loaded, the old
\* configuration is kept.  The reload forgets that the file was named, so
\* that an unreadable one counts as absent and the defaults take over.
\* Not so in the code: see the README.
BrokenFileKeepsConfig ==
  [][outcome' # outcome /\ outcome' # "none" /\ file.broken => config' = config]_vars
=============================================================================
