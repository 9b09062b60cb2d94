# The pgEdge Natural Language Agent in TLA+

TLA+ specifications of the pgEdge MCP server and of its command-line client
(`src/internal`, `src/cmd`), the TLC configurations that model-check them on small
instances, and theorems about them checked by TLAPS for every value of the constants.

* [1. The system](#1-the-system) - components, state, interactions, what is hard
* [2. Modules](#2-modules) - what models what, and how it corresponds to the code
* [3. Runs](#3-runs) - what each run checks, its bounds, and what it shows
* [4. Fairness](#4-fairness)
* [5. Where the code and what is said of it disagree](#5-where-the-code-and-what-is-said-of-it-disagree)
* [6. Proofs](#6-proofs)
* [7. Not modelled, and what could come next](#7-not-modelled-and-what-could-come-next)

`PROJECT.json` lists the same things for tools: every definition with the source lines it
stands for, every run with its properties, every hazard with the property that covers it,
and for each property a mutation of the code that breaks it (the operators named
`<Definition>_<What>` in the modules, which nothing in the specifications uses).

## 1. The system

The server exposes PostgreSQL databases to language models over the Model Context
Protocol, by stdio (one request at a time) or by HTTP (one goroutine per request). A CLI
and a web client hold the conversation with the model and call the server's tools.

### Parts with state of their own

| component | state | operations | hard behaviour | what makes it correct |
|---|---|---|---|---|
| **OAuth token endpoint** `internal/oauth` | codes, tokens, used-code and rotation records, under `Store.mu` | sign-in, code grant, refresh grant, revocation, validation, sweep | a handler makes several store calls, with others' calls in between; replay; limits; expiry at the boundary | a credential buys one successor; a replay revokes its family; no half pairs; every access token that goes is reported |
| **OAuth device grant** `internal/oauth` | device codes and the index by user code | request codes, answer in a browser, poll, sweep | two browsers, two polls; answers after expiry; clock read outside the lock; user codes drawn twice | one answer, which stands; one grant, to who approved; polls held to their interval; an index that agrees with the store |
| **User accounts, rate limiter** `internal/auth` | accounts in memory and in a file; attempts per address | sign in, lock out, reload, save, five administrator's commands | two writers of one file, read in the middle of a write; a lockout that is not written; check, then record | whoever is put out of use is reported; a bounded overshoot of the limit; a lockout that lasts |
| **File watcher, service tokens** `internal/auth` | hash of the content last loaded, timer, wait group; the loaded store | event, debounce, check, reload, stop | Stop against a timer that has fired; content that changes between hash and load | what is in memory is in the end what is in the file; nothing runs after Stop |
| **Database client manager** `internal/database` | a pool per token and database, the current database per token, the configurations, under `cm.mu` | look up, create, switch, reload, release, close | closing a pool waits for its queries, at places with `cm.mu` held; a configuration read, then used | no pool lost, none shared, none closed under a query; new configurations take effect; revoked tokens let go; other sessions are served |
| **Catalogue metadata** `internal/database`, `internal/tools` | per connection: metadata, time of load, the single-flight record, under `c.mu` | ensure, load, refresh after DDL, expire, close | waiters on an attempt whose record `Close` drops; loads past the single flight | one load at a time; no waiter forgotten; never an older catalogue over a newer one |
| **Query tools, resources** `internal/tools`, `internal/resources`, `internal/database` | connections of the pools, their sessions and transactions; the default connection | query, explain, count, custom tools, resources | an error, a refusal, a lost answer or a cancellation at every step | the reply says what became of the statement; a read-only pool stays so; no connection and no temporary function is left behind |
| **Request routing** `internal/tools`, `internal/api` | current database per session, registries per client, who may use what | tool call, three ways to select, three to be shown | several looks, each under a lock of its own, while configurations and credentials change | a tool runs only where its caller may; a selection is what the next request uses, and what is shown |
| **Configuration** `internal/config`, `cmd` | the running configuration | load at start, reload on SIGHUP | four sources, each setting by one of several rules, applied again with part of the flags | each setting from its highest source; what runs is valid |
| **Chat client** `internal/chat` | the conversation, the current database and whether it is writable, the terminal's listeners | ask the model, run tools, confirm, cancel, compact, switch, load | Escape between call and result; a copy of what the server last said | each query gives the prompt back; calls and results stay together; writes are confirmed |
| **CLI token cache** `internal/chat` | tokens in memory and in a file shared by processes | login, refresh, logout | two processes refresh one token; an answer or a write is lost | a login nothing disturbs is never taken for a replay; its pair can always be refreshed |
| OAuth client registry `internal/oauth` | clients, with last use | register, touch, evict, sweep | eviction of a client whose first token is being issued | not modelled |
| Conversation store `internal/conversations` | rows in SQLite under one lock | create, update, rename, delete, list | two tabs save the whole conversation | not modelled |
| Web client `web/src` | session, current database, conversation, in React state | login, refresh, chat stream, save | requests answered after the state they belong to has changed | not modelled |

### Parts without

The compactor, similarity search, the scan of SQL text and the row limits, prompts and
custom definitions, and the MCP protocol's dispatch compute an answer from one request:
they are modelled as operators, each compared with a definition of what it should compute
on every small input. Logging, tracing, encryption, TSV and REST descriptions format data.
`PROJECT.json` lists each with its files and the reason it is or is not modelled.

### How they interact

```
 CLI / web client --HTTP--> middleware --validate--> OAuth store, service tokens
  (Chat, CliTokens)         (Protocol)               (OAuthTokens, DeviceGrant, FileWatcher)
                               |
                               v  token hash
                          tool provider --getClient--> client manager --> pool --> PostgreSQL
                         (RequestRouting)              (ClientManager)   (QueryTransaction)
                               |                           ^    ^
                               +--EnsureMetadataFor--> metadata  |      (MetadataReload)
                                                           |    |
 user store --revocation hook--> OAuth server --onRevoke---+    +--- SIGHUP reload
 (UserAccounts)  (after its lock is released)  (after Store.mu is released)   (Configuration)
      ^
      +-- lockout, disable, file reload
```

Three calls in this picture cross a lock boundary on purpose: the user store tells the
OAuth server of a withdrawn account after releasing its own lock; the store tells its hook
of removed tokens after releasing `Store.mu`; and `RemoveClients` takes clients out of the
map under `cm.mu` and closes them outside. Between release and call anything may happen,
and the models let it.

## 2. Modules

Granularity is the same everywhere: a critical section is one step, and between two
critical sections of one goroutine any other may run. `pc[t]` is the place of goroutine
`t`, `req[t]` its local variables; a handler is the sequence of its calls, each an action
named after the method. What a step under a lock waits for, it waits for in the model.

### Authentication

**OAuthTokens** (`oauth/store.go`, `token.go`, `authorize.go`, `revoke.go`). `tokens`,
`codes`, `usedCodes` and `rotated` are the store's maps. `TakeCode` to `MarkCodeUsed` is
`handleAuthorizationCodeGrant`, `TakeToken` to `MarkRefreshRotated` is
`handleRefreshTokenGrant`, with `PutRefresh`, `PutAccess` and `Undo` the three outcomes
inside `issueTokensWithHash`. `Sweep` is `Store.Sweep`. `active` and `hook` are what the
user store contributes: an account disabled, and its hook yet to run. Whether client,
redirect URI and verifier match is one Boolean; a refused request still consumes what it
took, as in the code.

**CredentialChain** is what that endpoint promises, without store, clock or request: a
credential is born once, taken once, and exchanged for at most one successor.
**OAuthTokensRefinement** maps the endpoint to it, and states fairness and liveness.

**DeviceGrant** (`oauth/device.go`, and the store's device methods) models both endpoints
of the device flow: `RequestDevice`; the form, its password and its answer; the poll, its
touch, the account check, the take and the issue. The index `userCodes` is kept as the
code keeps it, entry by entry. With `Colliding` a user code may be drawn twice, which
nothing in the code prevents. **DeviceFlow** is the abstract flow (a code is answered once
and granted once, to its approver); **DeviceGrantRefinement** the mapping.

**UserAccounts** (`auth/users.go`, `rate_limiter.go`, the two ways to log in, the commands
of `cmd/pgedge-pg-mcp-svr/users.go`). `mem` is the store, `file` the YAML file, `check`
the watcher's check and `Reload` in their four steps, `admin` the store a command has
loaded in its own process. `SaveUserStore` takes no lock and `os.WriteFile` empties the
file before it writes it, so a save is `MarshalRest`, `Truncate`, `Write`, and a reload in
between reads an empty file.

**FileWatcher** (`auth/watcher.go`, and the loading of either store): `ReadEvent` restarts
the debounce timer, a callback locks `hashMu`, hashes and reloads; `AwaitExit` and its
neighbours are `Stop`. `checkWG` is the wait group's counter, and `CountExact` says what it
must count.

**Protocol** (`mcp/server.go`, `modern.go`, `http_server.go`, `origin.go`,
`auth/middleware.go`, `client_ip.go`): the two transports as two operators from a request
to its answer; the eras and revisions, their headers, origins, addresses.

### Databases

**ClientManager** (`database/client_manager.go`, `connection.go` for `Close`,
`context_aware_provider.go` for `getClient`, `database_switching.go`, `main.go` for the
release of revoked tokens). Because `Pool.Close` waits for checked-out connections, a
close is two steps, and an operation that closes with `cm.mu` held keeps every other out
until it is done: the closer `Mu`. `RemoveClients` hands its clients to a closer of its
own, outside the lock. A configuration is the number of the reload it last changed in.

**MetadataReload** (`database/connection.go`, and the tools that load directly).
`EnsureMetadataFor` is `Ensure`, `Join`, `Recheck`, the load, `FinishReload`, `Publish`
and `Wait`; `LoadMetadataFor` is `Load`, `Query`, `ReadRows`, `Write`. The catalogue is a
number, one up with every DDL statement of anyone.

**QueryTransaction** (`tools/query_database.go`, `execute_explain.go`, `count_rows.go`,
`custom_tool.go`, `database/connection.go` for connecting and for what the pool does with a
returned connection). A call connects with `c.mu` held, begins, executes, reads its rows,
commits, and on every other way out rolls back; `AfterRelease` is the pool's hook. Each step
may succeed, fail, break the connection or lose its answer.

**RequestRouting** (`tools/context_aware_provider.go`, `database_switching.go`,
`api/databases.go`, `auth/access.go`): every look a request takes at what is shared is an
action; what ClientManager shows in detail is one step here.

**RowLimits** and **SqlText** (`tools/query_database.go`, `sqltext/sqltext.go`,
`chat/query_classify.go`): finding a limiting clause, the limit and offset made, truncation and pages;
stripping comments and literals, several statements, reads and writes. **EmbeddingSearch**
(`tools/similarity_search.go`, `search/`): columns, chunks, selection, budget.
**Definitions** (`definitions/`, `prompts/static.go`, `tools/custom_tool.go`): validation,
templates, parameters, languages. **Configuration** (`config/`, the reload in `main.go`):
`Unchecked` merges, `Valid` validates, a setting stands for all that merge by its rule.

### The terminal

**Chat** (`chat/client.go`, `commands.go`): the loop of `processQuery` with its places,
`messages` with calls and results, `currentDBWritable` and what it should be, Escape at every
remote call. **Compaction** (`compactor/`, `chat/client.go`): the server's and the client's
own choice of messages as functions of a conversation; Chat uses it. **CliTokens**
(`chat/oauth_client.go`): processes that each hold an entry and share one file, over a
server that rotates and detects replays as OAuthTokens does.

### Compositions

The **MC** modules put parts that TLC should check together into one state space.
`part` says which of them a behaviour is about; the others stay as they begin, so that the
runs are as many as there are questions and not as there are modules: **MCAuthentication**
(watcher, tokens, devices), **MCAccounts** (accounts, clients), **MCClientLiveness** (two
instances of the manager), **MCConnection** (metadata, tool calls), **MCTerminal** (chat,
tokens), **MCServer** (configuration, routing, pure operators through **MCAlgorithms**).
**MCOAuthTokens** and **MCDeviceGrant** bound one module in two ways. `MCServer` extends
`RequestRouting` and **ServerConfiguration** (the configuration as the instance `Conf!`); `MCAccounts`, `MCConnection` and `MCTerminal` extend the manager, the
metadata and the chat, with their other part as an instance (`Accounts!`, `Tool!`, `Token!`),
and leave the sizes of both as CONSTANTS, so that the theorems are about the compositions
TLC runs, of any size. The
**\*_proofs** hold the theorems.

### Abstractions worth knowing

* A random token, code or hash is a fresh number or model value: collisions are excluded,
  except of user codes, which are short.
* Time is a small counter read when the action runs; lifetimes are one or two ticks. In
  `DeviceGrant` and in `PutAccess` the time is the one the handler read before taking the
  lock, as in the code.
* The contents of files, catalogues and configurations are versions; a statement is its
  class, its words or its tokens, whichever the question depends on; a message is its role,
  its calls and its length.
* History variables (`lineage`, `killed`, `delivered`, `answers`, `grants`, `overtaken`,
  `late`, `refreshed`, `bypasses`, `everActive`, `lockedOut`, `promised`, `missed`,
  `slipped`, `abandoned`, `shaken`, `replayed`) guard nothing.

## 3. Runs

| run | instance | what it shows |
|---|---|---|
| `tokens_race` | 3 handlers on 1 of 2 codes and its rotations, 4 pairs, 3 rotation records, 3 instants; or 2 handlers on both codes with room for 3 tokens | Single use, one refresh token per family, whole pairs, cascades, reports and rotation records hold in every interleaving; every step implements `CredentialChain`. |
| `device_race` | 2 handlers, 2 accounts, 2 devices one after the other, 3 instants; or 2 devices at once with one user code | Answers stand, one grant to the approver, poll intervals, an index that never leads to a wrong device; every step implements `DeviceFlow`. |
| `authentication` | watcher: 3 contents, 1 of them unreadable, 2 callbacks, 2 callers of `Stop`, 3 changes; tokens: 1 handler, 2 codes, room for 3 tokens and 1 code; devices: 1 handler, 2 devices with user codes of their own | The wait group counts what runs, nothing runs after `Stop`, the store follows the file. Requests one at a time: a replay ends its family for good, also with every limit reached. Every `Stop` returns, every access token is in the end reported, every device code goes. |
| `accounts` | accounts: 1 account, 1 address, 2 callers, 3 logins, or 2 and a command; clients: 2 calls of 1 token, 2 databases, 2 pools, 1 reload | Whoever loses access is reported, attempts go past the limit by no more than the logins under way together; no pool lost, shared, or gone under a query; stale or late pools only where the code's own window allows. |
| `clients_liveness` | 1 call, 2 databases, 1 reload; or 2 calls of 2 tokens, one with queries that may never end | Calls are served and revoked tokens let go, although closing waits; revoking the slow token holds up nobody else. |
| `connection` | 2 callers, 2 records, 1 DDL statement; or 2 tool calls on 1 connection per pool | One load at a time, nobody waits for nobody, no older catalogue over a newer one; a read-only pool holds read-only sessions, a reply says what became of its statement, nothing is left behind; everyone is served. |
| `terminal` | chat: 1 writable and 1 read-only database, 2 queries, 2 commands, 2 calls an answer; tokens: 2 processes, 1 or 2 servers, 2 pairs, 1 fault | Compaction keeps pairs, the writable flag is right once listed, unconfirmed writes happen only before that; a login nothing disturbs survives; every query and every call for a token ends. |
| `server` | configuration: one topic of settings at a time, some of which variables and flags give (`Varied`), the others at their default; up to 2 databases, 1 edit and reload; routing: 2 requests at once of 3, 2 databases, 1 reload; the operators on every input of `MCAlgorithms` | Settings have the value of their highest source and what runs is valid; tools run where they may and selections hold; each pure operator computes what its definition says (with what it says it of in section 5). |
| `tokens_replay_race` | 2 handlers, 3 pairs | **Violated**: see section 5. |
| `clients_stale` | 1 call, 1 database, 1 reload | **Violated**: see section 5. |
| `metadata_ddl` | 2 callers, 1 DDL statement | **Violated**: see section 5. |
| `accounts_lockout` | 2 callers, 3 logins, 1 command | **Violated**: see section 5. |

**Why these bounds.** The token properties relate two holders of one credential and a
third party that removes it: three handlers are all three at once, and four pairs are the
code's own pair and three rotations, as many as the store keeps records of. With two
authorisations in a store with room for three tokens, the *second* half of a pair is the
one refused. Two ticks reach every combination of expired and live access and refresh
tokens, the boundary instant included. A device has one answer and one grant, so two
handlers contend for each, two accounts tell the approver from another, and a second device
shows what the first leaves behind. The manager's races are between two creators of one
slot and one operation that closes; two databases tell the current from the others. In
`MetadataReload` a third caller would wait where the second waits. A watcher has at most one
callback that runs and one that waits for `hashMu` and does the same after it, and two
callers of `Stop` are the one that stops and one that waits. Two wrong passwords lock an
account and a third login finds it so. A tool call meets another only through its
connection and the client's lock, so two callers are all of it. The windows and
thresholds of the compactors are constants small enough for the histories reached to pass
them, with two calls in an answer so that one can be answered and the other not. Where section 6 has a theorem, it takes over for any number.

**Deadlock** is checked in `tokens_race`, `device_race`, `clients_liveness`,
`tokens_replay_race`, `clients_stale` and `metadata_ddl`. The other runs contain parts that
really stop: a watcher that has been stopped, a client that has been closed, a terminal that has been left, requests and
edits that are used up, an input that has been looked at.

**What a property catches.** Each is paired in `PROJECT.json` with a plausible bug that TLC
reports under the same configuration: a lookup where there should be a take, a record kept
too briefly, a hook forgotten on one path, a close that does not wait, a double check left
out, an error path that forgets its waiters. Properties that a run lists under one name
are conjunctions defined beside it in the MC module, one per question of the run.

## 4. Fairness

* `WF(Continue(t))`, `WF(Step(u))`, `WF(Proceed(u))`, `WF(Step)`, `WF(Stopping(s))`: an
  admitted goroutine runs on; the Go scheduler stops none. Nothing makes a request, a
  query, a command or a caller of `Stop` *arrive*.
* `WF(Sweep)`: `StartSweeper`'s ticker runs for the life of the server. `WF(Tick)`: time
  passes.
* `WF(Watch)`, `WF(Check(c))`, `SF(Lock(c))` in `FileWatcher`: the goroutine of the watcher
  and the timers' callbacks run on; a callback that waits for `hashMu` gets it in the end,
  as `sync.Mutex` does not starve, though each other callback may take it first.
* `SF(RequestStep(r))`, `SF(Removal)` in `ClientManager`: a step that needs `cm.mu` is
  disabled whenever another operation holds it, so weak fairness would say nothing;
  `sync.RWMutex` queues writers and readers so that neither starves, which is strong
  fairness. `Removal` is fair because the hook runs in a goroutine of its own.
* `WF(EndQuery)` only for tokens not in `Slow`; `WF(Closing(k))`: a close goes on as soon as
  the queries it waits for have ended.
* `WF(Closed)` in `MetadataReload`: catalogue queries run under a timeout.
* `WF(AfterRelease(c))` in `QueryTransaction`: the pool's hook runs when a connection is
  returned. `Proceed` includes the database's answers: a tool's statements have no timeout
  of their own, and `EveryoneServed` says so much less than it would if they had: every
  call ends *if the database answers or the connection breaks*.
* `WF(Step)` in `Chat` and `WF(Answered(p))` in `CliTokens`: requests to models
  (`llm_tracing.go:25`) and for tokens (`oauth_client.go:69`) have timeouts, so they are
  answered or fail. That a tool answers, and the user a confirmation, is assumed: the MCP
  client's `http.Client` has no timeout, and only Escape ends such a wait.

`Served` assumes queries end. It must: `SelectDatabase` and a reload close pools with
`cm.mu` held, so a query without end on such a pool holds up every session. That
`RemoveClients`, which the code closes outside the lock, has no such effect is what the
second instance of `clients_liveness` shows.

## 5. Where the code and what is said of it disagree

### Shown by a run

1. **A family can survive its revocation** (`tokens_replay_race`). A replayed credential
   makes `DeleteFamily` remove the tokens of the family *in the store*. A rotation that has
   taken its token and not yet stored the successors (`oauth/token.go:205` to `:240`) stores
   them afterwards. The comment at `oauth/token.go:207-211` says the whole family is
   revoked; with one handler (`authentication`, `StoresWhole`) it is. With any number it comes
   back in no other way (`DeletedStaysGoneCorrect`): a family that no handler holds when it is
   deleted is gone for good.
2. **A reload can leave a client on the old configuration** (`clients_stale`).
   `GetClientForDatabase` copies the configuration under the read lock
   (`client_manager.go:107`) and creates the client from the copy under the write lock
   (`:125`), without looking again. `FreshUnlessOvertaken` shows that this window is the
   only one.
3. **A refresh after DDL can be undone** (`metadata_ddl`). `query_database` calls
   `LoadMetadataFor` after the commit (`query_database.go:665`); a load that queried the
   catalogue before the commit may write after it, and the older catalogue then counts as
   fresh for a whole time to live. `NeverOlder` shows that the single flight alone never
   does this.
4. **A lockout does not last** (`accounts_lockout`). It is set in memory only
   (`auth/users.go:357-361`); a failed login saves nothing
   (`context_aware_provider.go:345-350`), and `Reload` takes every row as the file has it
   (`users.go:224`). Any edit of the file enables the account and clears its counter, and so
   does a restart; `docs/guide/authentication.md:117-120` says that only `-enable-user` does.

### Stated, and not so in the code

Definitions whose comments say so are no run's property. TLC finds each violated when it is
added to the run of its module.

* `Chat`'s `MalformedAnswered` (the comment at `chat/client.go:1240-1244`): on input that is not
  valid JSON the loop closes `thinkingDone`, which line 1248 has just closed, a second time
  at line 1258, and the process ends.
* `Chat`'s `ServerKeepsToolPairs`: the server's compactor expects results in messages of
  role "user" (`compactor/compactor.go:423-425`), and the client sends them with the role
  "tool" (`chat/client.go:1357-1361`), so the rule that keeps pairs together never applies to
  them.
* `Chat`'s `WritesConfirmed` (`docs/guide/security.md:189-194`): the writable flag is the
  one last listed (`chat/client.go:1344-1353`), and another session of the account may have
  switched the database since. `ConfirmedUnlessMissed` shows it is the only way.
* `CliTokens`' `LogoutRevokes` (`docs/guide/cli-client.md:526`): `Logout` revokes the token
  in the file (`oauth_client.go:960-977`), which may be another process's.
* `Configuration`'s `BrokenFileKeepsConfig` (`config/reload.go:45-46`): a reload forgets
  that the file was named on the command line (`main.go:1215-1242`), so an unreadable file
  counts as absent (`config.go:665-673`) and the defaults take over.
* `RequestRouting`'s `FailsGracefully` (`context_aware_provider.go:216`): a client closed
  between its lookup and the second look at the registries (`:318-325`) leaves the request
  with the base registry, whose tools run without a client; the panic is recovered for that
  request (`http_server.go:215`).
* `RequestRouting`'s `BoundStays` (`docs/guide/authentication.md:370-372`): a token
  withdrawn in the middle of a request is no longer known to be bound.
* `RequestRouting`'s `EverySelectionHolds` (`docs/api/openapi.json`): without
  authentication `POST /api/databases/select` answers success and selects nothing
  (`api/databases.go:258-277`).
* `MCAlgorithms`' `ScriptsAnnounced` (`chat/query_classify.go:75-77`, which wants nothing to run
  unannounced): a text that opens with TABLE, VALUES, SHOW or a plain EXPLAIN is a read whatever follows
  (`:111-119`), after another read a statement such as CALL is not looked for, and what is no query
  runs by `Exec`, all of it (`query_database.go:634`). `WritesAreSeen` has it of single statements,
  and of scripts but for these.
* `MCAlgorithms`' `CodeFallsThrough` (`sqltext/sqltext.go:31-39`, by which the residue has what PostgreSQL
  treats as code, in doubt too much): a carriage return ends a line comment for PostgreSQL only
  (`sqltext.go:116-121`), and a byte outside ASCII is part of an identifier for PostgreSQL only (`:232`),
  so that a dollar after it does not begin a literal; code behind them is missing from the residue.
  `ResidueIsCode` and `SecondStatementIsSeen` hold of texts without them.
* `MCAlgorithms`' `EveryAnswerCapped` (the schema at `query_database.go:337` promises a maximum of rows):
  RETURNING, SHOW and EXPLAIN have rows and are no query to `isSelectQuery`, so they get no LIMIT and
  are not cut (`:489-505`, `:646`). `CapHolds` caps queries and says that the rest is answered whole.
* `MCAlgorithms`' `HeaderNamesWhatIsRead` (`mcp/modern.go:225-227`): `nameOrURI` takes `params.name`
  first, whatever the method (`:253-256`), so a `resources/read` with both is held to its name, and
  a header with the uri is refused over HTTP, where standard input serves the request.
  `TransportsAgree` and `EraRespected` are about requests with the parameter their method takes and no
  other (`NamedOnce`).
* `MCAlgorithms`' `ScoresRestored` (`search/mmr.go:80-81`) and `ParamsFollowSchema`
  (`docs/advanced/custom-definitions.md:428-430`): a chunk is answered with its MMR score;
  a tool's placeholders are numbered in the order Go's maps happen to yield.

### Seen while modelling

In the models as the code has it, documented nowhere or only in passing:

* A token pair or an approval may be stored after its account was disabled (refused at each
  use until the account is enabled again). Rotation and used-code records are evicted at
  their limits. A client created by a call may outlive its token.
* A reload that reads a user file in the middle of a write finds no account and withdraws
  all (`users.go:253`). `EnableUser` leaves `FailedAttempts`. A command's edit may be
  overwritten by the server's save.
* Without authentication a session goes on with a database a reload has removed. A tool
  call's own selection may overwrite one made meanwhile (`context_aware_provider.go:466-470`).
  Registries of closed clients stay until they are looked up (`:296-334`).
* A file's setting for `count_rows` is never merged (`config.go:1193-1213`); a file without
  `http.auth` turns authentication off (`:904-909`); a key file loses to a key given
  directly (`:1457-1463`); the `-http` and `-tls` flags are not carried into a reload, which
  then may fail every time.
* Connecting pings the database with the client's lock held (`database/connection.go:124-282`);
  pools of temporary connections are kept for ever (`query_database.go:378`); a failing load
  leaves the default connection changed (`connection.go:297-313`); a `COMMIT` whose answer is
  lost is reported as an error.
* Of what is no query the page header still counts rows from the offset that was asked for, which
  is not applied to it (`query_database.go:677-696`).
* A `COMMIT` within a script on a writable connection ends the tool's transaction: what was before it
  stays although the call fails (`query_database.go:634`, `OwnCommit`). `CallsExact` excepts it, as
  it does a lost answer to the tool's own `COMMIT`.
* A text column of type `string` is weighted (`search/column_detection.go:163-182`) and not shown
  (`similarity_search.go:543-552`), which has its own list of types without it; PostgreSQL has no such
  type of its own. `ColumnsAgree` says how far the two lists agree.
* With `rate_limit_max_attempts` of 0 an address is refused once it has failed and until the cleanup
  forgets that, but not before (`rate_limiter.go:57-60`).
* An invalid `PGEDGE_DB_HOSTS` is ignored, an invalid `-db-hosts` ends the start (`config.go:1430-1432`,
  `:1665-1668`); an empty `-db` flag empties what it names, an empty variable does not.
* When the token cache cannot be rewritten, `Logout` forgets the tokens in memory, leaves them in the
  file and says so; a refresh that was rejected does the same in silence (`oauth_client.go:470-477`,
  `:938-944`, `:977-982`, `CacheStays`).
* `WITH ... INSERT` gets a `LIMIT` appended and fails (`query_database.go:467-471`);
  `chunk_size_tokens` of 0 divides by zero (`similarity_search.go:390`); two vector columns
  of one text column yield every chunk twice; a prompt's value that contains `{{other}}` is
  expanded again or not, as the map's order has it (`static.go:78-85`).
* `Login` registers the client anew whatever the refresh failed of.

## 6. Proofs

Each `*_proofs` module proves one inductive invariant (or more, each on top of the one before) and
draws the properties from it: `Init => Inv`, one step per action of `Next` for
`Inv /\ [Next]_vars => Inv'`, and `Inv => Property`. The invariants are defined beside the
properties in the components' modules, or at the head of the proof.

| module | invariant | theorems |
|---|---|---|
| `OAuthTokens_proofs` | `SingleUseInv`, `HandInv`, `LinkInv`, `WholeInv`, `FamilyInv`, `RecordInv`, `RememberedInv` | types; `SingleUse`; `OneRefreshPerFamily`; `RemovalsComplete`; `NoHalfIssued`; `DeletedStaysGone`; `RotationRemembered` until the records are full |
| `OAuthTokensRefinement_proofs` | `SingleUseInv`, `LinkInv` | the refinement `ImplementsChain` |
| `DeviceGrant_proofs` | `DeviceInv`, `PaceInv` | types; `GrantedOnceToApprover`; `AnswerStands`; `IndexSound`; `IndexComplete` unless user codes collide; `PollsPaced`; the refinement `ImplementsFlow` |
| `FileWatcher_proofs` | `WatcherInv` | types; `StopSound`; `StoreFollowsFile` |
| `Accounts_proofs` | `PoolInv`, `RemovedInv`, `AccountsInv` | types; `NoOrphan`; `SlotsSound`; `QueriesOutliveClose`; `FreshUnlessOvertaken`; `ReleasedUnlessLate`; `WithdrawnReported`; `OvershootBounded` |
| `Connection_proofs` | `ReloadInv`, `ToolInv` | types; `WaitersLed`; `OneReload`; `NeverOlder`; `PooledReadOnly`; `CallsExact` |
| `Server_proofs` | `RouteInv`, `ConfigurationInv` | types; `RunsWhereAllowed`; `SelectionHolds`; `ConfigurationSound`; of the pure operators, for every input: `RowCapHolds`, `PagesContinue`, `ChunksCoverText`, `TransportsAlike`, `AnsweredInItsEra`, `ExactlyTheAdmitted`, `AddressIsOwn` |
| `Terminal_proofs` | `BeliefInv`, `ChatTypes` with `HistoryInv`, `TokenInv` | types; `FlagSound`; `ConfirmedUnlessMissed`; `CompactionPairs`; `LoginHolds` |

Why the properties are not inductive by themselves:

* `SingleUse` (at most one refresh token per credential) needs to know that a credential
  something was issued for is *spent* (`SpentInv`: in no store, so nobody can take it), that
  a handler *owns* what it took (`OwnInv`: in no store, nothing issued for it, no second
  owner), and that hashes about to be stored are fresh (`KindInv`, `IssueInv`).
* `OneRefreshPerFamily` needs to follow a family through the hands of a rotation
  (`HandInv`): between `TakeToken` and `PutRefresh` the handler carries it, no token of it is in the store,
  and no other handler carries it. A new family's number is a hash not yet given out.
* `ImplementsChain` rests on `SingleUseInv`: a credential in the store is in nobody's hands, so
  a take is one step of the chain, and what is held becomes a successor or nothing. `LinkInv`
  adds that what a refresh token has issued are access tokens, so that taking it takes no
  other credential along.
* `RemovalsComplete` needs `LinkInv` for the rest: a refresh token issues the access token
  numbered after it and nothing else, and the two have one family and one account, so no
  removal by family or account splits a pair (`PairInv`); a handler between its two puts holds the half that
  is missing (`HalfInv`); what is to be reported was in the store (`ReportInv`).
* `NoHalfIssued` (a token in the store was delivered, or is of a pair a handler is still storing) needs that a pair is in one
  handler's hands (`HalfInv`), so that nothing else happens to the half it has to take back;
  `WholeInv` adds that a handler which is about to take it back stored no access token.
* `ReplayRevokesWholeFamily` is false with several handlers (section 5). What holds for any number is
  about steps (`DeletedStaysGone`): a family none of which is in the store, and which no handler holds between
  taking one token and storing the next (`Gone`), stays so, because a handler takes a family up only from
  a token of it, and a new family's number is a hash not yet given out (`FamilyInv`); and a deletion
  makes a family that no handler holds `Gone`.
* `RotationRemembered` says of each refresh token in use that the token it came from is on record.
  `RememberedInv` adds that the record ends no earlier than the token, so the sweeper takes neither
  first. The store discards records only at its limit, and `RecordInv` tells when that can be: every
  record is of a token with a successor of its own and a higher number, so there are fewer records than
  refresh tokens, and while no more than `TokenLimit + 1` pairs have been issued (`Room`) none is discarded.
* `GrantedOnceToApprover` needs that the poll which took an approval is the only one and the
  first (`ClaimInv`), that the stored answer is the one announced (`AnswerInv`), and that a
  granted code has left the store for good (`GrantInv`). The refinement follows from the
  same invariant, one abstract step or stutter per action.
* `IndexSound` is inductive over `DeviceInv`, because a deletion looks at the device's own
  user code. `PollsPaced` needs `PaceInv`: the store's time of the last answer is that of the
  last answer in the history, and no handler's clock is ahead of time.
* The halves of `StopSound`, `CountExact` and `QuietAfterStop`, need each other's order: who
  has passed `done` finds no timer that could add to the group (`StopOrder`).
  `StoreFollowsFile` needs that a store which is not the file's has an event, a timer or a callback that will see it
  (`BehindSeen`), and that a recorded hash is that of the store unless a change slipped past
  (`HashSound`).
* `NoOrphan` and `SlotsSound` need each other: what is being closed is out of the map
  (`ClosersOK`), what is in the map is open. `QueriesOutliveClose` needs that a querying
  request is counted in the pool it uses (`RequestsOK`). `ReleasedUnlessLate` adds that a
  removed token has late clients only in the map (`RemovedInv`); what is out of the map and
  nobody's to close is closed, by `NoOrphan`.
* `OneReload` needs that whoever loads leads the record in the map *until* `Close` drops it
  (`LoadersOK`), because a closed client has no pool to load through; `WaitersLed` needs
  that a record has one leader, whose outcome is unpublished (`RecordsOK`).
* `WithdrawnReported` (whoever was let in and no longer may be is reported, or about to be)
  needs that only a check which has replaced the rows has a report to make, and that each
  login and check has what its step uses (`LocalsSet`). `OvershootBounded` counts the logins past the limiter against the attempts
  they will add, so it is inductive once the types are known (`AccountsInv`); it needs the
  callers to be finitely many.
* `PooledReadOnly` and `CallsExact` need each other's half (`ToolInv`): a connection is held
  by at most one call, and only one that some call has is out of its pool (`HeldOK`); a pool not
  made yet has no connections, and one caller makes it (`PoolsOK`); a transaction about to be
  committed holds just what was asked for, and a call has no effect before that
  (`Consistent`).
* `RunsWhereAllowed` and `SelectionHolds` relate what a request read at several looks to what
  holds when its tool runs. `AuthInv` says, look by look, what a request still knows: its choice was
  one it may reach unless its credential has gone (`ChoiceOK`), what it read is still the
  session's unless it was marked stale (`ReadOK`), and it agrees with what the session was
  last promised, if that can be had (`KeptOK`, `SessionOK`).
* `ConfigurationSound` says nothing between an edit of the file and the reload, so it needs no
  memory of the old file; what it needs is that a running configuration was loaded after the
  last edit, from what the sources may give (`ConfigurationInv`). The work is in one
  lemma, `SourcesInOrder`: file, variables, key file and flags, kind by kind, give a setting the value
  `Ranked` says, unless `Departs` names it.
* The pure operators have no invariant: their theorems say for every input what the conjuncts of `StatementsRead`,
  `SearchSound` and `RequestsHonoured` say for those of `MCAlgorithms`. `CapHolds` and `PagesJoinUp` hold for any
  table and any limits in the order that the code has them (`LimitsOrdered`); `ChunksCover` for any text, size and
  overlap, because the number of steps is the least that reaches the end; `TransportsAgree` and `EraRespected` for any
  request and headers, method by method (`DispatchersAgree`, `DispatchedCodes`). `TransportsAgree` assumes of the
  request that it has the one parameter its method takes (`NamedOnce`) and of the headers that they repeat it
  (`Mirrors`, which is about what the handler takes and not about what the check of the headers compares: that
  they come to the same is `NamedIsFound`); `ExactlyAdmitted` for any origins, because two have one normal form exactly
  when they are the same origin (`NormalForm`); `AddressIsTheCallers` for any header and any trusted proxies.
* `ConfirmedUnlessMissed` is an action property: it needs that a call under way which was
  not confirmed was thought harmless when it was made (`UnconfirmedIsBelievedSafe`).
* `CompactionPairs` looks at what is sent; `HistoryInv` is about the histories it is made of, until one is abandoned. Between
  queries and before each request every message's results are the calls of the message before it, and no call
  is open (`Whole`); while tools run, the open calls are those of the last message, each answered or still
  awaited (`Awaited`), so none is lost between confirmation, failure and the message with the results. Calls carry numbers
  not yet used (`Numbered`), so no two messages make the same call, which is what lets the compactor tell them
  apart by content (`NoneTwice`). The rest is lemmas about the operators of `Compaction`, for every sequence and
  every setting: the window never begins between a call and its results (`WindowBegins`), what is
  chosen of the middle has every call with its results (`ChoiceWhole`), filling up adds only texts to that, and the
  repair of pairs has nothing left to add (`NothingToAdd`).
* `LoginHolds` is about logins nothing has disturbed (`shaken`), and its proof follows such a
  login to wherever its pairs are: it belongs to one server (`Placed`) and one process
  (`HeldAlone`), which holds what the file caches until a refreshed pair is on its way
  (`HeldCached`), and the live pair with it (`HeldNewest`); what was refreshed away is held only
  while the answer is under way (`HeldUnspent`) and cached only while a process holds the login
  (`FileUnspent`). The copy of the file a process is about to write back is the reason for
  `SnapFollowed`: where it has a pair of such a login, the file still has one of it, so that
  writing back an old pair is an overwriting that `shaken` records. A pair's login is the number of
  the pair that began it, so that a new one is not yet anywhere (`FreshLogin`, `Issued`).

Assumptions: only those the modules name on their constants (`BoundAssumption`,
`LifetimeAssumption`, `LimitAssumption`, `DistinctAssumption`, `ClockAssumption`,
`AnswerAssumption`, `DeviceAssumption`, `ReloadAssumption`, `NameAssumption`,
`ConnectionAssumption`, `WatcherAssumption`, `ChatAssumption`, `CatalogueAssumption`,
`ToolAssumption`, `AccountsAssumption`, `TokenAssumption`, `SettingsAssumption`): bounds and lifetimes are
numbers, absent values are none of the present ones; settings that a rule of merging reads together are
looked at together (all settings at once, as the program does, is one such choice); calls are numbered from 1
(`ChatAssumption`). TLC evaluates them in the runs. Only
`WatcherAssumption` and `AccountsAssumption` ask for finite sets (of callbacks and callers of
`Stop`, which the wait group counts, and of callers who sign in, which the overshoot does); the other theorems hold for any sets of handlers, tokens, accounts, devices,
databases and callers.

### Only model-checked

* **Liveness**: `EverythingEnds` (in `Authentication.cfg` the conjunction of
  `EventuallyReported`, `DevicesDrain` and `StopReturns`), `EveryoneServed`, `Served`,
  `RevokedDrain`. Fairness and ENABLED are out of the prover's reach.
* **Safety of the modules with a proof**: `StoresWhole`, which is one handler's and unlike
  `DeletedStaysGone` false with more; `RotationRemembered` beyond `Room` (it is false for some
  values of the constants: at its limit the store discards the record that ends soonest, and with more
  families than the run has that may be one whose successor is still in use).
* **Pure operators**: `StatementsRead`, `SearchSound` and `RequestsHonoured` as wholes, on the inputs of
  `MCAlgorithms`. Seven of their conjuncts are theorems for every input. The others stay with TLC: those of `SqlText`
  (its operators are RECURSIVE), and those whose operators fold over sequences, nest to any depth or select from
  sequences (`OwnLimitIsSeen`, `ColumnsAgree`, `EveryRowIsChunked`, `SelectionSound`, `PromptsFilledIn`,
  `ParamsBind`), which would need induction over the data. `ListedBeforeUse` and
  `WritingToolsSaySo` are only checked too, the first being a matter of sets of a few languages and the second one of
  which statements change something. Of `Compaction`, the classification and the estimates.

## 7. Not modelled, and what could come next

Whole parts:

* **OAuth client registry and pages**: a client may be evicted between its registration and
  its first token (`oauth/store.go`); the pages render forms whose decisions are in
  `OAuthTokens` and `DeviceGrant`.
* **Conversation store**: one lock, one SQL statement or transaction per call. Its races
  are between two tabs of the web client, which is not modelled.
* **Web client**: React state in `web/src`; its hazards are listed.
* **Server process**: `main.go` beyond its flags, the reload and the hook of revoked
  tokens is wiring.
* **Catalogue queries and connection strings, encryption, tracing, REST descriptions,
  TSV layout**: formatting and I/O, one request at a time.

Left out of the modelled parts:

* numbers that are not integers: the scores of BM25, embeddings and MMR are small integers;
* the network and the terminal, but for their failures; rendering, wording, logs;
* hashing (a hash is the number of what it is the hash of), session tokens, the comparison of passwords;
* the rate limits of the OAuth pages (that of logins is in `UserAccounts`);
* in `ClientManager`, `SetClient`, `CloseAll`, and the sessions without a token (stdio, and
  HTTP without authentication), which share one client; `RequestRouting` has them.

Next, in this order:

1. one module over `UserAccounts`, `OAuthTokens` and `ClientManager` that joins them at the
   two hooks: an account withdrawn, its tokens gone, its clients closed;
2. the client registry with its eviction, and the conversation store with two writers.
