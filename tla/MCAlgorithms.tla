---------------------------- MODULE MCAlgorithms ----------------------------
(***************************************************************************)
(* The operators of the pure modules, each compared with a definition of   *)
(* what it is to compute on every small input. A state is one input.       *)
(***************************************************************************)
EXTENDS SqlText, RowLimits, EmbeddingSearch, Definitions, Protocol, TLC

VARIABLES kind, input

(***************************************************************************)
(* Texts built of pieces whose meaning PostgreSQL's lexer gives: each      *)
(* piece, and what is left of it as code.                                  *)
(***************************************************************************)
CommentBodies == {<<>>, <<"'">>, <<";">>, <<"$", "$">>, <<"-", "-">>}
Pieces ==
  {<<x, x>> : x \in {<<"a">>, <<";">>, <<"-">>, <<"/">>, <<"$", "1">>, <<"r">>,
                     <<"u">>, <<"a", "$", "a", "$">>, <<"E">>, <<"a", "E">>}}
  \cup {<<<<"-", "-">> \o b \o <<"n">>, <<" ", "n">>>> : b \in CommentBodies}
  \cup {<<<<"/", "*">> \o b \o <<"*", "/">>, <<" ">>>> :
          b \in CommentBodies \cup {<<"/", "*", ";", "*", "/">>}}
  \cup {<<<<"'">> \o b \o <<"'">>, <<"'", "'">>>> :
          b \in {<<"a">>, <<"-", "-">>, <<"\\">>, <<"'", "'">>, <<"\"">>}}
  \cup {<<<<"E", "'">> \o b \o <<"'">>, <<"E", "'", "'">>>> :
          b \in {<<"a">>, <<"\\", "'">>, <<"\\", "\\">>, <<"/", "*">>}}
  \cup {<<<<"\"">> \o b \o <<"\"">>, <<"\"", "\"">>>> :
          b \in {<<"a">>, <<"'">>, <<"u">>, <<"\\">>, <<"\"", "\"">>}}
  \cup {<<t \o b \o t, t \o t>> :
          t \in {<<"$", "$">>, <<"$", "a", "$">>},
          b \in {<<"a">>, <<"'">>, <<"$", "1">>, <<"-", "-">>}}

\* Pieces that the scanner reads otherwise than PostgreSQL: a comment that a
\* carriage return ends, letters beyond ASCII before an E or a dollar sign and
\* in the tag of a dollar quote.
Misread ==
  {<<<<"-", "-", "r", ";">>, <<" ", "r", ";">>>>,
   <<<<"u", "E", "'", "\\", "'">>, <<"u", "E", "'", "'">>>>,
   <<<<"u", "$", "a", "$">>, <<"u", "$", "a", "$">>>>,
   <<<<"$", "u", "$", "'", "$", "u", "$">>, <<"$", "u", "$", "$", "u", "$">>>>}

Texts == UNION {[1 .. n -> Pieces \cup Misread] : n \in 1 .. 2}
Text(x, side) == FlattenSeq([i \in DOMAIN x |-> x[i][side] \o <<" ">>])

IsRead == \A i \in DOMAIN input : input[i] \in Pieces

\* What Strip leaves of a text without misread pieces is exactly its code: no
\* literal or comment swallows what follows it, none of it is read as code.
ResidueIsCode ==
  kind = "text" /\ IsRead => Strip(Text(input, 1)) = Text(input, 2)

\* What Strip says of itself: text of which it is unsure falls through to the
\* residue as code, so that none that PostgreSQL takes for code is lost.
\* Not so in the code: see the README.
CodeFallsThrough ==
  kind = "text" =>
    Len(SelectSeq(Strip(Text(input, 1)), LAMBDA c : c = ";"))
      >= Len(SelectSeq(Text(input, 2), LAMBDA c : c = ";"))

\* A text without misread pieces is refused as several statements exactly when
\* code follows a semicolon that is code, whatever its literals and comments
\* hold.
SecondStatementIsSeen ==
  kind = "text" /\ IsRead =>
    (HasMultipleStatements(Strip(Text(input, 1))) <=>
       \E i \in DOMAIN input : /\ input[i][2] = <<";">>
                              /\ \E j \in (i + 1) .. Len(input) :
                                   ToSet(input[j][2]) \ {";", " ", "r", "n"} # {})

(***************************************************************************)
(* Statements and whether running them changes anything.                   *)
(***************************************************************************)
Reads == {<<<<"SELECT", "x">>, FALSE>>, <<<<"TABLE", "x">>, FALSE>>,
          <<<<"VALUES", "x">>, FALSE>>, <<<<"SHOW", "x">>, FALSE>>,
          <<<<"SELECT", "x", "FOR", "UPDATE">>, FALSE>>,
          <<<<"SELECT", "x", "FOR", "NO", "KEY", "UPDATE">>, FALSE>>,
          <<<<"SELECT", "x", "INTO", "x">>, TRUE>>}
Changes == {<<<<"INSERT", "INTO", "x">>, TRUE>>, <<<<"UPDATE", "x">>, TRUE>>,
            <<<<"DELETE", "x">>, TRUE>>, <<<<"MERGE", "x">>, TRUE>>}
Definitions == {<<<<"CREATE", "x">>, TRUE>>, <<<<"TRUNCATE", "x">>, TRUE>>,
                <<<<"GRANT", "x">>, TRUE>>, <<<<"CALL", "x">>, TRUE>>}
Queries == Reads \cup Changes
With == {<<<<"WITH", "x", "AS">> \o a[1] \o b[1], a[2] \/ b[2]>> :
           a \in Queries, b \in Queries}
Explained == {<<<<"EXPLAIN">> \o a[1], FALSE>> : a \in Queries \cup With}
  \cup {<<<<"EXPLAIN", "ANALYZE">> \o a[1], a[2]>> : a \in Queries \cup With}
Statements == Queries \cup Definitions \cup With \cup Explained

\* Scripts of two statements.
Scripts == Statements \X (Queries \cup Definitions)
Script(s) == s[1][1] \o <<";">> \o s[2][1]

\* A script that is looked at no further than its first word, as a statement
\* that starts with that word can change nothing: all of it plans or reports.
ReadByFirstWord(words) ==
  \/ words[1] \in {"TABLE", "VALUES", "SHOW"}
  \/ words[1] = "EXPLAIN" /\ "ANALYZE" \notin ToSet(words)

\* A statement that changes something is never taken for a read, wherever in
\* it the change is, and a statement that only reads asks for no confirmation.
\* A script with a change in it is not taken for a read either, except one
\* that is judged by its first word alone, and one that opens with a read and
\* changes by a statement whose first word is in none of the lists.
WritesAreSeen ==
  /\ kind = "statement" => (IsWrite(input[1]) <=> input[2])
  /\ kind = "script" =>
       ((input[1][2] \/ input[2][2]) /\ ~ReadByFirstWord(Script(input)) =>
         IsWrite(Script(input)) \/ (~input[1][2] /\ input[2][1][1] = "CALL"))

\* What the classification is for: on a connection that can write, nothing
\* runs unannounced. Of scripts only those that are no query can run there, by
\* Exec.
\* Not so in the code: see the README.
ScriptsAnnounced ==
  kind = "script" /\ ~isSelectQuery(Script(input)) =>
    (input[1][2] \/ input[2][2] => IsWrite(Script(input)))

(***************************************************************************)
(* Parenthesised statements and whether their result is limited already.   *)
(***************************************************************************)
Base == {<<<<"SELECT", "x">>, FALSE>>, <<<<"VALUES", "x">>, FALSE>>}
Grow(S) ==
  S \cup {<<s[1] \o <<c>>, TRUE>> : c \in {"LIMIT", "FETCH"}, s \in {x \in S : ~x[2]}}
    \cup {<<<<"(">> \o s[1] \o <<")">>, s[2]>> : s \in S}
    \cup {<<<<"SELECT", "x", "(">> \o s[1] \o <<")">>, FALSE>> : s \in S}
    \cup {<<<<"(">> \o s[1] \o <<")", "UNION", "(", "SELECT", "x", "LIMIT", ")">>,
            FALSE>> : s \in S}
Nested == Grow(Grow(Grow(Base)))

\* A statement is found to limit its own result exactly when it does: at its
\* outermost level, through parentheses around all of it, and never because
\* of a subquery or one side of a union. It is known for a query, so that a
\* limit is put on it.
OwnLimitIsSeen ==
  kind = "nested" => /\ queryHasClause(LimitClauses, input[1]) = input[2]
                     /\ isSelectQuery(input[1])

(***************************************************************************)
(* Pages of results.                                                       *)
(***************************************************************************)
GivenLimits == [kind : {"absent", "text", "fraction"}, value : {0}]
               \cup [kind : {"whole"}, value : -1 .. (maxRowLimit + 2)]
Asked == [limit : {NoLimit} \cup 1 .. (maxRowLimit + 2), offset : 0 .. 2,
          comment : BOOLEAN, select : BOOLEAN]
Tables == {[i \in 1 .. n |-> i] : n \in 0 .. (maxRowLimit + 4)}
PageRequests == [q : Asked, given : GivenLimits, offset : 0 .. 3, table : Tables]

Shown(r) == Page(r.q, resolveRowLimit(r.given), r.offset, r.table)

\* No answer to a query has more rows than the maximum, whatever limit the
\* call or the query asks for, and none more than a valid limit the call asks
\* for of a query that has none. Of what is no query every row is answered.
CapHolds ==
  kind = "page" =>
    LET rows == Shown(input).rows IN
    /\ input.q.select => Len(rows) <= maxRowLimit
    /\ input.q.select /\ input.q.limit = NoLimit =>
         Len(rows) <= resolveRowLimit(input.given)
    /\ ~input.q.select => rows = Whole(input.q, input.table)

\* What the tool's schema says of its limit: it bounds the rows returned.
\* Not so in the code: see the README.
EveryAnswerCapped ==
  kind = "page" => Len(Shown(input).rows) <= maxRowLimit

\* The rows shown of a query are the rows of the range the header gives them.
RangeIsTrue ==
  kind = "page" /\ input.q.select /\ ~Shown(input).error =>
    LET page == Shown(input) IN
    \A i \in DOMAIN page.rows :
      LET n == page.first + i - 1 IN
      n \in DOMAIN Whole(input.q, input.table)
        /\ page.rows[i] = Whole(input.q, input.table)[n]

\* Pages join up: where a query has neither an OFFSET of its own nor a comment
\* at its end, each page has the rows its header says, it names a
\* next one exactly when it leaves rows out, and that one goes on from there.
PagesJoinUp ==
  kind = "page" /\ input.q.select /\ ~input.q.comment /\ input.q.offset = 0 =>
    LET page == Shown(input)
        all  == Whole(input.q, input.table)
    IN /\ RangeIsTrue
       /\ page.next # 0 <=> page.rows # <<>> /\ page.rows[Len(page.rows)] # Len(all)
       /\ page.next # 0 => page.next = page.first - 1 + Len(page.rows)

(***************************************************************************)
(* Similarity search.                                                      *)
(***************************************************************************)
Column(name, of, vector, type) ==
  [name |-> name, of |-> of, vector |-> vector, type |-> type, dims |-> 0,
   looks |-> IF name = "t" THEN "title" ELSE "other", described |-> FALSE,
   sample |-> IF name = "u" THEN "long" ELSE "absent"]
Columns == {Column(n, "", FALSE, x) : n \in {"t", "u"}, x \in {"text", "string", "other"}}
           \cup {Column(n, x, TRUE, "other") : n \in {"v", "w"}, x \in {"t", "u", "x"}}
Layouts == {s \in UNION {[1 .. n -> Columns] : n \in 1 .. 4} :
              Distinct([i \in DOMAIN s |-> s[i].name])}

\* The columns the rows are ranked by and the columns whose text is shown are
\* found by two pieces of code, one from the texts and one from the vectors,
\* with a list of text types each. The shown ones are the ranked ones but for
\* those of a type that only the first list has: a column of such a type is
\* ranked and never shown. Where that leaves none, every text column is shown,
\* though some be without a vector. Each is ranked by a vector of its name.
ColumnsAgree ==
  kind = "layout" =>
    LET ranked == DetectColumnTypes(input)
        both   == {i \in DOMAIN ranked : \E c \in ToSet(input) :
                     c.name = ranked[i].column /\ c.type = "text"}
        shown  == {c.name : c \in ToSet(discoverTextColumns(input))}
    IN /\ both # {} => shown = {ranked[i].column : i \in both}
       /\ both = {} => shown = {c.name : c \in {c \in ToSet(input) : c.type = "text"}}
       /\ \A i \in DOMAIN ranked : \E v \in ToSet(input) :
            v.vector /\ v.name = ranked[i].vector /\ v.of = ranked[i].column

Cuts == [words : 0 .. 14, size : -1 .. 6, overlap : -1 .. 7]

\* A text's chunks are at most as long as asked, each goes on where the last
\* left off but for the overlap, and together they are all of the text.
ChunksCover ==
  kind = "cut" =>
    LET words   == [i \in 1 .. input.words |-> i]
        chunks  == ChunkText(words, input.size, input.overlap)
        overlap == OverlapWords(input.size, input.overlap)
    IN /\ \A k \in DOMAIN chunks : Len(chunks[k]) \in 1 .. MaxWords(input.size)
       /\ FlattenSeq([k \in DOMAIN chunks |->
            SubSeq(chunks[k], IF k = 1 THEN 1 ELSE overlap + 1, Len(chunks[k]))]) = words

Found == {[row |-> r, column |-> "t", index |-> i, text |-> x, score |-> s] :
            r \in {1, 2}, i \in {0, 2}, x \in {<<"a">>, <<"a", "b", "c">>}, s \in 0 .. 2}
Rankings == {s \in [1 .. 3 -> Found] :
               IsRanking(s) /\ \A i, j \in 1 .. 3 :
                 i # j => <<s[i].row, s[i].index>> # <<s[j].row, s[j].index>>}
Choosing == [ranked : Rankings, lambda : {-1, 0, 6, 10}, max : 1 .. 3, budget : {0, 2, 4}]
Of(c) == <<c.row, c.column, c.index>>
Chosen(c) == SelectChunks(c.ranked, c.lambda, c.max)

\* Each chunk is chosen once, as many as were asked for, the best first; with
\* relevance alone they are the best ones; and what is answered is as many of
\* the first as the budget holds.
SelectionSound ==
  kind = "choose" =>
    LET chosen == Chosen(input)
        kept   == SelectChunksWithinBudget(chosen, input.budget)
    IN /\ Len(chosen) = input.max
       /\ Distinct([n \in DOMAIN chosen |-> Of(chosen[n])])
       /\ Of(chosen[1]) = Of(input.ranked[1])
       /\ input.lambda = 10 => chosen = SubSeq(input.ranked, 1, input.max)
       /\ IsPrefix(kept, chosen) /\ TokensOf(kept) <= input.budget
       /\ kept # chosen => TokensOf(SubSeq(chosen, 1, Len(kept) + 1)) > input.budget

\* A chunk is answered with the score it was ranked by.
\* Not so in the code: see the README.
ScoresRestored ==
  kind = "choose" =>
    \A n \in 1 .. input.max : \E i \in 1 .. 3 :
      Chosen(input)[n] = input.ranked[i]

Table == <<[Column("t", "", FALSE, "text") EXCEPT !.looks = "title"],
           Column("u", "", FALSE, "text"), Column("v", "t", TRUE, "other")>>
Texts1 == {<<>>, <<"a">>, <<"a", "b", "c", "d", "e">>}
Searches ==
  [call : [dims : {2}, lambda : {6}, chunkTokens : 1 .. 3, overlap : {0, 1}, maxTokens : {0, 1, 3}],
   data : UNION {[1 .. n -> [{"t", "u"} -> Texts1]] : n \in 0 .. 2}]

\* Every row found is in the chunks with all of its text, of each column that
\* is shown and no other; and the answer has results whenever the first chunk
\* fits, which is all that the budget asks of a search that found something.
EveryRowIsChunked ==
  kind = "search" =>
    LET call    == input.call
        rows    == [i \in DOMAIN input.data |-> [id |-> i, data |-> input.data[i]]]
        shown   == [i \in DOMAIN discoverTextColumns(Table) |->
                      discoverTextColumns(Table)[i].name]
        chunks  == chunkResults(rows, shown, call.chunkTokens, call.overlap)
        overlap == OverlapWords(call.chunkTokens, call.overlap)
        Kept(c) == SubSeq(c.text, IF c.index = 0 THEN 1 ELSE overlap + 1, Len(c.text))
        outcome == Outcome(call, Table, rows, chunks, {})
    IN /\ \A i \in DOMAIN rows, col \in {"t", "u"} :
            LET own == SelectSeq(chunks, LAMBDA c : c.row = i /\ c.column = col)
            IN FlattenSeq([k \in DOMAIN own |-> Kept(own[k])])
                 = (IF col = "t" THEN rows[i].data[col] ELSE <<>>)
       /\ outcome = "no results" <=> rows = <<>>
       /\ outcome = "results" <=>
            chunks # <<>> /\ EstimateTokens(chunks[1].text) <= call.maxTokens

(***************************************************************************)
(* Definitions.                                                            *)
(***************************************************************************)
Templates == UNION {[1 .. n -> {Literal("x"), Argument("a"), Argument("b"),
                                Argument("c")}] : n \in 1 .. 3}
Prompts == [name : {"p"}, arguments : SUBSET {"a", "b"},
            messages : {<<[role |-> "user", type |-> "text", text |-> t,
                           content |-> Empty]>> : t \in Templates}]
Value(name) == <<Literal(name)>>

FileOf(prompt) ==
  [state |-> "read", yaml |-> TRUE,
   defs |-> [prompts |-> <<prompt>>, resources |-> <<>>, tools |-> <<>>]]

\* A prompt that was loaded leaves no placeholder when it is given all its
\* arguments, and each is where it is named, in whatever order they are put in.
PromptsFilledIn ==
  kind = "prompt" /\ LoadDefinitions(FileOf(input)).prompts # <<>> =>
    LET template == input.messages[1].text IN
    \A order \in Orders(input.arguments) :
      interpolateTemplate(template, [a \in input.arguments |-> Value(a)], order)
        = [i \in DOMAIN template |-> Literal(template[i][2])]

Property(default) == [type |-> "string", default |-> default]
Schemas == {[type |-> Empty, required |-> r, listed |-> l,
             properties |-> [n \in {"a", "b", "c"} |-> Property(<<"default", n>>)]] :
              r \in {s \in SeqOf({"a", "b", "c"}, 3) : Distinct(s)},
              l \in {<<"a", "b", "c">>, <<"c", "a", "b">>}}
Calls == [schema : Schemas, given : SUBSET {"a", "b", "c"}, highest : 0 .. 4]
Params(c, order) ==
  buildSQLParams(c.highest, c.schema, [n \in c.given |-> <<"given", n>>], order)

\* Whatever order the properties are read in, a placeholder has the value of
\* one property, the one given before its default; no two have the same one;
\* and the required properties are at the placeholders in their own order.
ParamsBind ==
  kind = "call" =>
    \A order \in Orders({"a", "b", "c"}) :
      LET params == Params(input, order) IN
      /\ \A i \in 1 .. input.highest :
           IF i > 3 THEN params[i] = Empty
           ELSE \E n \in {"a", "b", "c"} :
                  params[i] = <<IF n \in input.given THEN "given" ELSE "default", n>>
      /\ \A i, j \in 1 .. input.highest :
           i # j => params[i] = Empty \/ params[i] # params[j]
      /\ \A i \in DOMAIN input.schema.required :
           i <= input.highest => params[i][2] = input.schema.required[i]

\* Placeholders have the values of the properties in the order the schema
\* lists them.
\* Not so in the code: see the README.
ParamsFollowSchema ==
  kind = "call" =>
    \A order \in Orders({"a", "b", "c"}) : \A i \in 1 .. 3 :
      i <= input.highest => Params(input, order)[i][2] = input.schema.listed[i]

Block(language) == [name |-> language, type |-> "pl-do", language |-> language]
Tools == <<[name |-> "sql", type |-> "sql"], Block("plpgsql"), Block("plv8")>>

\* Before a session has a database it is shown the tools that some database
\* takes. Each that it then has is among them, unless that database leaves its
\* languages to the default and another one does not.
ListedBeforeUse ==
  kind = "languages" =>
    \A d \in input :
      d # {} \/ UNION input = {} =>
        registerCustomTools(Tools, getAllowedPLLanguages(d))
          \subseteq registerCustomTools(Tools, getAllowedPLLanguagesUnion(input))

\* A tool whose statement changes something is never announced as read-only
\* where it can.
WritingToolsSaySo ==
  kind = "statement" /\ input[2] =>
    customToolMayWrite([type |-> "sql", sql |-> input[1]], TRUE)

(***************************************************************************)
(* Requests and their answers.                                             *)
(***************************************************************************)
Methods == {"initialize", "server/discover", "ping", "tools/list", "tools/call",
            "resources/list", "resources/read", "prompts/list", "prompts/get",
            "pgedge/listDatabases", "pgedge/selectDatabase", "none"}
Bodies ==
  {b \in [parses : BOOLEAN, id : {"absent", "null"}, method : Methods,
          version : {0, 4, 10, 12}, caps : BOOLEAN, decodes : BOOLEAN,
          name : {"", "a", "?"}, uri : {"", "b", "?"}, asked : {0, 1, 4, 5, 9}] :
     /\ b.method # "initialize" => b.asked = 0
     /\ b.method \notin methodsRequiringMcpName => b.name # "?" /\ b.uri = ""
     /\ b.decodes /\ b.method \in methodsRequiringMcpName => Target(b) # "?"
     /\ ~b.parses => b.method = "none" /\ b.version = 0}
Headers(b) ==
  [version : {0, 4, 10, 12}, method : {"", b.method, "other"},
   name : {<<"absent", "">>} \cup {"plain", "base64"} \X {"a", "b"} \cup {<<"broken", "a">>}]
Exchange(b) == {b} \X Headers(b) \X {"ok", "fails", "unknown"}

\* Both transports give a request the same answer, and ask the same of the
\* server, though each has its own dispatcher, handlers and wrapping, when its
\* headers repeat its body and it has only the one of name and uri that its
\* handler takes.
TransportsAgree ==
  kind = "exchange" /\ NamedOnce(input[1]) /\ Mirrors(input[1], input[2]) =>
    handleHTTPRequest(input[1], input[2], input[3])[2] = Run(input[1], input[3])

\* A caller is answered in the protocol it speaks, whatever its headers. A
\* notification has no answer and does nothing. A legacy caller gets no field,
\* code or status it does not know, and a revision it knows; a modern one has
\* its result marked, and nothing is done for it unless the headers have its
\* revision, which is the one implemented, and its method, and what its
\* handler takes where that is all it names.
EraRespected ==
  kind = "exchange" =>
    LET b      == input[1]
        h      == input[2]
        status == handleHTTPRequest(b, h, input[3])[1]
        answer == handleHTTPRequest(b, h, input[3])[2]
        legacy == b.version = 0 /\ h.version \in {0, 4}
        marked == {"resultType", "serverInfo"}
    IN CASE ~b.parses -> status = 200 /\ answer.code = ParseError
         [] b.parses /\ b.id = "absent" -> status = 202 /\ answer = NoAnswer
         [] b.parses /\ b.id # "absent" /\ legacy ->
              /\ status = 200 /\ answer.code \notin {HeaderMismatch, Unsupported}
              /\ b.method # "server/discover" => answer.fields = {}
              /\ answer.names # 0 =>
                   /\ answer.names \in supportedProtocolVersions
                   /\ b.asked \notin {0, 1} =>
                        answer.names \in {b.asked, b.asked - 1}
         [] OTHER ->
              /\ answer.code # -32002
              /\ answer.code = 0 => marked \subseteq answer.fields
              /\ answer.code = 0 \/ answer.ran =>
                   /\ b.version = 10 /\ h.version = 10 /\ h.method = b.method /\ b.caps
                   /\ NamedOnce(b) => Mirrors(b, h)
              /\ status = 404 <=> answer.code = MethodNotFound
              /\ status = 400 => ~answer.ran

\* What the transport's header rule says: of a resource that is read, the
\* header has the uri.
\* Not so in the code: see the README.
HeaderNamesWhatIsRead ==
  kind = "exchange" =>
    LET b == input[1]
        h == input[2]
    IN b.version # 0 /\ b.method = "resources/read"
         /\ handleHTTPRequest(b, h, input[3])[2].ran => decodeHeaderValue(h.name) = b.uri

URLs == [scheme : {"http", "https", "ftp"}, host : {"", "a", "localhost"},
         port : {0, 80, 443, 81}, more : {FALSE}]
        \cup [scheme : {"http"}, host : {"a"}, port : {0}, more : {TRUE}]
        \cup [scheme : {"http"}, host : {"::1"}, port : {81}, more : {FALSE}]
Gates == {g \in [configured : {{}} \cup {{u} : u \in URLs}, issuer : {{}} \cup
                   {{u} : u \in {v \in URLs : v.port \in {0, 81}}},
                 origin : {{}} \cup {{u} : u \in URLs}, valid : BOOLEAN, signIn : BOOLEAN,
                 path : {"/mcp/v1", "/api/user/info", "/oauth/token"}] :
            /\ NewOriginPolicy(g.configured)
            /\ g.path # "/mcp/v1" => g.configured = {} /\ ~g.signIn}
ToolCall == [parses |-> TRUE, id |-> "null", method |-> "tools/call", version |-> 0,
             caps |-> FALSE, decodes |-> TRUE, name |-> "a", uri |-> "", asked |-> 0]
Served(g) ==
  Serve([path |-> g.path, verb |-> "POST", origin |-> g.origin, valid |-> g.valid,
         signIn |-> g.signIn, body |-> ToolCall, out |-> "ok",
         headers |-> [version |-> 0, method |-> "", name |-> <<"absent", "">>]],
        EffectiveOrigins(g.configured, g.issuer), TRUE, TRUE, g.issuer # {})

\* Two URLs of one origin, by the rule for browsers: a port that is left out
\* is the scheme's own.
Ports(u) == {u.port} \cup (CASE u.scheme = "https" /\ u.port \in {0, 443} -> {0, 443}
                             [] u.scheme = "http" /\ u.port \in {0, 80} -> {0, 80}
                             [] OTHER -> {})
SameOrigin(u, v) ==
  u.scheme = v.scheme /\ u.host = v.host /\ u.port \in Ports(v) /\ ~u.more

\* A tool is reached by exactly the calls that may: of a page of the issuer or
\* of a configured origin, or of this machine when there is neither, or of no
\* page; with a credential, or to sign in. A page that may call is asked for
\* no credential where one is got.
ExactlyAdmitted ==
  kind = "gate" =>
    LET expected == input.configured \cup {i \in input.issuer : i.scheme # "ftp" /\ i.host # ""}
        welcome(o) == \/ \E u \in expected : SameOrigin(o, u) /\ o.scheme # "ftp" /\ o.host # ""
                      \/ /\ expected = {} /\ o.host \in {"localhost", "::1"} /\ o.scheme # "ftp"
        admitted == \A o \in input.origin : welcome(o)
    IN /\ Served(input)[2].ran <=>
            input.path = "/mcp/v1" /\ admitted /\ (input.valid \/ input.signIn)
       /\ input.path = "/api/user/info" \/ (input.path = "/oauth/token" /\ input.issuer # {}) =>
            Served(input)[1] = IF admitted THEN 200 ELSE 403

Entries == {"c", "d", "p", "q", "?"}
Routes == [written : SeqOf(Entries, 3), proxies : SeqOf({"p", "q"}, 2)]

\* A caller's address is its own, whatever it writes into the forwarding
\* header itself: every proxy on its way appends the address of its peer.
AddressIsTheCallers ==
  kind = "route" =>
    LET hops == <<"c">> \o input.proxies
    IN Resolve(hops[Len(hops)], input.written \o SubSeq(hops, 1, Len(hops) - 1),
               {"p", "q"}) = "c"

Init ==
  \/ kind = "exchange" /\ \E b \in Bodies : input \in Exchange(b)
  \/ kind = "gate" /\ input \in Gates
  \/ kind = "route" /\ input \in Routes
  \/ kind = "layout" /\ input \in Layouts
  \/ kind = "cut" /\ input \in Cuts
  \/ kind = "choose" /\ input \in Choosing
  \/ kind = "prompt" /\ input \in Prompts
  \/ kind = "call" /\ input \in Calls
  \/ kind = "languages" /\ input \in SUBSET SUBSET {"plpgsql", "plv8", "*"}
  \/ kind = "search" /\ input \in Searches
  \/ kind = "text" /\ input \in Texts
  \/ kind = "statement" /\ input \in Statements
  \/ kind = "script" /\ input \in Scripts
  \/ kind = "nested" /\ input \in Nested
  \/ kind = "page" /\ input \in PageRequests

Next == UNCHANGED <<kind, input>>

Spec == Init /\ [][Next]_<<kind, input>>
=============================================================================
