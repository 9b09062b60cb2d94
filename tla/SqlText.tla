------------------------------ MODULE SqlText ------------------------------
(***************************************************************************)
(* The SQL scanner that the server's guard and the client's confirmation   *)
(* share (package sqltext), and the client's classification of a statement *)
(* (ClassifyQuery), as operators.                                          *)
(*                                                                         *)
(* A text is a sequence of characters. One character stands for each class *)
(* the scanner or PostgreSQL tells apart: "n" a newline, "r" a carriage    *)
(* return, "a" and "E" letters, "u" a letter beyond ASCII, "1" a digit,    *)
(* " " other white space; the rest are themselves. A classified text is a  *)
(* sequence of words and semicolons, as the regular expressions see it.    *)
(***************************************************************************)
EXTENDS Integers, Sequences, FiniteSets, SequencesExt

Letters == {"a", "E"}
Digits  == {"1"}

\* Of the letters only those of ASCII, though PostgreSQL takes all.
Identifier == Letters \cup Digits \cup {"_"}

\* The character at i, or "" past the end; the text from i on starts with p.
At(q, i) == IF i \in 1 .. Len(q) THEN q[i] ELSE ""
StartsAt(q, i, p) == \A k \in 1 .. Len(p) : At(q, i + k - 1) = p[k]

\* The first position from i on that satisfies P, or past the end.
FirstFrom(q, i, P(_)) ==
  LET found == {j \in i .. Len(q) : P(j)}
  IN IF found = {} THEN Len(q) + 1
     ELSE CHOOSE j \in found : \A k \in found : j <= k

\* A line comment reaches to its newline, which stays; a carriage return,
\* which ends it for PostgreSQL, does not.
skipLineCommentBody(q, i) ==
  LET Newline(j) == q[j] = "n" IN FirstFrom(q, i, Newline)

\* A block comment ends where its nesting does.
RECURSIVE BlockEnd(_, _, _)
BlockEnd(q, i, depth) ==
  IF i > Len(q) THEN Len(q) + 1
  ELSE IF StartsAt(q, i, <<"/", "*">>) THEN BlockEnd(q, i + 2, depth + 1)
  ELSE IF StartsAt(q, i, <<"*", "/">>)
       THEN IF depth = 1 THEN i + 2 ELSE BlockEnd(q, i + 2, depth - 1)
  ELSE BlockEnd(q, i + 1, depth)

skipBlockComment(q, i) == BlockEnd(q, i, 0)

\* A quoted literal or identifier, a doubled quote being part of it; in an
\* escape string a backslash takes the next character along.
RECURSIVE QuoteEnd(_, _, _, _)
QuoteEnd(q, i, quote, escapes) ==
  IF i > Len(q) THEN Len(q) + 1
  ELSE IF escapes /\ q[i] = "\\" /\ i < Len(q)
       THEN QuoteEnd(q, i + 2, quote, escapes)
  ELSE IF q[i] # quote THEN QuoteEnd(q, i + 1, quote, escapes)
  ELSE IF At(q, i + 1) = quote THEN QuoteEnd(q, i + 2, quote, escapes)
  ELSE i + 1

endOfQuoted(q, i, quote, escapes) == QuoteEnd(q, i + 1, quote, escapes)

\* An E starts an escape string unless it ends an identifier.
escapeStringStart(q, i) ==
  /\ q[i] = "E"
  /\ At(q, i + 1) = "'"
  /\ At(q, i - 1) \notin Identifier

\* A dollar sign can start a quote unless it continues an identifier.
dollarQuoteCanStartAt(q, i) == At(q, i - 1) \notin Identifier \cup {"$"}

\* The tag that opens at i, or the empty sequence when none does.
dollarQuoteTag(q, i) ==
  LET Stops(j) == q[j] \notin Identifier \/ (j = i + 1 /\ q[j] \in Digits)
      end == FirstFrom(q, i + 1, Stops)
  IN IF At(q, end) = "$" THEN SubSeq(q, i, end) ELSE <<>>

\* Just past the closing tag, or 0.
endOfDollarQuote(q, i, tag) ==
  LET Closing(j) == StartsAt(q, j, tag)
      at == FirstFrom(q, i + Len(tag), Closing)
  IN IF at > Len(q) THEN 0 ELSE at + Len(tag)

\* The residue: comments are a space, literals an empty pair of their quotes.
RECURSIVE Scan(_, _)
Scan(q, i) ==
  LET quote == IF i <= Len(q) /\ q[i] = "$" /\ dollarQuoteCanStartAt(q, i)
               THEN dollarQuoteTag(q, i) ELSE <<>>
      close == IF quote = <<>> THEN 0 ELSE endOfDollarQuote(q, i, quote)
  IN IF i > Len(q) THEN <<>>
     ELSE IF StartsAt(q, i, <<"-", "-">>)
          THEN <<" ">> \o Scan(q, skipLineCommentBody(q, i))
     ELSE IF StartsAt(q, i, <<"/", "*">>)
          THEN <<" ">> \o Scan(q, skipBlockComment(q, i))
     ELSE IF escapeStringStart(q, i)
          THEN <<"E", "'", "'">> \o Scan(q, endOfQuoted(q, i + 1, "'", TRUE))
     ELSE IF q[i] \in {"'", "\""}
          THEN <<q[i], q[i]>> \o Scan(q, endOfQuoted(q, i, q[i], FALSE))
     ELSE IF close > 0 THEN quote \o quote \o Scan(q, close)
     ELSE <<q[i]>> \o Scan(q, i + 1)

Strip(q) == Scan(q, 1)

\* What is left of a text once the characters of set are cut from its end.
TrimRight(q, set) ==
  LET kept == {j \in 1 .. Len(q) : q[j] \notin set}
  IN IF kept = {} THEN <<>>
     ELSE SubSeq(q, 1, CHOOSE j \in kept : \A k \in kept : k <= j)

HasMultipleStatements(residue) ==
  \E j \in DOMAIN TrimRight(residue, {";", " ", "r", "n"}) : residue[j] = ";"

(***************************************************************************)
(* ClassifyQuery                                                           *)
(***************************************************************************)

readPrefixes == {"SELECT", "WITH", "TABLE", "VALUES", "EXPLAIN", "SHOW"}
ddlPrefixes  == {"CREATE", "DROP", "ALTER", "TRUNCATE"}
dmlPrefixes  == {"INSERT", "UPDATE", "DELETE", "MERGE"}
ddlIndicator == ddlPrefixes \cup {"INTO", "GRANT", "REVOKE"}

Word(words, i) == At(words, i)

\* The words of a text without its row-locking clauses.
rowLocks(words) ==
  {i \in DOMAIN words :
     \/ /\ words[i] = "FOR"
        /\ \/ Word(words, i + 1) \in {"UPDATE", "SHARE"}
           \/ Word(words, i + 1) = "NO" /\ Word(words, i + 3) = "UPDATE"
     \/ i > 1 /\ words[i] \in {"UPDATE", "SHARE"} /\ words[i - 1] = "FOR"
     \/ i > 3 /\ words[i] = "UPDATE" /\ words[i - 1] = "KEY" /\ words[i - 3] = "FOR"}

scanned(words) == {words[i] : i \in DOMAIN words \ rowLocks(words)}

classifyReadPrefixed(words) ==
  IF words[1] \in {"TABLE", "VALUES", "SHOW"}
     \/ (words[1] = "EXPLAIN" /\ ~\E i \in DOMAIN words : words[i] = "ANALYZE")
  THEN "select"
  ELSE IF scanned(words) \cap dmlPrefixes # {} THEN "dml"
  ELSE IF scanned(words) \cap ddlIndicator # {} THEN "ddl"
  ELSE "select"

ClassifyQuery(words) ==
  IF Word(words, 1) \in ddlPrefixes THEN "ddl"
  ELSE IF Word(words, 1) \in dmlPrefixes THEN "dml"
  ELSE IF Word(words, 1) \in readPrefixes THEN classifyReadPrefixed(words)
  ELSE "other"

\* The second result: the text is taken for a write. Of a script of several
\* statements it is the first word that decides how the rest is looked at.
IsWrite(words) == ClassifyQuery(words) # "select"
=============================================================================
