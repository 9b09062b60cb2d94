----------------------------- MODULE RowLimits -----------------------------
(***************************************************************************)
(* How query_database keeps a result small: the limit it resolves, whether *)
(* the statement has a row-limiting clause of its own, what it makes of    *)
(* the statement, and how it reports the rows. As operators.               *)
(*                                                                         *)
(* Two views of a statement, each with what its question depends on: a     *)
(* sequence of tokens, parentheses and keywords, for finding clauses; and  *)
(* a record of its own clauses, for the rows it returns.                   *)
(***************************************************************************)
EXTENDS Integers, Sequences, FiniteSets

CONSTANTS
  defaultRowLimit,  \* 100 in the code
  maxRowLimit       \* 1000 in the code

minRowLimit == 1

\* The limit argument: absent, not a number, fractional, or a whole number.
resolveRowLimit(given) ==
  IF given.kind = "whole" /\ given.value \in minRowLimit .. maxRowLimit
  THEN given.value ELSE defaultRowLimit

(***************************************************************************)
(* Clauses of the outermost statement                                      *)
(***************************************************************************)

\* Parentheses opened before position i and still open there.
parenDepthAt(t, i) ==
  LET depth[k \in 0 .. (i - 1)] ==
        IF k = 0 THEN 0
        ELSE IF t[k] = "(" THEN depth[k - 1] + 1
        ELSE IF t[k] = ")" /\ depth[k - 1] > 0 THEN depth[k - 1] - 1
        ELSE depth[k - 1]
  IN depth[i - 1]

\* Where the parenthesis that opens t closes, or 0.
CloseOf(t) ==
  LET closing == {i \in DOMAIN t : t[i] = ")" /\ parenDepthAt(t, i) = 1}
  IN IF closing = {} THEN 0 ELSE CHOOSE i \in closing : \A j \in closing : i <= j

Inner(t) == SubSeq(t, 2, CloseOf(t) - 1)

\* How many pairs of parentheses wrap all of t.
redundantWrapDepth(t) ==
  LET wrap[k \in 0 .. Len(t)] ==
        IF k = 0 THEN t
        ELSE LET s == wrap[k - 1] IN
             IF s # <<>> /\ s[1] = "(" /\ CloseOf(s) = Len(s) /\ Len(s) > 2
             THEN Inner(s) ELSE <<>>
  IN Cardinality({k \in 1 .. Len(t) : wrap[k] # <<>>})

queryHasClause(clauses, t) ==
  \E i \in DOMAIN t : /\ t[i] \in clauses
                      /\ parenDepthAt(t, i) = redundantWrapDepth(t)

LimitClauses == {"LIMIT", "FETCH"}

\* What is inside the parentheses that t starts with, whatever follows them.
stripLeadingParens(t) ==
  LET peel[k \in 0 .. Len(t)] ==
        IF k = 0 THEN t
        ELSE LET s == peel[k - 1] IN
             IF s # <<>> /\ s[1] = "(" /\ CloseOf(s) > 2 THEN Inner(s) ELSE s
  IN peel[Len(t)]

\* The statement returns rows a LIMIT can be put on.
isSelectQuery(t) ==
  LET s == stripLeadingParens(t)
  IN s # <<>> /\ s[1] \in {"SELECT", "WITH", "TABLE", "VALUES"}

(***************************************************************************)
(* The page                                                                *)
(***************************************************************************)

NoLimit == -1

\* A statement that has rows: its own LIMIT and OFFSET, if it has them,
\* whether it ends in a line comment, and whether it is a query. What is none
\* has rows by RETURNING, or is a SHOW or an EXPLAIN on a read-only connection.
\* The table is a sequence.
Skip(rows, n) == SubSeq(rows, n + 1, Len(rows))
Take(rows, n) ==
  IF n = NoLimit \/ n >= Len(rows) THEN rows ELSE SubSeq(rows, 1, n)

\* All that the statement, as the caller wrote it, would return.
Whole(q, table) == Take(Skip(table, q.offset), q.limit)

hasExistingLimit(q) == q.limit # NoLimit
hasExistingOffset(q) == q.offset > 0

\* The limit the result is held to.
Capped(q, limit) == IF hasExistingLimit(q) THEN maxRowLimit ELSE limit

\* A query with a limit of its own is wrapped in another; a comment at its
\* end takes the closing parenthesis, and the database answers an error.
Unparseable(q) == q.select /\ hasExistingLimit(q) /\ q.comment

\* What the database sends of a statement it can parse. Only to a query is
\* anything appended, and it reaches the database unless a comment takes it:
\* one row more than the limit, and the offset.
Fetched(q, limit, offset, table) ==
  IF ~q.select \/ (q.comment /\ ~hasExistingLimit(q)) THEN Whole(q, table)
  ELSE LET skipped == IF offset > 0 /\ ~hasExistingOffset(q)
                      THEN Skip(Whole(q, table), offset) ELSE Whole(q, table)
       IN Take(skipped, IF Capped(q, limit) = NoLimit THEN NoLimit
                        ELSE Capped(q, limit) + 1)

\* Mutant: a full page is taken for one with more behind it.
Truncated_FullPage(q, limit, fetched) ==
  q.select /\ Capped(q, limit) # NoLimit /\ Len(fetched) >= Capped(q, limit)

\* More rows came than are shown.
Truncated(q, limit, fetched) ==
  q.select /\ Capped(q, limit) # NoLimit /\ Len(fetched) > Capped(q, limit)

\* The answer: whether it is an error, the rows, the range the header gives
\* them, and the offset it names for the next page, or 0.
Page(q, limit, offset, table) ==
  LET fetched == Fetched(q, limit, offset, table)
      more == Truncated(q, limit, fetched)
      rows == IF more THEN Take(fetched, Capped(q, limit)) ELSE fetched
  IN IF Unparseable(q)
     THEN [error |-> TRUE, rows |-> <<>>, first |-> offset + 1, next |-> 0]
     ELSE [error |-> FALSE, rows |-> rows, first |-> offset + 1,
           next |-> IF more THEN offset + Capped(q, limit) ELSE 0]
=============================================================================
