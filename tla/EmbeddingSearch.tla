-------------------------- MODULE EmbeddingSearch --------------------------
(***************************************************************************)
(* similarity_search (internal/tools/similarity_search.go, internal/search) *)
(* as operators: which columns are compared and shown, how the rows found  *)
(* are cut into chunks, which chunks are chosen and how many fit.          *)
(*                                                                         *)
(* A text is the sequence of its words. Scores are natural numbers: how    *)
(* BM25 comes to them is left out, that a ranked list falls in them is     *)
(* not. Similarities are in sixtieths and lambda in tenths, so that MMR's  *)
(* comparisons are exact.                                                  *)
(***************************************************************************)
EXTENDS Integers, Sequences, FiniteSets, SequencesExt

(***************************************************************************)
(* Columns: [name, of, vector, type, dims, looks, described, sample] where *)
(* "of" is the name left of a vector column's when its suffix is removed,  *)
(* "looks" what a name says of its text and "sample" what its rows do. A   *)
(* type is "text" for those that both lists of text types have, "string"   *)
(* for one that only the first has, "other" for the rest.                  *)
(***************************************************************************)
Vectors(table) == SelectSeq(table, LAMBDA c : c.vector)

\* What is a text column to the weighting, and to the tool.
isTextColumn(c) == c.type \in {"text", "string"}
isTextDataType(c) == c.type = "text"

\* The columns whose text is chunked: for each vector column the text column
\* of its name; when none has one, every text column.
discoverTextColumns(table) ==
  LET Named(v) == SelectSeq(table, LAMBDA c : c.name = v.of /\ isTextDataType(c))
      with     == SelectSeq(Vectors(table), LAMBDA v : Named(v) # <<>>)
      matched  == [i \in DOMAIN with |-> Named(with[i])[1]]
  IN IF matched # <<>> THEN matched
     ELSE SelectSeq(table, LAMBDA c : ~c.vector /\ isTextDataType(c))

\* The weight of a text column in tenths, before the weights are brought to a
\* sum of one: the name decides, the description over it, the rows over both.
Weight(c) ==
  CASE c.sample = "short" -> 3
    [] c.sample = "long"  -> 7
    [] OTHER -> CASE c.described \/ c.looks = "title" -> 3
                  [] c.looks = "content" -> 7
                  [] OTHER -> 5

\* The columns compared: each text column with a vector column of its name,
\* the last one if several have it.
DetectColumnTypes(table) ==
  LET For(c) == SelectSeq(Vectors(table), LAMBDA v : v.of = c.name)
      texts  == SelectSeq(table, LAMBDA c : ~c.vector /\ isTextColumn(c) /\ For(c) # <<>>)
  IN [i \in DOMAIN texts |->
        [column |-> texts[i].name, vector |-> Last(For(texts[i])).name,
         weight |-> Weight(texts[i])]]

\* The weight given to each vector column in the distance, as a fraction; all
\* alike when no text column goes with any of them.
Weighted(table) ==
  LET found == DetectColumnTypes(table)
      total == FoldLeft(LAMBDA sum, w : sum + w.weight, 0, found)
  IN IF found # <<>>
     THEN [i \in DOMAIN found |-> [vector |-> found[i].vector,
             part |-> IF Len(found) = 1 THEN 1 ELSE found[i].weight,
             whole |-> IF Len(found) = 1 THEN 1 ELSE total]]
     ELSE [i \in DOMAIN Vectors(table) |->
             [vector |-> Vectors(table)[i].name, part |-> 1,
              whole |-> Len(Vectors(table))]]

DimensionsMatch(table, length) ==
  \A i \in DOMAIN Vectors(table) : Vectors(table)[i].dims \in {0, length}

(***************************************************************************)
(* Chunks.                                                                 *)
(***************************************************************************)
EstimateTokens(words) ==
  IF Len(words) = 1 THEN 1 ELSE (3 * Len(words)) \div 4

\* The words of a chunk and how many of them the next one repeats.
DefaultWords == 100
MaxWords(maxTokens) ==
  IF maxTokens <= 0 THEN DefaultWords ELSE (4 * maxTokens) \div 3
OverlapWords(maxTokens, overlapTokens) ==
  LET wanted == IF overlapTokens < 0 THEN 0 ELSE (4 * overlapTokens) \div 3
  IN IF wanted >= MaxWords(maxTokens) THEN MaxWords(maxTokens) \div 4 ELSE wanted

ChunkText_StopsEarly(words, maxTokens, overlapTokens) ==
  LET size  == MaxWords(maxTokens)
      step  == size - OverlapWords(maxTokens, overlapTokens)
      steps == IF Len(words) <= size THEN 0 ELSE (Len(words) - size) \div step
  IN IF words = <<>> THEN <<>>
     ELSE [k \in 1 .. steps + 1 |->
             SubSeq(words, (k - 1) * step + 1,
                    IF (k - 1) * step + size < Len(words)
                      THEN (k - 1) * step + size ELSE Len(words))]

\* Chunks are taken a step apart until one reaches the end of the text.
ChunkText(words, maxTokens, overlapTokens) ==
  LET size  == MaxWords(maxTokens)
      step  == size - OverlapWords(maxTokens, overlapTokens)
      steps == IF Len(words) <= size THEN 0
               ELSE (Len(words) - size + step - 1) \div step
  IN IF words = <<>> THEN <<>>
     ELSE [k \in 1 .. steps + 1 |->
             SubSeq(words, (k - 1) * step + 1,
                    IF (k - 1) * step + size < Len(words)
                      THEN (k - 1) * step + size ELSE Len(words))]

\* A row is [id, data]: a text for each column that holds one.
ChunkRow(row, columns, maxTokens, overlapTokens) ==
  LET Of(col) == IF col \notin DOMAIN row.data THEN <<>>
                 ELSE ChunkText(row.data[col], maxTokens, overlapTokens)
      Chunk(col, k) == [row |-> row.id, column |-> col, index |-> k - 1,
                        text |-> Of(col)[k], score |-> 0]
  IN FlattenSeq([i \in DOMAIN columns |->
                   [k \in DOMAIN Of(columns[i]) |-> Chunk(columns[i], k)]])

chunkResults(rows, columns, maxTokens, overlapTokens) ==
  FlattenSeq([i \in DOMAIN rows |->
                ChunkRow(rows[i], columns, maxTokens, overlapTokens)])

\* Ranking only puts the chunks in the order of the scores it gives them.
IsRanking(ranked) ==
  \A i, j \in DOMAIN ranked : i < j => ranked[i].score >= ranked[j].score

(***************************************************************************)
(* Maximal marginal relevance.                                             *)
(***************************************************************************)
Unit == 60
jaccardSimilarity(a, b) ==
  LET A == ToSet(a)
      B == ToSet(b)
  IN CASE A = {} /\ B = {} -> Unit
       [] (A = {}) # (B = {}) -> 0
       [] OTHER -> (Unit * Cardinality(A \cap B)) \div Cardinality(A \cup B)

calculateSimilarity(c, d) ==
  CASE c.row # d.row -> jaccardSimilarity(c.text, d.text)
    [] c.column # d.column -> 30
    [] c.index - d.index \in {-1, 0, 1} -> 54
    [] OTHER -> 36

\* How far a candidate is from the selected chunk it is least like.
diversityScore(c, selected) ==
  IF selected = {} THEN Unit
  ELSE Unit - (CHOOSE s \in {calculateSimilarity(c, d) : d \in selected} :
                 \A d \in selected : s <= calculateSimilarity(c, d))

Clamp(lambda) == CASE lambda < 0 -> 0 [] lambda > 10 -> 10 [] OTHER -> lambda

\* The places in the ranked list of the chunks chosen, in the order chosen:
\* the first of those with the best score among what is left.
Picked(ranked, lambda, maxChunks) ==
  LET max == IF ranked[1].score = 0 THEN 1 ELSE ranked[1].score
      pick[n \in 0 .. maxChunks] ==
        IF n = 0 THEN <<>>
        ELSE LET rest == DOMAIN ranked \ ToSet(pick[n - 1])
                 selected == {ranked[i] : i \in ToSet(pick[n - 1])}
                 Mmr(i) == Clamp(lambda) * Unit * ranked[i].score
                           + (10 - Clamp(lambda)) * max
                             * diversityScore(ranked[i], selected)
                 best == CHOOSE i \in rest : \A j \in rest :
                           Mmr(i) > Mmr(j) \/ (Mmr(i) = Mmr(j) /\ i <= j)
             IN Append(pick[n - 1], best)
  IN pick[maxChunks]

\* The score a chosen chunk goes out with is that of the chunk ranked at the
\* place it was chosen at (mmr.go:81), not its own.
SelectChunks(ranked, lambda, maxChunks) ==
  IF Len(ranked) <= maxChunks THEN ranked
  ELSE LET chosen == Picked(ranked, lambda, maxChunks)
       IN [n \in DOMAIN chosen |->
             [ranked[chosen[n]] EXCEPT !.score = ranked[n].score]]

\* As many of the first chunks as fit; the first that does not ends it.
TokensOf(chunks) == FoldLeft(LAMBDA sum, c : sum + EstimateTokens(c.text), 0, chunks)
SelectChunksWithinBudget(chunks, maxTokens) ==
  LET fits == {n \in 0 .. Len(chunks) : TokensOf(SubSeq(chunks, 1, n)) <= maxTokens}
  IN IF fits = {} THEN <<>>
     ELSE SubSeq(chunks, 1, CHOOSE n \in fits : \A m \in fits : m <= n)

(***************************************************************************)
(* The tool. "failing" are the steps that do not succeed; a chunk size of  *)
(* zero is divided by.                                                     *)
(***************************************************************************)
MinChunks == 10
maxChunksBeforeBudget(maxTokens, chunkTokens) ==
  LET twice == (maxTokens \div chunkTokens) * 2
  IN IF twice < MinChunks THEN MinChunks ELSE twice

Outcome(call, table, rows, ranked, failing) ==
  CASE "arguments" \in failing -> "missing argument"
    [] "table" \in failing -> "table not found"
    [] Vectors(table) = <<>> -> "no vector columns"
    [] discoverTextColumns(table) = <<>> -> "no text columns"
    [] "embedding" \in failing -> "embedding failed"
    [] ~DimensionsMatch(table, call.dims) -> "dimension mismatch"
    [] "search" \in failing -> "search failed"
    [] rows = <<>> -> "no results"
    [] call.chunkTokens = 0 -> "panic"
    [] OTHER ->
        IF SelectChunksWithinBudget(
             SelectChunks(ranked, call.lambda,
               maxChunksBeforeBudget(call.maxTokens, call.chunkTokens)),
             call.maxTokens) = <<>>
        THEN "nothing fits" ELSE "results"
=============================================================================
