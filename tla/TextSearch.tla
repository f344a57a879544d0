----------------------------- MODULE TextSearch -----------------------------
(***************************************************************************)
(* Full-text search.  to_tsvector and to_tsquery make texts of lexemes,    *)
(* and tsmatch and ts_rank read both texts again.  Texts are sequences of  *)
(* tokens: words, and the characters & | ! ( ) < > that both functions     *)
(* keep, in documents too.                                                 *)
(***************************************************************************)
EXTENDS Integers, FiniteSets, Sequences, SequencesExt

CONSTANTS
  Words,      \* the words of documents and of queries
  StopWords,  \* those that are left out, before they are stemmed
  Stem,       \* Stem[w]: what is left of a word
  Short,      \* the stems of one letter, which are left out
  Documents,  \* sequences of tokens
  Queries,    \* parsed queries, see below, with the queries they are made of
  Depth       \* Depth[q]: how deep a query is nested

\* A query as PostgreSQL parses it.
Word(w)         == [op |-> "word", word |-> w]
Not(q)          == [op |-> "!", of |-> q]
Query(op, l, r) == [op |-> op, left |-> l, right |-> r]   \* op is "&", "|" or "<->"

OperatorTokens == {"&", "|", "!", "(", ")", "<", ">"}

\* What is written for operators; lexemes are in small letters.
Operators == {"AND", "OR", "NOT"}

\* Both sides of <-> are words here.
IsQuery(q) ==
  /\ q.op \in {"word", "!", "&", "|", "<->"}
  /\ q.op = "word" => q.word \in Words
  /\ q.op = "!" => q.of \in Queries /\ Depth[q.of] < Depth[q]
  /\ q.op \in {"&", "|", "<->"} => \A p \in {q.left, q.right} : p \in Queries /\ Depth[p] < Depth[q]
  /\ q.op = "<->" => q.left.op = "word" /\ q.right.op = "word"

ASSUME TextSearchAssumption ==
  /\ Words \cap OperatorTokens = {}
  /\ \A w \in Words : Stem[w] \notin OperatorTokens \cup Operators
  /\ \A d \in Documents : d \in Seq(Words \cup OperatorTokens)
  /\ \A q \in Queries : Depth[q] \in Nat /\ IsQuery(q)

-----------------------------------------------------------------------------
(* Writing *)

Kept(w)   == w \notin StopWords /\ Stem[w] \notin Short
IsWord(t) == t \notin OperatorTokens

\* The lexemes of a document and the places of each.  Every token has a place.
ToTsvector(document) ==
  LET places(l) == {i \in DOMAIN document : IsWord(document[i]) /\ Kept(document[i]) /\ Stem[document[i]] = l}
      lexemes   == {Stem[document[i]] : i \in {j \in DOMAIN document : IsWord(document[j]) /\ Kept(document[j])}}
  IN  [l \in lexemes |-> places(l)]

\* Faulty variant: the words of a query are left as they are.
ProcessedUnstemmed(t) == IF IsWord(t) /\ ~Kept(t) THEN <<>> ELSE <<t>>

Processed(t) == IF ~IsWord(t) THEN <<t>> ELSE IF Kept(t) THEN <<Stem[t]>> ELSE <<>>

TsqueryTokens(tokens) == FlattenSeq([i \in DOMAIN tokens |-> Processed(tokens[i])])

\* The words of FTS5 for tokens with a space between each two.  The space after
\* a word or a > becomes AND; < and > are parted and stand for nothing.
ConvertToFts5(tokens) ==
  LET More(i) == IF i < Len(tokens) THEN <<"AND">> ELSE <<>>
      Fts5(i) == CASE tokens[i] = "&" -> <<"AND">>
                   [] tokens[i] = "|" -> <<"OR">>
                   [] tokens[i] = "!" -> <<"NOT">>
                   [] tokens[i] = "<" -> <<>>
                   [] tokens[i] \in {"(", ")"} -> <<tokens[i]>>
                   [] OTHER -> <<tokens[i]>> \o More(i)
  IN  FlattenSeq([i \in DOMAIN tokens |-> Fts5(i)])

ToTsquery(tokens) == ConvertToFts5(TsqueryTokens(tokens))

-----------------------------------------------------------------------------
(* Reading *)

\* Faulty variant: a negation goes on to the end of the query.
TermStepSticky(s, t) ==
  CASE t \in {"NOT", "not"} -> [s EXCEPT !.negated = TRUE]
    [] t \in {"AND", "and", "OR", "or", "(", ")", ">"} -> s
    [] OTHER -> IF s.negated THEN [s EXCEPT !.negative = @ \cup {t}]
                ELSE [s EXCEPT !.positive = @ \cup {t}]

\* Brackets, and a >, are terms that are too short, and end a negation as terms
\* do.  A lexeme that reads like an operator is taken for one.
TermStep(s, t) ==
  CASE t \in {"NOT", "not"} -> [s EXCEPT !.negated = TRUE]
    [] t \in {"AND", "and", "OR", "or", "(", ")", ">"} -> [s EXCEPT !.negated = FALSE]
    [] OTHER -> IF s.negated THEN [s EXCEPT !.negative = @ \cup {t}, !.negated = FALSE]
                ELSE [s EXCEPT !.positive = @ \cup {t}]

ExtractTerms(query) ==
  LET after[i \in 0..Len(query)] ==
        IF i = 0 THEN [positive |-> {}, negative |-> {}, negated |-> FALSE]
        ELSE TermStep(after[i - 1], query[i])
  IN  after[Len(query)]

\* tsmatch: every term must be there, whichever operators join them.
Tsmatch(vector, query) ==
  LET terms == ExtractTerms(query)
  IN  terms.positive \subseteq DOMAIN vector /\ terms.negative \cap DOMAIN vector = {}

\* ts_rank is found / of, and 0 without terms.
TsRank(vector, query) ==
  LET terms == ExtractTerms(query).positive
  IN  [found |-> Cardinality(terms \cap DOMAIN vector), of |-> Cardinality(terms)]

-----------------------------------------------------------------------------
VARIABLES document, sought   \* a document that is searched for with a query

searchVars == <<document, sought>>

SearchInit == document \in Documents /\ sought \in Queries
SearchSpec == SearchInit /\ [][UNCHANGED searchVars]_searchVars

-----------------------------------------------------------------------------
(* Properties *)

\* The tokens a client writes for a query.
Typed[q \in Queries] ==
  LET Operand(p) == IF p.op \in {"word", "!"} \/ (p.op = q.op /\ p = q.left) THEN Typed[p]
                    ELSE <<"(">> \o Typed[p] \o <<")">>
  IN  CASE q.op = "word" -> <<q.word>>
        [] q.op = "!"    -> <<"!">> \o Operand(q.of)
        [] q.op = "<->"  -> Operand(q.left) \o <<"<", ">">> \o Operand(q.right)
        [] OTHER         -> Operand(q.left) \o <<q.op>> \o Operand(q.right)

Subqueries[q \in Queries] ==
  {q} \cup CASE q.op = "word" -> {}
             [] q.op = "!"    -> Subqueries[q.of]
             [] OTHER         -> Subqueries[q.left] \cup Subqueries[q.right]

Uses(q, op)     == \E p \in Subqueries[q] : p.op = op
NegatesWords(q) == \A p \in Subqueries[q] : p.op = "!" => p.of.op = "word"
WordsOf(q)      == {p.word : p \in {r \in Subqueries[q] : r.op = "word"}}

\* Not so the words "ands", "noting" or "ors".
ReadAsWords(q) == \A w \in WordsOf(q) : Kept(w) => Stem[w] \notin {"and", "or", "not"}

\* The places of a document's words, operators not counted.
Prose(doc) == FlattenSeq([i \in DOMAIN doc |-> IF IsWord(doc[i]) THEN <<doc[i]>> ELSE <<>>])

\* PostgreSQL drops the words that are not kept from a query.
Gone(q) == \A w \in WordsOf(q) : ~Kept(w)

\* The documents that PostgreSQL finds.
Matching[q \in Queries] ==
  LET Places(d, w) == {i \in DOMAIN Prose(d) : Kept(Prose(d)[i]) /\ Stem[Prose(d)[i]] = Stem[w]}
  IN  CASE q.op = "word" -> {d \in Documents : Places(d, q.word) # {}}
        [] q.op = "!"    -> Documents \ Matching[q.of]
        [] OTHER ->
             IF Gone(q.left) THEN Matching[q.right]
             ELSE IF Gone(q.right) THEN Matching[q.left]
             ELSE CASE q.op = "&" -> Matching[q.left] \cap Matching[q.right]
                    [] q.op = "|" -> Matching[q.left] \cup Matching[q.right]
                    [] q.op = "<->" ->
                         {d \in Documents : \E i \in Places(d, q.left.word) : i + 1 \in Places(d, q.right.word)}

\* As long as ! stands before words only, not all the words are dropped, and the
\* others are not taken for operators, a document that tsmatch finds is one that
\* PostgreSQL finds unless the query has a <->, and every document PostgreSQL
\* finds is found unless it has a |.  If nothing is negated the rank is the
\* greatest for the documents that are found and only for those, and the least
\* for those with no word of the query.
TsmatchFindsDocuments ==
  LET vector  == ToTsvector(document)
      asked   == ToTsquery(Typed[sought])
      found   == Tsmatch(vector, asked)
      matches == document \in Matching[sought]
      rank    == TsRank(vector, asked)
  IN  NegatesWords(sought) /\ ~Gone(sought) /\ ReadAsWords(sought) =>
        /\ ~Uses(sought, "<->") => (found => matches)
        /\ ~Uses(sought, "|")   => (matches => found)
        /\ ~Uses(sought, "!")   =>
             /\ rank.found = rank.of <=> found
             /\ rank.found = 0 <=>
                  \A p \in Subqueries[sought] :
                    p.op = "word" /\ Kept(p.word) => document \notin Matching[p]
=============================================================================
