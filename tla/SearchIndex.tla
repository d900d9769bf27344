----------------------------- MODULE SearchIndex -----------------------------
(***************************************************************************)
(* The index of the documentation site: what search-worker.js:48-68 builds *)
(* with lunr.Builder (lunr.js:2004-2274) and what Index.query              *)
(* (lunr.js:1752-1910) answers.  The documents are added, their terms      *)
(* inserted into one vector per field and document and, in order, into the *)
(* token set; then queries come, and each has its terms expanded, one      *)
(* vector per field filled, and the fields that match scored.              *)
(***************************************************************************)
EXTENDS SearchVectors, TokenSets, QueryStrings

CONSTANTS SearchData,    \* what index.json may hold: sequences of documents
          StopWords,     \* what search-stopwords.json holds
          Stem(_),       \* the stemmer (lunr.js:722-941)
          SavedWords,    \* the terms that a saved index may have
          Questions,     \* what a user may ask: sequences of clauses
          Scribbles      \* and search strings that come out of no clauses

Missing == <<-1>>   \* a document without the field
Title == <<116>>           \* the fields, by short names
Keywords == <<107>>
Fields == <<Title, Keywords>>

Refs == {<<f, d>> : f \in Range(Fields), d \in UNION {DOMAIN s : s \in SearchData}}

ASSUME FieldNamesAssumption == FieldNames = Range(Fields)
ASSUME VectorsAssumption == Vectors = Refs \cup FieldNames

VARIABLES phase,        \* what the worker is doing
          data,         \* the documents
          toAdd,        \* the places of the terms that have not been added yet
          inverted,     \* invertedIndex: term -> its _index and its postings
          frequencies,  \* fieldTermFrequencies: <<<<field, document>>, term>> -> count
          left,         \* the terms that are still to go into a vector
          builder,      \* lunr.TokenSet.Builder
          inserted,     \* what it has been given
          lunrQuery         \* the query under way, or the last one

indexVars == <<phase, data, toAdd, inverted, frequencies, left, builder, inserted, lunrQuery>>
searchVars == <<indexVars, vectorVars>>

NoQuery == [asked |-> <<>>, clauses |-> <<>>, pending |-> {}, matching |-> {},
            hits |-> <<>>, outcome |-> "none"]

-------------------------------------------------------------------------------
IsTextSeparator(c) == IsTermSeparator(c) \/ c \in {40, 41, 46}   \* [\s\-\.\(\)]
IsWordCharacter(c) == c \in 48..57 \cup 65..90 \cup {95} \cup 97..122

\* lunr.tokenizer, with the separator of search-worker.js:9.
Tokens(text) ==
  LET Step(s, c) == IF ~IsTextSeparator(c) THEN [s EXCEPT !.run = Append(@, c)]
                    ELSE IF s.run = <<>> THEN s
                    ELSE [run |-> <<>>, tokens |-> Append(s.tokens, s.run)]
      end == FoldLeft(Step, [run |-> <<>>, tokens |-> <<>>], LowerCase(text) \o <<32>>)
  IN  IF text = Missing THEN <<>> ELSE end.tokens

\* lunr.trimmer
Trimmed(token) ==
  LET words == {i \in DOMAIN token : IsWordCharacter(token[i])}
  IN  IF words = {} THEN <<>> ELSE SubSeq(token, Min(words), Max(words))

\* The pipeline when the documents are added: the worker has removed one stop
\* word filter and adds another after the documents (search-worker.js:51-64).
IndexTerms(text) ==
  LET tokens == Tokens(text) IN [i \in DOMAIN tokens |-> Stem(Trimmed(tokens[i]))]

\* Where the terms of documents stand: document, number of the field, place in it.
Occurrences(documents) ==
  UNION {{d} \X {n} \X DOMAIN IndexTerms(documents[d][Fields[n]]) :
           d \in DOMAIN documents, n \in DOMAIN Fields}

TermAt(documents, p) == IndexTerms(documents[p[1]][Fields[p[2]]])[p[3]]

\* The terms of a clause: the search pipeline stems, then filters stop words.
QueryTerms(clause) ==
  IF ~clause.usePipeline THEN {clause.term}
  ELSE {Stem(clause.term)} \ StopWords

\* fromClause
TermTokenSet(clause, term) ==
  IF clause.editDistance >= 0 THEN FromFuzzyString(term, clause.editDistance)
  ELSE FromString(term)

\* The terms of the index that a clause stands for.
Expanded(clause) == UNION {Intersect(builder, TermTokenSet(clause, term)) : term \in QueryTerms(clause)}

TermsOf(documents) == {TermAt(documents, p) : p \in Occurrences(documents)}

\* There is an index for every term of the documents, and a value for every
\* frequency that the terms of a field may have.
ASSUME DocumentsAssumption ==
  \A documents \in SearchData :
    /\ IsFiniteSet(TermsOf(documents))
    /\ 0..Cardinality(TermsOf(documents)) \subseteq Indexes
    /\ \A p \in Occurrences(documents) : p[3] \in Nat \ {0} /\ 1..p[3] \subseteq Values

\* The parser refuses a field that there is not; there is a value for each boost.
ASSUME QueriesAssumption ==
  \A str \in {WrittenAll(asked) : asked \in Questions} \cup Scribbles :
    \A clause \in Range(Parse(str).clauses) :
      clause.fields \subseteq FieldNames /\ clause.boost \in Values

\* What can be asked for: a term without capitals, in one field or in all, with
\* the asterisk for a wildcard alone.
ASSUME QuestionsAssumption ==
  \A asked \in Questions :
    /\ asked \in Seq(Range(asked))
    /\ \A clause \in Range(asked) :
         /\ clause \in [fields : {FieldNames} \cup {{f} : f \in FieldNames}, term : Seq(Nat),
                        usePipeline : BOOLEAN, editDistance : -1..99, boost : 1..99]
         /\ clause.term # <<>> /\ LowerCase(clause.term) = clause.term
         /\ clause.usePipeline = (Star \notin Range(clause.term))

-------------------------------------------------------------------------------
SearchInit ==
  /\ VectorInit
  /\ phase \in {"adding", "loading"}
  /\ data \in SearchData
  /\ toAdd = Occurrences(data)
  /\ inverted = <<>> /\ frequencies = <<>> /\ left = {}
  /\ builder = NewBuilder /\ inserted = {}
  /\ lunrQuery = NoQuery

\* The object f after f[k] = x.
With(f, k, x) == [j \in DOMAIN f \cup {k} |-> IF j = k THEN x ELSE f[j]]

Before(p, q) ==
  \/ p[1] < q[1]
  \/ p[1] = q[1] /\ (p[2] < q[2] \/ (p[2] = q[2] /\ p[3] < q[3]))

\* One iteration of the loop of add over the terms of a field; the documents and
\* the fields come one after the other.  A new term gets the next _index.
AddTerm ==
  /\ phase = "adding"
  /\ \E p \in toAdd :
       LET term == TermAt(data, p)
           ref == <<Fields[p[2]], p[1]>>
           count == IF <<ref, term>> \in DOMAIN frequencies THEN frequencies[<<ref, term>>] ELSE 0
           posting == IF term \in DOMAIN inverted THEN inverted[term]
                      ELSE [index |-> Cardinality(DOMAIN inverted), refs |-> {}]
       IN  /\ \A q \in toAdd : ~Before(q, p)
           /\ toAdd' = toAdd \ {p}
           /\ frequencies' = With(frequencies, <<ref, term>>, count + 1)
           /\ inverted' = With(inverted, term, [posting EXCEPT !.refs = @ \cup {ref}])
  /\ UNCHANGED <<phase, data, left, builder, inserted, lunrQuery, vectorVars>>

\* build: the vectors first, one field of one document after the other.
BeginBuild ==
  /\ phase = "adding" /\ toAdd = {}
  /\ phase' = "vectors"
  /\ left' = DOMAIN frequencies
  /\ UNCHANGED <<data, toAdd, inverted, frequencies, builder, inserted, lunrQuery, vectorVars>>

\* createFieldVectors.  What stands in for the score is the term's frequency;
\* the terms of a field come in any order.
InsertWeight ==
  /\ phase = "vectors" /\ Idle
  /\ LET r == CHOOSE r \in {p[1] : p \in left} : TRUE
     IN  \E t \in {p[2] : p \in {p \in left : p[1] = r}} :
           /\ left' = left \ {<<r, t>>}
           /\ BeginUpsert(r, inverted[t].index, frequencies[<<r, t>>], "throw")
  /\ UNCHANGED <<phase, data, toAdd, inverted, frequencies, builder, inserted, lunrQuery>>

BeginTokenSet ==
  /\ phase = "vectors" /\ Idle /\ left = {}
  /\ phase' = "tokens"
  /\ UNCHANGED <<data, toAdd, inverted, frequencies, left, builder, inserted, lunrQuery, vectorVars>>

\* createTokenSet: the terms in ascending order.
InsertTerm ==
  LET rest == (DOMAIN inverted) \ inserted
      word == CHOOSE w \in rest : \A v \in rest : ~Precedes(v, w)
  IN  /\ phase = "tokens" /\ rest # {}
      /\ builder' = InsertWord(builder, word)
      /\ inserted' = inserted \cup {word}
      /\ UNCHANGED <<phase, data, toAdd, inverted, frequencies, left, lunrQuery, vectorVars>>

FinishBuild ==
  /\ phase = "tokens" /\ inserted = DOMAIN inverted
  /\ builder' = Finish(builder)
  /\ phase' = "ready"
  /\ UNCHANGED <<data, toAdd, inverted, frequencies, left, inserted, lunrQuery, vectorVars>>

\* Index.load takes the terms of a saved index in the order they are in.  An
\* error leaves the half loaded index to no one, and the next load starts anew.
LoadTerm(word) ==
  /\ phase = "loading"
  /\ IF OutOfOrder(builder, word)
     THEN builder' = NewBuilder /\ inserted' = {}
     ELSE builder' = InsertWord(builder, word) /\ inserted' = inserted \cup {word}
  /\ UNCHANGED <<phase, data, toAdd, inverted, frequencies, left, lunrQuery, vectorVars>>

FinishLoad ==
  /\ phase = "loading"
  /\ builder' = Finish(builder)
  /\ phase' = "loaded"
  /\ UNCHANGED <<data, toAdd, inverted, frequencies, left, inserted, lunrQuery, vectorVars>>

LoadAgain ==
  /\ phase = "loaded"
  /\ phase' = "loading" /\ builder' = NewBuilder /\ inserted' = {}
  /\ UNCHANGED <<data, toAdd, inverted, frequencies, left, lunrQuery, vectorVars>>

-------------------------------------------------------------------------------
\* What query does with its clauses before it counts: a clause that stands for
\* what is no term of the inverted index ends it with a TypeError.
Begun(asked, parsed) ==
  LET wanted == UNION {{i} \X Expanded(parsed.clauses[i]) \X parsed.clauses[i].fields :
                         i \in DOMAIN parsed.clauses}
      outcome == IF parsed.error THEN "QueryParseError"
                 ELSE IF \E p \in wanted : p[2] \notin DOMAIN inverted THEN "TypeError"
                 ELSE "none"
  IN  [NoQuery EXCEPT !.asked = asked, !.clauses = parsed.clauses,
                      !.pending = IF outcome = "none" THEN wanted ELSE {},
                      !.outcome = outcome]

Search(asked, str) ==
  /\ lunrQuery' = Begun(asked, Parse(str))
  /\ phase' = IF lunrQuery'.outcome = "none" THEN "querying" ELSE "ready"
  /\ UNCHANGED <<data, toAdd, inverted, frequencies, left, builder, inserted, vectorVars>>

\* A term that a clause stands for goes into the query vector of a field, and
\* the documents that have it there match; the clauses come one after another.
UpsertQuery ==
  /\ phase = "querying" /\ Idle
  /\ \E p \in {p \in lunrQuery.pending : \A o \in lunrQuery.pending : p[1] <= o[1]} :
       LET term == p[2]
           field == p[3]
       IN  /\ BeginUpsert(field, inverted[term].index, lunrQuery.clauses[p[1]].boost, "add")
           /\ lunrQuery' = [lunrQuery EXCEPT
                !.pending = @ \ {p},
                !.matching = @ \cup {<<term, r>> : r \in {r \in inverted[term].refs : r[1] = field}}]
  /\ UNCHANGED <<phase, data, toAdd, inverted, frequencies, left, builder, inserted>>

Scored(r) == r[2] \in DOMAIN lunrQuery.hits /\ r[1] \in DOMAIN lunrQuery.hits[r[2]]

\* similarity is the dot product over both magnitudes.
Similarity(r) == [dot |-> Dot(elements[r[1]], elements[r]),
                  squares |-> <<Magnitude(r[1]), Magnitude(r)>>]

Unscored == {r \in {m[2] : m \in lunrQuery.matching} : ~Scored(r)}

ScoreField ==
  /\ phase = "querying" /\ Idle /\ lunrQuery.pending = {}
  /\ \E r \in Unscored :
       LET before == IF r[2] \in DOMAIN lunrQuery.hits THEN lunrQuery.hits[r[2]] ELSE <<>>
       IN  /\ Measure({r[1], r})
           /\ lunrQuery' = [lunrQuery EXCEPT !.hits =
                          With(@, r[2], With(before, r[1], Similarity(r)))]
  /\ UNCHANGED <<phase, data, toAdd, inverted, frequencies, left, builder, inserted>>

\* Mutant: the query vectors are kept, and only their elements are cleared.
AnswerKeepsMagnitudes ==
  /\ phase = "querying" /\ Idle /\ lunrQuery.pending = {} /\ Unscored = {}
  /\ elements' = [v \in Vectors |-> IF v \in FieldNames THEN <<>> ELSE elements[v]]
  /\ lunrQuery' = [lunrQuery EXCEPT !.outcome = "answer"]
  /\ phase' = "ready"
  /\ UNCHANGED <<data, toAdd, inverted, frequencies, left, builder, inserted, upsert, magnitude>>

\* The query vectors are gone when query returns; those of the fields stay, with
\* the magnitudes they have cached.
Answer ==
  /\ phase = "querying" /\ lunrQuery.pending = {} /\ Unscored = {}
  /\ NewVectors(FieldNames)
  /\ lunrQuery' = [lunrQuery EXCEPT !.outcome = "answer"]
  /\ phase' = "ready"
  /\ UNCHANGED <<data, toAdd, inverted, frequencies, left, builder, inserted>>

Build == AddTerm \/ BeginBuild \/ InsertWeight \/ BeginTokenSet \/ InsertTerm \/ FinishBuild

Load == FinishLoad \/ LoadAgain \/ \E word \in SavedWords : LoadTerm(word)

Ask == /\ phase = "ready"
       /\ \/ \E asked \in Questions : Search(asked, WrittenAll(asked))
          \/ \E str \in Scribbles : Search(<<>>, str)

Query == UpsertQuery \/ ScoreField \/ Answer

SearchNext == Build \/ Load \/ Ask \/ Query \/ (UpsertStep /\ UNCHANGED indexVars)

SearchSpec == SearchInit /\ [][SearchNext]_searchVars

-------------------------------------------------------------------------------

\* The token set holds the terms that have gone in, all of them and no other
\* (lunr.js:1140-1143), also while its nodes are being shared; and when it is
\* finished no two of its nodes lead to the same words, which is what makes it
\* minimal (lunr.js:1154-1156).
TokenSetHoldsTerms ==
  /\ WordsOf(builder) = inserted
  /\ phase \in {"ready", "loaded"} =>
       \A n, m \in NodesOf(builder) :
         n # m => WordsOf([builder EXCEPT !.root = n]) # WordsOf([builder EXCEPT !.root = m])

\* What a user asks for is what the parser reads, whatever characters the terms
\* have, as long as they are escaped (lunr.js:2497-2895).
QuestionsComeThrough ==
  lunrQuery.asked # <<>> => /\ lunrQuery.outcome # "QueryParseError"
                        /\ lunrQuery.clauses = lunrQuery.asked

\* The texts that match a pattern, and those that are at most one edit away.
MatchesPattern(p, w) ==
  LET from[i \in 1..Len(p) + 1, j \in 1..Len(w) + 1] ==
        IF i > Len(p) THEN j > Len(w)
        ELSE IF p[i] = Wildcard THEN from[i + 1, j] \/ (j <= Len(w) /\ from[i, j + 1])
        ELSE j <= Len(w) /\ p[i] = w[j] /\ from[i + 1, j + 1]
  IN from[1, 1]

OneEdit(v, w) ==
  \/ v = w
  \/ \E i \in DOMAIN v : RemoveAt(v, i) = w
  \/ \E i \in DOMAIN w : RemoveAt(w, i) = v
  \/ Len(v) = Len(w) /\ \E i \in DOMAIN v : \A j \in DOMAIN v : j # i => v[j] = w[j]
  \/ Len(v) = Len(w) /\ \E i \in 1..Len(v) - 1 :
                           w = [v EXCEPT ![i] = v[i + 1], ![i + 1] = v[i]]

\* A new character after the last one is the edit that fromFuzzyString leaves out.
Appended(v, w) == w # <<>> /\ Front(w) = v /\ (v # <<>> => Last(v) # Last(w))

\* The terms that a clause should stand for.
Meant(clause, w) ==
  \E term \in QueryTerms(clause) :
    CASE clause.editDistance = -1 -> w # <<>> /\ MatchesPattern(term, w)
      [] clause.editDistance = 0 -> w = term
      [] clause.editDistance = 1 -> OneEdit(term, w) /\ ~Appended(term, w) /\ w # <<>>

MeantFor(f, w) ==
  {i \in DOMAIN lunrQuery.clauses : f \in lunrQuery.clauses[i].fields /\ Meant(lunrQuery.clauses[i], w)}

\* The answer to a query has the documents that have, in a field it asks for, a
\* term it stands for, and no others; none of its look-ups ends in a TypeError
\* and no frequency is inserted twice (lunr.js:1752-1910, 2233).
HitsAreMatches ==
  /\ phase = "vectors" /\ Idle => ~upsert.thrown
  /\ lunrQuery.outcome # "TypeError"
  /\ lunrQuery.outcome = "answer" =>
       DOMAIN lunrQuery.hits =
         {d \in DOMAIN data : \E f \in FieldNames : \E w \in Range(IndexTerms(data[d][f])) :
            MeantFor(f, w) # {}}

Sum(S, Op(_)) == FoldSet(LAMBDA x, n : n + Op(x), 0, S)

\* The score of a document adds up, over the fields that match, what the terms
\* weigh there and how the query boosts them: nothing is lost on the way through
\* the vectors and their cached magnitudes (lunr.js:1800-1894).
ScoresAddUp ==
  lunrQuery.outcome = "answer" =>
    \A d \in DOMAIN lunrQuery.hits, f \in FieldNames :
      LET terms == Range(IndexTerms(data[d][f]))
          all == DOMAIN inverted
          Boost(w) == Sum(MeantFor(f, w), LAMBDA i : lunrQuery.clauses[i].boost)
          Weight(w) == Cardinality({i \in DOMAIN IndexTerms(data[d][f]) :
                                      IndexTerms(data[d][f])[i] = w})
          Met(w) == Boost(w) * Weight(w)
      IN  /\ (f \in DOMAIN lunrQuery.hits[d]) = (\E w \in terms : MeantFor(f, w) # {})
          /\ f \in DOMAIN lunrQuery.hits[d] =>
               lunrQuery.hits[d][f] = [dot |-> Sum(terms, Met),
                                   squares |-> <<Sum(all, LAMBDA w : Boost(w) * Boost(w)),
                                                 Sum(terms, LAMBDA w : Weight(w) * Weight(w))>>]
===============================================================================
