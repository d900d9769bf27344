------------------------------ MODULE MCDocSite ------------------------------
(***************************************************************************)
(* A page for the model checker: five groups of tabs, of which two follow  *)
(* one choice, a third has tabs for two of the choices and a fourth a tab  *)
(* for one in the third; a table of contents three levels deep.  The index *)
(* is made of the letters a, b and s; a term has at most three of them, so *)
(* that prefixes, suffixes, a plural to stem and a word that is one edit   *)
(* away occur.  A vector of the search is also tried by itself.            *)
(***************************************************************************)
EXTENDS DocSite

Tab(ids, condition) == [ids |-> ids, condition |-> condition]
Plain(id) == Tab(<<id>>, NoCondition)

MCGroups == <<
  [independent |-> FALSE, tabs |-> <<Plain("net"), Plain("mono"), Plain("core")>>],
  [independent |-> FALSE, tabs |-> <<Plain("core"), Plain("net"), Plain("mono")>>],
  [independent |-> FALSE,
   tabs |-> <<Tab(<<"vs">>, "net"), Plain("cli"), Tab(<<"md">>, "mono")>>],
  [independent |-> FALSE, tabs |-> <<Tab(<<"win">>, "vs"), Plain("any")>>],
  [independent |-> TRUE,
   tabs |-> <<Tab(<<"a", "b">>, NoCondition), Plain("net"), Plain("c")>>]>>

ASSUME GroupsAreCoherent == Coherent

\* 1 Dogged: 2 Native: 3 libgit2, 4 without a topic; 5 Tree.  6 without a topic:
\* 7 Tree.  8 without a topic.
MCParent == <<0, 1, 2, 2, 1, 0, 6, 0>>
MCTitles == <<<<"D">>, <<"N">>, <<"L">>, NoTitle, <<"T">>, NoTitle, <<"T">>, NoTitle>>

MCFilterTexts == {<<>>, <<"D">>, <<"T">>, <<"D", ".", "T">>, <<"N", ".">>, <<"N", ".", "L">>,
                  <<"undefined">>, <<"X">>}

A == 97
B == 98
S == 115
Space == 32

\* A word loses one s at its end, as a plural does.
MCStem(w) == IF Len(w) > 1 /\ Last(w) = S THEN Front(w) ELSE w

MCFieldNames == {Title, Keywords}
MCVectors == ({Title, Keywords} \X {1, 2}) \cup {Title, Keywords}
MCIndexes == 0..5
MCValues == 1..4 \cup {12}
MCStopWords == {<<B, B>>}

\* A..Z, and the letters of Latin-1 with an accent
MCLowerCases == [c \in 65..90 \cup (192..222 \ {215}) |-> c + 32]

Document(title, keywords) == (Title :> title) @@ (Keywords :> keywords)

MCSearchData == {
  \* "Ab-as.(ba) ab" with a no-break space before the last, "b a: ab"; "bb ba", without keywords
  <<Document(<<65, B, 45, A, S, 46, 40, B, A, 41, 160, A, B>>, <<B, Space, A, 58, Space, A, B>>),
    Document(<<B, B, Space, B, A>>, Missing)>>,
  \* "abb aab", "-"; "&", "abb abbs b"
  <<Document(<<A, B, B, Space, A, A, B>>, <<45>>),
    Document(<<38>>, <<A, B, B, Space, A, B, B, S, Space, B>>)>>}

MCSavedWords == UNION {[1..k -> {A, B}] : k \in 1..3} \ {<<B>>, <<A, A>>, <<B, A, B>>}

Clause(fields, term, distance, boost) ==
  [fields |-> fields, term |-> term, usePipeline |-> Wildcard \notin Range(term),
   editDistance |-> distance, boost |-> boost]

Everywhere(term) == Clause(FieldNames, term, -1, 1)

MCQuestions ==
  {<<Everywhere(t)>> : t \in {<<A, S>>, <<B, B>>, <<A, B, B>>, <<A, 58>>, <<A, 45, B>>,
                              <<A, Wildcard>>, <<Wildcard, B>>, <<A, Wildcard, B>>}}
  \cup {<<Clause({f}, t, -1, 2)>> : f \in FieldNames, t \in {<<Wildcard>>, <<A, Wildcard>>}}
  \cup {<<Clause({Title}, t, 1, 3)>> : t \in {<<A, B>>, <<B, A>>}}
  \cup {<<Clause(FieldNames, t, 0, 3)>> : t \in {<<A, B>>, <<B, A>>}}
  \cup {<<Everywhere(<<A, B>>), Clause({Title}, <<Wildcard, B>>, -1, 2)>>,
        <<Clause({Keywords}, <<A>>, 1, 1), Clause({Keywords}, <<A, B>>, -1, 12)>>}

\* "ab" in the wrong places: "~1", "ab^", "t:", "x:ab", "t:k:ab", and "\" alone
MCScribbles == {<<126, 49>>, <<A, B, 94>>, <<116, 58>>, <<120, 58, A, B>>,
                <<116, 58, 107, 58, A, B>>, <<92>>}

-------------------------------------------------------------------------------
\* Besides the site, lunr.Vector by itself: one vector, which is upserted,
\* inserted into, measured and renewed in any order.
Alone == <<Title, 1>>

\* No call is made that would bring a value above 2.
Small(i, x) == \A pair \in Entries(elements[Alone]) : pair[1] = i => pair[2] + x <= 2

VectorWorks ==
  /\ part = "vector"
  /\ \/ UpsertStep
     \/ NewVectors({Alone}) \/ Measure({Alone})
     \/ \E i \in MCIndexes, x \in {1, 2}, fn \in {"add", "throw"} :
          Small(i, x) /\ BeginUpsert(Alone, i, x, fn)
  /\ UNCHANGED <<part, indexVars, allPageVars, tabVars, tocVars, outlineVars>>

MCInit == SiteInit \/ (part = "vector" /\ SiteStarts)
MCNext == SiteNext \/ VectorWorks
MCSpec == MCInit /\ [][MCNext]_siteVars /\ PageFairness
===============================================================================
