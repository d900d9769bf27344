------------------------------ MODULE TokenSets ------------------------------
(***************************************************************************)
(* lunr.TokenSet: the automaton that holds the terms of an index, built    *)
(* from words in ascending order and minimised on the way, and the         *)
(* automata of query terms that it is intersected with (lunr.js:1140-1628).*)
(* A word is a sequence of code units, a node of the index is its id, and  *)
(* an automaton is its root, its final nodes and the edges of each node.   *)
(***************************************************************************)
EXTENDS Integers, Sequences, SequencesExt

CONSTANT FirstId   \* _nextId when the builder makes its root

ASSUME FirstIdAssumption == FirstId \in Nat \ {0}

Wildcard == 42

\* The order of strings, by code units.
Precedes(v, w) ==
  \E k \in 0..Len(v) :
    /\ k < Len(w) /\ SubSeq(v, 1, k) = SubSeq(w, 1, k)
    /\ k = Len(v) \/ v[k + 1] < w[k + 1]

CommonPrefix(v, w) ==
  CHOOSE k \in 0..Len(v) :
    /\ k <= Len(w) /\ SubSeq(v, 1, k) = SubSeq(w, 1, k)
    /\ k = Len(v) \/ k = Len(w) \/ v[k + 1] # w[k + 1]

-------------------------------------------------------------------------------
NewBuilder == [previous |-> <<>>, next |-> FirstId + 1, root |-> FirstId,
               final |-> [n \in {FirstId} |-> FALSE],
               edges |-> [n \in {FirstId} |-> <<>>],
               unchecked |-> <<>>, minimized |-> <<>>]

Decimal(n) ==
  LET digits[k \in Nat] == IF k < 10 THEN <<48 + k>>
                           ELSE Append(digits[k \div 10], 48 + (k % 10))
  IN digits[n]

\* Mutant: nodes that differ in their final bit alone are taken for the same.
NodeKeyWithoutFinal(b, n) ==
  FoldLeft(LAMBDA str, label : str \o <<label>> \o Decimal(b.edges[n][label]),
           <<>>, SetToSortSeq(DOMAIN b.edges[n], LAMBDA x, y : x < y))

\* toString: the final bit, and label and id of each edge, all run together.
NodeKey(b, n) ==
  FoldLeft(LAMBDA str, label : str \o <<label>> \o Decimal(b.edges[n][label]),
           <<IF b.final[n] THEN 49 ELSE 48>>,
           SetToSortSeq(DOMAIN b.edges[n], LAMBDA x, y : x < y))

\* The last unchecked node becomes the known one with its key, or a known one.
CheckLast(b) ==
  LET last == Last(b.unchecked)
      key == NodeKey(b, last.child)
      rest == [b EXCEPT !.unchecked = Front(@)]
  IN  IF key \in DOMAIN b.minimized
      THEN [rest EXCEPT !.edges[last.parent][last.char] = b.minimized[key]]
      ELSE [rest EXCEPT !.minimized = (key :> last.child) @@ @]

Minimize(b, downTo) ==
  FoldLeft(LAMBDA c, u : CheckLast(c), b,
           SubSeq(b.unchecked, downTo + 1, Len(b.unchecked)))

\* The node for the character char, below the last one.
Grow(b, char) ==
  LET node == IF b.unchecked = <<>> THEN b.root
              ELSE Last(b.unchecked).child
  IN  [b EXCEPT !.next = @ + 1,
                !.final = (b.next :> FALSE) @@ @,
                !.edges = (b.next :> <<>>) @@ [@ EXCEPT ![node] = (char :> b.next) @@ @],
                !.unchecked = Append(@, [parent |-> node, char |-> char, child |-> b.next])]

OutOfOrder(b, word) == Precedes(word, b.previous)

InsertWord(b, word) ==
  LET common == CommonPrefix(word, b.previous)
      grown == FoldLeft(Grow, Minimize(b, common), SubSeq(word, common + 1, Len(word)))
      node == IF grown.unchecked = <<>> THEN grown.root
              ELSE Last(grown.unchecked).child
  IN  [grown EXCEPT !.final[node] = TRUE, !.previous = word]

Finish(b) == Minimize(b, 0)

\* toArray: the words that lead from the root to a final node.
WordsOf(a) ==
  LET words[n \in DOMAIN a.edges] ==
        (IF a.final[n] THEN {<<>>} ELSE {}) \cup
        UNION {{<<c>> \o w : w \in words[a.edges[n][c]]} : c \in DOMAIN a.edges[n]}
  IN words[a.root]

\* The nodes that can be reached from the root, by the words that reach them.
NodesOf(a) ==
  LET below[n \in DOMAIN a.edges] ==
        {n} \cup UNION {below[a.edges[n][c]] : c \in DOMAIN a.edges[n]}
  IN below[a.root]

-------------------------------------------------------------------------------
\* fromString: a wildcard is a loop, and after one every new node leads back to
\* the root by another; nodes are counted from 0.
FromString(str) ==
  LET Step(s, i) ==
        IF str[i] = Wildcard
        THEN [s EXCEPT !.wild = TRUE,
                       !.edges[s.node] = (Wildcard :> s.node) @@ @,
                       !.final[s.node] = (i = Len(str))]
        ELSE LET next == s.node + 1
                 loop == IF s.wild THEN Wildcard :> 0 ELSE <<>>
             IN  [s EXCEPT !.node = next,
                           !.final = (next :> (i = Len(str))) @@ @,
                           !.edges = (next :> loop) @@
                                     [@ EXCEPT ![s.node] = (str[i] :> next) @@ @]]
      start == [node |-> 0, wild |-> FALSE, final |-> 0 :> FALSE, edges |-> 0 :> <<>>]
      end == FoldLeft(Step, start, [i \in 1..Len(str) |-> i])
  IN  [root |-> 0, final |-> end.final, edges |-> end.edges]

\* fromFuzzyString: the paths from the root to final nodes, one branch for each
\* edit; within them a wildcard stands for one character.
FuzzyPaths(str, editDistance) ==
  LET First(c, paths) == {<<c>> \o p : p \in paths}
      from[k \in Nat, s \in Seq(Nat)] ==
        LET Rest(edits, t) == IF t = <<>> THEN {<<>>} ELSE from[edits, t]
        IN  (IF s # <<>> THEN First(s[1], Rest(k, Tail(s))) ELSE {}) \cup
            (IF k = 0 THEN {}
             ELSE (IF Len(s) > 1
                   THEN First(s[2], Rest(k - 1, SubSeq(s, 3, Len(s)))) \cup
                        First(s[2], Rest(k - 1, <<s[1]>> \o SubSeq(s, 3, Len(s))))
                   ELSE {}) \cup
                  (IF Len(s) = 1 THEN {<<>>} ELSE {}) \cup
                  (IF s # <<>> THEN First(Wildcard, Rest(k - 1, Tail(s))) ELSE {}) \cup
                  (IF s # <<>> THEN First(Wildcard, from[k - 1, s]) ELSE {<<Wildcard>>}))
  IN from[editDistance, str]

\* The tree of these paths.
FromFuzzyString(str, editDistance) ==
  LET paths == FuzzyPaths(str, editDistance)
      nodes == {<<>>} \cup UNION {{SubSeq(p, 1, k) : k \in 0..Len(p)} : p \in paths}
  IN  [root |-> <<>>, final |-> [n \in nodes |-> n \in paths],
       edges |-> [n \in nodes |->
                    [c \in {Last(m) : m \in {m \in nodes : m # <<>> /\ Front(m) = n}}
                       |-> Append(n, c)]]]

\* Mutant: the final bit of the query is not asked for.
IntersectPrefixes(a, q) ==
  LET both[n \in DOMAIN a.edges, s \in DOMAIN q.edges] ==
        UNION {LET m == a.edges[n][c[1]]
                   t == q.edges[s][c[2]]
               IN  (IF a.final[m] THEN {<<c[1]>>} ELSE {}) \cup
                   {<<c[1]>> \o w : w \in both[m, t]}
               : c \in {c \in (DOMAIN a.edges[n]) \X (DOMAIN q.edges[s]) :
                          c[2] \in {c[1], Wildcard}}}
  IN both[a.root, q.root]

\* intersect, and toArray of its result: the words of a that lead to final nodes
\* of both.  The root of the result is never final.
Intersect(a, q) ==
  LET both[n \in DOMAIN a.edges, s \in DOMAIN q.edges] ==
        UNION {LET m == a.edges[n][c[1]]
                   t == q.edges[s][c[2]]
               IN  (IF a.final[m] /\ q.final[t] THEN {<<c[1]>>} ELSE {}) \cup
                   {<<c[1]>> \o w : w \in both[m, t]}
               : c \in {c \in (DOMAIN a.edges[n]) \X (DOMAIN q.edges[s]) :
                          c[2] \in {c[1], Wildcard}}}
  IN both[a.root, q.root]

===============================================================================
