---------------------------- MODULE SearchVectors ----------------------------
(***************************************************************************)
(* lunr.Vector, the sparse vectors that the search of the documentation    *)
(* site ranks its hits with (lunr.js:530-720).  The code keeps index and   *)
(* value side by side in one flat array; here an element is the pair of    *)
(* both, and places are counted in pairs from 0, as start, end and         *)
(* pivotPoint of the code are.  One iteration of the binary search in      *)
(* positionForIndex is one step, so that its loop has an invariant.        *)
(***************************************************************************)
EXTENDS Integers, Sequences, SequencesExt

CONSTANTS Vectors,  \* the vectors there are
          Indexes,  \* the indexes of terms
          Values    \* what is put into a vector: frequencies and boosts

ASSUME IndexesAssumption == Indexes \subseteq Nat
ASSUME ValuesAssumption == Values \subseteq Nat

VARIABLES elements,   \* elements[v]: the pairs <<index, value>>
          upsert,     \* the call of insert or upsert that is under way
          magnitude   \* magnitude[v]: the cached _magnitude, squared; 0 if none

vectorVars == <<elements, upsert, magnitude>>

Done(thrown) == [busy |-> FALSE, thrown |-> thrown]

VectorInit ==
  /\ elements = [v \in Vectors |-> <<>>]
  /\ upsert = Done(FALSE)
  /\ magnitude = [v \in Vectors |-> 0]

Idle == ~upsert.busy

\* The index of the pair at place k, counted from 0.
IndexAt(e, k) == e[k + 1][1]

Pivot == upsert.start + (upsert.end - upsert.start) \div 2

\* The condition of the loop, and its break.
Searching ==
  /\ upsert.end - upsert.start > 1
  /\ IndexAt(elements[upsert.vector], Pivot) # upsert.index

\* Mutant: the last comparison is left out.
PositionAtPivot == IF elements[upsert.vector] = <<>> THEN 0 ELSE Pivot

\* What positionForIndex returns when its loop has ended.
Position ==
  IF elements[upsert.vector] = <<>> THEN 0
  ELSE IF IndexAt(elements[upsert.vector], Pivot) < upsert.index THEN Pivot + 1
  ELSE Pivot

SumOfSquares(e) == FoldLeft(LAMBDA sum, pair : sum + pair[2] * pair[2], 0, e)

\* Mutant: where the indexes differ, the loop goes on in both vectors.
DotBothForward(a, b) ==
  LET from[k \in 1..Len(a) + 1] ==
        IF k > Len(a) \/ k > Len(b) THEN 0
        ELSE (IF a[k][1] = b[k][1] THEN a[k][2] * b[k][2] ELSE 0) + from[k + 1]
  IN from[1]

\* The loop of dot, which goes through both vectors side by side.
Dot(a, b) ==
  LET from[i \in 1..Len(a) + 1, j \in 1..Len(b) + 1] ==
        CASE i > Len(a) \/ j > Len(b) -> 0
          [] OTHER -> CASE a[i][1] < b[j][1] -> from[i + 1, j]
                        [] a[i][1] > b[j][1] -> from[i, j + 1]
                        [] a[i][1] = b[j][1] -> a[i][2] * b[j][2] + from[i + 1, j + 1]
  IN from[1, 1]

\* The vector v with what magnitude() finds in its cache or puts there.
Magnitude(v) == IF magnitude[v] # 0 THEN magnitude[v] ELSE SumOfSquares(elements[v])

-------------------------------------------------------------------------------
\* The vectors vs are given up, and new ones take their place.
NewVectors(vs) ==
  /\ Idle
  /\ elements' = [v \in Vectors |-> IF v \in vs THEN <<>> ELSE elements[v]]
  /\ magnitude' = [v \in Vectors |-> IF v \in vs THEN 0 ELSE magnitude[v]]
  /\ UNCHANGED upsert

\* Mutant: the magnitude is not forgotten.
BeginUpsertMeasured(v, i, x, fn) ==
  /\ Idle
  /\ upsert' = [busy |-> TRUE, vector |-> v, index |-> i, value |-> x, fn |-> fn,
                start |-> 0, end |-> Len(elements[v])]
  /\ UNCHANGED <<elements, magnitude>>

\* upsert(i, x, fn); insert is the one whose fn throws.
BeginUpsert(v, i, x, fn) ==
  /\ Idle
  /\ upsert' = [busy |-> TRUE, vector |-> v, index |-> i, value |-> x, fn |-> fn,
                start |-> 0, end |-> Len(elements[v])]
  /\ magnitude' = [magnitude EXCEPT ![v] = 0]
  /\ UNCHANGED elements

Narrow ==
  /\ upsert.busy /\ Searching
  /\ upsert' = IF IndexAt(elements[upsert.vector], Pivot) < upsert.index
               THEN [upsert EXCEPT !.start = Pivot]
               ELSE [upsert EXCEPT !.end = Pivot]
  /\ UNCHANGED <<elements, magnitude>>

Found == /\ Position < Len(elements[upsert.vector])
         /\ IndexAt(elements[upsert.vector], Position) = upsert.index

\* What is there is added to; insert throws before it has changed anything.
Combine ==
  /\ upsert.busy /\ ~Searching /\ Found
  /\ upsert' = Done(upsert.fn = "throw")
  /\ LET e == elements[upsert.vector]
         old == e[Position + 1]
     IN  elements' = IF upsert.fn = "throw" THEN elements
                     ELSE [elements EXCEPT ![upsert.vector] =
                             [e EXCEPT ![Position + 1] = <<old[1], old[2] + upsert.value>>]]
  /\ UNCHANGED magnitude

Splice ==
  /\ upsert.busy /\ ~Searching /\ ~Found
  /\ elements' = [elements EXCEPT ![upsert.vector] =
                    InsertAt(@, Position + 1, <<upsert.index, upsert.value>>)]
  /\ upsert' = Done(FALSE)
  /\ UNCHANGED magnitude

\* similarity asks both vectors for their magnitude, which they keep.
Measure(vs) ==
  /\ Idle
  /\ magnitude' = [v \in Vectors |-> IF v \in vs THEN Magnitude(v) ELSE magnitude[v]]
  /\ UNCHANGED <<elements, upsert>>

UpsertStep == Narrow \/ Combine \/ Splice

VectorNext ==
  \/ UpsertStep
  \/ \E vs \in SUBSET Vectors : NewVectors(vs) \/ Measure(vs)
  \/ \E v \in Vectors, i \in Indexes, x \in Values, fn \in {"add", "throw"} :
       BeginUpsert(v, i, x, fn)

VectorSpec == VectorInit /\ [][VectorNext]_vectorVars

-------------------------------------------------------------------------------
VectorTypeOK ==
  /\ elements \in [Vectors -> Seq(Nat \X Nat)]
  /\ DOMAIN magnitude = Vectors
  /\ upsert \in [busy : {FALSE}, thrown : BOOLEAN] \cup
       [busy : {TRUE}, vector : Vectors, index : Nat, value : Nat,
        fn : {"add", "throw"}, start : Nat, end : Nat]

Ordered(e) == \A i, j \in DOMAIN e : i < j => e[i][1] < e[j][1]

\* Every vector has its indexes in ascending order and none twice, in whichever
\* order they have come (lunr.js:562-637): the binary search and the merging
\* loop of dot rely on it.
VectorsOrdered == \A v \in Vectors : Ordered(elements[v])

Entries(e) == {e[i] : i \in DOMAIN e}

\* What a step does to the vector v: nothing, empty it, or upsert into it.
Touches(v) ==
  \/ elements'[v] = elements[v]
  \/ elements'[v] = <<>>
  \/ /\ upsert.busy /\ upsert.vector = v
     /\ \/ /\ \A pair \in Entries(elements[v]) : pair[1] # upsert.index
           /\ Entries(elements'[v]) =
                Entries(elements[v]) \cup {<<upsert.index, upsert.value>>}
        \/ \E i \in DOMAIN elements[v] :
             /\ elements[v][i][1] = upsert.index
             /\ elements'[v] =
                  [elements[v] EXCEPT ![i] =
                     <<elements[v][i][1], elements[v][i][2] + upsert.value>>]

\* A call of upsert changes one vector, and there the value of one index: what
\* it finds is added to, and what it does not find is new (lunr.js:628-637).
\* No other value is lost or moved to another index.
UpsertTouchesOne == [][\A v \in Vectors : Touches(v)]_vectorVars

\* The map that a vector stands for, and the call without its search.
MapOf(e) ==
  [i \in {e[k][1] : k \in DOMAIN e} |-> e[CHOOSE k \in DOMAIN e : e[k][1] = i][2]]

Called ==
  IF upsert.busy
  THEN [busy |-> TRUE, vector |-> upsert.vector, index |-> upsert.index,
        value |-> upsert.value, fn |-> upsert.fn]
  ELSE upsert

Maps == INSTANCE SparseMaps WITH weights <- [v \in Vectors |-> MapOf(elements[v])],
                                 call <- Called

\* Vectors are maps from indexes to values: whatever has been upserted before, in
\* whichever order, the binary search finds the index that is there and finds
\* none that is not, so that a call ends with its value put in, added to the one
\* value of its index, or refused as a duplicate (lunr.js:562-637).
ImplementsMaps == Maps!Spec

\* A cached magnitude is the one of what the vector holds now (lunr.js:629,644).
MagnitudesFresh ==
  \A v \in Vectors : magnitude[v] \in {0, SumOfSquares(elements[v])}
===============================================================================
