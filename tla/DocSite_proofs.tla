---------------------------- MODULE DocSite_proofs ----------------------------
(***************************************************************************)
(* Proofs about the documentation site.  The vectors of the search stay    *)
(* ordered and their caches fresh, for any number of vectors of any        *)
(* length, and are maps that a call changes at one index; the search index *)
(* keeps to that, for any documents and queries; the table of contents     *)
(* shows what its filter matches, for any tree; the outline has the        *)
(* headings of the article, for articles of any length; the search box     *)
(* shows the answer to what is in it, for any queries, keys and handlers;  *)
(* a page of tabs shows one tab of a group, for groups of any number and   *)
(* size; and a search string is read as what was asked for, whatever its   *)
(* terms.                                                                  *)
(***************************************************************************)
EXTENDS DocSite, SequenceTheorems, FiniteSetTheorems, WellFoundedInduction, TLAPS

\* The loop of positionForIndex keeps what it looks for between start and end.
LoopInv ==
  upsert.busy =>
    LET e == elements[upsert.vector] IN
    /\ magnitude[upsert.vector] = 0
    /\ upsert.end <= Len(e)
    /\ e = <<>> => upsert.start = 0 /\ upsert.end = 0
    /\ e # <<>> => upsert.start < upsert.end
    /\ upsert.start > 0 => IndexAt(e, upsert.start) < upsert.index
    /\ upsert.end < Len(e) => IndexAt(e, upsert.end) > upsert.index

VectorInv == VectorTypeOK /\ VectorsOrdered /\ LoopInv /\ MagnitudesFresh

\* InsertAt makes room for one more and moves what comes after it.
LEMMA InsertAtFacts ==
  ASSUME NEW S, NEW e \in Seq(S), NEW p \in 0..Len(e), NEW x \in S
  PROVE  LET r == InsertAt(e, p + 1, x) IN
         /\ r \in Seq(S)
         /\ Len(r) = Len(e) + 1
         /\ \A i \in 1..p : r[i] = e[i]
         /\ r[p + 1] = x
         /\ \A i \in p + 2..Len(e) + 1 : r[i] = e[i - 1]
<1> DEFINE a == SubSeq(e, 1, p)
           b == SubSeq(e, p + 1, Len(e))
           c == a \o <<x>>
<1>0. Len(e) \in Nat /\ \A i \in 1..Len(e) : e[i] \in S
  OBVIOUS
<1>1. /\ a \in Seq(S) /\ Len(a) = p
      /\ \A i \in 1..p : a[i] = e[i]
  <2>1. \A i \in 1..p : e[i] \in S
    BY <1>0
  <2> QED
    BY <2>1, <1>0, SubSeqProperties
<1>2. /\ b \in Seq(S) /\ Len(b) = Len(e) - p
      /\ \A i \in 1..Len(e) - p : b[i] = e[p + i]
  <2>1. \A i \in p + 1..Len(e) : e[i] \in S
    BY <1>0
  <2>2. /\ b \in Seq(S)
        /\ Len(b) = IF p + 1 <= Len(e) THEN Len(e) - (p + 1) + 1 ELSE 0
        /\ \A i \in 1..Len(e) - (p + 1) + 1 : b[i] = e[(p + 1) + i - 1]
    BY <2>1, <1>0, SubSeqProperties
  <2> QED
    BY <2>2, <1>0
<1>3. InsertAt(e, p + 1, x) = c \o b
  <2>1. (p + 1) - 1 = p
    OBVIOUS
  <2> QED
    BY <2>1, Zenon DEF InsertAt
<1> HIDE DEF a, b
<1>4. /\ c \in Seq(S) /\ Len(c) = p + 1
      /\ \A i \in 1..p + 1 : c[i] = IF i <= p THEN e[i] ELSE x
  <2>1. <<x>> \in Seq(S) /\ Len(<<x>>) = 1 /\ <<x>>[1] = x
    OBVIOUS
  <2> QED
    BY <2>1, <1>0, <1>1, ConcatProperties
<1> HIDE DEF c
<1>5. /\ c \o b \in Seq(S) /\ Len(c \o b) = Len(e) + 1
      /\ \A i \in 1..Len(e) + 1 :
           (c \o b)[i] = IF i <= p + 1 THEN c[i] ELSE b[i - (p + 1)]
  <2>1. /\ c \o b \in Seq(S) /\ Len(c \o b) = Len(c) + Len(b)
        /\ \A i \in 1..Len(c) + Len(b) :
             (c \o b)[i] = IF i <= Len(c) THEN c[i] ELSE b[i - Len(c)]
    BY <1>2, <1>4, ConcatProperties
  <2>2. Len(c) + Len(b) = Len(e) + 1
    BY <1>0, <1>2, <1>4
  <2> QED
    BY <2>1, <2>2, <1>4
<1>6. ASSUME NEW i \in 1..p
      PROVE  (c \o b)[i] = e[i]
  BY <1>0, <1>4, <1>5
<1>7. (c \o b)[p + 1] = x
  BY <1>0, <1>4, <1>5
<1>8. ASSUME NEW i \in p + 2..Len(e) + 1
      PROVE  (c \o b)[i] = e[i - 1]
  <2>1. i - (p + 1) \in 1..Len(e) - p /\ p + (i - (p + 1)) = i - 1
    BY <1>0
  <2>2. b[i - (p + 1)] = e[p + (i - (p + 1))]
    BY <2>1, <1>2
  <2>3. (c \o b)[i] = b[i - (p + 1)]
    BY <1>0, <1>5
  <2> QED
    BY <2>1, <2>2, <2>3
<1> DEFINE r == c \o b
<1>9. InsertAt(e, p + 1, x) = r
  BY <1>3
<1>10. /\ r \in Seq(S) /\ Len(r) = Len(e) + 1
       /\ \A i \in 1..p : r[i] = e[i]
       /\ r[p + 1] = x
       /\ \A i \in p + 2..Len(e) + 1 : r[i] = e[i - 1]
  BY <1>5, <1>6, <1>7, <1>8
<1> HIDE DEF r
<1> QED
  BY <1>9, <1>10

\* The pivot lies between the ends, and between them alone when there is room.
LEMMA Halves ==
  ASSUME NEW a \in Nat, NEW b \in Nat, a < b
  PROVE  /\ a + (b - a) \div 2 \in a..b - 1
         /\ b - a > 1 => a + (b - a) \div 2 > a
OBVIOUS

\* What positionForIndex looks for lies between the ends s and t of its loop; if
\* it goes on, one of the halves is left, and if it stops, the index is at the
\* pivot or belongs before or behind it.
LEMMA SearchBetween ==
  ASSUME NEW e \in Seq(Nat \X Nat), Ordered(e), NEW n \in Nat,
         NEW s \in Nat, NEW t \in Nat, s < t, t <= Len(e),
         s > 0 => IndexAt(e, s) < n,
         t < Len(e) => IndexAt(e, t) > n,
         NEW p \in s..t - 1
  PROVE  /\ p + 1 \in DOMAIN e /\ IndexAt(e, p) \in Nat
         /\ ~(t - s > 1 /\ IndexAt(e, p) # n) =>
              LET q == IF IndexAt(e, p) < n THEN p + 1 ELSE p IN
              /\ q \in 0..Len(e)
              /\ \A i \in DOMAIN e : i <= q => e[i][1] < n
              /\ ~(q < Len(e) /\ IndexAt(e, q) = n) =>
                   \A i \in DOMAIN e : i > q => e[i][1] > n
<1>1. p \in Nat /\ s <= p /\ p < t
  OBVIOUS
<1>2. /\ Len(e) \in Nat /\ DOMAIN e = 1..Len(e)
      /\ \A i \in 1..Len(e) : e[i][1] \in Nat
  <2>1. Len(e) \in Nat /\ DOMAIN e = 1..Len(e)
    BY LenProperties
  <2>2. ASSUME NEW i \in 1..Len(e) PROVE e[i][1] \in Nat
    <3>1. e[i] \in Nat \X Nat
      BY <2>2, ElementOfSeq
    <3> QED
      BY <3>1
  <2> QED
    BY <2>1, <2>2
<1>3. p + 1 \in 1..Len(e)
  BY <1>1, <1>2
<1>4. \A i, j \in 1..Len(e) : i < j => e[i][1] < e[j][1]
  BY <1>2 DEF Ordered
<1>5. ASSUME ~(t - s > 1 /\ IndexAt(e, p) # n), IndexAt(e, p) < n
      PROVE  /\ \A i \in 1..Len(e) : i <= p + 1 => e[i][1] < n
             /\ \A i \in 1..Len(e) : i > p + 1 => e[i][1] > n
  <2>1. t = s + 1 /\ p = s
    BY <1>1, <1>2, <1>3, <1>5 DEF IndexAt
  <2>2. ASSUME NEW i \in 1..Len(e), i <= p + 1
        PROVE  e[i][1] < n
    <3>1. e[p + 1][1] < n /\ e[p + 1][1] \in Nat /\ e[i][1] \in Nat
      BY <1>2, <1>3, <1>5 DEF IndexAt
    <3>2. CASE i = p + 1
      BY <3>1, <3>2
    <3>3. CASE i # p + 1
      <4>1. i < p + 1
        BY <2>2, <3>3, <1>1
      <4>2. e[i][1] < e[p + 1][1]
        BY <4>1, <1>3, <1>4
      <4> QED
        BY <3>1, <4>2
    <3> QED
      BY <3>2, <3>3
  <2>3. ASSUME NEW i \in 1..Len(e), i > p + 1
        PROVE  e[i][1] > n
    <3>1. t < Len(e) /\ t + 1 \in 1..Len(e) /\ t + 1 <= i
      BY <2>1, <2>3, <1>1, <1>2
    <3>2. e[t + 1][1] > n /\ e[t + 1][1] \in Nat /\ e[i][1] \in Nat
      BY <3>1, <1>2 DEF IndexAt
    <3>3. i = t + 1 \/ e[t + 1][1] < e[i][1]
      BY <3>1, <1>4
    <3> DEFINE a == e[t + 1][1]
               b == e[i][1]
    <3>4. a \in Nat /\ b \in Nat /\ a > n /\ (a = b \/ a < b)
      BY <3>2, <3>3, Zenon
    <3> HIDE DEF a, b
    <3>5. b > n
      BY <3>4
    <3> QED
      BY <3>5 DEF b
  <2> QED
    BY <2>2, <2>3
<1>6. ASSUME IndexAt(e, p) = n
      PROVE  /\ \A i \in 1..Len(e) : i <= p => e[i][1] < n
             /\ p < Len(e)
  BY <1>2, <1>3, <1>4, <1>6 DEF IndexAt
<1>7. ASSUME ~(t - s > 1 /\ IndexAt(e, p) # n), IndexAt(e, p) > n
      PROVE  /\ p = 0
             /\ \A i \in 1..Len(e) : i > p => e[i][1] > n
  <2>1. t = s + 1 /\ p = s
    BY <1>1, <1>2, <1>3, <1>7 DEF IndexAt
  <2>2. p = 0
    BY <2>1, <1>2, <1>3, <1>7 DEF IndexAt
  <2> QED
    BY <2>2, <1>2, <1>3, <1>4, <1>7 DEF IndexAt
<1>8. IndexAt(e, p) \in Nat
  BY <1>2, <1>3 DEF IndexAt
<1>9. CASE IndexAt(e, p) < n
  BY <1>1, <1>2, <1>3, <1>5, <1>8, <1>9, SMTT(30)
<1>10. CASE IndexAt(e, p) = n
  BY <1>1, <1>2, <1>3, <1>6, <1>8, <1>10, SMTT(30)
<1>11. CASE IndexAt(e, p) > n
  BY <1>1, <1>2, <1>3, <1>7, <1>8, <1>11
<1> QED
  BY <1>8, <1>9, <1>10, <1>11

\* While a call is under way its pivot lies inside the vector, and when the loop
\* is over the place it has found is where the index is or belongs.
LEMMA PositionFacts ==
  ASSUME VectorInv, upsert.busy
  PROVE  LET e == elements[upsert.vector] IN
         /\ upsert.vector \in Vectors /\ upsert.index \in Nat /\ upsert.value \in Nat
         /\ e \in Seq(Nat \X Nat)
         /\ e # <<>> => /\ Pivot \in upsert.start..upsert.end - 1
                        /\ Pivot + 1 \in DOMAIN e
         /\ Searching => e # <<>>
         /\ ~Searching => /\ Position \in 0..Len(e)
                          /\ \A i \in DOMAIN e : i <= Position => e[i][1] < upsert.index
                          /\ ~Found => \A i \in DOMAIN e : i > Position => e[i][1] > upsert.index
<1> DEFINE e == elements[upsert.vector]
<1>1. /\ upsert.vector \in Vectors /\ upsert.index \in Nat /\ upsert.value \in Nat
      /\ upsert.start \in Nat /\ upsert.end \in Nat
      /\ e \in Seq(Nat \X Nat)
  BY DEF VectorInv, VectorTypeOK
<1>2. Ordered(e)
  BY <1>1 DEF VectorInv, VectorsOrdered
<1>3. /\ upsert.end <= Len(e)
      /\ e = <<>> => upsert.start = 0 /\ upsert.end = 0
      /\ e # <<>> => upsert.start < upsert.end
      /\ upsert.start > 0 => IndexAt(e, upsert.start) < upsert.index
      /\ upsert.end < Len(e) => IndexAt(e, upsert.end) > upsert.index
  BY DEF VectorInv, LoopInv
<1>4. Searching => e # <<>>
  BY <1>1, <1>3 DEF Searching
<1>5. CASE e = <<>>
  <2>1. ~Searching /\ Position = 0 /\ Len(e) = 0 /\ DOMAIN e = {}
    BY <1>4, <1>5 DEF Position
  <2> QED
    BY <2>1, <1>1, <1>5
<1>6. CASE e # <<>>
  <2>1. Pivot \in upsert.start..upsert.end - 1
    BY <1>1, <1>3, <1>6, Halves DEF Pivot
  <2>2. /\ Position = IF IndexAt(e, Pivot) < upsert.index THEN Pivot + 1 ELSE Pivot
        /\ Searching <=> (upsert.end - upsert.start > 1 /\ IndexAt(e, Pivot) # upsert.index)
        /\ Found <=> (Position < Len(e) /\ IndexAt(e, Position) = upsert.index)
    BY <1>6, Zenon DEF Position, Searching, Found
  <2> HIDE DEF e
  <2>3. /\ Pivot + 1 \in DOMAIN e
        /\ ~(upsert.end - upsert.start > 1 /\ IndexAt(e, Pivot) # upsert.index) =>
             LET q == IF IndexAt(e, Pivot) < upsert.index THEN Pivot + 1 ELSE Pivot IN
             /\ q \in 0..Len(e)
             /\ \A i \in DOMAIN e : i <= q => e[i][1] < upsert.index
             /\ ~(q < Len(e) /\ IndexAt(e, q) = upsert.index) =>
                  \A i \in DOMAIN e : i > q => e[i][1] > upsert.index
    BY <1>1, <1>2, <1>3, <1>6, <2>1, SearchBetween
  <2>4. /\ Searching => e # <<>>
        /\ ~Searching => /\ Position \in 0..Len(e)
                         /\ \A i \in DOMAIN e : i <= Position => e[i][1] < upsert.index
                         /\ ~Found => \A i \in DOMAIN e : i > Position => e[i][1] > upsert.index
    BY <1>6, <2>2, <2>3, Zenon
  <2> QED
    BY <1>1, <2>1, <2>3, <2>4 DEF e
<1> QED
  BY <1>5, <1>6

\* Empty vectors are in order.
LEMMA StartsOrdered == ASSUME VectorInit PROVE VectorInv
BY DEF VectorInit, VectorInv, VectorTypeOK, VectorsOrdered, Ordered, LoopInv,
       MagnitudesFresh, Done

\* A new vector is empty, which is ordered.
LEMMA NewKeeps ==
  ASSUME VectorInv, NEW vs \in SUBSET Vectors, NewVectors(vs)
  PROVE  VectorInv'
<1>1. VectorTypeOK'
  <2>1. elements' \in [Vectors -> Seq(Nat \X Nat)]
    BY DEF VectorInv, VectorTypeOK, NewVectors
  <2>2. DOMAIN magnitude' = Vectors /\ upsert' = upsert
    BY DEF VectorInv, VectorTypeOK, NewVectors
  <2> QED
    BY <2>1, <2>2 DEF VectorInv, VectorTypeOK
<1>2. VectorsOrdered'
  BY DEF VectorInv, VectorTypeOK, VectorsOrdered, Ordered, NewVectors
<1>3. LoopInv'
  BY DEF LoopInv, NewVectors, Idle
<1>4. ASSUME NEW v \in Vectors
      PROVE  magnitude'[v] \in {0, SumOfSquares(elements'[v])}
  <2>1. CASE v \in vs
    BY <2>1 DEF NewVectors
  <2>2. CASE v \notin vs
    BY <2>2 DEF NewVectors, VectorInv, MagnitudesFresh
  <2> QED
    BY <2>1, <2>2
<1> QED
  BY <1>1, <1>2, <1>3, <1>4 DEF VectorInv, MagnitudesFresh

\* A magnitude that is measured is the one of the content.
LEMMA MeasureKeeps ==
  ASSUME VectorInv, NEW vs \in SUBSET Vectors, Measure(vs)
  PROVE  VectorInv'
<1>1. VectorTypeOK'
  BY DEF VectorInv, VectorTypeOK, Measure
<1>2. VectorsOrdered' /\ LoopInv'
  BY DEF VectorInv, VectorsOrdered, LoopInv, Measure, Idle
<1>3. ASSUME NEW v \in Vectors
      PROVE  magnitude'[v] \in {0, SumOfSquares(elements'[v])}
  <2>1. magnitude'[v] = IF v \in vs THEN Magnitude(v) ELSE magnitude[v]
    BY DEF Measure
  <2>2. magnitude[v] \in {0, SumOfSquares(elements[v])} /\ elements' = elements
    BY DEF VectorInv, MagnitudesFresh, Measure
  <2>3. Magnitude(v) \in {0, SumOfSquares(elements[v])}
    BY <2>2 DEF Magnitude
  <2> QED
    BY <2>1, <2>2, <2>3
<1> QED
  BY <1>1, <1>2, <1>3 DEF VectorInv, MagnitudesFresh

\* The search begins between the two ends, and the cached magnitude is dropped.
LEMMA BeginKeeps ==
  ASSUME VectorInv, NEW v \in Vectors, NEW i \in Indexes, NEW x \in Values,
         NEW fn \in {"add", "throw"}, BeginUpsert(v, i, x, fn)
  PROVE  VectorInv'
<1>1. i \in Nat /\ x \in Nat /\ Len(elements[v]) \in Nat /\ elements[v] \in Seq(Nat \X Nat)
  BY IndexesAssumption, ValuesAssumption DEF VectorInv, VectorTypeOK
<1>2. VectorTypeOK'
  BY <1>1 DEF VectorInv, VectorTypeOK, BeginUpsert
<1>3. VectorsOrdered'
  BY DEF VectorInv, VectorsOrdered, BeginUpsert
<1>4. LoopInv'
  <2>1. elements[v] # <<>> => 0 < Len(elements[v])
    BY <1>1
  <2>2. /\ elements' = elements /\ magnitude'[v] = 0
        /\ upsert'.vector = v /\ upsert'.start = 0 /\ upsert'.end = Len(elements[v])
    BY DEF VectorInv, VectorTypeOK, BeginUpsert
  <2> QED
    BY <1>1, <2>1, <2>2 DEF LoopInv
<1>5. MagnitudesFresh'
  BY DEF VectorInv, VectorTypeOK, MagnitudesFresh, BeginUpsert
<1> QED
  BY <1>2, <1>3, <1>4, <1>5 DEF VectorInv

\* The half that is left has what is looked for between its ends.
LEMMA NarrowKeeps ==
  ASSUME VectorInv, Narrow
  PROVE  VectorInv'
<1> DEFINE e == elements[upsert.vector]
<1>0. upsert.busy /\ Searching
  BY DEF Narrow
<1>1. /\ upsert \in [busy : {TRUE}, vector : Vectors, index : Nat, value : Nat,
                     fn : {"add", "throw"}, start : Nat, end : Nat]
      /\ e \in Seq(Nat \X Nat) /\ e # <<>>
      /\ Pivot \in upsert.start..upsert.end - 1 /\ Pivot + 1 \in DOMAIN e
  BY <1>0, PositionFacts DEF VectorInv, VectorTypeOK
<1>2. /\ upsert.end <= Len(e) /\ upsert.start < upsert.end
      /\ upsert.start > 0 => IndexAt(e, upsert.start) < upsert.index
      /\ upsert.end < Len(e) => IndexAt(e, upsert.end) > upsert.index
      /\ magnitude[upsert.vector] = 0
  BY <1>0, <1>1 DEF VectorInv, LoopInv
<1>3. Pivot > upsert.start
  BY <1>0, <1>1, <1>2, Halves DEF Searching, Pivot
<1>4. /\ IndexAt(e, Pivot) \in Nat /\ IndexAt(e, Pivot) # upsert.index
      /\ elements' = elements /\ magnitude' = magnitude
      /\ Pivot \in Nat
  <2>1. IndexAt(e, Pivot) # upsert.index
    BY <1>0, Zenon DEF Searching
  <2>2. elements' = elements /\ magnitude' = magnitude
    BY DEF Narrow
  <2> HIDE DEF e
  <2>3. IndexAt(e, Pivot) \in Nat
    BY <1>1 DEF IndexAt
  <2>4. Pivot \in Nat
    BY <1>1
  <2> QED
    BY <2>1, <2>2, <2>3, <2>4
<1>5. CASE IndexAt(e, Pivot) < upsert.index
  <2>1. upsert' = [upsert EXCEPT !.start = Pivot]
    BY <1>5 DEF Narrow
  <2>2. upsert' \in [busy : {TRUE}, vector : Vectors, index : Nat, value : Nat,
                     fn : {"add", "throw"}, start : Nat, end : Nat]
    BY <2>1, <1>1, <1>4
  <2>3. /\ upsert'.vector = upsert.vector /\ upsert'.index = upsert.index
        /\ upsert'.start = Pivot /\ upsert'.end = upsert.end
    BY <2>1, <1>1
  <2>4. LoopInv'
    BY <2>3, <1>1, <1>2, <1>4, <1>5 DEF LoopInv
  <2> QED
    BY <2>2, <2>4, <1>4 DEF VectorInv, VectorTypeOK, VectorsOrdered, MagnitudesFresh
<1>6. CASE IndexAt(e, Pivot) > upsert.index
  <2>1. upsert' = [upsert EXCEPT !.end = Pivot]
    BY <1>6, <1>1, <1>4 DEF Narrow
  <2>2. upsert' \in [busy : {TRUE}, vector : Vectors, index : Nat, value : Nat,
                     fn : {"add", "throw"}, start : Nat, end : Nat]
    BY <2>1, <1>1, <1>4
  <2>3. /\ upsert'.vector = upsert.vector /\ upsert'.index = upsert.index
        /\ upsert'.start = upsert.start /\ upsert'.end = Pivot
    BY <2>1, <1>1
  <2>4. LoopInv'
    BY <2>3, <1>1, <1>2, <1>3, <1>4, <1>6 DEF LoopInv
  <2> QED
    BY <2>2, <2>4, <1>4 DEF VectorInv, VectorTypeOK, VectorsOrdered, MagnitudesFresh
<1> QED
  BY <1>1, <1>4, <1>5, <1>6

\* Only the vector of the call changes, and its cached magnitude was dropped.
LEMMA OneVectorKeeps ==
  ASSUME VectorInv, upsert.busy, ~upsert'.busy,
         upsert' \in [busy : {FALSE}, thrown : BOOLEAN],
         UNCHANGED magnitude,
         NEW e \in Seq(Nat \X Nat), Ordered(e),
         elements' = [elements EXCEPT ![upsert.vector] = e]
  PROVE  VectorInv'
<1>1. upsert.vector \in Vectors /\ magnitude[upsert.vector] = 0
  BY DEF VectorInv, VectorTypeOK, LoopInv
<1>2. VectorTypeOK' /\ VectorsOrdered' /\ LoopInv'
  BY <1>1 DEF VectorInv, VectorTypeOK, VectorsOrdered, LoopInv
<1>3. ASSUME NEW v \in Vectors
      PROVE  magnitude'[v] \in {0, SumOfSquares(elements'[v])}
  <2>1. CASE v = upsert.vector
    BY <2>1, <1>1
  <2>2. CASE v # upsert.vector
    <3>1. elements'[v] = elements[v] /\ magnitude'[v] = magnitude[v]
      BY <2>2 DEF VectorInv, VectorTypeOK
    <3> QED
      BY <3>1 DEF VectorInv, MagnitudesFresh
  <2> QED
    BY <2>1, <2>2
<1> QED
  BY <1>2, <1>3 DEF VectorInv, MagnitudesFresh

\* What Combine does to the vector of the call.
LEMMA CombineFacts ==
  ASSUME VectorInv, Combine, upsert.fn # "throw"
  PROVE  LET e == elements[upsert.vector] IN
         \E i \in DOMAIN e :
           LET f == [e EXCEPT ![i] = <<e[i][1], e[i][2] + upsert.value>>] IN
           /\ e[i][1] = upsert.index
           /\ elements' = [elements EXCEPT ![upsert.vector] = f]
           /\ f \in Seq(Nat \X Nat)
           /\ Ordered(f)
<1> DEFINE e == elements[upsert.vector]
           i == Position + 1
           f == [e EXCEPT ![i] = <<e[i][1], e[i][2] + upsert.value>>]
<1>1. upsert.busy /\ ~Searching /\ Found
  BY DEF Combine
<1>2. /\ e \in Seq(Nat \X Nat) /\ Position \in 0..Len(e) /\ upsert.value \in Nat
      /\ upsert.vector \in Vectors
  BY <1>1, PositionFacts
<1>3. i \in DOMAIN e /\ e[i][1] = upsert.index
  BY <1>1, <1>2 DEF Found, IndexAt
<1>4. elements' = [elements EXCEPT ![upsert.vector] = f]
  BY DEF Combine
<1>5. Ordered(e)
  BY <1>2 DEF VectorInv, VectorsOrdered
<1> HIDE DEF e, i
<1>6. f \in Seq(Nat \X Nat)
  <2>1. e[i] \in Nat \X Nat
    BY <1>2, <1>3
  <2>2. <<e[i][1], e[i][2] + upsert.value>> \in Nat \X Nat
    BY <2>1, <1>2
  <2> QED
    BY <2>2, <1>2, <1>3, ExceptSeq
<1>7. DOMAIN f = DOMAIN e /\ \A j \in DOMAIN e : f[j][1] = e[j][1]
  BY <1>2, <1>3
<1>8. Ordered(f)
  BY <1>5, <1>7 DEF Ordered
<1> QED
  BY <1>3, <1>4, <1>6, <1>8, Zenon DEF e

\* insert throws before it has changed anything.
LEMMA CombineKeeps == ASSUME VectorInv, Combine PROVE VectorInv'
<1> DEFINE e == elements[upsert.vector]
<1>1. upsert.busy /\ upsert' = Done(upsert.fn = "throw") /\ UNCHANGED magnitude
  BY DEF Combine
<1>2. ~upsert'.busy /\ upsert' \in [busy : {FALSE}, thrown : BOOLEAN]
  BY <1>1 DEF Done
<1>3. CASE upsert.fn # "throw"
  <2>1. PICK i \in DOMAIN e :
          LET f == [e EXCEPT ![i] = <<e[i][1], e[i][2] + upsert.value>>] IN
          /\ elements' = [elements EXCEPT ![upsert.vector] = f]
          /\ f \in Seq(Nat \X Nat)
          /\ Ordered(f)
    BY <1>3, CombineFacts
  <2> DEFINE f == [e EXCEPT ![i] = <<e[i][1], e[i][2] + upsert.value>>]
  <2>2. /\ elements' = [elements EXCEPT ![upsert.vector] = f]
        /\ f \in Seq(Nat \X Nat)
        /\ Ordered(f)
    BY <2>1
  <2> HIDE DEF f
  <2> QED
    BY <1>1, <1>2, <2>2, OneVectorKeeps
<1>4. CASE upsert.fn = "throw"
  <2>1. elements' = elements /\ magnitude' = magnitude
    BY <1>1, <1>4, Zenon DEF Combine
  <2>2. VectorTypeOK' /\ LoopInv'
    BY <2>1, <1>2 DEF VectorInv, VectorTypeOK, LoopInv
  <2> QED
    BY <2>1, <2>2 DEF VectorInv, VectorsOrdered, MagnitudesFresh
<1> QED
  BY <1>3, <1>4

\* What Splice does to the vector of the call.
LEMMA SpliceFacts ==
  ASSUME VectorInv, Splice
  PROVE  LET e == elements[upsert.vector]
             f == InsertAt(e, Position + 1, <<upsert.index, upsert.value>>) IN
         /\ elements' = [elements EXCEPT ![upsert.vector] = f]
         /\ f \in Seq(Nat \X Nat)
         /\ Ordered(f)
         /\ \A pair \in Entries(e) : pair[1] # upsert.index
         /\ Entries(f) = Entries(e) \cup {<<upsert.index, upsert.value>>}
<1> DEFINE e == elements[upsert.vector]
           p == Position
           x == <<upsert.index, upsert.value>>
           f == InsertAt(e, p + 1, x)
<1>1. upsert.busy /\ ~Searching /\ ~Found
  BY DEF Splice
<1>2. /\ e \in Seq(Nat \X Nat) /\ p \in 0..Len(e)
      /\ upsert.vector \in Vectors /\ upsert.index \in Nat /\ upsert.value \in Nat
      /\ \A i \in DOMAIN e : i <= p => e[i][1] < upsert.index
      /\ \A i \in DOMAIN e : i > p => e[i][1] > upsert.index
  BY <1>1, PositionFacts
<1>3. elements' = [elements EXCEPT ![upsert.vector] = f]
  BY Zenon DEF Splice
<1>4. Ordered(e)
  BY <1>2 DEF VectorInv, VectorsOrdered
<1> HIDE DEF e, p, f
<1>5. x \in Nat \X Nat /\ x[1] = upsert.index
  BY <1>2
<1> HIDE DEF x
<1>6. /\ f \in Seq(Nat \X Nat)
      /\ Len(f) = Len(e) + 1
      /\ \A i \in 1..p : f[i] = e[i]
      /\ f[p + 1] = x
      /\ \A i \in p + 2..Len(e) + 1 : f[i] = e[i - 1]
  <2> DEFINE S == Nat \X Nat
  <2>1. e \in Seq(S) /\ p \in 0..Len(e) /\ x \in S
    BY <1>2, <1>5
  <2> HIDE DEF S
  <2> DEFINE r == InsertAt(e, p + 1, x)
  <2>2. r \in Seq(S) /\ Len(r) = Len(e) + 1 /\ r[p + 1] = x
    BY <2>1, InsertAtFacts
  <2>3. ASSUME NEW i \in 1..p PROVE r[i] = e[i]
    BY <2>1, InsertAtFacts, SMTT(20)
  <2>4. ASSUME NEW i \in p + 2..Len(e) + 1 PROVE r[i] = e[i - 1]
    BY <2>1, InsertAtFacts, SMTT(20)
  <2> QED
    BY <2>2, <2>3, <2>4, Zenon DEF f, S
<1>7. /\ Len(e) \in Nat /\ DOMAIN e = 1..Len(e) /\ DOMAIN f = 1..Len(e) + 1
      /\ p \in Nat /\ p <= Len(e)
      /\ \A i \in 1..Len(e) : e[i][1] \in Nat
  <2>1. e \in Seq(Nat \X Nat) /\ p \in 0..Len(e)
    BY <1>2
  <2>2. Len(e) \in Nat /\ DOMAIN e = 1..Len(e) /\ \A i \in 1..Len(e) : e[i] \in Nat \X Nat
    BY <2>1
  <2>3. f \in Seq(Nat \X Nat) /\ Len(f) = Len(e) + 1
    BY <1>6
  <2>4. DOMAIN f = 1..Len(e) + 1
    BY <2>3
  <2>5. p \in Nat /\ p <= Len(e)
    BY <2>1, <2>2
  <2>6. \A i \in 1..Len(e) : e[i][1] \in Nat
    BY <2>2
  <2> QED
    BY <2>2, <2>4, <2>5, <2>6
<1>8. /\ \A i \in 1..p : f[i][1] = e[i][1] /\ e[i][1] < upsert.index
      /\ f[p + 1][1] = upsert.index
      /\ \A i \in p + 2..Len(e) + 1 : f[i][1] = e[i - 1][1] /\ e[i - 1][1] > upsert.index
  <2>1. ASSUME NEW i \in 1..p
        PROVE  f[i][1] = e[i][1] /\ e[i][1] < upsert.index
    <3>1. i \in DOMAIN e /\ i <= p
      BY <1>7
    <3> QED
      BY <3>1, <1>2, <1>6
  <2>2. f[p + 1][1] = upsert.index
    BY <1>5, <1>6
  <2>3. ASSUME NEW i \in p + 2..Len(e) + 1
        PROVE  f[i][1] = e[i - 1][1] /\ e[i - 1][1] > upsert.index
    <3>1. i - 1 \in DOMAIN e /\ i - 1 > p
      BY <1>7
    <3>2. f[i] = e[i - 1]
      BY <1>6
    <3> QED
      BY <3>1, <3>2, <1>2
  <2> QED
    BY <2>1, <2>2, <2>3
<1>9. ASSUME NEW i \in DOMAIN f, NEW j \in DOMAIN f, i < j
      PROVE  f[i][1] < f[j][1]
  <2>1. \A k, l \in 1..Len(e) : k < l => e[k][1] < e[l][1]
    BY <1>4, <1>7 DEF Ordered
  <2>2. CASE j <= p
    BY <2>1, <2>2, <1>7, <1>8, <1>9
  <2>3. CASE i <= p /\ j = p + 1
    BY <2>3, <1>7, <1>8
  <2>4. CASE i <= p /\ j > p + 1
    <3>1. i \in 1..p /\ i \in 1..Len(e) /\ j \in p + 2..Len(e) + 1 /\ j - 1 \in 1..Len(e)
      BY <2>4, <1>7
    <3>2. e[i][1] < upsert.index /\ e[j - 1][1] > upsert.index
      BY <3>1, <1>8
    <3>3. e[i][1] < e[j - 1][1]
      <4>1. e[i][1] \in Nat /\ e[j - 1][1] \in Nat /\ upsert.index \in Nat
        BY <3>1, <1>2, <1>7
      <4> QED
        BY <4>1, <3>2
    <3>4. f[i][1] = e[i][1] /\ f[j][1] = e[j - 1][1]
      BY <3>1, <1>8
    <3> QED
      BY <3>3, <3>4
  <2>5. CASE i = p + 1
    BY <2>5, <1>7, <1>8, <1>9
  <2>6. CASE i > p + 1
    <3>1. /\ i \in p + 2..Len(e) + 1 /\ j \in p + 2..Len(e) + 1
          /\ i - 1 \in 1..Len(e) /\ j - 1 \in 1..Len(e) /\ i - 1 < j - 1
      BY <2>6, <1>7, <1>9
    <3> QED
      BY <3>1, <2>1, <1>8
  <2> QED
    BY <2>2, <2>3, <2>4, <2>5, <2>6, <1>7, <1>9
<1>10. Ordered(f)
  BY <1>9 DEF Ordered
<1>11. \A pair \in Entries(e) : pair[1] # upsert.index
  <2>1. ASSUME NEW i \in DOMAIN e
        PROVE  e[i][1] # upsert.index
    <3>1. i \in 1..Len(e) /\ e[i][1] \in Nat /\ (i <= p \/ i > p)
      BY <1>7
    <3>2. e[i][1] < upsert.index \/ e[i][1] > upsert.index
      BY <3>1, <1>2
    <3> QED
      BY <3>1, <3>2, <1>2
  <2> QED
    BY <2>1 DEF Entries
<1>12. Entries(f) = Entries(e) \cup {x}
  <2>1. ASSUME NEW i \in DOMAIN f
        PROVE  f[i] \in Entries(e) \cup {x}
    <3>1. CASE i <= p
      BY <3>1, <1>6, <1>7 DEF Entries
    <3>2. CASE i = p + 1
      BY <3>2, <1>6
    <3>3. CASE i > p + 1
      <4>1. i \in p + 2..Len(e) + 1 /\ i - 1 \in DOMAIN e
        BY <3>3, <1>7
      <4> QED
        BY <4>1, <1>6 DEF Entries
    <3> QED
      BY <3>1, <3>2, <3>3, <1>7
  <2>2. ASSUME NEW i \in DOMAIN e
        PROVE  e[i] \in Entries(f)
    <3>1. CASE i <= p
      BY <3>1, <1>6, <1>7 DEF Entries
    <3>2. CASE i > p
      <4>1. i + 1 \in p + 2..Len(e) + 1 /\ i + 1 \in DOMAIN f /\ (i + 1) - 1 = i
        BY <3>2, <1>7
      <4>2. f[i + 1] = e[i]
        BY <4>1, <1>6
      <4> QED
        BY <4>1, <4>2 DEF Entries
    <3> QED
      BY <3>1, <3>2, <1>7
  <2>3. x \in Entries(f)
    <3>1. p + 1 \in DOMAIN f
      BY <1>7
    <3> QED
      BY <3>1, <1>6 DEF Entries
  <2> QED
    BY <2>1, <2>2, <2>3 DEF Entries
<1> QED
  BY <1>3, <1>6, <1>10, <1>11, <1>12 DEF e, f, p, x

\* The insertion at the place that the loop has found.
LEMMA SpliceKeeps == ASSUME VectorInv, Splice PROVE VectorInv'
<1> DEFINE f == InsertAt(elements[upsert.vector], Position + 1,
                         <<upsert.index, upsert.value>>)
<1>1. /\ elements' = [elements EXCEPT ![upsert.vector] = f]
      /\ f \in Seq(Nat \X Nat)
      /\ Ordered(f)
  BY SpliceFacts
<1>2. upsert.busy /\ upsert' = Done(FALSE) /\ UNCHANGED magnitude
  BY DEF Splice
<1>3. ~upsert'.busy /\ upsert' \in [busy : {FALSE}, thrown : BOOLEAN]
  BY <1>2 DEF Done
<1> HIDE DEF f
<1> QED
  BY <1>1, <1>2, <1>3, OneVectorKeeps

\* Every operation on vectors keeps the invariant.
LEMMA VectorInvStep == ASSUME VectorInv, [VectorNext]_vectorVars PROVE VectorInv'
<1>1. CASE Narrow
  BY <1>1, NarrowKeeps
<1>2. CASE Combine
  BY <1>2, CombineKeeps
<1>4. CASE Splice
  BY <1>4, SpliceKeeps
<1>5. CASE \E vs \in SUBSET Vectors : NewVectors(vs)
  BY <1>5, NewKeeps
<1>6. CASE \E vs \in SUBSET Vectors : Measure(vs)
  BY <1>6, MeasureKeeps
<1>7. CASE \E v \in Vectors, i \in Indexes, x \in Values, fn \in {"add", "throw"} :
             BeginUpsert(v, i, x, fn)
  BY <1>7, BeginKeeps
<1>8. CASE UNCHANGED vectorVars
  BY <1>8 DEF VectorInv, VectorTypeOK, VectorsOrdered, LoopInv, MagnitudesFresh,
              Ordered, vectorVars
<1> QED
  BY <1>1, <1>2, <1>4, <1>5, <1>6, <1>7, <1>8 DEF VectorNext, UpsertStep

\* The state of the vectors has its type, the loop's bounds included.
THEOREM VectorsTypeCorrect == VectorSpec => []VectorTypeOK
<1>1. VectorInv => VectorTypeOK
  BY DEF VectorInv
<1> QED
  BY <1>1, StartsOrdered, VectorInvStep, PTL DEF VectorSpec

\* The indexes of every vector stay ascending and unique (lunr.js:562-637).
THEOREM VectorsInOrder == VectorSpec => []VectorsOrdered
<1>1. VectorInv => VectorsOrdered
  BY DEF VectorInv
<1> QED
  BY <1>1, StartsOrdered, VectorInvStep, PTL DEF VectorSpec

\* A cached magnitude is never one of an earlier content (lunr.js:629,644).
THEOREM CachesAreFresh == VectorSpec => []MagnitudesFresh
<1>1. VectorInv => MagnitudesFresh
  BY DEF VectorInv
<1> QED
  BY <1>1, StartsOrdered, VectorInvStep, PTL DEF VectorSpec

\* What a step does to the content of one vector.
LEMMA StepTouches ==
  ASSUME VectorInv, [VectorNext]_vectorVars, NEW v \in Vectors
  PROVE  Touches(v)
<1>0. DOMAIN elements = Vectors
  BY DEF VectorInv, VectorTypeOK
<1>1. CASE Narrow \/ (Combine /\ upsert.fn = "throw") \/ UNCHANGED vectorVars
  BY <1>1 DEF Narrow, Combine, vectorVars, Touches
<1>2. CASE Combine /\ upsert.fn # "throw"
  <2>1. PICK i \in DOMAIN elements[upsert.vector] :
          LET e == elements[upsert.vector]
              f == [e EXCEPT ![i] = <<e[i][1], e[i][2] + upsert.value>>] IN
          /\ e[i][1] = upsert.index
          /\ elements' = [elements EXCEPT ![upsert.vector] = f]
    BY <1>2, CombineFacts
  <2>2. upsert.busy
    BY <1>2 DEF Combine
  <2>3. CASE v = upsert.vector
    BY <2>1, <2>2, <2>3, <1>0 DEF Touches
  <2>4. CASE v # upsert.vector
    BY <2>1, <2>4, <1>0 DEF Touches
  <2> QED
    BY <2>3, <2>4
<1>3. CASE Splice
  <2> DEFINE e == elements[upsert.vector]
             f == InsertAt(e, Position + 1, <<upsert.index, upsert.value>>)
  <2>1. /\ elements' = [elements EXCEPT ![upsert.vector] = f]
        /\ \A pair \in Entries(e) : pair[1] # upsert.index
        /\ Entries(f) = Entries(e) \cup {<<upsert.index, upsert.value>>}
    BY <1>3, SpliceFacts
  <2>2. upsert.busy
    BY <1>3 DEF Splice
  <2> HIDE DEF f
  <2>3. CASE v = upsert.vector
    BY <2>1, <2>2, <2>3, <1>0 DEF Touches
  <2>4. CASE v # upsert.vector
    BY <2>1, <2>4, <1>0 DEF Touches
  <2> QED
    BY <2>3, <2>4
<1>4. CASE \E vs \in SUBSET Vectors : NewVectors(vs)
  BY <1>4, <1>0 DEF NewVectors, Touches
<1>5. CASE \E vs \in SUBSET Vectors : Measure(vs)
  BY <1>5 DEF Measure, Touches
<1>6. CASE \E w \in Vectors, i \in Indexes, x \in Values, fn \in {"add", "throw"} :
             BeginUpsert(w, i, x, fn)
  BY <1>6 DEF BeginUpsert, Touches
<1> QED
  BY <1>1, <1>2, <1>3, <1>4, <1>5, <1>6 DEF VectorNext, UpsertStep

\* An upsert adds to the value of its index or brings it in, and leaves every
\* other value of every vector alone (lunr.js:628-637).
THEOREM UpsertIsExact == VectorSpec => UpsertTouchesOne
<1>1. ASSUME VectorInv, [VectorNext]_vectorVars
      PROVE  [\A v \in Vectors : Touches(v)]_vectorVars
  BY <1>1, StepTouches
<1> QED
  BY <1>1, StartsOrdered, VectorInvStep, PTL DEF VectorSpec, UpsertTouchesOne

-------------------------------------------------------------------------------
\* The map of a vector in order has, at the index of each pair, its value.
LEMMA MapFacts ==
  ASSUME NEW e \in Seq(Nat \X Nat), Ordered(e)
  PROVE  /\ \A n : n \in DOMAIN MapOf(e) <=> \E k \in DOMAIN e : n = e[k][1]
         /\ \A k \in DOMAIN e : e[k][1] \in DOMAIN MapOf(e) /\ MapOf(e)[e[k][1]] = e[k][2]
<1>1. DOMAIN MapOf(e) = {e[k][1] : k \in DOMAIN e}
  BY DEF MapOf
<1>2. ASSUME NEW k \in DOMAIN e
      PROVE  e[k][1] \in DOMAIN MapOf(e) /\ MapOf(e)[e[k][1]] = e[k][2]
  <2> DEFINE i == e[k][1]
             c == CHOOSE j \in DOMAIN e : e[j][1] = i
  <2>1. c \in DOMAIN e /\ e[c][1] = i
    OBVIOUS
  <2>2. c = k
    <3>1. c \in Nat /\ k \in Nat /\ \A j \in DOMAIN e : e[j][1] \in Nat
      BY <2>1
    <3> QED
      BY <2>1, <3>1 DEF Ordered
  <2>3. i \in {e[j][1] : j \in DOMAIN e}
    OBVIOUS
  <2> QED
    BY <1>1, <2>2, <2>3 DEF MapOf
<1> QED
  BY <1>1, <1>2

LEMMA MapsAre == ASSUME NEW e PROVE MapOf(e) = [n \in DOMAIN MapOf(e) |-> MapOf(e)[n]]
BY DEF MapOf

\* A map that has what another has, but at i, where it has x.
LEMMA MapDiffers ==
  ASSUME NEW e, NEW f, NEW i, NEW x,
         \A n : n \in DOMAIN MapOf(f) <=> n = i \/ n \in DOMAIN MapOf(e),
         \A n \in DOMAIN MapOf(f) : MapOf(f)[n] = IF n = i THEN x ELSE MapOf(e)[n]
  PROVE  MapOf(f) = With(MapOf(e), i, x)
<1> DEFINE a == MapOf(e)
           b == MapOf(f)
<1>1. b = [n \in DOMAIN b |-> b[n]]
  BY MapsAre
<1> HIDE DEF a, b
<1>2. DOMAIN b = DOMAIN a \cup {i}
  BY DEF a, b
<1>3. \A n \in DOMAIN b : b[n] = IF n = i THEN x ELSE a[n]
  BY DEF a, b
<1>4. b = With(a, i, x)
  BY <1>1, <1>2, <1>3 DEF With
<1> QED
  BY <1>4 DEF a, b

\* The pairs of e and one more, of an index that e does not have.
Grown(e, f, i, x) ==
  (\A pair \in Entries(e) : pair[1] # i) /\ Entries(f) = Entries(e) \cup {<<i, x>>}

\* A pair that comes in is a new value of the map.
LEMMA MapGrows ==
  ASSUME NEW e \in Seq(Nat \X Nat), NEW f \in Seq(Nat \X Nat), Ordered(e), Ordered(f),
         NEW i, NEW x, Grown(e, f, i, x)
  PROVE  /\ i \notin DOMAIN MapOf(e)
         /\ \A n : n \in DOMAIN MapOf(f) <=> n = i \/ n \in DOMAIN MapOf(e)
         /\ \A n \in DOMAIN MapOf(f) : MapOf(f)[n] = IF n = i THEN x ELSE MapOf(e)[n]
<1>1. /\ \A n : n \in DOMAIN MapOf(e) <=> \E k \in DOMAIN e : n = e[k][1]
      /\ \A k \in DOMAIN e : e[k][1] \in DOMAIN MapOf(e) /\ MapOf(e)[e[k][1]] = e[k][2]
  BY MapFacts
<1>2. /\ \A n : n \in DOMAIN MapOf(f) <=> \E k \in DOMAIN f : n = f[k][1]
      /\ \A k \in DOMAIN f : f[k][1] \in DOMAIN MapOf(f) /\ MapOf(f)[f[k][1]] = f[k][2]
  BY MapFacts
<1>3. ASSUME NEW k \in DOMAIN f
      PROVE  f[k] = <<i, x>> \/ \E l \in DOMAIN e : f[k] = e[l]
  BY DEF Entries, Grown
<1>4. ASSUME NEW l \in DOMAIN e PROVE e[l][1] # i /\ \E k \in DOMAIN f : f[k] = e[l]
  BY DEF Entries, Grown
<1>5. \E k \in DOMAIN f : f[k] = <<i, x>>
  BY DEF Entries, Grown
<1>6. i \notin DOMAIN MapOf(e)
  BY <1>1, <1>4
<1>7. ASSUME NEW n PROVE n \in DOMAIN MapOf(f) <=> n = i \/ n \in DOMAIN MapOf(e)
  <2>1. CASE n \in DOMAIN MapOf(f)
    <3>1. PICK k \in DOMAIN f : n = f[k][1]
      BY <1>2, <2>1
    <3> QED
      BY <1>1, <1>3, <2>1, <3>1
  <2>2. CASE n = i
    BY <1>2, <1>5, <2>2
  <2>3. CASE n \in DOMAIN MapOf(e)
    <3>1. PICK l \in DOMAIN e : n = e[l][1]
      BY <1>1, <2>3
    <3> QED
      BY <1>2, <1>4, <2>3, <3>1
  <2> QED
    BY <2>1, <2>2, <2>3
<1>8. ASSUME NEW n \in DOMAIN MapOf(f) PROVE MapOf(f)[n] = IF n = i THEN x ELSE MapOf(e)[n]
  <2>1. PICK k \in DOMAIN f : n = f[k][1] /\ MapOf(f)[n] = f[k][2]
    BY <1>2
  <2>2. CASE f[k] = <<i, x>>
    BY <2>1, <2>2
  <2>3. CASE \E l \in DOMAIN e : f[k] = e[l]
    <3>1. PICK l \in DOMAIN e : f[k] = e[l]
      BY <2>3
    <3> QED
      BY <1>1, <1>4, <2>1, <3>1
  <2> QED
    BY <1>3, <2>2, <2>3
<1> QED
  BY <1>6, <1>7, <1>8, Zenon

\* The pairs of e, but for the value of the one at k.
Changed(e, f, k, x) ==
  /\ DOMAIN f = DOMAIN e /\ f[k] = <<e[k][1], x>>
  /\ \A j \in DOMAIN e : j # k => f[j] = e[j]

\* A value that is added to is another value of the map at the same index.
LEMMA MapChanges ==
  ASSUME NEW e \in Seq(Nat \X Nat), NEW k \in DOMAIN e, NEW x \in Nat,
         NEW f \in Seq(Nat \X Nat), Ordered(e), Ordered(f),
         Changed(e, f, k, x), NEW i, i = e[k][1]
  PROVE  /\ \A n : n \in DOMAIN MapOf(f) <=> n = i \/ n \in DOMAIN MapOf(e)
         /\ \A n \in DOMAIN MapOf(f) : MapOf(f)[n] = IF n = i THEN x ELSE MapOf(e)[n]
<1>1. /\ \A n : n \in DOMAIN MapOf(e) <=> \E j \in DOMAIN e : n = e[j][1]
      /\ \A j \in DOMAIN e : e[j][1] \in DOMAIN MapOf(e) /\ MapOf(e)[e[j][1]] = e[j][2]
  BY MapFacts
<1>2. /\ \A n : n \in DOMAIN MapOf(f) <=> \E j \in DOMAIN f : n = f[j][1]
      /\ \A j \in DOMAIN f : f[j][1] \in DOMAIN MapOf(f) /\ MapOf(f)[f[j][1]] = f[j][2]
  BY MapFacts
<1>3. ASSUME NEW j \in DOMAIN e PROVE j \in DOMAIN f /\ f[j][1] = e[j][1]
  <2>1. CASE j = k
    BY <2>1 DEF Changed
  <2>2. CASE j # k
    BY <2>2 DEF Changed
  <2> QED
    BY <2>1, <2>2
<1>4. ASSUME NEW n PROVE n \in DOMAIN MapOf(f) <=> n \in DOMAIN MapOf(e)
  <2>0. DOMAIN f = DOMAIN e
    BY DEF Changed
  <2>1. (\E j \in DOMAIN f : n = f[j][1]) <=> (\E j \in DOMAIN e : n = e[j][1])
    BY <1>3, <2>0, Zenon
  <2> QED
    BY <1>1, <1>2, <2>1, Zenon
<1>5. ASSUME NEW n \in DOMAIN MapOf(f) PROVE MapOf(f)[n] = IF n = i THEN x ELSE MapOf(e)[n]
  <2>1. PICK j \in DOMAIN e : e[j][1] = n
    BY <1>1, <1>4, Zenon
  <2>2. MapOf(f)[n] = f[j][2] /\ MapOf(e)[n] = e[j][2]
    BY <1>1, <1>2, <1>3, <2>1
  <2>3. j = k <=> n = i
    <3>1. j \in Nat /\ k \in Nat /\ e[j][1] \in Nat /\ e[k][1] \in Nat
      <4>1. e[j] \in Nat \X Nat /\ e[k] \in Nat \X Nat
        OBVIOUS
      <4> QED
        BY <4>1
    <3>2. j = k \/ j < k \/ k < j
      BY <3>1
    <3>3. (j < k => e[j][1] < e[k][1]) /\ (k < j => e[k][1] < e[j][1])
      BY DEF Ordered
    <3>4. j # k => e[j][1] # e[k][1]
      BY <3>1, <3>2, <3>3
    <3> QED
      BY <2>1, <3>4
  <2>4. CASE j = k
    <3>1. f[j] = <<n, x>>
      BY <2>1, <2>4 DEF Changed
    <3> QED
      BY <2>2, <2>3, <2>4, <3>1
  <2>5. CASE j # k
    <3>1. f[j] = e[j]
      BY <2>5 DEF Changed
    <3> QED
      BY <2>2, <2>3, <2>5, <3>1
  <2> QED
    BY <2>4, <2>5
<1>6. i \in DOMAIN MapOf(e)
  BY <1>1
<1>7. ASSUME NEW n PROVE n \in DOMAIN MapOf(f) <=> n = i \/ n \in DOMAIN MapOf(e)
  BY <1>4, <1>6, Zenon
<1> QED
  BY <1>5, <1>7, Zenon

LEMMA MapOfNone == MapOf(<<>>) = <<>>
BY DEF MapOf, Entries

\* The maps of all vectors, as the abstract specification has them.
Weights == [v \in Vectors |-> MapOf(elements[v])]

\* The end of a call: one map has one value more, or another one.
LEMMA EndsCall ==
  ASSUME VectorInv, upsert.busy, NEW f, MapOf(f) = With(MapOf(elements[upsert.vector]), upsert.index,
           IF upsert.index \in DOMAIN MapOf(elements[upsert.vector])
           THEN MapOf(elements[upsert.vector])[upsert.index] + upsert.value ELSE upsert.value),
         upsert.index \in DOMAIN MapOf(elements[upsert.vector]) => upsert.fn = "add",
         elements' = [elements EXCEPT ![upsert.vector] = f], upsert' = Done(FALSE)
  PROVE  Maps!Return
<1> DEFINE v == upsert.vector
           m == MapOf(elements[v])
           new == IF upsert.index \in DOMAIN m THEN m[upsert.index] + upsert.value ELSE upsert.value
<1>1. v \in Vectors /\ DOMAIN elements = Vectors
  BY PositionFacts DEF VectorInv, VectorTypeOK
<1>2. Weights[v] = m /\ Weights' = [Weights EXCEPT ![v] = With(m, upsert.index, new)]
  <2>1. MapOf(f) = With(m, upsert.index, new)
    OBVIOUS
  <2> DEFINE n == With(m, upsert.index, new)
  <2> HIDE DEF n
  <2>2. Weights' = [w \in Vectors |-> IF w = v THEN MapOf(f) ELSE MapOf(elements[w])]
    BY <1>1 DEF Weights
  <2> QED
    BY <1>1, <2>1, <2>2 DEF Weights, n
<1>3. /\ Called.busy /\ Called.vector = v /\ Called.index = upsert.index
      /\ Called.value = upsert.value /\ Called.fn = upsert.fn
  BY DEF Called
<1>4. Called' = Maps!Over(FALSE)
  BY DEF Called, Done, Maps!Over
<1> QED
  <2>1. ~(Called.index \in DOMAIN Weights[Called.vector]) \/ Called.fn = "add"
    BY <1>2, <1>3
  <2>2. Weights' = [Weights EXCEPT ![Called.vector] =
                      With(Weights[Called.vector], Called.index,
                        IF Called.index \in DOMAIN Weights[Called.vector]
                        THEN Weights[Called.vector][Called.index] + Called.value ELSE Called.value)]
    BY <1>2, <1>3
  <2> QED
    BY <1>3, <1>4, <2>1, <2>2 DEF Maps!Return, Maps!At, With, Weights

\* Every step of the vectors is one of the maps, or a step of the search, which
\* changes nothing of them.
LEMMA StepsOfMaps ==
  ASSUME VectorInv, [VectorNext]_vectorVars
  PROVE  [Maps!Next]_(Maps!mapVars)
<1> DEFINE Same == UNCHANGED <<Weights, Called>>
<1>s. SUFFICES Maps!Next \/ Same
  BY DEF Maps!mapVars, Weights
<1>1. CASE Narrow
  <2>1. upsert.busy /\ UNCHANGED elements
    BY <1>1 DEF Narrow
  <2>2. /\ upsert'.busy /\ upsert'.vector = upsert.vector /\ upsert'.index = upsert.index
        /\ upsert'.value = upsert.value /\ upsert'.fn = upsert.fn
    BY <1>1, <2>1 DEF Narrow, VectorInv, VectorTypeOK
  <2>3. Called' = Called
    BY <2>1, <2>2 DEF Called
  <2> QED
    BY <2>1, <2>3 DEF Weights
<1>2. CASE Combine /\ upsert.fn = "throw"
  <2> DEFINE e == elements[upsert.vector]
  <2>1. /\ upsert.busy /\ ~Searching /\ Found /\ upsert' = Done(TRUE) /\ UNCHANGED elements
    BY <1>2 DEF Combine
  <2>2. /\ e \in Seq(Nat \X Nat) /\ Position \in 0..Len(e) /\ upsert.vector \in Vectors
    BY <2>1, PositionFacts
  <2>3. Position + 1 \in DOMAIN e /\ e[Position + 1][1] = upsert.index
    BY <2>1, <2>2 DEF Found, IndexAt
  <2>4. Ordered(e)
    BY <2>2 DEF VectorInv, VectorsOrdered
  <2>5. upsert.index \in DOMAIN MapOf(e)
    <3> HIDE DEF e
    <3> QED
      BY <2>2, <2>3, <2>4, MapFacts
  <2>6. Called.busy /\ Called.fn = "throw" /\ Called.index \in DOMAIN Weights[Called.vector]
    BY <1>2, <2>1, <2>2, <2>5 DEF Called, Weights
  <2>7. Called' = Maps!Over(TRUE) /\ Weights' = Weights
    BY <2>1 DEF Called, Done, Maps!Over, Weights
  <2> QED
    BY <2>6, <2>7 DEF Maps!Next, Maps!Throw, Weights
<1>3. CASE Combine /\ upsert.fn # "throw"
  <2> DEFINE e == elements[upsert.vector]
  <2>1. upsert.busy /\ upsert' = Done(FALSE) /\ upsert.fn = "add"
    BY <1>3 DEF Combine, VectorInv, VectorTypeOK, Done
  <2>2. e \in Seq(Nat \X Nat) /\ upsert.vector \in Vectors /\ upsert.value \in Nat
    BY <2>1, PositionFacts
  <2>3. Ordered(e)
    BY <2>2 DEF VectorInv, VectorsOrdered
  <2>4. PICK k \in DOMAIN e :
          LET f == [e EXCEPT ![k] = <<e[k][1], e[k][2] + upsert.value>>] IN
          /\ e[k][1] = upsert.index
          /\ elements' = [elements EXCEPT ![upsert.vector] = f]
          /\ f \in Seq(Nat \X Nat)
          /\ Ordered(f)
    BY <1>3, CombineFacts
  <2> DEFINE x == e[k][2] + upsert.value
             f == [e EXCEPT ![k] = <<e[k][1], x>>]
  <2>5. MapOf(e)[upsert.index] = e[k][2] /\ upsert.index \in DOMAIN MapOf(e) /\ x \in Nat
    <3>1. e[k][1] = upsert.index
      BY <2>4
    <3> HIDE DEF e
    <3>2. k \in DOMAIN e /\ e \in Seq(Nat \X Nat) /\ Ordered(e)
      BY <2>2, <2>3
    <3>3. e[k] \in Nat \X Nat
      BY <3>2
    <3>4. e[k][1] \in DOMAIN MapOf(e) /\ MapOf(e)[e[k][1]] = e[k][2]
      BY <3>2, MapFacts
    <3> QED
      BY <2>2, <3>1, <3>3, <3>4
  <2>6. MapOf(f) = With(MapOf(e), upsert.index, x)
    <3>1. f \in Seq(Nat \X Nat) /\ Ordered(f) /\ e[k][1] = upsert.index
      BY <2>4
    <3>2. Changed(e, f, k, x)
      BY <2>2 DEF Changed
    <3>3. k \in DOMAIN e /\ e \in Seq(Nat \X Nat) /\ Ordered(e) /\ x \in Nat
      BY <2>2, <2>3, <2>5
    <3> HIDE DEF e, f, x
    <3>4. PICK i : i = upsert.index
      OBVIOUS
    <3>5. /\ \A n : n \in DOMAIN MapOf(f) <=> n = i \/ n \in DOMAIN MapOf(e)
          /\ \A n \in DOMAIN MapOf(f) : MapOf(f)[n] = IF n = i THEN x ELSE MapOf(e)[n]
      BY <3>1, <3>2, <3>3, <3>4, MapChanges
    <3>6. MapOf(f) = With(MapOf(e), i, x)
      BY <3>5, MapDiffers
    <3> QED
      BY <3>4, <3>6
  <2>7. elements' = [elements EXCEPT ![upsert.vector] = f]
    BY <2>4
  <2> HIDE DEF f
  <2>8. Maps!Return
    BY <2>1, <2>5, <2>6, <2>7, EndsCall
  <2> QED
    BY <2>8 DEF Maps!Next
<1>4. CASE Splice
  <2> DEFINE e == elements[upsert.vector]
             f == InsertAt(e, Position + 1, <<upsert.index, upsert.value>>)
  <2>1. upsert.busy /\ upsert' = Done(FALSE)
    BY <1>4 DEF Splice
  <2>2. e \in Seq(Nat \X Nat) /\ upsert.index \in Nat /\ upsert.value \in Nat /\ upsert.vector \in Vectors
    BY <2>1, PositionFacts
  <2>3. Ordered(e)
    BY <2>2 DEF VectorInv, VectorsOrdered
  <2>4. /\ elements' = [elements EXCEPT ![upsert.vector] = f]
        /\ f \in Seq(Nat \X Nat) /\ Ordered(f)
        /\ \A pair \in Entries(e) : pair[1] # upsert.index
        /\ Entries(f) = Entries(e) \cup {<<upsert.index, upsert.value>>}
    BY <1>4, SpliceFacts
  <2> HIDE DEF f
  <2>5. /\ upsert.index \notin DOMAIN MapOf(e)
        /\ MapOf(f) = With(MapOf(e), upsert.index, upsert.value)
    <3>1. Grown(e, f, upsert.index, upsert.value)
      BY <2>4 DEF Grown
    <3>2. e \in Seq(Nat \X Nat) /\ f \in Seq(Nat \X Nat) /\ Ordered(e) /\ Ordered(f)
      BY <2>2, <2>3, <2>4
    <3> HIDE DEF e
    <3>3. PICK i : i = upsert.index
      OBVIOUS
    <3>4. /\ i \notin DOMAIN MapOf(e)
          /\ \A n : n \in DOMAIN MapOf(f) <=> n = i \/ n \in DOMAIN MapOf(e)
          /\ \A n \in DOMAIN MapOf(f) : MapOf(f)[n] = IF n = i THEN upsert.value ELSE MapOf(e)[n]
      BY <3>1, <3>2, <3>3, MapGrows
    <3>5. MapOf(f) = With(MapOf(e), i, upsert.value)
      BY <3>4, MapDiffers
    <3> QED
      BY <3>3, <3>4, <3>5
  <2>6. Maps!Return
    BY <2>1, <2>4, <2>5, EndsCall
  <2> QED
    BY <2>6 DEF Maps!Next
<1>5. CASE \E vs \in SUBSET Vectors : NewVectors(vs)
  <2>1. PICK vs \in SUBSET Vectors : NewVectors(vs)
    BY <1>5
  <2>2. Weights' = [v \in Vectors |-> IF v \in vs THEN <<>> ELSE Weights[v]]
    BY <2>1, MapOfNone DEF NewVectors, Weights
  <2>3. ~Called.busy /\ Called' = Called
    BY <2>1 DEF NewVectors, Idle, Called
  <2>4. Maps!Renew(vs)
    BY <2>2, <2>3 DEF Maps!Renew, Weights
  <2> QED
    BY <2>4 DEF Maps!Next
<1>6. CASE \E vs \in SUBSET Vectors : Measure(vs)
  BY <1>6 DEF Measure, Weights, Called
<1>7. CASE \E v \in Vectors, i \in Indexes, x \in Values, fn \in {"add", "throw"} :
             BeginUpsert(v, i, x, fn)
  <2>1. PICK v \in Vectors, i \in Indexes, x \in Values, fn \in {"add", "throw"} :
          BeginUpsert(v, i, x, fn)
    BY <1>7
  <2>2. ~Called.busy /\ Weights' = Weights
    BY <2>1 DEF BeginUpsert, Idle, Called, Weights
  <2>3. Called' = [busy |-> TRUE, vector |-> v, index |-> i, value |-> x, fn |-> fn]
    BY <2>1 DEF BeginUpsert, Called
  <2>4. Maps!Call(v, i, x, fn)
    BY <2>2, <2>3 DEF Maps!Call, Weights
  <2> QED
    BY <2>4 DEF Maps!Next
<1>8. CASE UNCHANGED vectorVars
  BY <1>8 DEF vectorVars, Weights, Called
<1> QED
  BY <1>1, <1>2, <1>3, <1>4, <1>5, <1>6, <1>7, <1>8 DEF VectorNext, UpsertStep

\* However often and in whichever order it is called, a vector of any length is a
\* map that each call changes at its index alone: the binary search never
\* misses an index that is there, nor takes one for another (lunr.js:562-637).
THEOREM VectorsAreMaps == VectorSpec => ImplementsMaps
<1>1. VectorInit => Maps!Init
  BY MapOfNone DEF VectorInit, Done, Called, Maps!Init, Maps!Over
<1>2. VectorInv /\ [VectorNext]_vectorVars => VectorInv' /\ [Maps!Next]_(Maps!mapVars)
  BY VectorInvStep, StepsOfMaps
<1> QED
  BY <1>1, <1>2, StartsOrdered, PTL DEF VectorSpec, ImplementsMaps, Maps!Spec

-------------------------------------------------------------------------------
\* The terms that have been added have an index each, below their number, and
\* no two of them the same.
TermsInv ==
  /\ data \in SearchData
  /\ toAdd \subseteq Occurrences(data)
  /\ DOMAIN inverted \subseteq TermsOf(data)
  /\ \A t \in DOMAIN inverted :
       inverted[t] \in [index : 0..Cardinality(DOMAIN inverted) - 1, refs : SUBSET Refs]
  /\ \A t, u \in DOMAIN inverted : inverted[t].index = inverted[u].index => t = u

\* The field and the document of a place.
RefOf(p) == <<Fields[p[2]], p[1]>>

\* A frequency counts places that have been added, so that it stays below those
\* of the same field that have not.
FrequenciesInv ==
  /\ DOMAIN frequencies \subseteq Refs \X DOMAIN inverted
  /\ \A k \in DOMAIN frequencies :
       /\ frequencies[k] \in Values
       /\ \A q \in toAdd : RefOf(q) = k[1] => frequencies[k] < q[3]
  /\ left \subseteq DOMAIN frequencies

\* A query knows the terms that it asks for, and the fields of what matches.
QueryInv ==
  /\ {"asked", "clauses", "pending", "matching", "hits", "outcome"} \subseteq DOMAIN lunrQuery
  /\ \A p \in lunrQuery.pending :
       /\ p[2] \in DOMAIN inverted /\ p[3] \in FieldNames
       /\ lunrQuery.clauses[p[1]].boost \in Values
  /\ \A m \in lunrQuery.matching : m[2] \in Refs

IndexInv == TermsInv /\ FrequenciesInv /\ QueryInv

LEMMA FieldsApart ==
  /\ DOMAIN Fields = {1, 2}
  /\ \A m, n \in DOMAIN Fields : Fields[m] = Fields[n] => m = n
<1>1. Title # Keywords
  BY DEF Title, Keywords
<1>2. DOMAIN Fields = {1, 2} /\ Fields[1] = Title /\ Fields[2] = Keywords
  BY DEF Fields
<1> QED
  BY <1>1, <1>2

LEMMA Places ==
  ASSUME NEW documents \in SearchData, NEW p \in Occurrences(documents)
  PROVE  /\ p = <<p[1], p[2], p[3]>>
         /\ p[1] \in DOMAIN documents /\ p[2] \in DOMAIN Fields
         /\ p[3] \in Nat \ {0} /\ 1..p[3] \subseteq Values
         /\ RefOf(p) \in Refs
         /\ TermAt(documents, p) \in TermsOf(documents)
<1>1. PICK d \in DOMAIN documents, n \in DOMAIN Fields :
        p \in {d} \X {n} \X DOMAIN IndexTerms(documents[d][Fields[n]])
  BY DEF Occurrences
<1>2. p = <<p[1], p[2], p[3]>> /\ p[1] = d /\ p[2] = n
  BY <1>1
<1>3. Fields[n] \in Range(Fields)
  BY DEF Range
<1>4. RefOf(p) \in Refs
  BY <1>2, <1>3 DEF RefOf, Refs
<1>5. p[3] \in Nat \ {0} /\ 1..p[3] \subseteq Values
  BY DocumentsAssumption
<1> QED
  BY <1>2, <1>4, <1>5 DEF TermsOf

\* The terms of any part of the documents are finitely many, with an index each.
LEMMA Countable ==
  ASSUME TermsInv
  PROVE  /\ IsFiniteSet(DOMAIN inverted)
         /\ Cardinality(DOMAIN inverted) \in Nat
         /\ \A t \in DOMAIN inverted : inverted[t].index \in Indexes /\ inverted[t].refs \subseteq Refs
<1> DEFINE n == Cardinality(DOMAIN inverted)
           all == Cardinality(TermsOf(data))
<1>1. IsFiniteSet(TermsOf(data)) /\ 0..all \subseteq Indexes
  BY DocumentsAssumption DEF TermsInv
<1>2. IsFiniteSet(DOMAIN inverted) /\ n <= all
  BY <1>1, FS_Subset DEF TermsInv
<1>3. n \in Nat /\ all \in Nat
  BY <1>1, <1>2, FS_CardinalityType
<1>4. \A t \in DOMAIN inverted : inverted[t].index \in 0..n - 1 /\ inverted[t].refs \subseteq Refs
  BY DEF TermsInv
<1> HIDE DEF n, all
<1>5. 0..n - 1 \subseteq 0..all
  BY <1>2, <1>3
<1> QED
  BY <1>1, <1>2, <1>3, <1>4, <1>5 DEF n

LEMMA IndexStarts == SearchInit => IndexInv
<1> SUFFICES ASSUME SearchInit PROVE IndexInv
  OBVIOUS
<1>1. data \in SearchData /\ toAdd = Occurrences(data) /\ inverted = <<>> /\ frequencies = <<>>
      /\ left = {} /\ lunrQuery = NoQuery
  BY DEF SearchInit
<1>2. DOMAIN inverted = {} /\ DOMAIN frequencies = {}
  BY <1>1
<1>3. QueryInv
  BY <1>1 DEF QueryInv, NoQuery
<1> QED
  BY <1>1, <1>2, <1>3 DEF IndexInv, TermsInv, FrequenciesInv

\* One more term, new or not.
LEMMA AddTermKeeps == ASSUME IndexInv, AddTerm PROVE IndexInv'
<1>1. PICK p \in toAdd :
        LET term == TermAt(data, p)
            ref == <<Fields[p[2]], p[1]>>
            count == IF <<ref, term>> \in DOMAIN frequencies THEN frequencies[<<ref, term>>] ELSE 0
            posting == IF term \in DOMAIN inverted THEN inverted[term]
                       ELSE [index |-> Cardinality(DOMAIN inverted), refs |-> {}]
        IN  /\ \A q \in toAdd : ~Before(q, p)
            /\ toAdd' = toAdd \ {p}
            /\ frequencies' = With(frequencies, <<ref, term>>, count + 1)
            /\ inverted' = With(inverted, term, [posting EXCEPT !.refs = @ \cup {ref}])
  BY DEF AddTerm
<1> DEFINE term == TermAt(data, p)
           ref == RefOf(p)
           key == <<ref, term>>
           count == IF key \in DOMAIN frequencies THEN frequencies[key] ELSE 0
           n == Cardinality(DOMAIN inverted)
           posting == IF term \in DOMAIN inverted THEN inverted[term]
                      ELSE [index |-> n, refs |-> {}]
<1>2. /\ \A q \in toAdd : ~Before(q, p)
      /\ toAdd' = toAdd \ {p}
      /\ frequencies' = With(frequencies, key, count + 1)
      /\ inverted' = With(inverted, term, [posting EXCEPT !.refs = @ \cup {ref}])
  BY <1>1 DEF RefOf
<1>3. UNCHANGED <<data, left, lunrQuery>>
  BY DEF AddTerm
<1>4. p \in Occurrences(data) /\ data \in SearchData
  BY DEF IndexInv, TermsInv
<1>5. /\ p[2] \in DOMAIN Fields /\ p[3] \in Nat /\ 1..p[3] \subseteq Values
      /\ ref \in Refs /\ term \in TermsOf(data)
  BY <1>4, Places
<1>6. IsFiniteSet(DOMAIN inverted) /\ n \in Nat
  BY Countable DEF IndexInv
<1>7. DOMAIN inverted' = DOMAIN inverted \cup {term} /\ DOMAIN frequencies' = DOMAIN frequencies \cup {key}
  BY <1>2 DEF With
<1>8. Cardinality(DOMAIN inverted') = IF term \in DOMAIN inverted THEN n ELSE n + 1
  BY <1>6, <1>7, FS_AddElement
<1>9. posting \in [index : 0..n, refs : SUBSET Refs]
      /\ (term \in DOMAIN inverted => posting.index \in 0..n - 1)
      /\ (term \notin DOMAIN inverted => posting.index = n)
  <2>1. CASE term \in DOMAIN inverted
    <3>1. inverted[term] \in [index : 0..n - 1, refs : SUBSET Refs]
      BY <2>1 DEF IndexInv, TermsInv
    <3> HIDE DEF n
    <3> QED
      BY <1>6, <2>1, <3>1
  <2>2. CASE term \notin DOMAIN inverted
    BY <1>6, <2>2
  <2> QED
    BY <2>1, <2>2
<1>10. /\ inverted'[term] = [posting EXCEPT !.refs = @ \cup {ref}]
       /\ \A t \in DOMAIN inverted : t # term => inverted'[t] = inverted[t]
       /\ frequencies'[key] = count + 1
       /\ \A k \in DOMAIN frequencies : k # key => frequencies'[k] = frequencies[k]
  BY <1>2 DEF With
<1>11. \A t \in DOMAIN inverted :
         inverted'[t].index = inverted[t].index /\ inverted'[t].index \in 0..n - 1
  <2> SUFFICES ASSUME NEW t \in DOMAIN inverted
               PROVE  inverted'[t].index = inverted[t].index /\ inverted'[t].index \in 0..n - 1
    OBVIOUS
  <2>1. inverted[t] \in [index : 0..n - 1, refs : SUBSET Refs]
    BY DEF IndexInv, TermsInv
  <2>2. CASE t = term
    BY <1>10, <2>1, <2>2
  <2>3. CASE t # term
    BY <1>10, <2>1, <2>3
  <2> QED
    BY <2>2, <2>3
<1>12. inverted'[term] \in [index : 0..n, refs : SUBSET Refs] /\ inverted'[term].index = posting.index
  BY <1>5, <1>9, <1>10
<1>13. \A t \in DOMAIN inverted' :
         inverted'[t] \in [index : 0..Cardinality(DOMAIN inverted') - 1, refs : SUBSET Refs]
  <2> SUFFICES ASSUME NEW t \in DOMAIN inverted'
               PROVE  inverted'[t] \in [index : 0..Cardinality(DOMAIN inverted') - 1,
                                        refs : SUBSET Refs]
    OBVIOUS
  <2> HIDE DEF n, posting, term, ref
  <2>1. CASE t = term
    <3>1. inverted'[t].index \in 0..Cardinality(DOMAIN inverted') - 1
      BY <1>6, <1>8, <1>9, <1>12, <2>1
    <3> QED
      BY <1>12, <2>1, <3>1
  <2>2. CASE t # term
    <3>1. t \in DOMAIN inverted /\ inverted'[t] = inverted[t]
      BY <1>7, <1>10, <2>2
    <3>2. inverted[t] \in [index : 0..n - 1, refs : SUBSET Refs]
      BY <3>1 DEF IndexInv, TermsInv, n
    <3>3. 0..n - 1 \subseteq 0..Cardinality(DOMAIN inverted') - 1
      BY <1>6, <1>8
    <3> QED
      BY <3>1, <3>2, <3>3
  <2> QED
    BY <2>1, <2>2
<1>14. \A t, u \in DOMAIN inverted' : inverted'[t].index = inverted'[u].index => t = u
  <2>1. \A t, u \in DOMAIN inverted : inverted'[t].index = inverted'[u].index => t = u
    BY <1>11 DEF IndexInv, TermsInv
  <2>2. CASE term \in DOMAIN inverted
    BY <1>7, <2>1, <2>2
  <2>3. CASE term \notin DOMAIN inverted
    <3>1. inverted'[term].index = n
      BY <1>9, <1>12, <2>3
    <3> HIDE DEF n, posting, term
    <3>2. \A t \in DOMAIN inverted : inverted'[t].index # inverted'[term].index
      BY <1>6, <1>11, <3>1
    <3> QED
      BY <1>7, <2>1, <3>2
  <2> QED
    BY <2>2, <2>3
<1>15. TermsInv'
  <2>1. toAdd' \subseteq Occurrences(data') /\ DOMAIN inverted' \subseteq TermsOf(data') /\ data' \in SearchData
    BY <1>2, <1>3, <1>5, <1>7 DEF IndexInv, TermsInv
  <2> QED
    BY <1>13, <1>14, <2>1 DEF TermsInv
\* The place is the first of those in its field.
<1>16. ASSUME NEW q \in toAdd', RefOf(q) = ref
       PROVE  q \in toAdd /\ q[3] \in Nat /\ p[3] < q[3]
  <2>1. q \in toAdd /\ q # p /\ ~Before(q, p)
    BY <1>2
  <2>2. q \in Occurrences(data)
    BY <2>1 DEF IndexInv, TermsInv
  <2>3. q = <<q[1], q[2], q[3]>> /\ q[2] \in DOMAIN Fields /\ q[3] \in Nat
    BY <1>4, <2>2, Places
  <2>4. p = <<p[1], p[2], p[3]>>
    BY <1>4, Places
  <2>5. q[1] = p[1] /\ Fields[q[2]] = Fields[p[2]]
    BY <1>16 DEF RefOf
  <2>6. q[2] = p[2]
    BY <1>5, <2>3, <2>5, FieldsApart
  <2>7. q[3] # p[3] /\ ~(q[3] < p[3])
    BY <2>1, <2>3, <2>4, <2>5, <2>6 DEF Before
  <2> QED
    BY <1>5, <2>1, <2>3, <2>7
<1>17. count \in Nat /\ count + 1 <= p[3]
  <2>1. CASE key \in DOMAIN frequencies
    <3>1. frequencies[key] \in Nat /\ frequencies[key] < p[3]
      BY <2>1, ValuesAssumption DEF IndexInv, FrequenciesInv
    <3> QED
      BY <1>5, <2>1, <3>1
  <2>2. CASE key \notin DOMAIN frequencies
    <3>1. p[3] > 0
      BY <1>4, Places
    <3> QED
      BY <1>5, <2>2, <3>1
  <2> QED
    BY <2>1, <2>2
<1>18. \A k \in DOMAIN frequencies' :
         /\ frequencies'[k] \in Values
         /\ \A q \in toAdd' : RefOf(q) = k[1] => frequencies'[k] < q[3]
  <2> SUFFICES ASSUME NEW k \in DOMAIN frequencies'
               PROVE  /\ frequencies'[k] \in Values
                      /\ \A q \in toAdd' : RefOf(q) = k[1] => frequencies'[k] < q[3]
    OBVIOUS
  <2>1. CASE k = key
    <3> HIDE DEF count
    <3>1. frequencies'[k] = count + 1 /\ count + 1 \in 1..p[3]
      BY <1>5, <1>10, <1>17, <2>1
    <3>2. k[1] = ref
      BY <2>1
    <3> QED
      BY <1>5, <1>16, <1>17, <3>1, <3>2
  <2>2. CASE k # key
    <3>1. k \in DOMAIN frequencies /\ frequencies'[k] = frequencies[k]
      BY <1>7, <1>10, <2>2
    <3> QED
      BY <1>2, <3>1 DEF IndexInv, FrequenciesInv
  <2> QED
    BY <2>1, <2>2
<1>19. FrequenciesInv'
  <2>1. DOMAIN frequencies' \subseteq Refs \X DOMAIN inverted'
    BY <1>5, <1>7 DEF IndexInv, FrequenciesInv
  <2>2. left' \subseteq DOMAIN frequencies'
    BY <1>3, <1>7 DEF IndexInv, FrequenciesInv
  <2> QED
    BY <1>18, <2>1, <2>2 DEF FrequenciesInv
<1>20. QueryInv'
  BY <1>3, <1>7 DEF IndexInv, QueryInv
<1> QED
  BY <1>15, <1>19, <1>20 DEF IndexInv

\* A new query asks for terms that there are, in fields that there are.
LEMMA BegunFacts ==
  ASSUME NEW asked, NEW str \in {WrittenAll(q) : q \in Questions} \cup Scribbles,
         NEW q, q = Begun(asked, Parse(str))
  PROVE  /\ {"asked", "clauses", "pending", "matching", "hits", "outcome"} \subseteq DOMAIN q
         /\ q.matching = {}
         /\ \A p \in q.pending : /\ p[2] \in DOMAIN inverted /\ p[3] \in FieldNames
                                 /\ q.clauses[p[1]].boost \in Values
<1> DEFINE parsed == Parse(str)
           wanted == UNION {{i} \X Expanded(parsed.clauses[i]) \X parsed.clauses[i].fields :
                              i \in DOMAIN parsed.clauses}
           outcome == IF parsed.error THEN "QueryParseError"
                      ELSE IF \E p \in wanted : p[2] \notin DOMAIN inverted THEN "TypeError"
                      ELSE "none"
<1>1. q = [NoQuery EXCEPT !.asked = asked, !.clauses = parsed.clauses,
                          !.pending = IF outcome = "none" THEN wanted ELSE {},
                          !.outcome = outcome]
  BY Zenon DEF Begun
<1>2. \A i \in DOMAIN parsed.clauses :
        parsed.clauses[i].fields \subseteq FieldNames /\ parsed.clauses[i].boost \in Values
  BY QueriesAssumption DEF Range
<1>3. \A p \in wanted : p[3] \in FieldNames /\ parsed.clauses[p[1]].boost \in Values
  BY <1>2
<1>4. outcome = "none" => \A p \in wanted : p[2] \in DOMAIN inverted
  OBVIOUS
<1> HIDE DEF outcome, wanted, parsed
<1>5. /\ {"asked", "clauses", "pending", "matching", "hits", "outcome"} \subseteq DOMAIN q
      /\ q.matching = {} /\ q.clauses = parsed.clauses
      /\ q.pending = IF outcome = "none" THEN wanted ELSE {}
  BY <1>1 DEF NoQuery
<1> QED
  BY <1>3, <1>4, <1>5

LEMMA AskKeeps == ASSUME IndexInv, Ask PROVE IndexInv'
<1>0. PICK str \in {WrittenAll(q) : q \in Questions} \cup Scribbles : \E asked : Search(asked, str)
  <2>1. CASE \E asked \in Questions : Search(asked, WrittenAll(asked))
    <3>1. PICK asked \in Questions : Search(asked, WrittenAll(asked))
      BY <2>1
    <3> QED
      BY <3>1
  <2>2. CASE \E str \in Scribbles : Search(<<>>, str)
    <3>1. PICK str \in Scribbles : Search(<<>>, str)
      BY <2>2
    <3> QED
      BY <3>1
  <2> QED
    BY <2>1, <2>2 DEF Ask
<1>1. PICK asked : Search(asked, str)
  BY <1>0
<1>2. lunrQuery' = Begun(asked, Parse(str))
  BY <1>1 DEF Search
<1>3. UNCHANGED <<data, toAdd, inverted, frequencies, left>>
  BY <1>1 DEF Search
<1>4. QueryInv'
  BY <1>2, <1>3, BegunFacts DEF QueryInv
<1> QED
  BY <1>3, <1>4 DEF IndexInv, TermsInv, FrequenciesInv

LEMMA UpsertQueryKeeps == ASSUME IndexInv, UpsertQuery PROVE IndexInv'
<1>1. PICK p \in lunrQuery.pending :
        lunrQuery' = [lunrQuery EXCEPT
          !.pending = @ \ {p},
          !.matching = @ \cup {<<p[2], r>> : r \in {r \in inverted[p[2]].refs : r[1] = p[3]}}]
  BY DEF UpsertQuery
<1>2. UNCHANGED <<data, toAdd, inverted, frequencies, left>>
  BY DEF UpsertQuery
<1>3. inverted[p[2]].refs \subseteq Refs
  BY Countable DEF IndexInv, QueryInv
<1>4. QueryInv'
  BY <1>1, <1>2, <1>3 DEF IndexInv, QueryInv
<1> QED
  BY <1>2, <1>4 DEF IndexInv, TermsInv, FrequenciesInv

LEMMA IndexInvStep == ASSUME IndexInv, [SearchNext]_searchVars PROVE IndexInv'
<1>1. CASE AddTerm
  BY <1>1, AddTermKeeps
<1>2. CASE BeginBuild
  BY <1>2 DEF BeginBuild, IndexInv, TermsInv, FrequenciesInv, QueryInv
<1>3. CASE InsertWeight
  <2>1. left' \subseteq left
    BY <1>3 DEF InsertWeight
  <2>2. UNCHANGED <<data, toAdd, inverted, frequencies, lunrQuery>>
    BY <1>3 DEF InsertWeight
  <2> QED
    BY <2>1, <2>2 DEF IndexInv, TermsInv, FrequenciesInv, QueryInv
<1>4. CASE BeginTokenSet \/ InsertTerm \/ FinishBuild \/ Load \/ UNCHANGED indexVars
  <2>1. UNCHANGED <<data, toAdd, inverted, frequencies, left, lunrQuery>>
    BY <1>4 DEF BeginTokenSet, InsertTerm, FinishBuild, Load, LoadTerm, FinishLoad, LoadAgain,
                indexVars
  <2> QED
    BY <2>1 DEF IndexInv, TermsInv, FrequenciesInv, QueryInv
<1>5. CASE Ask
  BY <1>5, AskKeeps
<1>6. CASE UpsertQuery
  BY <1>6, UpsertQueryKeeps
<1>7. CASE ScoreField \/ Answer
  <2>1. UNCHANGED <<data, toAdd, inverted, frequencies, left>>
    BY <1>7 DEF ScoreField, Answer
  <2>2. /\ DOMAIN lunrQuery' = DOMAIN lunrQuery /\ lunrQuery'.clauses = lunrQuery.clauses
        /\ lunrQuery'.pending = lunrQuery.pending /\ lunrQuery'.matching = lunrQuery.matching
    BY <1>7 DEF ScoreField, Answer, IndexInv, QueryInv
  <2> QED
    BY <2>1, <2>2 DEF IndexInv, TermsInv, FrequenciesInv, QueryInv
<1> QED
  BY <1>1, <1>2, <1>3, <1>4, <1>5, <1>6, <1>7
     DEF SearchNext, Build, Query, searchVars

LEMMA WorkingVectors ==
  /\ Refs \subseteq Vectors /\ FieldNames \subseteq Vectors
  /\ \A r \in Refs : r[1] \in FieldNames
<1>1. \A r \in Refs : r[1] \in Range(Fields)
  BY DEF Refs
<1> QED
  BY <1>1, VectorsAssumption, FieldNamesAssumption

\* What a step of the search index does to the vectors is a step of SearchVectors.
LEMMA StepsOfVectors == ASSUME IndexInv, [SearchNext]_searchVars PROVE [VectorNext]_vectorVars
<1>1. CASE UNCHANGED vectorVars
  BY <1>1
<1>2. CASE InsertWeight
  <2>1. PICK r, t : <<r, t>> \in left /\ BeginUpsert(r, inverted[t].index, frequencies[<<r, t>>], "throw")
    <3> DEFINE r == CHOOSE r \in {p[1] : p \in left} : TRUE
    <3>1. PICK t \in {p[2] : p \in {p \in left : p[1] = r}} :
            BeginUpsert(r, inverted[t].index, frequencies[<<r, t>>], "throw")
      BY <1>2, Zenon DEF InsertWeight
    <3> HIDE DEF r
    <3>2. PICK p \in left : p[1] = r /\ p[2] = t
      BY <3>1
    <3>3. p = <<r, t>>
      BY <3>2 DEF IndexInv, FrequenciesInv
    <3> QED
      BY <3>1, <3>2, <3>3
  <2>2. <<r, t>> \in DOMAIN frequencies /\ r \in Refs /\ t \in DOMAIN inverted
    BY <2>1 DEF IndexInv, FrequenciesInv
  <2>3. r \in Vectors /\ inverted[t].index \in Indexes /\ frequencies[<<r, t>>] \in Values
    BY <2>2, WorkingVectors, Countable DEF IndexInv, FrequenciesInv
  <2> QED
    BY <2>1, <2>3 DEF VectorNext
<1>3. CASE UpsertQuery
  <2>1. PICK p \in lunrQuery.pending :
          BeginUpsert(p[3], inverted[p[2]].index, lunrQuery.clauses[p[1]].boost, "add")
    BY <1>3 DEF UpsertQuery
  <2>2. p[3] \in Vectors /\ inverted[p[2]].index \in Indexes /\ lunrQuery.clauses[p[1]].boost \in Values
    BY WorkingVectors, Countable DEF IndexInv, QueryInv
  <2> QED
    BY <2>1, <2>2 DEF VectorNext
<1>4. CASE ScoreField
  <2>1. PICK r \in Unscored : Measure({r[1], r})
    BY <1>4 DEF ScoreField
  <2>2. r \in Refs
    BY DEF Unscored, IndexInv, QueryInv
  <2>3. {r[1], r} \in SUBSET Vectors
    BY <2>2, WorkingVectors
  <2> QED
    BY <2>1, <2>3 DEF VectorNext
<1>5. CASE Answer
  <2>1. NewVectors(FieldNames) /\ FieldNames \in SUBSET Vectors
    BY <1>5, WorkingVectors DEF Answer
  <2> QED
    BY <2>1 DEF VectorNext
<1>6. CASE UpsertStep
  BY <1>6 DEF VectorNext
<1>7. CASE \/ AddTerm \/ BeginBuild \/ BeginTokenSet \/ InsertTerm \/ FinishBuild \/ Load \/ Ask
           \/ UNCHANGED searchVars
  <2>1. UNCHANGED vectorVars
    BY <1>7 DEF AddTerm, BeginBuild, BeginTokenSet, InsertTerm, FinishBuild, Load, LoadTerm,
                FinishLoad, LoadAgain, Ask, Search, searchVars
  <2> QED
    BY <2>1
<1> QED
  BY <1>2, <1>3, <1>4, <1>5, <1>6, <1>7 DEF SearchNext, Build, Query

\* A step of the site is one of the index, or leaves the index alone.
LEMMA StepsOfIndex == ASSUME [SiteNext]_siteVars PROVE [SearchNext]_searchVars
BY DEF SiteNext, IndexWorks, BoxWorks, TabsWork, ContentsWork, OutlineWorks, siteVars

LEMMA SiteStartsIndex == ASSUME SiteInit PROVE VectorInit /\ IndexInv
BY IndexStarts DEF SiteInit, SiteStarts, SearchInit

\* Whatever the documents and the queries, building and asking the index do to its
\* vectors what SearchVectors allows, and nothing else: an upsert is begun only
\* when the one before is over, with an index and a value there are.
THEOREM IndexImplementsVectors == SiteSpec => VectorSpec
<1>1. ASSUME IndexInv, [SiteNext]_siteVars
      PROVE  IndexInv' /\ [VectorNext]_vectorVars
  BY <1>1, StepsOfIndex, IndexInvStep, StepsOfVectors
<1> QED
  BY <1>1, SiteStartsIndex, PTL DEF SiteSpec, VectorSpec

\* No two terms share a place in the vectors.
TermsNumberedApart ==
  \A t, u \in DOMAIN inverted : inverted[t].index = inverted[u].index => t = u

THEOREM TermsHaveIndexes == SiteSpec => []TermsNumberedApart
<1>1. ASSUME IndexInv, [SiteNext]_siteVars PROVE IndexInv'
  BY <1>1, StepsOfIndex, IndexInvStep
<1>2. IndexInv => TermsNumberedApart
  BY DEF IndexInv, TermsInv, TermsNumberedApart
<1> QED
  BY <1>1, <1>2, SiteStartsIndex, PTL DEF SiteSpec

\* Of the magnitudes that similarity divides by, none is stale.
THEOREM SiteMagnitudesFresh == SiteSpec => [](VectorsOrdered /\ MagnitudesFresh)
BY IndexImplementsVectors, VectorsInOrder, CachesAreFresh, PTL

\* The vectors of the site's search are maps: building the index and measuring
\* queries change them by such calls alone (lunr.js:564-637, 2100-2228, 2435-2486).
THEOREM SiteVectorsAreMaps == SiteSpec => ImplementsMaps
BY IndexImplementsVectors, VectorsAreMaps, PTL

-------------------------------------------------------------------------------
\* Induction along the numbers up to N, for a set of numbers that is closed.
LEMMA UpTo ==
  ASSUME NEW N \in Nat, NEW T,
         \A m \in 0..N : (\A j \in 0..N : j < m => j \in T) => m \in T
  PROVE  \A m \in 0..N : m \in T
<1> DEFINE R == {p \in Nat \X Nat : p[1] < p[2]}
           rest == {m \in 0..N : m \notin T}
<1>1. IsWellFoundedOn(R, Nat)
  BY NatLessThanWellFounded DEF OpToRel
<1>2. SUFFICES ASSUME rest # {} PROVE FALSE
  OBVIOUS
<1>3. PICK x \in rest : \A y \in rest : ~(<<y, x>> \in R)
  <2>1. rest \in SUBSET Nat
    OBVIOUS
  <2> QED
    BY <1>1, <1>2, <2>1, WFMin
<1>4. ASSUME NEW j \in 0..N, j < x PROVE j \in T
  <2>1. j \in Nat /\ x \in Nat /\ <<j, x>> \in R
    BY <1>4
  <2>2. j \notin rest
    BY <1>3, <2>1
  <2> QED
    BY <2>2
<1> QED
  BY <1>3, <1>4

LEMMA TreeShape ==
  /\ Len(Parent) \in Nat /\ Nodes = 1..Len(Parent)
  /\ Nodes \cup {0} = 0..Len(Parent)
  /\ \A n \in Nodes : Parent[n] \in 0..Len(Parent) /\ Parent[n] < n
<1>1. Len(Parent) \in Nat /\ Nodes = 1..Len(Parent)
  BY ParentAssumption, LenProperties DEF Nodes
<1>2. \A n \in Nodes : Parent[n] \in Nat
  BY <1>1, ParentAssumption, ElementOfSeq
<1>3. \A n \in Nodes : Parent[n] < n
  BY ParentAssumption DEF Nodes
<1> QED
  BY <1>1, <1>2, <1>3

\* The recursion that defines Lineage has a solution.
LEMMA LineageSolves ==
  /\ DOMAIN Lineage = 0..Len(Parent)
  /\ Lineage[0] = <<>>
  /\ \A n \in Nodes : Lineage[n] = <<n>> \o Lineage[Parent[n]]
<1> DEFINE N == Len(Parent)
           Solves(f, k) == \A m \in 0..k : f[m] = IF m = 0 THEN <<>> ELSE <<m>> \o f[Parent[m]]
           T == {k \in 0..N : \E f : f = [m \in 0..k |-> f[m]] /\ Solves(f, k)}
<1>1. ASSUME NEW k \in 0..N, \A j \in 0..N : j < k => j \in T
      PROVE  k \in T
  <2>1. CASE k = 0
    <3> DEFINE f == [m \in 0..0 |-> <<>>]
    <3>1. f = [m \in 0..0 |-> f[m]] /\ Solves(f, 0)
      OBVIOUS
    <3> HIDE DEF f
    <3> QED
      BY <2>1, <3>1
  <2>2. CASE k # 0
    <3>1. k - 1 \in T /\ k \in Nodes
      BY <1>1, <2>2, TreeShape
    <3>2. PICK g : g = [m \in 0..k - 1 |-> g[m]] /\ Solves(g, k - 1)
      BY <3>1
    <3> DEFINE f == [m \in 0..k |-> IF m = k THEN <<k>> \o g[Parent[k]] ELSE g[m]]
    <3>3. \A m \in 0..k - 1 : f[m] = g[m]
      OBVIOUS
    <3>4. \A m \in 1..k : Parent[m] \in 0..k - 1
      BY TreeShape
    <3>5. ASSUME NEW m \in 0..k PROVE f[m] = IF m = 0 THEN <<>> ELSE <<m>> \o f[Parent[m]]
      <4>1. CASE m = k
        <5>1. f[k] = <<k>> \o g[Parent[k]] /\ Parent[k] \in 0..k - 1
          BY <3>4, <2>2
        <5>2. f[Parent[k]] = g[Parent[k]]
          BY <5>1, <3>3
        <5> QED
          BY <2>2, <4>1, <5>1, <5>2
      <4>2. CASE m # k
        <5>1. m \in 0..k - 1 /\ f[m] = g[m]
          BY <4>2
        <5>2. g[m] = IF m = 0 THEN <<>> ELSE <<m>> \o g[Parent[m]]
          BY <3>2, <5>1
        <5>3. m # 0 => f[Parent[m]] = g[Parent[m]]
          BY <3>3, <3>4, <5>1
        <5> QED
          BY <5>1, <5>2, <5>3
      <4> QED
        BY <4>1, <4>2
    <3>6. f = [m \in 0..k |-> f[m]]
      OBVIOUS
    <3> HIDE DEF f
    <3> QED
      BY <3>5, <3>6
  <2> QED
    BY <2>1, <2>2
<1>2. N \in T
  <2> HIDE DEF T
  <2>1. \A m \in 0..N : m \in T
    BY <1>1, TreeShape, UpTo
  <2> QED
    BY <2>1, TreeShape
<1>3. \E f : f = [n \in Nodes \cup {0} |-> IF n = 0 THEN <<>> ELSE <<n>> \o f[Parent[n]]]
  BY <1>2, TreeShape
<1>4. Lineage = [n \in Nodes \cup {0} |-> IF n = 0 THEN <<>> ELSE <<n>> \o Lineage[Parent[n]]]
  BY <1>3 DEF Lineage
<1>5. DOMAIN Lineage = 0..N
  BY <1>4, TreeShape
<1>6. \A n \in 0..N : Lineage[n] = IF n = 0 THEN <<>> ELSE <<n>> \o Lineage[Parent[n]]
  BY <1>4, TreeShape
<1>7. Lineage[0] = <<>>
  BY <1>6, TreeShape
<1> QED
  BY <1>5, <1>6, <1>7, TreeShape

LEMMA RangeOfPrefixed ==
  ASSUME NEW S, NEW s \in Seq(S), NEW x \in S
  PROVE  <<x>> \o s \in Seq(S) /\ Range(<<x>> \o s) = {x} \cup Range(s)
<1> DEFINE t == <<x>> \o s
<1>1. <<x>> \in Seq(S) /\ Len(<<x>>) = 1 /\ <<x>>[1] = x /\ Len(s) \in Nat
  OBVIOUS
<1>2. /\ t \in Seq(S) /\ Len(t) = 1 + Len(s)
      /\ \A i \in 1..1 + Len(s) : t[i] = IF i <= 1 THEN <<x>>[i] ELSE s[i - 1]
  BY <1>1, ConcatProperties
<1>3. DOMAIN t = 1..1 + Len(s) /\ DOMAIN s = 1..Len(s)
  BY <1>2, LenProperties
<1> HIDE DEF t
<1>4. t[1] = x
  BY <1>1, <1>2
<1>5. \A i \in 1..Len(s) : i + 1 \in DOMAIN t /\ t[i + 1] = s[i]
  <2> SUFFICES ASSUME NEW i \in 1..Len(s) PROVE i + 1 \in DOMAIN t /\ t[i + 1] = s[i]
    OBVIOUS
  <2>1. i + 1 \in 1..1 + Len(s) /\ ~(i + 1 <= 1) /\ i + 1 - 1 = i
    BY <1>1
  <2> QED
    BY <1>2, <1>3, <2>1
<1>6. ASSUME NEW i \in DOMAIN t PROVE t[i] \in {x} \cup Range(s)
  <2>1. CASE i = 1
    BY <1>4, <2>1
  <2>2. CASE i # 1
    <3>1. i - 1 \in 1..Len(s) /\ t[i] = s[i - 1]
      BY <1>1, <1>2, <1>3, <2>2
    <3> QED
      BY <1>3, <3>1 DEF Range
  <2> QED
    BY <2>1, <2>2
<1>7. 1 \in DOMAIN t
  BY <1>1, <1>3
<1>8. Range(t) = {x} \cup Range(s)
  <2>1. Range(t) \subseteq {x} \cup Range(s)
    BY <1>6 DEF Range
  <2>2. x \in Range(t)
    BY <1>4, <1>7 DEF Range
  <2>3. Range(s) \subseteq Range(t)
    BY <1>3, <1>5 DEF Range
  <2> QED
    BY <2>1, <2>2, <2>3
<1> QED
  BY <1>2, <1>8 DEF t

\* A node and the nodes above it.
UpFrom(n) == Range(Lineage[n])

LEMMA UpFromNode ==
  /\ UpFrom(0) = {}
  /\ \A n \in Nodes : UpFrom(n) = {n} \cup UpFrom(Parent[n])
<1> DEFINE T == {n \in 0..Len(Parent) : Lineage[n] \in Seq(Nodes)}
<1>1. ASSUME NEW n \in 0..Len(Parent), \A j \in 0..Len(Parent) : j < n => j \in T
      PROVE  n \in T
  <2>1. CASE n = 0
    <3>1. Lineage[0] = <<>> /\ <<>> \in Seq(Nodes)
      BY LineageSolves
    <3> QED
      BY <2>1, <3>1
  <2>2. CASE n # 0
    <3>1. n \in Nodes /\ Lineage[Parent[n]] \in Seq(Nodes)
      BY <1>1, <2>2, TreeShape
    <3> QED
      BY <3>1, LineageSolves, RangeOfPrefixed
  <2> QED
    BY <2>1, <2>2
<1> HIDE DEF T
<1>2. \A n \in 0..Len(Parent) : n \in T
  BY <1>1, TreeShape, UpTo
<1>3. \A n \in 0..Len(Parent) : Lineage[n] \in Seq(Nodes)
  BY <1>2 DEF T
<1>4. UpFrom(0) = {}
  <2>1. DOMAIN Lineage[0] = {}
    BY LineageSolves
  <2> QED
    BY <2>1 DEF UpFrom, Range
<1>5. ASSUME NEW n \in Nodes PROVE UpFrom(n) = {n} \cup UpFrom(Parent[n])
  <2>1. Lineage[Parent[n]] \in Seq(Nodes)
    BY <1>3, TreeShape
  <2>2. Range(<<n>> \o Lineage[Parent[n]]) = {n} \cup Range(Lineage[Parent[n]])
    BY <2>1, RangeOfPrefixed
  <2>3. Lineage[n] = <<n>> \o Lineage[Parent[n]]
    BY LineageSolves
  <2> QED
    BY <2>2, <2>3 DEF UpFrom
<1> QED
  BY <1>4, <1>5

\* What is above a node comes before it and is no leaf, and what is above that is
\* above the node.
LEMMA UpFromFacts ==
  \A n \in 0..Len(Parent) :
    /\ UpFrom(n) \subseteq 1..n
    /\ \A m \in UpFrom(n) : UpFrom(m) \subseteq UpFrom(n)
    /\ \A m \in UpFrom(n) : m # n => m \notin Leaves
<1> DEFINE Good(n) == /\ UpFrom(n) \subseteq 1..n
                      /\ \A m \in UpFrom(n) : UpFrom(m) \subseteq UpFrom(n)
                      /\ \A m \in UpFrom(n) : m # n => m \notin Leaves
           T == {n \in 0..Len(Parent) : Good(n)}
<1>1. ASSUME NEW n \in 0..Len(Parent), \A j \in 0..Len(Parent) : j < n => j \in T
      PROVE  n \in T
  <2>1. CASE n = 0
    BY <2>1, UpFromNode
  <2>2. CASE n # 0
    <3>1. n \in Nodes /\ Parent[n] \in 0..Len(Parent) /\ Parent[n] < n /\ n \in Nat
      BY <2>2, TreeShape
    <3>2. Good(Parent[n])
      BY <1>1, <3>1
    <3>3. UpFrom(n) = {n} \cup UpFrom(Parent[n])
      BY <3>1, UpFromNode
    <3>4. UpFrom(n) \subseteq 1..n
      BY <2>2, <3>1, <3>2, <3>3
    <3>5. \A m \in UpFrom(n) : UpFrom(m) \subseteq UpFrom(n)
      BY <3>2, <3>3
    <3>6. ASSUME NEW m \in UpFrom(n), m # n PROVE m \notin Leaves
      <4>1. m \in UpFrom(Parent[n])
        BY <3>3, <3>6
      <4>2. CASE m = Parent[n]
        BY <3>1, <4>2 DEF Leaves, Children
      <4>3. CASE m # Parent[n]
        BY <3>2, <4>1, <4>3
      <4> QED
        BY <4>2, <4>3
    <3> QED
      BY <3>4, <3>5, <3>6
  <2> QED
    BY <2>1, <2>2
<1> HIDE DEF T
<1>2. \A n \in 0..Len(Parent) : n \in T
  BY <1>1, TreeShape, UpTo
<1> QED
  BY <1>2 DEF T

LEMMA AboveFacts ==
  /\ \A n \in Nodes : Range(Above[n]) = UpFrom(Parent[n])
  /\ \A n \in Nodes, m \in Nodes : m \in Range(Above[n]) <=> n \in Below[m]
  /\ \A n \in Nodes : \A m \in Range(Above[n]) : m \in Nodes /\ m < n /\ m \notin Leaves
  /\ \A l \in Nodes : \A n \in Range(Above[l]) : Range(Above[n]) \subseteq Range(Above[l])
  /\ \A n \in Leaves : Below[n] = {}
<1>1. \A n \in Nodes : Range(Above[n]) = UpFrom(Parent[n])
  BY DEF Above, UpFrom
<1>2. \A n \in Nodes, m \in Nodes : m \in Range(Above[n]) <=> n \in Below[m]
  BY DEF Below
<1>3. ASSUME NEW n \in Nodes, NEW m \in Range(Above[n])
      PROVE  m \in Nodes /\ m < n /\ m \notin Leaves
  <2>1. Parent[n] \in 0..Len(Parent) /\ Parent[n] < n /\ n \in 0..Len(Parent) /\ n \in Nat
    BY TreeShape
  <2>2. m \in UpFrom(Parent[n]) /\ m \in UpFrom(n)
    BY <1>1, <1>3, UpFromNode
  <2>3. m \in 1..Parent[n]
    BY <2>1, <2>2, UpFromFacts
  <2>4. m \in Nodes /\ m < n
    BY <2>1, <2>3, TreeShape
  <2>5. m \notin Leaves
    BY <2>1, <2>2, <2>4, UpFromFacts
  <2> QED
    BY <2>4, <2>5
<1>4. ASSUME NEW l \in Nodes, NEW n \in Range(Above[l])
      PROVE  Range(Above[n]) \subseteq Range(Above[l])
  <2>1. n \in Nodes /\ Parent[l] \in 0..Len(Parent)
    BY <1>3, TreeShape
  <2>2. UpFrom(n) \subseteq UpFrom(Parent[l])
    BY <1>1, <1>4, <2>1, UpFromFacts
  <2>3. UpFrom(Parent[n]) \subseteq UpFrom(n)
    BY <2>1, UpFromNode
  <2> QED
    BY <1>1, <2>1, <2>2, <2>3
<1>5. \A n \in Leaves : Below[n] = {}
  <2>1. Leaves \subseteq Nodes
    BY DEF Leaves
  <2>2. \A n \in Nodes : Below[n] \subseteq Nodes
    BY DEF Below
  <2> QED
    BY <1>2, <1>3, <2>1, <2>2
<1> QED
  BY <1>1, <1>2, <1>3, <1>4, <1>5

\* The classes when the parents up to k have been gone through: what is below a
\* parent comes after it, so that its leaves alone decide.
ShownUpTo(cs, k) ==
  [n \in Nodes |->
     IF n \in Leaves \/ n > k THEN cs[n]
     ELSE IF \E m \in Below[n] : "show" \in cs[m]
          THEN (cs[n] \ {"hide"}) \cup {"show", "filtered"}
          ELSE (cs[n] \ {"show", "filtered"}) \cup {"hide"}]

LEMMA ShowOneMore ==
  ASSUME NEW cs, NEW k \in Nodes
  PROVE  ShowParent(ShownUpTo(cs, k - 1), k) = ShownUpTo(cs, k)
<1> DEFINE before == ShownUpTo(cs, k - 1)
           some == \E m \in Below[k] : "show" \in cs[m]
<1>0. k \in Nat /\ \A n \in Nodes : n \in Nat
  BY TreeShape
<1>1. ASSUME NEW m \in Below[k] PROVE before[m] = cs[m]
  <2>1. m \in Nodes /\ k \in Range(Above[m])
    BY <1>1, AboveFacts DEF Below
  <2>2. m > k - 1
    BY <1>0, <2>1, AboveFacts
  <2> QED
    BY <2>1, <2>2 DEF ShownUpTo
<1>2. (\E m \in Below[k] : "show" \in before[m]) <=> some
  BY <1>1
<1>3. before = [n \in Nodes |-> before[n]] /\ DOMAIN ShownUpTo(cs, k) = Nodes
  BY DEF ShownUpTo
<1>4. \A n \in Nodes : n # k => ShownUpTo(cs, k)[n] = before[n]
  <2> SUFFICES ASSUME NEW n \in Nodes, n # k PROVE ShownUpTo(cs, k)[n] = before[n]
    OBVIOUS
  <2>1. n > k <=> n > k - 1
    BY <1>0
  <2> QED
    BY <2>1 DEF ShownUpTo
<1>5. CASE k \in Leaves
  <2>1. ShownUpTo(cs, k)[k] = before[k]
    BY <1>5 DEF ShownUpTo
  <2>2. ShownUpTo(cs, k) = before
    <3>1. \A n \in Nodes : ShownUpTo(cs, k)[n] = before[n]
      BY <1>4, <2>1
    <3>2. ShownUpTo(cs, k) = [n \in Nodes |-> ShownUpTo(cs, k)[n]]
      BY DEF ShownUpTo
    <3> HIDE DEF before
    <3> QED
      BY <1>3, <3>1, <3>2
  <2> QED
    BY <1>5, <2>2 DEF ShowParent
<1>6. CASE k \notin Leaves
  <2> DEFINE added == IF some THEN {"show", "filtered"} ELSE {"hide"}
             gone == IF some THEN {"hide"} ELSE {"show", "filtered"}
  <2>1. ShowParent(before, k) = AddTo(before, {k}, added, gone)
    BY <1>2, <1>6 DEF ShowParent
  <2>3. before[k] = cs[k]
    BY <1>0 DEF ShownUpTo
  <2>4. ShownUpTo(cs, k)[k] = (cs[k] \ gone) \cup added
    BY <1>0, <1>6 DEF ShownUpTo
  <2> HIDE DEF before, added, gone
  <2>5. \A n \in Nodes : AddTo(before, {k}, added, gone)[n] = ShownUpTo(cs, k)[n]
    BY <1>4, <2>3, <2>4 DEF AddTo
  <2>6. /\ AddTo(before, {k}, added, gone) = [n \in Nodes |-> AddTo(before, {k}, added, gone)[n]]
        /\ ShownUpTo(cs, k) = [n \in Nodes |-> ShownUpTo(cs, k)[n]]
    BY DEF AddTo, ShownUpTo
  <2>7. AddTo(before, {k}, added, gone) = ShownUpTo(cs, k)
    BY <2>5, <2>6
  <2> QED
    BY <2>1, <2>7 DEF before
<1> QED
  BY <1>5, <1>6

\* What the loop over the parents computes.
LEMMA ShowParentsIs ==
  ASSUME NEW cs, cs = [n \in Nodes |-> cs[n]]
  PROVE  ShowParents(cs) = ShownUpTo(cs, Len(Parent))
<1> DEFINE N == Len(Parent)
           Loop(f) == f = [n \in Nodes \cup {0} |-> IF n = 0 THEN cs ELSE ShowParent(f[n - 1], n)]
           g == [n \in 0..N |-> ShownUpTo(cs, n)]
           upTo == CHOOSE f : Loop(f)
<1>1. ShownUpTo(cs, 0) = cs
  <2>1. \A n \in Nodes : n > 0
    BY TreeShape
  <2> QED
    BY <2>1 DEF ShownUpTo
<1>2. \A n \in Nodes : n \in 0..N /\ n - 1 \in 0..N /\ n # 0
  BY TreeShape
<1>3. Loop(g)
  <2>1. \A n \in 0..N : g[n] = IF n = 0 THEN cs ELSE ShowParent(g[n - 1], n)
    BY <1>1, <1>2, ShowOneMore, TreeShape
  <2> QED
    BY <2>1, TreeShape
<1>4. Loop(upTo)
  BY <1>3
<1> HIDE DEF upTo
<1>5. \A n \in 0..N : upTo[n] = IF n = 0 THEN cs ELSE ShowParent(upTo[n - 1], n)
  BY <1>4, TreeShape
<1> DEFINE T == {n \in 0..N : upTo[n] = ShownUpTo(cs, n)}
<1>6. ASSUME NEW n \in 0..N, \A j \in 0..N : j < n => j \in T
      PROVE  n \in T
  <2>1. CASE n = 0
    BY <1>1, <1>5, <2>1
  <2>2. CASE n # 0
    <3>1. n \in Nodes /\ n - 1 \in 0..N /\ n - 1 < n
      BY <2>2, TreeShape
    <3>2. upTo[n - 1] = ShownUpTo(cs, n - 1)
      BY <1>6, <3>1
    <3> QED
      BY <1>5, <2>2, <3>1, <3>2, ShowOneMore
  <2> QED
    BY <2>1, <2>2
<1> HIDE DEF T
<1>7. \A n \in 0..N : n \in T
  BY <1>6, TreeShape, UpTo
<1>8. upTo[N] = ShownUpTo(cs, N)
  BY <1>7, TreeShape DEF T
<1> QED
  BY <1>8 DEF ShowParents, upTo

\* A leaf that matches, or a parent of one.
WithMatch(n, text) == \E m \in Leaves : m \in Below[n] \cup {n} /\ FilterNavItem(m, text)

\* What the classes have to be for a text in the box.
Fits(cs, text) ==
  /\ cs \in [Nodes -> SUBSET {"in", "hide", "show", "filtered"}]
  /\ IF text = <<>> THEN \A n \in Nodes : cs[n] \cap {"hide", "filtered"} = {}
     ELSE \A n \in Nodes : IF WithMatch(n, text)
                            THEN "hide" \notin cs[n] /\ (n \notin Leaves => "filtered" \in cs[n])
                            ELSE "hide" \in cs[n]

LEMMA FilteredFits ==
  ASSUME NEW cs \in [Nodes -> SUBSET {"in", "hide", "show", "filtered"}], NEW text
  PROVE  Fits(Filtered(cs, text), text)
<1>1. CASE text = <<>>
  BY <1>1 DEF Filtered, Fits, AddTo
<1>2. CASE text # <<>>
  <2> DEFINE start == AddTo(cs, Nodes \ Leaves, {"hide"}, {"show", "filtered"})
             s == ShowLeaves(start, Matches(text))
             r == ShownUpTo(s, Len(Parent))
  <2>1. start \in [Nodes -> SUBSET {"in", "hide", "show", "filtered"}]
        /\ \A n \in Nodes \ Leaves : "show" \notin start[n]
    BY DEF AddTo
  <2> HIDE DEF start
  <2>2. Leaves \subseteq Nodes /\ Matches(text) \subseteq Leaves
    BY DEF Leaves, Matches
  <2>3. /\ s \in [Nodes -> SUBSET {"in", "hide", "show", "filtered"}]
        /\ \A n \in Nodes \ Leaves : "show" \notin s[n]
        /\ \A n \in Matches(text) : "show" \in s[n] /\ "hide" \notin s[n]
        /\ \A n \in Leaves \ Matches(text) : "show" \notin s[n] /\ "hide" \in s[n]
    BY <2>1, <2>2 DEF ShowLeaves, AddTo
  <2> HIDE DEF s
  <2>4. Filtered(cs, text) = r
    <3>1. Filtered(cs, text) = ShowParents(s)
      BY <1>2 DEF Filtered, s, start
    <3>2. s = [n \in Nodes |-> s[n]]
      BY <2>3
    <3> QED
      BY <3>1, <3>2, ShowParentsIs
  <2>5. \A n \in Nodes : ~(n > Len(Parent))
    BY TreeShape
  <2>6. ASSUME NEW n \in Nodes
        PROVE  /\ r[n] \in SUBSET {"in", "hide", "show", "filtered"}
               /\ IF WithMatch(n, text)
                  THEN "hide" \notin r[n] /\ (n \notin Leaves => "filtered" \in r[n])
                  ELSE "hide" \in r[n]
    <3>1. CASE n \in Leaves
      <4>1. r[n] = s[n]
        BY <3>1 DEF ShownUpTo
      <4>2. WithMatch(n, text) <=> n \in Matches(text)
        BY <3>1, AboveFacts DEF WithMatch, Matches
      <4> QED
        BY <2>3, <3>1, <4>1, <4>2
    <3>2. CASE n \notin Leaves
      <4>1. r[n] = IF \E m \in Below[n] : "show" \in s[m]
                   THEN (s[n] \ {"hide"}) \cup {"show", "filtered"}
                   ELSE (s[n] \ {"show", "filtered"}) \cup {"hide"}
        BY <2>5, <3>2 DEF ShownUpTo
      <4>2. Below[n] \subseteq Nodes
        BY DEF Below
      <4>3. (\E m \in Below[n] : "show" \in s[m]) <=> WithMatch(n, text)
        BY <2>2, <2>3, <3>2, <4>2 DEF WithMatch, Matches
      <4> QED
        BY <2>3, <4>1, <4>3
    <3> QED
      BY <3>1, <3>2
  <2>7. r = [n \in Nodes |-> r[n]]
    BY DEF ShownUpTo
  <2> HIDE DEF r
  <2>8. r \in [Nodes -> SUBSET {"in", "hide", "show", "filtered"}]
    BY <2>6, <2>7
  <2> QED
    BY <1>2, <2>4, <2>6, <2>8 DEF Fits
<1> QED
  BY <1>1, <1>2

\* Opening an item changes nothing of that.
LEMMA OpenedFits ==
  ASSUME NEW cs, NEW text, NEW n, Fits(cs, text)
  PROVE  Fits(Opened(cs, n), text)
<1> DEFINE r == Opened(cs, n)
<1>1. cs \in [Nodes -> SUBSET {"in", "hide", "show", "filtered"}]
  BY DEF Fits
<1>2. r \in [Nodes -> SUBSET {"in", "hide", "show", "filtered"}]
      /\ \A m \in Nodes : r[m] = cs[m] \/ r[m] = cs[m] \cup {"in"}
  BY <1>1 DEF Opened, AddTo
<1> HIDE DEF r
<1> QED
  BY <1>2 DEF Fits, r

LEMMA FittingShowsMatches ==
  ASSUME Fits(classes, filterText)
  PROVE  FilterShowsMatches
<1>1. CASE filterText = <<>>
  <2>1. ASSUME NEW n \in Nodes
        PROVE  Seen(n) <=> (\A m \in Range(Above[n]) : "in" \in classes[m])
    <3>1. \A m \in Range(Above[n]) : m \in Nodes
      BY AboveFacts
    <3> QED
      BY <1>1, <3>1 DEF Fits, Seen
  <2> QED
    BY <1>1, <2>1 DEF Fits, FilterShowsMatches
<1>2. CASE filterText # <<>>
  <2>1. ASSUME NEW n \in Nodes
        PROVE  Seen(n) <=> WithMatch(n, filterText)
    <3>1. \A m \in Range(Above[n]) : m \in Nodes /\ m \notin Leaves
      BY AboveFacts
    <3>2. ASSUME Seen(n) PROVE WithMatch(n, filterText)
      BY <1>2, <3>2 DEF Fits, Seen
    <3>3. ASSUME WithMatch(n, filterText), NEW m \in Range(Above[n])
          PROVE  WithMatch(m, filterText)
      <4>1. PICK l \in Leaves : l \in Below[n] \cup {n} /\ FilterNavItem(l, filterText)
        BY <3>3 DEF WithMatch
      <4>2. l \in Nodes
        BY DEF Leaves
      <4>3. m \in Range(Above[l])
        BY <3>1, <4>1, <4>2, AboveFacts
      <4>4. l \in Below[m]
        BY <3>1, <4>2, <4>3, AboveFacts
      <4> QED
        BY <4>1, <4>4 DEF WithMatch
    <3>4. ASSUME WithMatch(n, filterText) PROVE Seen(n)
      BY <1>2, <3>1, <3>3, <3>4 DEF Fits, Seen
    <3> QED
      BY <3>2, <3>4
  <2> QED
    BY <1>2, <2>1 DEF FilterShowsMatches, WithMatch
<1> QED
  BY <1>1, <1>2

LEMMA TocInitFits == TocInit => Fits(classes, filterText)
<1> SUFFICES ASSUME TocInit PROVE Fits(classes, filterText)
  OBVIOUS
<1>1. PICK n \in Nodes : classes = Opened(Unmarked, n)
  BY DEF TocInit
<1>2. Fits(Unmarked, <<>>)
  BY DEF Fits, Unmarked
<1> QED
  BY <1>1, <1>2, OpenedFits DEF TocInit

LEMMA TocStepFits ==
  ASSUME Fits(classes, filterText), [TocNext]_tocVars
  PROVE  Fits(classes, filterText)'
<1>0. classes \in [Nodes -> SUBSET {"in", "hide", "show", "filtered"}]
  BY DEF Fits
<1>1. ASSUME NEW text \in FilterTexts, Input(text) PROVE Fits(classes', filterText')
  BY <1>0, <1>1, FilteredFits DEF Input
<1>2. ASSUME NEW n \in Nodes, OpenPage(n) PROVE Fits(classes', filterText')
  <2>1. Unmarked \in [Nodes -> SUBSET {"in", "hide", "show", "filtered"}]
    BY DEF Unmarked
  <2>2. Fits(Filtered(Unmarked, filterText'), filterText')
    BY <2>1, FilteredFits
  <2> QED
    BY <1>2, <2>2, OpenedFits DEF OpenPage
<1>3. ASSUME NEW n \in Nodes, Toggle(n) PROVE Fits(classes', filterText')
  <2>1. filterText' = filterText
        /\ classes' = [classes EXCEPT ![n] = IF "in" \in @ THEN @ \ {"in"} ELSE @ \cup {"in"}]
    BY <1>3 DEF Toggle
  <2>2. classes' \in [Nodes -> SUBSET {"in", "hide", "show", "filtered"}]
        /\ \A m \in Nodes : classes'[m] \in {classes[m], classes[m] \ {"in"}, classes[m] \cup {"in"}}
    BY <1>0, <2>1
  <2> QED
    BY <2>1, <2>2 DEF Fits
<1>4. CASE UNCHANGED tocVars
  BY <1>4 DEF tocVars
<1>5. Fits(classes', filterText')
  BY <1>1, <1>2, <1>3, <1>4 DEF TocNext
<1>6. Fits(classes, filterText)' <=> Fits(classes', filterText')
  BY DEF Fits, WithMatch
<1> QED
  BY <1>5, <1>6

\* Whatever has been typed, opened and loaded before, and whatever the tree, what is
\* seen of the table of contents is what the text in the box asks for.
THEOREM FilterShows == SiteSpec => []FilterShowsMatches
<1>1. SiteInit => Fits(classes, filterText)
  BY TocInitFits DEF SiteInit, SiteStarts
<1>2. Fits(classes, filterText) /\ [SiteNext]_siteVars => Fits(classes, filterText)'
  <2> SUFFICES ASSUME Fits(classes, filterText), [SiteNext]_siteVars
               PROVE  Fits(classes, filterText)'
    OBVIOUS
  <2>1. [TocNext]_tocVars
    BY DEF SiteNext, IndexWorks, BoxWorks, TabsWork, ContentsWork, OutlineWorks, siteVars
  <2> QED
    BY <2>1, TocStepFits
<1>3. Fits(classes, filterText) => FilterShowsMatches
  BY FittingShowsMatches
<1> QED
  BY <1>1, <1>2, <1>3, PTL DEF SiteSpec

-------------------------------------------------------------------------------
\* The recursions of Reading, PopTo and Closing have solutions.
LEMMA ReadingSolves ==
  ASSUME NEW headings \in Seq(Headings)
  PROVE  \E f : f = [n \in 0..Len(headings) |-> IF n = 0 THEN Started ELSE AddHeading(f[n - 1], n, headings[n])]
<1> DEFINE Step(x, n) == AddHeading(x, n, headings[n])
           Solves(f, k) == \A m \in 0..k : f[m] = IF m = 0 THEN Started ELSE Step(f[m - 1], m)
           T == {k \in 0..Len(headings) : \E f : f = [m \in 0..k |-> f[m]] /\ Solves(f, k)}
<1>0. Len(headings) \in Nat
  OBVIOUS
<1>1. ASSUME NEW k \in 0..Len(headings), \A j \in 0..Len(headings) : j < k => j \in T
      PROVE  k \in T
  <2> HIDE DEF Step
  <2>1. CASE k = 0
    <3> DEFINE f == [m \in 0..0 |-> Started]
    <3>1. f = [m \in 0..0 |-> f[m]] /\ Solves(f, 0)
      OBVIOUS
    <3> HIDE DEF f
    <3> QED
      BY <2>1, <3>1
  <2>2. CASE k # 0
    <3>1. k - 1 \in 0..Len(headings) /\ k - 1 < k
      BY <1>0, <2>2
    <3>2. PICK g : g = [m \in 0..k - 1 |-> g[m]] /\ Solves(g, k - 1)
      BY <1>1, <3>1
    <3> DEFINE f == [m \in 0..k |-> IF m = k THEN Step(g[k - 1], k) ELSE g[m]]
    <3>3. ASSUME NEW m \in 0..k PROVE f[m] = IF m = 0 THEN Started ELSE Step(f[m - 1], m)
      <4>1. CASE m = k
        <5>1. k - 1 \in 0..k /\ k - 1 # k
          BY <1>0, <2>2
        <5> QED
          BY <2>2, <4>1, <5>1
      <4>2. CASE m # k
        <5>1. m \in 0..k - 1 /\ (m # 0 => m - 1 \in 0..k /\ m - 1 # k)
          BY <1>0, <4>2
        <5>2. g[m] = IF m = 0 THEN Started ELSE Step(g[m - 1], m)
          BY <3>2, <5>1
        <5> QED
          BY <4>2, <5>1, <5>2
      <4> QED
        BY <4>1, <4>2
    <3>4. f = [m \in 0..k |-> f[m]]
      OBVIOUS
    <3> HIDE DEF f
    <3> QED
      BY <3>3, <3>4
  <2> QED
    BY <2>1, <2>2
<1>2. Len(headings) \in T
  <2> HIDE DEF T
  <2>1. \A m \in 0..Len(headings) : m \in T
    BY <1>0, <1>1, UpTo
  <2> QED
    BY <1>0, <2>1
<1>3. PICK f : f = [m \in 0..Len(headings) |-> f[m]] /\ Solves(f, Len(headings))
  BY <1>2
<1>4. f = [n \in 0..Len(headings) |-> IF n = 0 THEN Started ELSE Step(f[n - 1], n)]
  <2> HIDE DEF Step
  <2> QED
    BY <1>3
<1> QED
  BY <1>4

LEMMA PoppingSolves ==
  ASSUME NEW s, Len(s.stack) \in Nat, NEW level
  PROVE  \E f : f = [n \in 0..Len(s.stack) |-> IF n = 0 THEN s ELSE Pop(f[n - 1], level)]
<1> DEFINE Step(x, n) == Pop(x, level)
           Solves(f, k) == \A m \in 0..k : f[m] = IF m = 0 THEN s ELSE Step(f[m - 1], m)
           T == {k \in 0..Len(s.stack) : \E f : f = [m \in 0..k |-> f[m]] /\ Solves(f, k)}
<1>0. Len(s.stack) \in Nat
  OBVIOUS
<1>1. ASSUME NEW k \in 0..Len(s.stack), \A j \in 0..Len(s.stack) : j < k => j \in T
      PROVE  k \in T
  <2> HIDE DEF Step
  <2>1. CASE k = 0
    <3> DEFINE f == [m \in 0..0 |-> s]
    <3>1. f = [m \in 0..0 |-> f[m]] /\ Solves(f, 0)
      OBVIOUS
    <3> HIDE DEF f
    <3> QED
      BY <2>1, <3>1
  <2>2. CASE k # 0
    <3>1. k - 1 \in 0..Len(s.stack) /\ k - 1 < k
      BY <1>0, <2>2
    <3>2. PICK g : g = [m \in 0..k - 1 |-> g[m]] /\ Solves(g, k - 1)
      BY <1>1, <3>1
    <3> DEFINE f == [m \in 0..k |-> IF m = k THEN Step(g[k - 1], k) ELSE g[m]]
    <3>3. ASSUME NEW m \in 0..k PROVE f[m] = IF m = 0 THEN s ELSE Step(f[m - 1], m)
      <4>1. CASE m = k
        <5>1. k - 1 \in 0..k /\ k - 1 # k
          BY <1>0, <2>2
        <5> QED
          BY <2>2, <4>1, <5>1
      <4>2. CASE m # k
        <5>1. m \in 0..k - 1 /\ (m # 0 => m - 1 \in 0..k /\ m - 1 # k)
          BY <1>0, <4>2
        <5>2. g[m] = IF m = 0 THEN s ELSE Step(g[m - 1], m)
          BY <3>2, <5>1
        <5> QED
          BY <4>2, <5>1, <5>2
      <4> QED
        BY <4>1, <4>2
    <3>4. f = [m \in 0..k |-> f[m]]
      OBVIOUS
    <3> HIDE DEF f
    <3> QED
      BY <3>3, <3>4
  <2> QED
    BY <2>1, <2>2
<1>2. Len(s.stack) \in T
  <2> HIDE DEF T
  <2>1. \A m \in 0..Len(s.stack) : m \in T
    BY <1>0, <1>1, UpTo
  <2> QED
    BY <1>0, <2>1
<1>3. PICK f : f = [m \in 0..Len(s.stack) |-> f[m]] /\ Solves(f, Len(s.stack))
  BY <1>2
<1>4. f = [n \in 0..Len(s.stack) |-> IF n = 0 THEN s ELSE Step(f[n - 1], n)]
  <2> HIDE DEF Step
  <2> QED
    BY <1>3
<1> QED
  BY <1>4

LEMMA ClosingSolves ==
  ASSUME NEW s, Len(s.stack) \in Nat
  PROVE  \E f : f = [n \in 0..Len(s.stack) |-> IF n = 0 THEN s ELSE Close(f[n - 1])]
<1> DEFINE Step(x, n) == Close(x)
           Solves(f, k) == \A m \in 0..k : f[m] = IF m = 0 THEN s ELSE Step(f[m - 1], m)
           T == {k \in 0..Len(s.stack) : \E f : f = [m \in 0..k |-> f[m]] /\ Solves(f, k)}
<1>0. Len(s.stack) \in Nat
  OBVIOUS
<1>1. ASSUME NEW k \in 0..Len(s.stack), \A j \in 0..Len(s.stack) : j < k => j \in T
      PROVE  k \in T
  <2> HIDE DEF Step
  <2>1. CASE k = 0
    <3> DEFINE f == [m \in 0..0 |-> s]
    <3>1. f = [m \in 0..0 |-> f[m]] /\ Solves(f, 0)
      OBVIOUS
    <3> HIDE DEF f
    <3> QED
      BY <2>1, <3>1
  <2>2. CASE k # 0
    <3>1. k - 1 \in 0..Len(s.stack) /\ k - 1 < k
      BY <1>0, <2>2
    <3>2. PICK g : g = [m \in 0..k - 1 |-> g[m]] /\ Solves(g, k - 1)
      BY <1>1, <3>1
    <3> DEFINE f == [m \in 0..k |-> IF m = k THEN Step(g[k - 1], k) ELSE g[m]]
    <3>3. ASSUME NEW m \in 0..k PROVE f[m] = IF m = 0 THEN s ELSE Step(f[m - 1], m)
      <4>1. CASE m = k
        <5>1. k - 1 \in 0..k /\ k - 1 # k
          BY <1>0, <2>2
        <5> QED
          BY <2>2, <4>1, <5>1
      <4>2. CASE m # k
        <5>1. m \in 0..k - 1 /\ (m # 0 => m - 1 \in 0..k /\ m - 1 # k)
          BY <1>0, <4>2
        <5>2. g[m] = IF m = 0 THEN s ELSE Step(g[m - 1], m)
          BY <3>2, <5>1
        <5> QED
          BY <4>2, <5>1, <5>2
      <4> QED
        BY <4>1, <4>2
    <3>4. f = [m \in 0..k |-> f[m]]
      OBVIOUS
    <3> HIDE DEF f
    <3> QED
      BY <3>3, <3>4
  <2> QED
    BY <2>1, <2>2
<1>2. Len(s.stack) \in T
  <2> HIDE DEF T
  <2>1. \A m \in 0..Len(s.stack) : m \in T
    BY <1>0, <1>1, UpTo
  <2> QED
    BY <1>0, <2>1
<1>3. PICK f : f = [m \in 0..Len(s.stack) |-> f[m]] /\ Solves(f, Len(s.stack))
  BY <1>2
<1>4. f = [n \in 0..Len(s.stack) |-> IF n = 0 THEN s ELSE Step(f[n - 1], n)]
  <2> HIDE DEF Step
  <2> QED
    BY <1>3
<1> QED
  BY <1>4

-------------------------------------------------------------------------------
LEMMA Chain ==
  ASSUME NEW a \in Int, NEW b \in Int, NEW c \in Int
  PROVE  /\ (a <= b /\ b < c) => a < c
         /\ (a < b /\ b <= c) => a < c
         /\ (a <= b /\ b <= c) => a <= c
         /\ (a >= b) <=> (b <= a)
         /\ (a < b) => (a <= b)
         /\ (a < b) <=> ~(b <= a)
OBVIOUS

LEMMA Reflexive == \A a \in Int : a <= a /\ ~(a < a)
OBVIOUS

LEMMA OwnsUnique ==
  ASSUME NEW headings, NEW i \in Nat, NEW o \in Nat, NEW j \in Nat,
         Owns(headings, i, j), Owns(headings, o, j),
         \A k \in Named(headings) : k \in Nat \ {0} /\ headings[k].level \in Int
  PROVE  i = o
<1>1. ~(i < o)
  BY DEF Owns
<1>2. ~(o < i)
  BY DEF Owns
<1> QED
  BY <1>1, <1>2

LEMMA InOrderAppend ==
  ASSUME NEW seq \in Seq(Nat), NEW set, InOrder(seq, set), NEW x \in Nat,
         \A j \in set : j < x
  PROVE  InOrder(Append(seq, x), set \cup {x})
<1> DEFINE t == Append(seq, x)
<1>1. /\ Len(seq) \in Nat /\ t \in Seq(Nat) /\ Len(t) = Len(seq) + 1
      /\ \A i \in 1..Len(seq) : t[i] = seq[i] /\ seq[i] \in Nat
      /\ t[Len(seq) + 1] = x
  OBVIOUS
<1>2. \A i \in 1..Len(seq) : seq[i] \in set
  BY DEF InOrder, Range
<1> HIDE DEF t
<1>3. DOMAIN t = 1..Len(seq) + 1 /\ DOMAIN seq = 1..Len(seq)
  BY <1>1
<1>4. Range(t) = set \cup {x}
  <2>1. ASSUME NEW v \in Range(t) PROVE v \in set \cup {x}
    <3>1. PICK i \in 1..Len(seq) + 1 : v = t[i]
      BY <1>3 DEF Range
    <3>2. i \in 1..Len(seq) \/ i = Len(seq) + 1
      BY <1>1
    <3> QED
      BY <1>1, <1>2, <3>1, <3>2
  <2>2. ASSUME NEW v \in set PROVE v \in Range(t)
    <3>1. PICK i \in 1..Len(seq) : v = seq[i]
      BY <1>3 DEF InOrder, Range
    <3>2. i \in DOMAIN t /\ t[i] = v
      BY <1>1, <1>3, <3>1
    <3> QED
      BY <3>2 DEF Range
  <2>3. x \in Range(t)
    <3>1. Len(seq) + 1 \in DOMAIN t
      BY <1>1, <1>3
    <3> QED
      BY <1>1, <3>1 DEF Range
  <2> QED
    BY <2>1, <2>2, <2>3
<1>5. ASSUME NEW i \in DOMAIN t, NEW j \in 1..i - 1 PROVE t[j] < t[i]
  <2>1. j \in 1..Len(seq) /\ (i \in 1..Len(seq) \/ i = Len(seq) + 1)
    BY <1>1, <1>3, SMTT(30)
  <2>2. CASE i \in 1..Len(seq)
    <3>1. seq[j] < seq[i]
      BY <1>3, <2>2 DEF InOrder
    <3> QED
      BY <1>1, <2>1, <2>2, <3>1
  <2>3. CASE i = Len(seq) + 1
    BY <1>1, <1>2, <2>1, <2>3
  <2> QED
    BY <2>1, <2>2, <2>3
<1> QED
  BY <1>4, <1>5 DEF InOrder, t

\* The headings among the first n, and which of them i owns.
NamedTo(headings, n) == {j \in Named(headings) : j <= n}
OwnedTo(headings, n, i) == {j \in NamedTo(headings, n) : Owns(headings, i, j)}

\* The heading of a frame that the next frame belongs to.
Open(s, k) == s.stack[k].siblings[Len(s.stack[k].siblings)]

Frames == [level : 1..4, siblings : Seq(Nat) \ {<<>>}]
Stacks == [stack : Seq(Frames), items : Seq(Seq(Nat)), error : BOOLEAN]

\* When n headings have been read: the headings that i owns are its items, and
\* after them the siblings of the frame above that of i, when i is open.
Builds(headings, s, n) ==
  /\ s \in Stacks /\ Len(s.items) = n
  /\ \A k \in DOMAIN s.stack : /\ Open(s, k) \in NamedTo(headings, n)
                               /\ headings[Open(s, k)].level = s.stack[k].level
  /\ \A m \in DOMAIN s.stack : \A k \in 1..m - 1 :
       s.stack[k].level < s.stack[m].level /\ Open(s, k) < Open(s, m)
  /\ s.stack # <<>> => InOrder(s.stack[1].siblings, OwnedTo(headings, n, 0))
  /\ \A k \in DOMAIN s.stack :
       k > 1 => InOrder(s.items[Open(s, k - 1)] \o s.stack[k].siblings,
                        OwnedTo(headings, n, Open(s, k - 1)))
  /\ \A i \in NamedTo(headings, n) :
       (\A k \in DOMAIN s.stack : k > 1 => i # Open(s, k - 1)) =>
         InOrder(s.items[i], OwnedTo(headings, n, i))

\* The lowest frame has the level of the first heading, and no heading so far is
\* above it.
FirstIsLowest(headings, s, n) ==
  /\ s.stack = <<>> => NamedTo(headings, n) = {}
  /\ s.stack # <<>> =>
       /\ \A j \in NamedTo(headings, n) : headings[j].level >= s.stack[1].level
       /\ \E f \in NamedTo(headings, n) : /\ headings[f].level = s.stack[1].level
                                          /\ \A j \in NamedTo(headings, n) : f <= j

\* A heading above the level is open, or has one after it that is, and that is
\* not below it.
Covers(headings, s, n, level) ==
  \A j \in NamedTo(headings, n) :
    headings[j].level < level =>
      \E k \in DOMAIN s.stack : Open(s, k) >= j /\ s.stack[k].level <= headings[j].level

Article(headings) == headings \in Seq(Headings)

LEMMA NamedFacts ==
  ASSUME NEW headings, Article(headings)
  PROVE  /\ \A j \in Named(headings) : j \in 1..Len(headings) /\ j \in Nat \ {0}
                                       /\ headings[j].level \in 1..4
         /\ \A n \in Nat : NamedTo(headings, n + 1) =
              IF n + 1 \in Named(headings) THEN NamedTo(headings, n) \cup {n + 1}
              ELSE NamedTo(headings, n)
<1>1. ASSUME NEW j \in Named(headings)
      PROVE  j \in 1..Len(headings) /\ j \in Nat \ {0} /\ headings[j].level \in 1..4
  <2>1. j \in 1..Len(headings) /\ headings[j] \in Headings
    BY DEF Named, Article
  <2> QED
    BY <2>1 DEF Headings
<1>2. ASSUME NEW n \in Nat, NEW j
      PROVE  j \in NamedTo(headings, n + 1) <=>
               j \in IF n + 1 \in Named(headings) THEN NamedTo(headings, n) \cup {n + 1}
                     ELSE NamedTo(headings, n)
  BY <1>1 DEF NamedTo
<1>3. ASSUME NEW n \in Nat
      PROVE  NamedTo(headings, n + 1) =
               IF n + 1 \in Named(headings) THEN NamedTo(headings, n) \cup {n + 1}
               ELSE NamedTo(headings, n)
  BY <1>2
<1> QED
  BY <1>1, <1>3

LEMMA StackFacts ==
  ASSUME NEW s \in Stacks
  PROVE  /\ Len(s.stack) \in Nat /\ DOMAIN s.stack = 1..Len(s.stack)
         /\ s.stack = <<>> <=> Len(s.stack) = 0
         /\ \A k \in DOMAIN s.stack :
              /\ s.stack[k] \in Frames /\ s.stack[k].level \in 1..4
              /\ s.stack[k].siblings \in Seq(Nat) /\ Len(s.stack[k].siblings) \in Nat \ {0}
              /\ Open(s, k) \in Nat
<1>1. s.stack \in Seq(Frames)
  BY DEF Stacks
<1>2. Len(s.stack) \in Nat /\ DOMAIN s.stack = 1..Len(s.stack) /\ (s.stack = <<>> <=> Len(s.stack) = 0)
  BY <1>1
<1>3. ASSUME NEW k \in DOMAIN s.stack
      PROVE  /\ s.stack[k] \in Frames /\ s.stack[k].level \in 1..4
             /\ s.stack[k].siblings \in Seq(Nat) /\ Len(s.stack[k].siblings) \in Nat \ {0}
             /\ Open(s, k) \in Nat
  <2>1. s.stack[k] \in Frames
    BY <1>1, <1>2
  <2>2. /\ s.stack[k].level \in 1..4 /\ s.stack[k].siblings \in Seq(Nat)
        /\ s.stack[k].siblings # <<>>
    BY <2>1 DEF Frames
  <2>3. Len(s.stack[k].siblings) \in Nat \ {0}
    BY <2>2
  <2> QED
    BY <2>1, <2>2, <2>3 DEF Open
<1> QED
  BY <1>2, <1>3

\* The next heading is one more that o owns, and nobody else does.
OwnedAlso(headings, n, o) ==
  \A i \in Nat : OwnedTo(headings, n + 1, i) =
    IF i = o THEN OwnedTo(headings, n, i) \cup {n + 1} ELSE OwnedTo(headings, n, i)

\* The next heading is added to what its owner owns.
LEMMA OwnedNext ==
  ASSUME NEW headings, Article(headings), NEW n \in Nat, NEW o \in Nat,
         n + 1 \in Named(headings), Owns(headings, o, n + 1)
  PROVE  OwnedAlso(headings, n, o)
<1> SUFFICES ASSUME NEW i \in Nat
             PROVE  OwnedTo(headings, n + 1, i) =
                      IF i = o THEN OwnedTo(headings, n, i) \cup {n + 1}
                      ELSE OwnedTo(headings, n, i)
  BY DEF OwnedAlso
<1>1. Owns(headings, i, n + 1) => i = o
  <2>1. n + 1 \in Nat
    OBVIOUS
  <2>2. \A k \in Named(headings) : k \in Nat \ {0} /\ headings[k].level \in Int
    BY NamedFacts
  <2> QED
    BY <2>1, <2>2, OwnsUnique, Zenon
<1> QED
  BY <1>1, NamedFacts DEF OwnedTo

LEMMA OwnedBefore ==
  ASSUME NEW headings, Article(headings), NEW n \in Nat, NEW i,
         n + 1 \notin Named(headings)
  PROVE  OwnedTo(headings, n + 1, i) = OwnedTo(headings, n, i)
BY NamedFacts DEF OwnedTo

\* Who owns the next heading is found on the stack.
LEMMA OwnerIsOpen ==
  ASSUME NEW headings, Article(headings), NEW s, NEW n \in Nat, Builds(headings, s, n),
         n + 1 \in Named(headings), NEW T \in 0..Len(s.stack),
         T > 0 => s.stack[T].level < headings[n + 1].level,
         T < Len(s.stack) => s.stack[T + 1].level >= headings[n + 1].level,
         Covers(headings, s, n, headings[n + 1].level)
  PROVE  LET o == IF T = 0 THEN 0 ELSE Open(s, T)
         IN  o \in 0..n /\ Owns(headings, o, n + 1)
<1> DEFINE o == IF T = 0 THEN 0 ELSE Open(s, T)
           l == headings[n + 1].level
<1>1. Len(s.stack) \in Nat /\ DOMAIN s.stack = 1..Len(s.stack)
      /\ \A k \in DOMAIN s.stack : s.stack[k].level \in 1..4
  BY StackFacts DEF Builds
<1>2. \A k \in DOMAIN s.stack : /\ Open(s, k) \in Named(headings) /\ Open(s, k) \in 1..n
                                /\ headings[Open(s, k)].level = s.stack[k].level
  BY NamedFacts DEF Builds, NamedTo
<1>3. T # 0 => T \in DOMAIN s.stack
  BY <1>1
<1>4. o \in 0..n /\ (o = 0 \/ (o \in Named(headings) /\ headings[o].level < l))
  <2>1. CASE T = 0
    <3>1. o = 0
      BY <2>1
    <3> HIDE DEF o
    <3> QED
      BY <3>1
  <2>2. CASE T # 0
    BY <1>2, <1>3, <2>2
  <2> QED
    BY <2>1, <2>2
<1>5. l \in 1..4 /\ \A k \in Named(headings) : k \in Nat /\ headings[k].level \in 1..4
  BY NamedFacts
<1>a. \A m \in DOMAIN s.stack : \A k \in 1..m - 1 :
        s.stack[k].level < s.stack[m].level /\ Open(s, k) < Open(s, m)
  BY DEF Builds
<1>b. T < Len(s.stack) => s.stack[T + 1].level >= l
  OBVIOUS
<1> HIDE DEF l
<1>6. ASSUME NEW j \in Named(headings), o < j, j < n + 1, headings[j].level < l
      PROVE  FALSE
  <2>1. j \in NamedTo(headings, n)
    BY <1>5, <1>6 DEF NamedTo
  <2>2. PICK k \in DOMAIN s.stack : Open(s, k) >= j /\ s.stack[k].level <= headings[j].level
    BY <1>6, <2>1 DEF Covers, l
  <2>a. s.stack[k].level \in 1..4 /\ headings[j].level \in 1..4 /\ k \in Nat
    BY <1>1, <1>5
  <2>3. s.stack[k].level < l
    <3> DEFINE a == s.stack[k].level
               b == headings[j].level
    <3>1. a \in Int /\ b \in Int /\ l \in Int /\ a <= b /\ b < l
      BY <1>5, <1>6, <2>2, <2>a
    <3> HIDE DEF a, b
    <3>2. a < l
      BY <3>1, Chain
    <3> QED
      BY <3>2 DEF a
  <2>4. k <= T
    <3> SUFFICES ASSUME T < k PROVE FALSE
      BY <1>1
    <3>1. T + 1 \in DOMAIN s.stack /\ T < Len(s.stack)
      BY <1>1
    <3>2. T + 1 = k \/ T + 1 \in 1..k - 1
      BY <1>1
    <3>a. s.stack[T + 1].level \in 1..4
      BY <1>1, <3>1
    <3>3. s.stack[T + 1].level <= s.stack[k].level
      <4>1. T + 1 = k \/ s.stack[T + 1].level < s.stack[k].level
        BY <1>a, <3>2
      <4>2. CASE T + 1 = k
        BY <2>a, <4>2, Reflexive
      <4>3. CASE s.stack[T + 1].level < s.stack[k].level
        BY <2>a, <3>a, <4>3, Chain
      <4> QED
        BY <4>1, <4>2, <4>3
    <3>4. s.stack[T + 1].level >= l
      BY <1>b, <3>1
    <3> QED
      <4> DEFINE a == s.stack[T + 1].level
                 b == s.stack[k].level
      <4>1. a \in 1..4 /\ b \in 1..4 /\ l \in 1..4 /\ a <= b /\ b < l /\ a >= l
        BY <1>5, <2>3, <2>a, <3>3, <3>4, <3>a, Zenon
      <4> HIDE DEF a, b
      <4> QED
        BY <4>1
  <2>5. T # 0 /\ T \in DOMAIN s.stack /\ (k = T \/ k \in 1..T - 1)
    BY <1>1, <2>4
  <2>6. Open(s, k) <= Open(s, T)
    BY <1>2, <1>a, <2>5
  <2> QED
    BY <1>2, <1>5, <1>6, <2>2, <2>5, <2>6
<1>7. \A j \in Named(headings) : o < j /\ j < n + 1 => headings[j].level >= l
  BY <1>5, <1>6
<1> QED
  BY <1>4, <1>7 DEF Owns, l

-------------------------------------------------------------------------------
\* What BuildParent, Push and Beside make of a stack.
LEMMA BuildParentIs ==
  ASSUME NEW s \in Stacks, Len(s.stack) > 1,
         Open(s, Len(s.stack) - 1) \in DOMAIN s.items
  PROVE  /\ BuildParent(s) \in Stacks
         /\ BuildParent(s).error = s.error
         /\ Len(BuildParent(s).stack) = Len(s.stack) - 1
         /\ \A k \in 1..Len(s.stack) - 1 : BuildParent(s).stack[k] = s.stack[k]
         /\ Len(BuildParent(s).items) = Len(s.items)
         /\ \A i \in DOMAIN s.items :
              BuildParent(s).items[i] =
                IF i = Open(s, Len(s.stack) - 1)
                THEN s.items[i] \o s.stack[Len(s.stack)].siblings ELSE s.items[i]
<1> DEFINE K == Len(s.stack)
           p == Open(s, K - 1)
           below == Front(s.stack)
           new == s.items[p] \o s.stack[K].siblings
           items == [s.items EXCEPT ![p] = new]
<1>1. s.stack \in Seq(Frames) /\ s.items \in Seq(Seq(Nat)) /\ s.error \in BOOLEAN
  BY DEF Stacks
<1>2. K \in Nat /\ K - 1 \in 1..K /\ K \in 1..K /\ DOMAIN s.stack = 1..K
  BY <1>1
<1>3. below \in Seq(Frames) /\ Len(below) = K - 1 /\ \A k \in 1..K - 1 : below[k] = s.stack[k]
  <2>1. K - 1 \in Nat /\ \A i \in 1..K - 1 : s.stack[i] \in Frames
    BY <1>1, <1>2
  <2>2. below = SubSeq(s.stack, 1, K - 1)
    BY DEF Front
  <2> QED
    BY <1>1, <1>2, <2>1, <2>2
<1>4. Last(s.stack) = s.stack[K] /\ s.stack[K].siblings \in Seq(Nat)
  BY <1>1, <1>2, StackFacts DEF Last
<1>5. Last(Last(below).siblings) = p
  <2>1. Last(below) = s.stack[K - 1]
    BY <1>2, <1>3 DEF Last
  <2> QED
    BY <2>1 DEF Last, Open
<1>6. new \in Seq(Nat)
  BY <1>1, <1>4, ConcatProperties
<1>7. items \in Seq(Seq(Nat)) /\ Len(items) = Len(s.items)
      /\ \A i \in DOMAIN s.items : items[i] = IF i = p THEN new ELSE s.items[i]
  <2>1. p \in DOMAIN s.items
    OBVIOUS
  <2> HIDE DEF p, new
  <2> QED
    BY <1>1, <1>6, <2>1, SMTT(30)
<1>9. BuildParent(s) = [stack |-> below, error |-> s.error, items |-> items]
  BY <1>4, <1>5 DEF BuildParent
<1> HIDE DEF below, p, new, items
<1>10. /\ BuildParent(s).stack = below /\ BuildParent(s).items = items
       /\ BuildParent(s).error = s.error
  BY <1>9
<1>11. BuildParent(s) \in Stacks
  BY <1>1, <1>3, <1>7, <1>9 DEF Stacks
<1> QED
  BY <1>3, <1>7, <1>10, <1>11 DEF p, new

LEMMA PushIs ==
  ASSUME NEW s \in Stacks, NEW x \in Nat, NEW level \in 1..4
  PROVE  /\ Push(s, x, level) \in Stacks
         /\ Push(s, x, level).error = s.error
         /\ Push(s, x, level).stack
              = Append(s.stack, [level |-> level, siblings |-> <<x>>])
         /\ Push(s, x, level).items = Append(s.items, <<>>)
<1> DEFINE frame == [level |-> level, siblings |-> <<x>>]
<1>1. s.stack \in Seq(Frames) /\ s.items \in Seq(Seq(Nat)) /\ s.error \in BOOLEAN
  BY DEF Stacks
<1>2. frame \in Frames
  BY DEF Frames
<1> HIDE DEF frame
<1>3. Append(s.stack, frame) \in Seq(Frames) /\ Append(s.items, <<>>) \in Seq(Seq(Nat))
  BY <1>1, <1>2
<1>4. Push(s, x, level)
        = [stack |-> Append(s.stack, frame), items |-> Append(s.items, <<>>), error |-> s.error]
  BY DEF Push, frame
<1> QED
  BY <1>1, <1>3, <1>4 DEF Stacks, frame

LEMMA BesideIs ==
  ASSUME NEW s \in Stacks, NEW x \in Nat, Len(s.stack) > 0
  PROVE  /\ Beside(s, x) \in Stacks
         /\ Beside(s, x).error = s.error
         /\ Len(Beside(s, x).stack) = Len(s.stack)
         /\ \A k \in 1..Len(s.stack) - 1 : Beside(s, x).stack[k] = s.stack[k]
         /\ Beside(s, x).stack[Len(s.stack)].level = s.stack[Len(s.stack)].level
         /\ Beside(s, x).stack[Len(s.stack)].siblings
              = Append(s.stack[Len(s.stack)].siblings, x)
         /\ Beside(s, x).items = Append(s.items, <<>>)
<1> DEFINE K == Len(s.stack)
           f == s.stack[K]
           frame == [level |-> f.level, siblings |-> Append(f.siblings, x)]
           below == Front(s.stack)
           stack == Append(below, frame)
<1>1. s.stack \in Seq(Frames) /\ s.items \in Seq(Seq(Nat)) /\ s.error \in BOOLEAN
  BY DEF Stacks
<1>2. K \in Nat /\ K \in 1..K /\ DOMAIN s.stack = 1..K /\ f \in Frames /\ Last(s.stack) = f
  BY <1>1 DEF Last
<1>3. below \in Seq(Frames) /\ Len(below) = K - 1 /\ \A k \in 1..K - 1 : below[k] = s.stack[k]
  <2>1. K - 1 \in Nat /\ \A i \in 1..K - 1 : s.stack[i] \in Frames
    BY <1>1, <1>2
  <2>2. below = SubSeq(s.stack, 1, K - 1)
    BY DEF Front
  <2> QED
    BY <1>1, <1>2, <2>1, <2>2
<1>4. Beside(s, x) = [stack |-> stack, items |-> Append(s.items, <<>>), error |-> s.error]
  BY <1>2 DEF Beside
<1> HIDE DEF f, below
<1>5. frame \in Frames /\ frame.level = f.level /\ frame.siblings = Append(f.siblings, x)
  <2>1. f.siblings \in Seq(Nat) /\ f.level \in 1..4
    BY <1>2 DEF Frames
  <2>2. Append(f.siblings, x) \in Seq(Nat) \ {<<>>}
    <3> DEFINE all == Append(f.siblings, x)
    <3>1. all \in Seq(Nat) /\ Len(all) = Len(f.siblings) + 1 /\ Len(f.siblings) \in Nat
      BY <2>1, AppendProperties
    <3> HIDE DEF all
    <3>2. all # <<>>
      BY <3>1
    <3> QED
      BY <3>1, <3>2 DEF all
  <2> QED
    BY <2>1, <2>2 DEF Frames
<1> HIDE DEF frame
<1>6. stack \in Seq(Frames) /\ Len(stack) = K /\ stack[K] = frame
      /\ \A k \in 1..K - 1 : stack[k] = s.stack[k]
  <2>1. Len(stack) = (K - 1) + 1 /\ stack[(K - 1) + 1] = frame /\ (K - 1) + 1 = K
    BY <1>2, <1>3, <1>5, AppendProperties
  <2> QED
    BY <1>2, <1>3, <1>5, <2>1, AppendProperties, SMTT(30)
<1>7. Append(s.items, <<>>) \in Seq(Seq(Nat))
  BY <1>1
<1> HIDE DEF stack
<1>8. Beside(s, x) \in Stacks
  BY <1>1, <1>4, <1>6, <1>7 DEF Stacks
<1> QED
  BY <1>4, <1>5, <1>6, <1>8, SMTT(30) DEF f


-------------------------------------------------------------------------------
\* A frame's siblings go to the heading they belong to.
LEMMA BuildKeeps ==
  ASSUME NEW headings, Article(headings), NEW s, NEW n \in Nat, Builds(headings, s, n),
         Len(s.stack) > 1
  PROVE  /\ Builds(headings, BuildParent(s), n)
         /\ BuildParent(s).error = s.error
         /\ Len(BuildParent(s).stack) = Len(s.stack) - 1
         /\ \A k \in 1..Len(s.stack) - 1 : BuildParent(s).stack[k] = s.stack[k]
<1> DEFINE K == Len(s.stack)
           t == BuildParent(s)
           p == Open(s, K - 1)
<1>1. /\ s \in Stacks /\ K \in Nat /\ DOMAIN s.stack = 1..K /\ K - 1 \in 1..K /\ K \in 1..K
      /\ s.items \in Seq(Seq(Nat)) /\ Len(s.items) = n /\ DOMAIN s.items = 1..n
  BY StackFacts DEF Builds, Stacks
<1>2. \A i \in NamedTo(headings, n) : i \in 1..n
  BY NamedFacts DEF NamedTo
<1>3. p \in DOMAIN s.items
  BY <1>1, <1>2 DEF Builds
<1>4. /\ t \in Stacks /\ t.error = s.error /\ Len(t.stack) = K - 1
      /\ \A k \in 1..K - 1 : t.stack[k] = s.stack[k]
      /\ Len(t.items) = n
      /\ \A i \in 1..n :
           t.items[i] = IF i = p THEN s.items[i] \o s.stack[K].siblings ELSE s.items[i]
  <2>1. /\ t \in Stacks /\ t.error = s.error /\ Len(t.stack) = K - 1
        /\ \A k \in 1..K - 1 : t.stack[k] = s.stack[k]
        /\ Len(t.items) = Len(s.items)
        /\ \A i \in DOMAIN s.items :
             t.items[i] = IF i = p THEN s.items[i] \o s.stack[K].siblings ELSE s.items[i]
    <3>1. s \in Stacks
      BY <1>1
    <3> QED
      BY <1>3, <3>1, BuildParentIs, Zenon
  <2> HIDE DEF K, t, p
  <2> QED
    BY <1>1, <2>1
<1>5. DOMAIN t.stack = 1..K - 1
  BY <1>4, StackFacts
<1> HIDE DEF t
<1>6. \A k \in 1..K - 1 : Open(t, k) = Open(s, k)
  BY <1>4 DEF Open
<1>7. \A k \in 1..K - 1 : k \in 1..K
  BY <1>1
<1>8. \A k \in DOMAIN t.stack : /\ Open(t, k) \in NamedTo(headings, n)
                                /\ headings[Open(t, k)].level = t.stack[k].level
  BY <1>1, <1>4, <1>5, <1>6, <1>7 DEF Builds
<1>9. \A m \in DOMAIN t.stack : \A k \in 1..m - 1 :
        t.stack[k].level < t.stack[m].level /\ Open(t, k) < Open(t, m)
  <2> SUFFICES ASSUME NEW m \in 1..K - 1, NEW k \in 1..m - 1
               PROVE  t.stack[k].level < t.stack[m].level /\ Open(t, k) < Open(t, m)
    BY <1>5
  <2>1. k \in 1..K - 1 /\ m \in 1..K
    BY <1>1
  <2>2. s.stack[k].level < s.stack[m].level /\ Open(s, k) < Open(s, m)
    BY <1>1, <2>1 DEF Builds
  <2> QED
    BY <1>4, <1>6, <2>1, <2>2
<1>10. InOrder(t.stack[1].siblings, OwnedTo(headings, n, 0))
  <2>1. 1 \in 1..K - 1 /\ s.stack # <<>>
    BY <1>1, StackFacts
  <2> QED
    BY <1>4, <2>1 DEF Builds
<1>11. \A k \in DOMAIN t.stack :
         k > 1 => InOrder(t.items[Open(t, k - 1)] \o t.stack[k].siblings,
                          OwnedTo(headings, n, Open(t, k - 1)))
  <2> SUFFICES ASSUME NEW k \in 1..K - 1, k > 1
               PROVE  InOrder(t.items[Open(t, k - 1)] \o t.stack[k].siblings,
                              OwnedTo(headings, n, Open(t, k - 1)))
    BY <1>5
  <2>1. k \in 1..K /\ k - 1 \in 1..K /\ k - 1 \in 1..K - 1 /\ k - 1 \in 1..(K - 1) - 1
    BY <1>1
  <2>2. Open(s, k - 1) < p /\ Open(s, k - 1) \in NamedTo(headings, n) /\ p \in NamedTo(headings, n)
    BY <1>1, <2>1 DEF Builds
  <2>3. Open(s, k - 1) # p /\ Open(s, k - 1) \in 1..n
    BY <1>2, <2>2
  <2>4. InOrder(s.items[Open(s, k - 1)] \o s.stack[k].siblings,
                OwnedTo(headings, n, Open(s, k - 1)))
    BY <1>1, <2>1 DEF Builds
  <2> HIDE DEF p
  <2>5. t.items[Open(s, k - 1)] = s.items[Open(s, k - 1)]
    BY <1>4, <2>3
  <2> QED
    BY <1>4, <1>6, <2>1, <2>4, <2>5
<1>12. \A i \in NamedTo(headings, n) :
         (\A k \in DOMAIN t.stack : k > 1 => i # Open(t, k - 1)) =>
           InOrder(t.items[i], OwnedTo(headings, n, i))
  <2> SUFFICES ASSUME NEW i \in NamedTo(headings, n),
                      \A k \in 1..K - 1 : k > 1 => i # Open(t, k - 1)
               PROVE  InOrder(t.items[i], OwnedTo(headings, n, i))
    BY <1>5
  <2>1. CASE i = p
    <3>1. InOrder(s.items[p] \o s.stack[K].siblings, OwnedTo(headings, n, p))
      BY <1>1 DEF Builds
    <3> QED
      BY <1>2, <1>4, <2>1, <3>1
  <2>2. CASE i # p
    <3>1. ASSUME NEW k \in DOMAIN s.stack, k > 1 PROVE i # Open(s, k - 1)
      <4>1. k = K \/ (k \in 1..K - 1 /\ k - 1 \in 1..K - 1)
        BY <1>1, <3>1
      <4> QED
        BY <1>6, <2>2, <3>1, <4>1
    <3>2. InOrder(s.items[i], OwnedTo(headings, n, i))
      BY <3>1 DEF Builds
    <3> QED
      BY <1>2, <1>4, <2>2, <3>2
  <2> QED
    BY <2>1, <2>2
<1>13. Builds(headings, t, n)
  BY <1>4, <1>8, <1>9, <1>10, <1>11, <1>12 DEF Builds
<1> QED
  BY <1>4, <1>13 DEF t

\* What is known when the next heading is read.
LEMMA NextFacts ==
  ASSUME NEW headings, Article(headings), NEW n \in Nat, n + 1 \in Named(headings)
  PROVE  /\ NamedTo(headings, n + 1) = NamedTo(headings, n) \cup {n + 1}
         /\ \A j \in NamedTo(headings, n) : j \in 1..n /\ j < n + 1 /\ headings[j].level \in 1..4
         /\ headings[n + 1].level \in 1..4
         /\ OwnedTo(headings, n + 1, n + 1) = {}
         /\ \A i : OwnedTo(headings, n, i) \subseteq NamedTo(headings, n)
<1>1. \A j \in NamedTo(headings, n) : j \in 1..n /\ j < n + 1 /\ headings[j].level \in 1..4
  BY NamedFacts DEF NamedTo
<1>2. NamedTo(headings, n + 1) = NamedTo(headings, n) \cup {n + 1}
  BY NamedFacts
<1>3. OwnedTo(headings, n + 1, n + 1) = {}
  <2> SUFFICES ASSUME NEW j \in NamedTo(headings, n + 1), n + 1 < j PROVE FALSE
    BY DEF OwnedTo, Owns
  <2> QED
    BY <1>1, <1>2
<1> QED
  BY <1>1, <1>2, <1>3, NamedFacts DEF OwnedTo

LEMMA InOrderNone == InOrder(<<>>, {})
BY DEF InOrder, Range

\* With the new heading on top, each heading so far has one open that covers it.
LEMMA CoversNext ==
  ASSUME NEW headings, Article(headings), NEW n \in Nat, n + 1 \in Named(headings),
         NEW s, NEW t, Covers(headings, s, n, headings[n + 1].level),
         NEW K \in DOMAIN t.stack, Open(t, K) = n + 1,
         t.stack[K].level = headings[n + 1].level,
         \A k \in DOMAIN s.stack :
           k # K => k \in DOMAIN t.stack /\ Open(t, k) = Open(s, k)
                    /\ t.stack[k].level = s.stack[k].level,
         K \in DOMAIN s.stack => s.stack[K].level = headings[n + 1].level
  PROVE  Covers(headings, t, n + 1, 5)
<1> DEFINE x == n + 1
           l == headings[x].level
<1>1. \A j \in NamedTo(headings, x) : j <= x /\ headings[j].level \in 1..4
  BY NextFacts, Reflexive
<1>2. l \in 1..4
  BY NextFacts
<1> SUFFICES ASSUME NEW j \in NamedTo(headings, x)
             PROVE  \E k \in DOMAIN t.stack :
                      Open(t, k) >= j /\ t.stack[k].level <= headings[j].level
  BY DEF Covers
<1>a. headings[j].level < l \/ l <= headings[j].level
  BY <1>1, <1>2
<1>3. CASE l <= headings[j].level
  <2> HIDE DEF l
  <2>1. Open(t, K) >= j
    BY <1>1
  <2>2. t.stack[K].level <= headings[j].level
    BY <1>3 DEF l
  <2> QED
    BY <2>1, <2>2
<1>4. CASE headings[j].level < l
  <2>1. j # x /\ j \in NamedTo(headings, n)
    BY <1>2, <1>4, NextFacts, Reflexive
  <2>2. PICK k \in DOMAIN s.stack : Open(s, k) >= j /\ s.stack[k].level <= headings[j].level
    BY <1>4, <2>1 DEF Covers
  <2>3. CASE k # K
    BY <2>2, <2>3
  <2>4. CASE k = K
    <3>1. s.stack[k].level = l
      BY <2>4
    <3>2. l <= headings[j].level
      BY <2>2, <3>1
    <3> QED
      BY <1>3, <3>2
  <2> QED
    BY <2>3, <2>4
<1> QED
  BY <1>3, <1>4, <1>a

LEMMA PushKeeps ==
  ASSUME NEW headings, Article(headings), NEW s, NEW n \in Nat, n + 1 \in Named(headings),
         Builds(headings, s, n), FirstIsLowest(headings, s, n),
         Covers(headings, s, n, headings[n + 1].level),
         s.stack # <<>> => s.stack[Len(s.stack)].level < headings[n + 1].level
  PROVE  LET t == Push(s, n + 1, headings[n + 1].level)
         IN  /\ t.error = s.error
             /\ Builds(headings, t, n + 1) /\ FirstIsLowest(headings, t, n + 1)
             /\ Covers(headings, t, n + 1, 5)
<1> DEFINE K == Len(s.stack)
           x == n + 1
           l == headings[x].level
           t == Push(s, x, l)
           o == IF K = 0 THEN 0 ELSE Open(s, K)
           frame == [level |-> l, siblings |-> <<x>>]
<1>1. /\ s \in Stacks /\ K \in Nat /\ DOMAIN s.stack = 1..K /\ (s.stack = <<>> <=> K = 0)
      /\ s.items \in Seq(Seq(Nat)) /\ Len(s.items) = n /\ DOMAIN s.items = 1..n
      /\ s.stack \in Seq(Frames)
      /\ \A k \in 1..K : s.stack[k].level \in 1..4
  BY StackFacts DEF Builds, Stacks
<1>2. /\ \A i \in NamedTo(headings, n) : i \in 1..n /\ i < x
      /\ l \in 1..4 /\ x \in Nat
      /\ NamedTo(headings, x) = NamedTo(headings, n) \cup {x}
  BY NextFacts
<1>3. /\ t \in Stacks /\ t.error = s.error /\ t.stack = Append(s.stack, frame)
      /\ t.items = Append(s.items, <<>>)
  BY <1>1, <1>2, PushIs, Zenon
<1>4. o \in 0..n /\ Owns(headings, o, x)
  <2>1. K \in 0..Len(s.stack) /\ (K > 0 => s.stack[K].level < headings[n + 1].level)
        /\ ~(K < Len(s.stack))
    BY <1>1
  <2> QED
    BY <2>1, OwnerIsOpen
<1> HIDE DEF t
<1>5. /\ Len(t.stack) = K + 1 /\ DOMAIN t.stack = 1..K + 1 /\ t.stack[K + 1] = frame
      /\ \A k \in 1..K : t.stack[k] = s.stack[k]
  BY <1>1, <1>3, StackFacts, AppendProperties
<1>6. /\ Len(t.items) = x /\ t.items[x] = <<>>
      /\ \A i \in 1..n : t.items[i] = s.items[i]
  BY <1>1, <1>3, AppendProperties
<1>7. /\ Open(t, K + 1) = x /\ t.stack[K + 1].level = l
      /\ \A k \in 1..K : Open(t, k) = Open(s, k)
  BY <1>5 DEF Open
<1>8. \A k \in 1..K : /\ Open(s, k) \in NamedTo(headings, n)
                      /\ headings[Open(s, k)].level = s.stack[k].level
  BY <1>1 DEF Builds
<1>9. \A m \in 1..K : \A k \in 1..m - 1 :
        s.stack[k].level < s.stack[m].level /\ Open(s, k) < Open(s, m)
  BY <1>1 DEF Builds
<1>a. \A k \in 1..K : s.stack[k].level < l
  <2> SUFFICES ASSUME NEW k \in 1..K PROVE s.stack[k].level < l
    OBVIOUS
  <2>1. s.stack[K].level < l /\ K \in 1..K /\ s.stack[K].level \in 1..4
    BY <1>1
  <2>2. k = K \/ k \in 1..K - 1
    BY <1>1
  <2>3. CASE k \in 1..K - 1
    <3>1. s.stack[k].level < s.stack[K].level
      BY <1>9, <2>1, <2>3
    <3> DEFINE a == s.stack[k].level
               b == s.stack[K].level
    <3>2. a \in Int /\ b \in Int /\ l \in Int /\ a < b /\ b < l
      BY <1>1, <1>2, <2>1, <3>1
    <3> HIDE DEF l, a, b
    <3>3. a < l
      BY <3>2
    <3> QED
      BY <3>3 DEF a
  <2> QED
    BY <2>1, <2>2, <2>3
<1>b. \A i \in Nat : OwnedTo(headings, x, i) =
        IF i = o THEN OwnedTo(headings, n, i) \cup {x} ELSE OwnedTo(headings, n, i)
  <2>1. o \in Nat /\ Owns(headings, o, n + 1) /\ n + 1 \in Named(headings)
    BY <1>4
  <2> HIDE DEF o
  <2>2. OwnedAlso(headings, n, o)
    BY <2>1, OwnedNext
  <2> QED
    BY <2>2, Zenon DEF OwnedAlso
<1>c. /\ K = 0 => o = 0 /\ NamedTo(headings, n) = {}
      /\ K # 0 => o = Open(s, K) /\ o \in 1..n /\ K \in 1..K
  BY <1>1, <1>2, <1>8 DEF FirstIsLowest
<1>d. \A i : OwnedTo(headings, n, i) \subseteq NamedTo(headings, n)
  BY NextFacts
<1>e. \A k \in 1..K + 1 : k = K + 1 \/ k \in 1..K
  BY <1>1
<1> HIDE DEF K, l, x, o, frame
<1>10. \A k \in DOMAIN t.stack : /\ Open(t, k) \in NamedTo(headings, x)
                                 /\ headings[Open(t, k)].level = t.stack[k].level
  <2> SUFFICES ASSUME NEW k \in 1..K + 1
               PROVE  /\ Open(t, k) \in NamedTo(headings, x)
                      /\ headings[Open(t, k)].level = t.stack[k].level
    BY <1>5
  <2> QED
    BY <1>2, <1>5, <1>7, <1>8, <1>e DEF l
<1>11. \A m \in DOMAIN t.stack : \A k \in 1..m - 1 :
         t.stack[k].level < t.stack[m].level /\ Open(t, k) < Open(t, m)
  <2> SUFFICES ASSUME NEW m \in 1..K + 1, NEW k \in 1..m - 1
               PROVE  t.stack[k].level < t.stack[m].level /\ Open(t, k) < Open(t, m)
    BY <1>5
  <2>1. k \in 1..K
    BY <1>1
  <2>2. CASE m = K + 1
    BY <1>2, <1>5, <1>7, <1>8, <1>a, <2>1, <2>2
  <2>3. CASE m \in 1..K
    BY <1>5, <1>7, <1>9, <2>1, <2>3
  <2> QED
    BY <1>e, <2>2, <2>3
<1>12. InOrder(t.stack[1].siblings, OwnedTo(headings, x, 0))
  <2>1. CASE K = 0
    <3>1. OwnedTo(headings, n, 0) = {} /\ OwnedTo(headings, x, 0) = {} \cup {x}
      BY <1>b, <1>c, <1>d, <2>1
    <3>2. InOrder(Append(<<>>, x), {} \cup {x})
      <4>1. <<>> \in Seq(Nat)
        OBVIOUS
      <4> QED
        BY <1>2, <4>1, InOrderNone, InOrderAppend
    <3>3. Append(<<>>, x) = <<x>> /\ t.stack[1].siblings = <<x>>
      BY <1>5, <2>1 DEF frame
    <3> QED
      BY <3>1, <3>2, <3>3
  <2>2. CASE K # 0
    <3>1. 1 \in 1..K /\ t.stack[1] = s.stack[1] /\ s.stack # <<>>
      BY <1>1, <1>5, <2>2
    <3>2. OwnedTo(headings, x, 0) = OwnedTo(headings, n, 0)
      BY <1>b, <1>c, <2>2
    <3> QED
      BY <3>1, <3>2 DEF Builds
  <2> QED
    BY <2>1, <2>2
<1>f. ASSUME NEW i \in NamedTo(headings, n), \A k \in 1..K : k > 1 => i # Open(s, k - 1)
      PROVE  InOrder(s.items[i], OwnedTo(headings, n, i))
  BY <1>1, <1>f DEF Builds
<1>13. \A k \in DOMAIN t.stack :
         k > 1 => InOrder(t.items[Open(t, k - 1)] \o t.stack[k].siblings,
                          OwnedTo(headings, x, Open(t, k - 1)))
  <2> SUFFICES ASSUME NEW k \in 1..K + 1, k > 1
               PROVE  InOrder(t.items[Open(t, k - 1)] \o t.stack[k].siblings,
                              OwnedTo(headings, x, Open(t, k - 1)))
    BY <1>5
  <2>1. k - 1 \in 1..K /\ Open(t, k - 1) = Open(s, k - 1) /\ Open(s, k - 1) \in NamedTo(headings, n)
    BY <1>1, <1>7, <1>8
  <2>2. Open(s, k - 1) \in 1..n
    BY <1>2, <2>1
  <2>3. CASE k = K + 1
    <3>1. K # 0 /\ k - 1 = K /\ o = Open(s, K) /\ K \in 1..K
      BY <1>1, <1>c, <2>1, <2>3
    <3>2. ASSUME NEW m \in 1..K, m > 1 PROVE o # Open(s, m - 1)
      <4>1. m - 1 \in 1..K - 1
        BY <1>1, <3>2
      <4>2. Open(s, m - 1) < Open(s, K)
        BY <1>9, <3>1, <4>1
      <4> QED
        BY <1>2, <1>8, <3>1, <4>1, <4>2, Reflexive
    <3>3. InOrder(s.items[o], OwnedTo(headings, n, o))
      BY <1>8, <1>f, <3>1, <3>2
    <3>4. s.items[o] \in Seq(Nat)
      BY <1>1, <1>c, <3>1
    <3>5. InOrder(Append(s.items[o], x), OwnedTo(headings, n, o) \cup {x})
      BY <1>2, <1>d, <3>3, <3>4, InOrderAppend
    <3>6. Append(s.items[o], x) = s.items[o] \o <<x>>
      BY <1>2, <3>4, AppendIsConcat
    <3>7. t.items[o] = s.items[o] /\ t.stack[k].siblings = <<x>>
      BY <1>5, <1>6, <1>c, <2>3, <3>1 DEF frame
    <3>8. OwnedTo(headings, x, o) = OwnedTo(headings, n, o) \cup {x}
      BY <1>4, <1>b
    <3> QED
      BY <2>1, <3>1, <3>5, <3>6, <3>7, <3>8
  <2>4. CASE k \in 1..K
    <3>1. K # 0 /\ K \in 1..K /\ k - 1 \in 1..K - 1
      BY <1>1, <2>1, <2>4
    <3>2. Open(s, k - 1) # o
      BY <1>2, <1>8, <1>9, <1>c, <3>1, Reflexive
    <3>3. InOrder(s.items[Open(s, k - 1)] \o s.stack[k].siblings,
                  OwnedTo(headings, n, Open(s, k - 1)))
      BY <1>1, <2>4 DEF Builds
    <3>4. OwnedTo(headings, x, Open(s, k - 1)) = OwnedTo(headings, n, Open(s, k - 1))
      BY <1>b, <2>2, <3>2
    <3> QED
      BY <1>5, <1>6, <2>1, <2>2, <2>4, <3>3, <3>4
  <2> QED
    BY <1>e, <2>3, <2>4
<1>14. \A i \in NamedTo(headings, x) :
         (\A k \in DOMAIN t.stack : k > 1 => i # Open(t, k - 1)) =>
           InOrder(t.items[i], OwnedTo(headings, x, i))
  <2> SUFFICES ASSUME NEW i \in NamedTo(headings, x),
                      \A k \in 1..K + 1 : k > 1 => i # Open(t, k - 1)
               PROVE  InOrder(t.items[i], OwnedTo(headings, x, i))
    BY <1>5
  <2>1. CASE i = x
    BY <1>6, <2>1, InOrderNone, NextFacts DEF x
  <2>2. CASE i \in NamedTo(headings, n)
    <3>1. i # o
      <4>1. K # 0 => K + 1 > 1 /\ K + 1 \in 1..K + 1 /\ (K + 1) - 1 = K
        BY <1>1
      <4> QED
        BY <1>2, <1>7, <1>c, <2>2, <4>1
    <3>2. ASSUME NEW k \in 1..K, k > 1 PROVE i # Open(s, k - 1)
      <4>1. k \in 1..K + 1 /\ k - 1 \in 1..K
        BY <1>1, <3>2
      <4> QED
        BY <1>7, <3>2, <4>1
    <3>3. InOrder(s.items[i], OwnedTo(headings, n, i))
      BY <1>f, <2>2, <3>2
    <3> QED
      BY <1>2, <1>6, <1>b, <2>2, <3>1, <3>3
  <2> QED
    BY <1>2, <2>1, <2>2
<1>15. Builds(headings, t, x)
  BY <1>3, <1>6, <1>10, <1>11, <1>12, <1>13, <1>14 DEF Builds
<1>16. FirstIsLowest(headings, t, x)
  <2>1. t.stack # <<>>
    BY <1>1, <1>5
  <2>2. CASE K = 0
    <3>1. NamedTo(headings, x) = {x} /\ t.stack[1].level = headings[x].level
      BY <1>2, <1>5, <1>c, <2>2 DEF frame, l
    <3> QED
      BY <1>2, <2>1, <3>1, Reflexive DEF FirstIsLowest, l
  <2>3. CASE K # 0
    <3>0. 1 \in 1..K /\ t.stack[1] = s.stack[1] /\ s.stack # <<>>
      BY <1>1, <1>5, <2>3
    <3>1. 1 \in 1..K /\ t.stack[1].level = s.stack[1].level /\ s.stack # <<>>
      BY <3>0
    <3>2. headings[x].level >= s.stack[1].level
      <4> DEFINE a == s.stack[1].level
      <4>1. a \in Int /\ l \in Int /\ a < l
        BY <1>1, <1>2, <1>a, <3>1
      <4> HIDE DEF a
      <4>2. l >= a
        BY <4>1
      <4> QED
        BY <4>2 DEF a, l
    <3>3. PICK f \in NamedTo(headings, n) : /\ headings[f].level = s.stack[1].level
                                            /\ \A j \in NamedTo(headings, n) : f <= j
      BY <3>1 DEF FirstIsLowest
    <3>4. f <= x
      BY <1>2
    <3>5. \A j \in NamedTo(headings, n) : headings[j].level >= s.stack[1].level
      BY <3>1 DEF FirstIsLowest
    <3> QED
      BY <1>2, <2>1, <3>1, <3>2, <3>3, <3>4, <3>5 DEF FirstIsLowest
  <2> QED
    BY <2>2, <2>3
<1>17. Covers(headings, t, x, 5)
  <2>1. K + 1 \in DOMAIN t.stack /\ Open(t, K + 1) = n + 1
        /\ t.stack[K + 1].level = headings[n + 1].level /\ K + 1 \notin DOMAIN s.stack
    BY <1>1, <1>5, <1>7 DEF x, l
  <2>2. \A k \in DOMAIN s.stack :
          k # K + 1 => k \in DOMAIN t.stack /\ Open(t, k) = Open(s, k)
                       /\ t.stack[k].level = s.stack[k].level
    BY <1>1, <1>5, <1>7
  <2>3. Covers(headings, t, n + 1, 5)
    BY <2>1, <2>2, CoversNext
  <2> QED
    BY <2>3 DEF x
<1> QED
  BY <1>3, <1>15, <1>16, <1>17 DEF t, x, l

LEMMA ConcatNat ==
  ASSUME NEW a \in Seq(Nat), NEW b \in Seq(Nat), NEW c \in Seq(Nat)
  PROVE  (a \o b) \o c = a \o (b \o c)
BY ConcatAssociative, SMTT(30)

LEMMA BesideKeeps ==
  ASSUME NEW headings, Article(headings), NEW s, NEW n \in Nat, n + 1 \in Named(headings),
         Builds(headings, s, n), FirstIsLowest(headings, s, n),
         Covers(headings, s, n, headings[n + 1].level),
         Len(s.stack) > 0, s.stack[Len(s.stack)].level = headings[n + 1].level
  PROVE  LET t == Beside(s, n + 1)
         IN  /\ t.error = s.error
             /\ Builds(headings, t, n + 1) /\ FirstIsLowest(headings, t, n + 1)
             /\ Covers(headings, t, n + 1, 5)
<1> DEFINE K == Len(s.stack)
           x == n + 1
           l == headings[x].level
           t == Beside(s, x)
           o == IF K - 1 = 0 THEN 0 ELSE Open(s, K - 1)
           sib == s.stack[K].siblings
<1>1. /\ s \in Stacks /\ K \in Nat /\ K > 0 /\ DOMAIN s.stack = 1..K /\ s.stack # <<>>
      /\ s.items \in Seq(Seq(Nat)) /\ Len(s.items) = n /\ DOMAIN s.items = 1..n
      /\ s.stack \in Seq(Frames)
      /\ \A k \in 1..K : s.stack[k].level \in 1..4
  BY StackFacts DEF Builds, Stacks
<1>2. /\ \A i \in NamedTo(headings, n) : i \in 1..n /\ i < x
      /\ l \in 1..4 /\ x \in Nat
      /\ NamedTo(headings, x) = NamedTo(headings, n) \cup {x}
  BY NextFacts
<1>9. \A m \in 1..K : \A k \in 1..m - 1 :
        s.stack[k].level < s.stack[m].level /\ Open(s, k) < Open(s, m)
  BY <1>1 DEF Builds
<1>0. K \in 1..K /\ K - 1 \in 0..K /\ (K - 1) + 1 = K
      /\ (K - 1 # 0 => K - 1 \in 1..K /\ K - 1 \in 1..K - 1)
  <2> HIDE DEF K
  <2> QED
    BY <1>1
<1>4. o \in 0..n /\ Owns(headings, o, x)
  <2>1. s.stack[K].level = headings[n + 1].level
    OBVIOUS
  <2>2. K - 1 > 0 => s.stack[K - 1].level < headings[n + 1].level
    BY <1>0, <1>9, <2>1
  <2>3. s.stack[(K - 1) + 1].level >= headings[n + 1].level
    <3> HIDE DEF K
    <3> QED
      BY <1>0, <1>2, <2>1, Reflexive
  <2> QED
    BY <1>0, <2>2, <2>3, OwnerIsOpen
<1>3. /\ t \in Stacks /\ t.error = s.error /\ Len(t.stack) = K
      /\ \A k \in 1..K - 1 : t.stack[k] = s.stack[k]
      /\ t.stack[K].level = l
      /\ t.stack[K].siblings = Append(sib, x)
      /\ t.items = Append(s.items, <<>>)
  BY <1>1, <1>2, BesideIs
<1>s. sib \in Seq(Nat)
  BY <1>0, <1>1, StackFacts
<1> HIDE DEF t
<1>5. DOMAIN t.stack = 1..K
  BY <1>1, <1>3, StackFacts
<1>6. /\ Len(t.items) = x /\ t.items[x] = <<>>
      /\ \A i \in 1..n : t.items[i] = s.items[i]
  BY <1>1, <1>3, AppendProperties
<1>7. /\ Open(t, K) = x
      /\ \A k \in 1..K - 1 : Open(t, k) = Open(s, k)
  <2>1. Append(sib, x)[Len(Append(sib, x))] = x
    BY <1>2, <1>s, AppendProperties
  <2> HIDE DEF K, x, sib
  <2> QED
    BY <1>3, <2>1 DEF Open
<1>8. \A k \in 1..K : /\ Open(s, k) \in NamedTo(headings, n)
                      /\ headings[Open(s, k)].level = s.stack[k].level
  BY <1>1 DEF Builds
<1>b. \A i \in Nat : OwnedTo(headings, x, i) =
        IF i = o THEN OwnedTo(headings, n, i) \cup {x} ELSE OwnedTo(headings, n, i)
  <2>1. o \in Nat /\ Owns(headings, o, n + 1) /\ n + 1 \in Named(headings)
    BY <1>4
  <2> HIDE DEF o
  <2>2. OwnedAlso(headings, n, o)
    BY <2>1, OwnedNext
  <2> QED
    BY <2>2, Zenon DEF OwnedAlso
<1>c. /\ K = 1 => o = 0
      /\ K # 1 => o = Open(s, K - 1) /\ o \in 1..n /\ K - 1 \in 1..K - 1 /\ K - 1 \in 1..K
  BY <1>0, <1>1, <1>2, <1>8, SMTT(30)
<1>d. \A i : OwnedTo(headings, n, i) \subseteq NamedTo(headings, n)
  BY NextFacts
<1>e. \A k \in 1..K : k = K \/ k \in 1..K - 1
  BY <1>1
<1>g. \A k \in 1..K : t.stack[k].level = s.stack[k].level
  <2>1. t.stack[K].level = s.stack[K].level
    BY <1>3
  <2> HIDE DEF K
  <2> QED
    BY <1>3, <1>e, <2>1
<1>h. s.stack[K].level = l
  OBVIOUS
<1> HIDE DEF K, l, x, o, sib
<1>10. \A k \in DOMAIN t.stack : /\ Open(t, k) \in NamedTo(headings, x)
                                 /\ headings[Open(t, k)].level = t.stack[k].level
  <2> SUFFICES ASSUME NEW k \in 1..K
               PROVE  /\ Open(t, k) \in NamedTo(headings, x)
                      /\ headings[Open(t, k)].level = t.stack[k].level
    BY <1>5
  <2> QED
    BY <1>2, <1>3, <1>7, <1>8, <1>e DEF l
<1>11. \A m \in DOMAIN t.stack : \A k \in 1..m - 1 :
         t.stack[k].level < t.stack[m].level /\ Open(t, k) < Open(t, m)
  <2> SUFFICES ASSUME NEW m \in 1..K, NEW k \in 1..m - 1
               PROVE  t.stack[k].level < t.stack[m].level /\ Open(t, k) < Open(t, m)
    BY <1>5
  <2>1. k \in 1..K /\ k \in 1..K - 1
    BY <1>1
  <2>2. t.stack[k].level < t.stack[m].level
    BY <1>9, <1>g, <2>1
  <2>3. Open(t, k) < Open(t, m)
    BY <1>2, <1>7, <1>8, <1>9, <1>e, <2>1
  <2> QED
    BY <2>2, <2>3
<1>i. \A i \in Nat : \A j \in OwnedTo(headings, n, i) : j < x
  BY <1>2, <1>d
<1>12. InOrder(t.stack[1].siblings, OwnedTo(headings, x, 0))
  <2>1. InOrder(s.stack[1].siblings, OwnedTo(headings, n, 0))
    BY <1>1 DEF Builds
  <2>2. CASE K = 1
    <3>1. InOrder(Append(sib, x), OwnedTo(headings, n, 0) \cup {x})
      <4>1. InOrder(sib, OwnedTo(headings, n, 0))
        BY <2>1, <2>2 DEF sib
      <4> QED
        BY <1>2, <1>i, <1>s, <4>1, InOrderAppend
    <3> QED
      BY <1>3, <1>b, <1>c, <2>2, <3>1
  <2>3. CASE K # 1
    <3>1. 1 \in 1..K - 1
      BY <1>1, <2>3
    <3>2. t.stack[1] = s.stack[1]
      BY <1>3, <3>1
    <3>3. OwnedTo(headings, x, 0) = OwnedTo(headings, n, 0)
      BY <1>b, <1>c, <2>3
    <3> QED
      BY <2>1, <3>2, <3>3
  <2> QED
    BY <2>2, <2>3
<1>13. \A k \in DOMAIN t.stack :
         k > 1 => InOrder(t.items[Open(t, k - 1)] \o t.stack[k].siblings,
                          OwnedTo(headings, x, Open(t, k - 1)))
  <2> SUFFICES ASSUME NEW k \in 1..K, k > 1
               PROVE  InOrder(t.items[Open(t, k - 1)] \o t.stack[k].siblings,
                              OwnedTo(headings, x, Open(t, k - 1)))
    BY <1>5
  <2>1. k - 1 \in 1..K /\ k - 1 \in 1..K - 1
    BY <1>1
  <2>2. Open(s, k - 1) \in 1..n /\ Open(t, k - 1) = Open(s, k - 1)
    BY <1>2, <1>7, <1>8, <2>1
  <2>3. InOrder(s.items[Open(s, k - 1)] \o s.stack[k].siblings,
                OwnedTo(headings, n, Open(s, k - 1)))
    BY <1>1 DEF Builds
  <2>4. CASE k = K
    <3>1. K # 1 /\ o = Open(s, k - 1)
      BY <1>c, <2>4
    <3>2. s.items[o] \in Seq(Nat)
      BY <1>1, <1>c, <3>1
    <3>3. InOrder(Append(s.items[o] \o sib, x), OwnedTo(headings, n, o) \cup {x})
      <4>1. s.items[o] \o sib \in Seq(Nat) /\ o \in Nat
        BY <1>4, <1>s, <3>2, ConcatProperties
      <4>2. InOrder(s.items[o] \o sib, OwnedTo(headings, n, o))
        BY <2>3, <2>4, <3>1 DEF sib
      <4> QED
        BY <1>2, <1>i, <4>1, <4>2, InOrderAppend
    <3>4. Append(s.items[o] \o sib, x) = s.items[o] \o Append(sib, x)
      <4>1. s.items[o] \o sib \in Seq(Nat) /\ <<x>> \in Seq(Nat)
        BY <1>2, <1>s, <3>2, ConcatProperties
      <4>2. Append(s.items[o] \o sib, x) = (s.items[o] \o sib) \o <<x>>
        BY <1>2, <4>1, AppendIsConcat
      <4>3. Append(sib, x) = sib \o <<x>>
        BY <1>2, <1>s, AppendIsConcat
      <4>4. (s.items[o] \o sib) \o <<x>> = s.items[o] \o (sib \o <<x>>)
        <5> DEFINE a == s.items[o]
                   b == <<x>>
        <5>1. a \in Seq(Nat) /\ b \in Seq(Nat)
          BY <3>2, <4>1
        <5> HIDE DEF a, b
        <5>2. (a \o sib) \o b = a \o (sib \o b)
          BY <1>s, <5>1, ConcatNat
        <5> QED
          BY <5>2 DEF a, b
      <4> QED
        BY <4>2, <4>3, <4>4
    <3>5. t.items[o] = s.items[o] /\ t.stack[k].siblings = Append(sib, x)
      BY <1>3, <1>6, <1>c, <2>4, <3>1
    <3>6. OwnedTo(headings, x, o) = OwnedTo(headings, n, o) \cup {x}
      BY <1>4, <1>b
    <3> QED
      BY <2>2, <3>1, <3>3, <3>4, <3>5, <3>6
  <2>5. CASE k \in 1..K - 1
    <3>1. K # 1 /\ k - 1 \in 1..(K - 1) - 1
      BY <1>1, <2>5
    <3>2. Open(s, k - 1) # o
      <4>1. Open(s, k - 1) < Open(s, K - 1)
        BY <1>9, <1>c, <3>1
      <4> QED
        BY <1>c, <2>2, <3>1, <4>1
    <3>3. OwnedTo(headings, x, Open(s, k - 1)) = OwnedTo(headings, n, Open(s, k - 1))
      BY <1>b, <2>2, <3>2
    <3> QED
      BY <1>3, <1>6, <2>2, <2>3, <2>5, <3>3
  <2> QED
    BY <1>e, <2>4, <2>5
<1>14. \A i \in NamedTo(headings, x) :
         (\A k \in DOMAIN t.stack : k > 1 => i # Open(t, k - 1)) =>
           InOrder(t.items[i], OwnedTo(headings, x, i))
  <2> SUFFICES ASSUME NEW i \in NamedTo(headings, x),
                      \A k \in 1..K : k > 1 => i # Open(t, k - 1)
               PROVE  InOrder(t.items[i], OwnedTo(headings, x, i))
    BY <1>5
  <2>1. CASE i = x
    BY <1>6, <2>1, InOrderNone, NextFacts DEF x
  <2>2. CASE i \in NamedTo(headings, n)
    <3>2. ASSUME NEW k \in 1..K, k > 1 PROVE i # Open(s, k - 1)
      <4>1. k - 1 \in 1..K - 1
        BY <1>1, <3>2
      <4> QED
        BY <1>7, <3>2, <4>1
    <3>1. i # o
      <4>1. K # 1 => K > 1 /\ K \in 1..K
        BY <1>1
      <4> QED
        BY <1>2, <1>c, <2>2, <3>2, <4>1
    <3>3. InOrder(s.items[i], OwnedTo(headings, n, i))
      BY <1>1, <2>2, <3>2 DEF Builds
    <3> QED
      BY <1>2, <1>6, <1>b, <2>2, <3>1, <3>3
  <2> QED
    BY <1>2, <2>1, <2>2
<1>15. Builds(headings, t, x)
  BY <1>3, <1>6, <1>10, <1>11, <1>12, <1>13, <1>14 DEF Builds
<1>16. FirstIsLowest(headings, t, x)
  <2>1. t.stack # <<>> /\ 1 \in 1..K
    BY <1>0, <1>1, <1>3, StackFacts
  <2>2. t.stack[1].level = s.stack[1].level
    BY <1>g, <2>1
  <2>3. headings[x].level >= s.stack[1].level
    <3> DEFINE a == s.stack[1].level
    <3>1. a \in Int /\ l \in Int /\ (a < l \/ a = l)
      <4>1. K = 1 \/ 1 \in 1..K - 1
        BY <1>1
      <4>2. a < s.stack[K].level \/ a = s.stack[K].level
        BY <1>0, <1>9, <4>1
      <4>3. a \in 1..4
        BY <1>1, <2>1
      <4> QED
        BY <1>2, <1>h, <4>2, <4>3
    <3> HIDE DEF a
    <3>2. l >= a
      BY <3>1
    <3> QED
      BY <3>2 DEF a, l
  <2>4. PICK f \in NamedTo(headings, n) : /\ headings[f].level = s.stack[1].level
                                          /\ \A j \in NamedTo(headings, n) : f <= j
    BY <1>1 DEF FirstIsLowest
  <2>5. f <= x
    BY <1>2
  <2>6. \A j \in NamedTo(headings, n) : headings[j].level >= s.stack[1].level
    BY <1>1 DEF FirstIsLowest
  <2> QED
    BY <1>2, <2>1, <2>2, <2>3, <2>4, <2>5, <2>6 DEF FirstIsLowest
<1>17. Covers(headings, t, x, 5)
  <2>1. K \in DOMAIN t.stack /\ Open(t, K) = n + 1
        /\ t.stack[K].level = headings[n + 1].level
        /\ s.stack[K].level = headings[n + 1].level
    BY <1>0, <1>3, <1>5, <1>7, <1>h DEF x, l
  <2>2. \A k \in DOMAIN s.stack :
          k # K => k \in DOMAIN t.stack /\ Open(t, k) = Open(s, k)
                   /\ t.stack[k].level = s.stack[k].level
    BY <1>1, <1>5, <1>7, <1>e, <1>g
  <2>3. Covers(headings, t, n + 1, 5)
    BY <2>1, <2>2, CoversNext
  <2> QED
    BY <2>3 DEF x
<1> QED
  BY <1>3, <1>15, <1>16, <1>17 DEF t, x, l

\* A heading without an id changes nothing but where it stands.
LEMMA SkipKeeps ==
  ASSUME NEW headings, Article(headings), NEW s, NEW n \in Nat, n + 1 \notin Named(headings),
         Builds(headings, s, n), FirstIsLowest(headings, s, n), Covers(headings, s, n, 5)
  PROVE  LET t == [s EXCEPT !.items = Append(@, <<>>)]
         IN  /\ t.error = s.error
             /\ Builds(headings, t, n + 1) /\ FirstIsLowest(headings, t, n + 1)
             /\ Covers(headings, t, n + 1, 5)
<1> DEFINE t == [s EXCEPT !.items = Append(@, <<>>)]
           items == Append(s.items, <<>>)
           x == n + 1
<1>1. /\ s \in Stacks /\ s.items \in Seq(Seq(Nat)) /\ Len(s.items) = n
  BY DEF Builds, Stacks
<1>2. items \in Seq(Seq(Nat)) /\ Len(items) = x /\ \A i \in 1..n : items[i] = s.items[i]
  <2>1. <<>> \in Seq(Nat)
    OBVIOUS
  <2> QED
    BY <1>1, <2>1, AppendProperties
<1> HIDE DEF items
<1>3. t \in Stacks /\ t.stack = s.stack /\ t.items = items /\ t.error = s.error
  BY <1>1, <1>2 DEF Stacks, items
<1>4. /\ NamedTo(headings, x) = NamedTo(headings, n)
      /\ \A i : OwnedTo(headings, x, i) = OwnedTo(headings, n, i)
      /\ \A j \in NamedTo(headings, n) : j \in 1..n
  BY OwnedBefore, NamedFacts DEF NamedTo
<1>5. \A k \in DOMAIN s.stack : k \in Nat /\ Open(s, k) \in NamedTo(headings, n)
  BY <1>1, StackFacts DEF Builds
<1>6. \A k \in DOMAIN s.stack : k > 1 => k - 1 \in DOMAIN s.stack
  BY <1>1, StackFacts
<1> HIDE DEF t, x
<1>7. \A k : Open(t, k) = Open(s, k)
  BY <1>3 DEF Open
<1>8. ASSUME NEW k \in DOMAIN s.stack, k > 1
      PROVE  InOrder(items[Open(s, k - 1)] \o s.stack[k].siblings,
                     OwnedTo(headings, n, Open(s, k - 1)))
  <2>1. Open(s, k - 1) \in 1..n
    BY <1>4, <1>5, <1>6, <1>8
  <2>2. InOrder(s.items[Open(s, k - 1)] \o s.stack[k].siblings,
                OwnedTo(headings, n, Open(s, k - 1)))
    BY <1>8 DEF Builds
  <2> QED
    BY <1>2, <2>1, <2>2
<1>9. ASSUME NEW i \in NamedTo(headings, n),
             \A k \in DOMAIN s.stack : k > 1 => i # Open(s, k - 1)
      PROVE  InOrder(items[i], OwnedTo(headings, n, i))
  BY <1>2, <1>4, <1>9 DEF Builds
<1>10. \A m \in DOMAIN s.stack : \A k \in 1..m - 1 :
         s.stack[k].level < s.stack[m].level /\ Open(s, k) < Open(s, m)
  BY DEF Builds
<1>11. /\ \A k \in DOMAIN s.stack : headings[Open(s, k)].level = s.stack[k].level
       /\ s.stack # <<>> => InOrder(s.stack[1].siblings, OwnedTo(headings, n, 0))
  BY DEF Builds
<1>12. Builds(headings, t, x)
  BY <1>2, <1>3, <1>4, <1>5, <1>7, <1>8, <1>9, <1>10, <1>11 DEF Builds
<1>13. FirstIsLowest(headings, t, x)
  BY <1>3, <1>4 DEF FirstIsLowest
<1>14. Covers(headings, t, x, 5)
  BY <1>3, <1>4, <1>7 DEF Covers
<1> QED
  BY <1>3, <1>12, <1>13, <1>14 DEF t, x

\* The level is above that of the first heading.
AboveFirst(headings, n, level) ==
  \E first \in NamedTo(headings, n) :
    level < headings[first].level /\ \A k \in NamedTo(headings, n) : first <= k

\* What the loop that pops frames keeps, and after k rounds has reached.
Popping(headings, n, level, size, k, s) ==
  \/ s.error = TRUE /\ AboveFirst(headings, n, level)
  \/ /\ s.error = FALSE /\ s.stack # <<>>
     /\ Builds(headings, s, n) /\ FirstIsLowest(headings, s, n) /\ Covers(headings, s, n, level)
     /\ s.stack[Len(s.stack)].level <= level \/ Len(s.stack) = size - k

LEMMA PopKeeps ==
  ASSUME NEW headings, Article(headings), NEW n \in Nat, NEW level \in 1..4, NEW size \in Nat,
         NEW k \in Nat, NEW s, Popping(headings, n, level, size, k, s)
  PROVE  Popping(headings, n, level, size, k + 1, Pop(s, level))
<1>1. CASE s.error = TRUE
  BY <1>1 DEF Popping, Pop
<1>2. CASE s.error = FALSE
  <2> DEFINE K == Len(s.stack)
             top == s.stack[K].level
  <2>1. /\ s.stack # <<>> /\ Builds(headings, s, n) /\ FirstIsLowest(headings, s, n)
        /\ Covers(headings, s, n, level) /\ (top <= level \/ K = size - k)
    BY <1>2 DEF Popping
  <2>2. /\ s \in Stacks /\ K \in Nat /\ K # 0 /\ DOMAIN s.stack = 1..K
        /\ \A m \in 1..K : s.stack[m].level \in 1..4
    BY <2>1, StackFacts DEF Builds
  <2>3. K \in 1..K /\ 1 \in 1..K /\ Last(s.stack) = s.stack[K]
    BY <2>2 DEF Last
  <2>4. top \in 1..4 /\ Last(s.stack).level = top
    BY <2>2, <2>3
  <2>5. CASE top <= level
    <3>1. Pop(s, level) = s
      BY <2>4, <2>5 DEF Pop
    <3> QED
      BY <1>2, <2>1, <2>5, <3>1 DEF Popping
  <2>6. CASE level < top /\ K = 1
    <3>1. Pop(s, level) = [s EXCEPT !.error = TRUE]
      <4>1. ~(level >= top)
        BY <2>4, <2>6
      <4> QED
        BY <1>2, <2>4, <2>6, <4>1 DEF Pop
    <3>2. Pop(s, level).error = TRUE
      BY <2>2, <3>1 DEF Stacks
    <3>3. AboveFirst(headings, n, level)
      BY <2>1, <2>6 DEF FirstIsLowest, AboveFirst
    <3> QED
      BY <3>2, <3>3 DEF Popping
  <2>7. CASE level < top /\ K # 1
    <3> DEFINE t == BuildParent(s)
    <3>1. Pop(s, level) = t
      <4>1. ~(level >= top)
        BY <2>4, <2>7
      <4> QED
        BY <1>2, <2>4, <2>7, <4>1 DEF Pop
    <3>2. /\ Builds(headings, t, n) /\ t.error = FALSE /\ Len(t.stack) = K - 1
          /\ \A m \in 1..K - 1 : t.stack[m] = s.stack[m]
      <4>1. K > 1
        <5> HIDE DEF K
        <5> QED
          BY <2>2, <2>7
      <4> QED
        BY <1>2, <2>1, <4>1, BuildKeeps
    <3> HIDE DEF t
    <3>3. /\ t.stack # <<>> /\ DOMAIN t.stack = 1..K - 1 /\ 1 \in 1..K - 1
          /\ K - 1 = size - (k + 1)
      <4>1. t \in Stacks
        BY <3>2 DEF Builds
      <4>2. K = size - k
        BY <2>1, <2>4, <2>7
      <4> HIDE DEF K
      <4> QED
        BY <2>2, <2>7, <3>2, <4>1, <4>2, StackFacts
    <3>4. FirstIsLowest(headings, t, n)
      <4>1. t.stack[1] = s.stack[1]
        BY <3>2, <3>3
      <4> QED
        BY <2>1, <3>3, <4>1 DEF FirstIsLowest
    <3>5. Covers(headings, t, n, level)
      <4> SUFFICES ASSUME NEW j \in NamedTo(headings, n), headings[j].level < level
                   PROVE  \E m \in DOMAIN t.stack :
                            Open(t, m) >= j /\ t.stack[m].level <= headings[j].level
        BY DEF Covers
      <4>1. PICK m \in 1..K : Open(s, m) >= j /\ s.stack[m].level <= headings[j].level
        BY <2>1, <2>2 DEF Covers
      <4>2. headings[j].level \in 1..4
        BY NamedFacts DEF NamedTo
      <4>3. m # K
        <5> SUFFICES ASSUME m = K PROVE FALSE
          OBVIOUS
        <5> DEFINE a == headings[j].level
        <5>1. top <= a /\ a < level /\ level < top /\ a \in 1..4
          BY <2>7, <4>1, <4>2
        <5> HIDE DEF a, top
        <5> QED
          BY <2>4, <5>1
      <4>4. m \in 1..K - 1
        <5> HIDE DEF K
        <5> QED
          BY <2>2, <4>1, <4>3
      <4>5. t.stack[m] = s.stack[m] /\ Open(t, m) = Open(s, m)
        BY <3>2, <4>4 DEF Open
      <4> QED
        BY <3>3, <4>1, <4>4, <4>5
    <3> QED
      BY <3>1, <3>2, <3>3, <3>4, <3>5 DEF Popping
  <2> QED
    <3> HIDE DEF top, K
    <3> QED
      BY <2>4, <2>5, <2>6, <2>7
<1> QED
  BY <1>1, <1>2 DEF Popping

LEMMA CoversBelow ==
  ASSUME NEW headings, Article(headings), NEW s, NEW n, NEW level \in 1..4,
         Covers(headings, s, n, 5)
  PROVE  Covers(headings, s, n, level)
<1>1. \A j \in NamedTo(headings, n) : headings[j].level < 5
  <2>1. \A j \in NamedTo(headings, n) : headings[j].level \in 1..4
    BY NamedFacts DEF NamedTo
  <2> QED
    BY <2>1
<1> QED
  BY <1>1 DEF Covers

LEMMA PopToKeeps ==
  ASSUME NEW headings, Article(headings), NEW n \in Nat, NEW level \in 1..4, NEW s,
         s.error = FALSE, s.stack # <<>>,
         Builds(headings, s, n), FirstIsLowest(headings, s, n), Covers(headings, s, n, 5)
  PROVE  Popping(headings, n, level, Len(s.stack), Len(s.stack), PopTo(s, level))
<1> DEFINE K == Len(s.stack)
           pop[k \in 0..K] == IF k = 0 THEN s ELSE Pop(pop[k - 1], level)
           T == {k \in 0..K : Popping(headings, n, level, K, k, pop[k])}
<1>1. K \in Nat
  BY StackFacts DEF Builds
<1>2. \A k \in 0..K : pop[k] = IF k = 0 THEN s ELSE Pop(pop[k - 1], level)
  <2>1. pop = [k \in 0..K |-> IF k = 0 THEN s ELSE Pop(pop[k - 1], level)]
    BY <1>1, PoppingSolves
  <2> HIDE DEF pop
  <2> QED
    BY <2>1
<1>3. PopTo(s, level) = pop[K]
  BY DEF PopTo
<1> HIDE DEF pop
<1>4. Popping(headings, n, level, K, 0, s)
  <2>1. K = K - 0
    <3> HIDE DEF K
    <3> QED
      BY <1>1
  <2> QED
    BY <2>1, CoversBelow DEF Popping
<1> HIDE DEF K
<1>5. ASSUME NEW k \in 0..K, \A j \in 0..K : j < k => j \in T
      PROVE  k \in T
  <2>1. CASE k = 0
    BY <1>1, <1>2, <1>4, <2>1
  <2>2. CASE k # 0
    <3>1. k - 1 \in 0..K /\ k - 1 < k /\ k - 1 \in Nat /\ (k - 1) + 1 = k
      BY <1>1, <2>2
    <3>2. Popping(headings, n, level, K, k - 1, pop[k - 1])
      BY <1>5, <3>1
    <3>3. Popping(headings, n, level, K, (k - 1) + 1, Pop(pop[k - 1], level))
      BY <1>1, <3>1, <3>2, PopKeeps
    <3> QED
      BY <1>2, <2>2, <3>1, <3>3
  <2> QED
    BY <2>1, <2>2
<1> HIDE DEF T
<1>6. \A k \in 0..K : k \in T
  BY <1>1, <1>5, UpTo
<1>7. K \in T
  BY <1>1, <1>6
<1> QED
  BY <1>3, <1>7 DEF T, K

-------------------------------------------------------------------------------
\* RisesAbove, of the first n headings.
RisesTo(headings, n) ==
  \E i, first \in NamedTo(headings, n) :
    headings[i].level < headings[first].level
      /\ \A k \in NamedTo(headings, n) : first <= k

\* What the loop through the headings keeps.
ReadSoFar(headings, n, s) ==
  \/ s.error = TRUE /\ RisesTo(headings, n)
  \/ /\ s.error = FALSE
     /\ Builds(headings, s, n) /\ FirstIsLowest(headings, s, n) /\ Covers(headings, s, n, 5)

LEMMA RisesOn ==
  ASSUME NEW headings, Article(headings), NEW n \in Nat
  PROVE  /\ RisesTo(headings, n) => RisesTo(headings, n + 1)
         /\ n + 1 \in Named(headings) /\ AboveFirst(headings, n, headings[n + 1].level)
              => RisesTo(headings, n + 1)
<1>1. \A j \in NamedTo(headings, n) : j <= n + 1 /\ j \in Nat
  BY NamedFacts DEF NamedTo
<1>2. NamedTo(headings, n + 1) \in {NamedTo(headings, n), NamedTo(headings, n) \cup {n + 1}}
  BY NamedFacts
<1>3. ASSUME RisesTo(headings, n) PROVE RisesTo(headings, n + 1)
  BY <1>1, <1>2, <1>3 DEF RisesTo
<1>4. ASSUME n + 1 \in Named(headings), AboveFirst(headings, n, headings[n + 1].level)
      PROVE  RisesTo(headings, n + 1)
  <2>1. n + 1 \in NamedTo(headings, n + 1) /\ NamedTo(headings, n) \subseteq NamedTo(headings, n + 1)
    BY <1>4, NamedFacts
  <2> QED
    BY <1>1, <1>2, <1>4, <2>1 DEF RisesTo, AboveFirst
<1> QED
  BY <1>3, <1>4

LEMMA AddKeeps ==
  ASSUME NEW headings, Article(headings), NEW n \in Nat, n + 1 \in 1..Len(headings),
         NEW s, ReadSoFar(headings, n, s)
  PROVE  ReadSoFar(headings, n + 1, AddHeading(s, n + 1, headings[n + 1]))
<1> DEFINE x == n + 1
           l == headings[x].level
           popped == PopTo(s, l)
<1>1. CASE s.error = TRUE
  <2>1. AddHeading(s, x, headings[x]) = s /\ RisesTo(headings, x)
    BY <1>1, RisesOn DEF AddHeading, ReadSoFar
  <2> QED
    BY <1>1, <2>1 DEF ReadSoFar
<1>2. CASE s.error = FALSE
  <2>1. Builds(headings, s, n) /\ FirstIsLowest(headings, s, n) /\ Covers(headings, s, n, 5)
    BY <1>2 DEF ReadSoFar
  <2>2. x \in Named(headings) <=> headings[x].id
    BY DEF Named, Article
  <2>3. CASE x \notin Named(headings)
    <3>1. AddHeading(s, x, headings[x]) = [s EXCEPT !.items = Append(@, <<>>)]
      BY <1>2, <2>2, <2>3 DEF AddHeading, Place
    <3>2. LET t == [s EXCEPT !.items = Append(@, <<>>)]
          IN  /\ t.error = s.error
              /\ Builds(headings, t, x) /\ FirstIsLowest(headings, t, x)
              /\ Covers(headings, t, x, 5)
      BY <2>1, <2>3, SkipKeeps
    <3> DEFINE t == [s EXCEPT !.items = Append(@, <<>>)]
    <3>3. AddHeading(s, x, headings[x]) = t
      BY <3>1
    <3>4. /\ t.error = FALSE /\ Builds(headings, t, x) /\ FirstIsLowest(headings, t, x)
          /\ Covers(headings, t, x, 5)
      BY <1>2, <3>2
    <3> HIDE DEF t
    <3> QED
      BY <3>3, <3>4 DEF ReadSoFar
  <2>4. CASE x \in Named(headings)
    <3>1. l \in 1..4
      BY <2>4, NamedFacts
    <3>2. CASE s.stack = <<>>
      <4>1. AddHeading(s, x, headings[x]) = Push(s, x, l)
        BY <1>2, <2>2, <2>4, <3>2 DEF AddHeading, Place
      <4>2. Covers(headings, s, n, l)
        BY <2>1, <3>1, CoversBelow
      <4>3. LET t == Push(s, x, l)
            IN  /\ t.error = s.error
                /\ Builds(headings, t, x) /\ FirstIsLowest(headings, t, x)
                /\ Covers(headings, t, x, 5)
        BY <2>1, <2>4, <3>2, <4>2, PushKeeps
      <4> QED
        BY <1>2, <4>1, <4>3 DEF ReadSoFar
    <3>3. CASE s.stack # <<>>
      <4>1. Popping(headings, n, l, Len(s.stack), Len(s.stack), popped)
        BY <1>2, <2>1, <3>1, <3>3, PopToKeeps
      <4>2. CASE popped.error = TRUE
        <5>1. AddHeading(s, x, headings[x]) = popped
          BY <1>2, <2>2, <2>4, <3>3, <4>2 DEF AddHeading, Place
        <5>2. RisesTo(headings, x)
          BY <2>4, <4>1, <4>2, RisesOn DEF Popping
        <5> QED
          BY <4>2, <5>1, <5>2 DEF ReadSoFar
      <4>3. CASE popped.error = FALSE
        <5> DEFINE K == Len(popped.stack)
                   top == popped.stack[K].level
        <5>1. /\ popped.stack # <<>>
              /\ Builds(headings, popped, n) /\ FirstIsLowest(headings, popped, n)
              /\ Covers(headings, popped, n, l)
              /\ top <= l \/ K = Len(s.stack) - Len(s.stack)
          BY <4>1, <4>3 DEF Popping
        <5>2. K \in Nat /\ K # 0 /\ DOMAIN popped.stack = 1..K
              /\ \A k \in 1..K : popped.stack[k].level \in 1..4
          BY <5>1, StackFacts DEF Builds
        <5>3. top <= l /\ top \in 1..4 /\ Last(popped.stack) = popped.stack[K] /\ K > 0
          <6>1. Len(s.stack) \in Nat
            BY <2>1, StackFacts DEF Builds
          <6>2. K \in 1..K
            <7> HIDE DEF K
            <7> QED
              BY <5>2
          <6>3. K # Len(s.stack) - Len(s.stack) /\ K > 0
            <7> HIDE DEF K
            <7> QED
              BY <5>2, <6>1
          <6> QED
            BY <5>1, <5>2, <6>2, <6>3 DEF Last
        <5>4. AddHeading(s, x, headings[x]) =
                IF l = top THEN Beside(popped, x) ELSE Push(popped, x, l)
          BY <1>2, <2>2, <2>4, <3>3, <4>3, <5>3 DEF AddHeading, Place
        <5>5. CASE l = top
          <6>1. LET t == Beside(popped, x)
                IN  /\ t.error = popped.error
                    /\ Builds(headings, t, x) /\ FirstIsLowest(headings, t, x)
                    /\ Covers(headings, t, x, 5)
            <7> HIDE DEF popped
            <7> QED
              BY <2>4, <5>1, <5>3, <5>5, BesideKeeps
          <6> QED
            BY <4>3, <5>4, <5>5, <6>1 DEF ReadSoFar
        <5>6. CASE l # top
          <6>1. top < l
            <7> HIDE DEF top, l
            <7> QED
              BY <3>1, <5>3, <5>6
          <6>2. LET t == Push(popped, x, l)
                IN  /\ t.error = popped.error
                    /\ Builds(headings, t, x) /\ FirstIsLowest(headings, t, x)
                    /\ Covers(headings, t, x, 5)
            <7> HIDE DEF popped
            <7> QED
              BY <2>4, <5>1, <6>1, PushKeeps
          <6> QED
            BY <4>3, <5>4, <5>6, <6>2 DEF ReadSoFar
        <5> QED
          BY <5>5, <5>6
      <4> QED
        BY <4>1, <4>2, <4>3 DEF Popping
    <3> QED
      BY <3>2, <3>3
  <2> QED
    BY <2>3, <2>4
<1> QED
  BY <1>1, <1>2 DEF ReadSoFar

LEMMA ReadingKeeps ==
  ASSUME NEW headings \in Seq(Headings)
  PROVE  ReadSoFar(headings, Len(headings), Reading(headings))
<1> DEFINE N == Len(headings)
           read[n \in 0..N] ==
             IF n = 0 THEN Started ELSE AddHeading(read[n - 1], n, headings[n])
           T == {n \in 0..N : ReadSoFar(headings, n, read[n])}
<1>1. N \in Nat /\ Article(headings)
  BY DEF Article
<1>2. \A n \in 0..N : read[n] =
        IF n = 0 THEN Started ELSE AddHeading(read[n - 1], n, headings[n])
  <2>1. read = [n \in 0..N |->
                  IF n = 0 THEN Started ELSE AddHeading(read[n - 1], n, headings[n])]
    BY ReadingSolves
  <2> HIDE DEF read
  <2> QED
    BY <2>1
<1>3. Reading(headings) = read[N]
  BY DEF Reading
<1> HIDE DEF read
<1>4. ReadSoFar(headings, 0, Started)
  <2>1. /\ Started \in Stacks /\ Started.error = FALSE /\ Started.stack = <<>>
        /\ Started.items = <<>> /\ Len(Started.items) = 0 /\ DOMAIN Started.stack = {}
    BY DEF Started, Stacks
  <2>2. NamedTo(headings, 0) = {}
    BY <1>1, NamedFacts DEF NamedTo
  <2>3. Builds(headings, Started, 0)
    BY <2>1, <2>2 DEF Builds
  <2>4. FirstIsLowest(headings, Started, 0) /\ Covers(headings, Started, 0, 5)
    BY <2>1, <2>2 DEF FirstIsLowest, Covers
  <2> QED
    BY <2>1, <2>3, <2>4 DEF ReadSoFar
<1> HIDE DEF N
<1>5. ASSUME NEW n \in 0..N, \A j \in 0..N : j < n => j \in T
      PROVE  n \in T
  <2>1. CASE n = 0
    BY <1>1, <1>2, <1>4, <2>1
  <2>2. CASE n # 0
    <3>1. n - 1 \in 0..N /\ n - 1 < n /\ n - 1 \in Nat /\ (n - 1) + 1 = n /\ n \in 1..N
      BY <1>1, <2>2
    <3>2. ReadSoFar(headings, n - 1, read[n - 1])
      BY <1>5, <3>1
    <3>3. ReadSoFar(headings, (n - 1) + 1, AddHeading(read[n - 1], (n - 1) + 1, headings[(n - 1) + 1]))
      <4>1. (n - 1) + 1 \in 1..Len(headings)
        BY <3>1 DEF N
      <4> QED
        BY <1>1, <3>1, <3>2, <4>1, AddKeeps
    <3> QED
      BY <1>2, <2>2, <3>1, <3>3
  <2> QED
    BY <2>1, <2>2
<1> HIDE DEF T
<1>6. \A n \in 0..N : n \in T
  BY <1>1, <1>5, UpTo
<1>7. N \in T
  BY <1>1, <1>6
<1> QED
  BY <1>3, <1>7 DEF T, N

LEMMA ClosingKeeps ==
  ASSUME NEW headings, Article(headings), NEW n \in Nat, NEW s, Builds(headings, s, n),
         s.stack # <<>>
  PROVE  /\ Builds(headings, Closing(s), n)
         /\ Len(Closing(s).stack) = 1
<1> DEFINE K == Len(s.stack)
           close[k \in 0..K] == IF k = 0 THEN s ELSE Close(close[k - 1])
           T == {k \in 0..K : Builds(headings, close[k], n)
                              /\ Len(close[k].stack) = IF k = K THEN 1 ELSE K - k}
<1>1. K \in Nat /\ K # 0
  BY StackFacts DEF Builds
<1>2. \A k \in 0..K : close[k] = IF k = 0 THEN s ELSE Close(close[k - 1])
  <2>1. close = [k \in 0..K |-> IF k = 0 THEN s ELSE Close(close[k - 1])]
    BY <1>1, ClosingSolves
  <2> HIDE DEF close
  <2> QED
    BY <2>1
<1>3. Closing(s) = close[K]
  BY DEF Closing
<1> HIDE DEF close
<1>4. Builds(headings, s, n) /\ Len(s.stack) = K
  OBVIOUS
<1> HIDE DEF K
<1>5. ASSUME NEW k \in 0..K, \A j \in 0..K : j < k => j \in T
      PROVE  k \in T
  <2>1. CASE k = 0
    <3>1. close[k] = s /\ k # K /\ K - k = K
      BY <1>1, <1>2, <2>1
    <3>2. Builds(headings, close[k], n) /\ Len(close[k].stack) = K - k
      BY <1>4, <3>1
    <3> QED
      BY <3>1, <3>2
  <2>2. CASE k # 0
    <3> DEFINE t == close[k - 1]
    <3>1. k - 1 \in 0..K /\ k - 1 < k /\ k - 1 # K /\ K - (k - 1) >= 1
      BY <1>1, <2>2
    <3>2. Builds(headings, t, n) /\ Len(t.stack) = K - (k - 1)
      BY <1>5, <3>1
    <3>3. close[k] = Close(t)
      BY <1>2, <2>2
    <3> HIDE DEF t
    <3>4. CASE k = K
      <4>1. Len(t.stack) = 1
        BY <1>1, <3>2, <3>4
      <4>2. Close(t) = t
        BY <4>1 DEF Close
      <4> QED
        BY <3>2, <3>3, <3>4, <4>1, <4>2
    <3>5. CASE k # K
      <4>1. Len(t.stack) > 1 /\ Len(t.stack) - 1 = K - k
        BY <1>1, <3>2, <3>5
      <4>2. Close(t) = BuildParent(t)
        BY <4>1 DEF Close
      <4>3. Builds(headings, BuildParent(t), n) /\ Len(BuildParent(t).stack) = Len(t.stack) - 1
        BY <3>2, <4>1, BuildKeeps
      <4> QED
        BY <3>3, <3>5, <4>1, <4>2, <4>3
    <3> QED
      BY <3>4, <3>5
  <2> QED
    BY <2>1, <2>2
<1> HIDE DEF T
<1>6. \A k \in 0..K : k \in T
  BY <1>1, <1>5, UpTo
<1>7. K \in T
  BY <1>1, <1>6
<1> QED
  BY <1>3, <1>7 DEF T

-------------------------------------------------------------------------------
LEMMA NamedAll ==
  ASSUME NEW headings, Article(headings)
  PROVE  /\ NamedTo(headings, Len(headings)) = Named(headings)
         /\ \A i : OwnedTo(headings, Len(headings), i) = Owned(headings, i)
<1>1. NamedTo(headings, Len(headings)) = Named(headings)
  <2>1. Len(headings) \in Nat
    BY DEF Article
  <2> QED
    BY <2>1, NamedFacts DEF NamedTo
<1> QED
  BY <1>1 DEF OwnedTo, Owned

\* A single heading at the top gives way to those it owns.
LEMMA ShownIs ==
  ASSUME NEW headings, NEW top \in Seq(Nat) \ {<<>>}, InOrder(top, Owned(headings, 0))
  PROVE  Shown(headings) =
           IF Len(top) = 1 THEN Owned(headings, top[1]) ELSE Owned(headings, 0)
<1>1. Len(top) \in Nat \ {0} /\ DOMAIN top = 1..Len(top)
  OBVIOUS
<1>2. CASE Len(top) = 1
  <2>1. Owned(headings, 0) = {top[1]}
    BY <1>1, <1>2 DEF InOrder, Range
  <2>2. top[1] \in Named(headings)
    BY <2>1 DEF Owned
  <2>3. ASSUME NEW j PROVE j \in Shown(headings) <=> j \in Owned(headings, top[1])
    BY <2>1, <2>2 DEF Shown, Owned
  <2> QED
    BY <1>2, <2>3
<1>3. CASE Len(top) # 1
  <2>1. 1 \in DOMAIN top /\ 2 \in DOMAIN top /\ 1 \in 1..2 - 1
    BY <1>1, <1>3
  <2>2. top[1] < top[2] /\ top[1] \in Owned(headings, 0) /\ top[2] \in Owned(headings, 0)
    BY <2>1 DEF InOrder, Range
  <2>3. top[1] # top[2]
    BY <1>1, <2>1, <2>2, Reflexive
  <2>4. \A j : Owned(headings, 0) # {j}
    BY <2>2, <2>3
  <2>5. ASSUME NEW j PROVE j \in Shown(headings) <=> j \in Owned(headings, 0)
    BY <2>4 DEF Shown, Owned
  <2> QED
    BY <1>3, <2>5
<1> QED
  BY <1>2, <1>3

LEMMA HierarchyIs ==
  ASSUME NEW headings \in Seq(Headings)
  PROVE  LET made == Hierarchy(headings)
         IN  \/ made.error = TRUE /\ RisesAbove(headings)
             \/ /\ made.error = FALSE /\ ~RisesAbove(headings)
                /\ InOrder(made.top, Shown(headings))
                /\ Shown(headings) = {} => made.top = <<>>
                /\ \A i \in Named(headings) : InOrder(made.items[i], Owned(headings, i))
<1> DEFINE made == Hierarchy(headings)
           N == Len(headings)
           read == Reading(headings)
           closed == Closing(read)
           top == closed.stack[1].siblings
<1>1. N \in Nat /\ Article(headings) /\ ReadSoFar(headings, N, read)
  BY ReadingKeeps DEF Article
<1>2. /\ NamedTo(headings, N) = Named(headings)
      /\ \A i : OwnedTo(headings, N, i) = Owned(headings, i)
  BY <1>1, NamedAll
<1>m. made = IF read.error THEN [NoOutline EXCEPT !.error = TRUE]
             ELSE IF read.stack = <<>> THEN NoOutline
             ELSE [error |-> FALSE, items |-> closed.items,
                   top |-> IF Len(top) = 1 THEN closed.items[top[1]] ELSE top]
  BY DEF Hierarchy, Outlined, TopLevel
<1> HIDE DEF made, read, N
<1>3. CASE read.error = TRUE
  <2>1. RisesAbove(headings)
    BY <1>1, <1>2, <1>3 DEF ReadSoFar, RisesTo, RisesAbove
  <2>2. made.error = TRUE
    BY <1>3, <1>m DEF NoOutline
  <2> QED
    BY <2>1, <2>2 DEF made
<1>4. CASE read.error = FALSE
  <2>1. Builds(headings, read, N) /\ FirstIsLowest(headings, read, N)
    BY <1>1, <1>4 DEF ReadSoFar
  <2>3. CASE read.stack = <<>>
    <3>1. Named(headings) = {}
      BY <1>2, <2>1, <2>3 DEF FirstIsLowest
    <3>2. Shown(headings) = {} /\ ~RisesAbove(headings)
      BY <3>1 DEF Shown, RisesAbove
    <3>3. made.top = <<>> /\ made.error = FALSE
      BY <1>4, <1>m, <2>3 DEF NoOutline
    <3> QED
      BY <3>1, <3>2, <3>3, InOrderNone DEF made
  <2>4. CASE read.stack # <<>>
    <3>0. /\ made.error = FALSE /\ made.items = closed.items
          /\ made.top = IF Len(top) = 1 THEN closed.items[top[1]] ELSE top
      BY <1>4, <1>m, <2>4
    <3>1. Builds(headings, closed, N) /\ Len(closed.stack) = 1
      BY <1>1, <2>1, <2>4, ClosingKeeps
    <3> HIDE DEF closed
    <3>2. /\ closed \in Stacks /\ closed.stack # <<>> /\ DOMAIN closed.stack = 1..1
          /\ closed.stack[1] \in Frames
      <4>1. closed \in Stacks
        BY <3>1 DEF Builds
      <4> QED
        BY <3>1, <4>1, StackFacts
    <3>3. top = closed.stack[1].siblings /\ top \in Seq(Nat) \ {<<>>}
      BY <2>4, <3>2 DEF Frames
    <3>4. InOrder(top, Owned(headings, 0))
      BY <1>2, <3>1, <3>2, <3>3 DEF Builds
    <3> HIDE DEF top
    <3>5. ASSUME NEW i \in Named(headings) PROVE InOrder(made.items[i], Owned(headings, i))
      <4>1. i \in NamedTo(headings, N) /\ \A k \in DOMAIN closed.stack : ~(k > 1)
        BY <1>2, <3>2
      <4>2. InOrder(closed.items[i], OwnedTo(headings, N, i))
        BY <3>1, <4>1 DEF Builds
      <4> QED
        BY <1>2, <3>0, <4>2
    <3>6. ~RisesAbove(headings)
      <4> SUFFICES ASSUME NEW i \in Named(headings), NEW first \in Named(headings),
                          headings[i].level < headings[first].level,
                          \A k \in Named(headings) : first <= k
                   PROVE  FALSE
        BY DEF RisesAbove
      <4>1. \A j \in Named(headings) : headings[j].level >= read.stack[1].level
        BY <1>2, <2>1, <2>4 DEF FirstIsLowest
      <4>2. PICK f \in Named(headings) : /\ headings[f].level = read.stack[1].level
                                         /\ \A j \in Named(headings) : f <= j
        BY <1>2, <2>1, <2>4 DEF FirstIsLowest
      <4>3. f = first
        BY <1>1, <4>2, NamedFacts
      <4> DEFINE a == headings[i].level
                 b == headings[f].level
      <4>4. a \in Int /\ b \in Int /\ a < b /\ a >= b
        BY <1>1, <4>1, <4>2, <4>3, NamedFacts
      <4> HIDE DEF a, b
      <4> QED
        BY <4>4
    <3>7. InOrder(made.top, Shown(headings))
      <4>1. CASE Len(top) = 1
        <5>1. top[1] \in Named(headings)
          <6>1. 1 \in DOMAIN top
            BY <3>3, <4>1
          <6> QED
            BY <3>4, <6>1 DEF InOrder, Range, Owned
        <5> QED
          BY <3>0, <3>3, <3>4, <3>5, <4>1, <5>1, ShownIs
      <4>2. CASE Len(top) # 1
        BY <3>0, <3>3, <3>4, <4>2, ShownIs
      <4> QED
        BY <4>1, <4>2
    <3>8. Shown(headings) = {} => made.top = <<>>
      <4> SUFFICES ASSUME Shown(headings) = {} PROVE made.top = <<>>
        OBVIOUS
      <4>1. made.top \in Seq(Nat)
        <5>1. closed.items \in Seq(Seq(Nat)) /\ Len(closed.items) = N
          BY <3>1, <3>2 DEF Stacks, Builds
        <5>2. Len(top) = 1 => top[1] \in DOMAIN closed.items
          <6> SUFFICES ASSUME Len(top) = 1 PROVE top[1] \in DOMAIN closed.items
            OBVIOUS
          <6>1. 1 \in DOMAIN top
            BY <3>3
          <6>2. top[1] \in Named(headings)
            BY <3>4, <6>1 DEF InOrder, Range, Owned
          <6> QED
            BY <1>1, <5>1, <6>2, NamedFacts DEF N
        <5> QED
          BY <3>0, <3>3, <5>1, <5>2
      <4>2. Range(made.top) = {}
        BY <3>7 DEF InOrder
      <4>3. DOMAIN made.top = {}
        BY <4>2 DEF Range
      <4>4. Len(made.top) \in Nat /\ DOMAIN made.top = 1..Len(made.top)
        BY <4>1, LenProperties
      <4>5. Len(made.top) = 0
        <5> DEFINE k == Len(made.top)
        <5>1. k \in Nat /\ 1..k = {}
          BY <4>3, <4>4
        <5> HIDE DEF k
        <5>2. 1 \notin 1..k
          BY <5>1
        <5>3. k = 0
          BY <5>1, <5>2
        <5> QED
          BY <5>3 DEF k
      <4> QED
        BY <4>1, <4>5, EmptySeq
    <3> QED
      BY <3>0, <3>5, <3>6, <3>7, <3>8 DEF made
  <2> QED
    BY <2>3, <2>4
<1> QED
  BY <1>1, <1>3, <1>4 DEF ReadSoFar

\* OutlineKeepsHeadings, as a predicate of the values.
Keeps(headings, made, away, rest) ==
  /\ rest = "left out" <=> RisesAbove(headings)
  /\ ~RisesAbove(headings) =>
       IF Shown(headings) = {} THEN away = TRUE
       ELSE /\ InOrder(made.top, Shown(headings))
            /\ \A i \in Named(headings) : InOrder(made.items[i], Owned(headings, i))

\* Whatever is rendered, the outline is that of the article.
LEMMA RenderedKeeps ==
  ASSUME NEW headings \in Seq(Headings), NEW before, NEW away
  PROVE  LET rendered == RenderAffix(headings, before, away)
         IN  Keeps(headings, rendered.outline, rendered.hidden, rendered.renderings)
<1> DEFINE made == Hierarchy(headings)
           rendered == RenderAffix(headings, before, away)
<1>1. \/ made.error = TRUE /\ RisesAbove(headings)
      \/ /\ made.error = FALSE /\ ~RisesAbove(headings)
         /\ InOrder(made.top, Shown(headings))
         /\ Shown(headings) = {} => made.top = <<>>
         /\ \A i \in Named(headings) : InOrder(made.items[i], Owned(headings, i))
  BY HierarchyIs
<1>2. /\ rendered.outline = IF made.error THEN before ELSE made
      /\ rendered.hidden = (away \/ (~made.error /\ made.top = <<>>))
      /\ rendered.renderings = IF made.error THEN "left out" ELSE "done"
  BY DEF RenderAffix, Rendered
<1> HIDE DEF made, rendered
<1>3. CASE made.error = TRUE /\ RisesAbove(headings)
  <2>1. rendered.renderings = "left out"
    BY <1>2, <1>3
  <2> QED
    BY <1>3, <2>1 DEF Keeps, rendered
<1>4. CASE made.error = FALSE /\ ~RisesAbove(headings)
  <2>1. rendered.outline = made /\ rendered.renderings = "done"
    BY <1>2, <1>4
  <2>2. Shown(headings) = {} => rendered.hidden = TRUE
    BY <1>1, <1>2, <1>4
  <2>3. InOrder(rendered.outline.top, Shown(headings))
        /\ \A i \in Named(headings) : InOrder(rendered.outline.items[i], Owned(headings, i))
    BY <1>1, <1>4, <2>1
  <2> QED
    BY <1>4, <2>1, <2>2, <2>3 DEF Keeps, rendered
<1> QED
  BY <1>1, <1>3, <1>4

\* The inductive invariant.
OutlineInv ==
  /\ article \in Seq(Headings) /\ hidden \in BOOLEAN
  /\ Keeps(article, outline, hidden, renderings)

LEMMA OutlineInitKeeps == OutlineInit => OutlineInv
<1> SUFFICES ASSUME OutlineInit PROVE OutlineInv
  OBVIOUS
<1>1. article \in Seq(Headings)
  <2>1. PICK m \in 0..2 : article \in [1..m -> Headings]
    BY DEF OutlineInit, BoundedSeq, SeqOf
  <2> QED
    BY <2>1
<1> DEFINE rendered == RenderAffix(article, NoOutline, FALSE)
<1>2. outline = rendered.outline /\ hidden = rendered.hidden /\ renderings = rendered.renderings
  BY DEF OutlineInit
<1>3. rendered.hidden \in BOOLEAN
  BY DEF RenderAffix, Rendered
<1>4. Keeps(article, rendered.outline, rendered.hidden, rendered.renderings)
  BY <1>1, RenderedKeeps
<1> HIDE DEF rendered
<1> QED
  BY <1>1, <1>2, <1>3, <1>4 DEF OutlineInv

LEMMA OutlineStepKeeps == OutlineInv /\ [OutlineNext]_outlineVars => OutlineInv'
<1> SUFFICES ASSUME OutlineInv, [OutlineNext]_outlineVars PROVE OutlineInv'
  OBVIOUS
<1>1. ASSUME NEW headings \in Seq(Headings), Refresh(headings) PROVE OutlineInv'
  <2>1. hidden' \in BOOLEAN
    BY <1>1 DEF Refresh, RenderAffix, Rendered
  <2>2. Keeps(article', outline', hidden', renderings')
    BY <1>1, RenderedKeeps DEF Refresh
  <2> QED
    BY <1>1, <2>1, <2>2 DEF Refresh, OutlineInv
<1>2. ASSUME NEW h \in Headings, Refresh(Append(article, h)) PROVE OutlineInv'
  <2>1. Append(article, h) \in Seq(Headings)
    BY DEF OutlineInv
  <2> QED
    BY <1>1, <1>2, <2>1
<1>3. ASSUME Refresh(<<>>) PROVE OutlineInv'
  <2>1. <<>> \in Seq(Headings)
    OBVIOUS
  <2> QED
    BY <1>1, <1>3, <2>1
<1>4. CASE UNCHANGED outlineVars
  BY <1>4 DEF outlineVars, OutlineInv
<1> QED
  BY <1>2, <1>3, <1>4 DEF OutlineNext

LEMMA OutlineInvKeeps == OutlineInv => OutlineKeepsHeadings
BY DEF OutlineInv, Keeps, OutlineKeepsHeadings

\* Whatever the articles have been, the outline has the headings of the one there
\* is, in order, below those they belong to, and is given up exactly when one
\* stands above the level that the first one has.
THEOREM OutlineShows == SiteSpec => []OutlineKeepsHeadings
<1>1. SiteInit => OutlineInv
  BY OutlineInitKeeps DEF SiteInit, SiteStarts
<1>2. OutlineInv /\ [SiteNext]_siteVars => OutlineInv'
  <2> SUFFICES ASSUME OutlineInv, [SiteNext]_siteVars
               PROVE  OutlineInv'
    OBVIOUS
  <2>1. [OutlineNext]_outlineVars
    BY DEF SiteNext, IndexWorks, BoxWorks, TabsWork, ContentsWork, OutlineWorks, siteVars
  <2> QED
    BY <2>1, OutlineStepKeeps
<1>3. OutlineInv => OutlineKeepsHeadings
  BY OutlineInvKeeps
<1> QED
  BY <1>1, <1>2, <1>3, PTL DEF SiteSpec

-------------------------------------------------------------------------------
Queries == GoodQueries \cup BadQueries
Messages == [e : {"index-ready", "query-ready"}, q : GoodQueries \cup {Nothing}]

PageTypeOK ==
  /\ toPage \in Seq(Messages) /\ toWorker \in Seq(Queries)
  /\ handlers \in Nat
  /\ bound \in BOOLEAN

\* The worker has said that it is ready with an index, and has kept it.
AnnouncedTruly ==
  /\ dataFile = "requested" => announced = "silent"
  /\ announced = "indexed" => lunrIndex = TRUE /\ stopFile = "loaded"

\* The page is bound by the one message of this kind, before which it sends and
\* gets no other.
BoundByMessage ==
  IF bound = TRUE
  THEN /\ announced # "silent"
       /\ \A i \in 1..Len(toPage) : toPage[i].e = "query-ready"
  ELSE /\ toWorker = <<>>
       /\ Len(toPage) = IF announced = "silent" THEN 0 ELSE 1
       /\ \A i \in 1..Len(toPage) : toPage[i].e = "index-ready"

\* What is in the box is the last thing asked for, the last thing answered, or
\* what is shown.
LastOfAll ==
  \/ Len(toWorker) > 0 /\ toWorker[Len(toWorker)] = query
  \/ /\ toWorker = <<>>
     /\ Len(toPage) > 0 /\ toPage[Len(toPage)] = QueryReady(query)
  \/ /\ toWorker = <<>> /\ toPage = <<>>
     /\ results = [hits |-> query, asked |-> query]

PageInv ==
  /\ PageTypeOK
  /\ AnnouncedTruly
  /\ BoundByMessage
  /\ bound = TRUE /\ announced = "indexed" /\ query \in GoodQueries => LastOfAll
  /\ Long(query) => label = query

-------------------------------------------------------------------------------
\* The messages of n handlers, and the one that is sent last.
LEMMA Copies ==
  ASSUME NEW n \in Nat \ {0}, NEW q \in Queries, NEW s \in Seq(Queries), NEW sent,
         sent = s \o [i \in 1..n |-> q]
  PROVE  sent \in Seq(Queries) /\ Len(sent) > 0 /\ sent[Len(sent)] = q
<1> DEFINE copies == [i \in 1..n |-> q]
<1>1. copies \in Seq(Queries) /\ Len(copies) = n /\ copies[n] = q
  OBVIOUS
<1>2. Len(s) \in Nat
  BY LenProperties
<1>3. sent = s \o copies
  OBVIOUS
<1> HIDE DEF copies
<1>4. /\ sent \in Seq(Queries)
      /\ Len(sent) = Len(s) + n
      /\ \A i \in 1..Len(s) + n : sent[i] = IF i <= Len(s) THEN s[i] ELSE copies[i - Len(s)]
  <2> HIDE DEF copies
  <2>1. copies \in Seq(Queries)
    BY <1>1
  <2>2. /\ s \o copies \in Seq(Queries)
        /\ Len(s \o copies) = Len(s) + Len(copies)
        /\ \A i \in 1..Len(s) + Len(copies) :
             (s \o copies)[i] = IF i <= Len(s) THEN s[i] ELSE copies[i - Len(s)]
    BY <2>1, ConcatProperties
  <2>3. Len(copies) = n
    BY <1>1
  <2> QED
    BY <1>3, <2>2, <2>3, Zenon
<1>5. Len(s) + n \in 1..Len(s) + n /\ ~(Len(s) + n <= Len(s)) /\ Len(s) + n - Len(s) = n
  BY <1>2
<1> QED
  BY <1>1, <1>2, <1>4, <1>5

\* A message that is taken out leaves the others in their order.
LEMMA Taken ==
  ASSUME NEW S, NEW s \in Seq(S), s # <<>>
  PROVE  /\ Head(s) = s[1] /\ Head(s) \in S /\ Tail(s) \in Seq(S)
         /\ Len(s) \in Nat \ {0} /\ Len(Tail(s)) = Len(s) - 1
         /\ Len(s) = 1 \/ Len(s) > 1
         /\ \A i \in 1..Len(Tail(s)) : Tail(s)[i] = s[i + 1]
         /\ Len(s) = 1 => Tail(s) = <<>>
         /\ Len(s) > 1 => Len(Tail(s)) > 0 /\ Tail(s)[Len(Tail(s))] = s[Len(s)]
<1>1. /\ Head(s) \in S /\ Tail(s) \in Seq(S)
      /\ Len(s) \in Nat \ {0} /\ Len(Tail(s)) = Len(s) - 1
      /\ \A i \in 1..Len(Tail(s)) : Tail(s)[i] = s[i + 1]
  BY HeadTailProperties, EmptySeq
<1>2. Len(s) = 1 => Tail(s) = <<>>
  <2>1. Len(s) = 1 => Len(Tail(s)) = 0
    BY <1>1
  <2>2. Tail(s) # <<>> => Len(Tail(s)) # 0
    BY <1>1, EmptySeq
  <2> QED
    BY <2>1, <2>2
<1>3. Len(s) > 1 => Len(Tail(s)) \in 1..Len(Tail(s))
  BY <1>1
<1> QED
  BY <1>1, <1>2, <1>3

-------------------------------------------------------------------------------
\* A page starts with the files still to come and an empty box.
LEMMA PageStarts == ASSUME PageInit PROVE PageInv
<1>1. PageTypeOK
  BY EmptySeq DEF PageInit, PageTypeOK
<1>2. AnnouncedTruly /\ BoundByMessage
  BY DEF PageInit, AnnouncedTruly, BoundByMessage
<1>3. bound = FALSE /\ label = query
  BY DEF PageInit
<1> QED
  BY <1>1, <1>2, <1>3 DEF PageInv

\* What the last thing is does not depend on the files.
LEMMA SameLast ==
  ASSUME PageInv, UNCHANGED <<toPage, toWorker, bound, query, label, results, announced>>
  PROVE  /\ bound' = TRUE /\ announced' = "indexed" /\ query' \in GoodQueries => LastOfAll'
         /\ (Long(query) => label = query)'
BY DEF PageInv, LastOfAll, Long

\* The requests of the worker and of the page.
LEMMA FilesKeep == ASSUME PageInv, LoadStopWords \/ LoadData \/ LoadNavbar PROVE PageInv'
<1> USE DEF PageInv, PageTypeOK, Long
<1>1. CASE LoadStopWords
  <2>1. PageTypeOK' /\ BoundByMessage'
    BY <1>1 DEF LoadStopWords, BoundByMessage
  <2>2. AnnouncedTruly'
    BY <1>1 DEF LoadStopWords, AnnouncedTruly
  <2> QED
    BY <1>1, <2>1, <2>2, SameLast DEF LoadStopWords
<1>2. CASE LoadData /\ dataFile' = "failed"
  <2>1. /\ dataFile = "requested"
        /\ UNCHANGED <<lunrIndex, announced, stopFile, toPage, toWorker, handlers, bound,
                       query, label, results>>
    BY <1>2 DEF LoadData
  <2> QED
    BY <1>2, <2>1, SameLast DEF AnnouncedTruly, BoundByMessage
<1>3. CASE LoadData /\ dataFile' # "failed"
  <2>1. /\ dataFile = "requested" /\ dataFile' # "requested"
        /\ announced = "silent" /\ bound = FALSE /\ Len(toPage) = 0
    BY <1>3 DEF LoadData, AnnouncedTruly, BoundByMessage
  <2>2. /\ toPage' = Append(toPage, IndexReady)
        /\ lunrIndex' = (stopFile = "loaded" /\ dataFile' = "loaded")
        /\ announced' = IF lunrIndex' THEN "indexed" ELSE "unindexed"
        /\ UNCHANGED <<stopFile, toWorker, handlers, bound, query, label>>
    BY <1>3 DEF LoadData
  <2>3. IndexReady \in Messages /\ IndexReady.e = "index-ready"
    BY DEF Messages, IndexReady
  <2>4. /\ toPage' \in Seq(Messages) /\ Len(toPage') = 1 /\ toPage'[1] = IndexReady
    BY <2>1, <2>2, <2>3
  <2>7. /\ PageTypeOK'
        /\ Len(toPage') = 1 /\ \A i \in 1..Len(toPage') : toPage'[i].e = "index-ready"
    BY <2>2, <2>3, <2>4
  <2>5. CASE stopFile = "loaded" /\ dataFile' = "loaded"
    <3>1. lunrIndex' = TRUE /\ announced' = "indexed"
      BY <2>2, <2>5
    <3> QED
      BY <2>1, <2>2, <2>7, <2>5, <3>1 DEF AnnouncedTruly, BoundByMessage, Long
  <2>6. CASE ~(stopFile = "loaded" /\ dataFile' = "loaded")
    <3>1. announced' = "unindexed"
      BY <2>2, <2>6
    <3> QED
      BY <2>1, <2>2, <2>7, <3>1 DEF AnnouncedTruly, BoundByMessage, Long
  <2> QED
    BY <2>5, <2>6
<1>4. CASE LoadNavbar
  <2>1. handlers' \in Nat
    BY <1>4 DEF LoadNavbar
  <2>2. UNCHANGED <<stopFile, dataFile, lunrIndex, toPage, toWorker, bound, query, label,
                    results, announced>>
    BY <1>4 DEF LoadNavbar
  <2> QED
    BY <2>1, <2>2, SameLast DEF AnnouncedTruly, BoundByMessage
<1> QED
  BY <1>1, <1>2, <1>3, <1>4 DEF LoadData

\* What is typed is asked for, by every handler, if the page is bound.
LEMMA TypeKeeps == ASSUME PageInv, NEW q, Type(q) PROVE PageInv'
<1>1. /\ UNCHANGED <<stopFile, dataFile, lunrIndex, toPage, handlers, bound, announced>>
      /\ query' = q /\ handlers \in Nat \ {0}
      /\ label' = IF Long(q) THEN q ELSE label
  BY DEF Type, PageInv, PageTypeOK
<1>2. AnnouncedTruly' /\ (Long(query) => label = query)'
  BY <1>1 DEF PageInv, AnnouncedTruly, Long
<1>3. CASE Long(q) /\ bound = TRUE
  <2>1. toWorker' = toWorker \o [i \in 1..handlers |-> q]
    BY <1>3 DEF Type
  <2>2. q \in Queries /\ toWorker \in Seq(Queries)
    BY <1>3 DEF Long, Queries, PageInv, PageTypeOK
  <2>3. toWorker' \in Seq(Queries) /\ Len(toWorker') > 0 /\ toWorker'[Len(toWorker')] = q
    BY <1>1, <2>1, <2>2, Copies
  <2> QED
    BY <1>1, <1>2, <1>3, <2>3 DEF PageInv, PageTypeOK, BoundByMessage, LastOfAll
<1>4. CASE ~(Long(q) /\ bound = TRUE)
  <2>1. toWorker' = toWorker
    BY <1>4 DEF Type, PageInv, PageTypeOK
  <2>2. PageTypeOK' /\ BoundByMessage'
    BY <1>1, <2>1 DEF PageInv, PageTypeOK, BoundByMessage
  <2>3. ~(bound = TRUE /\ announced = "indexed" /\ query \in GoodQueries)'
    BY <1>1, <1>4 DEF Long
  <2> QED
    BY <1>2, <2>2, <2>3 DEF PageInv
<1> QED
  BY <1>3, <1>4

\* The page takes a message: the one that binds it, or the hits of a query.
LEMMA ReceiveKeeps == ASSUME PageInv, PageReceive PROVE PageInv'
<1>1. /\ UNCHANGED <<stopFile, dataFile, lunrIndex, handlers, query, label, announced>>
      /\ toPage # <<>> /\ toPage' = Tail(toPage)
  BY DEF PageReceive
<1>2. AnnouncedTruly' /\ (Long(query) => label = query)'
  BY <1>1 DEF PageInv, AnnouncedTruly, Long
<1>3. /\ toPage \in Seq(Messages)
      /\ Head(toPage) = toPage[1] /\ Head(toPage) \in Messages /\ toPage' \in Seq(Messages)
      /\ Len(toPage) \in Nat \ {0} /\ Len(toPage') = Len(toPage) - 1
      /\ Len(toPage) = 1 \/ Len(toPage) > 1
      /\ \A i \in 1..Len(toPage') : toPage'[i] = toPage[i + 1]
      /\ Len(toPage) = 1 => toPage' = <<>>
      /\ Len(toPage) > 1 => Len(toPage') > 0 /\ toPage'[Len(toPage')] = toPage[Len(toPage)]
  <2>1. toPage \in Seq(Messages)
    BY DEF PageInv, PageTypeOK
  <2> QED
    BY <1>1, <2>1, Taken
<1>4. CASE bound = TRUE
  <2>1. Head(toPage).e = "query-ready"
    BY <1>3, <1>4 DEF PageInv, BoundByMessage
  <2>2. /\ results' = [hits |-> Head(toPage).q, asked |-> query]
        /\ UNCHANGED <<bound, toWorker>>
    BY <2>1 DEF PageReceive
  <2>3. PageTypeOK'
    BY <1>1, <1>3, <2>2 DEF PageInv, PageTypeOK
  <2>4. BoundByMessage'
    <3>1. \A i \in 1..Len(toPage') : i + 1 \in 1..Len(toPage)
      BY <1>3
    <3> QED
      BY <1>1, <1>3, <1>4, <2>2, <3>1 DEF PageInv, BoundByMessage
  <2>5. ASSUME announced = "indexed", query \in GoodQueries
        PROVE  LastOfAll'
    <3>1. LastOfAll
      BY <1>4, <2>5 DEF PageInv
    <3>2. CASE Len(toWorker) > 0 /\ toWorker[Len(toWorker)] = query
      BY <1>1, <2>2, <3>2 DEF LastOfAll
    <3>3. CASE toWorker = <<>> /\ toPage[Len(toPage)] = QueryReady(query) /\ Len(toPage) > 1
      BY <1>1, <1>3, <2>2, <3>3 DEF LastOfAll, QueryReady
    <3>4. CASE toWorker = <<>> /\ toPage[Len(toPage)] = QueryReady(query) /\ Len(toPage) = 1
      <4>1. Head(toPage).q = query
        BY <1>3, <3>4 DEF QueryReady
      <4> QED
        BY <1>1, <1>3, <2>2, <3>4, <4>1 DEF LastOfAll
    <3> QED
      BY <1>1, <1>3, <3>1, <3>2, <3>3, <3>4 DEF LastOfAll
  <2> QED
    BY <1>1, <1>2, <2>3, <2>4, <2>5 DEF PageInv
<1>5. CASE bound # TRUE
  <2>1. /\ toWorker = <<>> /\ announced # "silent" /\ Len(toPage) = 1
        /\ Head(toPage).e = "index-ready"
    <3>1. /\ toWorker = <<>>
          /\ Len(toPage) = IF announced = "silent" THEN 0 ELSE 1
          /\ \A i \in 1..Len(toPage) : toPage[i].e = "index-ready"
      BY <1>5 DEF PageInv, BoundByMessage
    <3>2. announced # "silent" /\ Len(toPage) = 1
      BY <1>3, <3>1
    <3> QED
      BY <1>3, <3>1, <3>2
  <2>2. /\ bound' = TRUE
        /\ toWorker' = IF Long(query) THEN Append(toWorker, query) ELSE toWorker
    BY <2>1 DEF PageReceive
  <2>3. BoundByMessage'
    BY <1>1, <1>3, <2>1, <2>2 DEF BoundByMessage
  <2>4. CASE Long(query)
    <3>1. query \in Queries /\ toWorker \in Seq(Queries) /\ Len(toWorker) = 0
      BY <2>1, <2>4, EmptySeq DEF Long, Queries, PageInv, PageTypeOK
    <3>2. toWorker' \in Seq(Queries) /\ Len(toWorker') = 1 /\ toWorker'[1] = query
      BY <2>2, <2>4, <3>1
    <3> QED
      BY <1>1, <1>2, <1>3, <2>2, <2>3, <3>2 DEF PageInv, PageTypeOK, LastOfAll
  <2>5. CASE ~Long(query)
    <3>1. query' \notin GoodQueries
      BY <1>1, <2>5 DEF Long
    <3>2. PageTypeOK'
      BY <1>1, <1>3, <2>2, <2>5 DEF PageInv, PageTypeOK
    <3> QED
      BY <1>2, <2>3, <3>1, <3>2 DEF PageInv
  <2> QED
    BY <2>4, <2>5
<1> QED
  BY <1>4, <1>5

\* The links of a list follow the box.
LEMMA TurnKeeps == ASSUME PageInv, TurnPage PROVE PageInv'
<1>1. /\ UNCHANGED <<stopFile, dataFile, lunrIndex, toPage, toWorker, handlers, bound,
                     query, label, announced>>
      /\ results' = [results EXCEPT !.asked = query]
  BY DEF TurnPage
<1>2. results = [hits |-> query, asked |-> query]
        => results' = [hits |-> query, asked |-> query]
  BY <1>1
<1>3. LastOfAll => LastOfAll'
  BY <1>1, <1>2 DEF LastOfAll, QueryReady
<1> QED
  BY <1>1, <1>3 DEF PageInv, PageTypeOK, AnnouncedTruly, BoundByMessage, Long

\* The worker answers the queries in the order they were asked in.
LEMMA WorkerKeeps == ASSUME PageInv, WorkerReceive PROVE PageInv'
<1>1. /\ UNCHANGED <<stopFile, dataFile, lunrIndex, handlers, bound, query, label,
                     results, announced>>
      /\ toWorker # <<>> /\ toWorker' = Tail(toWorker)
  BY DEF WorkerReceive
<1>2. AnnouncedTruly' /\ (Long(query) => label = query)'
  BY <1>1 DEF PageInv, AnnouncedTruly, Long
<1>3. /\ toWorker \in Seq(Queries) /\ toPage \in Seq(Messages) /\ bound = TRUE
  BY <1>1 DEF PageInv, PageTypeOK, BoundByMessage
<1>4. /\ Head(toWorker) = toWorker[1] /\ toWorker' \in Seq(Queries)
      /\ Len(toWorker) \in Nat \ {0} /\ (Len(toWorker) = 1 \/ Len(toWorker) > 1)
      /\ Len(toWorker) = 1 => toWorker' = <<>>
      /\ Len(toWorker) > 1 =>
           Len(toWorker') > 0 /\ toWorker'[Len(toWorker')] = toWorker[Len(toWorker)]
  BY <1>1, <1>3, Taken
<1>5. CASE lunrIndex /\ Head(toWorker) \in GoodQueries
  <2>1. toPage' = Append(toPage, QueryReady(Head(toWorker)))
    BY <1>5 DEF WorkerReceive
  <2>2. /\ QueryReady(Head(toWorker)) \in Messages
        /\ QueryReady(Head(toWorker)).e = "query-ready"
    BY <1>5 DEF Messages, QueryReady
  <2>3. /\ toPage' \in Seq(Messages) /\ Len(toPage') = Len(toPage) + 1
        /\ Len(toPage) \in Nat
        /\ \A i \in 1..Len(toPage) : toPage'[i] = toPage[i]
        /\ toPage'[Len(toPage')] = QueryReady(Head(toWorker))
    BY <1>3, <2>1, <2>2
  <2>4. PageTypeOK'
    BY <1>1, <1>4, <2>3 DEF PageInv, PageTypeOK
  <2>5. BoundByMessage'
    BY <1>1, <1>3, <2>2, <2>3 DEF PageInv, BoundByMessage
  <2>6. ASSUME announced = "indexed", query \in GoodQueries
        PROVE  LastOfAll'
    <3>1. toWorker[Len(toWorker)] = query
      BY <1>1, <1>3, <2>6 DEF PageInv, LastOfAll
    <3>2. CASE Len(toWorker) > 1
      BY <1>1, <1>4, <3>1, <3>2 DEF LastOfAll
    <3>3. CASE Len(toWorker) = 1
      BY <1>1, <1>4, <2>3, <3>1, <3>3 DEF LastOfAll, QueryReady
    <3> QED
      BY <1>4, <3>2, <3>3
  <2> QED
    BY <1>1, <1>2, <2>4, <2>5, <2>6 DEF PageInv
<1>6. CASE ~(lunrIndex /\ Head(toWorker) \in GoodQueries)
  <2>1. toPage' = toPage
    BY <1>6 DEF WorkerReceive
  <2>2. PageTypeOK' /\ BoundByMessage'
    BY <1>1, <1>3, <1>4, <2>1 DEF PageInv, PageTypeOK, BoundByMessage
  <2>3. ASSUME announced = "indexed", query \in GoodQueries
        PROVE  LastOfAll'
    <3>1. toWorker[Len(toWorker)] = query
      BY <1>1, <1>3, <2>3 DEF PageInv, LastOfAll
    <3>2. lunrIndex = TRUE
      BY <2>3 DEF PageInv, AnnouncedTruly
    <3>3. Len(toWorker) # 1
      <4>1. Head(toWorker) \notin GoodQueries
        BY <1>6, <3>2
      <4> QED
        BY <1>4, <2>3, <3>1, <4>1
    <3>4. Len(toWorker) > 1
      BY <1>4, <3>3
    <3> QED
      BY <1>1, <1>4, <3>1, <3>4 DEF LastOfAll
  <2> QED
    BY <1>1, <1>2, <2>2, <2>3 DEF PageInv
<1> QED
  BY <1>5, <1>6

\* What is not the box leaves it as it is.
LEMMA PageInvStep == ASSUME PageInv, [SiteNext]_siteVars PROVE PageInv'
<1>1. CASE PageNext
  BY <1>1, FilesKeep, TypeKeeps, ReceiveKeeps, TurnKeeps, WorkerKeeps DEF PageNext
<1>2. CASE UNCHANGED allPageVars
  BY <1>2 DEF allPageVars, pageVars, PageInv, PageTypeOK, AnnouncedTruly, BoundByMessage,
              LastOfAll, Long, QueryReady
<1> QED
  BY <1>1, <1>2 DEF SiteNext, IndexWorks, BoxWorks, TabsWork, ContentsWork, OutlineWorks,
                    siteVars

\* The search box, whatever is typed how often and in whatever order the two
\* files and the bar come: when no message is under way the list, its heading
\* and its links are those of what is in the box.
THEOREM QuietBoxIsCurrent == SiteSpec => []QuietMeansCurrent
<1>1. SiteInit => PageInv
  BY PageStarts DEF SiteInit, SiteStarts
<1>2. PageInv => QuietMeansCurrent
  <2> SUFFICES ASSUME PageInv, announced = "indexed", query \in GoodQueries,
                      toPage = <<>>, toWorker = <<>>
               PROVE  label = query /\ results = [hits |-> query, asked |-> query]
    BY DEF QuietMeansCurrent
  <2>1. Len(toPage) = 0 /\ Len(toWorker) = 0
    BY EmptySeq
  <2>2. bound = TRUE /\ label = query
    BY <2>1 DEF PageInv, BoundByMessage, Long
  <2> QED
    BY <2>1, <2>2 DEF PageInv, LastOfAll
<1> QED
  BY <1>1, <1>2, PageInvStep, PTL DEF SiteSpec

-------------------------------------------------------------------------------
\* From one number to the next.
LEMMA Steps ==
  ASSUME NEW N \in Nat, NEW T, 0 \in T, \A n \in 1..N : n - 1 \in T => n \in T
  PROVE  \A n \in 0..N : n \in T
<1>1. ASSUME NEW m \in 0..N, \A j \in 0..N : j < m => j \in T
      PROVE  m \in T
  <2>1. CASE m = 0
    BY <2>1
  <2>2. CASE m # 0
    <3>1. m - 1 \in 0..N /\ m - 1 < m /\ m \in 1..N
      BY <2>2
    <3> QED
      BY <1>1, <3>1
  <2> QED
    BY <2>1, <2>2
<1> QED
  BY <1>1, UpTo

Loops(f, N, s, step) == f = [n \in 0..N |-> IF n = 0 THEN s ELSE step[<<n, f[n - 1]>>]]

\* A loop of N rounds, each of which leads from one state of S to another.
LEMMA Iterates ==
  ASSUME NEW N \in Nat, NEW S, NEW s \in S, NEW step,
         \A n \in 1..N, x \in S : step[<<n, x>>] \in S
  PROVE  \E f : Loops(f, N, s, step) /\ \A n \in 0..N : f[n] \in S
<1> DEFINE Solves(f, k) == \A m \in 0..k : /\ f[m] = IF m = 0 THEN s ELSE step[<<m, f[m - 1]>>]
                                           /\ f[m] \in S
           T == {k \in 0..N : \E f : f = [m \in 0..k |-> f[m]] /\ Solves(f, k)}
<1>1. 0 \in T
  <2> DEFINE f == [m \in 0..0 |-> s]
  <2>1. f = [m \in 0..0 |-> f[m]] /\ Solves(f, 0)
    OBVIOUS
  <2> HIDE DEF f
  <2> QED
    BY <2>1
<1>2. ASSUME NEW k \in 1..N, k - 1 \in T PROVE k \in T
  <2>1. PICK g : g = [m \in 0..k - 1 |-> g[m]] /\ Solves(g, k - 1)
    BY <1>2
  <2> DEFINE f == [m \in 0..k |-> IF m = k THEN step[<<k, g[k - 1]>>] ELSE g[m]]
  <2>2. ASSUME NEW m \in 0..k
        PROVE  f[m] = (IF m = 0 THEN s ELSE step[<<m, f[m - 1]>>]) /\ f[m] \in S
    <3>1. CASE m = k
      <4>1. k - 1 \in 0..k /\ k - 1 # k /\ k # 0 /\ k - 1 \in 0..k - 1
        OBVIOUS
      <4> QED
        BY <2>1, <3>1, <4>1
    <3>2. CASE m # k
      <4>1. m \in 0..k - 1 /\ (m # 0 => m - 1 \in 0..k /\ m - 1 # k)
        BY <3>2
      <4>2. g[m] = (IF m = 0 THEN s ELSE step[<<m, g[m - 1]>>]) /\ g[m] \in S
        BY <2>1, <4>1
      <4> QED
        BY <3>2, <4>1, <4>2
    <3> QED
      BY <3>1, <3>2
  <2>3. f = [m \in 0..k |-> f[m]]
    OBVIOUS
  <2> HIDE DEF f
  <2>4. Solves(f, k)
    BY <2>2
  <2>5. k \in 0..N
    OBVIOUS
  <2> HIDE DEF Solves
  <2> QED
    BY <2>3, <2>4, <2>5
<1> HIDE DEF T
<1>3. \A n \in 0..N : n \in T
  BY <1>1, <1>2, Steps
<1>4. N \in T
  BY <1>3
<1>5. PICK f : f = [m \in 0..N |-> f[m]] /\ Solves(f, N)
  BY <1>4 DEF T
<1>6. f = [n \in 0..N |-> IF n = 0 THEN s ELSE step[<<n, f[n - 1]>>]]
  BY <1>5
<1> QED
  BY <1>5, <1>6 DEF Loops


-------------------------------------------------------------------------------
\* What is left of a list without repetitions when one element is taken out.
LEMMA RemoveFirstIs ==
  ASSUME NEW X, NEW s \in Seq(X), IsInjective(s), NEW e
  PROVE  /\ RemoveFirst(s, e) \in Seq(X) /\ IsInjective(RemoveFirst(s, e))
         /\ Range(RemoveFirst(s, e)) = Range(s) \ {e}
<1> DEFINE r == RemoveFirst(s, e)
<1>0. Len(s) \in Nat /\ DOMAIN s = 1..Len(s) /\ \A i \in 1..Len(s) : s[i] \in X
  OBVIOUS
<1>1. CASE ~\E i \in 1..Len(s) : s[i] = e
  <2>1. r = s
    BY <1>1 DEF RemoveFirst
  <2> QED
    BY <1>0, <1>1, <2>1 DEF Range
<1>2. CASE \E i \in 1..Len(s) : s[i] = e
  <2>1. PICK i \in 1..Len(s) : s[i] = e
    BY <1>2
  <2>2. {j \in 1..Len(s) : s[j] = e} = {i}
    BY <1>0, <2>1 DEF IsInjective
  <2>3. Min({i}) = i
    BY <2>1 DEF Min
  <2>4. SelectInSeq(s, LAMBDA v : v = e) = i
    BY <2>2, <2>3 DEF SelectInSeq
  <2>5. r = SubSeq(s, 1, i - 1) \o SubSeq(s, i + 1, Len(s))
    BY <2>1, <2>4 DEF RemoveFirst, RemoveAt
  <2> DEFINE a == SubSeq(s, 1, i - 1)
             b == SubSeq(s, i + 1, Len(s))
  <2>6. /\ a \in Seq(X) /\ Len(a) = i - 1 /\ b \in Seq(X) /\ Len(b) = Len(s) - i
        /\ \A j \in 1..i - 1 : a[j] = s[j]
        /\ \A j \in 1..Len(s) - i : b[j] = s[j + i]
    <3>1. \A j \in 1..i - 1 : s[j] \in X
      BY <1>0
    <3>2. \A j \in i + 1..Len(s) : s[j] \in X
      BY <1>0
    <3>3. a \in Seq(X) /\ Len(a) = i - 1 /\ \A j \in 1..i - 1 : a[j] = s[j]
      BY <1>0, <3>1, SubSeqProperties
    <3>4. /\ b \in Seq(X) /\ Len(b) = Len(s) - i
          /\ \A j \in 1..Len(s) - (i + 1) + 1 : b[j] = s[(i + 1) + j - 1]
      <4>1. /\ b \in Seq(X)
            /\ Len(b) = IF i + 1 <= Len(s) THEN Len(s) - (i + 1) + 1 ELSE 0
            /\ \A j \in 1..Len(s) - (i + 1) + 1 : b[j] = s[(i + 1) + j - 1]
        BY <1>0, <3>2, SubSeqProperties
      <4> HIDE DEF b
      <4>2. Len(s) \in Nat /\ i \in Nat /\ i <= Len(s)
        BY <1>0
      <4> DEFINE L == Len(s)
      <4>3. L \in Nat /\ i \in Nat /\ i <= L
        BY <4>2
      <4> HIDE DEF L
      <4>4. (IF i + 1 <= L THEN L - (i + 1) + 1 ELSE 0) = L - i
        BY <4>3
      <4>5. Len(b) = Len(s) - i
        BY <4>1, <4>4 DEF L
      <4> QED
        BY <4>1, <4>5
    <3>5. ASSUME NEW j \in 1..Len(s) - i PROVE b[j] = s[j + i]
      <4>1. j \in 1..Len(s) - (i + 1) + 1 /\ (i + 1) + j - 1 = j + i
        BY <1>0
      <4>2. b[j] = s[(i + 1) + j - 1]
        BY <3>4, <4>1
      <4> QED
        BY <4>1, <4>2
    <3> QED
      BY <3>3, <3>4, <3>5
  <2> HIDE DEF a, b
  <2>7. r = a \o b
    BY <2>5 DEF a, b
  <2> HIDE DEF r
  <2>8. /\ r \in Seq(X) /\ Len(r) = Len(s) - 1 /\ DOMAIN r = 1..Len(s) - 1
        /\ \A j \in 1..i - 1 : r[j] = s[j]
        /\ \A j \in i..Len(s) - 1 : r[j] = s[j + 1]
    <3>1. /\ r \in Seq(X) /\ Len(r) = Len(a) + Len(b)
          /\ \A j \in 1..Len(a) + Len(b) : r[j] = IF j <= Len(a) THEN a[j] ELSE b[j - Len(a)]
      BY <2>6, <2>7, ConcatProperties
    <3>2. Len(a) + Len(b) = Len(s) - 1 /\ DOMAIN r = 1..Len(r)
      BY <1>0, <2>6, <3>1
    <3>3. ASSUME NEW j \in 1..i - 1 PROVE r[j] = s[j]
      <4>1. j \in 1..Len(a) + Len(b) /\ j <= Len(a)
        BY <1>0, <2>6, <3>2
      <4> QED
        BY <2>6, <3>1, <4>1
    <3>4. ASSUME NEW j \in i..Len(s) - 1 PROVE r[j] = s[j + 1]
      <4>1. j - (i - 1) \in 1..Len(s) - i /\ (j - (i - 1)) + i = j + 1
        BY <1>0
      <4>2. r[j] = b[j - (i - 1)]
        <5>1. j \in 1..Len(a) + Len(b) /\ Len(a) = i - 1 /\ ~(j <= Len(a))
          BY <1>0, <2>6, <3>2
        <5> QED
          BY <3>1, <5>1
      <4> QED
        BY <2>6, <4>1, <4>2
    <3> QED
      BY <3>1, <3>2, <3>3, <3>4
  <2>9. \A j \in 1..Len(s) - 1 :
          \/ j < i /\ r[j] = s[j]
          \/ j >= i /\ j + 1 \in 1..Len(s) /\ r[j] = s[j + 1]
    BY <1>0, <2>8
  <2>10. IsInjective(r)
    <3> SUFFICES ASSUME NEW j \in 1..Len(s) - 1, NEW k \in 1..Len(s) - 1, r[j] = r[k]
                 PROVE  j = k
      BY <2>8 DEF IsInjective
    <3>1. \A m, n \in 1..Len(s) : s[m] = s[n] => m = n
      BY <1>0 DEF IsInjective
    <3>2. j \in 1..Len(s) /\ k \in 1..Len(s)
      BY <1>0
    <3> QED
      BY <2>9, <3>1, <3>2
  <2>11. \A j \in 1..Len(s) - 1 : r[j] \in Range(s) \ {e}
    BY <1>0, <2>1, <2>2, <2>9 DEF Range
  <2>12. \A x \in Range(s) \ {e} : \E j \in 1..Len(s) - 1 : r[j] = x
    <3> TAKE x \in Range(s) \ {e}
    <3>1. PICK j \in 1..Len(s) : s[j] = x
      BY <1>0 DEF Range
    <3>2. CASE j < i
      BY <1>0, <2>8, <3>1, <3>2
    <3>3. CASE j > i
      <4>1. j - 1 \in i..Len(s) - 1 /\ (j - 1) + 1 = j
        BY <1>0, <2>1, <3>1, <3>3
      <4>2. r[j - 1] = x
        BY <2>8, <3>1, <4>1
      <4> QED
        BY <1>0, <4>1, <4>2
    <3> QED
      BY <2>1, <3>1, <3>2, <3>3
  <2>13. Range(r) = Range(s) \ {e}
    <3>1. Range(r) = {r[j] : j \in 1..Len(s) - 1}
      BY <2>8 DEF Range
    <3> QED
      BY <2>11, <2>12, <3>1
  <2> QED
    BY <2>8, <2>10, <2>13 DEF r
<1> QED
  BY <1>1, <1>2

\* What is left of it without the ids of a tab, and without those of a group.
LEMMA WithoutIs ==
  ASSUME NEW X, NEW s \in Seq(X), IsInjective(s), NEW Y, NEW ids \in Seq(Y)
  PROVE  /\ Without(s, ids) \in Seq(X) /\ IsInjective(Without(s, ids))
         /\ Range(Without(s, ids)) = Range(s) \ Range(ids)
<1> DEFINE N == Len(ids)
           Lists == {l \in Seq(X) : IsInjective(l)}
           step == [p \in (1..N) \X Lists |-> RemoveFirst(p[2], ids[p[1]])]
           Solves(f) == f = [n \in 0..N |-> IF n = 0 THEN s ELSE RemoveFirst(f[n - 1], ids[n])]
           rest == CHOOSE f : Solves(f)
<1>1. \A n \in 1..N, l \in Lists :
        step[<<n, l>>] = RemoveFirst(l, ids[n]) /\ step[<<n, l>>] \in Lists
  <2> TAKE n \in 1..N, l \in Lists
  <2>1. step[<<n, l>>] = RemoveFirst(l, ids[n])
    OBVIOUS
  <2> HIDE DEF step
  <2> QED
    BY <2>1, RemoveFirstIs
<1>2. N \in Nat /\ s \in Lists
  OBVIOUS
<1> HIDE DEF step, Lists, N
<1>3. PICK f : Loops(f, N, s, step) /\ \A n \in 0..N : f[n] \in Lists
  <2>1. \A n \in 1..N, l \in Lists : step[<<n, l>>] \in Lists
    BY <1>1
  <2> QED
    BY <1>2, <2>1, Iterates
<1>4. Solves(f)
  <2>1. \A n \in 0..N : (IF n = 0 THEN s ELSE step[<<n, f[n - 1]>>])
                      = (IF n = 0 THEN s ELSE RemoveFirst(f[n - 1], ids[n]))
    <3> SUFFICES ASSUME NEW n \in 0..N, n # 0
                 PROVE  step[<<n, f[n - 1]>>] = RemoveFirst(f[n - 1], ids[n])
      OBVIOUS
    <3>1. n \in 1..N /\ n - 1 \in 0..N
      BY <1>2
    <3> QED
      BY <1>1, <1>3, <3>1
  <2> QED
    BY <1>3, <2>1 DEF Loops
<1>5. Solves(rest)
  BY <1>4
<1>6. Without(s, ids) = rest[N]
  BY DEF Without, N
<1> HIDE DEF rest
<1> DEFINE T == {n \in 0..N : rest[n] \in Lists /\ Range(rest[n]) = Range(s) \ {ids[i] : i \in 1..n}}
<1>7. 0 \in T
  BY <1>2, <1>5
<1>8. ASSUME NEW n \in 1..N, n - 1 \in T PROVE n \in T
  <2>1. n \in 0..N /\ rest[n] = RemoveFirst(rest[n - 1], ids[n])
    BY <1>2, <1>5
  <2>2. /\ rest[n] \in Lists
        /\ Range(rest[n]) = Range(rest[n - 1]) \ {ids[n]}
    BY <1>8, <2>1, RemoveFirstIs DEF Lists
  <2>3. {ids[i] : i \in 1..n} = {ids[i] : i \in 1..n - 1} \cup {ids[n]}
    BY <1>2
  <2> QED
    BY <1>8, <2>1, <2>2, <2>3
<1> HIDE DEF T
<1>9. N \in T
  <2>1. \A n \in 0..N : n \in T
    BY <1>2, <1>7, <1>8, Steps
  <2> QED
    BY <1>2, <2>1
<1>10. Range(ids) = {ids[i] : i \in 1..N}
  BY DEF Range, N
<1> QED
  BY <1>6, <1>9, <1>10 DEF T, Lists

IdsOf(g) == UNION {Ids(g, t) : t \in Tabs(g)}

LEMMA TabFacts ==
  /\ \A g \in DOMAIN Groups :
       /\ g \in 1..Len(Groups) /\ Groups[g].independent \in BOOLEAN
       /\ Len(Groups[g].tabs) \in Nat /\ Tabs(g) = 1..Len(Groups[g].tabs)
       /\ \A t \in Tabs(g) : Groups[g].tabs[t].ids \in Seq(Ids(g, t))
  /\ Len(Groups) \in Nat /\ DOMAIN Groups = 1..Len(Groups)
<1>1. Groups \in Seq(Range(Groups)) /\ Len(Groups) \in Nat /\ DOMAIN Groups = 1..Len(Groups)
  BY GroupsAssumption
<1>2. ASSUME NEW g \in DOMAIN Groups
      PROVE  /\ g \in 1..Len(Groups) /\ Groups[g].independent \in BOOLEAN
             /\ Len(Groups[g].tabs) \in Nat /\ Tabs(g) = 1..Len(Groups[g].tabs)
             /\ \A t \in Tabs(g) : Groups[g].tabs[t].ids \in Seq(Ids(g, t))
  <2>1. Groups[g] \in Range(Groups)
    BY DEF Range
  <2>2. Groups[g].tabs \in Seq(Range(Groups[g].tabs)) /\ Groups[g].independent \in BOOLEAN
    BY <2>1, GroupsAssumption
  <2>3. Len(Groups[g].tabs) \in Nat /\ DOMAIN Groups[g].tabs = 1..Len(Groups[g].tabs)
    BY <2>2
  <2>4. \A t \in Tabs(g) : Groups[g].tabs[t] \in Range(Groups[g].tabs)
    BY DEF Range, Tabs
  <2>5. \A t \in Tabs(g) : Groups[g].tabs[t].ids \in Seq(Range(Groups[g].tabs[t].ids))
    BY <2>1, <2>4, GroupsAssumption
  <2> QED
    BY <1>1, <2>2, <2>3, <2>5 DEF Tabs, Ids
<1> QED
  BY <1>1, <1>2

LEMMA DeselectedIs ==
  ASSUME NEW X, NEW s \in Seq(X), IsInjective(s), NEW g \in DOMAIN Groups
  PROVE  /\ Deselected(s, g) \in Seq(X) /\ IsInjective(Deselected(s, g))
         /\ Range(Deselected(s, g)) = Range(s) \ IdsOf(g)
<1> DEFINE N == Len(Groups[g].tabs)
           ids(n) == Groups[g].tabs[n].ids
           Lists == {l \in Seq(X) : IsInjective(l)}
           step == [p \in (1..N) \X Lists |-> Without(p[2], ids(p[1]))]
           Solves(f) == f = [n \in 0..N |-> IF n = 0 THEN s ELSE Without(f[n - 1], ids(n))]
           rest == CHOOSE f : Solves(f)
<1>0. N \in Nat /\ Tabs(g) = 1..N /\ \A n \in 1..N : ids(n) \in Seq(Ids(g, n))
  BY TabFacts
<1>00. \A n \in 1..N : Range(ids(n)) = Ids(g, n)
  BY DEF Ids
<1>6. Deselected(s, g) = rest[N]
  BY DEF Deselected
<1> HIDE DEF N, ids
<1>1. \A n \in 1..N, l \in Lists :
        step[<<n, l>>] = Without(l, ids(n)) /\ step[<<n, l>>] \in Lists
  <2> TAKE n \in 1..N, l \in Lists
  <2>1. step[<<n, l>>] = Without(l, ids(n))
    OBVIOUS
  <2> HIDE DEF step
  <2> QED
    BY <1>0, <2>1, WithoutIs
<1>2. s \in Lists
  OBVIOUS
<1> HIDE DEF step, Lists
<1>3. PICK f : Loops(f, N, s, step) /\ \A n \in 0..N : f[n] \in Lists
  <2>1. \A n \in 1..N, l \in Lists : step[<<n, l>>] \in Lists
    BY <1>1
  <2> QED
    BY <1>0, <1>2, <2>1, Iterates
<1>4. Solves(f)
  <2>1. \A n \in 0..N : (IF n = 0 THEN s ELSE step[<<n, f[n - 1]>>])
                      = (IF n = 0 THEN s ELSE Without(f[n - 1], ids(n)))
    <3> SUFFICES ASSUME NEW n \in 0..N, n # 0
                 PROVE  step[<<n, f[n - 1]>>] = Without(f[n - 1], ids(n))
      OBVIOUS
    <3>1. n \in 1..N /\ n - 1 \in 0..N
      BY <1>0
    <3> QED
      BY <1>1, <1>3, <3>1
  <2> QED
    BY <1>3, <2>1 DEF Loops
<1>5. Solves(rest)
  BY <1>4
<1> HIDE DEF rest
<1> DEFINE T == {n \in 0..N : rest[n] \in Lists
                              /\ Range(rest[n]) = Range(s) \ UNION {Ids(g, i) : i \in 1..n}}
<1>7. 0 \in T
  BY <1>0, <1>2, <1>5
<1>8. ASSUME NEW n \in 1..N, n - 1 \in T PROVE n \in T
  <2>1. n \in 0..N /\ rest[n] = Without(rest[n - 1], ids(n))
    BY <1>0, <1>5
  <2>2. /\ rest[n] \in Lists
        /\ Range(rest[n]) = Range(rest[n - 1]) \ Ids(g, n)
    <3>1. rest[n - 1] \in Seq(X) /\ IsInjective(rest[n - 1]) /\ ids(n) \in Seq(Ids(g, n))
      BY <1>0, <1>8 DEF Lists
    <3> DEFINE l == rest[n - 1]
               i == ids(n)
    <3>2. l \in Seq(X) /\ IsInjective(l) /\ i \in Seq(Ids(g, n)) /\ Range(i) = Ids(g, n)
      BY <1>00, <3>1
    <3>3. rest[n] = Without(l, i)
      BY <2>1
    <3>4. Range(rest[n - 1]) = Range(l)
      OBVIOUS
    <3> HIDE DEF l, i
    <3>5. /\ Without(l, i) \in Seq(X) /\ IsInjective(Without(l, i))
          /\ Range(Without(l, i)) = Range(l) \ Range(i)
      BY <3>2, WithoutIs
    <3> QED
      BY <3>2, <3>3, <3>4, <3>5 DEF Lists
  <2>3. UNION {Ids(g, i) : i \in 1..n} = (UNION {Ids(g, i) : i \in 1..n - 1}) \cup Ids(g, n)
    BY <1>0
  <2> QED
    BY <1>8, <2>1, <2>2, <2>3
<1> HIDE DEF T
<1>9. N \in T
  <2>1. \A n \in 0..N : n \in T
    BY <1>0, <1>7, <1>8, Steps
  <2> QED
    BY <1>0, <2>1
<1> QED
  BY <1>0, <1>6, <1>9 DEF T, Lists, IdsOf

-------------------------------------------------------------------------------
\* Groups that have a tab in common have all of them in common.
Kin(g, h) == Range(Groups[g].tabs) = Range(Groups[h].tabs)

FirstIds == UNION {{FirstOf(g, t) : t \in Tabs(g)} : g \in Dependent}

\* The list has first ids of tabs, of each group one at most, and none twice.
Held(list) ==
  /\ list \in Seq(FirstIds) /\ IsInjective(list)
  /\ \A g \in Dependent : \A t, u \in Tabs(g) :
       FirstOf(g, t) \in Range(list) /\ FirstOf(g, u) \in Range(list) => t = u

LEMMA FirstIsId ==
  ASSUME Coherent, NEW g \in DOMAIN Groups, NEW t \in Tabs(g)
  PROVE  FirstOf(g, t) \in Ids(g, t)
<1> DEFINE ids == Groups[g].tabs[t].ids
<1>1. ids \in Seq(Ids(g, t)) /\ ids # <<>>
  BY TabFacts DEF Coherent, HasTabs
<1>2. Ids(g, t) = Range(ids) /\ FirstOf(g, t) = ids[1]
  BY DEF Ids, FirstOf
<1> HIDE DEF ids
<1>3. 1 \in DOMAIN ids
  BY <1>1
<1> QED
  BY <1>2, <1>3 DEF Range

LEMMA InIdsOf ==
  ASSUME NEW g, NEW t \in Tabs(g)
  PROVE  Ids(g, t) \subseteq IdsOf(g)
BY DEF IdsOf

LEMMA KinTab ==
  ASSUME NEW g \in DOMAIN Groups, NEW h \in DOMAIN Groups, Kin(g, h), NEW t \in Tabs(g)
  PROVE  \E u \in Tabs(h) :
           /\ Groups[h].tabs[u] = Groups[g].tabs[t]
           /\ Ids(h, u) = Ids(g, t) /\ FirstOf(h, u) = FirstOf(g, t)
           /\ \A list : Offered(list, h, u) = Offered(list, g, t)
<1>1. Groups[g].tabs[t] \in Range(Groups[h].tabs)
  BY DEF Range, Kin, Tabs
<1>2. PICK u \in Tabs(h) : Groups[h].tabs[u] = Groups[g].tabs[t]
  BY <1>1 DEF Range, Tabs
<1>3. Ids(h, u) = Ids(g, t) /\ FirstOf(h, u) = FirstOf(g, t)
  BY <1>2 DEF Ids, FirstOf
<1>4. \A list : Offered(list, h, u) = Offered(list, g, t)
  BY <1>2 DEF Offered
<1> QED
  BY <1>2, <1>3, <1>4

\* Tabs that share an id are the same.
LEMMA SameTab ==
  ASSUME Coherent, NEW g \in Dependent, NEW h \in Dependent,
         NEW t \in Tabs(g), NEW u \in Tabs(h), Ids(g, t) \cap Ids(h, u) # {}
  PROVE  /\ Kin(g, h) /\ Kin(h, g) /\ Groups[g].tabs[t] = Groups[h].tabs[u]
         /\ Ids(g, t) = Ids(h, u) /\ FirstOf(g, t) = FirstOf(h, u)
         /\ \A list : Offered(list, g, t) = Offered(list, h, u)
<1>0. g \in DOMAIN Groups /\ h \in DOMAIN Groups
  BY DEF Dependent
<1>1. Kin(g, h) /\ Kin(h, g)
  BY DEF Coherent, GroupsAgree, Kin
<1>2. PICK v \in Tabs(h) :
        /\ Groups[h].tabs[v] = Groups[g].tabs[t]
        /\ Ids(h, v) = Ids(g, t) /\ FirstOf(h, v) = FirstOf(g, t)
        /\ \A list : Offered(list, h, v) = Offered(list, g, t)
  BY <1>0, <1>1, KinTab
<1>3. u = v
  BY <1>0, <1>2 DEF Coherent, TabsApart
<1> QED
  BY <1>1, <1>2, <1>3

LEMMA SameIds ==
  ASSUME Coherent, NEW g \in Dependent, NEW h \in Dependent, Kin(g, h)
  PROVE  IdsOf(g) = IdsOf(h)
<1>0. g \in DOMAIN Groups /\ h \in DOMAIN Groups /\ Kin(h, g)
  BY DEF Dependent, Kin
<1>1. \A t \in Tabs(g) : \E u \in Tabs(h) : Ids(h, u) = Ids(g, t)
  BY <1>0, KinTab
<1>2. \A t \in Tabs(h) : \E u \in Tabs(g) : Ids(g, u) = Ids(h, t)
  BY <1>0, KinTab
<1> QED
  BY <1>1, <1>2 DEF IdsOf

\* Each id of the list is the first one of a tab.
LEMMA HeldIds ==
  ASSUME NEW list, Held(list), NEW id \in Range(list)
  PROVE  \E g \in Dependent : \E t \in Tabs(g) : id = FirstOf(g, t)
<1>1. id \in FirstIds
  <2>1. PICK i \in DOMAIN list : id = list[i]
    BY DEF Range
  <2> QED
    BY <2>1 DEF Held
<1> QED
  BY <1>1 DEF FirstIds

LEMMA HeldIsFirst ==
  ASSUME Coherent, NEW list, Held(list), NEW g \in Dependent, NEW t \in Tabs(g)
  PROVE  /\ Ids(g, t) \cap Range(list) # {} => FirstOf(g, t) \in Range(list)
         /\ FirstOf(g, t) \in Range(list) => Ids(g, t) \cap Range(list) # {}
<1>0. g \in DOMAIN Groups
  BY DEF Dependent
<1>1. ASSUME Ids(g, t) \cap Range(list) # {} PROVE FirstOf(g, t) \in Range(list)
  <2>1. PICK id \in Range(list) : id \in Ids(g, t)
    BY <1>1
  <2>2. PICK h \in Dependent : \E u \in Tabs(h) : id = FirstOf(h, u)
    BY HeldIds
  <2>3. PICK u \in Tabs(h) : id = FirstOf(h, u)
    BY <2>2
  <2>4. h \in DOMAIN Groups /\ id \in Ids(h, u)
    BY <2>3, FirstIsId DEF Dependent
  <2>5. Ids(g, t) \cap Ids(h, u) # {}
    BY <2>1, <2>4
  <2>6. FirstOf(g, t) = FirstOf(h, u)
    BY <2>5, SameTab
  <2> QED
    BY <2>3, <2>6
<1>2. FirstOf(g, t) \in Ids(g, t)
  BY <1>0, FirstIsId
<1> QED
  BY <1>1, <1>2

LEMMA HeldOne ==
  ASSUME Coherent, NEW list, Held(list), NEW g \in Dependent,
         NEW t \in Tabs(g), NEW u \in Tabs(g), Chosen(list, g, t), Chosen(list, g, u)
  PROVE  t = u
<1>1. FirstOf(g, t) \in Range(list) /\ FirstOf(g, u) \in Range(list)
  BY HeldIsFirst DEF Chosen
<1> QED
  BY <1>1 DEF Held

\* A group always has a tab to offer.
LEMMA FirstOfferedIs ==
  ASSUME Coherent, NEW list, NEW g \in DOMAIN Groups
  PROVE  FirstOffered(list, g) \in Tabs(g) /\ Offered(list, g, FirstOffered(list, g))
<1> DEFINE N == Len(Groups[g].tabs)
           P(t) == Offered(list, g, t)
           T == {t \in 0..N : ~(t \in Tabs(g) /\ P(t))}
<1>0. N \in Nat /\ Tabs(g) = 1..N
  BY TabFacts
<1>1. \E t \in Tabs(g) : P(t)
  BY DEF Coherent, HasTabs, Offered
<1>2. \E t \in Tabs(g) : P(t) /\ \A u \in 1..t - 1 : ~P(u)
  <2> HIDE DEF N, P
  <2> SUFFICES ASSUME ~\E t \in Tabs(g) : P(t) /\ \A u \in 1..t - 1 : ~P(u)
               PROVE  FALSE
    OBVIOUS
  <2>1. ASSUME NEW m \in 0..N, \A j \in 0..N : j < m => j \in T
        PROVE  m \in T
    <3> SUFFICES ASSUME m \in Tabs(g), P(m) PROVE FALSE
      OBVIOUS
    <3>1. \A u \in 1..m - 1 : ~P(u)
      BY <1>0, <2>1
    <3> QED
      BY <3>1
  <2> HIDE DEF T
  <2>2. \A m \in 0..N : m \in T
    BY <1>0, <2>1, UpTo
  <2>3. \A m \in 0..N : ~(m \in Tabs(g) /\ P(m))
    BY <2>2 DEF T
  <2> QED
    BY <1>0, <1>1, <2>3
<1> QED
  BY <1>2 DEF FirstOffered

-------------------------------------------------------------------------------
Flags == UNION {[Tabs(g) -> BOOLEAN] : g \in DOMAIN Groups}

TabStates == [selectedTabs : {list \in Seq(FirstIds) : Held(list)},
              visible : [DOMAIN Groups -> Flags], selected : [DOMAIN Groups -> Flags]]

LEMMA FlagsOf ==
  ASSUME NEW g \in DOMAIN Groups, NEW f \in [Tabs(g) -> BOOLEAN]
  PROVE  f \in Flags
BY DEF Flags

LEMMA AppendIs ==
  ASSUME NEW X, NEW s \in Seq(X), IsInjective(s), NEW x \in X, x \notin Range(s)
  PROVE  /\ Append(s, x) \in Seq(X) /\ IsInjective(Append(s, x))
         /\ Range(Append(s, x)) = Range(s) \cup {x}
<1> DEFINE r == Append(s, x)
<1>1. /\ Len(s) \in Nat /\ DOMAIN s = 1..Len(s) /\ r \in Seq(X) /\ Len(r) = Len(s) + 1
      /\ DOMAIN r = 1..Len(s) + 1 /\ r[Len(s) + 1] = x /\ \A i \in 1..Len(s) : r[i] = s[i]
  OBVIOUS
<1> HIDE DEF r
<1>2. \A i \in 1..Len(s) : s[i] # x
  BY <1>1 DEF Range
<1>3. \A i \in 1..Len(s) + 1 : i \in 1..Len(s) \/ i = Len(s) + 1
  BY <1>1
<1>4. IsInjective(r)
  BY <1>1, <1>2, <1>3 DEF IsInjective
<1>5. Range(r) = Range(s) \cup {x}
  <2>1. \A i \in 1..Len(s) : i \in 1..Len(s) + 1
    BY <1>1
  <2>2. Len(s) + 1 \in 1..Len(s) + 1
    BY <1>1
  <2>3. Range(r) = {r[i] : i \in 1..Len(s) + 1} /\ Range(s) = {s[i] : i \in 1..Len(s)}
    BY <1>1 DEF Range
  <2> QED
    BY <1>1, <1>3, <2>1, <2>2, <2>3
<1> QED
  BY <1>1, <1>4, <1>5 DEF r

\* A list that has lost the ids of a group may take one of its tabs.
LEMMA HeldAfter ==
  ASSUME Coherent, NEW list, Held(list), NEW g \in Dependent, NEW t \in Tabs(g),
         NEW rest \in Seq(FirstIds), IsInjective(rest), Range(rest) = Range(list) \ IdsOf(g)
  PROVE  /\ Held(Append(rest, FirstOf(g, t)))
         /\ Range(Append(rest, FirstOf(g, t))) = (Range(list) \ IdsOf(g)) \cup {FirstOf(g, t)}
<1> DEFINE id == FirstOf(g, t)
           r == Append(rest, id)
<1>0. g \in DOMAIN Groups
  BY DEF Dependent
<1>1. id \in FirstIds /\ id \in IdsOf(g) /\ id \notin Range(rest)
  BY <1>0, FirstIsId, InIdsOf DEF FirstIds
<1>2. /\ r \in Seq(FirstIds) /\ IsInjective(r) /\ Range(r) = (Range(list) \ IdsOf(g)) \cup {id}
  <2> HIDE DEF id
  <2> QED
    BY <1>1, AppendIs
<1>3. ASSUME NEW h \in Dependent, NEW u \in Tabs(h), NEW v \in Tabs(h),
             FirstOf(h, u) = id, FirstOf(h, v) \in Range(list) \ IdsOf(g)
      PROVE  FALSE
  <2>1. h \in DOMAIN Groups
    BY DEF Dependent
  <2>2. Ids(h, u) \cap Ids(g, t) # {}
    BY <1>0, <1>3, <2>1, FirstIsId
  <2>3. IdsOf(h) = IdsOf(g)
    BY <2>2, SameTab, SameIds
  <2>4. FirstOf(h, v) \in IdsOf(h)
    BY <2>1, FirstIsId, InIdsOf
  <2> QED
    BY <1>3, <2>3, <2>4
<1>4. ASSUME NEW h \in Dependent, NEW u \in Tabs(h), NEW v \in Tabs(h),
             FirstOf(h, u) = FirstOf(h, v)
      PROVE  u = v
  <2>1. h \in DOMAIN Groups
    BY DEF Dependent
  <2>2. Ids(h, u) \cap Ids(h, v) # {}
    BY <1>4, <2>1, FirstIsId
  <2> QED
    BY <2>1, <2>2 DEF Coherent, TabsApart
<1>5. ASSUME NEW h \in Dependent, NEW u \in Tabs(h), NEW v \in Tabs(h),
             FirstOf(h, u) \in Range(r), FirstOf(h, v) \in Range(r)
      PROVE  u = v
  <2>1. CASE FirstOf(h, u) \in Range(list) \ IdsOf(g) /\ FirstOf(h, v) \in Range(list) \ IdsOf(g)
    BY <2>1 DEF Held
  <2>2. CASE FirstOf(h, u) = id /\ FirstOf(h, v) = id
    BY <1>4, <2>2
  <2>3. CASE FirstOf(h, u) = id /\ FirstOf(h, v) \in Range(list) \ IdsOf(g)
    BY <1>3, <2>3
  <2>4. CASE FirstOf(h, v) = id /\ FirstOf(h, u) \in Range(list) \ IdsOf(g)
    BY <1>3, <2>4
  <2> QED
    BY <1>2, <1>5, <2>1, <2>2, <2>3, <2>4
<1> HIDE DEF r, id
<1>6. Held(r)
  BY <1>2, <1>5 DEF Held
<1> QED
  BY <1>2, <1>6 DEF r, id

\* What is done for one group: it takes the tab that the list chooses, or
\* another one takes the place of its tabs in the list.
LEMMA UpdatedIs ==
  ASSUME Coherent, NEW state \in TabStates, NEW g \in Dependent
  PROVE  LET list == state.selectedTabs
             next == Updated(state, g)
         IN  /\ next \in TabStates
             /\ \A h \in DOMAIN Groups \ {g} :
                  next.visible[h] = state.visible[h] /\ next.selected[h] = state.selected[h]
             /\ next.visible[g] = [t \in Tabs(g) |-> Offered(list, g, t)]
             /\ \E t \in Tabs(g) :
                  /\ Offered(list, g, t)
                  /\ next.selected[g] = [u \in Tabs(g) |-> u = t]
                  /\ FirstOf(g, t) \in Range(next.selectedTabs)
                  /\ \/ next.selectedTabs = list
                     \/ /\ \A u \in Tabs(g) : ~Chosen(list, g, u)
                        /\ Range(next.selectedTabs) = (Range(list) \ IdsOf(g)) \cup {FirstOf(g, t)}
<1> DEFINE list == state.selectedTabs
           next == Updated(state, g)
           none == ~\E t \in Tabs(g) : Chosen(list, g, t)
           first == FirstOffered(list, g)
           V == [t \in Tabs(g) |-> Offered(list, g, t)]
           S == [t \in Tabs(g) |-> Chosen(list, g, t) \/ (none /\ t = first)]
           L == IF none THEN Append(Deselected(list, g), FirstOf(g, first)) ELSE list
<1>0. /\ g \in DOMAIN Groups /\ list \in Seq(FirstIds) /\ Held(list) /\ IsInjective(list)
      /\ state.visible \in [DOMAIN Groups -> Flags] /\ state.selected \in [DOMAIN Groups -> Flags]
  BY DEF Dependent, TabStates, Held
<1>1. next = [state EXCEPT !.visible[g] = V, !.selected[g] = S, !.selectedTabs = L]
  BY DEF Updated, Update
<1>2. V \in [Tabs(g) -> BOOLEAN] /\ S \in [Tabs(g) -> BOOLEAN]
  BY DEF Offered, Chosen
<1>3. V \in Flags /\ S \in Flags
  BY <1>0, <1>2, FlagsOf
<1>4. first \in Tabs(g) /\ Offered(list, g, first)
  BY <1>0, FirstOfferedIs
<1>5. ASSUME none
      PROVE  Held(L) /\ Range(L) = (Range(list) \ IdsOf(g)) \cup {FirstOf(g, first)}
  <2> DEFINE rest == Deselected(list, g)
  <2>1. rest \in Seq(FirstIds) /\ IsInjective(rest) /\ Range(rest) = Range(list) \ IdsOf(g)
    BY <1>0, DeselectedIs
  <2>2. L = Append(rest, FirstOf(g, first))
    BY <1>5
  <2> HIDE DEF rest, first, L, list
  <2> QED
    BY <1>0, <1>4, <2>1, <2>2, HeldAfter
<1>6. Held(L) /\ L \in Seq(FirstIds)
  BY <1>0, <1>5 DEF Held
<1>7. PICK t \in Tabs(g) :
        /\ Offered(list, g, t) /\ S = [u \in Tabs(g) |-> u = t]
        /\ FirstOf(g, t) \in Range(L)
        /\ \/ L = list
           \/ none /\ Range(L) = (Range(list) \ IdsOf(g)) \cup {FirstOf(g, t)}
  <2>1. CASE none
    <3>1. \A u \in Tabs(g) : S[u] = (u = first)
      BY <2>1
    <3>2. S = [u \in Tabs(g) |-> u = first]
      BY <3>1
    <3> QED
      BY <1>4, <1>5, <2>1, <3>2
  <2>2. CASE ~none
    <3>1. PICK t \in Tabs(g) : Chosen(list, g, t)
      BY <2>2
    <3>2. FirstOf(g, t) \in Range(list) /\ Offered(list, g, t)
      BY <1>0, <3>1, HeldIsFirst DEF Chosen
    <3>3. \A u \in Tabs(g) : Chosen(list, g, u) => u = t
      BY <1>0, <3>1, HeldOne
    <3>4. \A u \in Tabs(g) : Chosen(list, g, u) = (u = t)
      <4>1. \A u \in Tabs(g) : Chosen(list, g, u) \in BOOLEAN
        BY DEF Chosen, Offered
      <4> QED
        BY <3>1, <3>3, <4>1
    <3>5. S = [u \in Tabs(g) |-> u = t]
      BY <2>2, <3>4
    <3> QED
      BY <2>2, <3>2, <3>5
  <2> QED
    BY <2>1, <2>2
<1> HIDE DEF V, S, L, none, list, first
<1>8. /\ next.visible = [state.visible EXCEPT ![g] = V]
      /\ next.selected = [state.selected EXCEPT ![g] = S] /\ next.selectedTabs = L
      /\ next \in TabStates
  <2> HIDE DEF next
  <2> DEFINE A == [state.visible EXCEPT ![g] = V]
             B == [state.selected EXCEPT ![g] = S]
  <2>1. A \in [DOMAIN Groups -> Flags] /\ B \in [DOMAIN Groups -> Flags]
    BY <1>0, <1>3
  <2>2. state = [selectedTabs |-> state.selectedTabs, visible |-> state.visible,
                 selected |-> state.selected]
    BY DEF TabStates
  <2>3. next = [selectedTabs |-> L, visible |-> A, selected |-> B]
    BY <1>1, <2>2
  <2> HIDE DEF A, B
  <2>4. next.visible = A /\ next.selected = B /\ next.selectedTabs = L
    BY <2>3
  <2>5. next \in TabStates
    BY <1>6, <2>1, <2>3 DEF TabStates
  <2> QED
    BY <2>4, <2>5 DEF A, B
<1> HIDE DEF next
<1>9. /\ next.visible[g] = V /\ next.selected[g] = S
      /\ \A h \in DOMAIN Groups \ {g} :
           next.visible[h] = state.visible[h] /\ next.selected[h] = state.selected[h]
  BY <1>0, <1>8
<1> QED
  BY <1>7, <1>8, <1>9 DEF next, V, list, none

-------------------------------------------------------------------------------
\* A group that is as the list has it.
Settled(state, g) ==
  /\ state.visible[g] = [t \in Tabs(g) |-> Offered(state.selectedTabs, g, t)]
  /\ \E t \in Tabs(g) : /\ Offered(state.selectedTabs, g, t)
                        /\ FirstOf(g, t) \in Range(state.selectedTabs)
                        /\ state.selected[g] = [u \in Tabs(g) |-> u = t]

SettledTo(state, k) == \A j \in Dependent : j <= k => Settled(state, j)

\* A tab that is chosen in a group is chosen in the groups that share its ids.
LEMMA ChosenInKin ==
  ASSUME Coherent, NEW list, NEW g \in Dependent, NEW h \in Dependent,
         IdsOf(g) \cap IdsOf(h) # {},
         NEW t \in Tabs(g), Offered(list, g, t), FirstOf(g, t) \in Range(list)
  PROVE  \E u \in Tabs(h) : Chosen(list, h, u) /\ FirstOf(h, u) = FirstOf(g, t)
<1>0. g \in DOMAIN Groups /\ h \in DOMAIN Groups
  BY DEF Dependent
<1>1. PICK v \in Tabs(g), w \in Tabs(h) : Ids(g, v) \cap Ids(h, w) # {}
  BY DEF IdsOf
<1>2. Kin(g, h)
  BY <1>1, SameTab
<1>3. PICK u \in Tabs(h) :
        /\ Ids(h, u) = Ids(g, t) /\ FirstOf(h, u) = FirstOf(g, t)
        /\ \A l : Offered(l, h, u) = Offered(l, g, t)
  BY <1>0, <1>2, KinTab
<1>4. FirstOf(h, u) \in Ids(h, u)
  BY <1>0, FirstIsId
<1> QED
  BY <1>3, <1>4 DEF Chosen

\* A group that the list has no tab for shares no id with those before it, and
\* none of its ids is the condition of a tab up to there.
LEMMA NoneIsNew ==
  ASSUME Coherent, NEW state, NEW g \in Dependent, SettledTo(state, g - 1),
         \A u \in Tabs(g) : ~Chosen(state.selectedTabs, g, u)
  PROVE  /\ \A e \in Dependent : e <= g - 1 => IdsOf(e) \cap IdsOf(g) = {}
         /\ \A e \in Dependent : \A v \in Tabs(e) :
              e <= g => Groups[e].tabs[v].condition \notin IdsOf(g)
<1>0. Dependent \subseteq Nat
  BY TabFacts DEF Dependent
<1>1. ASSUME NEW e \in Dependent, e <= g - 1, IdsOf(e) \cap IdsOf(g) # {}
      PROVE  FALSE
  <2>1. PICK t \in Tabs(e) : /\ Offered(state.selectedTabs, e, t)
                             /\ FirstOf(e, t) \in Range(state.selectedTabs)
    BY <1>1 DEF SettledTo, Settled
  <2> QED
    BY <1>1, <2>1, ChosenInKin
<1>2. ASSUME NEW e \in Dependent, NEW v \in Tabs(e), e <= g,
             Groups[e].tabs[v].condition \in IdsOf(g)
      PROVE  FALSE
  <2> DEFINE c == Groups[e].tabs[v].condition
  <2>1. PICK u \in Tabs(g) : c \in Ids(g, u)
    BY <1>2 DEF IdsOf
  <2>2. PICK d \in Dependent : d < e /\ \E w \in Tabs(d) : c \in Ids(d, w)
    BY <2>1 DEF Coherent, ConditionsComeBefore
  <2>3. c \in IdsOf(d)
    BY <2>2 DEF IdsOf
  <2>4. d <= g - 1
    BY <1>0, <1>2, <2>2
  <2> QED
    BY <1>1, <1>2, <2>3, <2>4
<1> QED
  BY <1>1, <1>2

\* The groups before one stay as they are when it is updated, and it joins them.
LEMMA SettleNext ==
  ASSUME Coherent, NEW state \in TabStates, NEW g \in Dependent, SettledTo(state, g - 1)
  PROVE  SettledTo(Updated(state, g), g)
<1> DEFINE next == Updated(state, g)
           list == state.selectedTabs
           after == next.selectedTabs
<1>0. g \in DOMAIN Groups /\ Dependent \subseteq Nat /\ Dependent \subseteq DOMAIN Groups
  BY TabFacts DEF Dependent
<1>1. /\ \A h \in DOMAIN Groups \ {g} :
           next.visible[h] = state.visible[h] /\ next.selected[h] = state.selected[h]
      /\ next.visible[g] = [t \in Tabs(g) |-> Offered(list, g, t)]
      /\ \E t \in Tabs(g) :
           /\ Offered(list, g, t)
           /\ next.selected[g] = [u \in Tabs(g) |-> u = t]
           /\ FirstOf(g, t) \in Range(after)
           /\ \/ after = list
              \/ /\ \A u \in Tabs(g) : ~Chosen(list, g, u)
                 /\ Range(after) = (Range(list) \ IdsOf(g)) \cup {FirstOf(g, t)}
  BY UpdatedIs
<1>2. PICK t \in Tabs(g) :
        /\ Offered(list, g, t)
        /\ next.selected[g] = [u \in Tabs(g) |-> u = t]
        /\ FirstOf(g, t) \in Range(after)
        /\ \/ after = list
           \/ /\ \A u \in Tabs(g) : ~Chosen(list, g, u)
              /\ Range(after) = (Range(list) \ IdsOf(g)) \cup {FirstOf(g, t)}
  BY <1>1
<1> HIDE DEF next, after
<1>3. ASSUME NEW j \in Dependent, j <= g
      PROVE  /\ \A u \in Tabs(j) : Offered(after, j, u) = Offered(list, j, u)
             /\ j # g => \A u \in Tabs(j) : FirstOf(j, u) \in Range(list) => FirstOf(j, u) \in Range(after)
  <2>1. CASE after = list
    BY <2>1
  <2>2. CASE /\ \A u \in Tabs(g) : ~Chosen(list, g, u)
             /\ Range(after) = (Range(list) \ IdsOf(g)) \cup {FirstOf(g, t)}
    <3>1. /\ \A e \in Dependent : e <= g - 1 => IdsOf(e) \cap IdsOf(g) = {}
          /\ \A v \in Tabs(j) : Groups[j].tabs[v].condition \notin IdsOf(g)
      BY <1>3, <2>2, NoneIsNew
    <3>2. FirstOf(g, t) \in IdsOf(g)
      BY <1>0, FirstIsId, InIdsOf
    <3>3. \A u \in Tabs(j) : Offered(after, j, u) = Offered(list, j, u)
      BY <2>2, <3>1, <3>2 DEF Offered
    <3>4. ASSUME j # g, NEW u \in Tabs(j), FirstOf(j, u) \in Range(list)
          PROVE  FirstOf(j, u) \in Range(after)
      <4>1. FirstOf(j, u) \in IdsOf(j) /\ j <= g - 1
        BY <1>0, <1>3, <3>4, FirstIsId, InIdsOf
      <4> QED
        BY <2>2, <3>1, <3>4, <4>1
    <3> QED
      BY <3>3, <3>4
  <2> QED
    BY <1>2, <2>1, <2>2
<1>4. ASSUME NEW j \in Dependent, j <= g PROVE Settled(next, j)
  <2>1. CASE j = g
    <3>1. next.visible[g] = [u \in Tabs(g) |-> Offered(after, g, u)]
      BY <1>1, <1>3, <1>4, <2>1
    <3> QED
      BY <1>2, <1>3, <1>4, <2>1, <3>1 DEF Settled, after
  <2>2. CASE j # g
    <3>1. Settled(state, j) /\ j \in DOMAIN Groups \ {g}
      BY <1>0, <1>4, <2>2 DEF SettledTo
    <3>2. /\ state.visible[j] = [u \in Tabs(j) |-> Offered(list, j, u)]
          /\ \E u \in Tabs(j) : /\ Offered(list, j, u) /\ FirstOf(j, u) \in Range(list)
                                /\ state.selected[j] = [v \in Tabs(j) |-> v = u]
      BY <3>1 DEF Settled
    <3>3. next.visible[j] = state.visible[j] /\ next.selected[j] = state.selected[j]
      BY <1>1, <3>1
    <3>4. [u \in Tabs(j) |-> Offered(list, j, u)] = [u \in Tabs(j) |-> Offered(after, j, u)]
      BY <1>3, <1>4
    <3> HIDE DEF list
    <3>5. \E u \in Tabs(j) : /\ Offered(after, j, u) /\ FirstOf(j, u) \in Range(after)
                             /\ next.selected[j] = [v \in Tabs(j) |-> v = u]
      BY <1>3, <1>4, <2>2, <3>2, <3>3
    <3> QED
      BY <3>2, <3>3, <3>4, <3>5 DEF Settled, after
  <2> QED
    BY <2>1, <2>2
<1> QED
  BY <1>4 DEF SettledTo, next

\* The rounds of the loop over the groups.
Rounds(f, state) ==
  /\ f[0] = state
  /\ \A k \in 0..Len(Groups) : f[k] \in TabStates
  /\ \A k \in 1..Len(Groups) :
       f[k] = IF k \in Dependent THEN Updated(f[k - 1], k) ELSE f[k - 1]

LEMMA UpdatedAllIs ==
  ASSUME Coherent, NEW state \in TabStates
  PROVE  \E f : Rounds(f, state) /\ UpdatedAll(state) = f[Len(Groups)]
<1> DEFINE N == Len(Groups)
           Round(x, k) == IF k \in Dependent THEN Updated(x, k) ELSE x
           step == [p \in (1..N) \X TabStates |-> Round(p[2], p[1])]
           Solves(f) == f = [k \in 0..N |-> IF k = 0 THEN state
                                            ELSE IF k \in Dependent THEN Updated(f[k - 1], k) ELSE f[k - 1]]
           rounds == CHOOSE f : Solves(f)
<1>0. N \in Nat
  BY TabFacts
<1>1. \A k \in 1..N, x \in TabStates : Round(x, k) \in TabStates
  BY UpdatedIs
<1>2. \A k \in 1..N, x \in TabStates : step[<<k, x>>] = Round(x, k)
  OBVIOUS
<1>3. UpdatedAll(state) = rounds[N]
  BY DEF UpdatedAll
<1> HIDE DEF N, step
<1>4. PICK f : Loops(f, N, state, step) /\ \A k \in 0..N : f[k] \in TabStates
  <2>1. \A k \in 1..N, x \in TabStates : step[<<k, x>>] \in TabStates
    BY <1>1, <1>2
  <2> QED
    BY <1>0, <2>1, Iterates
<1>5. Solves(f)
  <2>1. \A k \in 0..N : (IF k = 0 THEN state ELSE step[<<k, f[k - 1]>>])
                      = (IF k = 0 THEN state
                         ELSE IF k \in Dependent THEN Updated(f[k - 1], k) ELSE f[k - 1])
    <3> SUFFICES ASSUME NEW k \in 0..N, k # 0
                 PROVE  step[<<k, f[k - 1]>>] = Round(f[k - 1], k)
      OBVIOUS
    <3>1. k \in 1..N /\ k - 1 \in 0..N
      BY <1>0
    <3> QED
      BY <1>2, <1>4, <3>1
  <2> QED
    BY <1>4, <2>1 DEF Loops
<1>6. Solves(rounds)
  BY <1>5
<1> HIDE DEF rounds
<1>7. /\ rounds[0] = state
      /\ \A k \in 1..N : rounds[k] = Round(rounds[k - 1], k)
  BY <1>0, <1>6
<1> DEFINE T == {k \in 0..N : rounds[k] \in TabStates}
<1>8. \A k \in 0..N : k \in T
  <2>1. 0 \in T
    BY <1>0, <1>7
  <2>2. ASSUME NEW k \in 1..N, k - 1 \in T PROVE k \in T
    <3>1. k \in 0..N
      BY <1>0
    <3> HIDE DEF Round
    <3> QED
      BY <1>1, <1>7, <2>2, <3>1
  <2> HIDE DEF T
  <2> QED
    BY <1>0, <2>1, <2>2, Steps
<1>9. Rounds(rounds, state)
  BY <1>7, <1>8 DEF Rounds, N
<1> QED
  BY <1>3, <1>9 DEF N

\* After each round the groups up to there are settled, and those that do not
\* follow the list are left alone.
LEMMA SettledAlong ==
  ASSUME Coherent, NEW f, NEW state, Rounds(f, state)
  PROVE  \A k \in 0..Len(Groups) :
           /\ SettledTo(f[k], k)
           /\ \A g \in DOMAIN Groups \ Dependent :
                f[k].visible[g] = state.visible[g] /\ f[k].selected[g] = state.selected[g]
<1> DEFINE N == Len(Groups)
           Others(k) == \A g \in DOMAIN Groups \ Dependent :
             f[k].visible[g] = state.visible[g] /\ f[k].selected[g] = state.selected[g]
           T == {k \in 0..N : SettledTo(f[k], k) /\ Others(k)}
<1>0. N \in Nat /\ Dependent \subseteq 1..N
  BY TabFacts DEF Dependent
<1>1. 0 \in T
  BY <1>0 DEF Rounds, SettledTo
<1>2. ASSUME NEW k \in 1..N, k - 1 \in T PROVE k \in T
  <2>1. k \in 0..N /\ k - 1 \in 0..N /\ f[k - 1] \in TabStates
    BY <1>0 DEF Rounds
  <2>2. CASE k \in Dependent
    <3>1. f[k] = Updated(f[k - 1], k)
      BY <2>2 DEF Rounds
    <3> DEFINE x == f[k - 1]
    <3>2. x \in TabStates /\ SettledTo(x, k - 1)
      BY <1>2, <2>1
    <3> HIDE DEF x
    <3>3. SettledTo(Updated(x, k), k)
      BY <2>2, <3>2, SettleNext
    <3>4. \A g \in DOMAIN Groups \ {k} :
            Updated(x, k).visible[g] = x.visible[g] /\ Updated(x, k).selected[g] = x.selected[g]
      BY <2>2, <3>2, UpdatedIs
    <3>5. Others(k)
      BY <1>2, <2>2, <3>1, <3>4 DEF x
    <3> QED
      BY <2>1, <3>1, <3>3, <3>5 DEF x
  <2>3. CASE k \notin Dependent
    <3>1. f[k] = f[k - 1]
      BY <2>3 DEF Rounds
    <3>2. SettledTo(f[k], k)
      <4>1. \A j \in Dependent : j <= k => j <= k - 1
        BY <1>0, <2>3
      <4> QED
        BY <1>2, <3>1, <4>1 DEF SettledTo
    <3> QED
      BY <1>2, <2>1, <3>1, <3>2
  <2> QED
    BY <2>2, <2>3
<1> HIDE DEF T
<1>3. \A k \in 0..N : k \in T
  BY <1>0, <1>1, <1>2, Steps
<1> QED
  BY <1>3 DEF T

-------------------------------------------------------------------------------
\* What UpdatedAll makes of a page.
LEMMA AllSettled ==
  ASSUME Coherent, NEW state \in TabStates
  PROVE  /\ UpdatedAll(state) \in TabStates
         /\ \A g \in Dependent : Settled(UpdatedAll(state), g)
         /\ \A g \in DOMAIN Groups \ Dependent :
              /\ UpdatedAll(state).visible[g] = state.visible[g]
              /\ UpdatedAll(state).selected[g] = state.selected[g]
<1> DEFINE N == Len(Groups)
<1>0. N \in Nat /\ N \in 0..N /\ \A g \in Dependent : g <= N
  BY TabFacts DEF Dependent
<1>1. PICK f : Rounds(f, state) /\ UpdatedAll(state) = f[N]
  BY UpdatedAllIs
<1>2. f[N] \in TabStates
  BY <1>0, <1>1 DEF Rounds
<1>3. /\ SettledTo(f[N], N)
      /\ \A g \in DOMAIN Groups \ Dependent :
           f[N].visible[g] = state.visible[g] /\ f[N].selected[g] = state.selected[g]
  BY <1>0, <1>1, SettledAlong
<1> QED
  BY <1>0, <1>1, <1>2, <1>3 DEF SettledTo

ServedState == [selectedTabs |-> selectedTabs, visible |-> visible, selected |-> selected]

\* The page between two events.
TabInv ==
  /\ ServedState \in TabStates
  /\ \A g \in Dependent : Settled(ServedState, g)
  /\ \A g \in DOMAIN Groups \ Dependent :
       /\ visible[g] = [t \in Tabs(g) |-> TRUE]
       /\ \E t \in Tabs(g) : selected[g] = [u \in Tabs(g) |-> u = t]
  /\ Dependent # {} => tabsInUrl = selectedTabs

LEMMA ServedFits ==
  ASSUME Coherent
  PROVE  /\ Served \in TabStates
         /\ \A g \in DOMAIN Groups :
              /\ Served.visible[g] = [t \in Tabs(g) |-> TRUE]
              /\ \E t \in Tabs(g) : Served.selected[g] = [u \in Tabs(g) |-> u = t]
<1>1. \A g \in DOMAIN Groups : 1 \in Tabs(g)
  <2> TAKE g \in DOMAIN Groups
  <2>1. PICK t \in Tabs(g) : Groups[g].tabs[t].condition = NoCondition
    BY DEF Coherent, HasTabs
  <2> QED
    BY <2>1, TabFacts
<1>2. Held(<<>>) /\ <<>> \in Seq(FirstIds)
  BY DEF Held, IsInjective, Range
<1> DEFINE V == [g \in DOMAIN Groups |-> [t \in Tabs(g) |-> TRUE]]
           S == [g \in DOMAIN Groups |-> [t \in Tabs(g) |-> t = 1]]
<1>3. \A g \in DOMAIN Groups : V[g] \in Flags /\ S[g] \in Flags
  <2> TAKE g \in DOMAIN Groups
  <2>1. V[g] \in [Tabs(g) -> BOOLEAN] /\ S[g] \in [Tabs(g) -> BOOLEAN]
    OBVIOUS
  <2> QED
    BY <2>1, FlagsOf
<1>4. V \in [DOMAIN Groups -> Flags] /\ S \in [DOMAIN Groups -> Flags]
  BY <1>3
<1>5. Served = [selectedTabs |-> <<>>, visible |-> V, selected |-> S]
  BY DEF Served
<1>6. \A g \in DOMAIN Groups : /\ V[g] = [t \in Tabs(g) |-> TRUE]
                               /\ \E t \in Tabs(g) : S[g] = [u \in Tabs(g) |-> u = t]
  <2> TAKE g \in DOMAIN Groups
  <2>1. V[g] = [t \in Tabs(g) |-> TRUE] /\ S[g] = [u \in Tabs(g) |-> u = 1]
    OBVIOUS
  <2> QED
    BY <1>1, <2>1
<1> HIDE DEF V, S
<1>7. Served \in TabStates
  BY <1>2, <1>4, <1>5 DEF TabStates
<1>8. Served.visible = V /\ Served.selected = S
  BY <1>5
<1> QED
  BY <1>6, <1>7, <1>8

\* A state of the page after an update of a page whose other groups are in order.
LEMMA UpdatedFits ==
  ASSUME Coherent, NEW state \in TabStates,
         \A g \in DOMAIN Groups \ Dependent :
           /\ state.visible[g] = [t \in Tabs(g) |-> TRUE]
           /\ \E t \in Tabs(g) : state.selected[g] = [u \in Tabs(g) |-> u = t]
  PROVE  /\ UpdatedAll(state) \in TabStates
         /\ \A g \in Dependent : Settled(UpdatedAll(state), g)
         /\ \A g \in DOMAIN Groups \ Dependent :
              /\ UpdatedAll(state).visible[g] = [t \in Tabs(g) |-> TRUE]
              /\ \E t \in Tabs(g) : UpdatedAll(state).selected[g] = [u \in Tabs(g) |-> u = t]
BY AllSettled

LEMMA StateParts ==
  ASSUME NEW state \in TabStates
  PROVE  state = [selectedTabs |-> state.selectedTabs, visible |-> state.visible,
                  selected |-> state.selected]
BY DEF TabStates

LEMMA TabsStart == ASSUME Coherent, TabsInit PROVE TabInv
<1> DEFINE state == UpdatedAll(Served)
<1>1. /\ state \in TabStates
      /\ \A g \in Dependent : Settled(state, g)
      /\ \A g \in DOMAIN Groups \ Dependent :
           /\ state.visible[g] = [t \in Tabs(g) |-> TRUE]
           /\ \E t \in Tabs(g) : state.selected[g] = [u \in Tabs(g) |-> u = t]
  BY ServedFits, UpdatedFits
<1>2. /\ selectedTabs = state.selectedTabs /\ visible = state.visible /\ selected = state.selected
      /\ tabsInUrl = IF Dependent = {} THEN <<>> ELSE state.selectedTabs
  BY DEF TabsInit
<1> HIDE DEF state
<1>3. ServedState = state
  BY <1>1, <1>2, StateParts DEF ServedState
<1> QED
  BY <1>1, <1>2, <1>3 DEF TabInv

LEMMA BecomeKeeps ==
  ASSUME NEW state \in TabStates, Become(state),
         \A g \in Dependent : Settled(state, g),
         \A g \in DOMAIN Groups \ Dependent :
           /\ state.visible[g] = [t \in Tabs(g) |-> TRUE]
           /\ \E t \in Tabs(g) : state.selected[g] = [u \in Tabs(g) |-> u = t]
  PROVE  TabInv'
<1>1. /\ selectedTabs' = state.selectedTabs /\ visible' = state.visible
      /\ selected' = state.selected
      /\ tabsInUrl' = IF Dependent = {} THEN tabsInUrl ELSE state.selectedTabs
  BY DEF Become
<1>2. ServedState' = state
  BY <1>1, StateParts DEF ServedState
<1> QED
  BY <1>1, <1>2 DEF TabInv

\* An element of a list that is replaced by one that is not in it.
LEMMA ReplaceIs ==
  ASSUME NEW X, NEW s \in Seq(X), IsInjective(s), NEW id \in Range(s),
         NEW new \in X, new \notin Range(s)
  PROVE  /\ Replace(s, id, new) \in Seq(X) /\ IsInjective(Replace(s, id, new))
         /\ Range(Replace(s, id, new)) = (Range(s) \ {id}) \cup {new}
<1> DEFINE r == Replace(s, id, new)
<1>0. Len(s) \in Nat /\ DOMAIN s = 1..Len(s) /\ \A i \in 1..Len(s) : s[i] \in X
  OBVIOUS
<1>1. PICK i \in 1..Len(s) : s[i] = id
  BY <1>0 DEF Range
<1>2. {j \in 1..Len(s) : s[j] = id} = {i}
  BY <1>0, <1>1 DEF IsInjective
<1>3. Min({i}) = i
  BY <1>1 DEF Min
<1>4. SelectInSeq(s, LAMBDA v : v = id) = i
  BY <1>2, <1>3 DEF SelectInSeq
<1>5. r = [s EXCEPT ![i] = new]
  <2>1. i # 0
    BY <1>0, <1>1
  <2> QED
    BY <1>4, <2>1 DEF Replace, ReplaceAt
<1> HIDE DEF r
<1>6. /\ r \in Seq(X) /\ DOMAIN r = 1..Len(s) /\ r[i] = new
      /\ \A j \in 1..Len(s) : j # i => r[j] = s[j]
  BY <1>0, <1>1, <1>5
<1>7. \A j \in 1..Len(s) : s[j] # new /\ (j # i => s[j] # id)
  BY <1>0, <1>1, <1>2 DEF Range
<1>8. IsInjective(r)
  BY <1>0, <1>6, <1>7 DEF IsInjective
<1>9. Range(r) = (Range(s) \ {id}) \cup {new}
  <2>1. Range(r) = {r[j] : j \in 1..Len(s)} /\ Range(s) = {s[j] : j \in 1..Len(s)}
    BY <1>0, <1>6 DEF Range
  <2> QED
    BY <1>1, <1>6, <1>7, <2>1
<1> QED
  BY <1>6, <1>8, <1>9 DEF r

-------------------------------------------------------------------------------
\* The list after a click: the first id of one tab stands for that of another.
LEMMA SwapHeld ==
  ASSUME Coherent, NEW list, Held(list), NEW g \in Dependent, NEW t \in Tabs(g), NEW u \in Tabs(g),
         FirstOf(g, u) \in Range(list), Ids(g, t) \cap Range(list) = {},
         NEW after, after = Replace(list, FirstOf(g, u), FirstOf(g, t))
  PROVE  /\ Held(after)
         /\ Range(after) = (Range(list) \ {FirstOf(g, u)}) \cup {FirstOf(g, t)}
<1> DEFINE id == FirstOf(g, u)
           new == FirstOf(g, t)
<1>0. g \in DOMAIN Groups /\ list \in Seq(FirstIds) /\ IsInjective(list)
  BY DEF Dependent, Held
<1>1. new \in FirstIds /\ new \notin Range(list)
  BY <1>0, FirstIsId DEF FirstIds
<1>2. /\ after \in Seq(FirstIds) /\ IsInjective(after)
      /\ Range(after) = (Range(list) \ {id}) \cup {new}
  <2> HIDE DEF id, new
  <2>1. after = Replace(list, id, new) /\ id \in Range(list)
    BY DEF id, new
  <2> QED
    BY <1>0, <1>1, <2>1, ReplaceIs
<1>3. ASSUME NEW h \in Dependent, NEW v \in Tabs(h), NEW w \in Tabs(h),
             FirstOf(h, v) = new, FirstOf(h, w) \in Range(list) \ {id}
      PROVE  FALSE
  <2>1. h \in DOMAIN Groups
    BY DEF Dependent
  <2>2. Ids(h, v) \cap Ids(g, t) # {}
    BY <1>0, <1>3, <2>1, FirstIsId
  <2>3. Kin(h, g)
    BY <2>2, SameTab
  <2>4. PICK x \in Tabs(g) : FirstOf(g, x) = FirstOf(h, w)
    BY <1>0, <2>1, <2>3, KinTab
  <2>5. x = u
    BY <1>3, <2>4 DEF Held
  <2> QED
    BY <1>3, <2>4, <2>5
<1>4. ASSUME NEW h \in Dependent, NEW v \in Tabs(h), NEW w \in Tabs(h),
             FirstOf(h, v) = FirstOf(h, w)
      PROVE  v = w
  <2>1. h \in DOMAIN Groups
    BY DEF Dependent
  <2>2. Ids(h, v) \cap Ids(h, w) # {}
    BY <1>4, <2>1, FirstIsId
  <2> QED
    BY <2>1, <2>2 DEF Coherent, TabsApart
<1>5. ASSUME NEW h \in Dependent, NEW v \in Tabs(h), NEW w \in Tabs(h),
             FirstOf(h, v) \in Range(after), FirstOf(h, w) \in Range(after)
      PROVE  v = w
  <2>1. CASE FirstOf(h, v) \in Range(list) \ {id} /\ FirstOf(h, w) \in Range(list) \ {id}
    BY <2>1 DEF Held
  <2>2. CASE FirstOf(h, v) = new /\ FirstOf(h, w) = new
    BY <1>4, <2>2
  <2>3. CASE FirstOf(h, v) = new /\ FirstOf(h, w) \in Range(list) \ {id}
    BY <1>3, <2>3
  <2>4. CASE FirstOf(h, w) = new /\ FirstOf(h, v) \in Range(list) \ {id}
    BY <1>3, <2>4
  <2> QED
    BY <1>2, <1>5, <2>1, <2>2, <2>3, <2>4
<1> QED
  BY <1>2, <1>5 DEF Held

\* The state that the loop of a click starts from.
ClickState(list) == [selectedTabs |-> list, visible |-> visible, selected |-> selected]

LEMMA ClickIs ==
  ASSUME Coherent, TabInv, NEW g \in Dependent, NEW t \in Tabs(g), Click(g, t)
  PROVE  \E list : \E u \in Tabs(g) :
           /\ Offered(selectedTabs, g, t)
           /\ FirstOf(g, u) \in Range(selectedTabs)
           /\ Range(list) = (Range(selectedTabs) \ {FirstOf(g, u)}) \cup {FirstOf(g, t)}
           /\ ClickState(list) \in TabStates
           /\ Become(UpdatedAll(ClickState(list)))
<1>0. /\ g \in DOMAIN Groups /\ Tabs(g) \subseteq Nat /\ ~Groups[g].independent
      /\ \A v \in Tabs(g) : \A n \in 1..v - 1 : n \in Tabs(g) /\ n # v
  BY TabFacts DEF Dependent
<1>1. /\ visible[g] = [v \in Tabs(g) |-> Offered(selectedTabs, g, v)]
      /\ \E u \in Tabs(g) : /\ FirstOf(g, u) \in Range(selectedTabs)
                            /\ selected[g] = [v \in Tabs(g) |-> v = u]
  BY DEF TabInv, Settled, ServedState
<1>2. PICK u \in Tabs(g) : /\ FirstOf(g, u) \in Range(selectedTabs)
                           /\ selected[g] = [v \in Tabs(g) |-> v = u]
  BY <1>1
<1> DEFINE previous == CHOOSE v \in Tabs(g) : selected[g][v] /\ \A n \in 1..v - 1 : ~selected[g][n]
           list == Replace(selectedTabs, FirstOf(g, previous), FirstOf(g, t))
<1>3. /\ visible[g][t] /\ Ids(g, t) \cap Range(selectedTabs) = {}
      /\ Become(UpdatedAll(ClickState(list)))
  BY <1>0 DEF Click, ClickState
<1>4. previous = u
  <2>1. \A v \in Tabs(g) : selected[g][v] <=> v = u
    BY <1>2
  <2>2. selected[g][u] /\ \A n \in 1..u - 1 : ~selected[g][n]
    BY <1>0, <2>1
  <2>3. \A v \in Tabs(g) : selected[g][v] => v = u
    BY <2>1
  <2> QED
    BY <2>2, <2>3
<1>5. list = Replace(selectedTabs, FirstOf(g, u), FirstOf(g, t))
  BY <1>4
<1> HIDE DEF previous, list
<1>6. /\ Held(selectedTabs) /\ visible \in [DOMAIN Groups -> Flags]
      /\ selected \in [DOMAIN Groups -> Flags]
  BY DEF TabInv, TabStates, ServedState
<1>7. /\ Held(list)
      /\ Range(list) = (Range(selectedTabs) \ {FirstOf(g, u)}) \cup {FirstOf(g, t)}
  BY <1>2, <1>3, <1>5, <1>6, SwapHeld
<1>8. ClickState(list) \in TabStates
  BY <1>6, <1>7 DEF ClickState, TabStates, Held
<1>9. Offered(selectedTabs, g, t)
  BY <1>1, <1>3
<1> QED
  BY <1>2, <1>3, <1>7, <1>8, <1>9

LEMMA ClickKeeps ==
  ASSUME Coherent, TabInv, NEW g \in DOMAIN Groups, NEW t \in Tabs(g), Click(g, t)
  PROVE  TabInv'
<1>1. CASE g \in Dependent
  <2>1. PICK list : /\ ClickState(list) \in TabStates
                    /\ Become(UpdatedAll(ClickState(list)))
    BY <1>1, ClickIs
  <2> DEFINE state == ClickState(list)
  <2>2. \A h \in DOMAIN Groups \ Dependent :
          /\ state.visible[h] = [u \in Tabs(h) |-> TRUE]
          /\ \E v \in Tabs(h) : state.selected[h] = [u \in Tabs(h) |-> u = v]
    BY DEF ClickState, TabInv
  <2> HIDE DEF state
  <2>3. /\ UpdatedAll(state) \in TabStates
        /\ \A h \in Dependent : Settled(UpdatedAll(state), h)
        /\ \A h \in DOMAIN Groups \ Dependent :
             /\ UpdatedAll(state).visible[h] = [u \in Tabs(h) |-> TRUE]
             /\ \E v \in Tabs(h) : UpdatedAll(state).selected[h] = [u \in Tabs(h) |-> u = v]
    BY <2>1, <2>2, UpdatedFits DEF state
  <2> DEFINE next == UpdatedAll(state)
  <2>4. Become(next)
    BY <2>1 DEF state
  <2> HIDE DEF next
  <2> QED
    BY <2>3, <2>4, BecomeKeeps DEF next
<1>2. CASE g \notin Dependent
  <2> DEFINE S == [u \in Tabs(g) |-> Ids(g, u) \cap Ids(g, t) # {}]
  <2>1. /\ Groups[g].independent = TRUE
        /\ selected' = [selected EXCEPT ![g] = S]
        /\ UNCHANGED <<selectedTabs, visible, tabsInUrl>>
    <3>1. Groups[g].independent
      BY <1>2 DEF Dependent
    <3> QED
      BY <3>1, TabFacts DEF Click
  <2>2. S = [u \in Tabs(g) |-> u = t]
    <3>1. \A u \in Tabs(g) : (Ids(g, u) \cap Ids(g, t) # {}) <=> u = t
      BY FirstIsId DEF Coherent, TabsApart
    <3> QED
      BY <3>1
  <2>3. S \in Flags
    <3>1. S \in [Tabs(g) -> BOOLEAN]
      OBVIOUS
    <3> QED
      BY <3>1, FlagsOf
  <2> HIDE DEF S
  <2>4. /\ selectedTabs \in Seq(FirstIds) /\ Held(selectedTabs)
        /\ visible \in [DOMAIN Groups -> Flags] /\ selected \in [DOMAIN Groups -> Flags]
    BY DEF TabInv, TabStates, ServedState
  <2>5. /\ selected' \in [DOMAIN Groups -> Flags] /\ selected'[g] = S
        /\ \A h \in DOMAIN Groups \ {g} : selected'[h] = selected[h]
    BY <2>1, <2>3, <2>4
  <2>6. ServedState' \in TabStates
    BY <2>1, <2>4, <2>5 DEF ServedState, TabStates
  <2>7. ASSUME NEW h \in Dependent PROVE Settled(ServedState, h)'
    <3>1. h \in DOMAIN Groups \ {g} /\ Settled(ServedState, h)
      BY <1>2 DEF TabInv, Dependent
    <3>2. selected'[h] = selected[h] /\ visible'[h] = visible[h] /\ selectedTabs' = selectedTabs
      BY <2>1, <2>5, <3>1
    <3> QED
      BY <3>1, <3>2 DEF Settled, ServedState
  <2>8. ASSUME NEW h \in DOMAIN Groups \ Dependent
        PROVE  /\ visible'[h] = [u \in Tabs(h) |-> TRUE]
               /\ \E v \in Tabs(h) : selected'[h] = [u \in Tabs(h) |-> u = v]
    <3>1. CASE h = g
      BY <2>1, <2>2, <2>5, <3>1 DEF TabInv
    <3>2. CASE h # g
      BY <2>1, <2>5, <3>2 DEF TabInv
    <3> QED
      BY <3>1, <3>2
  <2> QED
    BY <2>1, <2>6, <2>7, <2>8 DEF TabInv
<1> QED
  BY <1>1, <1>2

LEMMA TabsStep == ASSUME Coherent, TabInv, [TabsNext]_tabVars PROVE TabInv'
<1>1. CASE ReloadTabs
  <2> DEFINE next == UpdatedAll(Served)
  <2>1. /\ next \in TabStates
        /\ \A g \in Dependent : Settled(next, g)
        /\ \A g \in DOMAIN Groups \ Dependent :
             /\ next.visible[g] = [t \in Tabs(g) |-> TRUE]
             /\ \E t \in Tabs(g) : next.selected[g] = [u \in Tabs(g) |-> u = t]
    BY ServedFits, UpdatedFits
  <2>2. Become(next)
    BY <1>1 DEF ReloadTabs
  <2> HIDE DEF next
  <2> QED
    BY <2>1, <2>2, BecomeKeeps
<1>2. CASE \E g \in DOMAIN Groups : \E t \in Tabs(g) : Click(g, t)
  BY <1>2, ClickKeeps
<1>3. CASE UNCHANGED tabVars
  BY <1>3 DEF tabVars, TabInv, ServedState, Settled
<1> QED
  BY <1>1, <1>2, <1>3 DEF TabsNext

LEMMA TabInvShows == ASSUME Coherent, TabInv PROVE OneTabPerGroup
<1>0. /\ Dependent \subseteq DOMAIN Groups /\ Held(selectedTabs)
      /\ \A g \in Dependent :
           /\ visible[g] = [t \in Tabs(g) |-> Offered(selectedTabs, g, t)]
           /\ \E t \in Tabs(g) : /\ Offered(selectedTabs, g, t)
                                 /\ FirstOf(g, t) \in Range(selectedTabs)
                                 /\ selected[g] = [u \in Tabs(g) |-> u = t]
  BY DEF Dependent, TabInv, TabStates, ServedState, Settled
<1>1. ASSUME NEW g \in DOMAIN Groups
      PROVE  \E t \in Tabs(g) :
               /\ visible[g][t] /\ \A u \in Tabs(g) : selected[g][u] = (u = t)
               /\ g \in Dependent => Ids(g, t) \cap Range(selectedTabs) # {}
  <2>1. CASE g \in Dependent
    <3>1. PICK t \in Tabs(g) : /\ Offered(selectedTabs, g, t)
                               /\ FirstOf(g, t) \in Range(selectedTabs)
                               /\ selected[g] = [u \in Tabs(g) |-> u = t]
      BY <1>0, <2>1
    <3>2. visible[g][t] /\ \A u \in Tabs(g) : selected[g][u] = (u = t)
      BY <1>0, <2>1, <3>1
    <3>3. Ids(g, t) \cap Range(selectedTabs) # {}
      BY <3>1, FirstIsId
    <3> QED
      BY <3>2, <3>3
  <2>2. CASE g \notin Dependent
    <3>1. PICK t \in Tabs(g) : selected[g] = [u \in Tabs(g) |-> u = t]
      BY <2>2 DEF TabInv
    <3>2. visible[g] = [u \in Tabs(g) |-> TRUE]
      BY <2>2 DEF TabInv
    <3>3. visible[g][t] /\ \A u \in Tabs(g) : selected[g][u] = (u = t)
      BY <3>1, <3>2
    <3> QED
      BY <2>2, <3>3
  <2> QED
    BY <2>1, <2>2
<1>2. ASSUME NEW id \in Range(selectedTabs)
      PROVE  \E g \in Dependent : \E t \in Tabs(g) : selected[g][t] /\ id \in Ids(g, t)
  <2>1. PICK g \in Dependent : \E t \in Tabs(g) : id = FirstOf(g, t)
    BY <1>0, HeldIds
  <2>2. PICK t \in Tabs(g) : id = FirstOf(g, t)
    BY <2>1
  <2>3. PICK u \in Tabs(g) : /\ FirstOf(g, u) \in Range(selectedTabs)
                             /\ selected[g] = [v \in Tabs(g) |-> v = u]
    BY <1>0
  <2>4. t = u
    BY <1>0, <2>2, <2>3 DEF Held
  <2>5. selected[g][t] /\ id \in Ids(g, t)
    BY <1>0, <2>2, <2>3, <2>4, FirstIsId
  <2> QED
    BY <2>5
<1>3. ASSUME NEW g \in Dependent, NEW t \in Tabs(g)
      PROVE  visible[g][t] = (Groups[g].tabs[t].condition \in {NoCondition} \cup Range(selectedTabs))
  <2>1. visible[g] = [u \in Tabs(g) |-> Offered(selectedTabs, g, u)]
    BY <1>0
  <2>2. visible[g][t] = Offered(selectedTabs, g, t)
    BY <2>1
  <2> QED
    BY <2>2 DEF Offered
<1>4. Dependent # {} => tabsInUrl = selectedTabs
  BY DEF TabInv
<1> QED
  BY <1>1, <1>2, <1>3, <1>4 DEF OneTabPerGroup

-------------------------------------------------------------------------------
\* What is in the list stays there until a group that has no tab of its own to
\* show takes it out.
LEMMA StaysListed ==
  ASSUME Coherent, NEW f, NEW state, Rounds(f, state), NEW k \in 1..Len(Groups),
         NEW id \in Range(f[k - 1].selectedTabs),
         k \in Dependent /\ id \in IdsOf(k) => \E u \in Tabs(k) : Chosen(f[k - 1].selectedTabs, k, u)
  PROVE  id \in Range(f[k].selectedTabs)
<1>0. k - 1 \in 0..Len(Groups)
  BY TabFacts
<1>1. CASE k \in Dependent
  <2> DEFINE x == f[k - 1]
  <2>1. f[k] = Updated(x, k) /\ x \in TabStates
    BY <1>0, <1>1 DEF Rounds
  <2>2. id \in Range(x.selectedTabs)
    OBVIOUS
  <2>3. id \in IdsOf(k) => \E u \in Tabs(k) : Chosen(x.selectedTabs, k, u)
    BY <1>1
  <2> HIDE DEF x
  <2>4. PICK t \in Tabs(k) :
          \/ Updated(x, k).selectedTabs = x.selectedTabs
          \/ /\ \A u \in Tabs(k) : ~Chosen(x.selectedTabs, k, u)
             /\ Range(Updated(x, k).selectedTabs) = (Range(x.selectedTabs) \ IdsOf(k)) \cup {FirstOf(k, t)}
    <3>1. \E t \in Tabs(k) :
            /\ Offered(x.selectedTabs, k, t)
            /\ Updated(x, k).selected[k] = [u \in Tabs(k) |-> u = t]
            /\ FirstOf(k, t) \in Range(Updated(x, k).selectedTabs)
            /\ \/ Updated(x, k).selectedTabs = x.selectedTabs
               \/ /\ \A u \in Tabs(k) : ~Chosen(x.selectedTabs, k, u)
                  /\ Range(Updated(x, k).selectedTabs)
                       = (Range(x.selectedTabs) \ IdsOf(k)) \cup {FirstOf(k, t)}
      BY <1>1, <2>1, UpdatedIs
    <3> QED
      BY <3>1
  <2> QED
    BY <2>1, <2>2, <2>3, <2>4
<1>2. CASE k \notin Dependent
  BY <1>2 DEF Rounds
<1> QED
  BY <1>1, <1>2

\* ... and as long as each group has one, the list stays as it is.
LEMMA StaysSame ==
  ASSUME Coherent, NEW f, NEW state, Rounds(f, state), NEW k \in 1..Len(Groups),
         k \in Dependent => \E u \in Tabs(k) : Chosen(f[k - 1].selectedTabs, k, u)
  PROVE  f[k].selectedTabs = f[k - 1].selectedTabs
<1>0. k - 1 \in 0..Len(Groups)
  BY TabFacts
<1>1. CASE k \in Dependent
  <2> DEFINE x == f[k - 1]
  <2>1. f[k] = Updated(x, k) /\ x \in TabStates
    BY <1>0, <1>1 DEF Rounds
  <2>2. \E u \in Tabs(k) : Chosen(x.selectedTabs, k, u)
    BY <1>1
  <2> HIDE DEF x
  <2>3. \/ Updated(x, k).selectedTabs = x.selectedTabs
        \/ \A u \in Tabs(k) : ~Chosen(x.selectedTabs, k, u)
    BY <1>1, <2>1, UpdatedIs
  <2> QED
    BY <2>1, <2>2, <2>3 DEF x
<1>2. CASE k \notin Dependent
  BY <1>2 DEF Rounds
<1> QED
  BY <1>1, <1>2

\* The id of the tab that was clicked stays in the list.  Until the first group
\* that has it, each group still has the tab it had, and no id goes; from there
\* on a group shows it.
LEMMA ClickStays ==
  ASSUME Coherent, TabInv, NEW g \in Dependent, NEW t \in Tabs(g), NEW u \in Tabs(g), NEW list,
         Offered(selectedTabs, g, t), FirstOf(g, u) \in Range(selectedTabs),
         Range(list) = (Range(selectedTabs) \ {FirstOf(g, u)}) \cup {FirstOf(g, t)},
         NEW f, Rounds(f, ClickState(list))
  PROVE  \A k \in 0..Len(Groups) : FirstOf(g, t) \in Range(f[k].selectedTabs)
<1> DEFINE N == Len(Groups)
           new == FirstOf(g, t)
           old == FirstOf(g, u)
           Earlier(k) == \A e \in Dependent : e <= k => IdsOf(e) \cap IdsOf(g) = {}
           T == {k \in 0..N : /\ new \in Range(f[k].selectedTabs)
                              /\ Earlier(k) => f[k].selectedTabs = list}
<1>0. /\ N \in Nat /\ Dependent \subseteq 1..N /\ g \in DOMAIN Groups
      /\ Dependent \subseteq DOMAIN Groups
  BY TabFacts DEF Dependent
<1>1. old \in IdsOf(g) /\ new \in IdsOf(g) /\ new \in Range(list)
  BY <1>0, FirstIsId, InIdsOf
<1>2. 0 \in T
  BY <1>0, <1>1 DEF Rounds, ClickState
<1>3. ASSUME NEW k \in 1..N, k - 1 \in T PROVE k \in T
  <2>0. k - 1 \in 0..N /\ k \in 0..N /\ k \in Nat
    BY <1>0
  <2>1. CASE Earlier(k - 1)
    <3>1. f[k - 1].selectedTabs = list
      BY <1>3, <2>1
    <3>2. ASSUME k \in Dependent PROVE \E v \in Tabs(k) : Chosen(list, k, v)
      <4>0. ASSUME NEW v \in Tabs(k), Groups[k].tabs[v].condition = old PROVE FALSE
        <5>1. PICK d \in Dependent : d < k /\ \E w \in Tabs(d) : Groups[k].tabs[v].condition \in Ids(d, w)
          BY <3>2, <4>0, <1>0, FirstIsId DEF Coherent, ConditionsComeBefore
        <5>2. old \in IdsOf(d) /\ d <= k - 1
          BY <1>0, <2>0, <4>0, <5>1 DEF IdsOf
        <5> QED
          BY <1>1, <2>1, <5>2
      <4>1. ASSUME NEW v \in Tabs(k), Offered(selectedTabs, k, v)
            PROVE  Offered(list, k, v)
        BY <4>0, <4>1 DEF Offered
      <4>2. CASE IdsOf(g) \cap IdsOf(k) # {}
        <5>1. PICK v \in Tabs(g), w \in Tabs(k) : Ids(g, v) \cap Ids(k, w) # {}
          BY <4>2 DEF IdsOf
        <5>2. Kin(g, k)
          BY <3>2, <5>1, SameTab
        <5>3. PICK x \in Tabs(k) : /\ Ids(k, x) = Ids(g, t) /\ FirstOf(k, x) = FirstOf(g, t)
                                   /\ \A l : Offered(l, k, x) = Offered(l, g, t)
          BY <1>0, <3>2, <5>2, KinTab
        <5>4. Offered(list, k, x)
          BY <4>1, <5>3
        <5>5. FirstOf(g, t) \in Ids(k, x)
          BY <1>0, <5>3, FirstIsId
        <5> QED
          BY <1>1, <5>4, <5>5 DEF Chosen
      <4>3. CASE IdsOf(g) \cap IdsOf(k) = {}
        <5>1. PICK v \in Tabs(k) : /\ Offered(selectedTabs, k, v)
                                   /\ FirstOf(k, v) \in Range(selectedTabs)
          BY <3>2 DEF TabInv, Settled, ServedState
        <5>2. FirstOf(k, v) \in Ids(k, v) /\ FirstOf(k, v) \in IdsOf(k)
          BY <1>0, <3>2, FirstIsId, InIdsOf
        <5>3. FirstOf(k, v) \in Range(list)
          BY <1>1, <4>3, <5>1, <5>2
        <5> QED
          BY <4>1, <5>1, <5>2, <5>3 DEF Chosen
      <4> QED
        BY <4>2, <4>3
    <3>3. f[k].selectedTabs = f[k - 1].selectedTabs
      BY <3>1, <3>2, StaysSame
    <3> QED
      BY <1>1, <2>0, <3>1, <3>3
  <2>2. CASE ~Earlier(k - 1)
    <3>1. PICK e \in Dependent : e <= k - 1 /\ IdsOf(e) \cap IdsOf(g) # {}
      BY <2>2
    <3>2. ASSUME k \in Dependent, new \in IdsOf(k)
          PROVE  \E v \in Tabs(k) : Chosen(f[k - 1].selectedTabs, k, v)
      <4> SUFFICES ASSUME \A v \in Tabs(k) : ~Chosen(f[k - 1].selectedTabs, k, v)
                   PROVE  FALSE
        OBVIOUS
      <4>1. SettledTo(f[k - 1], k - 1)
        BY <2>0, SettledAlong
      <4>2. IdsOf(e) \cap IdsOf(k) = {}
        BY <3>1, <3>2, <4>1, NoneIsNew
      <4>3. PICK v \in Tabs(e), w \in Tabs(g) : Ids(e, v) \cap Ids(g, w) # {}
        BY <3>1 DEF IdsOf
      <4>4. IdsOf(e) = IdsOf(g)
        BY <4>3, SameTab, SameIds
      <4> QED
        BY <1>1, <3>2, <4>2, <4>4
    <3>3. new \in Range(f[k - 1].selectedTabs)
      BY <1>3
    <3>4. new \in Range(f[k].selectedTabs)
      <4> HIDE DEF new
      <4> QED
        BY <3>2, <3>3, StaysListed
    <3>5. ~Earlier(k)
      BY <1>0, <2>0, <3>1
    <3> QED
      BY <2>0, <3>4, <3>5
  <2> QED
    BY <2>1, <2>2
<1> HIDE DEF T
<1>4. \A k \in 0..N : k \in T
  BY <1>0, <1>2, <1>3, Steps
<1> QED
  BY <1>4 DEF T

\* So does the id of a tab of a group without conditions.
LEMMA OthersStay ==
  ASSUME Coherent, NEW h \in Dependent, NEW t \in Tabs(h),
         \A v \in Tabs(h) : Groups[h].tabs[v].condition = NoCondition,
         NEW f, NEW state, Rounds(f, state), FirstOf(h, t) \in Range(state.selectedTabs)
  PROVE  \A k \in 0..Len(Groups) : FirstOf(h, t) \in Range(f[k].selectedTabs)
<1> DEFINE N == Len(Groups)
           id == FirstOf(h, t)
           T == {k \in 0..N : id \in Range(f[k].selectedTabs)}
<1>0. /\ N \in Nat /\ h \in DOMAIN Groups
  BY TabFacts DEF Dependent
<1>1. 0 \in T
  BY <1>0 DEF Rounds
<1>2. ASSUME NEW k \in 1..N, k - 1 \in T PROVE k \in T
  <2>0. k \in 0..N /\ id \in Range(f[k - 1].selectedTabs)
    BY <1>0, <1>2
  <2>1. ASSUME k \in Dependent, id \in IdsOf(k)
        PROVE  \E v \in Tabs(k) : Chosen(f[k - 1].selectedTabs, k, v)
    <3>1. Offered(f[k - 1].selectedTabs, h, t)
      BY DEF Offered
    <3>2. IdsOf(h) \cap IdsOf(k) # {}
      BY <1>0, <2>1, FirstIsId, InIdsOf
    <3> QED
      BY <2>0, <2>1, <3>1, <3>2, ChosenInKin
  <2>2. id \in Range(f[k].selectedTabs)
    <3> HIDE DEF id
    <3> QED
      BY <2>0, <2>1, StaysListed
  <2> QED
    BY <2>0, <2>2
<1> HIDE DEF T
<1>3. \A k \in 0..N : k \in T
  BY <1>0, <1>1, <1>2, Steps
<1> QED
  BY <1>3 DEF T

\* The tab that a settled group shows is the one that the list has.
LEMMA SettledShows ==
  ASSUME NEW state \in TabStates, NEW g \in Dependent, Settled(state, g),
         NEW t \in Tabs(g), FirstOf(g, t) \in Range(state.selectedTabs)
  PROVE  state.selected[g] = [u \in Tabs(g) |-> u = t]
BY DEF Settled, TabStates, Held

\* A click selects its tab and leaves the groups alone that do not depend on it.
LEMMA ClickDoes ==
  ASSUME Coherent, TabInv, NEW g \in DOMAIN Groups, NEW t \in Tabs(g), Click(g, t)
  PROVE  /\ selected'[g][t]
         /\ \A h \in DOMAIN Groups \ {g} :
              \/ selected'[h] = selected[h]
              \/ \E u \in Tabs(h) : /\ ~Groups[g].independent /\ h \in Dependent
                                    /\ \/ Ids(h, u) \cap Ids(g, t) # {}
                                       \/ Groups[h].tabs[u].condition # NoCondition
<1>1. CASE g \notin Dependent
  <2>1. /\ Groups[g].independent
        /\ selected' = [selected EXCEPT ![g] = [u \in Tabs(g) |-> Ids(g, u) \cap Ids(g, t) # {}]]
    <3>1. Groups[g].independent
      BY <1>1 DEF Dependent
    <3> QED
      BY <3>1 DEF Click
  <2>2. g \in DOMAIN selected
    BY DEF TabInv, TabStates, ServedState
  <2>3. FirstOf(g, t) \in Ids(g, t)
    BY FirstIsId
  <2>4. Ids(g, t) \cap Ids(g, t) # {}
    BY <2>3
  <2>5. selected'[g][t]
    BY <2>1, <2>2, <2>4
  <2>6. \A h \in DOMAIN Groups \ {g} : selected'[h] = selected[h]
    BY <2>1
  <2> QED
    BY <2>5, <2>6
<1>2. CASE g \in Dependent
  <2>0. /\ Len(Groups) \in Nat /\ Len(Groups) \in 0..Len(Groups) /\ ~Groups[g].independent
    BY <1>2, TabFacts DEF Dependent
  <2>a. PICK list : \E u \in Tabs(g) :
          /\ Offered(selectedTabs, g, t)
          /\ FirstOf(g, u) \in Range(selectedTabs)
          /\ Range(list) = (Range(selectedTabs) \ {FirstOf(g, u)}) \cup {FirstOf(g, t)}
          /\ ClickState(list) \in TabStates
          /\ Become(UpdatedAll(ClickState(list)))
    BY <1>2, ClickIs
  <2>1. PICK u \in Tabs(g) :
          /\ Offered(selectedTabs, g, t)
          /\ FirstOf(g, u) \in Range(selectedTabs)
          /\ Range(list) = (Range(selectedTabs) \ {FirstOf(g, u)}) \cup {FirstOf(g, t)}
          /\ ClickState(list) \in TabStates
          /\ Become(UpdatedAll(ClickState(list)))
    BY <2>a
  <2> DEFINE next == UpdatedAll(ClickState(list))
  <2>2. PICK f : Rounds(f, ClickState(list)) /\ next = f[Len(Groups)]
    BY <2>1, UpdatedAllIs
  <2>3. /\ next \in TabStates /\ \A h \in Dependent : Settled(next, h)
        /\ \A h \in DOMAIN Groups \ Dependent : next.selected[h] = selected[h]
    BY <2>1, AllSettled DEF ClickState
  <2>4. selected' = next.selected
    BY <2>1 DEF Become
  <2> HIDE DEF next
  <2>5. FirstOf(g, t) \in Range(next.selectedTabs)
    BY <1>2, <2>0, <2>1, <2>2, ClickStays
  <2>6. selected'[g][t]
    <3>1. selected'[g] = [v \in Tabs(g) |-> v = t]
      BY <1>2, <2>3, <2>4, <2>5, SettledShows
    <3> QED
      BY <3>1
  <2>7. ASSUME NEW h \in DOMAIN Groups \ {g}, h \in Dependent,
               \A v \in Tabs(h) : /\ Ids(h, v) \cap Ids(g, t) = {}
                                  /\ Groups[h].tabs[v].condition = NoCondition
        PROVE  selected'[h] = selected[h]
    <3>1. PICK v \in Tabs(h) : /\ FirstOf(h, v) \in Range(selectedTabs)
                               /\ selected[h] = [w \in Tabs(h) |-> w = v]
      BY <2>7 DEF TabInv, Settled, ServedState
    <3>2. FirstOf(h, v) # FirstOf(g, u)
      <4> SUFFICES ASSUME FirstOf(h, v) = FirstOf(g, u) PROVE FALSE
        OBVIOUS
      <4>1. Ids(g, u) \cap Ids(h, v) # {}
        BY FirstIsId
      <4>2. Kin(g, h)
        BY <1>2, <2>7, <4>1, SameTab
      <4>3. PICK w \in Tabs(h) : Ids(h, w) = Ids(g, t)
        BY <4>2, KinTab
      <4>4. FirstOf(g, t) \in Ids(g, t)
        BY FirstIsId
      <4> QED
        BY <2>7, <4>3, <4>4
    <3>3. FirstOf(h, v) \in Range(ClickState(list).selectedTabs)
      BY <2>1, <3>1, <3>2 DEF ClickState
    <3>4. FirstOf(h, v) \in Range(next.selectedTabs)
      BY <2>0, <2>2, <2>7, <3>3, OthersStay
    <3>5. selected'[h] = [w \in Tabs(h) |-> w = v]
      BY <2>3, <2>4, <2>7, <3>4, SettledShows
    <3> QED
      BY <3>1, <3>5
  <2> QED
    BY <2>0, <2>3, <2>4, <2>6, <2>7
<1> QED
  BY <1>1, <1>2

\* What a page with coherent groups of tabs shows, whatever is clicked: each
\* group one tab, which the list has, and the list and the url nothing else.
THEOREM OneTab == Coherent => (SiteSpec => []OneTabPerGroup)
<1> SUFFICES ASSUME Coherent PROVE SiteSpec => []OneTabPerGroup
  OBVIOUS
<1>1. SiteInit => TabInv
  BY TabsStart DEF SiteInit, SiteStarts
<1>2. TabInv /\ [SiteNext]_siteVars => TabInv'
  <2> SUFFICES ASSUME TabInv, [SiteNext]_siteVars PROVE TabInv'
    OBVIOUS
  <2>1. [TabsNext]_tabVars
    BY DEF SiteNext, IndexWorks, BoxWorks, TabsWork, ContentsWork, OutlineWorks, siteVars
  <2> QED
    BY <2>1, TabsStep
<1>3. TabInv => OneTabPerGroup
  BY TabInvShows
<1> QED
  BY <1>1, <1>2, <1>3, PTL DEF SiteSpec

\* In such a page a click selects its tab, in its group and through all the
\* updates of the others, and leaves the tabs alone that do not depend on it.
THEOREM ClicksSelect == Coherent => (SiteSpec => ClickSelects)
<1> SUFFICES ASSUME Coherent PROVE SiteSpec => ClickSelects
  OBVIOUS
<1>1. SiteInit => TabInv
  BY TabsStart DEF SiteInit, SiteStarts
<1>2. TabInv /\ [SiteNext]_siteVars => TabInv'
  <2> SUFFICES ASSUME TabInv, [SiteNext]_siteVars PROVE TabInv'
    OBVIOUS
  <2>1. [TabsNext]_tabVars
    BY DEF SiteNext, IndexWorks, BoxWorks, TabsWork, ContentsWork, OutlineWorks, siteVars
  <2> QED
    BY <2>1, TabsStep
<1> DEFINE Does ==
      \A g \in DOMAIN Groups : \A t \in Tabs(g) :
        tabVars' # tabVars /\ Click(g, t) =>
          /\ selected'[g][t]
          /\ \A h \in DOMAIN Groups \ {g} :
               \/ selected'[h] = selected[h]
               \/ \E u \in Tabs(h) : /\ ~Groups[g].independent /\ h \in Dependent
                                     /\ \/ Ids(h, u) \cap Ids(g, t) # {}
                                        \/ Groups[h].tabs[u].condition # NoCondition
<1>3. TabInv => [Does]_tabVars
  BY ClickDoes
<1>4. ClickSelects <=> [][Does]_tabVars
  BY DEF ClickSelects
<1> HIDE DEF Does
<1> QED
  BY <1>1, <1>2, <1>3, <1>4, PTL DEF SiteSpec

-------------------------------------------------------------------------------
\* What a loop over the elements of a sequence makes of x.
Along(f, s, x, step) == f = [n \in 0..Len(s) |-> IF n = 0 THEN x ELSE step[<<s[n], f[n - 1]>>]]

Result(s, x, step) == LET f == CHOOSE f : Along(f, s, x, step) IN f[Len(s)]

LEMMA AlongRuns ==
  ASSUME NEW C, NEW S, NEW s \in Seq(C), NEW x \in S, NEW step,
         \A c \in C, y \in S : step[<<c, y>>] \in S
  PROVE  \E f : Along(f, s, x, step) /\ \A n \in 0..Len(s) : f[n] \in S
<1> DEFINE N == Len(s)
           round == [p \in (1..N) \X S |-> step[<<s[p[1]], p[2]>>]]
<1>0. N \in Nat /\ \A n \in 1..N : s[n] \in C
  OBVIOUS
<1>1. \A n \in 1..N, y \in S : round[<<n, y>>] = step[<<s[n], y>>]
  OBVIOUS
<1> HIDE DEF N, round
<1>2. \A n \in 1..N, y \in S : round[<<n, y>>] \in S
  BY <1>0, <1>1
<1>3. PICK f : Loops(f, N, x, round) /\ \A n \in 0..N : f[n] \in S
  BY <1>0, <1>2, Iterates
<1>4. Along(f, s, x, step)
  <2>1. \A n \in 0..N : (IF n = 0 THEN x ELSE round[<<n, f[n - 1]>>])
                      = (IF n = 0 THEN x ELSE step[<<s[n], f[n - 1]>>])
    <3> SUFFICES ASSUME NEW n \in 0..N, n # 0
                 PROVE  round[<<n, f[n - 1]>>] = step[<<s[n], f[n - 1]>>]
      OBVIOUS
    <3>1. n \in 1..N /\ n - 1 \in 0..N
      BY <1>0
    <3> QED
      BY <1>1, <1>3, <3>1
  <2> QED
    BY <1>3, <2>1 DEF Loops, Along, N
<1> QED
  BY <1>3, <1>4 DEF N

LEMMA ResultIs ==
  ASSUME NEW C, NEW s \in Seq(C), NEW x, NEW step, NEW f, Along(f, s, x, step)
  PROVE  Result(s, x, step) = f[Len(s)]
<1> DEFINE N == Len(s)
           g == CHOOSE g : Along(g, s, x, step)
           T == {n \in 0..N : g[n] = f[n]}
<1>0. N \in Nat
  OBVIOUS
<1>1. Along(g, s, x, step)
  OBVIOUS
<1> HIDE DEF g
<1>2. /\ g = [n \in 0..N |-> IF n = 0 THEN x ELSE step[<<s[n], g[n - 1]>>]]
      /\ f = [n \in 0..N |-> IF n = 0 THEN x ELSE step[<<s[n], f[n - 1]>>]]
  BY <1>1 DEF Along
<1> HIDE DEF N
<1>3. /\ \A n \in 0..N : g[n] = IF n = 0 THEN x ELSE step[<<s[n], g[n - 1]>>]
      /\ \A n \in 0..N : f[n] = IF n = 0 THEN x ELSE step[<<s[n], f[n - 1]>>]
  BY <1>2
<1>4. 0 \in T
  <2>1. 0 \in 0..N
    BY <1>0
  <2>2. g[0] = x /\ f[0] = x
    BY <1>3, <2>1
  <2> QED
    BY <2>1, <2>2
<1>5. ASSUME NEW n \in 1..N, n - 1 \in T PROVE n \in T
  <2>1. n \in 0..N /\ n # 0 /\ g[n - 1] = f[n - 1]
    BY <1>0, <1>5
  <2> QED
    BY <1>3, <2>1
<1> HIDE DEF T
<1>6. \A n \in 0..N : n \in T
  BY <1>0, <1>4, <1>5, Steps
<1> QED
  BY <1>0, <1>6 DEF T, Result, g, N

LEMMA ResultOfNone ==
  ASSUME NEW x, NEW step
  PROVE  Result(<<>>, x, step) = x
<1> DEFINE f == [n \in 0..0 |-> x]
<1>1. Along(f, <<>>, x, step)
  BY DEF Along
<1>2. f[Len(<<>>)] = x
  OBVIOUS
<1> HIDE DEF f
<1>3. <<>> \in Seq({})
  OBVIOUS
<1> QED
  BY <1>1, <1>2, <1>3, ResultIs

LEMMA ResultOfOne ==
  ASSUME NEW c, NEW x, NEW step
  PROVE  Result(<<c>>, x, step) = step[<<c, x>>]
<1> DEFINE f == [n \in 0..1 |-> IF n = 0 THEN x ELSE step[<<c, x>>]]
<1>1. f[0] = x /\ f[1] = step[<<c, x>>]
  OBVIOUS
<1>2. \A n \in 0..1 : f[n] = IF n = 0 THEN x ELSE step[<<<<c>>[n], f[n - 1]>>]
  BY <1>1
<1>3. f = [n \in 0..1 |-> f[n]]
  OBVIOUS
<1> HIDE DEF f
<1>4. Along(f, <<c>>, x, step)
  BY <1>2, <1>3 DEF Along
<1>5. <<c>> \in Seq({c}) /\ Len(<<c>>) = 1
  OBVIOUS
<1> QED
  BY <1>1, <1>4, <1>5, ResultIs

Joined(s, t) == s \o t

\* A loop that stays in S, and that may be cut anywhere.
StepsIn(C, S, step) == \A c \in C, y \in S : step[<<c, y>>] \in S

Splits(C, S, step) ==
  \A s \in Seq(C), t \in Seq(C), x \in S :
    /\ Result(s, x, step) \in S
    /\ Result(Joined(s, t), x, step) = Result(t, Result(s, x, step), step)

LEMMA ResultOfAll ==
  ASSUME NEW C, NEW S, NEW step, StepsIn(C, S, step)
  PROVE  Splits(C, S, step)
<1> SUFFICES ASSUME NEW s \in Seq(C), NEW t \in Seq(C), NEW x \in S
             PROVE  /\ Result(s, x, step) \in S
                    /\ Result(Joined(s, t), x, step) = Result(t, Result(s, x, step), step)
  BY DEF Splits
<1>s. \A c \in C, y \in S : step[<<c, y>>] \in S
  BY DEF StepsIn
<1> DEFINE r == s \o t
           M == Len(s)
           N == Len(t)
<1>0. /\ M \in Nat /\ N \in Nat /\ r \in Seq(C) /\ Len(r) = M + N
      /\ \A n \in 1..M : r[n] = s[n]
      /\ \A n \in 1..N : r[M + n] = t[n]
  OBVIOUS
<1>a. Joined(s, t) = r
  BY DEF Joined
<1> HIDE DEF r
<1>1. PICK f : Along(f, s, x, step) /\ \A n \in 0..M : f[n] \in S
  BY <1>s, AlongRuns
<1> DEFINE y == f[M]
<1>2. y \in S /\ Result(s, x, step) = y
  BY <1>0, <1>1, ResultIs
<1>3. PICK g : Along(g, t, y, step) /\ \A n \in 0..N : g[n] \in S
  BY <1>2, <1>s, AlongRuns
<1>4. Result(t, y, step) = g[N]
  BY <1>3, ResultIs
<1>5. PICK h : Along(h, r, x, step) /\ \A n \in 0..Len(r) : h[n] \in S
  BY <1>0, <1>s, AlongRuns
<1>6. Result(r, x, step) = h[M + N]
  <2> HIDE DEF M, N
  <2>1. r \in Seq(C) /\ Along(h, r, x, step)
    BY <1>0, <1>5
  <2>2. Result(r, x, step) = h[Len(r)]
    BY <2>1, ResultIs
  <2> QED
    BY <1>0, <2>2
<1> HIDE DEF y, M, N
<1>7. /\ \A n \in 0..M : f[n] = IF n = 0 THEN x ELSE step[<<s[n], f[n - 1]>>]
      /\ \A n \in 0..N : g[n] = IF n = 0 THEN y ELSE step[<<t[n], g[n - 1]>>]
      /\ \A n \in 0..M + N : h[n] = IF n = 0 THEN x ELSE step[<<r[n], h[n - 1]>>]
  <2>1. \A n \in 0..M : f[n] = IF n = 0 THEN x ELSE step[<<s[n], f[n - 1]>>]
    BY <1>1 DEF Along, M
  <2>2. \A n \in 0..N : g[n] = IF n = 0 THEN y ELSE step[<<t[n], g[n - 1]>>]
    BY <1>3 DEF Along, N
  <2>3. \A n \in 0..Len(r) : h[n] = IF n = 0 THEN x ELSE step[<<r[n], h[n - 1]>>]
    BY <1>5 DEF Along
  <2> QED
    BY <1>0, <2>1, <2>2, <2>3
<1> DEFINE T == {n \in 0..M : h[n] = f[n]}
<1>8. \A n \in 0..M : n \in T
  <2>1. 0 \in T
    <3>1. 0 \in 0..M /\ 0 \in 0..M + N
      BY <1>0
    <3>2. h[0] = x /\ f[0] = x
      BY <1>7, <3>1
    <3> QED
      BY <3>1, <3>2
  <2>2. ASSUME NEW n \in 1..M, n - 1 \in T PROVE n \in T
    <3>1. n \in 0..M /\ n \in 0..M + N /\ n # 0 /\ h[n - 1] = f[n - 1] /\ r[n] = s[n]
      BY <1>0, <2>2
    <3> QED
      BY <1>7, <3>1
  <2> HIDE DEF T
  <2> QED
    BY <1>0, <2>1, <2>2, Steps
<1> DEFINE U == {n \in 0..N : h[M + n] = g[n]}
<1>9. \A n \in 0..N : n \in U
  <2>1. 0 \in U
    <3>1. M \in 0..M /\ M + 0 = M /\ 0 \in 0..N
      BY <1>0
    <3> QED
      BY <1>7, <1>8, <3>1 DEF y
  <2>2. ASSUME NEW n \in 1..N, n - 1 \in U PROVE n \in U
    <3>1. /\ n \in 0..N /\ M + n \in 0..M + N /\ n # 0 /\ M + n # 0
          /\ (M + n) - 1 = M + (n - 1)
      <4>1. M \in Nat /\ N \in Nat /\ n \in 1..N
        BY <1>0
      <4> QED
        BY <4>1
    <3>2. h[M + (n - 1)] = g[n - 1] /\ r[M + n] = t[n]
      BY <1>0, <2>2
    <3>3. h[M + n] = step[<<r[M + n], h[(M + n) - 1]>>] /\ g[n] = step[<<t[n], g[n - 1]>>]
      BY <1>7, <3>1
    <3> QED
      BY <3>1, <3>2, <3>3
  <2> HIDE DEF U
  <2> QED
    BY <1>0, <2>1, <2>2, Steps
<1>10. h[M + N] = g[N]
  BY <1>0, <1>9
<1> QED
  BY <1>a, <1>2, <1>4, <1>6, <1>10


-------------------------------------------------------------------------------
LexemeTypes == {"FIELD", "TERM", "EDIT_DISTANCE", "BOOST"}
LexemeSet == [type : LexemeTypes, str : Seq(Nat)]

Lexers == [mode : {"text", "escape", "EDIT_DISTANCE", "BOOST"}, str : Seq(Nat),
           width : Nat, lexemes : Seq(LexemeSet)]

LexStep == [p \in Nat \X Lexers |-> LexCharacter(p[2], p[1])]

\* The lexer as a record of its four parts.
LexerAt(mode, str, width, lexemes) ==
  [mode |-> mode, str |-> str, width |-> width, lexemes |-> lexemes]

LEMMA LexerFacts ==
  ASSUME NEW lexer \in Lexers
  PROVE  /\ lexer = LexerAt(lexer.mode, lexer.str, lexer.width, lexer.lexemes)
         /\ lexer.mode \in {"text", "escape", "EDIT_DISTANCE", "BOOST"}
         /\ lexer.str \in Seq(Nat) /\ lexer.width \in Nat /\ lexer.lexemes \in Seq(LexemeSet)
BY DEF Lexers, LexerAt

LEMMA LexersHave ==
  ASSUME NEW m \in {"text", "escape", "EDIT_DISTANCE", "BOOST"}, NEW s \in Seq(Nat),
         NEW w \in Nat, NEW L \in Seq(LexemeSet)
  PROVE  LexerAt(m, s, w, L) \in Lexers
BY DEF Lexers, LexerAt

LEMMA EmitIs ==
  ASSUME NEW m, NEW s, NEW w, NEW L, NEW type
  PROVE  Emit(LexerAt(m, s, w, L), type)
           = LexerAt("text", <<>>, 0, Append(L, [type |-> type, str |-> s]))
<1> DEFINE x == LexerAt(m, s, w, L)
           A == Append(L, [type |-> type, str |-> s])
<1>1. x = [mode |-> m, str |-> s, width |-> w, lexemes |-> L]
  BY DEF LexerAt
<1> HIDE DEF x
<1>2. x.str = s /\ x.lexemes = L
  BY <1>1
<1>3. Emit(x, type) = [x EXCEPT !.lexemes = A, !.mode = "text", !.str = <<>>, !.width = 0]
  BY <1>2 DEF Emit
<1> HIDE DEF A
<1>4. Emit(x, type) = [mode |-> "text", str |-> <<>>, width |-> 0, lexemes |-> A]
  BY <1>1, <1>3
<1> QED
  BY <1>4 DEF x, A, LexerAt

LEMMA TakeIs ==
  ASSUME NEW m, NEW s, NEW w, NEW L, NEW c
  PROVE  Take(LexerAt(m, s, w, L), c) = LexerAt(m, Append(s, c), w + 1, L)
<1> DEFINE x == LexerAt(m, s, w, L)
           A == Append(s, c)
<1>1. x = [mode |-> m, str |-> s, width |-> w, lexemes |-> L]
  BY DEF LexerAt
<1> HIDE DEF x
<1>2. x.str = s /\ x.width = w
  BY <1>1
<1>3. Take(x, c) = [x EXCEPT !.str = A, !.width = w + 1]
  BY <1>2 DEF Take
<1> HIDE DEF A
<1>4. Take(x, c) = [mode |-> m, str |-> A, width |-> w + 1, lexemes |-> L]
  BY <1>1, <1>3
<1> QED
  BY <1>4 DEF x, A, LexerAt

LEMMA EmitTermIs ==
  ASSUME NEW m, NEW s, NEW w \in Nat, NEW L
  PROVE  EmitTerm(LexerAt(m, s, w, L))
           = IF w > 0 THEN LexerAt("text", <<>>, 0, Append(L, [type |-> "TERM", str |-> s]))
             ELSE LexerAt(m, s, w, L)
<1>1. LexerAt(m, s, w, L).width = w
  BY DEF LexerAt
<1> QED
  BY <1>1, EmitIs DEF EmitTerm

InMode(lexer, mode) == [lexer EXCEPT !.mode = mode]
Escaping(lexer) == [lexer EXCEPT !.mode = "escape", !.width = @ + 1]

LEMMA PartsOf ==
  ASSUME NEW m, NEW s, NEW w, NEW L
  PROVE  LET l == LexerAt(m, s, w, L) IN l.mode = m /\ l.lexemes = L /\ l.width = w /\ l.str = s
BY DEF LexerAt

LEMMA InModeIs ==
  ASSUME NEW m, NEW s, NEW w, NEW L, NEW n
  PROVE  InMode(LexerAt(m, s, w, L), n) = LexerAt(n, s, w, L)
<1> DEFINE x == LexerAt(m, s, w, L)
<1>1. x = [mode |-> m, str |-> s, width |-> w, lexemes |-> L]
  BY DEF LexerAt
<1> HIDE DEF x
<1>2. InMode(x, n) = [mode |-> n, str |-> s, width |-> w, lexemes |-> L]
  BY <1>1 DEF InMode
<1> QED
  BY <1>2 DEF x, LexerAt

LEMMA EscapingIs ==
  ASSUME NEW m, NEW s, NEW w, NEW L
  PROVE  Escaping(LexerAt(m, s, w, L)) = LexerAt("escape", s, w + 1, L)
<1> DEFINE x == LexerAt(m, s, w, L)
           y == [x EXCEPT !.mode = "escape"]
           v == w + 1
<1>1. x.width + 1 = v
  BY PartsOf
<1>2. Escaping(x) = [y EXCEPT !.width = v]
  BY <1>1 DEF Escaping
<1>3. y = [mode |-> "escape", str |-> s, width |-> w, lexemes |-> L]
  BY InModeIs DEF InMode, LexerAt
<1> HIDE DEF x, y, v
<1>4. [y EXCEPT !.width = v] = [mode |-> "escape", str |-> s, width |-> v, lexemes |-> L]
  BY <1>3
<1> QED
  BY <1>2, <1>4 DEF x, v, LexerAt

LEMMA LexerKept ==
  ASSUME NEW lexer \in Lexers
  PROVE  /\ EmitTerm(lexer) \in Lexers
         /\ \A type \in LexemeTypes : Emit(lexer, type) \in Lexers
         /\ \A c \in Nat : Take(lexer, c) \in Lexers
         /\ \A m \in {"text", "escape", "EDIT_DISTANCE", "BOOST"} :
              InMode(lexer, m) \in Lexers
         /\ Escaping(lexer) \in Lexers
<1> DEFINE M == lexer.mode
           s == lexer.str
           w == lexer.width
           L == lexer.lexemes
<1>1. /\ lexer = LexerAt(M, s, w, L) /\ M \in {"text", "escape", "EDIT_DISTANCE", "BOOST"}
      /\ s \in Seq(Nat) /\ w \in Nat /\ L \in Seq(LexemeSet)
  BY LexerFacts
<1> HIDE DEF M, s, w, L
<1>2. ASSUME NEW type \in LexemeTypes PROVE Emit(lexer, type) \in Lexers
  <2>1. [type |-> type, str |-> s] \in LexemeSet
    BY <1>1 DEF LexemeSet
  <2>2. Append(L, [type |-> type, str |-> s]) \in Seq(LexemeSet) /\ <<>> \in Seq(Nat)
    BY <1>1, <2>1
  <2> QED
    <3> DEFINE A == Append(L, [type |-> type, str |-> s])
    <3>1. Emit(lexer, type) = LexerAt("text", <<>>, 0, A)
      BY <1>1, EmitIs
    <3>2. A \in Seq(LexemeSet)
      BY <2>2
    <3> HIDE DEF A
    <3>3. LexerAt("text", <<>>, 0, A) \in Lexers
      BY <2>2, <3>2, LexersHave
    <3> QED
      BY <3>1, <3>3
<1>3. EmitTerm(lexer) \in Lexers
  BY <1>2 DEF EmitTerm, LexemeTypes
<1>4. ASSUME NEW c \in Nat PROVE Take(lexer, c) \in Lexers
  <2>1. Append(s, c) \in Seq(Nat) /\ w + 1 \in Nat
    BY <1>1
  <2> QED
    <3>1. Take(lexer, c) = LexerAt(M, Append(s, c), w + 1, L)
      BY <1>1, TakeIs
    <3>2. LexerAt(M, Append(s, c), w + 1, L) \in Lexers
      BY <1>1, <2>1, LexersHave
    <3> QED
      BY <3>1, <3>2
<1>5. ASSUME NEW m \in {"text", "escape", "EDIT_DISTANCE", "BOOST"}
      PROVE  InMode(lexer, m) \in Lexers
  BY DEF Lexers, InMode
<1>6. Escaping(lexer) \in Lexers
  <2>1. Escaping(lexer) = LexerAt("escape", s, w + 1, L) /\ w + 1 \in Nat
    BY <1>1, EscapingIs
  <2> QED
    BY <1>1, <2>1, LexersHave
<1> QED
  BY <1>2, <1>3, <1>4, <1>5, <1>6

LEMMA LexTextKept ==
  ASSUME NEW lexer \in Lexers, NEW c \in Nat
  PROVE  LexText(lexer, c) \in Lexers
<1>1. EmitTerm(lexer) \in Lexers
  BY LexerKept
<1>2. /\ Escaping(lexer) \in Lexers
      /\ Emit(lexer, "FIELD") \in Lexers /\ Take(lexer, c) \in Lexers
  BY LexerKept DEF LexemeTypes
<1>3. /\ InMode(EmitTerm(lexer), "EDIT_DISTANCE") \in Lexers
      /\ InMode(EmitTerm(lexer), "BOOST") \in Lexers
  BY <1>1, LexerKept
<1> QED
  BY <1>1, <1>2, <1>3 DEF LexText, InMode, Escaping

LEMMA LexCharacterKept ==
  ASSUME NEW lexer \in Lexers, NEW c \in Nat
  PROVE  LexCharacter(lexer, c) \in Lexers
<1>1. lexer.mode \in {"text", "escape", "EDIT_DISTANCE", "BOOST"}
  BY LexerFacts
<1>2. LexText(lexer, c) \in Lexers /\ Take(lexer, c) \in Lexers
  BY LexTextKept, LexerKept
<1>3. InMode(Take(lexer, c), "text") \in Lexers
  BY <1>2, LexerKept
<1>4. lexer.mode \in LexemeTypes => LexText(Emit(lexer, lexer.mode), c) \in Lexers
  BY LexerKept, LexTextKept
<1> QED
  BY <1>1, <1>2, <1>3, <1>4 DEF LexCharacter, LexemeTypes, InMode

\* The lexer is such a loop.
LEMMA LexedIs ==
  ASSUME NEW lexer \in Lexers, NEW str \in Seq(Nat)
  PROVE  Lexed(lexer, str) = Result(str, lexer, LexStep)
<1> DEFINE N == Len(str)
           Solves(f) == f = [n \in 0..N |-> IF n = 0 THEN lexer ELSE LexCharacter(f[n - 1], str[n])]
           run == CHOOSE f : Solves(f)
<1>0. N \in Nat /\ \A n \in 1..N : str[n] \in Nat
  OBVIOUS
<1>1. \A c \in Nat, x \in Lexers :
        LexStep[<<c, x>>] = LexCharacter(x, c) /\ LexStep[<<c, x>>] \in Lexers
  BY LexCharacterKept DEF LexStep
<1>2. PICK f : Along(f, str, lexer, LexStep) /\ \A n \in 0..Len(str) : f[n] \in Lexers
  BY <1>1, AlongRuns
<1>3. Result(str, lexer, LexStep) = f[N]
  BY <1>2, ResultIs
<1>4. f = [n \in 0..N |-> IF n = 0 THEN lexer ELSE LexStep[<<str[n], f[n - 1]>>]]
  BY <1>2 DEF Along
<1>5. Lexed(lexer, str) = run[N]
  BY DEF Lexed
<1>6. \A n \in 0..N : f[n] \in Lexers
  BY <1>2
<1> HIDE DEF N
<1>7. Solves(f)
  <2>1. \A n \in 0..N : (IF n = 0 THEN lexer ELSE LexStep[<<str[n], f[n - 1]>>])
                      = (IF n = 0 THEN lexer ELSE LexCharacter(f[n - 1], str[n]))
    <3> SUFFICES ASSUME NEW n \in 0..N, n # 0
                 PROVE  LexStep[<<str[n], f[n - 1]>>] = LexCharacter(f[n - 1], str[n])
      OBVIOUS
    <3>1. n \in 1..N /\ n - 1 \in 0..N
      BY <1>0
    <3> QED
      BY <1>0, <1>1, <1>6, <3>1
  <2> QED
    BY <1>4, <2>1
<1>8. Solves(run)
  BY <1>7
<1> HIDE DEF run
<1>9. /\ \A n \in 0..N : f[n] = IF n = 0 THEN lexer ELSE LexCharacter(f[n - 1], str[n])
      /\ \A n \in 0..N : run[n] = IF n = 0 THEN lexer ELSE LexCharacter(run[n - 1], str[n])
  BY <1>7, <1>8
<1> DEFINE U == {n \in 0..N : run[n] = f[n]}
<1>10. 0 \in U
  <2>1. 0 \in 0..N
    BY <1>0
  <2>2. run[0] = lexer /\ f[0] = lexer
    BY <1>9, <2>1
  <2> QED
    BY <2>1, <2>2
<1>11. ASSUME NEW n \in 1..N, n - 1 \in U PROVE n \in U
  <2>1. n \in 0..N /\ n # 0 /\ run[n - 1] = f[n - 1]
    BY <1>0, <1>11
  <2>2. run[n] = LexCharacter(run[n - 1], str[n]) /\ f[n] = LexCharacter(f[n - 1], str[n])
    BY <1>9, <2>1
  <2> QED
    BY <2>1, <2>2
<1> HIDE DEF U
<1>12. \A n \in 0..N : n \in U
  BY <1>0, <1>10, <1>11, Steps
<1> QED
  BY <1>0, <1>3, <1>5, <1>12 DEF U

LEMMA LexedSteps ==
  \A c \in Nat, x \in Lexers :
    LexStep[<<c, x>>] = LexCharacter(x, c) /\ LexStep[<<c, x>>] \in Lexers
BY LexCharacterKept DEF LexStep

LEMMA LexedNone ==
  ASSUME NEW lexer \in Lexers
  PROVE  Lexed(lexer, <<>>) = lexer
<1>1. <<>> \in Seq(Nat)
  OBVIOUS
<1> QED
  BY <1>1, LexedIs, ResultOfNone

LEMMA LexedOne ==
  ASSUME NEW lexer \in Lexers, NEW c \in Nat
  PROVE  Lexed(lexer, <<c>>) = LexCharacter(lexer, c) /\ Lexed(lexer, <<c>>) \in Lexers
<1>1. <<c>> \in Seq(Nat)
  OBVIOUS
<1>2. Result(<<c>>, lexer, LexStep) = LexStep[<<c, lexer>>]
  BY ResultOfOne
<1>3. Lexed(lexer, <<c>>) = Result(<<c>>, lexer, LexStep)
  BY <1>1, LexedIs
<1> QED
  BY <1>2, <1>3, LexedSteps

LEMMA LexedBoth ==
  ASSUME NEW lexer \in Lexers, NEW s \in Seq(Nat), NEW t \in Seq(Nat)
  PROVE  Lexed(lexer, s) \in Lexers /\ Lexed(lexer, Joined(s, t)) = Lexed(Lexed(lexer, s), t)
<1> DEFINE y == Result(s, lexer, LexStep)
           r == Joined(s, t)
<1>1. \A c \in Nat, x \in Lexers : LexStep[<<c, x>>] \in Lexers
  BY LexedSteps
<1>2. y \in Lexers /\ Result(r, lexer, LexStep) = Result(t, y, LexStep)
  <2>1. \A u \in Seq(Nat), v \in Seq(Nat), x \in Lexers :
          /\ Result(u, x, LexStep) \in Lexers
          /\ Result(Joined(u, v), x, LexStep) = Result(v, Result(u, x, LexStep), LexStep)
    <3>1. StepsIn(Nat, Lexers, LexStep)
      BY <1>1 DEF StepsIn
    <3>2. Splits(Nat, Lexers, LexStep)
      BY <3>1, ResultOfAll
    <3> QED
      BY <3>2 DEF Splits
  <2>2. /\ Result(s, lexer, LexStep) \in Lexers
        /\ Result(Joined(s, t), lexer, LexStep) = Result(t, Result(s, lexer, LexStep), LexStep)
    BY <2>1
  <2> QED
    BY <2>2 DEF y, r
<1>3. r \in Seq(Nat)
  BY DEF Joined
<1> HIDE DEF y, r
<1>4. Lexed(lexer, r) = Result(r, lexer, LexStep) /\ Lexed(y, t) = Result(t, y, LexStep)
  BY <1>2, <1>3, LexedIs
<1>5. Lexed(lexer, s) = y
  BY LexedIs DEF y
<1> QED
  BY <1>2, <1>4, <1>5 DEF r

\* What a character does in a run of text.
LEMMA LexTextIs ==
  ASSUME NEW s \in Seq(Nat), NEW w \in Nat, NEW L \in Seq(LexemeSet), NEW c \in Nat
  PROVE  LET l == LexerAt("text", s, w, L) IN
         /\ l \in Lexers
         /\ LexCharacter(l, c) = LexText(l, c)
         /\ c = Backslash => LexText(l, c) = LexerAt("escape", s, w + 1, L)
         /\ c \notin SpecialCharacters /\ ~IsTermSeparator(c)
              => LexText(l, c) = LexerAt("text", Append(s, c), w + 1, L)
         /\ LexCharacter(LexerAt("escape", s, w, L), c) = LexerAt("text", Append(s, c), w + 1, L)
<1> DEFINE l == LexerAt("text", s, w, L)
           e == LexerAt("escape", s, w, L)
<1>1. l \in Lexers
  BY LexersHave
<1>2. l.mode = "text" /\ e.mode = "escape"
  BY PartsOf
<1>3. LexCharacter(l, c) = LexText(l, c) /\ LexCharacter(e, c) = InMode(Take(e, c), "text")
  <2> HIDE DEF l, e
  <2> QED
    BY <1>2 DEF LexCharacter, InMode
<1>4. ASSUME c = Backslash PROVE LexText(l, c) = LexerAt("escape", s, w + 1, L)
  <2>1. LexText(l, c) = Escaping(l)
    <3> HIDE DEF l
    <3> QED
      BY <1>4 DEF LexText, Escaping, Backslash, Colon, Tilde, Caret, IsTermSeparator
  <2> QED
    BY <2>1, EscapingIs
<1>5. ASSUME c \notin SpecialCharacters, ~IsTermSeparator(c)
      PROVE  LexText(l, c) = LexerAt("text", Append(s, c), w + 1, L)
  <2>1. LexText(l, c) = Take(l, c)
    BY <1>5 DEF LexText, SpecialCharacters
  <2> QED
    BY <2>1, TakeIs
<1>6. LexCharacter(e, c) = LexerAt("text", Append(s, c), w + 1, L)
  <2>1. Take(e, c) = LexerAt("escape", Append(s, c), w + 1, L)
    BY TakeIs
  <2>2. InMode(LexerAt("escape", Append(s, c), w + 1, L), "text")
          = LexerAt("text", Append(s, c), w + 1, L)
    BY InModeIs
  <2> QED
    BY <1>3, <2>1, <2>2
<1> HIDE DEF l, e
<1>7. /\ l \in Lexers
      /\ LexCharacter(l, c) = LexText(l, c)
      /\ c = Backslash => LexText(l, c) = LexerAt("escape", s, w + 1, L)
      /\ c \notin SpecialCharacters /\ ~IsTermSeparator(c)
           => LexText(l, c) = LexerAt("text", Append(s, c), w + 1, L)
      /\ LexCharacter(e, c) = LexerAt("text", Append(s, c), w + 1, L)
  BY <1>1, <1>3, <1>4, <1>5, <1>6
<1> QED
  BY <1>7 DEF l, e

\* An escaped character is read as itself.
LEMMA LexEscape ==
  ASSUME NEW s \in Seq(Nat), NEW w \in Nat, NEW L \in Seq(LexemeSet), NEW c \in Nat
  PROVE  /\ Escape(c) \in Seq(Nat)
         /\ \E v \in Nat : /\ v > w
                           /\ Lexed(LexerAt("text", s, w, L), Escape(c))
                                = LexerAt("text", Append(s, c), v, L)
<1> DEFINE l == LexerAt("text", s, w, L)
<1>0. /\ Backslash \in Nat /\ w + 1 \in Nat /\ w + 2 \in Nat /\ w + 1 > w /\ w + 2 > w
      /\ (w + 1) + 1 = w + 2
  BY DEF Backslash
<1>1. CASE c \in SpecialCharacters \/ IsTermSeparator(c)
  <2>1. Escape(c) = <<Backslash, c>> /\ Escape(c) \in Seq(Nat) /\ <<Backslash>> \in Seq(Nat)
        /\ <<c>> \in Seq(Nat) /\ Escape(c) = Joined(<<Backslash>>, <<c>>)
    BY <1>0, <1>1 DEF Escape, Joined
  <2>2. l \in Lexers /\ LexCharacter(l, Backslash) = LexerAt("escape", s, w + 1, L)
    BY <1>0, LexTextIs
  <2>3. Lexed(l, <<Backslash>>) = LexerAt("escape", s, w + 1, L)
    BY <1>0, <2>2, LexedOne
  <2>4. LexerAt("escape", s, w + 1, L) \in Lexers
    BY <1>0, LexersHave
  <2>5. LexCharacter(LexerAt("escape", s, w + 1, L), c) = LexerAt("text", Append(s, c), (w + 1) + 1, L)
    BY <1>0, LexTextIs
  <2>6. Lexed(LexerAt("escape", s, w + 1, L), <<c>>) = LexerAt("text", Append(s, c), w + 2, L)
    BY <1>0, <2>4, <2>5, LexedOne
  <2> HIDE DEF l
  <2>7. Lexed(l, Escape(c)) = Lexed(Lexed(l, <<Backslash>>), <<c>>)
    <3> DEFINE s1 == <<Backslash>>
               t1 == <<c>>
    <3>1. l \in Lexers /\ s1 \in Seq(Nat) /\ t1 \in Seq(Nat)
      BY <2>1, <2>2
    <3>2. Escape(c) = Joined(s1, t1)
      BY <2>1
    <3> HIDE DEF s1, t1
    <3>3. Lexed(l, Joined(s1, t1)) = Lexed(Lexed(l, s1), t1)
      BY <3>1, LexedBoth
    <3> QED
      BY <3>2, <3>3 DEF s1, t1
  <2>8. Lexed(l, Escape(c)) = LexerAt("text", Append(s, c), w + 2, L)
    BY <2>1, <2>3, <2>6, <2>7
  <2> QED
    BY <1>0, <2>1, <2>8 DEF l
<1>2. CASE ~(c \in SpecialCharacters \/ IsTermSeparator(c))
  <2>1. Escape(c) = <<c>> /\ Escape(c) \in Seq(Nat)
    BY <1>2 DEF Escape
  <2>2. l \in Lexers /\ LexCharacter(l, c) = LexerAt("text", Append(s, c), w + 1, L)
    BY <1>2, LexTextIs
  <2>3. Lexed(l, Escape(c)) = LexerAt("text", Append(s, c), w + 1, L)
    BY <2>1, <2>2, LexedOne
  <2> QED
    BY <1>0, <2>1, <2>3
<1> QED
  BY <1>1, <1>2

\* The loop that writes a term.
LEMMA EscapedIs ==
  ASSUME NEW term \in Seq(Nat)
  PROVE  \E f : /\ \A n \in 0..Len(term) : f[n] \in Seq(Nat)
                /\ f[0] = <<>>
                /\ \A n \in 1..Len(term) : f[n] = f[n - 1] \o Escape(term[n])
                /\ Escaped(term) = f[Len(term)]
<1> DEFINE N == Len(term)
           step == [p \in (1..N) \X Seq(Nat) |-> p[2] \o Escape(term[p[1]])]
           Solves(f) == f = [n \in 0..N |-> IF n = 0 THEN <<>> ELSE f[n - 1] \o Escape(term[n])]
           escaped == CHOOSE f : Solves(f)
<1>0. N \in Nat /\ <<>> \in Seq(Nat)
  OBVIOUS
<1>1. \A n \in 1..N, s \in Seq(Nat) :
        step[<<n, s>>] = s \o Escape(term[n]) /\ step[<<n, s>>] \in Seq(Nat)
  <2> TAKE n \in 1..N, s \in Seq(Nat)
  <2>1. term[n] \in Nat
    OBVIOUS
  <2>2. step[<<n, s>>] = s \o Escape(term[n])
    BY Zenon
  <2>3. Escape(term[n]) \in Seq(Nat)
    BY <2>1, <1>0 DEF Escape, Backslash
  <2> HIDE DEF step
  <2> QED
    BY <2>2, <2>3
<1>2. Escaped(term) = escaped[N]
  BY DEF Escaped
<1> HIDE DEF N, step
<1>3. PICK f : Loops(f, N, <<>>, step) /\ \A n \in 0..N : f[n] \in Seq(Nat)
  <2>1. \A n \in 1..N, s \in Seq(Nat) : step[<<n, s>>] \in Seq(Nat)
    BY <1>1
  <2> QED
    BY <1>0, <2>1, Iterates
<1>4. Solves(f)
  <2>1. \A n \in 0..N : (IF n = 0 THEN <<>> ELSE step[<<n, f[n - 1]>>])
                      = (IF n = 0 THEN <<>> ELSE f[n - 1] \o Escape(term[n]))
    <3> SUFFICES ASSUME NEW n \in 0..N, n # 0
                 PROVE  step[<<n, f[n - 1]>>] = f[n - 1] \o Escape(term[n])
      OBVIOUS
    <3>1. n \in 1..N /\ n - 1 \in 0..N
      BY <1>0
    <3> QED
      BY <1>1, <1>3, <3>1
  <2> QED
    BY <1>3, <2>1 DEF Loops
<1>5. Solves(escaped)
  BY <1>4
<1> HIDE DEF escaped
<1>6. /\ escaped[0] = <<>>
      /\ \A n \in 1..N : escaped[n] = escaped[n - 1] \o Escape(term[n])
  BY <1>0, <1>5
<1> DEFINE T == {n \in 0..N : escaped[n] \in Seq(Nat)}
<1>7. 0 \in T
  <2>1. 0 \in 0..N /\ escaped[0] \in Seq(Nat)
    BY <1>0, <1>6
  <2> QED
    BY <2>1
<1>8. ASSUME NEW n \in 1..N, n - 1 \in T PROVE n \in T
  <2>1. n \in 0..N /\ escaped[n] = step[<<n, escaped[n - 1]>>] /\ escaped[n - 1] \in Seq(Nat)
    <3>1. n \in 0..N /\ escaped[n - 1] \in Seq(Nat)
      BY <1>0, <1>8
    <3>2. escaped[n] = escaped[n - 1] \o Escape(term[n])
      BY <1>6
    <3>3. step[<<n, escaped[n - 1]>>] = escaped[n - 1] \o Escape(term[n])
      BY <1>1, <3>1
    <3> QED
      BY <3>1, <3>2, <3>3
  <2> QED
    BY <1>1, <2>1
<1> HIDE DEF T
<1>9. \A n \in 0..N : n \in T
  BY <1>0, <1>7, <1>8, Steps
<1>10. \A n \in 0..N : escaped[n] \in Seq(Nat)
  BY <1>9 DEF T
<1> QED
  BY <1>2, <1>6, <1>10 DEF N

\* A term is read as what it was before it was escaped.
LEMMA LexTerm ==
  ASSUME NEW term \in Seq(Nat), term # <<>>, NEW L \in Seq(LexemeSet)
  PROVE  /\ Escaped(term) \in Seq(Nat)
         /\ \E w \in Nat : /\ w > 0
                           /\ Lexed(LexerAt("text", <<>>, 0, L), Escaped(term))
                                = LexerAt("text", term, w, L)
<1> DEFINE N == Len(term)
           l == LexerAt("text", <<>>, 0, L)
<1>0. /\ N \in Nat /\ N > 0 /\ <<>> \in Seq(Nat) /\ \A n \in 1..N : term[n] \in Nat
      /\ \A n \in 0..N : SubSeq(term, 1, n) \in Seq(Nat)
      /\ \A n \in 1..N : SubSeq(term, 1, n) = Append(SubSeq(term, 1, n - 1), term[n])
      /\ SubSeq(term, 1, 0) = <<>> /\ SubSeq(term, 1, N) = term
  OBVIOUS
<1>1. l \in Lexers
  BY <1>0, LexersHave
<1>2. PICK f : /\ \A n \in 0..N : f[n] \in Seq(Nat)
               /\ f[0] = <<>>
               /\ \A n \in 1..N : f[n] = f[n - 1] \o Escape(term[n])
               /\ Escaped(term) = f[N]
  BY EscapedIs
<1> DEFINE T == {n \in 0..N : \E w \in Nat : /\ w >= n
                                             /\ Lexed(l, f[n]) = LexerAt("text", SubSeq(term, 1, n), w, L)}
<1> HIDE DEF N
<1>3. 0 \in T
  <2>1. Lexed(l, f[0]) = LexerAt("text", SubSeq(term, 1, 0), 0, L)
    BY <1>0, <1>1, <1>2, LexedNone
  <2> QED
    BY <1>0, <2>1
<1>4. ASSUME NEW n \in 1..N, n - 1 \in T PROVE n \in T
  <2>0. /\ n \in 0..N /\ n - 1 \in 0..N /\ term[n] \in Nat /\ f[n - 1] \in Seq(Nat)
        /\ SubSeq(term, 1, n - 1) \in Seq(Nat)
        /\ SubSeq(term, 1, n) = Append(SubSeq(term, 1, n - 1), term[n])
        /\ f[n] = Joined(f[n - 1], Escape(term[n]))
    <3>1. n \in 0..N /\ n - 1 \in 0..N
      BY <1>0
    <3>2. f[n - 1] \in Seq(Nat) /\ f[n] = f[n - 1] \o Escape(term[n])
      BY <1>2, <3>1
    <3>3. /\ SubSeq(term, 1, n - 1) \in Seq(Nat) /\ term[n] \in Nat
          /\ SubSeq(term, 1, n) = Append(SubSeq(term, 1, n - 1), term[n])
      BY <1>0, <3>1
    <3> QED
      BY <3>1, <3>2, <3>3 DEF Joined
  <2>1. PICK w \in Nat : /\ w >= n - 1
                         /\ Lexed(l, f[n - 1]) = LexerAt("text", SubSeq(term, 1, n - 1), w, L)
    BY <1>4
  <2> DEFINE s == SubSeq(term, 1, n - 1)
  <2>2. s \in Seq(Nat)
    BY <2>0
  <2> HIDE DEF s, l
  <2>3. /\ Escape(term[n]) \in Seq(Nat)
        /\ \E v \in Nat : /\ v > w
                          /\ Lexed(LexerAt("text", s, w, L), Escape(term[n]))
                               = LexerAt("text", Append(s, term[n]), v, L)
    BY <2>0, <2>2, LexEscape
  <2>4. PICK v \in Nat : /\ v > w
                         /\ Lexed(LexerAt("text", s, w, L), Escape(term[n]))
                              = LexerAt("text", Append(s, term[n]), v, L)
    BY <2>3
  <2>5. Lexed(l, f[n]) = Lexed(Lexed(l, f[n - 1]), Escape(term[n]))
    BY <1>1, <2>0, <2>3, LexedBoth
  <2>6. Lexed(l, f[n]) = LexerAt("text", SubSeq(term, 1, n), v, L)
    BY <2>0, <2>1, <2>4, <2>5 DEF s
  <2>7. v >= n
    BY <1>0, <2>1, <2>4
  <2> QED
    BY <2>0, <2>6, <2>7
<1> HIDE DEF T
<1>5. \A n \in 0..N : n \in T
  BY <1>0, <1>3, <1>4, Steps
<1>6. N \in T
  BY <1>0, <1>5
<1>7. PICK w \in Nat : w >= N /\ Lexed(l, f[N]) = LexerAt("text", SubSeq(term, 1, N), w, L)
  BY <1>6 DEF T
<1>8. Escaped(term) \in Seq(Nat)
  BY <1>0, <1>2
<1>9. w > 0 /\ Lexed(l, Escaped(term)) = LexerAt("text", term, w, L)
  <2>1. SubSeq(term, 1, N) = term /\ Escaped(term) = f[N]
    BY <1>0, <1>2
  <2>2. w > 0
    BY <1>0, <1>7
  <2> QED
    BY <1>7, <2>1, <2>2
<1> QED
  BY <1>8, <1>9

-------------------------------------------------------------------------------
Lexeme(type, str) == [type |-> type, str |-> str]

\* A lexer at the end of a run: whatever ends it leaves the lexemes L.
Ends(l, L) ==
  /\ l \in Lexers /\ L \in Seq(LexemeSet)
  /\ LexCharacter(l, 32) = LexerAt("text", <<>>, 0, L)
  /\ LexCharacter(l, Tilde) = LexerAt("EDIT_DISTANCE", <<>>, 0, L)
  /\ LexCharacter(l, Caret) = LexerAt("BOOST", <<>>, 0, L)
  /\ LexEnd(l).lexemes = L

LEMMA LexemeAdded ==
  ASSUME NEW L \in Seq(LexemeSet), NEW type \in LexemeTypes, NEW str \in Seq(Nat)
  PROVE  Append(L, Lexeme(type, str)) \in Seq(LexemeSet)
<1>1. Lexeme(type, str) \in LexemeSet
  BY DEF Lexeme, LexemeSet
<1> QED
  BY <1>1

\* What a space, a tilde and a caret do to a run of text.
LEMMA LexTextEnds ==
  ASSUME NEW x \in Lexers
  PROVE  /\ LexText(x, 32) = EmitTerm(x)
         /\ LexText(x, Tilde) = InMode(EmitTerm(x), "EDIT_DISTANCE")
         /\ LexText(x, Caret) = InMode(EmitTerm(x), "BOOST")
         /\ LexText(x, Colon) = Emit(x, "FIELD")
BY DEF LexText, InMode, Backslash, Colon, Tilde, Caret, IsTermSeparator

\* What the end of a run of text adds to the lexemes.
TextAdds(s, w, L, K) ==
  \/ w > 0 /\ K = Append(L, Lexeme("TERM", s))
  \/ w = 0 /\ s = <<>> /\ K = L

LEMMA TextEnds ==
  ASSUME NEW s \in Seq(Nat), NEW w \in Nat, NEW L \in Seq(LexemeSet), NEW K,
         TextAdds(s, w, L, K)
  PROVE  Ends(LexerAt("text", s, w, L), K)
<1> DEFINE l == LexerAt("text", s, w, L)
           e == LexerAt("text", <<>>, 0, K)
<1>0. l \in Lexers /\ K \in Seq(LexemeSet) /\ 32 \in Nat /\ Tilde \in Nat /\ Caret \in Nat
      /\ <<>> \in Seq(Nat)
  <2>1. l \in Lexers
    BY LexersHave
  <2>2. K \in Seq(LexemeSet)
    BY LexemeAdded DEF LexemeTypes, TextAdds
  <2> QED
    BY <2>1, <2>2 DEF Tilde, Caret
<1>1. EmitTerm(l) = e
  <2>1. EmitTerm(l) = IF w > 0 THEN LexerAt("text", <<>>, 0, Append(L, [type |-> "TERM", str |-> s])) ELSE l
    BY EmitTermIs
  <2> HIDE DEF l
  <2>2. CASE w > 0 /\ K = Append(L, Lexeme("TERM", s))
    BY <2>1, <2>2 DEF Lexeme
  <2>3. CASE w = 0 /\ s = <<>> /\ K = L
    <3>1. EmitTerm(l) = l
      BY <2>1, <2>3
    <3> QED
      BY <2>3, <3>1 DEF l
  <2> QED
    BY <2>2, <2>3 DEF TextAdds
<1>2. l.mode = "text"
  BY PartsOf
<1>3. e.lexemes = K
  BY PartsOf
<1>4. InMode(e, "EDIT_DISTANCE") = LexerAt("EDIT_DISTANCE", <<>>, 0, K)
      /\ InMode(e, "BOOST") = LexerAt("BOOST", <<>>, 0, K)
  BY InModeIs
<1> HIDE DEF l, e
<1>5. \A c : LexCharacter(l, c) = LexText(l, c)
  BY <1>2 DEF LexCharacter
<1>6. LexEnd(l).lexemes = K
  BY <1>1, <1>2, <1>3 DEF LexEnd
<1>7. LexCharacter(l, 32) = e /\ LexCharacter(l, Tilde) = InMode(e, "EDIT_DISTANCE")
      /\ LexCharacter(l, Caret) = InMode(e, "BOOST")
  BY <1>0, <1>1, <1>5, LexTextEnds
<1> QED
  BY <1>0, <1>4, <1>6, <1>7 DEF Ends, l, e

\* The runs of digits.
Runs == {"EDIT_DISTANCE", "BOOST"}

LEMMA DigitsEnd ==
  ASSUME NEW M \in Runs, NEW s \in Seq(Nat), NEW w \in Nat, NEW L \in Seq(LexemeSet)
  PROVE  Ends(LexerAt(M, s, w, L), Append(L, Lexeme(M, s)))
<1> DEFINE K == Append(L, Lexeme(M, s))
           l == LexerAt(M, s, w, L)
           x == LexerAt("text", <<>>, 0, K)
<1>0. l \in Lexers /\ K \in Seq(LexemeSet) /\ <<>> \in Seq(Nat) /\ M \in LexemeTypes
  <2>1. l \in Lexers
    BY LexersHave DEF Runs
  <2>2. M \in LexemeTypes
    BY DEF Runs, LexemeTypes
  <2>3. K \in Seq(LexemeSet)
    BY <2>2, LexemeAdded
  <2> QED
    BY <2>1, <2>2, <2>3
<1>1. Emit(l, M) = x
  BY EmitIs DEF Lexeme
<1>2. l.mode = M /\ x.lexemes = K
  BY DEF LexerAt
<1> HIDE DEF K
<1>3. Ends(x, K) /\ x.mode = "text"
  <2>1. Ends(x, K)
    <3>1. TextAdds(<<>>, 0, K, K) /\ 0 \in Nat
      BY DEF TextAdds
    <3> QED
      BY <1>0, <3>1, TextEnds
  <2>2. x.mode = "text"
    BY PartsOf
  <2> QED
    BY <2>1, <2>2
<1> HIDE DEF l, x
<1>4. \A c \in {32, Tilde, Caret} : LexCharacter(l, c) = LexCharacter(x, c)
  <2> TAKE c \in {32, Tilde, Caret}
  <2>1. ~IsDigit(c)
    BY DEF IsDigit, Tilde, Caret
  <2>2. l.mode \in {"EDIT_DISTANCE", "BOOST"}
    BY <1>2 DEF Runs
  <2>3. LexCharacter(l, c) = LexText(Emit(l, l.mode), c)
    BY <2>1, <2>2 DEF LexCharacter
  <2>4. LexCharacter(x, c) = LexText(x, c)
    BY <1>3 DEF LexCharacter
  <2> QED
    BY <1>1, <1>2, <2>3, <2>4
<1>5. LexEnd(l).lexemes = K
  BY <1>1, <1>2 DEF LexEnd, Runs
<1> QED
  BY <1>0, <1>3, <1>4, <1>5 DEF Ends, l, K

LEMMA LexDigit ==
  ASSUME NEW M \in Runs, NEW s \in Seq(Nat), NEW w \in Nat, NEW L \in Seq(LexemeSet),
         NEW c \in 48..57
  PROVE  LexCharacter(LexerAt(M, s, w, L), c) = LexerAt(M, Append(s, c), w + 1, L)
<1> DEFINE l == LexerAt(M, s, w, L)
<1>1. l.mode = M
  BY PartsOf
<1>2. Take(l, c) = LexerAt(M, Append(s, c), w + 1, L)
  BY TakeIs
<1> HIDE DEF l
<1>3. LexCharacter(l, c) = Take(l, c)
  BY <1>1 DEF LexCharacter, Runs, IsDigit
<1> QED
  BY <1>2, <1>3 DEF l

LEMMA NumberIs ==
  ASSUME NEW n \in 0..99
  PROVE  /\ Number(n) \in Seq(Nat) /\ Number(n) # <<>>
         /\ \/ \E a \in 48..57 : a = 48 + n /\ Number(n) = <<a>>
            \/ \E a \in 48..57, b \in 48..57 : 10 * (a - 48) + b - 48 = n /\ Number(n) = <<a, b>>
<1>1. CASE n < 10
  <2>1. 48 + n \in 48..57 /\ Number(n) = <<48 + n>>
    BY <1>1 DEF Number
  <2> QED
    BY <2>1
<1>2. CASE ~(n < 10)
  <2>1. n \div 10 \in 0..9 /\ n % 10 \in 0..9 /\ 10 * (n \div 10) + (n % 10) = n
    OBVIOUS
  <2>2. Number(n) = <<48 + n \div 10, 48 + (n % 10)>>
    BY <1>2 DEF Number
  <2>3. PICK d \in 0..9, m \in 0..9 : 10 * d + m = n /\ Number(n) = <<48 + d, 48 + m>>
    BY <2>1, <2>2
  <2>4. 48 + d \in 48..57 /\ 48 + m \in 48..57 /\ 10 * ((48 + d) - 48) + (48 + m) - 48 = n
    BY <2>3
  <2> QED
    BY <2>3, <2>4
<1> QED
  BY <1>1, <1>2

LEMMA OneAndOne ==
  ASSUME NEW a \in Nat, NEW b \in Nat
  PROVE  /\ Joined(<<a>>, <<b>>) = <<a, b>>
         /\ Append(<<a>>, b) = <<a, b>>
         /\ Append(<<>>, a) = <<a>>
<1>0. <<a>> \in Seq(Nat) /\ <<b>> \in Seq(Nat) /\ <<a, b>> \in Seq(Nat)
  OBVIOUS
<1> DEFINE q == <<a, b>>
           r == <<a>> \o <<b>>
           s == Append(<<a>>, b)
<1>a. q \in Seq(Nat) /\ Len(q) = 2 /\ q[1] = a /\ q[2] = b
  OBVIOUS
<1>b. r \in Seq(Nat) /\ Len(r) = 2 /\ r[1] = a /\ r[2] = b
  BY <1>0
<1>c. s \in Seq(Nat) /\ Len(s) = 2 /\ s[1] = a /\ s[2] = b
  BY <1>0
<1> HIDE DEF q, r, s
<1>1. r = q
  BY <1>a, <1>b, SeqEqual
<1>2. s = q
  BY <1>a, <1>c, SeqEqual
<1>3. Append(<<>>, a) = <<a>>
  OBVIOUS
<1> QED
  BY <1>1, <1>2, <1>3 DEF Joined, q, r, s

\* A number is read as it was written.
LEMMA LexNumber ==
  ASSUME NEW M \in Runs, NEW L \in Seq(LexemeSet), NEW n \in 0..99
  PROVE  \E w \in Nat : Lexed(LexerAt(M, <<>>, 0, L), Number(n)) = LexerAt(M, Number(n), w, L)
<1> DEFINE l == LexerAt(M, <<>>, 0, L)
<1>0. <<>> \in Seq(Nat) /\ M \in {"text", "escape", "EDIT_DISTANCE", "BOOST"}
  BY DEF Runs
<1>1. l \in Lexers
  BY <1>0, LexersHave
<1>2. ASSUME NEW a \in 48..57, Number(n) = <<a>>
      PROVE  Lexed(l, Number(n)) = LexerAt(M, Number(n), 1, L)
  <2>1. LexCharacter(l, a) = LexerAt(M, Append(<<>>, a), 0 + 1, L)
    BY <1>0, LexDigit
  <2>2. Append(<<>>, a) = <<a>> /\ a \in Nat
    OBVIOUS
  <2>3. Lexed(l, <<a>>) = LexCharacter(l, a)
    BY <1>1, <2>2, LexedOne
  <2> QED
    BY <1>2, <2>1, <2>2, <2>3
<1>3. ASSUME NEW a \in 48..57, NEW b \in 48..57, Number(n) = <<a, b>>
      PROVE  Lexed(l, Number(n)) = LexerAt(M, Number(n), 2, L)
  <2> DEFINE s == <<a>>
             t == <<b>>
             x == LexerAt(M, s, 1, L)
  <2>0. /\ s \in Seq(Nat) /\ t \in Seq(Nat) /\ a \in Nat /\ b \in Nat /\ Joined(s, t) = <<a, b>>
        /\ Append(<<>>, a) = s /\ Append(s, b) = <<a, b>> /\ 0 + 1 = 1 /\ 1 \in Nat
    <3>1. a \in Nat /\ b \in Nat
      OBVIOUS
    <3>2. Joined(s, t) = <<a, b>> /\ Append(s, b) = <<a, b>> /\ Append(<<>>, a) = s
      BY <3>1, OneAndOne
    <3> QED
      BY <3>1, <3>2
  <2>1. LexCharacter(l, a) = LexerAt(M, Append(<<>>, a), 0 + 1, L)
    BY <1>0, LexDigit
  <2>2. Lexed(l, s) = x
    <3>1. Lexed(l, <<a>>) = LexCharacter(l, a)
      BY <1>1, <2>0, LexedOne
    <3> QED
      BY <2>0, <2>1, <3>1
  <2> HIDE DEF s
  <2>3. x \in Lexers /\ LexCharacter(x, b) = LexerAt(M, Append(s, b), 2, L)
    <3>1. x \in Lexers
      BY <1>0, <2>0, LexersHave
    <3> DEFINE one == 1
    <3>2. one \in Nat /\ one + 1 = 2 /\ s \in Seq(Nat)
      BY <2>0
    <3> HIDE DEF one
    <3>3. LexCharacter(LexerAt(M, s, one, L), b) = LexerAt(M, Append(s, b), one + 1, L)
      BY <3>2, LexDigit
    <3> QED
      BY <3>1, <3>2, <3>3 DEF one
  <2> HIDE DEF x, l
  <2>4. Lexed(x, t) = LexCharacter(x, b)
    BY <2>0, <2>3, LexedOne
  <2> HIDE DEF t
  <2>5. Lexed(l, Joined(s, t)) = Lexed(Lexed(l, s), t)
    BY <1>1, <2>0, LexedBoth
  <2> QED
    BY <1>3, <2>0, <2>2, <2>3, <2>4, <2>5
<1> QED
  <2>1. CASE \E a \in 48..57 : a = 48 + n /\ Number(n) = <<a>>
    BY <1>2, <2>1
  <2>2. CASE \E a \in 48..57, b \in 48..57 : 10 * (a - 48) + b - 48 = n /\ Number(n) = <<a, b>>
    BY <1>3, <2>2
  <2> QED
    BY <2>1, <2>2, NumberIs

-------------------------------------------------------------------------------
LEMMA NamesAre == FieldNames = {<<116>>, <<107>>}
BY FieldNamesAssumption DEF Fields, Title, Keywords, Range

LEMMA LexPlain ==
  ASSUME NEW s \in Seq(Nat), NEW w \in Nat, NEW L \in Seq(LexemeSet), NEW c \in Nat,
         c \notin SpecialCharacters, ~IsTermSeparator(c)
  PROVE  LexCharacter(LexerAt("text", s, w, L), c) = LexerAt("text", Append(s, c), w + 1, L)
BY LexTextIs

\* The name of a field, up to its colon.
LEMMA LexField ==
  ASSUME NEW f \in FieldNames, NEW L \in Seq(LexemeSet)
  PROVE  /\ Joined(f, <<Colon>>) \in Seq(Nat) /\ f \in Seq(Nat)
         /\ Lexed(LexerAt("text", <<>>, 0, L), Joined(f, <<Colon>>))
              = LexerAt("text", <<>>, 0, Append(L, Lexeme("FIELD", f)))
<1> DEFINE l == LexerAt("text", <<>>, 0, L)
           x == LexerAt("text", f, 1, L)
           t == <<Colon>>
<1>1. PICK a \in {116, 107} : f = <<a>>
  BY NamesAre
<1>2. a \notin SpecialCharacters /\ ~IsTermSeparator(a) /\ a \in Nat
  BY DEF SpecialCharacters, IsTermSeparator, Backslash, Colon, Tilde, Caret
<1>3. /\ <<>> \in Seq(Nat) /\ f \in Seq(Nat) /\ t \in Seq(Nat) /\ Colon \in Nat /\ Append(<<>>, a) = f
      /\ Joined(f, t) \in Seq(Nat)
  <2>1. Append(<<>>, a) = f
    BY <1>1
  <2> QED
    BY <1>1, <2>1 DEF Colon, Joined
<1>4. l \in Lexers /\ LexCharacter(l, a) = x
  <2>1. l \in Lexers
    BY <1>3, LexersHave
  <2>2. LexCharacter(l, a) = LexerAt("text", Append(<<>>, a), 0 + 1, L)
    <3> DEFINE e == <<>>
               z == 0
    <3>1. e \in Seq(Nat) /\ z \in Nat
      OBVIOUS
    <3> HIDE DEF e, z
    <3>2. LexCharacter(LexerAt("text", e, z, L), a) = LexerAt("text", Append(e, a), z + 1, L)
      BY <1>2, <3>1, LexPlain
    <3> QED
      BY <3>2 DEF e, z
  <2>3. 0 + 1 = 1
    OBVIOUS
  <2> QED
    BY <1>3, <2>1, <2>2, <2>3
<1>5. Lexed(l, f) = x
  BY <1>1, <1>2, <1>4, LexedOne
<1>6. x \in Lexers /\ LexCharacter(x, Colon) = LexerAt("text", <<>>, 0, Append(L, Lexeme("FIELD", f)))
  <2>1. x \in Lexers /\ LexCharacter(x, Colon) = LexText(x, Colon)
    BY <1>3, LexTextIs
  <2>2. Emit(x, "FIELD") = LexerAt("text", <<>>, 0, Append(L, Lexeme("FIELD", f)))
    BY EmitIs DEF Lexeme
  <2> HIDE DEF x
  <2> QED
    BY <2>1, <2>2, LexTextEnds
<1>7. Lexed(x, t) = LexCharacter(x, Colon)
  BY <1>3, <1>6, LexedOne
<1> HIDE DEF l, x, t
<1>8. Lexed(l, Joined(f, t)) = Lexed(Lexed(l, f), t)
  BY <1>3, <1>4, LexedBoth
<1> QED
  BY <1>3, <1>5, <1>6, <1>7, <1>8 DEF l, t

\* A distance or a boost.
LEMMA LexTail ==
  ASSUME NEW M \in Runs, NEW y, NEW L, Ends(y, L), NEW n \in 0..99, NEW c,
         c = IF M = "BOOST" THEN Caret ELSE Tilde
  PROVE  /\ Joined(<<c>>, Number(n)) \in Seq(Nat)
         /\ Ends(Lexed(y, Joined(<<c>>, Number(n))), Append(L, Lexeme(M, Number(n))))
<1> DEFINE x == LexerAt(M, <<>>, 0, L)
           s == <<c>>
           t == Number(n)
<1>0. /\ y \in Lexers /\ L \in Seq(LexemeSet) /\ c \in Nat /\ s \in Seq(Nat) /\ t \in Seq(Nat)
      /\ Joined(s, t) \in Seq(Nat)
  <2>1. c \in Nat /\ y \in Lexers /\ L \in Seq(LexemeSet)
    BY DEF Ends, Caret, Tilde
  <2>2. t \in Seq(Nat)
    BY NumberIs
  <2> HIDE DEF t
  <2> QED
    BY <2>1, <2>2 DEF Joined
<1>1. LexCharacter(y, c) = x
  BY DEF Ends, Runs
<1>2. Lexed(y, s) = x
  BY <1>0, <1>1, LexedOne
<1>3. PICK w \in Nat : Lexed(x, t) = LexerAt(M, t, w, L)
  BY <1>0, LexNumber
<1>4. Ends(LexerAt(M, t, w, L), Append(L, Lexeme(M, t)))
  <2> HIDE DEF t
  <2> QED
    BY <1>0, DigitsEnd
<1> HIDE DEF x, s, t
<1>5. Lexed(y, Joined(s, t)) = Lexed(Lexed(y, s), t)
  BY <1>0, LexedBoth
<1>6. Joined(s, t) \in Seq(Nat) /\ Ends(Lexed(y, Joined(s, t)), Append(L, Lexeme(M, t)))
  BY <1>0, <1>2, <1>3, <1>4, <1>5
<1> QED
  BY <1>6 DEF s, t

-------------------------------------------------------------------------------
\* What a user may ask for, and the parts of how it is written.
Clauses ==
  {c \in [fields : {FieldNames} \cup {{f} : f \in FieldNames}, term : Seq(Nat),
          usePipeline : BOOLEAN, editDistance : -1..99, boost : 1..99] :
     /\ c.term # <<>> /\ LowerCase(c.term) = c.term
     /\ c.usePipeline = (Star \notin Range(c.term))}

FieldPart(c) ==
  IF Cardinality(c.fields) = 1 THEN Joined(CHOOSE f \in c.fields : TRUE, <<Colon>>) ELSE <<>>
DistancePart(c) == IF c.editDistance >= 0 THEN Joined(<<Tilde>>, Number(c.editDistance)) ELSE <<>>
BoostPart(c) == IF c.boost # 1 THEN Joined(<<Caret>>, Number(c.boost)) ELSE <<>>

\* The lexemes that each part adds.
FieldAdded(c, L) ==
  IF Cardinality(c.fields) = 1 THEN Append(L, Lexeme("FIELD", CHOOSE f \in c.fields : TRUE)) ELSE L
TermAdded(c, L) == Append(L, Lexeme("TERM", c.term))
DistanceAdded(c, L) ==
  IF c.editDistance >= 0 THEN Append(L, Lexeme("EDIT_DISTANCE", Number(c.editDistance))) ELSE L
BoostAdded(c, L) == IF c.boost # 1 THEN Append(L, Lexeme("BOOST", Number(c.boost))) ELSE L
Added(c, L) == BoostAdded(c, DistanceAdded(c, TermAdded(c, FieldAdded(c, L))))

LEMMA WrittenIs ==
  ASSUME NEW c
  PROVE  Written(c) = Joined(Joined(Joined(FieldPart(c), Escaped(c.term)), DistancePart(c)),
                             BoostPart(c))
BY DEF Written, Joined, FieldPart, DistancePart, BoostPart

\* A clause names no field or one.
LEMMA FieldsAre ==
  ASSUME NEW c \in Clauses
  PROVE  \/ /\ Cardinality(c.fields) = 1
            /\ (CHOOSE f \in c.fields : TRUE) \in FieldNames
            /\ c.fields = {CHOOSE f \in c.fields : TRUE}
         \/ /\ Cardinality(c.fields) # 1
            /\ c.fields = FieldNames
<1>1. c.fields = FieldNames \/ \E f \in FieldNames : c.fields = {f}
  BY DEF Clauses
<1>2. CASE \E f \in FieldNames : c.fields = {f}
  <2>1. PICK f \in FieldNames : c.fields = {f}
    BY <1>2
  <2>2. Cardinality({f}) = 1
    BY FS_Singleton
  <2> QED
    BY <2>1, <2>2
<1>3. CASE c.fields = FieldNames
  <2>1. <<116>> # <<107>>
    OBVIOUS
  <2>2. IsFiniteSet({<<116>>}) /\ Cardinality({<<116>>}) = 1 /\ <<107>> \notin {<<116>>}
    <3>1. IsFiniteSet({<<116>>})
      BY FS_Singleton
    <3>2. Cardinality({<<116>>}) = 1
      BY FS_Singleton
    <3> QED
      BY <2>1, <3>1, <3>2
  <2>3. Cardinality({<<116>>} \cup {<<107>>}) = 2
    <3> DEFINE S == {<<116>>}
               k == <<107>>
    <3>1. IsFiniteSet(S) /\ Cardinality(S) = 1 /\ k \notin S
      BY <2>2
    <3> HIDE DEF S, k
    <3>2. Cardinality(S \cup {k}) = 2
      BY <3>1, FS_AddElement
    <3> QED
      BY <3>2 DEF S, k
  <2>4. {<<116>>} \cup {<<107>>} = FieldNames
    BY NamesAre
  <2> QED
    BY <1>3, <2>3, <2>4
<1> QED
  BY <1>1, <1>2, <1>3

\* A clause is read as the lexemes it was written from.
LEMMA LexWritten ==
  ASSUME NEW c \in Clauses, NEW L \in Seq(LexemeSet)
  PROVE  /\ Written(c) \in Seq(Nat)
         /\ Ends(Lexed(LexerAt("text", <<>>, 0, L), Written(c)), Added(c, L))
<1> DEFINE l == LexerAt("text", <<>>, 0, L)
           F == FieldPart(c)
           T == Escaped(c.term)
           D == DistancePart(c)
           B == BoostPart(c)
           LF == FieldAdded(c, L)
           LT == TermAdded(c, LF)
           LD == DistanceAdded(c, LT)
           LB == BoostAdded(c, LD)
           m == LexerAt("text", <<>>, 0, LF)
<1>0. c.term \in Seq(Nat) /\ c.term # <<>> /\ c.editDistance \in -1..99 /\ c.boost \in 1..99
  BY DEF Clauses
<1>1. l \in Lexers /\ <<>> \in Seq(Nat)
  <2>1. <<>> \in Seq(Nat)
    OBVIOUS
  <2> QED
    BY <2>1, LexersHave
<1>2. F \in Seq(Nat) /\ LF \in Seq(LexemeSet) /\ Lexed(l, F) = m
  <2>1. CASE Cardinality(c.fields) = 1
    <3> DEFINE f == CHOOSE f \in c.fields : TRUE
    <3>1. f \in FieldNames
      BY <2>1, FieldsAre
    <3>2. F = Joined(f, <<Colon>>) /\ LF = Append(L, Lexeme("FIELD", f))
      BY <2>1 DEF FieldPart, FieldAdded
    <3> HIDE DEF f
    <3>3. /\ Joined(f, <<Colon>>) \in Seq(Nat) /\ f \in Seq(Nat)
          /\ Lexed(l, Joined(f, <<Colon>>)) = LexerAt("text", <<>>, 0, Append(L, Lexeme("FIELD", f)))
      BY <3>1, LexField
    <3>4. Append(L, Lexeme("FIELD", f)) \in Seq(LexemeSet)
      BY <3>3, LexemeAdded DEF LexemeTypes
    <3> HIDE DEF l, F, LF
    <3> QED
      BY <3>2, <3>3, <3>4
  <2>2. CASE Cardinality(c.fields) # 1
    <3>1. F = <<>> /\ LF = L
      BY <2>2 DEF FieldPart, FieldAdded
    <3>2. Lexed(l, <<>>) = l
      BY <1>1, LexedNone
    <3> HIDE DEF F, LF
    <3> QED
      BY <1>1, <3>1, <3>2
  <2> QED
    BY <2>1, <2>2
<1> HIDE DEF l, F, LF
<1>3. /\ T \in Seq(Nat)
      /\ \E w \in Nat : w > 0 /\ Lexed(m, T) = LexerAt("text", c.term, w, LF)
  BY <1>0, <1>2, LexTerm
<1>4. PICK w \in Nat : w > 0 /\ Lexed(m, T) = LexerAt("text", c.term, w, LF)
  BY <1>3
<1>5. Ends(LexerAt("text", c.term, w, LF), LT)
  <2> DEFINE s == c.term
  <2>1. s \in Seq(Nat) /\ TextAdds(s, w, LF, LT)
    BY <1>0, <1>4 DEF TextAdds, TermAdded
  <2> HIDE DEF s, LT
  <2>2. Ends(LexerAt("text", s, w, LF), LT)
    BY <1>2, <2>1, TextEnds
  <2> QED
    BY <2>2 DEF s
<1> HIDE DEF m, T, LT
<1>6. Ends(Lexed(l, Joined(F, T)), LT) /\ Joined(F, T) \in Seq(Nat)
  <2>1. Lexed(l, Joined(F, T)) = Lexed(Lexed(l, F), T)
    BY <1>1, <1>2, <1>3, LexedBoth
  <2> QED
    BY <1>2, <1>3, <1>4, <1>5, <2>1 DEF Joined
<1> DEFINE FT == Joined(F, T)
           y == Lexed(l, FT)
<1> HIDE DEF FT
<1>7. Ends(y, LT) /\ FT \in Seq(Nat)
  BY <1>6 DEF FT
<1>8. D \in Seq(Nat) /\ Ends(Lexed(y, D), LD)
  <2> HIDE DEF y
  <2>1. CASE c.editDistance >= 0
    <3> DEFINE n == c.editDistance
               M == "EDIT_DISTANCE"
               mark == Tilde
    <3>1. n \in 0..99 /\ M \in Runs /\ mark = IF M = "BOOST" THEN Caret ELSE Tilde
      BY <1>0, <2>1 DEF Runs
    <3>2. D = Joined(<<mark>>, Number(n)) /\ LD = Append(LT, Lexeme(M, Number(n)))
      BY <2>1 DEF DistancePart, DistanceAdded
    <3> HIDE DEF n, M, mark, D, LD
    <3>3. /\ Joined(<<mark>>, Number(n)) \in Seq(Nat)
          /\ Ends(Lexed(y, Joined(<<mark>>, Number(n))), Append(LT, Lexeme(M, Number(n))))
      BY <1>7, <3>1, LexTail
    <3> QED
      BY <3>2, <3>3
  <2>2. CASE ~(c.editDistance >= 0)
    <3>1. D = <<>> /\ LD = LT
      BY <2>2 DEF DistancePart, DistanceAdded
    <3>2. Lexed(y, <<>>) = y
      BY <1>7, LexedNone DEF Ends
    <3> HIDE DEF D, LD
    <3> QED
      BY <1>1, <1>7, <3>1, <3>2
  <2> QED
    BY <2>1, <2>2
<1> DEFINE FTD == Joined(FT, D)
           z == Lexed(l, FTD)
<1> HIDE DEF D, LD
<1>9. Ends(z, LD) /\ FTD \in Seq(Nat)
  <2>1. Lexed(l, Joined(FT, D)) = Lexed(Lexed(l, FT), D)
    BY <1>1, <1>7, <1>8, LexedBoth
  <2> QED
    BY <1>7, <1>8, <2>1 DEF Joined
<1> HIDE DEF FTD
<1>10. B \in Seq(Nat) /\ Ends(Lexed(z, B), LB)
  <2> HIDE DEF z
  <2>1. CASE c.boost # 1
    <3> DEFINE n == c.boost
               M == "BOOST"
               mark == Caret
    <3>1. n \in 0..99 /\ M \in Runs /\ mark = IF M = "BOOST" THEN Caret ELSE Tilde
      BY <1>0, <2>1 DEF Runs
    <3>2. B = Joined(<<mark>>, Number(n)) /\ LB = Append(LD, Lexeme(M, Number(n)))
      BY <2>1 DEF BoostPart, BoostAdded
    <3> HIDE DEF n, M, mark, B, LB
    <3>3. /\ Joined(<<mark>>, Number(n)) \in Seq(Nat)
          /\ Ends(Lexed(z, Joined(<<mark>>, Number(n))), Append(LD, Lexeme(M, Number(n))))
      BY <1>9, <3>1, LexTail
    <3> QED
      BY <3>2, <3>3
  <2>2. CASE ~(c.boost # 1)
    <3>1. B = <<>> /\ LB = LD
      BY <2>2 DEF BoostPart, BoostAdded
    <3>2. Lexed(z, <<>>) = z
      BY <1>9, LexedNone DEF Ends
    <3> HIDE DEF B, LB
    <3> QED
      BY <1>1, <1>9, <3>1, <3>2
  <2> QED
    BY <2>1, <2>2
<1>11. Written(c) = Joined(FTD, B) /\ Added(c, L) = LB
  BY WrittenIs DEF F, T, D, FT, FTD, LF, LT, LD, Added
<1> HIDE DEF B, LB
<1>12. Lexed(l, Joined(FTD, B)) = Lexed(Lexed(l, FTD), B)
  BY <1>1, <1>9, <1>10, LexedBoth
<1>13. Written(c) \in Seq(Nat)
  <2>1. Joined(FTD, B) \in Seq(Nat)
    BY <1>9, <1>10 DEF Joined
  <2> QED
    BY <1>11, <2>1
<1> QED
  BY <1>10, <1>11, <1>12, <1>13 DEF l

\* The loop that writes the clauses.
LEMMA WrittenAllIs ==
  ASSUME NEW asked \in Seq(Clauses)
  PROVE  \E f : /\ \A n \in 0..Len(asked) : f[n] \in Seq(Nat)
                /\ f[0] = <<>>
                /\ \A n \in 1..Len(asked) : f[n] = Joined(Joined(f[n - 1], <<32>>), Written(asked[n]))
                /\ WrittenAll(asked) = f[Len(asked)]
<1> DEFINE N == Len(asked)
           step == [p \in (1..N) \X Seq(Nat) |-> p[2] \o <<32>> \o Written(asked[p[1]])]
           Solves(f) == f = [n \in 0..N |-> IF n = 0 THEN <<>> ELSE f[n - 1] \o <<32>> \o Written(asked[n])]
           written == CHOOSE f : Solves(f)
<1>0. N \in Nat /\ <<>> \in Seq(Nat)
  OBVIOUS
<1>1. \A n \in 1..N, s \in Seq(Nat) :
        step[<<n, s>>] = s \o <<32>> \o Written(asked[n]) /\ step[<<n, s>>] \in Seq(Nat)
  <2> TAKE n \in 1..N, s \in Seq(Nat)
  <2>1. asked[n] \in Clauses
    OBVIOUS
  <2>2. step[<<n, s>>] = s \o <<32>> \o Written(asked[n])
    BY Zenon
  <2>3. Written(asked[n]) \in Seq(Nat)
    <3>1. <<>> \in Seq(LexemeSet)
      OBVIOUS
    <3> QED
      BY <2>1, <3>1, LexWritten
  <2> HIDE DEF step
  <2> QED
    BY <2>2, <2>3
<1>2. WrittenAll(asked) = written[N]
  BY DEF WrittenAll
<1> HIDE DEF N, step
<1>3. PICK f : Loops(f, N, <<>>, step) /\ \A n \in 0..N : f[n] \in Seq(Nat)
  <2>1. \A n \in 1..N, s \in Seq(Nat) : step[<<n, s>>] \in Seq(Nat)
    BY <1>1
  <2> QED
    BY <1>0, <2>1, Iterates
<1>4. Solves(f)
  <2>1. \A n \in 0..N : (IF n = 0 THEN <<>> ELSE step[<<n, f[n - 1]>>])
                      = (IF n = 0 THEN <<>> ELSE f[n - 1] \o <<32>> \o Written(asked[n]))
    <3> SUFFICES ASSUME NEW n \in 0..N, n # 0
                 PROVE  step[<<n, f[n - 1]>>] = f[n - 1] \o <<32>> \o Written(asked[n])
      OBVIOUS
    <3>1. n \in 1..N /\ n - 1 \in 0..N
      BY <1>0
    <3> QED
      BY <1>1, <1>3, <3>1
  <2> QED
    BY <1>3, <2>1 DEF Loops
<1>5. Solves(written)
  BY <1>4
<1> HIDE DEF written
<1>6. /\ written[0] = <<>>
      /\ \A n \in 1..N : written[n] = written[n - 1] \o <<32>> \o Written(asked[n])
  <2>1. \A n \in 0..N : written[n] = IF n = 0 THEN <<>>
                                     ELSE written[n - 1] \o <<32>> \o Written(asked[n])
    BY <1>5
  <2>2. 0 \in 0..N /\ \A n \in 1..N : n \in 0..N /\ n # 0
    BY <1>0
  <2> QED
    BY <2>1, <2>2
<1> DEFINE T == {n \in 0..N : written[n] \in Seq(Nat)}
<1>7. 0 \in T
  <2>1. 0 \in 0..N /\ written[0] \in Seq(Nat)
    BY <1>0, <1>6
  <2> QED
    BY <2>1
<1>8. ASSUME NEW n \in 1..N, n - 1 \in T PROVE n \in T
  <2>1. n \in 0..N /\ written[n] = step[<<n, written[n - 1]>>] /\ written[n - 1] \in Seq(Nat)
    <3>1. n \in 0..N /\ written[n - 1] \in Seq(Nat)
      BY <1>0, <1>8
    <3>2. written[n] = written[n - 1] \o <<32>> \o Written(asked[n])
      BY <1>6
    <3>3. step[<<n, written[n - 1]>>] = written[n - 1] \o <<32>> \o Written(asked[n])
      BY <1>1, <3>1
    <3> QED
      BY <3>1, <3>2, <3>3
  <2> QED
    BY <1>1, <2>1
<1> HIDE DEF T
<1>9. \A n \in 0..N : n \in T
  BY <1>0, <1>7, <1>8, Steps
<1>10. \A n \in 0..N : written[n] \in Seq(Nat)
  BY <1>9 DEF T
<1>11. \A n \in 1..N : written[n] = Joined(Joined(written[n - 1], <<32>>), Written(asked[n]))
  BY <1>6 DEF Joined
<1> QED
  BY <1>2, <1>6, <1>10, <1>11 DEF N

-------------------------------------------------------------------------------
\* The parser as a record of its parts.
ClauseAt(fields, term, usePipeline, editDistance, boost) ==
  [fields |-> fields, term |-> term, usePipeline |-> usePipeline,
   editDistance |-> editDistance, boost |-> boost]

ParserAt(last, clause, clauses, error) ==
  [last |-> last, clause |-> clause, clauses |-> clauses, error |-> error]

\* Whatever has been read as a number, and whatever has been read.
Numbers == {ParseInt(s) : s \in Seq(Nat)} \cup {-1, 1}

ReadClauses == [fields : SUBSET Seq(Nat), term : Seq(Nat), usePipeline : BOOLEAN,
                editDistance : Numbers, boost : Numbers]

Parsers == [last : LexemeTypes \cup {"nothing"}, clause : ReadClauses,
            clauses : Seq(ReadClauses), error : BOOLEAN]

\* What a lexeme does to the clause that is being read.
WithFields(p, f) == [p EXCEPT !.clause.fields = f]
WithTerm(p, t, u) == [p EXCEPT !.clause.term = t, !.clause.usePipeline = u]
WithDistance(p, n) == [p EXCEPT !.clause.editDistance = n]
WithBoost(p, n) == [p EXCEPT !.clause.boost = n]
After(p, type) == [p EXCEPT !.last = type]
Failing(p) == [p EXCEPT !.error = TRUE]

LEMMA ParserParts ==
  ASSUME NEW F, NEW T, NEW U, NEW D, NEW B, NEW a, NEW cs, NEW e
  PROVE  LET c == ClauseAt(F, T, U, D, B)
             p == ParserAt(a, c, cs, e)
         IN  p.last = a /\ p.clause = c /\ p.clauses = cs /\ p.error = e
BY DEF ParserAt

LEMMA WithIs ==
  ASSUME NEW F, NEW T, NEW U, NEW D, NEW B, NEW a, NEW cs, NEW e, NEW x
  PROVE  /\ WithFields(ParserAt(a, ClauseAt(F, T, U, D, B), cs, e), x)
              = ParserAt(a, ClauseAt(x, T, U, D, B), cs, e)
         /\ WithDistance(ParserAt(a, ClauseAt(F, T, U, D, B), cs, e), x)
              = ParserAt(a, ClauseAt(F, T, U, x, B), cs, e)
         /\ WithBoost(ParserAt(a, ClauseAt(F, T, U, D, B), cs, e), x)
              = ParserAt(a, ClauseAt(F, T, U, D, x), cs, e)
         /\ After(ParserAt(a, ClauseAt(F, T, U, D, B), cs, e), x)
              = ParserAt(x, ClauseAt(F, T, U, D, B), cs, e)
<1> DEFINE c == ClauseAt(F, T, U, D, B)
           p == ParserAt(a, c, cs, e)
<1>0. c = [fields |-> F, term |-> T, usePipeline |-> U, editDistance |-> D, boost |-> B]
  BY DEF ClauseAt
<1> HIDE DEF c
<1>1. p = [last |-> a, clause |-> c, clauses |-> cs, error |-> e]
  BY DEF ParserAt
<1> HIDE DEF p
<1>2. p.clause = c
  BY <1>1
<1>3. WithFields(p, x) = ParserAt(a, ClauseAt(x, T, U, D, B), cs, e)
  <2> DEFINE y == [c EXCEPT !.fields = x]
  <2>1. y = ClauseAt(x, T, U, D, B)
    BY <1>0 DEF ClauseAt
  <2>2. WithFields(p, x) = [p EXCEPT !.clause = y]
    BY <1>2 DEF WithFields
  <2> HIDE DEF y
  <2>3. WithFields(p, x) = ParserAt(a, y, cs, e)
    BY <1>1, <2>2 DEF ParserAt
  <2> QED
    BY <2>1, <2>3
<1>4. WithDistance(p, x) = ParserAt(a, ClauseAt(F, T, U, x, B), cs, e)
  <2> DEFINE y == [c EXCEPT !.editDistance = x]
  <2>1. y = ClauseAt(F, T, U, x, B)
    BY <1>0 DEF ClauseAt
  <2>2. WithDistance(p, x) = [p EXCEPT !.clause = y]
    BY <1>2 DEF WithDistance
  <2> HIDE DEF y
  <2>3. WithDistance(p, x) = ParserAt(a, y, cs, e)
    BY <1>1, <2>2 DEF ParserAt
  <2> QED
    BY <2>1, <2>3
<1>5. WithBoost(p, x) = ParserAt(a, ClauseAt(F, T, U, D, x), cs, e)
  <2> DEFINE y == [c EXCEPT !.boost = x]
  <2>1. y = ClauseAt(F, T, U, D, x)
    BY <1>0 DEF ClauseAt
  <2>2. WithBoost(p, x) = [p EXCEPT !.clause = y]
    BY <1>2 DEF WithBoost
  <2> HIDE DEF y
  <2>3. WithBoost(p, x) = ParserAt(a, y, cs, e)
    BY <1>1, <2>2 DEF ParserAt
  <2> QED
    BY <2>1, <2>3
<1>6. After(p, x) = ParserAt(x, c, cs, e)
  BY <1>1 DEF After, ParserAt
<1> QED
  BY <1>3, <1>4, <1>5, <1>6 DEF p, c

LEMMA WithTermIs ==
  ASSUME NEW F, NEW T, NEW U, NEW D, NEW B, NEW a, NEW cs, NEW e, NEW t, NEW u
  PROVE  WithTerm(ParserAt(a, ClauseAt(F, T, U, D, B), cs, e), t, u)
           = ParserAt(a, ClauseAt(F, t, u, D, B), cs, e)
<1> DEFINE c == ClauseAt(F, T, U, D, B)
           p == ParserAt(a, c, cs, e)
           v == [c EXCEPT !.term = t]
           y == [v EXCEPT !.usePipeline = u]
<1>0. c = [fields |-> F, term |-> T, usePipeline |-> U, editDistance |-> D, boost |-> B]
  BY DEF ClauseAt
<1> HIDE DEF c
<1>1. p = [last |-> a, clause |-> c, clauses |-> cs, error |-> e]
  BY DEF ParserAt
<1> HIDE DEF p
<1>2. v = [fields |-> F, term |-> t, usePipeline |-> U, editDistance |-> D, boost |-> B]
  BY <1>0
<1> HIDE DEF v
<1>3. y = ClauseAt(F, t, u, D, B)
  BY <1>2 DEF ClauseAt
<1> HIDE DEF y
<1> DEFINE q == [p EXCEPT !.clause = v]
<1>4. q = [last |-> a, clause |-> v, clauses |-> cs, error |-> e]
  BY <1>1
<1>5. WithTerm(p, t, u) = [q EXCEPT !.clause = y]
  <2>1. [p EXCEPT !.clause.term = t] = q
    BY <1>1 DEF v
  <2>2. q.clause = v
    BY <1>4
  <2> HIDE DEF q
  <2> QED
    BY <2>1, <2>2 DEF WithTerm, y
<1> HIDE DEF q
<1>6. [q EXCEPT !.clause = y] = ParserAt(a, y, cs, e)
  BY <1>4 DEF ParserAt
<1> QED
  BY <1>3, <1>5, <1>6 DEF p, c

\* Every parser is such a record, and stays one.
LEMMA ParserFacts ==
  ASSUME NEW p \in Parsers
  PROVE  LET c == p.clause IN
         /\ p = ParserAt(p.last, ClauseAt(c.fields, c.term, c.usePipeline, c.editDistance, c.boost),
                         p.clauses, p.error)
         /\ p.last \in LexemeTypes \cup {"nothing"} /\ c \in ReadClauses
         /\ p.clauses \in Seq(ReadClauses) /\ p.error \in BOOLEAN
<1>1. p.clause \in ReadClauses /\ p = ParserAt(p.last, p.clause, p.clauses, p.error)
      /\ p.last \in LexemeTypes \cup {"nothing"} /\ p.clauses \in Seq(ReadClauses) /\ p.error \in BOOLEAN
  BY DEF Parsers, ParserAt
<1>2. ASSUME NEW c \in ReadClauses
      PROVE  c = ClauseAt(c.fields, c.term, c.usePipeline, c.editDistance, c.boost)
  BY DEF ReadClauses, ClauseAt
<1> QED
  BY <1>1, <1>2

LEMMA ParsersHave ==
  ASSUME NEW F \in SUBSET Seq(Nat), NEW T \in Seq(Nat), NEW U \in BOOLEAN, NEW D \in Numbers,
         NEW B \in Numbers, NEW a \in LexemeTypes \cup {"nothing"}, NEW cs \in Seq(ReadClauses),
         NEW e \in BOOLEAN
  PROVE  /\ ClauseAt(F, T, U, D, B) \in ReadClauses
         /\ ParserAt(a, ClauseAt(F, T, U, D, B), cs, e) \in Parsers
<1>1. ClauseAt(F, T, U, D, B) \in ReadClauses
  BY DEF ClauseAt, ReadClauses
<1> QED
  BY <1>1 DEF ParserAt, Parsers

\* A lexeme of each type.
LEMMA ParseIs ==
  ASSUME NEW p, NEW str
  PROVE  /\ ParseLexeme(p, Lexeme("FIELD", str))
              = IF p.error \/ p.last = "FIELD" \/ str \notin FieldNames THEN Failing(p)
                ELSE After(WithFields(NextClause(p), {str}), "FIELD")
         /\ ParseLexeme(p, Lexeme("TERM", str))
              = IF p.error THEN Failing(p)
                ELSE After(WithTerm(NextClause(p), LowerCase(str), ~\E i \in DOMAIN str : str[i] = Star),
                           "TERM")
         /\ ParseLexeme(p, Lexeme("EDIT_DISTANCE", str))
              = IF p.error \/ p.last \in {"nothing", "FIELD"} \/ str = <<>> THEN Failing(p)
                ELSE After(WithDistance(p, ParseInt(str)), "EDIT_DISTANCE")
         /\ ParseLexeme(p, Lexeme("BOOST", str))
              = IF p.error \/ p.last \in {"nothing", "FIELD"} \/ str = <<>> THEN Failing(p)
                ELSE After(WithBoost(p, ParseInt(str)), "BOOST")
<1>1. \A type : Lexeme(type, str).type = type /\ Lexeme(type, str).str = str
  BY DEF Lexeme
<1> DEFINE f == Lexeme("FIELD", str)
           t == Lexeme("TERM", str)
           d == Lexeme("EDIT_DISTANCE", str)
           b == Lexeme("BOOST", str)
<1>2. /\ f.type = "FIELD" /\ t.type = "TERM" /\ d.type = "EDIT_DISTANCE" /\ b.type = "BOOST"
      /\ f.str = str /\ t.str = str /\ d.str = str /\ b.str = str
  BY <1>1
<1> HIDE DEF f, t, d, b
<1>3. ParseLexeme(p, f) = IF p.error \/ p.last = "FIELD" \/ str \notin FieldNames THEN Failing(p)
                          ELSE After(WithFields(NextClause(p), {str}), "FIELD")
  BY <1>2 DEF ParseLexeme, Failing, After, WithFields
<1>4. ParseLexeme(p, t) = IF p.error THEN Failing(p)
                          ELSE After(WithTerm(NextClause(p), LowerCase(str),
                                              ~\E i \in DOMAIN str : str[i] = Star), "TERM")
  BY <1>2 DEF ParseLexeme, Failing, After, WithTerm, ParseTerm
<1>5. ParseLexeme(p, d) = IF p.error \/ p.last \in {"nothing", "FIELD"} \/ str = <<>> THEN Failing(p)
                          ELSE After(WithDistance(p, ParseInt(str)), "EDIT_DISTANCE")
  BY <1>2 DEF ParseLexeme, Failing, After, WithDistance
<1>6. ParseLexeme(p, b) = IF p.error \/ p.last \in {"nothing", "FIELD"} \/ str = <<>> THEN Failing(p)
                          ELSE After(WithBoost(p, ParseInt(str)), "BOOST")
  BY <1>2 DEF ParseLexeme, Failing, After, WithBoost
<1> QED
  BY <1>3, <1>4, <1>5, <1>6 DEF f, t, d, b

LEMMA NoClauseIs ==
  /\ NoClause = ClauseAt(FieldNames, <<>>, TRUE, -1, 1) /\ NoClause \in ReadClauses
  /\ FieldNames \in SUBSET Seq(Nat)
  /\ ParserStart = ParserAt("nothing", NoClause, <<>>, FALSE) /\ ParserStart \in Parsers
<1>1. NoClause = ClauseAt(FieldNames, <<>>, TRUE, -1, 1)
  BY DEF NoClause, ClauseAt
<1>2. FieldNames \in SUBSET Seq(Nat)
  BY NamesAre
<1>3. <<>> \in Seq(Nat) /\ TRUE \in BOOLEAN /\ FALSE \in BOOLEAN /\ -1 \in Numbers /\ 1 \in Numbers
      /\ <<>> \in Seq(ReadClauses) /\ "nothing" \in LexemeTypes \cup {"nothing"}
  BY DEF Numbers
<1>4. ClauseAt(FieldNames, <<>>, TRUE, -1, 1) \in ReadClauses
  BY <1>2, <1>3 DEF ClauseAt, ReadClauses
<1>5. ParserStart = ParserAt("nothing", NoClause, <<>>, FALSE)
  BY DEF ParserStart, ParserAt
<1>6. ParserStart \in Parsers
  BY <1>1, <1>3, <1>4, <1>5 DEF Parsers, ParserAt
<1> QED
  BY <1>1, <1>2, <1>4, <1>5, <1>6

LEMMA NextIs ==
  ASSUME NEW a, NEW c, NEW cs, NEW e
  PROVE  /\ a \in {"nothing", "FIELD"} => NextClause(ParserAt(a, c, cs, e)) = ParserAt(a, c, cs, e)
         /\ a \notin {"nothing", "FIELD"} =>
              NextClause(ParserAt(a, c, cs, e)) = ParserAt(a, NoClause, Append(cs, c), e)
<1> DEFINE p == ParserAt(a, c, cs, e)
           K == Append(cs, c)
<1>1. p = [last |-> a, clause |-> c, clauses |-> cs, error |-> e]
  BY DEF ParserAt
<1> HIDE DEF p
<1>2. p.last = a /\ p.clause = c /\ p.clauses = cs
  BY <1>1
<1>3. NextClause(p) = IF a \in {"nothing", "FIELD"} THEN p
                      ELSE [p EXCEPT !.clauses = K, !.clause = NoClause]
  BY <1>2 DEF NextClause
<1> HIDE DEF K
<1>4. [p EXCEPT !.clauses = K, !.clause = NoClause] = ParserAt(a, NoClause, K, e)
  <2> DEFINE q == [p EXCEPT !.clauses = K]
             n == NoClause
  <2>1. q = [last |-> a, clause |-> c, clauses |-> K, error |-> e]
    BY <1>1
  <2> HIDE DEF q, n
  <2>2. [q EXCEPT !.clause = n] = [last |-> a, clause |-> n, clauses |-> K, error |-> e]
    BY <2>1
  <2> QED
    BY <2>2 DEF q, n, ParserAt
<1> QED
  BY <1>3, <1>4 DEF p, K

LEMMA FailingKept ==
  ASSUME NEW p \in Parsers
  PROVE  Failing(p) \in Parsers
BY DEF Parsers, Failing

LEMMA NextKept ==
  ASSUME NEW p \in Parsers
  PROVE  NextClause(p) \in Parsers
<1>1. p = ParserAt(p.last, p.clause, p.clauses, p.error)
      /\ p.last \in LexemeTypes \cup {"nothing"} /\ p.clause \in ReadClauses
      /\ p.clauses \in Seq(ReadClauses) /\ p.error \in BOOLEAN
  BY DEF Parsers, ParserAt
<1>2. Append(p.clauses, p.clause) \in Seq(ReadClauses)
  BY <1>1
<1>3. ParserAt(p.last, NoClause, Append(p.clauses, p.clause), p.error) \in Parsers
  BY <1>1, <1>2, NoClauseIs DEF ParserAt, Parsers
<1>4. NextClause(p) = IF p.last \in {"nothing", "FIELD"} THEN p
                      ELSE ParserAt(p.last, NoClause, Append(p.clauses, p.clause), p.error)
  BY <1>1, NextIs
<1> QED
  BY <1>3, <1>4

LEMMA LowerCaseIn ==
  ASSUME NEW s \in Seq(Nat)
  PROVE  LowerCase(s) \in Seq(Nat)
<1>1. \A i \in 1..Len(s) : Lower(s[i]) \in Nat
  <2> TAKE i \in 1..Len(s)
  <2>1. s[i] \in Nat
    OBVIOUS
  <2> QED
    BY <2>1, LowerCasesAssumption DEF Lower
<1>2. LowerCase(s) = [i \in 1..Len(s) |-> Lower(s[i])]
  BY DEF LowerCase
<1> QED
  BY <1>1, <1>2

LEMMA WithKept ==
  ASSUME NEW p \in Parsers, NEW s \in Seq(Nat), NEW u \in BOOLEAN, NEW n \in Numbers,
         NEW type \in LexemeTypes
  PROVE  /\ After(p, type) \in Parsers
         /\ WithFields(p, {s}) \in Parsers
         /\ WithTerm(p, s, u) \in Parsers
         /\ WithDistance(p, n) \in Parsers
         /\ WithBoost(p, n) \in Parsers
<1> DEFINE c == p.clause
           F == c.fields
           T == c.term
           U == c.usePipeline
           D == c.editDistance
           B == c.boost
           a == p.last
           cs == p.clauses
           e == p.error
<1>1. /\ p = ParserAt(a, ClauseAt(F, T, U, D, B), cs, e)
      /\ a \in LexemeTypes \cup {"nothing"} /\ c \in ReadClauses
      /\ cs \in Seq(ReadClauses) /\ e \in BOOLEAN
  BY ParserFacts
<1>2. F \in SUBSET Seq(Nat) /\ T \in Seq(Nat) /\ U \in BOOLEAN /\ D \in Numbers /\ B \in Numbers
  BY <1>1 DEF ReadClauses
<1> HIDE DEF c, F, T, U, D, B, a, cs, e
<1>3. {s} \in SUBSET Seq(Nat) /\ type \in LexemeTypes \cup {"nothing"}
  OBVIOUS
<1>4. After(p, type) \in Parsers
  <2>1. After(p, type) = ParserAt(type, ClauseAt(F, T, U, D, B), cs, e)
    BY <1>1, WithIs
  <2> QED
    BY <1>1, <1>2, <1>3, <2>1, ParsersHave
<1>5. WithFields(p, {s}) \in Parsers
  <2> DEFINE x == {s}
  <2>1. x \in SUBSET Seq(Nat)
    BY <1>3
  <2> HIDE DEF x
  <2>2. WithFields(p, x) = ParserAt(a, ClauseAt(x, T, U, D, B), cs, e)
    BY <1>1, WithIs
  <2>3. WithFields(p, x) \in Parsers
    BY <1>1, <1>2, <2>1, <2>2, ParsersHave
  <2> QED
    BY <2>3 DEF x
<1>6. WithTerm(p, s, u) \in Parsers
  <2>1. WithTerm(p, s, u) = ParserAt(a, ClauseAt(F, s, u, D, B), cs, e)
    BY <1>1, WithTermIs
  <2> QED
    BY <1>1, <1>2, <2>1, ParsersHave
<1>7. WithDistance(p, n) \in Parsers
  <2>1. WithDistance(p, n) = ParserAt(a, ClauseAt(F, T, U, n, B), cs, e)
    BY <1>1, WithIs
  <2> QED
    BY <1>1, <1>2, <2>1, ParsersHave
<1>8. WithBoost(p, n) \in Parsers
  <2>1. WithBoost(p, n) = ParserAt(a, ClauseAt(F, T, U, D, n), cs, e)
    BY <1>1, WithIs
  <2> QED
    BY <1>1, <1>2, <2>1, ParsersHave
<1> QED
  BY <1>4, <1>5, <1>6, <1>7, <1>8

LEMMA ParseLexemeKept ==
  ASSUME NEW p \in Parsers, NEW x \in LexemeSet
  PROVE  ParseLexeme(p, x) \in Parsers
<1> DEFINE type == x.type
           str == x.str
           u == ~\E i \in DOMAIN str : str[i] = Star
           n == ParseInt(str)
           low == LowerCase(str)
           q == NextClause(p)
<1>1. x = Lexeme(type, str) /\ type \in LexemeTypes /\ str \in Seq(Nat)
  BY DEF LexemeSet, Lexeme
<1> HIDE DEF type, str
<1>2. u \in BOOLEAN /\ n \in Numbers /\ low \in Seq(Nat) /\ q \in Parsers /\ Failing(p) \in Parsers
  BY <1>1, LowerCaseIn, NextKept, FailingKept DEF Numbers
<1>3. /\ WithFields(q, {str}) \in Parsers /\ WithTerm(q, low, u) \in Parsers
      /\ WithDistance(p, n) \in Parsers /\ WithBoost(p, n) \in Parsers
  <2> HIDE DEF u, n, low, q
  <2> QED
    BY <1>1, <1>2, WithKept
<1>4. /\ After(WithFields(q, {str}), "FIELD") \in Parsers
      /\ After(WithTerm(q, low, u), "TERM") \in Parsers
      /\ After(WithDistance(p, n), "EDIT_DISTANCE") \in Parsers
      /\ After(WithBoost(p, n), "BOOST") \in Parsers
  <2> HIDE DEF u, n, low, q
  <2>1. \A y \in Parsers, k \in LexemeTypes : After(y, k) \in Parsers
    BY <1>1, <1>2, WithKept
  <2> QED
    BY <1>3, <2>1 DEF LexemeTypes
<1>5. CASE type = "FIELD"
  BY <1>1, <1>2, <1>4, <1>5, ParseIs
<1>6. CASE type = "TERM"
  BY <1>1, <1>2, <1>4, <1>6, ParseIs
<1>7. CASE type = "EDIT_DISTANCE"
  BY <1>1, <1>2, <1>4, <1>7, ParseIs
<1>8. CASE type = "BOOST"
  BY <1>1, <1>2, <1>4, <1>8, ParseIs
<1> QED
  BY <1>1, <1>5, <1>6, <1>7, <1>8 DEF LexemeTypes

-------------------------------------------------------------------------------
ParseStep == [p \in LexemeSet \X Parsers |-> ParseLexeme(p[2], p[1])]

LEMMA ParseSteps ==
  \A x \in LexemeSet, p \in Parsers :
    ParseStep[<<x, p>>] = ParseLexeme(p, x) /\ ParseStep[<<x, p>>] \in Parsers
BY ParseLexemeKept DEF ParseStep

\* The parser is a loop over the lexemes.
LEMMA ParsedAlongIs ==
  ASSUME NEW parser \in Parsers, NEW lexemes \in Seq(LexemeSet)
  PROVE  ParsedAlong(parser, lexemes) = Result(lexemes, parser, ParseStep)
<1> DEFINE N == Len(lexemes)
           Solves(f) == f = [n \in 0..N |-> IF n = 0 THEN parser ELSE ParseLexeme(f[n - 1], lexemes[n])]
           run == CHOOSE f : Solves(f)
<1>0. N \in Nat /\ \A n \in 1..N : lexemes[n] \in LexemeSet
  OBVIOUS
<1>1. \A x \in LexemeSet, p \in Parsers :
        ParseStep[<<x, p>>] = ParseLexeme(p, x) /\ ParseStep[<<x, p>>] \in Parsers
  BY ParseSteps
<1>2. PICK f : Along(f, lexemes, parser, ParseStep) /\ \A n \in 0..Len(lexemes) : f[n] \in Parsers
  BY <1>1, AlongRuns
<1>3. Result(lexemes, parser, ParseStep) = f[N]
  BY <1>2, ResultIs
<1>4. f = [n \in 0..N |-> IF n = 0 THEN parser ELSE ParseStep[<<lexemes[n], f[n - 1]>>]]
  BY <1>2 DEF Along
<1>5. ParsedAlong(parser, lexemes) = run[N]
  BY DEF ParsedAlong
<1>6. \A n \in 0..N : f[n] \in Parsers
  BY <1>2
<1> HIDE DEF N
<1>7. Solves(f)
  <2>1. \A n \in 0..N : (IF n = 0 THEN parser ELSE ParseStep[<<lexemes[n], f[n - 1]>>])
                      = (IF n = 0 THEN parser ELSE ParseLexeme(f[n - 1], lexemes[n]))
    <3> SUFFICES ASSUME NEW n \in 0..N, n # 0
                 PROVE  ParseStep[<<lexemes[n], f[n - 1]>>] = ParseLexeme(f[n - 1], lexemes[n])
      OBVIOUS
    <3>1. n \in 1..N /\ n - 1 \in 0..N
      BY <1>0
    <3> QED
      BY <1>0, <1>1, <1>6, <3>1
  <2> QED
    BY <1>4, <2>1
<1>8. Solves(run)
  BY <1>7
<1> HIDE DEF run
<1>9. /\ \A n \in 0..N : f[n] = IF n = 0 THEN parser ELSE ParseLexeme(f[n - 1], lexemes[n])
      /\ \A n \in 0..N : run[n] = IF n = 0 THEN parser ELSE ParseLexeme(run[n - 1], lexemes[n])
  BY <1>7, <1>8
<1> DEFINE U == {n \in 0..N : run[n] = f[n]}
<1>10. 0 \in U
  <2>1. 0 \in 0..N
    BY <1>0
  <2>2. run[0] = parser /\ f[0] = parser
    BY <1>9, <2>1
  <2> QED
    BY <2>1, <2>2
<1>11. ASSUME NEW n \in 1..N, n - 1 \in U PROVE n \in U
  <2>1. n \in 0..N /\ n # 0 /\ run[n - 1] = f[n - 1]
    BY <1>0, <1>11
  <2>2. run[n] = ParseLexeme(run[n - 1], lexemes[n]) /\ f[n] = ParseLexeme(f[n - 1], lexemes[n])
    BY <1>9, <2>1
  <2> QED
    BY <2>1, <2>2
<1> HIDE DEF U
<1>12. \A n \in 0..N : n \in U
  BY <1>0, <1>10, <1>11, Steps
<1> QED
  BY <1>0, <1>3, <1>5, <1>12 DEF U

\* The parser after the lexemes L, and after one more.
Understood(L) == ParsedAlong(ParserStart, L)

LEMMA ReadingMore ==
  ASSUME NEW L \in Seq(LexemeSet)
  PROVE  /\ Understood(L) \in Parsers
         /\ \A x \in LexemeSet : Understood(Append(L, x)) = ParseLexeme(Understood(L), x)
<1> DEFINE p == ParserStart
           y == Result(L, p, ParseStep)
<1>0. p \in Parsers
  BY NoClauseIs
<1> HIDE DEF p
<1>1. Splits(LexemeSet, Parsers, ParseStep)
  <2>1. StepsIn(LexemeSet, Parsers, ParseStep)
    BY ParseSteps DEF StepsIn
  <2> QED
    BY <2>1, ResultOfAll
<1>2. \A s \in Seq(LexemeSet), t \in Seq(LexemeSet), x \in Parsers :
        /\ Result(s, x, ParseStep) \in Parsers
        /\ Result(Joined(s, t), x, ParseStep) = Result(t, Result(s, x, ParseStep), ParseStep)
  BY <1>1 DEF Splits
<1>3. y \in Parsers
  BY <1>0, <1>2
<1>4. ParsedAlong(p, L) = y
  BY <1>0, ParsedAlongIs
<1> HIDE DEF y
<1>5. ASSUME NEW x \in LexemeSet
      PROVE  ParsedAlong(p, Append(L, x)) = ParseLexeme(ParsedAlong(p, L), x)
  <2> DEFINE t == <<x>>
             M == Append(L, x)
  <2>1. t \in Seq(LexemeSet) /\ M \in Seq(LexemeSet)
    OBVIOUS
  <2>2. M = Joined(L, t)
    <3> DEFINE J == L \o <<x>>
    <3>1. M \in Seq(LexemeSet) /\ J \in Seq(LexemeSet) /\ Len(M) = Len(J)
          /\ \A i \in 1..Len(M) : M[i] = J[i]
      OBVIOUS
    <3> HIDE DEF M, J
    <3>2. M = J
      BY <3>1, SeqEqual
    <3> QED
      BY <3>2 DEF J, Joined
  <2>3. Result(t, y, ParseStep) = ParseStep[<<x, y>>]
    BY ResultOfOne
  <2> HIDE DEF t, M
  <2>4. Result(Joined(L, t), p, ParseStep) = Result(t, y, ParseStep)
    <3>1. Result(Joined(L, t), p, ParseStep) = Result(t, Result(L, p, ParseStep), ParseStep)
      BY <1>0, <1>2, <2>1
    <3> QED
      BY <3>1 DEF y
  <2>5. ParsedAlong(p, M) = Result(M, p, ParseStep)
    BY <1>0, <2>1, ParsedAlongIs
  <2>6. ParseStep[<<x, y>>] = ParseLexeme(y, x)
    BY <1>3, ParseSteps
  <2>7. ParsedAlong(p, M) = ParseLexeme(y, x)
    BY <2>2, <2>3, <2>4, <2>5, <2>6
  <2> QED
    BY <1>4, <2>7 DEF M
<1> QED
  BY <1>3, <1>4, <1>5 DEF Understood, p

LEMMA ReadingNone == Understood(<<>>) = ParserStart
<1>1. <<>> \in Seq(LexemeSet)
  OBVIOUS
<1> QED
  BY <1>1, NoClauseIs, ParsedAlongIs, ResultOfNone DEF Understood

-------------------------------------------------------------------------------
\* A number is understood as the one that was written.
LEMMA ParseIntIs ==
  ASSUME NEW n \in 0..99
  PROVE  ParseInt(Number(n)) = n
<1>1. ASSUME NEW a \in 48..57, a = 48 + n, Number(n) = <<a>> PROVE ParseInt(Number(n)) = n
  <2> DEFINE s == <<a>>
             Solves(f) == f = [k \in 0..Len(s) |-> IF k = 0 THEN 0 ELSE 10 * f[k - 1] + s[k] - 48]
             g == CHOOSE f : Solves(f)
             h == [k \in 0..1 |-> IF k = 0 THEN 0 ELSE n]
  <2>1. Len(s) = 1 /\ s[1] = a
    OBVIOUS
  <2>2. ParseInt(s) = g[1]
    BY <2>1 DEF ParseInt
  <2> HIDE DEF s
  <2>3. Solves(h)
    <3>1. h[0] = 0 /\ h[1] = n
      OBVIOUS
    <3>2. \A k \in 0..1 : h[k] = IF k = 0 THEN 0 ELSE 10 * h[k - 1] + s[k] - 48
      BY <1>1, <2>1, <3>1
    <3>3. h = [k \in 0..1 |-> h[k]]
      OBVIOUS
    <3> HIDE DEF h
    <3> QED
      BY <2>1, <3>2, <3>3
  <2> HIDE DEF h
  <2>4. Solves(g)
    BY <2>3
  <2> HIDE DEF g
  <2>5. \A k \in 0..1 : g[k] = IF k = 0 THEN 0 ELSE 10 * g[k - 1] + s[k] - 48
    BY <2>1, <2>4
  <2>6. g[0] = 0
    BY <2>5
  <2>7. g[1] = 10 * g[0] + s[1] - 48
    BY <2>5
  <2> QED
    BY <1>1, <2>1, <2>2, <2>6, <2>7 DEF s
<1>2. ASSUME NEW a \in 48..57, NEW b \in 48..57, 10 * (a - 48) + b - 48 = n, Number(n) = <<a, b>>
      PROVE  ParseInt(Number(n)) = n
  <2> DEFINE s == <<a, b>>
             Solves(f) == f = [k \in 0..Len(s) |-> IF k = 0 THEN 0 ELSE 10 * f[k - 1] + s[k] - 48]
             g == CHOOSE f : Solves(f)
             m == a - 48
             h == [k \in 0..2 |-> IF k = 0 THEN 0 ELSE IF k = 1 THEN m ELSE n]
  <2>1. Len(s) = 2 /\ s[1] = a /\ s[2] = b
    OBVIOUS
  <2>2. ParseInt(s) = g[2]
    BY <2>1 DEF ParseInt
  <2> HIDE DEF s
  <2>3. Solves(h)
    <3>1. h[0] = 0 /\ h[1] = m /\ h[2] = n
      OBVIOUS
    <3>2. \A k \in 0..2 : h[k] = IF k = 0 THEN 0 ELSE 10 * h[k - 1] + s[k] - 48
      <4>1. h[1] = 10 * h[0] + s[1] - 48 /\ h[2] = 10 * h[1] + s[2] - 48
        BY <1>2, <2>1, <3>1
      <4> QED
        BY <3>1, <4>1
    <3>3. h = [k \in 0..2 |-> h[k]]
      OBVIOUS
    <3> HIDE DEF h
    <3> QED
      BY <2>1, <3>2, <3>3
  <2> HIDE DEF h
  <2>4. Solves(g)
    BY <2>3
  <2> HIDE DEF g
  <2>5. \A k \in 0..2 : g[k] = IF k = 0 THEN 0 ELSE 10 * g[k - 1] + s[k] - 48
    BY <2>1, <2>4
  <2>6. g[0] = 0
    BY <2>5
  <2>7. g[1] = 10 * g[0] + s[1] - 48 /\ g[2] = 10 * g[1] + s[2] - 48
    BY <2>5
  <2>8. g[1] = a - 48
    BY <2>1, <2>6, <2>7
  <2>9. g[2] = n
    BY <1>2, <2>1, <2>7, <2>8
  <2> QED
    BY <1>2, <2>2, <2>9 DEF s
<1> QED
  <2>1. CASE \E a \in 48..57 : a = 48 + n /\ Number(n) = <<a>>
    BY <1>1, <2>1
  <2>2. CASE \E a \in 48..57, b \in 48..57 : 10 * (a - 48) + b - 48 = n /\ Number(n) = <<a, b>>
    BY <1>2, <2>2
  <2> QED
    BY <2>1, <2>2, NumberIs

-------------------------------------------------------------------------------
\* The parser between two clauses, those before it read as cs.
ClauseDone(p, cs) ==
  /\ p.error = FALSE /\ p.last # "FIELD"
  /\ \E a : NextClause(p) = ParserAt(a, NoClause, cs, FALSE)

\* The lexemes L are read as the clauses cs and the clause c, a lexeme of type a last.
ReadAs(L, a, c, cs) == L \in Seq(LexemeSet) /\ Understood(L) = ParserAt(a, c, cs, FALSE)

\* A number of a clause, if it is written, takes the place of the default.
LEMMA ReadNumber ==
  ASSUME NEW M \in Runs, NEW L, NEW a \in LexemeTypes \ {"FIELD"},
         NEW F, NEW T, NEW U, NEW D, NEW B, NEW cs, NEW n \in 0..99,
         ReadAs(L, a, ClauseAt(F, T, U, D, B), cs)
  PROVE  /\ M = "BOOST" =>
              ReadAs(Append(L, Lexeme(M, Number(n))), M, ClauseAt(F, T, U, D, n), cs)
         /\ M = "EDIT_DISTANCE" =>
              ReadAs(Append(L, Lexeme(M, Number(n))), M, ClauseAt(F, T, U, n, B), cs)
<1> DEFINE str == Number(n)
           no == FALSE
           p == ParserAt(a, ClauseAt(F, T, U, D, B), cs, no)
<1>0. L \in Seq(LexemeSet) /\ Understood(L) = p
  BY DEF ReadAs
<1>1. str \in Seq(Nat) /\ str # <<>> /\ ParseInt(str) = n
  BY NumberIs, ParseIntIs
<1>2. p.error = FALSE /\ p.last = a /\ a \notin {"nothing", "FIELD"}
  BY DEF ParserAt, LexemeTypes
<1> HIDE DEF no
<1>3. /\ WithDistance(p, n) = ParserAt(a, ClauseAt(F, T, U, n, B), cs, no)
      /\ WithBoost(p, n) = ParserAt(a, ClauseAt(F, T, U, D, n), cs, no)
  BY WithIs
<1>4. After(ParserAt(a, ClauseAt(F, T, U, n, B), cs, no), "EDIT_DISTANCE")
        = ParserAt("EDIT_DISTANCE", ClauseAt(F, T, U, n, B), cs, no)
  BY WithIs
<1>10. After(ParserAt(a, ClauseAt(F, T, U, D, n), cs, no), "BOOST")
         = ParserAt("BOOST", ClauseAt(F, T, U, D, n), cs, no)
  BY WithIs
<1> HIDE DEF str, p
<1>5. /\ ParseLexeme(p, Lexeme("EDIT_DISTANCE", str)) = After(WithDistance(p, n), "EDIT_DISTANCE")
      /\ ParseLexeme(p, Lexeme("BOOST", str)) = After(WithBoost(p, n), "BOOST")
  BY <1>1, <1>2, ParseIs
<1>6. Lexeme(M, str) \in LexemeSet
  BY <1>1 DEF Lexeme, LexemeSet, LexemeTypes, Runs
<1> DEFINE x == Lexeme(M, str)
<1>7. Append(L, x) \in Seq(LexemeSet)
  BY <1>0, <1>6
<1>8. Understood(Append(L, x)) = ParseLexeme(p, x)
  BY <1>0, <1>6, ReadingMore
<1>9. Understood(Append(L, x)) = IF M = "BOOST" THEN ParserAt("BOOST", ClauseAt(F, T, U, D, n), cs, no)
                              ELSE ParserAt("EDIT_DISTANCE", ClauseAt(F, T, U, n, B), cs, no)
  BY <1>3, <1>4, <1>5, <1>8, <1>10 DEF Runs
<1> QED
  BY <1>7, <1>9 DEF str, no, ReadAs

LEMMA ReadField ==
  ASSUME NEW c \in Clauses, NEW L \in Seq(LexemeSet), NEW cs, ClauseDone(Understood(L), cs)
  PROVE  /\ FieldAdded(c, L) \in Seq(LexemeSet)
         /\ Understood(FieldAdded(c, L)).error = FALSE
         /\ \E a : NextClause(Understood(FieldAdded(c, L)))
                     = ParserAt(a, ClauseAt(c.fields, <<>>, TRUE, -1, 1), cs, FALSE)
<1> DEFINE p == Understood(L)
<1>0. p.error = FALSE /\ p.last # "FIELD"
  BY DEF ClauseDone
<1>1. PICK a : NextClause(p) = ParserAt(a, ClauseAt(FieldNames, <<>>, TRUE, -1, 1), cs, FALSE)
  BY NoClauseIs DEF ClauseDone
<1>2. CASE Cardinality(c.fields) # 1
  <2>1. c.fields = FieldNames /\ FieldAdded(c, L) = L
    BY <1>2, FieldsAre DEF FieldAdded
  <2> HIDE DEF p
  <2>2. \E b : NextClause(p) = ParserAt(b, ClauseAt(c.fields, <<>>, TRUE, -1, 1), cs, FALSE)
    BY <1>1, <2>1
  <2> QED
    BY <1>0, <2>1, <2>2 DEF p
<1>3. CASE Cardinality(c.fields) = 1
  <2> DEFINE f == CHOOSE f \in c.fields : TRUE
             q == ParserAt("FIELD", ClauseAt(c.fields, <<>>, TRUE, -1, 1), cs, FALSE)
             x == Lexeme("FIELD", f)
             M == Append(L, x)
  <2>1. f \in FieldNames /\ c.fields = {f} /\ FieldAdded(c, L) = M
    BY <1>3, FieldsAre DEF FieldAdded
  <2> HIDE DEF f
  <2>2. x \in LexemeSet
    <3>1. f \in Seq(Nat)
      BY <2>1, LexField
    <3> QED
      BY <3>1 DEF Lexeme, LexemeSet, LexemeTypes
  <2>3. M \in Seq(LexemeSet)
    BY <2>2
  <2>4. Understood(M) = ParseLexeme(p, x)
    BY <2>2, ReadingMore
  <2> DEFINE N == NextClause(p)
             F == {f}
  <2>5. ParseLexeme(p, x) = After(WithFields(N, F), "FIELD")
    <3> HIDE DEF p
    <3> QED
      BY <1>0, <2>1, ParseIs
  <2> HIDE DEF p, N, F, x, M
  <2> DEFINE no == FALSE
             yes == TRUE
             none == -1
             e == <<>>
  <2>6. N = ParserAt(a, ClauseAt(FieldNames, e, yes, none, 1), cs, no)
    BY <1>1 DEF N
  <2> HIDE DEF no, yes, none, e
  <2>7. WithFields(N, F) = ParserAt(a, ClauseAt(F, e, yes, none, 1), cs, no)
    BY <2>6, WithIs
  <2>8. After(WithFields(N, F), "FIELD") = ParserAt("FIELD", ClauseAt(F, e, yes, none, 1), cs, no)
    BY <2>7, WithIs
  <2>9. F = c.fields
    BY <2>1 DEF F
  <2>10. Understood(M) = q
    BY <2>4, <2>5, <2>8, <2>9 DEF no, yes, none, e
  <2>11. NextClause(q) = q
    BY NextIs
  <2>12. q.error = FALSE
    BY DEF ParserAt
  <2> HIDE DEF q
  <2>13. Understood(FieldAdded(c, L)) = q
    BY <2>1, <2>10
  <2>14. \E b : q = ParserAt(b, ClauseAt(c.fields, <<>>, TRUE, -1, 1), cs, FALSE)
    BY DEF q
  <2> QED
    BY <2>1, <2>3, <2>11, <2>12, <2>13, <2>14
<1> QED
  BY <1>2, <1>3

LEMMA ReadTerm ==
  ASSUME NEW c \in Clauses, NEW L \in Seq(LexemeSet), NEW cs, NEW a, Understood(L).error = FALSE,
         NextClause(Understood(L)) = ParserAt(a, ClauseAt(c.fields, <<>>, TRUE, -1, 1), cs, FALSE)
  PROVE  /\ TermAdded(c, L) \in Seq(LexemeSet)
         /\ Understood(TermAdded(c, L))
              = ParserAt("TERM", ClauseAt(c.fields, c.term, c.usePipeline, -1, 1), cs, FALSE)
<1> DEFINE p == Understood(L)
           x == Lexeme("TERM", c.term)
           M == Append(L, x)
           N == NextClause(p)
           u == c.usePipeline
           t == c.term
           v == ~\E i \in DOMAIN t : t[i] = Star
           F == c.fields
<1>1. t \in Seq(Nat) /\ LowerCase(t) = t /\ u = v
  <2>1. t \in Seq(Nat) /\ LowerCase(t) = t /\ u \in BOOLEAN /\ u = (Star \notin Range(t))
    BY DEF Clauses
  <2>2. (Star \notin Range(t)) = v
    BY DEF Range
  <2> QED
    BY <2>1, <2>2
<1>2. x \in LexemeSet
  BY <1>1 DEF Lexeme, LexemeSet, LexemeTypes
<1>3. M \in Seq(LexemeSet) /\ TermAdded(c, L) = M
  BY <1>2 DEF TermAdded
<1>4. Understood(M) = ParseLexeme(p, x)
  BY <1>2, ReadingMore
<1>5. ParseLexeme(p, x) = After(WithTerm(N, LowerCase(t), v), "TERM")
  <2> HIDE DEF p
  <2>1. ParseLexeme(p, x) = IF p.error THEN Failing(p)
                            ELSE After(WithTerm(NextClause(p), LowerCase(t), v), "TERM")
    BY ParseIs
  <2>2. p.error = FALSE
    BY DEF p
  <2> QED
    BY <2>1, <2>2
<1> DEFINE no == FALSE
           yes == TRUE
           none == -1
           e == <<>>
<1>6. N = ParserAt(a, ClauseAt(F, e, yes, none, 1), cs, no)
  OBVIOUS
<1> HIDE DEF no, yes, none, e, p, x, M, N, u, t, v, F
<1>7. WithTerm(N, t, u) = ParserAt(a, ClauseAt(F, t, u, none, 1), cs, no)
  BY <1>6, WithTermIs
<1>8. After(WithTerm(N, t, u), "TERM") = ParserAt("TERM", ClauseAt(F, t, u, none, 1), cs, no)
  BY <1>7, WithIs
<1>9. Understood(M) = ParserAt("TERM", ClauseAt(F, t, u, none, 1), cs, no)
  BY <1>1, <1>4, <1>5, <1>8
<1> QED
  BY <1>3, <1>9 DEF F, t, u, none, no

\* A clause that has been written is read as itself.
LEMMA ReadClause ==
  ASSUME NEW c \in Clauses, NEW L \in Seq(LexemeSet), NEW cs, ClauseDone(Understood(L), cs)
  PROVE  Added(c, L) \in Seq(LexemeSet) /\ ClauseDone(Understood(Added(c, L)), Append(cs, c))
<1> DEFINE LF == FieldAdded(c, L)
           LT == TermAdded(c, LF)
           LD == DistanceAdded(c, LT)
           LB == BoostAdded(c, LD)
           F == c.fields
           T == c.term
           U == c.usePipeline
           D == c.editDistance
           B == c.boost
<1>0. D \in -1..99 /\ B \in 1..99 /\ c = ClauseAt(F, T, U, D, B)
  BY DEF Clauses, ClauseAt
<1>1. /\ LF \in Seq(LexemeSet) /\ Understood(LF).error = FALSE
      /\ \E a : NextClause(Understood(LF)) = ParserAt(a, ClauseAt(F, <<>>, TRUE, -1, 1), cs, FALSE)
  BY ReadField
<1>2. /\ LT \in Seq(LexemeSet)
      /\ Understood(LT) = ParserAt("TERM", ClauseAt(F, T, U, -1, 1), cs, FALSE)
  <2>1. PICK a : NextClause(Understood(LF)) = ParserAt(a, ClauseAt(F, <<>>, TRUE, -1, 1), cs, FALSE)
    BY <1>1
  <2> HIDE DEF LF
  <2> QED
    BY <1>1, <2>1, ReadTerm
<1> HIDE DEF LF, LT, F, T, U
<1> DEFINE none == -1
           one == 1
<1>a. /\ "TERM" \in LexemeTypes \ {"FIELD"} /\ "EDIT_DISTANCE" \in LexemeTypes \ {"FIELD"}
      /\ "BOOST" \in LexemeTypes \ {"FIELD"} /\ "EDIT_DISTANCE" \in Runs /\ "BOOST" \in Runs
  BY DEF LexemeTypes, Runs
<1>b. ReadAs(LT, "TERM", ClauseAt(F, T, U, none, one), cs)
  BY <1>2 DEF ReadAs
<1>3. \E a \in LexemeTypes \ {"FIELD"} : ReadAs(LD, a, ClauseAt(F, T, U, D, one), cs)
  <2>1. CASE D >= 0
    <3>1. D \in 0..99
      BY <1>0, <2>1
    <3>2. LD = Append(LT, Lexeme("EDIT_DISTANCE", Number(D)))
      BY <2>1 DEF DistanceAdded
    <3> HIDE DEF D, one, none
    <3>3. ReadAs(Append(LT, Lexeme("EDIT_DISTANCE", Number(D))), "EDIT_DISTANCE",
                 ClauseAt(F, T, U, D, one), cs)
      BY <1>a, <1>b, <3>1, ReadNumber
    <3> QED
      BY <1>a, <3>2, <3>3
  <2>2. CASE ~(D >= 0)
    <3>1. LD = LT
      BY <2>2 DEF DistanceAdded, LD
    <3>2. D = none
      <4> HIDE DEF D
      <4> QED
        BY <1>0, <2>2
    <3> HIDE DEF LD, D, one, none
    <3> QED
      BY <1>a, <1>b, <3>1, <3>2
  <2> QED
    BY <2>1, <2>2
<1> HIDE DEF LD
<1>4. \E a \in LexemeTypes \ {"FIELD"} : ReadAs(LB, a, ClauseAt(F, T, U, D, B), cs)
  <2>a. PICK a \in LexemeTypes \ {"FIELD"} : ReadAs(LD, a, ClauseAt(F, T, U, D, one), cs)
    BY <1>3
  <2>1. CASE B # 1
    <3>1. B \in 0..99
      BY <1>0
    <3>2. LB = Append(LD, Lexeme("BOOST", Number(B)))
      BY <2>1 DEF BoostAdded
    <3> HIDE DEF B, D, one
    <3>3. ReadAs(Append(LD, Lexeme("BOOST", Number(B))), "BOOST", ClauseAt(F, T, U, D, B), cs)
      BY <1>a, <2>a, <3>1, ReadNumber
    <3> QED
      BY <1>a, <3>2, <3>3
  <2>2. CASE B = 1
    <3>1. LB = LD /\ B = one
      BY <2>2 DEF BoostAdded, LB
    <3> HIDE DEF LB, B, D, one
    <3> QED
      BY <2>a, <3>1
  <2> QED
    BY <2>1, <2>2
<1> HIDE DEF LB
<1>5. PICK a \in LexemeTypes \ {"FIELD"} : ReadAs(LB, a, c, cs)
  BY <1>0, <1>4
<1>6. ClauseDone(Understood(LB), Append(cs, c))
  <2> DEFINE p == ParserAt(a, c, cs, FALSE)
  <2>1. p.error = FALSE /\ p.last # "FIELD"
    BY DEF ParserAt
  <2>2. a \notin {"nothing", "FIELD"}
    BY DEF LexemeTypes
  <2>3. NextClause(p) = ParserAt(a, NoClause, Append(cs, c), FALSE)
    BY <2>2, NextIs
  <2> HIDE DEF p
  <2>4. Understood(LB) = p
    BY <1>5 DEF p, ReadAs
  <2> QED
    BY <2>1, <2>3, <2>4 DEF ClauseDone
<1>7. Added(c, L) = LB
  BY DEF Added, LB, LD, LT, LF
<1> QED
  BY <1>5, <1>6, <1>7 DEF ReadAs

\* What a user asks for is what the parser makes of the string.
LEMMA QuestionRead ==
  ASSUME NEW asked \in Seq(Clauses)
  PROVE  Parse(WrittenAll(asked)) = [error |-> FALSE, clauses |-> asked]
<1> DEFINE N == Len(asked)
           l == LexerStart
           So(n) == SubSeq(asked, 1, n)
<1>0. /\ N \in Nat /\ \A n \in 1..N : asked[n] \in Clauses /\ So(n) = Append(So(n - 1), asked[n])
      /\ So(0) = <<>> /\ So(N) = asked
      /\ <<>> \in Seq(Nat) /\ <<>> \in Seq(LexemeSet) /\ <<32>> \in Seq(Nat) /\ 32 \in Nat /\ 0 \in Nat
  OBVIOUS
<1>1. l = LexerAt("text", <<>>, 0, <<>>) /\ l \in Lexers
  <2>1. l = LexerAt("text", <<>>, 0, <<>>)
    BY DEF LexerStart, LexerAt
  <2>2. LexerAt("text", <<>>, 0, <<>>) \in Lexers
    BY <1>0, LexersHave
  <2> QED
    BY <2>1, <2>2
<1>2. PICK f : /\ \A n \in 0..N : f[n] \in Seq(Nat)
               /\ f[0] = <<>>
               /\ \A n \in 1..N : f[n] = Joined(Joined(f[n - 1], <<32>>), Written(asked[n]))
               /\ WrittenAll(asked) = f[N]
  BY WrittenAllIs
<1> DEFINE T == {n \in 0..N : \E L \in Seq(LexemeSet) : /\ Ends(Lexed(l, f[n]), L)
                                                        /\ ClauseDone(Understood(L), So(n))}
<1> HIDE DEF N, So, l
<1>3. 0 \in T
  <2> DEFINE L == <<>>
             s == <<>>
  <2>1. Ends(LexerAt("text", s, 0, L), L)
    <3>1. TextAdds(s, 0, L, L) /\ s \in Seq(Nat) /\ L \in Seq(LexemeSet)
      BY DEF TextAdds
    <3> HIDE DEF s, L
    <3> QED
      BY <1>0, <3>1, TextEnds
  <2>2. Lexed(l, f[0]) = l
    BY <1>1, <1>2, LexedNone
  <2>3. ClauseDone(Understood(L), So(0))
    <3> DEFINE p == ParserAt("nothing", NoClause, L, FALSE)
    <3>1. Understood(L) = p
      BY ReadingNone, NoClauseIs
    <3>2. NextClause(p) = p
      BY NextIs
    <3>3. p.error = FALSE /\ p.last # "FIELD"
      BY DEF ParserAt
    <3>4. \E a : p = ParserAt(a, NoClause, L, FALSE)
      OBVIOUS
    <3> HIDE DEF p
    <3> QED
      BY <1>0, <3>1, <3>2, <3>3, <3>4 DEF ClauseDone
  <2>4. L \in Seq(LexemeSet) /\ 0 \in 0..N
    BY <1>0
  <2>5. Ends(Lexed(l, f[0]), L)
    BY <1>1, <2>1, <2>2
  <2> HIDE DEF L
  <2> QED
    BY <2>3, <2>4, <2>5
<1>4. ASSUME NEW n \in 1..N, n - 1 \in T PROVE n \in T
  <2> DEFINE c == asked[n]
             s == f[n - 1]
             sp == <<32>>
             w == Written(c)
  <2>1. /\ n \in 0..N /\ n - 1 \in 0..N /\ c \in Clauses /\ So(n) = Append(So(n - 1), c)
        /\ s \in Seq(Nat) /\ f[n] = Joined(Joined(s, sp), w)
    <3>1. n \in 0..N /\ n - 1 \in 0..N
      BY <1>0
    <3>2. c \in Clauses /\ So(n) = Append(So(n - 1), c)
      BY <1>0
    <3>3. s \in Seq(Nat) /\ f[n] = Joined(Joined(s, sp), w)
      BY <1>2, <3>1
    <3> QED
      BY <3>1, <3>2, <3>3
  <2>2. PICK L \in Seq(LexemeSet) : Ends(Lexed(l, s), L) /\ ClauseDone(Understood(L), So(n - 1))
    BY <1>4
  <2> DEFINE y == Lexed(l, s)
             z == LexerAt("text", <<>>, 0, L)
             K == Added(c, L)
  <2>3. sp \in Seq(Nat)
    BY <1>0
  <2>4. w \in Seq(Nat) /\ Ends(Lexed(z, w), K)
    BY <2>1, LexWritten
  <2>5. K \in Seq(LexemeSet) /\ ClauseDone(Understood(K), So(n))
    <3> DEFINE cs == So(n - 1)
    <3>1. ClauseDone(Understood(L), cs)
      BY <2>2
    <3> HIDE DEF cs, c
    <3>2. Added(c, L) \in Seq(LexemeSet) /\ ClauseDone(Understood(Added(c, L)), Append(cs, c))
      BY <2>1, <3>1, ReadClause
    <3> QED
      BY <2>1, <3>2 DEF cs
  <2>6. Lexed(y, sp) = z
    <3>1. LexCharacter(y, 32) = z /\ y \in Lexers
      BY <2>2 DEF Ends
    <3> HIDE DEF y, z
    <3> QED
      BY <1>0, <3>1, LexedOne
  <2> HIDE DEF c, s, sp, w, z, K
  <2>7. Lexed(l, Joined(s, sp)) = z /\ Joined(s, sp) \in Seq(Nat)
    <3>1. Lexed(l, Joined(s, sp)) = Lexed(Lexed(l, s), sp)
      BY <1>1, <2>1, <2>3, LexedBoth
    <3>2. Joined(s, sp) \in Seq(Nat)
      BY <2>1, <2>3 DEF Joined
    <3> QED
      BY <2>6, <3>1, <3>2
  <2> DEFINE v == Joined(s, sp)
  <2> HIDE DEF v
  <2>8. v \in Seq(Nat) /\ Lexed(l, v) = z /\ f[n] = Joined(v, w)
    BY <2>1, <2>7 DEF v
  <2>9. Lexed(l, Joined(v, w)) = Lexed(Lexed(l, v), w)
    BY <1>1, <2>4, <2>8, LexedBoth
  <2>10. Ends(Lexed(l, f[n]), K)
    BY <2>4, <2>8, <2>9
  <2> QED
    BY <2>1, <2>5, <2>10
<1> HIDE DEF T
<1>5. \A n \in 0..N : n \in T
  BY <1>0, <1>3, <1>4, Steps
<1>6. N \in T
  BY <1>0, <1>5
<1>7. PICK L \in Seq(LexemeSet) : Ends(Lexed(l, f[N]), L) /\ ClauseDone(Understood(L), So(N))
  BY <1>6 DEF T
<1>8. Lexemes(WrittenAll(asked)) = L
  <2>1. LexEnd(Lexed(l, f[N])).lexemes = L
    BY <1>7 DEF Ends
  <2> QED
    BY <1>2, <2>1 DEF Lexemes, l
<1> DEFINE p == Understood(L)
<1>9. Parse(WrittenAll(asked)) = Parsed(p)
  BY <1>8 DEF Parse, Understood
<1>10. PICK a : NextClause(p) = ParserAt(a, NoClause, asked, FALSE)
  BY <1>0, <1>7 DEF ClauseDone
<1>11. NextClause(p).clauses = asked
  BY <1>10 DEF ParserAt
<1>12. p.error = FALSE /\ p.last # "FIELD"
  BY <1>7 DEF ClauseDone
<1> HIDE DEF p
<1>13. Parsed(p) = [error |-> FALSE, clauses |-> asked]
  BY <1>11, <1>12 DEF Parsed
<1> QED
  BY <1>9, <1>13

LEMMA QuestionsAre ==
  ASSUME NEW asked \in Questions
  PROVE  Parse(WrittenAll(asked)) = [error |-> FALSE, clauses |-> asked]
<1>1. Range(asked) \subseteq Clauses /\ asked \in Seq(Range(asked))
  BY QuestionsAssumption DEF Clauses
<1>2. asked \in Seq(Clauses)
  BY <1>1
<1> QED
  BY <1>2, QuestionRead

LEMMA AskReads == ASSUME Ask PROVE QuestionsComeThrough'
<1>1. CASE \E asked \in Questions : Search(asked, WrittenAll(asked))
  <2>1. PICK asked \in Questions : Search(asked, WrittenAll(asked))
    BY <1>1
  <2> DEFINE parsed == Parse(WrittenAll(asked))
             wanted == UNION {{i} \X Expanded(parsed.clauses[i]) \X parsed.clauses[i].fields :
                                i \in DOMAIN parsed.clauses}
             outcome == IF parsed.error THEN "QueryParseError"
                        ELSE IF \E p \in wanted : p[2] \notin DOMAIN inverted THEN "TypeError"
                        ELSE "none"
             pending == IF outcome = "none" THEN wanted ELSE {}
  <2>2. parsed.error = FALSE /\ parsed.clauses = asked
    BY QuestionsAre
  <2>3. outcome # "QueryParseError"
    BY <2>2
  <2>4. Begun(asked, parsed) = [NoQuery EXCEPT !.asked = asked, !.clauses = parsed.clauses,
                                               !.pending = pending, !.outcome = outcome]
    BY Zenon DEF Begun
  <2>5. lunrQuery' = Begun(asked, parsed)
    BY <2>1 DEF Search
  <2> HIDE DEF parsed, outcome, pending, wanted
  <2>6. lunrQuery'.outcome = outcome /\ lunrQuery'.clauses = parsed.clauses
    BY <2>4, <2>5 DEF NoQuery
  <2>7. lunrQuery'.asked = asked
    BY <2>4, <2>5 DEF NoQuery
  <2> QED
    BY <2>2, <2>3, <2>6, <2>7 DEF QuestionsComeThrough
<1>2. CASE \E str \in Scribbles : Search(<<>>, str)
  <2>1. PICK str \in Scribbles : Search(<<>>, str)
    BY <1>2
  <2> DEFINE parsed == Parse(str)
             e == <<>>
             wanted == UNION {{i} \X Expanded(parsed.clauses[i]) \X parsed.clauses[i].fields :
                                i \in DOMAIN parsed.clauses}
             outcome == IF parsed.error THEN "QueryParseError"
                        ELSE IF \E p \in wanted : p[2] \notin DOMAIN inverted THEN "TypeError"
                        ELSE "none"
             pending == IF outcome = "none" THEN wanted ELSE {}
  <2>2. Begun(e, parsed) = [NoQuery EXCEPT !.asked = e, !.clauses = parsed.clauses,
                                           !.pending = pending, !.outcome = outcome]
    BY Zenon DEF Begun
  <2>3. lunrQuery' = Begun(e, parsed)
    BY <2>1 DEF Search
  <2> HIDE DEF parsed, outcome, pending, wanted
  <2>4. lunrQuery'.asked = e
    BY <2>2, <2>3 DEF NoQuery
  <2> QED
    BY <2>4 DEF QuestionsComeThrough
<1> QED
  BY <1>1, <1>2 DEF Ask

LEMMA QuestionsStep ==
  ASSUME IndexInv, QuestionsComeThrough, [SearchNext]_searchVars
  PROVE  QuestionsComeThrough'
<1>0. {"asked", "clauses", "outcome"} \subseteq DOMAIN lunrQuery
  BY DEF IndexInv, QueryInv
<1>1. CASE Ask
  BY <1>1, AskReads
<1>2. CASE Query
  <2>1. /\ lunrQuery'.asked = lunrQuery.asked /\ lunrQuery'.clauses = lunrQuery.clauses
        /\ lunrQuery'.outcome \in {lunrQuery.outcome, "answer"}
    <3>1. CASE UpsertQuery
      BY <1>0, <3>1 DEF UpsertQuery
    <3>2. CASE ScoreField
      BY <1>0, <3>2 DEF ScoreField
    <3>3. CASE Answer
      BY <1>0, <3>3 DEF Answer
    <3> QED
      BY <1>2, <3>1, <3>2, <3>3 DEF Query
  <2> QED
    BY <2>1 DEF QuestionsComeThrough
<1>3. CASE UNCHANGED lunrQuery
  BY <1>3 DEF QuestionsComeThrough
<1>4. Build \/ Load \/ UNCHANGED indexVars \/ UNCHANGED searchVars => UNCHANGED lunrQuery
  BY DEF Build, AddTerm, BeginBuild, InsertWeight, BeginTokenSet, InsertTerm, FinishBuild, Load,
         FinishLoad, LoadAgain, LoadTerm, indexVars, searchVars
<1> QED
  BY <1>1, <1>2, <1>3, <1>4 DEF SearchNext

\* Whatever a user asks for, in clauses of any number with terms of any length, the
\* lexer and the parser read it from the string as it was meant: no character of a
\* term ends it, no clause keeps what belongs to another, and no error stops them
\* (lunr.js:2378-2895).
THEOREM QuestionsAreRead == SiteSpec => []QuestionsComeThrough
<1>1. SiteInit => IndexInv /\ QuestionsComeThrough
  BY SiteStartsIndex DEF SiteInit, SiteStarts, SearchInit, NoQuery, QuestionsComeThrough
<1>2. IndexInv /\ QuestionsComeThrough /\ [SiteNext]_siteVars => (IndexInv /\ QuestionsComeThrough)'
  BY StepsOfIndex, IndexInvStep, QuestionsStep
<1> QED
  BY <1>1, <1>2, PTL DEF SiteSpec
===============================================================================
