---------------------------- MODULE MCSearchDigits ----------------------------
(***************************************************************************)
(* An index of one document, "0 111111111111111111 b1p b3 ccccc d1 d2q":   *)
(* terms with digits in places where the keys of two nodes of the token    *)
(* set, in which labels and the numbers of nodes run together, agree.      *)
(***************************************************************************)
EXTENDS SearchIndex

DigitText ==
  <<48, 32>> \o [i \in 1..18 |-> 49] \o
  <<32, 98, 49, 112, 32, 98, 51, 32, 99, 99, 99, 99, 99, 32, 100, 49, 32, 100, 50, 113>>

DigitData == {<<(Title :> DigitText) @@ (Keywords :> Missing)>>}
DigitFields == {Title, Keywords}
DigitVectors == (DigitFields \X {1}) \cup DigitFields
DigitIndexes == 0..7
DigitValues == 1..7
Unstemmed(w) == w
Capitals == [c \in 65..90 |-> c + 32]
===============================================================================
