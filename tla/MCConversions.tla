----------------------------- MODULE MCConversions -----------------------------
EXTENDS Conversions

\* Around the three rows of digits, around the end of the table, and a full
\* width digit beyond it.
Units == {0, 47, 48, 57, 58, 64, 65, 70, 71, 96, 97, 102, 103, 255, 256, 65296}

Zeros(n) == [i \in 1..n |-> 48]
Mixed(n) == [i \in 1..n |-> IF i % 3 = 0 THEN 70 ELSE IF i % 3 = 1 THEN 51 ELSE 98]

\* One unit at any place, two units near the end, and the wrong lengths.
SomeHexTexts ==
  {[t EXCEPT ![i] = u] : t \in {Zeros(40), Mixed(40)}, i \in 1..40, u \in Units}
    \cup {[Mixed(40) EXCEPT ![i] = u, ![40] = v] : i \in 37..39, u, v \in Units}
    \cup {Zeros(n) : n \in {0, 2, 39, 41}}

\* Ids that differ from zero, or from all ones, in one byte.
ComparedIds ==
  {[[i \in 0..19 |-> b] EXCEPT ![k] = v] : b \in {0, 255}, k \in 0..19, v \in {0, 128, 255}}

\* A long has twice the bits of an int.
SmallNumbers == -8..15

SomeTexts ==
  {NoString, <<>>, <<"x">>, <<"x", "high", "low">>, <<"high", "low", "x", "x">>,
   <<"high">>, <<"x", "low">>, <<"low", "high">>, <<"high", "high", "low">>,
   <<"x", "nul", "x">>, <<"nul">>, <<"fffd">>}

SomeNativeStrings ==
  {NoString, <<"nul">>} \cup
    {Append(s, "nul") : s \in UNION {[1..n -> {"x", "pair", "bad", "fffd"}] : n \in 1..3}}
===============================================================================
