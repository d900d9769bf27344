------------------------------ MODULE SparseMaps ------------------------------
(***************************************************************************)
(* What lunr.Vector promises, without its flat array and the search in it  *)
(* (lunr.js:530-720): a vector is a map from indexes to values, and a call *)
(* of insert or upsert changes it at one index, in one step.               *)
(***************************************************************************)
EXTENDS Naturals

CONSTANTS Vectors, Indexes, Values

VARIABLES weights,  \* weights[v]: from the indexes that v has to their values
          call      \* the call that is under way

mapVars == <<weights, call>>

Over(thrown) == [busy |-> FALSE, thrown |-> thrown]

Init == weights = [v \in Vectors |-> <<>>] /\ call = Over(FALSE)

Renew(vs) ==
  /\ ~call.busy
  /\ weights' = [v \in Vectors |-> IF v \in vs THEN <<>> ELSE weights[v]]
  /\ UNCHANGED call

Call(v, i, x, fn) ==
  /\ ~call.busy
  /\ call' = [busy |-> TRUE, vector |-> v, index |-> i, value |-> x, fn |-> fn]
  /\ UNCHANGED weights

\* The map with the value x at i, where it may or may not have had a value.
At(map, i, x) == [j \in DOMAIN map \cup {i} |-> IF j = i THEN x ELSE map[j]]

\* insert throws when there is a value; upsert adds to it.
Throw ==
  /\ call.busy /\ call.fn = "throw" /\ call.index \in DOMAIN weights[call.vector]
  /\ call' = Over(TRUE)
  /\ UNCHANGED weights

Return ==
  /\ call.busy
  /\ LET map == weights[call.vector]
         new == IF call.index \in DOMAIN map THEN map[call.index] + call.value ELSE call.value
     IN  /\ call.index \in DOMAIN map => call.fn = "add"
         /\ weights' = [weights EXCEPT ![call.vector] = At(map, call.index, new)]
  /\ call' = Over(FALSE)

Next ==
  \/ \E vs \in SUBSET Vectors : Renew(vs)
  \/ \E v \in Vectors, i \in Indexes, x \in Values, fn \in {"add", "throw"} : Call(v, i, x, fn)
  \/ Throw \/ Return

Spec == Init /\ [][Next]_mapVars
===============================================================================
