--------------------------- MODULE LazyNative_proofs ---------------------------
(***************************************************************************)
(* Proofs about LazyNative, for any set of threads and any number of runs  *)
(* of the factory.                                                         *)
(***************************************************************************)
EXTENDS LazyNative, TLAPS

\* The places in the getter.
PCs == {"idle", "test", "factory", "store", "publish", "late", "read"}

-------------------------------------------------------------------------------
(* The factory runs only for getters that began cold.                      *)

\* A getter that has returned, or is about to, has seen the flag set; and the
\* flag is never taken back.
Cold ==
  /\ pc \in [Threads -> PCs] /\ warm \in [Threads -> BOOLEAN]
  /\ served # {} => hasValue = TRUE
  /\ \A t \in Threads : pc[t] \in {"read", "late"} => hasValue = TRUE
  /\ \A t \in Threads : warm[t] = TRUE => served # {}
  /\ \A t \in Threads :
       pc[t] \in {"factory", "store", "publish", "late"} => warm[t] = FALSE

\* Every step of the getter keeps Cold.
LEMMA ColdPreserved == Cold /\ [Next]_vars => Cold'
<1> SUFFICES ASSUME Cold, [Next]_vars PROVE Cold'
  OBVIOUS
<1> USE DEF Cold, PCs, Goto
<1>1. ASSUME NEW t \in Threads, Begin(t) PROVE Cold'
  BY <1>1 DEF Begin
<1>2. ASSUME NEW t \in Threads, Hit(t) PROVE Cold'
  BY <1>2 DEF Hit
<1>3. ASSUME NEW t \in Threads, Miss(t) PROVE Cold'
  BY <1>3 DEF Miss
<1>4. ASSUME NEW t \in Threads, FactoryReturns(t) PROVE Cold'
  BY <1>4 DEF FactoryReturns
<1>5. ASSUME NEW t \in Threads, FactoryThrows(t) PROVE Cold'
  BY <1>5 DEF FactoryThrows
<1>6. ASSUME NEW t \in Threads, StoreValue(t) PROVE Cold'
  BY <1>6 DEF StoreValue
<1>7. ASSUME NEW t \in Threads, Publish(t) PROVE Cold'
  BY <1>7 DEF Publish
<1>8. ASSUME NEW t \in Threads, PublishEarly(t) PROVE Cold'
  BY <1>8 DEF PublishEarly
<1>9. ASSUME NEW t \in Threads, StoreLate(t) PROVE Cold'
  BY <1>9 DEF StoreLate
<1>10. ASSUME NEW t \in Threads, Return(t) PROVE Cold'
  BY <1>10 DEF Return
<1>11. CASE Dispose
  BY <1>11 DEF Dispose
<1>12. CASE UNCHANGED vars
  BY <1>12 DEF vars
<1> QED
  BY <1>1, <1>2, <1>3, <1>4, <1>5, <1>6, <1>7, <1>8, <1>9, <1>10, <1>11, <1>12
  DEF Next, GetterStep

\* LazyNative.Value: whatever the order in which the stores become visible, a
\* getter that begins after another has returned does not run the factory.
THEOREM FactoryOnlyCold == Spec => []RunsFactoryOnlyCold
<1>1. Init => Cold
  BY DEF Init, Cold, PCs
<1>2. Cold => RunsFactoryOnlyCold
  BY DEF Cold, RunsFactoryOnlyCold
<1> QED
  BY <1>1, <1>2, ColdPreserved, PTL DEF Spec

-------------------------------------------------------------------------------
(* What is served was made by the factory, if stores stay in order.        *)

\* Where the processor keeps stores in order there is a value behind the flag.
InOrder ==
  /\ pc \in [Threads -> PCs]
  /\ made \in Nat /\ mine \in [Threads -> Nat] /\ value \in Nat
  /\ hasValue = TRUE => value # 0
  /\ \A t \in Threads :
       /\ pc[t] # "late"
       /\ pc[t] \in {"store", "publish"} => mine[t] # 0
       /\ pc[t] \in {"publish", "read"} => value # 0
  /\ \A s \in served : s.value # 0

\* Every step of the getter keeps InOrder.
LEMMA InOrderPreserved ==
  ASSUME reorders = FALSE, InOrder, [Next]_vars
  PROVE  InOrder'
<1> USE DEF InOrder, PCs, Goto
<1>1. ASSUME NEW t \in Threads, Begin(t) PROVE InOrder'
  BY <1>1 DEF Begin
<1>2. ASSUME NEW t \in Threads, Hit(t) PROVE InOrder'
  BY <1>2 DEF Hit
<1>3. ASSUME NEW t \in Threads, Miss(t) PROVE InOrder'
  BY <1>3 DEF Miss
<1>4. ASSUME NEW t \in Threads, FactoryReturns(t) PROVE InOrder'
  BY <1>4 DEF FactoryReturns
<1>5. ASSUME NEW t \in Threads, FactoryThrows(t) PROVE InOrder'
  BY <1>5 DEF FactoryThrows
<1>6. ASSUME NEW t \in Threads, StoreValue(t) PROVE InOrder'
  BY <1>6 DEF StoreValue
<1>7. ASSUME NEW t \in Threads, Publish(t) PROVE InOrder'
  BY <1>7 DEF Publish
<1>8. ASSUME NEW t \in Threads, PublishEarly(t) PROVE InOrder'
  BY <1>8 DEF PublishEarly
<1>9. ASSUME NEW t \in Threads, StoreLate(t) PROVE InOrder'
  BY <1>9 DEF StoreLate
<1>10. ASSUME NEW t \in Threads, Return(t) PROVE InOrder'
  BY <1>10 DEF Return
<1>11. CASE Dispose
  BY <1>11 DEF Dispose
<1>12. CASE UNCHANGED vars
  BY <1>12 DEF vars
<1> QED
  BY <1>1, <1>2, <1>3, <1>4, <1>5, <1>6, <1>7, <1>8, <1>9, <1>10, <1>11, <1>12
  DEF Next, GetterStep

\* LazyNative.Value: with the stores in program order no getter ever returns
\* default(T), however many threads race for the first value.
THEOREM NeverServesDefault == Spec => []ServesMadeValues
<1> DEFINE Inv == reorders = FALSE => InOrder
<1>1. Init => Inv
  BY DEF Init, InOrder, PCs
<1>2. [Next]_vars => reorders' = reorders
  BY DEF Next, GetterStep, vars, Dispose, Begin, Hit, Miss, FactoryReturns,
     FactoryThrows, StoreValue, Publish, PublishEarly, StoreLate, Return
<1>3. Inv /\ [Next]_vars => Inv'
  BY <1>2, InOrderPreserved
<1>4. Inv /\ reorders \in BOOLEAN => ServesMadeValues
  BY DEF InOrder, ServesMadeValues
<1>5. Init => reorders \in BOOLEAN
  BY DEF Init
<1>6. reorders \in BOOLEAN /\ [Next]_vars => (reorders \in BOOLEAN)'
  BY <1>2
<1> HIDE DEF Inv
<1> QED
  BY <1>1, <1>3, <1>4, <1>5, <1>6, PTL DEF Spec

-------------------------------------------------------------------------------
(* The flag and the value, in whatever order the stores become visible.    *)

\* A flag that is set has a value, or a thread that is about to store one.
Flagged ==
  /\ pc \in [Threads -> PCs]
  /\ made \in Nat /\ mine \in [Threads -> Nat] /\ value \in Nat
  /\ \A t \in Threads : pc[t] \in {"store", "publish", "late"} => mine[t] # 0
  /\ \A t \in Threads : pc[t] = "publish" => value # 0
  /\ hasValue = TRUE => value # 0 \/ \E t \in Threads : pc[t] = "late"

\* Every step of the getter keeps Flagged.
LEMMA FlaggedPreserved == ASSUME Flagged, [Next]_vars PROVE Flagged'
<1> USE DEF Flagged, PCs, Goto
<1>1. ASSUME NEW t \in Threads, Begin(t) PROVE Flagged'
  BY <1>1 DEF Begin
<1>2. ASSUME NEW t \in Threads, Hit(t) PROVE Flagged'
  BY <1>2 DEF Hit
<1>3. ASSUME NEW t \in Threads, Miss(t) PROVE Flagged'
  BY <1>3 DEF Miss
<1>4. ASSUME NEW t \in Threads, FactoryReturns(t) PROVE Flagged'
  BY <1>4 DEF FactoryReturns
<1>5. ASSUME NEW t \in Threads, FactoryThrows(t) PROVE Flagged'
  BY <1>5 DEF FactoryThrows
<1>6. ASSUME NEW t \in Threads, StoreValue(t) PROVE Flagged'
  BY <1>6 DEF StoreValue
<1>7. ASSUME NEW t \in Threads, Publish(t) PROVE Flagged'
  BY <1>7 DEF Publish
<1>8. ASSUME NEW t \in Threads, PublishEarly(t) PROVE Flagged'
  BY <1>8 DEF PublishEarly
<1>9. ASSUME NEW t \in Threads, StoreLate(t) PROVE Flagged'
  BY <1>9 DEF StoreLate
<1>10. ASSUME NEW t \in Threads, Return(t) PROVE Flagged'
  BY <1>10 DEF Return
<1>11. CASE Dispose
  BY <1>11 DEF Dispose
<1>12. CASE UNCHANGED vars
  BY <1>12 DEF vars
<1> QED
  BY <1>1, <1>2, <1>3, <1>4, <1>5, <1>6, <1>7, <1>8, <1>9, <1>10, <1>11, <1>12
  DEF Next, GetterStep

\* LazyNative.Value: once every getter is over a set flag has a value behind it,
\* on any processor and after any number of factories that have thrown.
THEOREM FlagHasValue == Spec => []FlagMeansValue
<1>1. Init => Flagged
  BY DEF Init, Flagged, PCs
<1>2. Flagged => FlagMeansValue
  BY DEF Flagged, FlagMeansValue
<1> QED
  BY <1>1, <1>2, FlaggedPreserved, PTL DEF Spec
===============================================================================
