-------------------------- MODULE CallShapes_proofs --------------------------
(***************************************************************************)
(* Proofs about CallShapes for every set of protected shapes, so for every *)
(* member that could be added to a wrapper class in that form.             *)
(***************************************************************************)
EXTENDS CallShapes, TLAPS

\* The state of a call has its type, for any set of member shapes.
THEOREM TypeCorrect == Spec => []TypeOK
<1> USE ShapesAssumption DEF TypeOK, Running, Ended
<1>0. <<>> \in Seq(Steps) /\ Len(<<>>) = 0
  OBVIOUS
<1>1. Init => TypeOK
  <2> SUFFICES ASSUME Init PROVE TypeOK
    OBVIOUS
  <2>1. Len(shape) = 0
    BY <1>0, Zenon DEF Init
  <2>2. at \in 0..(Len(shape) + 1)
    BY <2>1 DEF Init
  <2> QED
    BY <2>2, Zenon DEF Init
<1>2. TypeOK /\ [Next]_vars => TypeOK'
  <2> SUFFICES ASSUME TypeOK, [Next]_vars PROVE TypeOK'
    OBVIOUS
  <2>0. shape \in Seq(Steps) /\ Len(shape) \in Nat
    <3>1. shape \in Seq(Steps)
      BY <1>0
    <3> QED
      BY <3>1
  <2>1. ASSUME NEW s \in Shapes, Begin(s) PROVE TypeOK'
    BY <2>1 DEF Begin
  <2>2. CASE Step
    BY <2>0, <2>2 DEF Step, Advance
  <2>3. CASE ThrowDisposed \/ ReturnNull \/ Return
    BY <2>3 DEF ThrowDisposed, ReturnNull, Return, End
  <2>4. CASE Forget \/ Dispose \/ Finalize
    BY <2>4 DEF Forget, Dispose, Finalize
  <2>5. CASE UNCHANGED vars
    BY <2>5 DEF vars
  <2> QED
    BY <2>1, <2>2, <2>3, <2>4, <2>5 DEF Next
<1> QED
  BY <1>1, <1>2, PTL DEF Spec

\* Past its NotDisposed, a member that will still use "this" finds the wrapper
\* undisposed: nobody else may dispose it and the collector cannot.
AliveWhileKept == Running /\ at > 1 /\ KeptAlive => field = "set"

\* The native object goes with the field, and a member that began on a disposed
\* wrapper is still at its NotDisposed.
FieldOk ==
  /\ Running => shape \in Shapes
  /\ field = "set" => native = "live"
  /\ begun => field = "null"
  /\ begun => at <= 1

BegunOk == ~Running /\ begun => result = "threw"

IInv == TypeOK /\ AliveWhileKept /\ FieldOk /\ BegunOk

\* Every step of a call of a protected member keeps the invariant.
LEMMA InvPreserved ==
  ASSUME \A s \in Shapes : Protected(s), TypeOK', IInv, [Next]_vars
  PROVE  IInv'
<1> USE ShapesAssumption DEF IInv, TypeOK, FieldOk, BegunOk, AliveWhileKept, Running, Ended, Now
<1>1. ASSUME NEW s \in Shapes, Begin(s) PROVE IInv'
  BY <1>1 DEF Begin
<1>2. CASE Step
  <2>1. Running' /\ at' > 1 /\ KeptAlive' => field' = "set"
    <3> SUFFICES ASSUME KeptAlive' PROVE field' = "set"
      OBVIOUS
    <3>1. KeptAlive
      BY <1>2 DEF Step, Advance, KeptAlive
    <3>2. CASE at = 1
      BY <1>2, <3>2 DEF Step, Advance, Protected
    <3>3. CASE at > 1
      BY <1>2, <3>1, <3>3 DEF Step, Advance
    <3>4. at = 1 \/ at > 1
      BY <1>2 DEF Step
    <3> QED
      BY <3>2, <3>3, <3>4
  <2>2. FieldOk' /\ BegunOk'
    BY <1>2 DEF Step, Advance, Protected
  <2> QED
    BY <2>1, <2>2
<1>3. CASE ThrowDisposed
  BY <1>3 DEF ThrowDisposed, End
<1>4. CASE ReturnNull \/ Return
  <2>1. Running /\ shape \in Shapes /\ shape # <<>> /\ shape[1] = "check" /\ Len(shape) \in Nat
    BY <1>4 DEF ReturnNull, Return, Protected
  <2>2. ~begun
    <3> SUFFICES ASSUME begun PROVE FALSE
      OBVIOUS
    <3>1. at = 1
      BY <2>1
    <3>2. Len(shape) >= 1
      BY <2>1
    <3> QED
      BY <1>4, <2>1, <3>1, <3>2 DEF ReturnNull, Return
  <2> QED
    BY <1>4, <2>1, <2>2 DEF ReturnNull, Return, End
<1>5. CASE Forget
  BY <1>5 DEF Forget, KeptAlive
<1>6. CASE Dispose
  BY <1>6 DEF Dispose
<1>7. CASE Finalize
  BY <1>7 DEF Finalize, KeptAlive
<1>8. CASE UNCHANGED vars
  BY <1>8 DEF vars, KeptAlive
<1> QED
  BY <1>1, <1>2, <1>3, <1>4, <1>5, <1>6, <1>7, <1>8 DEF Next

\* Whatever the shapes, if each begins with NotDisposed and uses "this" after
\* its last use of native memory, then native memory is only used while the
\* native object is there, and a disposed wrapper always answers with
\* ObjectDisposedException.
THEOREM ProtectedShapesAreSafe ==
  ASSUME \A s \in Shapes : Protected(s)
  PROVE  Spec => [](DerefsLive /\ DisposedThrows)
<1>1. TypeOK /\ Init => IInv
  BY DEF Init, IInv, AliveWhileKept, FieldOk, BegunOk, Running
<1>2. TypeOK' /\ IInv /\ [Next]_vars => IInv'
  BY InvPreserved
<1>3. IInv => DerefsLive /\ DisposedThrows
  <2> SUFFICES ASSUME IInv PROVE DerefsLive /\ DisposedThrows
    OBVIOUS
  <2> USE ShapesAssumption DEF IInv, TypeOK, FieldOk, Running, Ended, Now
  <2>1. DerefsLive
    <3> SUFFICES ASSUME Running, ~Ended, Now \in Derefs PROVE native = "live"
      BY DEF DerefsLive
    <3>1. at > 1
      BY DEF Protected, Derefs
    <3>2. KeptAlive
      BY DEF Protected, KeptAlive
    <3> QED
      BY <3>1, <3>2 DEF AliveWhileKept
  <2>2. DisposedThrows
    BY DEF DisposedThrows, BegunOk
  <2> QED
    BY <2>1, <2>2
<1> QED
  BY TypeCorrect, <1>1, <1>2, <1>3, PTL DEF Spec

\* The members of Dogged that the run shapes_memory checks are protected.
THEOREM DisciplinedMembers ==
  \A s \in {NativeCall, LazyValue, ObjectIdOf, TreeIndexer, MoveNext} : Protected(s)
BY SMTT(30) DEF NativeCall, LazyValue, ObjectIdOf, TreeIndexer, MoveNext, Protected, Derefs, Touches

\* And the two forms that are not: the indexers of Index, which read the entry
\* after their last use of "this" (Index.cs:51, 58), and From and To of
\* RevisionSpec, which test the pointer before NotDisposed (RevisionSpec.cs:46).
THEOREM OtherMembers == ~Protected(IndexIndexer) /\ ~Protected(RevisionSpecFrom)
BY DEF IndexIndexer, RevisionSpecFrom, Protected, Derefs, Touches
===============================================================================
