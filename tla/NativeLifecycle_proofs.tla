------------------------ MODULE NativeLifecycle_proofs ------------------------
(***************************************************************************)
(* Proofs about NativeLifecycle for any set of threads and of wrappers.    *)
(***************************************************************************)
EXTENDS NativeLifecycle, TLAPS

\* The type invariant, for every number of threads and wrappers.
THEOREM TypeCorrect == Spec => []TypeOK
<1> USE FinalizerAssumption, NoWrapperAssumption DEF TypeOK, Actors, PCs
<1>1. Init => TypeOK
  BY DEF Init
<1>2. TypeOK /\ [Next]_vars => TypeOK'
  <2> SUFFICES ASSUME TypeOK, [Next]_vars PROVE TypeOK'
    OBVIOUS
  <2> USE DEF Goto, EnterLibrary, ExitLibrary
  <2>1. ASSUME NEW t \in Threads, NEW w \in Wrappers, Adopt(t, w) PROVE TypeOK'
    BY <2>1 DEF Adopt
  <2>2. ASSUME NEW t \in Threads, NEW u \in Threads, NEW w \in Wrappers, Share(t, u, w)
        PROVE  TypeOK'
    BY <2>2 DEF Share
  <2>3. ASSUME NEW t \in Threads, NEW w \in Wrappers, Drop(t, w) PROVE TypeOK'
    BY <2>3 DEF Drop
  <2>4. ASSUME NEW t \in Threads, NEW w \in Wrappers, BeginCall(t, w) PROVE TypeOK'
    BY <2>4 DEF BeginCall
  <2>5. ASSUME NEW t \in Threads, EnterNative(t) \/ ReturnFromNative(t) PROVE TypeOK'
    BY <2>5 DEF EnterNative, ReturnFromNative
  <2>6. ASSUME NEW t \in Threads, NEW w \in Wrappers, BeginDispose(t, w) PROVE TypeOK'
    BY <2>6 DEF BeginDispose
  <2>7. ASSUME NEW a \in Actors, DisposeStep(a) PROVE TypeOK'
    BY <2>7 DEF DisposeStep, FreeNative, AlreadyDisposed, ClearField
  <2>8. ASSUME NEW t \in Threads, SuppressFinalize(t) PROVE TypeOK'
    BY <2>8 DEF SuppressFinalize
  <2>9. ASSUME NEW w \in Wrappers, Collect(w) \/ Finalize(w) PROVE TypeOK'
    BY <2>9 DEF Collect, Finalize
  <2>10. CASE EndFinalize
    BY <2>10 DEF EndFinalize
  <2>11. CASE UNCHANGED vars
    BY <2>11 DEF vars
  <2> QED
    BY <2>1, <2>2, <2>3, <2>4, <2>5, <2>6, <2>7, <2>8, <2>9, <2>10, <2>11
    DEF Next, ThreadStep, RuntimeStep, LibraryStep, FinalizerStep
<1> QED
  BY <1>1, <1>2, PTL DEF Spec

-------------------------------------------------------------------------------
(* The inductive invariant: what relates the pointer field, the native     *)
(* object and the collector's view, at every point inside Dispose(bool).   *)

InDispose(a, w) == on[a] = w /\ pc[a] \in {"disposing", "clearing", "leaving"}

\* Being inside the library is being on some wrapper, at a point that belongs
\* to the actor: calls are made by threads only.
OnOk ==
  /\ \A a \in Actors : on[a] = NoWrapper <=> pc[a] = "idle"
  /\ pc[Finalizer] \notin {"checked", "native"}

\* The field tells whether the native object is there, except between the
\* free and the clearing.
FieldOk ==
  \A w \in Wrappers :
    /\ field[w] = "unborn" =>
         /\ native[w] = "none" /\ frees[w] = 0 /\ roots[w] = {}
         /\ gc[w] = "managed" /\ ~suppressed[w]
         /\ \A a \in Actors : on[a] # w
    /\ field[w] = "set" =>
         \/ native[w] = "live" /\ frees[w] = 0
         \/ \E a \in Actors : on[a] = w /\ pc[a] = "clearing"
    /\ field[w] = "null" => native[w] = "freed" /\ frees[w] = 1

StageOk ==
  \A a \in Actors, w \in Wrappers :
    /\ on[a] = w /\ pc[a] = "clearing" =>
         field[w] = "set" /\ native[w] = "freed" /\ frees[w] = 1
    /\ on[a] = w /\ pc[a] = "leaving" => field[w] = "null"
    /\ on[a] = w /\ pc[a] \in {"checked", "native"} =>
         field[w] = "set" /\ native[w] = "live"

\* Whoever is inside Dispose(bool) has the wrapper for itself.
Exclusive ==
  \A a \in Actors, w \in Wrappers : InDispose(a, w) =>
    /\ \A t \in roots[w] : t = a
    /\ \A b \in Actors : on[b] = w => b = a

\* Only the finalizer thread meets a wrapper the collector found unreachable.
CollectorOk ==
  \A w \in Wrappers :
    /\ gc[w] # "managed" => roots[w] = {} /\ \A t \in Threads : on[t] # w
    /\ on[Finalizer] = w <=> gc[w] = "finalizing"
    /\ suppressed[w] \/ gc[w] = "collected" => field[w] = "null"

IInv == TypeOK /\ OnOk /\ FieldOk /\ StageOk /\ Exclusive /\ CollectorOk

\* IInv is inductive.
THEOREM Inductive == Spec => []IInv
<1> USE FinalizerAssumption, NoWrapperAssumption DEF Actors
<1>1. Init => IInv
  BY DEF Init, IInv, TypeOK, OnOk, FieldOk, StageOk, Exclusive, InDispose,
         CollectorOk, PCs
<1>2. TypeOK' /\ IInv /\ [Next]_vars => IInv'
  <2> SUFFICES ASSUME TypeOK', IInv, [Next]_vars
               PROVE  OnOk' /\ FieldOk' /\ StageOk' /\ Exclusive' /\ CollectorOk'
    BY DEF IInv
  <2> DEFINE Goal == OnOk' /\ FieldOk' /\ StageOk' /\ Exclusive' /\ CollectorOk'
  <2>0. TypeOK /\ OnOk /\ FieldOk /\ StageOk /\ Exclusive /\ CollectorOk
    BY DEF IInv
  <2> USE <2>0 DEF TypeOK
  <2>1. ASSUME NEW t \in Threads, NEW w \in Wrappers, Adopt(t, w) PROVE Goal
    <3> USE <2>1 DEF Adopt
    <3>1. OnOk'
      BY DEF OnOk
    <3>2. FieldOk'
      BY DEF FieldOk, StageOk, OnOk, CollectorOk, Exclusive, InDispose
    <3>3. StageOk'
      BY DEF StageOk, FieldOk, OnOk, Exclusive, InDispose
    <3>4. Exclusive'
      <4> SUFFICES ASSUME NEW x \in Actors, NEW v \in Wrappers, InDispose(x, v)'
                   PROVE  /\ \A r \in roots'[v] : r = x
                          /\ \A b \in Actors : on'[b] = v => b = x
        BY DEF Exclusive
      <4> QED
        BY SMTT(30) DEF Exclusive, InDispose, FieldOk
    <3>5. CollectorOk'
      BY DEF CollectorOk, OnOk, FieldOk, StageOk
    <3> QED
      BY <3>1, <3>2, <3>3, <3>4, <3>5
  <2>2. ASSUME NEW t \in Threads, NEW u \in Threads, NEW w \in Wrappers, Share(t, u, w)
        PROVE  Goal
    <3> USE <2>2 DEF Share
    <3>1. OnOk'
      BY DEF OnOk
    <3>2. FieldOk'
      BY DEF FieldOk, StageOk, OnOk, CollectorOk, Exclusive, InDispose
    <3>3. StageOk'
      BY DEF StageOk, FieldOk, OnOk, Exclusive, InDispose
    <3>4. Exclusive'
      <4> SUFFICES ASSUME NEW x \in Actors, NEW v \in Wrappers, InDispose(x, v)'
                   PROVE  /\ \A r \in roots'[v] : r = x
                          /\ \A b \in Actors : on'[b] = v => b = x
        BY DEF Exclusive
      <4> QED
        BY DEF Exclusive, InDispose
    <3>5. CollectorOk'
      BY DEF CollectorOk, OnOk, FieldOk, StageOk
    <3> QED
      BY <3>1, <3>2, <3>3, <3>4, <3>5
  <2>3. ASSUME NEW t \in Threads, NEW w \in Wrappers, Drop(t, w) PROVE Goal
    <3> USE <2>3 DEF Drop
    <3>1. OnOk'
      BY DEF OnOk
    <3>2. FieldOk'
      BY DEF FieldOk, StageOk, OnOk, CollectorOk, Exclusive, InDispose
    <3>3. StageOk'
      BY DEF StageOk, FieldOk, OnOk, Exclusive, InDispose
    <3>4. Exclusive'
      <4> SUFFICES ASSUME NEW x \in Actors, NEW v \in Wrappers, InDispose(x, v)'
                   PROVE  /\ \A r \in roots'[v] : r = x
                          /\ \A b \in Actors : on'[b] = v => b = x
        BY DEF Exclusive
      <4>1. InDispose(x, v)
        BY DEF InDispose
      <4> QED
        BY <4>1 DEF Exclusive
    <3>5. CollectorOk'
      BY DEF CollectorOk, OnOk, FieldOk, StageOk
    <3> QED
      BY <3>1, <3>2, <3>3, <3>4, <3>5
  <2>4. ASSUME NEW t \in Threads, NEW w \in Wrappers, BeginCall(t, w) PROVE Goal
    <3> USE <2>4 DEF BeginCall, EnterLibrary, Goto
    <3>1. OnOk'
      BY DEF OnOk
    <3>2. FieldOk'
      BY DEF FieldOk, StageOk, OnOk, CollectorOk, Exclusive, InDispose
    <3>3. StageOk'
      <4>1. field[w] = "set"
        BY DEF FieldOk
      <4>2. native[w] = "live"
        BY <4>1 DEF FieldOk, Exclusive, InDispose
      <4> QED
        BY <4>1, <4>2 DEF StageOk
    <3>4. Exclusive'
      <4> SUFFICES ASSUME NEW x \in Actors, NEW v \in Wrappers, InDispose(x, v)'
                   PROVE  /\ \A r \in roots'[v] : r = x
                          /\ \A b \in Actors : on'[b] = v => b = x
        BY DEF Exclusive
      <4> QED
        BY DEF Exclusive, InDispose, OnOk
    <3>5. CollectorOk'
      BY DEF CollectorOk, OnOk, FieldOk, StageOk
    <3> QED
      BY <3>1, <3>2, <3>3, <3>4, <3>5
  <2>5. ASSUME NEW t \in Threads, EnterNative(t) PROVE Goal
    <3>0. on[t] \in Wrappers
      BY <2>5 DEF EnterNative, Goto, OnOk
    <3> USE <2>5, <3>0 DEF EnterNative, Goto
    <3>1. OnOk'
      BY DEF OnOk
    <3>2. FieldOk'
      BY DEF FieldOk, StageOk, OnOk, CollectorOk, Exclusive, InDispose
    <3>3. StageOk'
      BY DEF StageOk, FieldOk, OnOk, Exclusive, InDispose
    <3>4. Exclusive'
      <4> SUFFICES ASSUME NEW x \in Actors, NEW v \in Wrappers, InDispose(x, v)'
                   PROVE  /\ \A r \in roots'[v] : r = x
                          /\ \A b \in Actors : on'[b] = v => b = x
        BY DEF Exclusive
      <4>1. InDispose(x, v)
        BY DEF InDispose
      <4> QED
        BY <4>1 DEF Exclusive
    <3>5. CollectorOk'
      BY DEF CollectorOk, OnOk, FieldOk, StageOk
    <3> QED
      BY <3>1, <3>2, <3>3, <3>4, <3>5
  <2>6. ASSUME NEW t \in Threads, ReturnFromNative(t) PROVE Goal
    <3>0. on[t] \in Wrappers
      BY <2>6 DEF ReturnFromNative, ExitLibrary, Goto, OnOk
    <3> USE <2>6, <3>0 DEF ReturnFromNative, ExitLibrary, Goto
    <3>1. OnOk'
      BY DEF OnOk
    <3>2. FieldOk'
      BY DEF FieldOk, StageOk, OnOk, CollectorOk, Exclusive, InDispose
    <3>3. StageOk'
      BY DEF StageOk, FieldOk, OnOk, Exclusive, InDispose
    <3>4. Exclusive'
      <4> SUFFICES ASSUME NEW x \in Actors, NEW v \in Wrappers, InDispose(x, v)'
                   PROVE  /\ \A r \in roots'[v] : r = x
                          /\ \A b \in Actors : on'[b] = v => b = x
        BY DEF Exclusive
      <4>1. InDispose(x, v)
        BY DEF InDispose
      <4> QED
        BY <4>1 DEF Exclusive
    <3>5. CollectorOk'
      BY DEF CollectorOk, OnOk, FieldOk, StageOk
    <3> QED
      BY <3>1, <3>2, <3>3, <3>4, <3>5
  <2>7. ASSUME NEW t \in Threads, NEW w \in Wrappers, BeginDispose(t, w) PROVE Goal
    <3> USE <2>7 DEF BeginDispose, EnterLibrary, Goto
    <3>1. OnOk'
      BY DEF OnOk
    <3>2. FieldOk'
      BY SMTT(30) DEF FieldOk, OnOk
    <3>3. StageOk'
      BY DEF StageOk, FieldOk, OnOk, Exclusive, InDispose
    <3>4. Exclusive'
      <4> SUFFICES ASSUME NEW x \in Actors, NEW v \in Wrappers, InDispose(x, v)'
                   PROVE  /\ \A r \in roots'[v] : r = x
                          /\ \A b \in Actors : on'[b] = v => b = x
        BY DEF Exclusive
      <4> QED
        BY DEF Exclusive, InDispose
    <3>5. CollectorOk'
      BY DEF CollectorOk, OnOk, FieldOk, StageOk
    <3> QED
      BY <3>1, <3>2, <3>3, <3>4, <3>5
  <2>8. ASSUME NEW a \in Actors, FreeNative(a) PROVE Goal
    <3>0. on[a] \in Wrappers
      BY <2>8 DEF FreeNative, Goto, OnOk
    <3> USE <2>8, <3>0 DEF FreeNative, Goto
    <3>1. OnOk'
      BY DEF OnOk
    <3>2. FieldOk'
      BY DEF FieldOk, Exclusive, InDispose
    <3>3. StageOk'
      BY DEF StageOk, FieldOk, Exclusive, InDispose
    <3>4. Exclusive'
      <4> SUFFICES ASSUME NEW x \in Actors, NEW v \in Wrappers, InDispose(x, v)'
                   PROVE  /\ \A r \in roots'[v] : r = x
                          /\ \A b \in Actors : on'[b] = v => b = x
        BY DEF Exclusive
      <4>1. InDispose(x, v)
        BY DEF InDispose
      <4> QED
        BY <4>1 DEF Exclusive
    <3>5. CollectorOk'
      BY DEF CollectorOk
    <3> QED
      BY <3>1, <3>2, <3>3, <3>4, <3>5
  <2>9. ASSUME NEW a \in Actors, AlreadyDisposed(a) PROVE Goal
    <3>0. on[a] \in Wrappers
      BY <2>9 DEF AlreadyDisposed, Goto, OnOk
    <3> USE <2>9, <3>0 DEF AlreadyDisposed, Goto
    <3>1. OnOk'
      BY DEF OnOk
    <3>2. FieldOk'
      BY DEF FieldOk, StageOk, OnOk, CollectorOk, Exclusive, InDispose
    <3>3. StageOk'
      BY DEF StageOk, FieldOk, OnOk, Exclusive, InDispose
    <3>4. Exclusive'
      <4> SUFFICES ASSUME NEW x \in Actors, NEW v \in Wrappers, InDispose(x, v)'
                   PROVE  /\ \A r \in roots'[v] : r = x
                          /\ \A b \in Actors : on'[b] = v => b = x
        BY DEF Exclusive
      <4>1. InDispose(x, v)
        BY DEF InDispose
      <4> QED
        BY <4>1 DEF Exclusive
    <3>5. CollectorOk'
      BY DEF CollectorOk
    <3> QED
      BY <3>1, <3>2, <3>3, <3>4, <3>5
  <2>10. ASSUME NEW a \in Actors, ClearField(a) PROVE Goal
    <3>0. on[a] \in Wrappers
      BY <2>10 DEF ClearField, Goto, OnOk
    <3> USE <2>10, <3>0 DEF ClearField, Goto
    <3>1. OnOk'
      BY DEF OnOk
    <3>2. FieldOk'
      BY DEF FieldOk, StageOk, OnOk, CollectorOk, Exclusive, InDispose
    <3>3. StageOk'
      BY DEF StageOk, FieldOk, OnOk, Exclusive, InDispose
    <3>4. Exclusive'
      <4> SUFFICES ASSUME NEW x \in Actors, NEW v \in Wrappers, InDispose(x, v)'
                   PROVE  /\ \A r \in roots'[v] : r = x
                          /\ \A b \in Actors : on'[b] = v => b = x
        BY DEF Exclusive
      <4>1. InDispose(x, v)
        BY DEF InDispose
      <4> QED
        BY <4>1 DEF Exclusive
    <3>5. CollectorOk'
      BY DEF CollectorOk, OnOk, FieldOk, StageOk
    <3> QED
      BY <3>1, <3>2, <3>3, <3>4, <3>5
  <2>11. ASSUME NEW t \in Threads, SuppressFinalize(t) PROVE Goal
    <3>0. on[t] \in Wrappers
      BY <2>11 DEF SuppressFinalize, ExitLibrary, Goto, OnOk
    <3> USE <2>11, <3>0 DEF SuppressFinalize, ExitLibrary, Goto
    <3>1. OnOk'
      BY DEF OnOk
    <3>2. FieldOk'
      BY DEF FieldOk, StageOk, OnOk, CollectorOk, Exclusive, InDispose
    <3>3. StageOk'
      BY DEF StageOk, FieldOk, OnOk, Exclusive, InDispose
    <3>4. Exclusive'
      <4> SUFFICES ASSUME NEW x \in Actors, NEW v \in Wrappers, InDispose(x, v)'
                   PROVE  /\ \A r \in roots'[v] : r = x
                          /\ \A b \in Actors : on'[b] = v => b = x
        BY DEF Exclusive
      <4>1. InDispose(x, v)
        BY DEF InDispose
      <4> QED
        BY <4>1 DEF Exclusive
    <3>5. CollectorOk'
      BY DEF CollectorOk, OnOk, FieldOk, StageOk
    <3> QED
      BY <3>1, <3>2, <3>3, <3>4, <3>5
  <2>12. ASSUME NEW w \in Wrappers, Collect(w) PROVE Goal
    <3> USE <2>12 DEF Collect, Unreachable, KeptAlive
    <3>1. OnOk'
      BY DEF OnOk
    <3>2. FieldOk'
      BY DEF FieldOk
    <3>3. StageOk'
      BY DEF StageOk
    <3>4. Exclusive'
      <4> SUFFICES ASSUME NEW x \in Actors, NEW v \in Wrappers, InDispose(x, v)'
                   PROVE  /\ \A r \in roots'[v] : r = x
                          /\ \A b \in Actors : on'[b] = v => b = x
        BY DEF Exclusive
      <4>1. InDispose(x, v)
        BY DEF InDispose
      <4> QED
        BY <4>1 DEF Exclusive
    <3>5. CollectorOk'
      BY DEF CollectorOk, OnOk, PCs
    <3> QED
      BY <3>1, <3>2, <3>3, <3>4, <3>5
  <2>13. ASSUME NEW w \in Wrappers, Finalize(w) PROVE Goal
    <3> USE <2>13 DEF Finalize, EnterLibrary, Goto
    <3>1. OnOk'
      BY DEF OnOk
    <3>2. FieldOk'
      BY DEF FieldOk, StageOk, OnOk, CollectorOk, Exclusive, InDispose
    <3>3. StageOk'
      BY DEF StageOk, FieldOk, OnOk, Exclusive, InDispose
    <3>4. Exclusive'
      <4> SUFFICES ASSUME NEW x \in Actors, NEW v \in Wrappers, InDispose(x, v)'
                   PROVE  /\ \A r \in roots'[v] : r = x
                          /\ \A b \in Actors : on'[b] = v => b = x
        BY DEF Exclusive
      <4>1. CASE v = w
        <5>1. roots[w] = {} /\ \A r \in Threads : on'[r] # w
          BY DEF CollectorOk
        <5>2. x = Finalizer
          BY <4>1, <5>1 DEF InDispose
        <5> QED
          BY <4>1, <5>1, <5>2
      <4>2. CASE v # w
        <5>1. InDispose(x, v) /\ x # Finalizer
          BY <4>2 DEF InDispose
        <5> QED
          BY <5>1, <4>2 DEF Exclusive
      <4> QED
        BY <4>1, <4>2
    <3>5. CollectorOk'
      BY DEF CollectorOk, OnOk, FieldOk, StageOk
    <3> QED
      BY <3>1, <3>2, <3>3, <3>4, <3>5
  <2>14. CASE EndFinalize
    <3>0. on[Finalizer] \in Wrappers
      BY <2>14 DEF EndFinalize, ExitLibrary, Goto, OnOk
    <3> USE <2>14, <3>0 DEF EndFinalize, ExitLibrary, Goto
    <3>1. OnOk'
      BY DEF OnOk
    <3>2. FieldOk'
      BY DEF FieldOk, StageOk, OnOk, CollectorOk, Exclusive, InDispose
    <3>3. StageOk'
      BY DEF StageOk, FieldOk, OnOk, Exclusive, InDispose
    <3>4. Exclusive'
      <4> SUFFICES ASSUME NEW x \in Actors, NEW v \in Wrappers, InDispose(x, v)'
                   PROVE  /\ \A r \in roots'[v] : r = x
                          /\ \A b \in Actors : on'[b] = v => b = x
        BY DEF Exclusive
      <4>1. InDispose(x, v)
        BY DEF InDispose
      <4> QED
        BY <4>1 DEF Exclusive
    <3>5. CollectorOk'
      BY DEF CollectorOk, OnOk, FieldOk, StageOk
    <3> QED
      BY <3>1, <3>2, <3>3, <3>4, <3>5
  <2>15. CASE UNCHANGED vars
    BY <2>15 DEF vars, OnOk, FieldOk, StageOk, Exclusive, InDispose, CollectorOk
  <2> QED
    BY <2>1, <2>2, <2>3, <2>4, <2>5, <2>6, <2>7, <2>8, <2>9, <2>10, <2>11,
       <2>12, <2>13, <2>14, <2>15
    DEF Next, ThreadStep, RuntimeStep, LibraryStep, FinalizerStep, DisposeStep
<1> QED
  BY TypeCorrect, <1>1, <1>2, PTL DEF Spec

-------------------------------------------------------------------------------
\* No native object is freed twice, whoever disposes and whenever the
\* collector runs (Dispose(bool) of every wrapper class).
THEOREM FreedAtMostOnce == Spec => []NoDoubleFree
<1>1. IInv => NoDoubleFree
  BY DEF IInv, TypeOK, FieldOk, StageOk, NoDoubleFree
<1> QED
  BY Inductive, <1>1, PTL

\* Every native function runs on an object that is live for the whole call
\* (Ensure.NativeCall with its GC.KeepAlive).
THEOREM CallsSeeLiveObjects == Spec => []NoUseAfterFree
<1>1. IInv => NoUseAfterFree
  BY DEF IInv, StageOk, NoUseAfterFree, InNative
<1> QED
  BY Inductive, <1>1, PTL

\* After Dispose() returned, no call is past its NotDisposed test.
THEOREM DisposeEndsCalls == Spec => []NoCallAfterDispose
<1>1. IInv => NoCallAfterDispose
  BY DEF IInv, StageOk, CollectorOk, NoCallAfterDispose
<1> QED
  BY Inductive, <1>1, PTL

\* A reclaimed wrapper has freed its native object.
THEOREM ReclaimedIsFreed == Spec => []NothingLeaked
<1>1. IInv => NothingLeaked
  BY DEF IInv, FieldOk, CollectorOk, NothingLeaked
<1> QED
  BY Inductive, <1>1, PTL

\* NativeLifecycle implements NativeHandle: the wrappers, the collector and
\* the finalizer thread together never do more than the abstract handle may.
THEOREM Implementation == Spec => ImplementsHandle
<1> DEFINE inside == [w \in Wrappers |-> {a \in Actors : InNative(a, w)}]
<1>1. Init => Handle!Init
  BY DEF Init, Handle!Init, InNative, Actors
<1>2. IInv /\ IInv' /\ [Next]_vars => [Handle!Next]_(Handle!vars)
  <2> SUFFICES ASSUME IInv, IInv', [Next]_vars
               PROVE  Handle!Next \/ UNCHANGED <<native, inside>>
    BY DEF Handle!vars
  <2> USE DEF InNative, Actors
  <2>0. TypeOK /\ OnOk /\ FieldOk /\ StageOk /\ Exclusive
    BY DEF IInv
  <2> USE <2>0 DEF TypeOK
  <2>2. ASSUME native' = native,
               \A a \in Actors : \/ on'[a] = on[a] /\ pc'[a] = pc[a]
                                 \/ pc'[a] # "native" /\ pc[a] # "native"
        PROVE  UNCHANGED <<native, inside>>
    BY <2>2
  <2>3. ASSUME NEW t \in Threads, NEW w \in Wrappers, Adopt(t, w) PROVE Handle!Acquire(w)
    BY <2>3, NoWrapperAssumption DEF Adopt, Handle!Acquire, FieldOk
  <2>4. ASSUME NEW t \in Threads, NEW w \in Wrappers, on[t] = w, EnterNative(t)
        PROVE  Handle!Enter(t, w)
    <3>1. native[w] = "live" /\ t \notin inside[w] /\ native' = native
      BY <2>4 DEF EnterNative, StageOk
    <3>2. inside' = [inside EXCEPT ![w] = @ \cup {t}]
      <4>1. ASSUME NEW v \in Wrappers
            PROVE  inside'[v] = [inside EXCEPT ![w] = @ \cup {t}][v]
        BY <2>4 DEF EnterNative, Goto
      <4> QED
        BY <4>1
    <3> QED
      BY <3>1, <3>2 DEF Handle!Enter
  <2>5. ASSUME NEW t \in Threads, NEW w \in Wrappers, on[t] = w, ReturnFromNative(t)
        PROVE  Handle!Leave(t, w)
    <3>1. t \in inside[w] /\ native' = native
      BY <2>5 DEF ReturnFromNative
    <3>2. inside' = [inside EXCEPT ![w] = @ \ {t}]
      <4>1. ASSUME NEW v \in Wrappers
            PROVE  inside'[v] = [inside EXCEPT ![w] = @ \ {t}][v]
        BY <2>5, NoWrapperAssumption DEF ReturnFromNative, ExitLibrary, Goto
      <4> QED
        BY <4>1
    <3> QED
      BY <3>1, <3>2 DEF Handle!Leave
  <2>6. ASSUME NEW a \in Actors, NEW w \in Wrappers, on[a] = w, FreeNative(a)
        PROVE  Handle!Release(w)
    <3>1. native[w] = "live"
      <4>1. field[w] = "set"
        BY <2>6 DEF FreeNative, FieldOk
      <4> QED
        BY <2>6, <4>1 DEF FreeNative, FieldOk, Exclusive, InDispose
    <3>2. inside[w] = {}
      BY <2>6 DEF FreeNative, Exclusive, InDispose
    <3>3. native' = [native EXCEPT ![w] = "freed"] /\ inside' = inside
      BY <2>6 DEF FreeNative, Goto
    <3> QED
      BY <3>1, <3>2, <3>3 DEF Handle!Release
  <2>7. ASSUME NEW t \in Threads, NEW w \in Wrappers,
               \/ Drop(t, w) \/ BeginCall(t, w) \/ BeginDispose(t, w)
               \/ \E u \in Threads : Share(t, u, w)
        PROVE  UNCHANGED <<native, inside>>
    BY <2>7, <2>2 DEF Drop, BeginCall, BeginDispose, Share, EnterLibrary, Goto
  <2>8. ASSUME NEW a \in Actors,
               \/ AlreadyDisposed(a) \/ ClearField(a)
               \/ a \in Threads /\ SuppressFinalize(a)
        PROVE  UNCHANGED <<native, inside>>
    BY <2>8, <2>2 DEF AlreadyDisposed, ClearField, SuppressFinalize, ExitLibrary, Goto
  <2>9. ASSUME NEW w \in Wrappers, Collect(w) \/ Finalize(w)
        PROVE  UNCHANGED <<native, inside>>
    BY <2>9, <2>2 DEF Collect, Finalize, EnterLibrary, Goto
  <2>10. CASE EndFinalize
    BY <2>10, <2>2 DEF EndFinalize, ExitLibrary, Goto
  <2>11. CASE UNCHANGED vars
    BY <2>11 DEF vars
  <2>12. \A a \in Actors : pc[a] # "idle" => on[a] \in Wrappers
    BY DEF OnOk
  <2>13. ASSUME NEW a \in Actors, FreeNative(a) PROVE Handle!Next
    <3>1. PICK w \in Wrappers : w = on[a]
      BY <2>12, <2>13 DEF FreeNative
    <3> QED
      BY <3>1, <2>6, <2>13 DEF Handle!Next
  <2>14. \A t \in Threads : ThreadStep(t) => Handle!Next \/ UNCHANGED <<native, inside>>
    <3> SUFFICES ASSUME NEW t \in Threads, ThreadStep(t)
                 PROVE  Handle!Next \/ UNCHANGED <<native, inside>>
      OBVIOUS
    <3>1. CASE \E w \in Wrappers : Adopt(t, w)
      BY <3>1, <2>3 DEF Handle!Next
    <3>2. CASE EnterNative(t) \/ ReturnFromNative(t)
      <4>1. PICK w \in Wrappers : w = on[t]
        BY <3>2, <2>12 DEF EnterNative, ReturnFromNative
      <4>2. Handle!Enter(t, w) \/ Handle!Leave(t, w)
        BY <3>2, <4>1, <2>4, <2>5
      <4>3. t \in Actors
        OBVIOUS
      <4> QED
        BY <4>2, <4>3 DEF Handle!Next
    <3>3. CASE AlreadyDisposed(t) \/ ClearField(t) \/ SuppressFinalize(t)
      BY <3>3, <2>8
    <3>4. CASE \E w \in Wrappers : \/ Drop(t, w) \/ BeginCall(t, w) \/ BeginDispose(t, w)
                                   \/ \E u \in Threads : Share(t, u, w)
      BY <3>4, <2>7
    <3> QED
      BY <3>1, <3>2, <3>3, <3>4, <2>13 DEF ThreadStep, LibraryStep, DisposeStep
  <2>15. RuntimeStep => Handle!Next \/ UNCHANGED <<native, inside>>
    BY <2>8, <2>9, <2>10, <2>13 DEF RuntimeStep, FinalizerStep, DisposeStep
  <2> QED
    BY <2>11, <2>14, <2>15 DEF Next
<1> QED
  BY Inductive, <1>1, <1>2, PTL DEF Spec, ImplementsHandle, Handle!Spec
===============================================================================
