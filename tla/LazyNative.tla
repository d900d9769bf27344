------------------------------ MODULE LazyNative ------------------------------
(***************************************************************************)
(* LazyNative<T>.Value: a value that is read out of native memory on first *)
(* use and cached next to a hasValue flag.  There is no lock: threads that *)
(* share a wrapper may read the same property at the same time.            *)
(*                                                                         *)
(* Every run of the factory makes a fresh managed object; it is numbered.  *)
(* pc[t] is where thread t is in the getter:                               *)
(*                                                                         *)
(*   idle     not in it          store    the factory has returned         *)
(*   test     before "if (!hasValue)"                                      *)
(*   factory  in NativeCall      publish  value stored, hasValue is next   *)
(*   read     before "return value"                                        *)
(*   late     hasValue stored, value not yet visible to the others         *)
(*                                                                         *)
(* value and hasValue are plain fields.  Where the processor keeps stores  *)
(* in order (x64) value is visible before hasValue is; where it does not   *)
(* (arm64, a build the native package has), either order is possible.      *)
(***************************************************************************)
EXTENDS Naturals

CONSTANTS
  Threads,
  MaxMade         \* bound on the runs of the factory

ASSUME MaxMadeAssumption == MaxMade \in Nat

VARIABLES
  reorders,   \* may this processor make the two stores visible out of order?
  value,      \* the cached value, 0 for default(T)
  hasValue,
  disposed,   \* the wrapper was disposed
  made,       \* how many values the factory has made
  pc,
  mine,       \* mine[t]: the value t's run of the factory made
  warm,       \* warm[t]: a getter had returned a value before t's began
  served      \* what getters returned, and whether the wrapper was disposed

vars == <<reorders, value, hasValue, disposed, made, pc, mine, warm, served>>

Init ==
  /\ reorders \in BOOLEAN
  /\ value = 0 /\ hasValue = FALSE
  /\ disposed = FALSE
  /\ made = 0
  /\ pc = [t \in Threads |-> "idle"]
  /\ mine = [t \in Threads |-> 0]
  /\ warm = [t \in Threads |-> FALSE]
  /\ served = {}

Goto(t, l) == pc' = [pc EXCEPT ![t] = l]

-------------------------------------------------------------------------------

\* NotDisposed passes; when it throws nothing changes.
Begin(t) ==
  /\ pc[t] = "idle"
  /\ ~disposed
  /\ Goto(t, "test")
  /\ warm' = [warm EXCEPT ![t] = served # {}]
  /\ UNCHANGED <<reorders, value, hasValue, disposed, made, mine, served>>

Hit(t) ==
  /\ pc[t] = "test" /\ hasValue
  /\ Goto(t, "read")
  /\ UNCHANGED <<reorders, value, hasValue, disposed, made, mine, warm, served>>

\* NativeCall's own NotDisposed passes as well: nobody disposes of a wrapper
\* that another thread is using.
Miss(t) ==
  /\ pc[t] = "test" /\ ~hasValue
  /\ Goto(t, "factory")
  /\ UNCHANGED <<reorders, value, hasValue, disposed, made, mine, warm, served>>

FactoryReturns(t) ==
  /\ pc[t] = "factory"
  /\ made < MaxMade
  /\ made' = made + 1
  /\ mine' = [mine EXCEPT ![t] = made + 1]
  /\ Goto(t, "store")
  /\ UNCHANGED <<reorders, value, hasValue, disposed, warm, served>>

\* Mutant: a factory that throws leaves hasValue set.
FailureCached(t) ==
  /\ pc[t] = "factory"
  /\ hasValue' = TRUE
  /\ Goto(t, "idle")
  /\ UNCHANGED <<reorders, value, disposed, made, mine, warm, served>>

\* NativePointerNotNull, NativeObjectNotNull, EnumDefined or a cast throws.
FactoryThrows(t) ==
  /\ pc[t] = "factory"
  /\ Goto(t, "idle")
  /\ UNCHANGED <<reorders, value, hasValue, disposed, made, mine, warm, served>>

StoreValue(t) ==
  /\ pc[t] = "store"
  /\ value' = mine[t]
  /\ Goto(t, "publish")
  /\ UNCHANGED <<reorders, hasValue, disposed, made, mine, warm, served>>

\* Mutant: hasValue is never set.
PublishForgotten(t) ==
  /\ pc[t] = "publish"
  /\ Goto(t, "read")
  /\ UNCHANGED <<reorders, value, hasValue, disposed, made, mine, warm, served>>

Publish(t) ==
  /\ pc[t] = "publish"
  /\ hasValue' = TRUE
  /\ Goto(t, "read")
  /\ UNCHANGED <<reorders, value, disposed, made, mine, warm, served>>

\* Mutant: hasValue is set before value in the source.
FlagFirst(t) ==
  /\ pc[t] = "store"
  /\ hasValue' = TRUE
  /\ Goto(t, "late")
  /\ UNCHANGED <<reorders, value, disposed, made, mine, warm, served>>

\* The processor makes hasValue visible first.
PublishEarly(t) ==
  /\ pc[t] = "store" /\ reorders
  /\ hasValue' = TRUE
  /\ Goto(t, "late")
  /\ UNCHANGED <<reorders, value, disposed, made, mine, warm, served>>

StoreLate(t) ==
  /\ pc[t] = "late"
  /\ value' = mine[t]
  /\ Goto(t, "read")
  /\ UNCHANGED <<reorders, hasValue, disposed, made, mine, warm, served>>

Return(t) ==
  /\ pc[t] = "read"
  /\ served' = served \cup {[value |-> value, disposed |-> disposed]}
  /\ Goto(t, "idle")
  /\ UNCHANGED <<reorders, value, hasValue, disposed, made, mine, warm>>

Dispose ==
  /\ \A t \in Threads : pc[t] = "idle"
  /\ disposed' = TRUE
  /\ UNCHANGED <<reorders, value, hasValue, made, pc, mine, warm, served>>

GetterStep(t) ==
  \/ Begin(t) \/ Hit(t) \/ Miss(t)
  \/ FactoryReturns(t) \/ FactoryThrows(t)
  \/ StoreValue(t) \/ Publish(t) \/ PublishEarly(t) \/ StoreLate(t)
  \/ Return(t)

Next == Dispose \/ \E t \in Threads : GetterStep(t)

Spec == Init /\ [][Next]_vars

-------------------------------------------------------------------------------
\* What a getter returns was made by the factory, never default(T), although
\* another thread may be between its two stores (LazyNative.cs:48-49), if the
\* processor keeps stores in order.
ServesMadeValues == ~reorders => \A s \in served : s.value # 0

\* "Subsequent values will be returned without invoking the factory": a getter
\* that begins after another one has returned never runs the factory.
RunsFactoryOnlyCold ==
  \A t \in Threads : pc[t] \in {"factory", "store", "publish", "late"} => ~warm[t]

\* A failed factory leaves nothing behind: once everybody is out of the getter
\* a set flag comes with a value.
FlagMeansValue == (\A t \in Threads : pc[t] = "idle") => (hasValue => value # 0)

===============================================================================
