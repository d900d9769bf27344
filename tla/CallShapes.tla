------------------------------ MODULE CallShapes ------------------------------
(***************************************************************************)
(* How the methods of the wrapper classes use the native pointer of "this".*)
(* NativeLifecycle shows that Ensure.NativeCall is safe; many members do   *)
(* not go through it, or use native memory after it has returned.  Here a  *)
(* member is its SHAPE: the order in which it                              *)
(*                                                                         *)
(*   check   calls Ensure.NotDisposed                                      *)
(*   ifnull  returns null when the pointer field is null                   *)
(*   field   reads the pointer field                                       *)
(*   native  calls a native function on the pointer it read                *)
(*   read    reads memory that the native object owns                      *)
(*   this    uses "this" otherwise: GC.KeepAlive, a store to a field of    *)
(*           this, handing this to a constructor                           *)
(*                                                                         *)
(* A member keeps its wrapper alive only until its last use of "this"; the *)
(* caller may have forgotten the wrapper as soon as the member runs.       *)
(***************************************************************************)
EXTENDS Naturals, Sequences

CONSTANT Shapes      \* the shapes of the members the application calls

Steps == {"check", "ifnull", "field", "native", "read", "this"}

ASSUME ShapesAssumption == Shapes \subseteq Seq(Steps) \ {<<>>}

-------------------------------------------------------------------------------
(* The shapes of Dogged.                                                   *)

\* Mutant: Ensure.NativeCall without GC.KeepAlive.
NativeCallForgets == <<"check", "field", "native">>

\* Ensure.NativeCall on a function of the wrapper's own pointer.
NativeCall == <<"check", "field", "native", "this">>

\* LazyNative.Value: its own NotDisposed, then NativeCall of a factory that
\* copies a string, an id or a signature out of native memory.
LazyValue == <<"check", "check", "field", "native", "read", "this">>

\* GitObject.Id: the copied id is stored into this.id.
ObjectIdOf == <<"check", "field", "native", "read", "this">>

\* Tree[position] and Tree[name]: the entry is handed out with its tree.
TreeIndexer == <<"check", "field", "native", "this", "this">>

\* IndexEnumerator.MoveNext: NativeCall, then the entry is copied into
\* this.current.
MoveNext == <<"check", "field", "native", "this", "read", "this">>

\* Index[position] and Index[path, stage]: GC.KeepAlive(this), then the entry,
\* which belongs to the index, is copied.
IndexIndexer == <<"check", "field", "native", "this", "read">>

\* RevisionSpec.From and RevisionSpec.To.
RevisionSpecFrom == <<"ifnull", "check", "field", "native", "this">>

-------------------------------------------------------------------------------
VARIABLES
  shape,   \* the shape of the member that runs or has run last, <<>> at first
  at,      \* its next step, 0 when no member is running
  held,    \* the application still has a variable that refers to the wrapper
  field,   \* the wrapper's pointer field: "set" or "null"
  native,  \* the native object: "live" or "freed"
  begun,   \* was the wrapper disposed when the member began?
  result   \* how the last member ended: "none", "returned", "threw"

vars == <<shape, at, held, field, native, begun, result>>

Running == at > 0
Ended == at > Len(shape)
Now == shape[at]

TypeOK ==
  /\ shape \in Shapes \cup {<<>>}
  /\ at \in 0..(Len(shape) + 1)
  /\ held \in BOOLEAN
  /\ field \in {"set", "null"}
  /\ native \in {"live", "freed"}
  /\ begun \in BOOLEAN
  /\ result \in {"none", "returned", "threw"}

Init ==
  /\ shape = <<>>
  /\ at = 0
  /\ held = TRUE
  /\ field = "set"
  /\ native = "live"
  /\ begun = FALSE
  /\ result = "none"

\* Steps that refer to "this", so that the wrapper is alive up to them.
Touches == {"check", "ifnull", "field", "this"}

\* Steps that use native memory.
Derefs == {"native", "read"}

Begin(s) ==
  /\ ~Running /\ held
  /\ shape' = s
  /\ at' = 1
  /\ begun' = (field = "null")
  /\ UNCHANGED <<held, field, native, result>>

End(r) ==
  /\ at' = 0
  /\ result' = r
  /\ UNCHANGED <<shape, held, field, native, begun>>

Advance == at' = at + 1 /\ UNCHANGED <<shape, held, field, native, begun, result>>

\* Ensure.NotDisposed finds a null pointer field: ObjectDisposedException.
ThrowDisposed == Running /\ ~Ended /\ Now = "check" /\ field = "null" /\ End("threw")

ReturnNull == Running /\ ~Ended /\ Now = "ifnull" /\ field = "null" /\ End("returned")

Step ==
  /\ Running /\ ~Ended
  /\ Now \in {"check", "ifnull"} => field = "set"
  /\ Advance

Return == Running /\ Ended /\ End("returned")

Forget == held /\ held' = FALSE /\ UNCHANGED <<shape, at, field, native, begun, result>>

Dispose ==
  /\ ~Running /\ held
  /\ field' = "null"
  /\ native' = "freed"
  /\ UNCHANGED <<shape, at, held, begun, result>>

KeptAlive == \E j \in at..Len(shape) : shape[j] \in Touches

\* The collector found the wrapper unreachable and its finalizer ran.
Finalize ==
  /\ ~held
  /\ ~(Running /\ KeptAlive)
  /\ field' = "null"
  /\ native' = "freed"
  /\ UNCHANGED <<shape, at, held, begun, result>>

Next ==
  \/ \E s \in Shapes : Begin(s)
  \/ Step \/ ThrowDisposed \/ ReturnNull \/ Return
  \/ Forget \/ Dispose \/ Finalize

Spec == Init /\ [][Next]_vars

-------------------------------------------------------------------------------
\* Native memory is only used while the native object is there: it was neither
\* disposed of before nor finalized under the running member.
DerefsLive == Running /\ ~Ended /\ Now \in Derefs => native = "live"

\* A member called on a disposed wrapper throws ObjectDisposedException: it
\* never returns.
DisposedThrows == ~Running /\ begun => result = "threw"

-------------------------------------------------------------------------------
\* What makes a shape safe: it begins with NotDisposed, and uses "this" again
\* after its last use of native memory.
Protected(s) ==
  /\ s # <<>> /\ s[1] = "check"
  /\ \A i \in 1..Len(s) : s[i] \in Derefs => \E j \in i..Len(s) : s[j] \in Touches
===============================================================================
