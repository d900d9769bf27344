---------------------------- MODULE NativeLifecycle ----------------------------
(***************************************************************************)
(* The life of the managed wrappers of Dogged and of the native objects    *)
(* they own: NativeDisposable (Dispose, the finalizer), the Dispose(bool)  *)
(* that Repository, GitObject, Reference, Index, ObjectDatabase and the    *)
(* enumerators share, Ensure.NativeCall, the garbage collector and its     *)
(* finalizer thread.                                                       *)
(*                                                                         *)
(* One actor is one thread.  pc[a] is where actor a is inside the library: *)
(*                                                                         *)
(*   idle       in the application (or, the finalizer thread, waiting)     *)
(*   checked    in NativeCall, after NotDisposed                           *)
(*   native     in NativeCall, inside the native function                  *)
(*   disposing  in Dispose(bool), before the test of the pointer field     *)
(*   clearing   in Dispose(bool), between the native free and "= null"     *)
(*   leaving    Dispose(bool) has returned; SuppressFinalize is next       *)
(*                                                                         *)
(* NotDisposed throwing ObjectDisposedException changes nothing that is    *)
(* modelled, so a call on a disposed wrapper is a stuttering step.         *)
(***************************************************************************)
EXTENDS Naturals

CONSTANTS Threads,    \* the application's threads
          Finalizer,  \* the runtime's finalizer thread
          Wrappers,   \* the wrappers the application ever obtains
          NoWrapper   \* "not inside the library"

ASSUME FinalizerAssumption == Finalizer \notin Threads
ASSUME NoWrapperAssumption == NoWrapper \notin Wrappers

Actors == Threads \cup {Finalizer}

VARIABLES
  field,       \* field[w]: the wrapper's pointer field, "unborn", "set" or "null"
  native,      \* native[w]: the native object, "none", "live" or "freed"
  frees,       \* frees[w]: how often the native object was given to git_*_free
  roots,       \* roots[w]: the threads with a variable that refers to w
  suppressed,  \* suppressed[w]: GC.SuppressFinalize(w) was called
  gc,          \* gc[w]: "managed", "queued", "finalizing" or "collected"
  pc,          \* pc[a]: see above
  on           \* on[a]: the wrapper whose method a is in, or NoWrapper

vars == <<field, native, frees, roots, suppressed, gc, pc, on>>

PCs == {"idle", "checked", "native", "disposing", "clearing", "leaving"}

TypeOK ==
  /\ field \in [Wrappers -> {"unborn", "set", "null"}]
  /\ native \in [Wrappers -> {"none", "live", "freed"}]
  /\ frees \in [Wrappers -> Nat]
  /\ roots \in [Wrappers -> SUBSET Threads]
  /\ suppressed \in [Wrappers -> BOOLEAN]
  /\ gc \in [Wrappers -> {"managed", "queued", "finalizing", "collected"}]
  /\ pc \in [Actors -> PCs]
  /\ on \in [Actors -> Wrappers \cup {NoWrapper}]

Init ==
  /\ field = [w \in Wrappers |-> "unborn"]
  /\ native = [w \in Wrappers |-> "none"]
  /\ frees = [w \in Wrappers |-> 0]
  /\ roots = [w \in Wrappers |-> {}]
  /\ suppressed = [w \in Wrappers |-> FALSE]
  /\ gc = [w \in Wrappers |-> "managed"]
  /\ pc = [a \in Actors |-> "idle"]
  /\ on = [a \in Actors |-> NoWrapper]

Goto(a, l) == pc' = [pc EXCEPT ![a] = l]

EnterLibrary(a, w, l) == Goto(a, l) /\ on' = [on EXCEPT ![a] = w]

ExitLibrary(a) == Goto(a, "idle") /\ on' = [on EXCEPT ![a] = NoWrapper]

-------------------------------------------------------------------------------
(* The application: obtaining, passing on and forgetting wrappers.         *)

\* A native function returned a new object through its out parameter and the
\* FromNative of its class wrapped it.
Adopt(t, w) ==
  /\ pc[t] = "idle"
  /\ field[w] = "unborn"
  /\ field' = [field EXCEPT ![w] = "set"]
  /\ native' = [native EXCEPT ![w] = "live"]
  /\ roots' = [roots EXCEPT ![w] = {t}]
  /\ UNCHANGED <<frees, suppressed, gc, pc, on>>

Share(t, u, w) ==
  /\ pc[t] = "idle"
  /\ t \in roots[w]
  /\ u \notin roots[w]
  /\ roots' = [roots EXCEPT ![w] = @ \cup {u}]
  /\ UNCHANGED <<field, native, frees, suppressed, gc, pc, on>>

\* The last use of a variable ends its lifetime as a root, also while the
\* method called through it is still running.
Drop(t, w) ==
  /\ t \in roots[w]
  /\ roots' = [roots EXCEPT ![w] = @ \ {t}]
  /\ UNCHANGED <<field, native, frees, suppressed, gc, pc, on>>

-------------------------------------------------------------------------------
(* Ensure.NativeCall: NotDisposed; call(); GC.KeepAlive.                   *)

\* Mutant: NativeCall without NotDisposed.
BeginCallUnchecked(t, w) ==
  /\ pc[t] = "idle"
  /\ t \in roots[w]
  /\ EnterLibrary(t, w, "checked")
  /\ UNCHANGED <<field, native, frees, roots, suppressed, gc>>

BeginCall(t, w) ==
  /\ pc[t] = "idle"
  /\ t \in roots[w]
  /\ field[w] # "null"
  /\ EnterLibrary(t, w, "checked")
  /\ UNCHANGED <<field, native, frees, roots, suppressed, gc>>

EnterNative(t) ==
  /\ pc[t] = "checked"
  /\ Goto(t, "native")
  /\ UNCHANGED <<field, native, frees, roots, suppressed, gc, on>>

ReturnFromNative(t) ==
  /\ pc[t] = "native"
  /\ ExitLibrary(t)
  /\ UNCHANGED <<field, native, frees, roots, suppressed, gc>>

-------------------------------------------------------------------------------
(* Dispose(bool), run by a thread (Dispose()) or by the finalizer thread.  *)

\* Dispose() asks of the application what every IDisposable does: no other
\* thread uses the wrapper any more.
BeginDispose(t, w) ==
  /\ pc[t] = "idle"
  /\ roots[w] = {t}
  /\ \A a \in Actors : on[a] # w
  /\ EnterLibrary(t, w, "disposing")
  /\ UNCHANGED <<field, native, frees, roots, suppressed, gc>>

FreeNative(a) ==
  /\ pc[a] = "disposing"
  /\ field[on[a]] # "null"
  /\ native' = [native EXCEPT ![on[a]] = "freed"]
  /\ frees' = [frees EXCEPT ![on[a]] = @ + 1]
  /\ Goto(a, "clearing")
  /\ UNCHANGED <<field, roots, suppressed, gc, on>>

\* Mutant: Dispose(bool) frees only "if (disposing)".
SkippedByFinalizer(a) ==
  /\ pc[a] = "disposing"
  /\ field[on[a]] = "null" \/ a = Finalizer
  /\ Goto(a, "leaving")
  /\ UNCHANGED <<field, native, frees, roots, suppressed, gc, on>>

AlreadyDisposed(a) ==
  /\ pc[a] = "disposing"
  /\ field[on[a]] = "null"
  /\ Goto(a, "leaving")
  /\ UNCHANGED <<field, native, frees, roots, suppressed, gc, on>>

\* Mutant: the field is not set to null after the free.
FieldNotCleared(a) ==
  /\ pc[a] = "clearing"
  /\ Goto(a, "leaving")
  /\ UNCHANGED <<field, native, frees, roots, suppressed, gc, on>>

ClearField(a) ==
  /\ pc[a] = "clearing"
  /\ field' = [field EXCEPT ![on[a]] = "null"]
  /\ Goto(a, "leaving")
  /\ UNCHANGED <<native, frees, roots, suppressed, gc, on>>

\* Dispose() ends with GC.SuppressFinalize(this).
SuppressFinalize(t) ==
  /\ pc[t] = "leaving"
  /\ suppressed' = [suppressed EXCEPT ![on[t]] = TRUE]
  /\ ExitLibrary(t)
  /\ UNCHANGED <<field, native, frees, roots, gc>>

-------------------------------------------------------------------------------
(* The garbage collector and the finalizer thread.                         *)

\* Mutant: NativeCall without GC.KeepAlive.
NotKeptAlive == {"checked", "disposing", "clearing", "leaving"}

\* Where an actor's stack still roots the wrapper whose method it is in: up
\* to the KeepAlive of NativeCall, up to the SuppressFinalize of Dispose.
KeptAlive == {"checked", "native", "disposing", "clearing", "leaving"}

Unreachable(w) ==
  /\ roots[w] = {}
  /\ \A a \in Actors : ~(on[a] = w /\ pc[a] \in KeptAlive)

Collect(w) ==
  /\ gc[w] = "managed"
  /\ field[w] # "unborn"
  /\ Unreachable(w)
  /\ gc' = [gc EXCEPT ![w] = IF suppressed[w] THEN "collected" ELSE "queued"]
  /\ UNCHANGED <<field, native, frees, roots, suppressed, pc, on>>

\* Mutant: the finalizer does not call Dispose(false).
FinalizeNothing(w) ==
  /\ pc[Finalizer] = "idle"
  /\ gc[w] = "queued"
  /\ gc' = [gc EXCEPT ![w] = "collected"]
  /\ UNCHANGED <<field, native, frees, roots, suppressed, pc, on>>

Finalize(w) ==
  /\ pc[Finalizer] = "idle"
  /\ gc[w] = "queued"
  /\ gc' = [gc EXCEPT ![w] = "finalizing"]
  /\ EnterLibrary(Finalizer, w, "disposing")
  /\ UNCHANGED <<field, native, frees, roots, suppressed>>

EndFinalize ==
  /\ pc[Finalizer] = "leaving"
  /\ gc' = [gc EXCEPT ![on[Finalizer]] = "collected"]
  /\ ExitLibrary(Finalizer)
  /\ UNCHANGED <<field, native, frees, roots, suppressed>>

-------------------------------------------------------------------------------
DisposeStep(a) == FreeNative(a) \/ AlreadyDisposed(a) \/ ClearField(a)

LibraryStep(t) ==
  EnterNative(t) \/ ReturnFromNative(t) \/ DisposeStep(t) \/ SuppressFinalize(t)

FinalizerStep == DisposeStep(Finalizer) \/ EndFinalize

ThreadStep(t) ==
  \/ LibraryStep(t)
  \/ \E w \in Wrappers : \/ Adopt(t, w) \/ Drop(t, w)
                         \/ BeginCall(t, w) \/ BeginDispose(t, w)
                         \/ \E u \in Threads : Share(t, u, w)

RuntimeStep ==
  \/ FinalizerStep
  \/ \E w \in Wrappers : Collect(w) \/ Finalize(w)

Next == (\E t \in Threads : ThreadStep(t)) \/ RuntimeStep

Spec == Init /\ [][Next]_vars

\* Methods of the library run to their end, collections keep happening and
\* the finalizer thread keeps serving its queue.  The application need not
\* do anything.
Fairness ==
  /\ \A t \in Threads : WF_vars(LibraryStep(t))
  /\ WF_vars(FinalizerStep)
  /\ \A w \in Wrappers : WF_vars(Collect(w)) /\ WF_vars(Finalize(w))

FairSpec == Spec /\ Fairness

-------------------------------------------------------------------------------
(* Properties.                                                             *)

InNative(a, w) == on[a] = w /\ pc[a] = "native"

\* A native object reaches git_*_free at most once, whether Dispose, a second
\* Dispose or the finalizer gets there (Dispose(bool) in Repository.cs,
\* GitObject.cs, Reference.cs, Index.cs, ObjectDatabase.cs).
NoDoubleFree == \A w \in Wrappers : frees[w] <= 1

\* Nobody is inside a native function on an object that was freed: neither by
\* Dispose nor by a finalizer that ran because the caller's last reference to
\* the wrapper was the call itself (Ensure.NativeCall).
NoUseAfterFree ==
  \A a \in Actors, w \in Wrappers : InNative(a, w) => native[w] = "live"

\* Once Dispose() has returned no thread is past the NotDisposed of a call.
NoCallAfterDispose ==
  \A a \in Actors, w \in Wrappers :
    suppressed[w] => ~(on[a] = w /\ pc[a] \in {"checked", "native"})

\* A wrapper whose memory is reclaimed left no native object behind: each was
\* freed by Dispose before its finalizer was suppressed, or by its finalizer.
NothingLeaked == \A w \in Wrappers : gc[w] = "collected" => native[w] = "freed"

\* The native object of a wrapper that no variable refers to is eventually
\* freed, although nobody calls Dispose (~NativeDisposable).
EventuallyFreed ==
  \A w \in Wrappers :
    (field[w] # "unborn" /\ roots[w] = {}) ~> (native[w] = "freed")

\* Every step is a step of the abstract native object, or changes nothing of it.
Handle == INSTANCE NativeHandle WITH
            Handles <- Wrappers,
            Users <- Actors,
            state <- native,
            users <- [w \in Wrappers |-> {a \in Actors : InNative(a, w)}]

ImplementsHandle == Handle!Spec
===============================================================================
