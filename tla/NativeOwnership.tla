---------------------------- MODULE NativeOwnership ----------------------------
(***************************************************************************)
(* Who owns a native reference while a library call turns it into a        *)
(* wrapper.  libgit2 hands a reference out through an out parameter; the   *)
(* wrapper that adopts it frees it once, in Dispose or in its finalizer    *)
(* (NativeLifecycle); on every path that ends without a wrapper the call   *)
(* itself has to free it, exactly once.                                    *)
(*                                                                         *)
(* A token is one such reference: looking the same object up twice yields  *)
(* two tokens, each to be given back.  pc is where the application's       *)
(* thread is:                                                              *)
(*                                                                         *)
(*   idle   in the application                                             *)
(*   wrap   the native call succeeded; the FromNative factory is next      *)
(*   check  Repository.Head has a wrapper and tests its class              *)
(*   catch  in the catch block of the call                                 *)
(*                                                                         *)
(* A native call that fails yields no token and throws: a stuttering step. *)
(***************************************************************************)
EXTENDS Naturals

CONSTANTS
  Tokens,          \* the references that libgit2 hands out
  ReferenceKinds,  \* what git_reference_type may say of a looked up reference
  HeadKinds,       \* ... and of the one git_repository_head returns
  NoToken, NoCall

ObjectKinds == {"commit", "tree", "blob", "tag"}

ASSUME KindsAssumption ==
  /\ ReferenceKinds \subseteq {"direct", "symbolic", "invalid"}
  /\ HeadKinds \subseteq {"direct", "symbolic", "invalid"}
ASSUME NoneAssumption == NoToken \notin Tokens

-------------------------------------------------------------------------------
(* The calls that adopt a native reference.                                *)

\* Objects.Lookup(id), Objects.Lookup<T>(id), Reference.Peel, RevisionSpec.From
\* and To (by GitObject.DuplicateNative), References.Lookup, MoveNext of a
\* ReferenceEnumerator, Repository.Head.
Calls == {"Lookup", "LookupTyped", "Peel", "Duplicate",
          "LookupReference", "NextReference", "Head"}

\* The kinds of object or reference a call may get from libgit2.
Yields(c) ==
  CASE c \in {"Lookup", "Duplicate"} -> ObjectKinds
    [] c \in {"LookupTyped", "Peel"} -> ObjectKinds \ {"tag"}
    [] c \in {"LookupReference", "NextReference"} -> ReferenceKinds
    [] c = "Head" -> HeadKinds

\* Mutants: a catch block forgotten in Objects.Lookup or GitObject.DuplicateNative,
\* one too many in References.Lookup.
CatchingNotLookup == {"Peel", "Duplicate", "Head"}
CatchingNotDuplicate == {"Lookup", "Peel", "Head"}
CatchingReferences == {"Lookup", "LookupReference", "Peel", "Duplicate", "Head"}

\* Calls whose catch block frees the pointer.
Catching == {"Lookup", "Peel", "Duplicate", "Head"}

\* The kinds that a FromNative factory has a class for.
Wrappable == {"commit", "tree", "blob", "direct", "symbolic"}

\* Reference.FromNative frees a reference it has no class for; GitObject's
\* FromNative leaves the object to its caller.
FreedByFactory == {"invalid"}

-------------------------------------------------------------------------------
VARIABLES
  kind,     \* kind[n]: "none" until libgit2 hands n out, then its kind
  frees,    \* frees[n]: how often n was given to git_object_free/git_reference_free
  wrapper,  \* wrapper[n]: "none", "alive", "disposed" or "finalized"
  held,     \* the tokens whose wrapper the application refers to
  by,       \* by[n]: the call that obtained n
  pc, token \* the thread: where it is and on which token

vars == <<kind, frees, wrapper, held, by, pc, token>>

TypeOK ==
  /\ kind \in [Tokens -> {"none", "commit", "tree", "blob", "tag",
                          "direct", "symbolic", "invalid"}]
  /\ frees \in [Tokens -> Nat]
  /\ wrapper \in [Tokens -> {"none", "alive", "disposed", "finalized"}]
  /\ held \subseteq Tokens
  /\ by \in [Tokens -> Calls \cup {NoCall}]
  /\ pc \in {"idle", "wrap", "check", "catch"}
  /\ token \in Tokens \cup {NoToken}

Init ==
  /\ kind = [n \in Tokens |-> "none"]
  /\ frees = [n \in Tokens |-> 0]
  /\ wrapper = [n \in Tokens |-> "none"]
  /\ held = {}
  /\ by = [n \in Tokens |-> NoCall]
  /\ pc = "idle" /\ token = NoToken

Free(n) == frees' = [frees EXCEPT ![n] = @ + 1]

Leave == pc' = "idle" /\ token' = NoToken

-------------------------------------------------------------------------------
Obtain(c, k, n) ==
  /\ pc = "idle"
  /\ kind[n] = "none"
  /\ k \in Yields(c)
  /\ kind' = [kind EXCEPT ![n] = k]
  /\ by' = [by EXCEPT ![n] = c]
  /\ pc' = "wrap" /\ token' = n
  /\ UNCHANGED <<frees, wrapper, held>>

\* FromNative returns a wrapper and the call hands it to the application.
Wrap ==
  /\ pc = "wrap" /\ by[token] # "Head"
  /\ kind[token] \in Wrappable
  /\ wrapper' = [wrapper EXCEPT ![token] = "alive"]
  /\ held' = held \cup {token}
  /\ Leave
  /\ UNCHANGED <<kind, frees, by>>

\* In Repository.Head the wrapper is still to be tested.
WrapHead ==
  /\ pc = "wrap" /\ by[token] = "Head"
  /\ kind[token] \in Wrappable
  /\ wrapper' = [wrapper EXCEPT ![token] = "alive"]
  /\ pc' = "check"
  /\ UNCHANGED <<kind, frees, held, by, token>>

\* FromNative throws "unknown object type" or "unknown reference type".
WrapThrows ==
  /\ pc = "wrap"
  /\ kind[token] \notin Wrappable
  /\ IF kind[token] \in FreedByFactory THEN Free(token) ELSE UNCHANGED frees
  /\ IF by[token] \in Catching
     THEN pc' = "catch" /\ UNCHANGED token
     ELSE Leave
  /\ UNCHANGED <<kind, wrapper, held, by>>

HeadIsDirect ==
  /\ pc = "check"
  /\ kind[token] = "direct"
  /\ held' = held \cup {token}
  /\ Leave
  /\ UNCHANGED <<kind, frees, wrapper, by>>

\* "unexpected reference type for HEAD"
HeadIsNotDirect ==
  /\ pc = "check"
  /\ kind[token] # "direct"
  /\ pc' = "catch"
  /\ UNCHANGED <<kind, frees, wrapper, held, by, token>>

\* catch (Exception) { git_object_free / git_reference_free; throw; }
CatchFrees ==
  /\ pc = "catch"
  /\ Free(token)
  /\ Leave
  /\ UNCHANGED <<kind, wrapper, held, by>>

Dispose(n) ==
  /\ pc = "idle"
  /\ n \in held /\ wrapper[n] = "alive"
  /\ Free(n)
  /\ wrapper' = [wrapper EXCEPT ![n] = "disposed"]
  /\ UNCHANGED <<kind, held, by, pc, token>>

Forget(n) ==
  /\ n \in held
  /\ held' = held \ {n}
  /\ UNCHANGED <<kind, frees, wrapper, by, pc, token>>

\* The finalizer of a wrapper that nobody refers to.  In the catch block of
\* Head the wrapper is out of scope.
Finalize(n) ==
  /\ wrapper[n] = "alive"
  /\ n \notin held
  /\ ~(pc = "check" /\ token = n)
  /\ Free(n)
  /\ wrapper' = [wrapper EXCEPT ![n] = "finalized"]
  /\ UNCHANGED <<kind, held, by, pc, token>>

CallStep == Wrap \/ WrapHead \/ WrapThrows \/ HeadIsDirect \/ HeadIsNotDirect \/ CatchFrees

Next ==
  \/ \E n \in Tokens : \/ \E c \in Calls : \E k \in Yields(c) : Obtain(c, k, n)
                       \/ Dispose(n) \/ Forget(n) \/ Finalize(n)
  \/ CallStep

Spec == Init /\ [][Next]_vars

\* Calls run to their end; the collector and the finalizer thread keep running.
FairSpec == Spec /\ WF_vars(CallStep) /\ \A n \in Tokens : WF_vars(Finalize(n))

-------------------------------------------------------------------------------
\* git_repository_head resolves HEAD.  Were it to return anything but a direct
\* reference, the catch block of Repository.Head would free what Reference's
\* factory has freed already or a wrapper is going to free.
Resolved(n) == by[n] = "Head" => kind[n] = "direct"

\* No reference is given back twice: not by a catch block after the factory
\* that threw, nor by a finalizer after the catch block.
ReleasedOnce == \A n \in Tokens : Resolved(n) => frees[n] <= 1

\* No reference is lost: outside a call, one that no live wrapper owns has
\* been given back.
NothingLost ==
  \A n \in Tokens :
    kind[n] # "none" /\ token # n /\ wrapper[n] # "alive" => frees[n] >= 1

\* Every reference that the application does not hold on to is given back in
\* the end, also when the call that obtained it threw.
EventuallyReleased ==
  \A n \in Tokens : kind[n] # "none" ~> (n \in held \/ frees[n] >= 1)
===============================================================================
