------------------------------ MODULE ObjectGraph ------------------------------
(***************************************************************************)
(* What keeps what alive.  A repository hands out objects; a tree hands    *)
(* out entries, which point into its native memory; the collections that   *)
(* look objects up work on the repository's.  NativeLifecycle shows that a *)
(* wrapper is not finalized under its own call; here a call needs the      *)
(* native memory of another wrapper as well, its parent:                   *)
(*                                                                         *)
(*   member        parent          refers to it   passed to NotDisposed    *)
(*   collection    repository      yes            the repository           *)
(*   entry         tree            yes            the tree                 *)
(*   commit, tree  repository      no             the object itself        *)
(*                                                                         *)
(* An enumerator of a tree refers to it and checks it as an entry does.    *)
(* One thread runs in the application, with the collector and finalizers   *)
(* beside it.                                                              *)
(***************************************************************************)
CONSTANTS
  Repositories, Collections, Commits, Trees, Entries,
  None

Objects == Commits \cup Trees

\* Wrappers that own a native object, and things that borrow their parent's.
Owners == Repositories \cup Objects
Members == Collections \cup Entries
Children == Objects \cup Members

ASSUME DistinctAssumption ==
  /\ Repositories \cap Children = {} /\ Objects \cap Members = {}
  /\ Collections \cap Entries = {} /\ Commits \cap Trees = {}
  /\ None \notin Owners \cup Members

VARIABLES
  born,      \* what has been made
  parent,    \* parent[c]: None until c is made
  live,      \* the owners whose native object has not been freed
  disposed,  \* the owners that the application has disposed of
  roots,     \* what the application's variables refer to
  on         \* what the thread is in a native call on, or None

vars == <<born, parent, live, disposed, roots, on>>

Parents(c) ==
  IF c \in Entries THEN Trees ELSE Repositories

TypeOK ==
  /\ born \subseteq Owners \cup Members
  /\ parent \in [Children -> Owners \cup {None}]
  /\ \A c \in Children \cap born : parent[c] \in Parents(c) \cap born
  /\ live \subseteq born \cap Owners
  /\ disposed \subseteq born \cap Owners
  /\ roots \subseteq born
  /\ on \in born \cup {None}

Init ==
  /\ born = {}
  /\ parent = [c \in Children |-> None]
  /\ live = {} /\ disposed = {}
  /\ roots = {}
  /\ on = None

-------------------------------------------------------------------------------
\* Mutant: an entry that does not keep its tree.
RefersOnlyCollections(w) == IF w \in Collections THEN {parent[w]} ELSE {}

\* The wrapper that a call on w gives to NativeCall, or to NotDisposed and
\* GC.KeepAlive: the repository of a collection, the tree of an entry, or w.
Guard(w) == IF w \in Members THEN parent[w] ELSE w

\* What w's fields refer to.
RefersTo(w) == IF w \in Members THEN {parent[w]} ELSE {}

\* Repository.Open, Init, Clone, CreateCustomRepository.
Open(r) ==
  /\ on = None
  /\ r \notin born
  /\ born' = born \cup {r}
  /\ live' = live \cup {r}
  /\ roots' = roots \cup {r}
  /\ UNCHANGED <<parent, disposed, on>>

\* Repository.Objects, made on first use; it does not mind a disposed
\* repository.
GetObjects(r, c) ==
  /\ on = None
  /\ r \in roots
  /\ IF c \in born
     THEN parent[c] = r /\ UNCHANGED <<born, parent>>
     ELSE /\ \A d \in Collections : parent[d] # r
          /\ born' = born \cup {c}
          /\ parent' = [parent EXCEPT ![c] = r]
  /\ roots' = roots \cup {c}
  /\ UNCHANGED <<live, disposed, on>>

\* Mutant: the LazyNative of an entry made without the tree to check.
BeginCallUnchecked(w) ==
  /\ on = None
  /\ w \in roots
  /\ w \in Entries \/ Guard(w) \in live
  /\ on' = w
  /\ UNCHANGED <<born, parent, live, disposed, roots>>

\* NotDisposed passes and the native function begins.
BeginCall(w) ==
  /\ on = None
  /\ w \in roots
  /\ Guard(w) \in live
  /\ on' = w
  /\ UNCHANGED <<born, parent, live, disposed, roots>>

\* It returns a value, or fails.  A cached value takes no native call at all.
EndCall ==
  /\ on # None
  /\ on' = None
  /\ UNCHANGED <<born, parent, live, disposed, roots>>

\* The call returns c, whose parent is p.
Hand(c, p) ==
  /\ c \notin born
  /\ born' = born \cup {c}
  /\ parent' = [parent EXCEPT ![c] = p]
  /\ roots' = roots \cup {c}
  /\ on' = None
  /\ UNCHANGED disposed

\* Objects.Lookup.
EndLookup(o) ==
  /\ on \in Collections
  /\ Hand(o, parent[on])
  /\ live' = live \cup {o}

\* Commit.Tree.
EndCommitTree(t) ==
  /\ on \in Commits
  /\ Hand(t, parent[on])
  /\ live' = live \cup {t}

\* Tree[position] and Tree[name].
EndTreeIndexer(e) ==
  /\ on \in Trees
  /\ Hand(e, on)
  /\ UNCHANGED live

Dispose(w) ==
  /\ on = None
  /\ w \in roots \cap live
  /\ live' = live \ {w}
  /\ disposed' = disposed \cup {w}
  /\ UNCHANGED <<born, parent, roots, on>>

Forget(w) ==
  /\ w \in roots
  /\ roots' = roots \ {w}
  /\ UNCHANGED <<born, parent, live, disposed, on>>

\* NativeCall keeps its wrapper alive, and no other, to the end of the call.
KeptAlive == roots \cup (IF on = None THEN {} ELSE {Guard(on)})

Reachable == KeptAlive \cup UNION {RefersTo(w) : w \in KeptAlive}

\* The collector and the finalizer.
Finalize(w) ==
  /\ w \in live
  /\ w \notin Reachable
  /\ live' = live \ {w}
  /\ UNCHANGED <<born, parent, disposed, roots, on>>

Next ==
  \/ \E r \in Repositories : Open(r) \/ \E c \in Collections : GetObjects(r, c)
  \/ \E w \in Owners \cup Members : BeginCall(w) \/ Forget(w)
  \/ EndCall
  \/ \E o \in Objects : EndLookup(o)
  \/ \E t \in Trees : EndCommitTree(t)
  \/ \E e \in Entries : EndTreeIndexer(e)
  \/ \E w \in Owners : Dispose(w) \/ Finalize(w)

Spec == Init /\ [][Next]_vars

-------------------------------------------------------------------------------
\* While libgit2 reads an entry the tree that owns it is there, and while it
\* looks an object up the repository is, although the application may have
\* forgotten both (TreeEntry.cs:28-38, ObjectCollection.cs:34).
MembersBacked == on \in Members => parent[on] \in live

\* An entry can be read, and a collection used, for as long as the application
\* holds on to it, unless the application itself disposes of the tree or the
\* repository.
HeldMembersUsable ==
  \A m \in roots \cap Members : parent[m] \in live \cup disposed

\* "Accessing any of the attributes of an object without a backing repository
\* will result in undefined behavior" (libgit2.cs:887-889): unless the
\* application has disposed of the repository, it is there while libgit2 works
\* on one of its objects.
ObjectsBacked == on \in Objects => parent[on] \in live \cup disposed
===============================================================================
