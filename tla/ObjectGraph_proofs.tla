--------------------------- MODULE ObjectGraph_proofs ---------------------------
(***************************************************************************)
(* Proofs about ObjectGraph for any number of repositories, collections,   *)
(* objects and entries.                                                    *)
(***************************************************************************)
EXTENDS ObjectGraph, TLAPS

\* The wrapper that the running call has checked is still there: Dispose waits
\* for the end of the call, and the call keeps the wrapper reachable.
GuardLive == on # None => Guard(on) \in live

\* What the application refers to, directly or by a member, lost its native
\* object to Dispose if it has lost it.
RootsHeld == roots \cap Owners \subseteq live \cup disposed

IInv == TypeOK /\ GuardLive /\ RootsHeld /\ HeldMembersUsable

\* There is nothing before the first repository is opened.
LEMMA InvInit == Init => IInv
BY DistinctAssumption DEF Init, IInv, TypeOK, GuardLive, RootsHeld, HeldMembersUsable, Children, Owners, Members, Objects

\* Every step of the application, of a call and of the collector keeps IInv.
LEMMA InvPreserved == ASSUME IInv, [Next]_vars PROVE IInv'
<1> USE DistinctAssumption
    DEF IInv, TypeOK, GuardLive, RootsHeld, HeldMembersUsable, Children, Owners, Members,
        Objects, Parents, Guard
<1>1. ASSUME NEW r \in Repositories, Open(r) PROVE IInv'
  BY <1>1 DEF Open
<1>2. ASSUME NEW r \in Repositories, NEW c \in Collections, GetObjects(r, c) PROVE IInv'
  <2>1. CASE c \in born
    BY <1>2, <2>1 DEF GetObjects
  <2>2. CASE c \notin born
    BY <1>2, <2>2 DEF GetObjects
  <2> QED
    BY <2>1, <2>2
<1>3. ASSUME NEW w \in Owners \cup Members, BeginCall(w) PROVE IInv'
  BY <1>3 DEF BeginCall
<1>4. ASSUME NEW w \in Owners \cup Members, Forget(w) PROVE IInv'
  BY <1>4 DEF Forget
<1>5. CASE EndCall
  BY <1>5 DEF EndCall
<1>6. ASSUME NEW o \in Objects, EndLookup(o) PROVE IInv'
  BY <1>6 DEF EndLookup, Hand
<1>7. ASSUME NEW t \in Trees, EndCommitTree(t) PROVE IInv'
  BY <1>7 DEF EndCommitTree, Hand
<1>8. ASSUME NEW e \in Entries, EndTreeIndexer(e) PROVE IInv'
  BY <1>8 DEF EndTreeIndexer, Hand
<1>9. ASSUME NEW w \in Owners, Dispose(w) PROVE IInv'
  BY <1>9 DEF Dispose
<1>10. ASSUME NEW w \in Owners, Finalize(w) PROVE IInv'
  BY <1>10 DEF Finalize, Reachable, KeptAlive, RefersTo
<1>11. CASE UNCHANGED vars
  BY <1>11 DEF vars
<1> QED
  BY <1>1, <1>2, <1>3, <1>4, <1>5, <1>6, <1>7, <1>8, <1>9, <1>10, <1>11 DEF Next

\* The invariant holds in every state.
LEMMA InvAlways == Spec => []IInv
BY InvInit, InvPreserved, PTL DEF Spec

\* TreeEntry and the collections: their parent's native object is there in
\* every native call.
THEOREM MembersKeepTheirParents == Spec => []MembersBacked
<1>1. IInv => MembersBacked
  BY DistinctAssumption DEF IInv, GuardLive, Guard, MembersBacked
<1> QED
  BY <1>1, InvAlways, PTL

\* The application can use an entry or a collection for as long as it holds on
\* to it and has not disposed of its parent, whatever has been collected.
THEOREM HeldMembersStayUsable == Spec => []HeldMembersUsable
<1>1. IInv => HeldMembersUsable
  BY DistinctAssumption DEF IInv, GuardLive, Guard, MembersBacked
<1> QED
  BY <1>1, InvAlways, PTL

\* Type correctness for any number of repositories, objects and entries.
THEOREM TypeCorrect == Spec => []TypeOK
<1>1. IInv => TypeOK
  BY DEF IInv
<1> QED
  BY <1>1, InvAlways, PTL
===============================================================================
