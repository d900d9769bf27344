----------------------- MODULE NativeOwnership_proofs -----------------------
(***************************************************************************)
(* Proofs about NativeOwnership for any number of tokens.                  *)
(***************************************************************************)
EXTENDS NativeOwnership, TLAPS

\* The thread is on a token exactly while it is in a call, and the token is of
\* a kind that the call may obtain.
ThreadOk ==
  /\ pc = "idle" <=> token = NoToken
  /\ pc # "idle" => by[token] \in Calls /\ kind[token] \in Yields(by[token])
  /\ pc = "check" => by[token] = "Head" /\ wrapper[token] = "alive"
  /\ pc = "wrap" => wrapper[token] = "none" /\ frees[token] = 0
  /\ pc = "catch" /\ Resolved(token) => wrapper[token] = "none" /\ frees[token] = 0

\* A token is unknown, owned by the call, owned by its wrapper, or spent; an
\* unresolved HEAD may be owned twice.
TokenOk ==
  \A n \in Tokens :
    /\ kind[n] = "none" => frees[n] = 0 /\ wrapper[n] = "none"
    /\ wrapper[n] = "none" => n \notin held
    /\ wrapper[n] = "alive" /\ Resolved(n) => frees[n] = 0
    /\ wrapper[n] \in {"disposed", "finalized"} =>
         frees[n] >= 1 /\ (Resolved(n) => frees[n] = 1)
    /\ kind[n] # "none" /\ wrapper[n] = "none" /\ token # n =>
         frees[n] >= 1 /\ (Resolved(n) => frees[n] = 1)

IInv == TypeOK /\ ThreadOk /\ TokenOk

\* Every step of a call and of the finalizers keeps the invariant.
LEMMA InvPreserved ==
  ASSUME IInv, [Next]_vars
  PROVE  IInv'
<1> USE KindsAssumption, NoneAssumption
    DEF IInv, TypeOK, ThreadOk, TokenOk, Resolved, Calls, Free, Leave
<1>1. ASSUME NEW n \in Tokens, NEW c \in Calls, NEW k \in Yields(c), Obtain(c, k, n)
      PROVE  IInv'
  BY <1>1 DEF Obtain, Yields, ObjectKinds
<1>2. ASSUME NEW n \in Tokens, Dispose(n) \/ Forget(n) PROVE IInv'
  BY <1>2 DEF Dispose, Forget
<1>3. ASSUME NEW n \in Tokens, Finalize(n) PROVE IInv'
  BY <1>3 DEF Finalize
<1>4. CASE Wrap
  BY <1>4 DEF Wrap, Wrappable
<1>5. CASE WrapHead
  BY <1>5 DEF WrapHead, Wrappable
<1>6. CASE WrapThrows
  BY <1>6 DEF WrapThrows, Wrappable, FreedByFactory, Catching, Yields, ObjectKinds
<1>7. CASE HeadIsDirect
  BY <1>7 DEF HeadIsDirect
<1>8. CASE HeadIsNotDirect
  BY <1>8 DEF HeadIsNotDirect, Yields
<1>9. CASE CatchFrees
  <2>1. kind[token] # "none" /\ token \in Tokens
    BY <1>9 DEF CatchFrees, Yields, ObjectKinds
  <2> QED
    BY <1>9, <2>1 DEF CatchFrees
<1>10. CASE UNCHANGED vars
  BY <1>10 DEF vars
<1> QED
  BY <1>1, <1>2, <1>3, <1>4, <1>5, <1>6, <1>7, <1>8, <1>9, <1>10 DEF Next, CallStep

\* A reference is freed at most once, and at least once when nobody owns it.
LEMMA InvDecides == IInv => ReleasedOnce /\ NothingLost
<1> SUFFICES ASSUME IInv, NEW n \in Tokens
             PROVE  /\ Resolved(n) => frees[n] <= 1
                    /\ kind[n] # "none" /\ token # n /\ wrapper[n] # "alive" => frees[n] >= 1
  BY DEF ReleasedOnce, NothingLost
<1> USE NoneAssumption DEF IInv, TypeOK, ThreadOk, TokenOk, Resolved
<1>1. CASE wrapper[n] # "none" \/ kind[n] = "none"
  BY <1>1
<1>2. CASE wrapper[n] = "none" /\ kind[n] # "none" /\ token = n
  BY <1>2
<1>3. CASE wrapper[n] = "none" /\ kind[n] # "none" /\ token # n
  BY <1>3
<1> QED
  BY <1>1, <1>2, <1>3

\* The invariant holds in every state.
LEMMA InvAlways == Spec => []IInv
<1>1. Init => IInv
  BY NoneAssumption DEF Init, IInv, TypeOK, ThreadOk, TokenOk, Resolved
<1> QED
  BY <1>1, InvPreserved, PTL DEF Spec

\* No native reference is given back twice, on any path of any call; the double
\* free is left to a HEAD that does not resolve to a direct reference.
THEOREM ReleasedAtMostOnce == Spec => []ReleasedOnce
BY InvAlways, InvDecides, PTL

\* Every native reference that a call obtains is given back or has an owner, on
\* every path of every call, the ones that end in an exception included.
THEOREM NoReferenceLost == Spec => []NothingLost
BY InvAlways, InvDecides, PTL
===============================================================================
