----------------------------- MODULE NativeHandle -----------------------------
(***************************************************************************)
(* What the managed API promises about the native objects it wraps, with   *)
(* no mention of how: a native object comes to life once, actors enter and *)
(* leave native functions that take it, and it is given back to libgit2 at *)
(* most once, when nobody is inside a function that uses it.               *)
(* NativeLifecycle implements this.                                        *)
(***************************************************************************)

CONSTANTS Handles,  \* the native objects
          Users     \* whoever may call a native function on them

VARIABLES state,    \* state[h]: "none", "live" or "freed"
          users     \* users[h]: the users inside a native function on h

vars == <<state, users>>

Init == /\ state = [h \in Handles |-> "none"]
        /\ users = [h \in Handles |-> {}]

Acquire(h) == /\ state[h] = "none"
              /\ state' = [state EXCEPT ![h] = "live"]
              /\ UNCHANGED users

Enter(u, h) == /\ state[h] = "live"
               /\ u \notin users[h]
               /\ users' = [users EXCEPT ![h] = @ \cup {u}]
               /\ UNCHANGED state

Leave(u, h) == /\ u \in users[h]
               /\ users' = [users EXCEPT ![h] = @ \ {u}]
               /\ UNCHANGED state

Release(h) == /\ state[h] = "live"
              /\ users[h] = {}
              /\ state' = [state EXCEPT ![h] = "freed"]
              /\ UNCHANGED users

Next == \E h \in Handles : \/ Acquire(h)
                           \/ Release(h)
                           \/ \E u \in Users : Enter(u, h) \/ Leave(u, h)

Spec == Init /\ [][Next]_vars
===============================================================================
