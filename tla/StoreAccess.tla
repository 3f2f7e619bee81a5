---------------------------- MODULE StoreAccess ----------------------------
(***************************************************************************)
(* What the sessions of module Sessions promise one another: the badger    *)
(* store is used by one session at a time, and whoever uses it lets go of  *)
(* it in the end or dies with the process.                                 *)
(***************************************************************************)
CONSTANTS Users, Nobody

VARIABLE user  \* the session that uses the store, or Nobody

Init == user = Nobody

Acquire(s) == user = Nobody /\ user' = s

Release == user # Nobody /\ user' = Nobody

Next == Release \/ \E s \in Users : Acquire(s)

Spec == Init /\ [][Next]_user /\ WF_user(Release)
=============================================================================
