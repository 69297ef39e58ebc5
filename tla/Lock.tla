-------------------------------- MODULE Lock --------------------------------
(***************************************************************************)
(* What a mutual-exclusion lock promises: it has at most one owner, only a *)
(* free lock is taken, only its owner gives it back.  lc_mutex (module     *)
(* Mutex) is shown to implement this specification.                        *)
(***************************************************************************)

CONSTANTS Threads,   \* the threads that share the lock
          NoThread   \* the owner of a free lock

VARIABLE owner

Init == owner = NoThread

Acquire(t) ==
    /\ owner = NoThread
    /\ owner' = t

Release(t) ==
    /\ owner = t
    /\ owner' = NoThread

Next == \E t \in Threads : Acquire(t) \/ Release(t)

Spec == Init /\ [][Next]_owner

=============================================================================
