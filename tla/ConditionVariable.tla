-------------------------- MODULE ConditionVariable --------------------------
(***************************************************************************)
(* What the emulator relies on when it calls wait_condition,               *)
(* timed_wait_condition, signal_condition and broadcast_condition of       *)
(* hthreads.h: a mutex, and a condition on which its owner may wait.       *)
(*                                                                         *)
(* A notice is sent to one waiter or to all.  With nobody waiting it is    *)
(* lost; otherwise it stays until it is taken, a thread that begins to     *)
(* wait meanwhile may not take what is meant for one of the others, and    *)
(* nobody goes on without one.  Two liberties are part of the contract as  *)
(* the source has it: a late waiter may share a notice to all, and a       *)
(* waiter whose time is up takes with it the notice it came too late for.  *)
(***************************************************************************)
EXTENDS FiniteSets

CONSTANTS
    Thread,
    NoThread,       \* the owner of a mutex that is free
    Timed           \* threads that may call timed_wait_condition

VARIABLES
    owner,          \* of the mutex
    where,          \* [Thread -> {"out", "waiting", "woken"}]
    notice          \* "none", to "one" waiter, or to "all"

vars == <<owner, where, notice>>

Init ==
    /\ owner = NoThread /\ notice = "none"
    /\ where = [t \in Thread |-> "out"]

Waiters == {t \in Thread : where[t] = "waiting"}

Acquire(t) ==
    /\ where[t] = "out" /\ owner = NoThread
    /\ owner' = t
    /\ UNCHANGED <<where, notice>>

Release(t) ==
    /\ owner = t
    /\ owner' = NoThread
    /\ UNCHANGED <<where, notice>>

\* The mutex is given up and the thread becomes a waiter, in one step.
Wait(t) ==
    /\ owner = t /\ notice # "one"
    /\ owner' = NoThread
    /\ where' = [where EXCEPT ![t] = "waiting"]
    /\ UNCHANGED notice

Notify(kind) ==
    /\ notice = "none" /\ Waiters # {}
    /\ notice' = kind
    /\ UNCHANGED <<owner, where>>

\* t stops waiting, and takes the notice unless others are to have it too.
Leave(t) ==
    /\ where[t] = "waiting"
    /\ where' = [where EXCEPT ![t] = "woken"]
    /\ notice' = IF notice = "all" /\ Waiters # {t} THEN "all" ELSE "none"
    /\ UNCHANGED owner

Wake(t) == notice # "none" /\ Leave(t)

Expire(t) == t \in Timed /\ Leave(t)

\* The wait returns once the thread has the mutex again.
Reacquire(t) ==
    /\ where[t] = "woken" /\ owner = NoThread
    /\ owner' = t
    /\ where' = [where EXCEPT ![t] = "out"]
    /\ UNCHANGED notice

Next ==
    \/ \E t \in Thread : Acquire(t) \/ Release(t) \/ Wait(t) \/ Wake(t) \/ Expire(t) \/ Reacquire(t)
    \/ \E kind \in {"one", "all"} : Notify(kind)

Spec == Init /\ [][Next]_vars

\* A notice reaches those it is for, whoever has the mutex meanwhile; and a
\* thread that was woken gets the mutex if the others keep giving it up.
FairSpec == Spec /\ \A t \in Thread : WF_vars(Wake(t)) /\ SF_vars(Reacquire(t))
=============================================================================
