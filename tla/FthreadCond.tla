----------------------------- MODULE FthreadCond -----------------------------
(***************************************************************************)
(* The condition variables of the Windows build (src/hercules/fthreads.c), *)
(* made of one critical section and two manual-reset events: hSigXmitEvent *)
(* is on while a signal or broadcast is being received, hSigRecvdEvent     *)
(* while none is.  One condition and the mutex it is used with.            *)
(*                                                                         *)
(* A section under CondVarLock that blocks on nothing is one action, which *)
(* finds the lock free and leaves it free.  A waiter's first and last      *)
(* sections are two steps each, with the lock held between them, because   *)
(* of what they do to the mutex meanwhile.  The loops that leave the lock, *)
(* wait for hSigRecvdEvent and enter it again are guards.                  *)
(*                                                                         *)
(* The mutex is the variant of hostinfo.trycritsec_avail, not recursive.   *)
(***************************************************************************)
EXTENDS Integers, FiniteSets

CONSTANTS
    Thread,
    NoThread,       \* the owner of a lock that is free
    Timed           \* threads that call fthread_cond_timedwait

ASSUME FthreadAssumption ==
    /\ IsFiniteSet(Thread)
    /\ NoThread \notin Thread
    /\ Timed \subseteq Thread

VARIABLES
    mutex,          \* dwLockOwner of the caller's mutex
    lock,           \* the thread that has CondVarLock between two actions
    xmit,           \* hSigXmitEvent is set
    recvd,          \* hSigRecvdEvent is set
    bcast,          \* bBroadcastSig
    nwait,          \* nNumWaiting
    pc

condvars == <<xmit, recvd, bcast, nwait>>
vars == <<mutex, lock, condvars, pc>>

ThreadPc == {"out",         \* not in the package; owns the mutex or does not
             "begin",       \* in BeginWait, with the mutex
             "enrolled",    \* registered and the mutex released; has CondVarLock
             "sleep",       \* waiting for hSigXmitEvent
             "awake",       \* that wait came to an end
             "expired",     \* that wait timed out
             "leave",       \* received; has CondVarLock
             "relock",      \* in ReturnFromWait, about to lock the mutex
             "signal",      \* in QueueTransmission
             "broadcast"}

\* nNumWaiting counts these.
Registered == {t \in Thread : pc[t] \in {"enrolled", "sleep", "awake", "expired"}}

Goto(t, from, to) == pc[t] = from /\ pc' = [pc EXCEPT ![t] = to]

\* InitializeFT_COND_VAR
Init ==
    /\ mutex = NoThread /\ lock = NoThread
    /\ xmit = FALSE /\ recvd = TRUE /\ bcast = FALSE /\ nwait = 0
    /\ pc = [t \in Thread |-> "out"]

-----------------------------------------------------------------------------
(* The caller *)

MutexLock(t) ==
    /\ pc[t] = "out" /\ mutex = NoThread
    /\ mutex' = t
    /\ UNCHANGED <<lock, condvars, pc>>

MutexUnlock(t) ==
    /\ pc[t] = "out" /\ mutex = t
    /\ mutex' = NoThread
    /\ UNCHANGED <<lock, condvars, pc>>

\* A caller that does not own the mutex is given EPERM, and nothing changes.
CallWait(t) ==
    /\ mutex = t
    /\ Goto(t, "out", "begin")
    /\ UNCHANGED <<mutex, lock, condvars>>

\* fthread_cond_signal and fthread_cond_broadcast, with the mutex or without.
CallNotify(t) ==
    /\ Goto(t, "out", "signal") \/ Goto(t, "out", "broadcast")
    /\ UNCHANGED <<mutex, lock, condvars>>

-----------------------------------------------------------------------------
(* BeginWait, WaitForTransmission, ReceiveXmission, ReturnFromWait *)

\* A signal some other thread is to receive must not be received by this one.
MayRegister == recvd \/ nwait = 0 \/ bcast

Register(t) ==
    /\ Goto(t, "begin", "enrolled")
    /\ lock = NoThread /\ MayRegister
    /\ lock' = t
    /\ nwait' = nwait + 1
    /\ mutex' = NoThread
    /\ UNCHANGED <<xmit, recvd, bcast>>

\* ReceiveXmission: the transmitter is turned off by the only thread the
\* transmission is for, or by the last.  bBroadcastSig stays as it is.
Receive ==
    /\ nwait' = nwait - 1
    /\ LET last == ~bcast \/ nwait' <= 0 IN
        /\ xmit' = (xmit /\ ~last)
        /\ recvd' = (recvd \/ last)
    /\ UNCHANGED bcast

\* Already being transmitted: there is no need to sleep.
NoSleep(t) ==
    /\ Goto(t, "enrolled", "leave")
    /\ xmit /\ Receive
    /\ UNCHANGED <<mutex, lock>>

Sleep(t) ==
    /\ Goto(t, "enrolled", "sleep")
    /\ ~xmit
    /\ lock' = NoThread
    /\ UNCHANGED <<mutex, condvars>>

Arrive(t) ==
    /\ Goto(t, "sleep", "awake")
    /\ xmit
    /\ UNCHANGED <<mutex, lock, condvars>>

\* As if a wait that timed out were taken off the count at once, and again by
\* ReceiveXmission.
TimeOutDeregistered(t) ==
    /\ t \in Timed
    /\ Goto(t, "sleep", "expired")
    /\ ~xmit
    /\ nwait' = nwait - 1
    /\ UNCHANGED <<mutex, lock, xmit, recvd, bcast>>

\* WaitForSingleObject: a wait for an event that is set never times out.
TimeOut(t) ==
    /\ t \in Timed
    /\ Goto(t, "sleep", "expired")
    /\ ~xmit
    /\ UNCHANGED <<mutex, lock, condvars>>

\* The event is still set when the thread has CondVarLock; or its time was up,
\* and then it receives whatever is being transmitted now.
Take(t) ==
    /\ (xmit /\ Goto(t, "awake", "leave")) \/ Goto(t, "expired", "leave")
    /\ lock = NoThread
    /\ Receive
    /\ lock' = t
    /\ UNCHANGED mutex

\* Somebody else has received it.
SleepAgain(t) ==
    /\ Goto(t, "awake", "sleep")
    /\ lock = NoThread /\ ~xmit
    /\ UNCHANGED <<mutex, lock, condvars>>

\* As if the mutex were locked before CondVarLock is left.
LeaveLate(t) ==
    /\ Goto(t, "leave", "relock")
    /\ mutex = NoThread
    /\ lock' = NoThread
    /\ UNCHANGED <<mutex, condvars>>

Leave(t) ==
    /\ Goto(t, "leave", "relock")
    /\ lock' = NoThread
    /\ UNCHANGED <<mutex, condvars>>

Relock(t) ==
    /\ Goto(t, "relock", "out")
    /\ mutex = NoThread
    /\ mutex' = t
    /\ UNCHANGED <<lock, condvars>>

-----------------------------------------------------------------------------
(* QueueTransmission *)

\* As if a signal were transmitted whether anyone is waiting or not.
AnyoneInterestedAlways == TRUE

AnyoneInterested == nwait # 0

\* The prior transmission is over; one that nobody waits for is lost.
Transmit(t) ==
    /\ Goto(t, "signal", "out") \/ Goto(t, "broadcast", "out")
    /\ lock = NoThread /\ recvd
    /\ bcast' = IF AnyoneInterested THEN pc[t] = "broadcast" ELSE bcast
    /\ xmit' = (xmit \/ AnyoneInterested)
    /\ recvd' = (recvd /\ ~AnyoneInterested)
    /\ UNCHANGED <<mutex, lock, nwait>>

-----------------------------------------------------------------------------
Call(t) == MutexLock(t) \/ MutexUnlock(t) \/ CallWait(t) \/ CallNotify(t)

\* What a thread does with no lock to get, and what it needs one for.
Step(t) == NoSleep(t) \/ Sleep(t) \/ Arrive(t) \/ Leave(t)
Enter(t) == Register(t) \/ Take(t) \/ SleepAgain(t) \/ Transmit(t)

Next == \E t \in Thread : Call(t) \/ Step(t) \/ Enter(t) \/ TimeOut(t) \/ Relock(t)

Spec == Init /\ [][Next]_vars

\* A thread that can go on does, and one that wants CondVarLock, or the mutex,
\* gets it if it is free again and again.  No caller is counted on to release
\* the mutex or to signal, and no timeout to come.
FairSpec == Spec /\ \A t \in Thread :
    WF_vars(Step(t)) /\ SF_vars(Enter(t)) /\ SF_vars(Relock(t))

-----------------------------------------------------------------------------
(* Properties *)

TypeOK ==
    /\ mutex \in Thread \cup {NoThread} /\ lock \in Thread \cup {NoThread}
    /\ xmit \in BOOLEAN /\ recvd \in BOOLEAN /\ bcast \in BOOLEAN
    /\ nwait \in 0..Cardinality(Thread) /\ pc \in [Thread -> ThreadPc]

\* Between the sections of CondVarLock exactly one of the two events is set (the
\* ASSERT of BeginWait), nNumWaiting is the number of threads that are
\* registered, and what is being transmitted is for at least one of them: a
\* transmission nobody is left to receive would shut the condition for ever.
TransmissionSound ==
    /\ recvd = ~xmit
    /\ nwait = Cardinality(Registered)
    /\ xmit => nwait > 0

\* How a thread, and a transmission, look to the callers.
Where == [t \in Thread |-> IF t \in Registered THEN "waiting"
                           ELSE IF pc[t] \in {"leave", "relock"} THEN "woken" ELSE "out"]
Notice == IF ~xmit THEN "none" ELSE IF bcast THEN "all" ELSE "one"

Condition == INSTANCE ConditionVariable
    WITH owner <- mutex, where <- Where, notice <- Notice

\* fthreads.c implements a condition variable: no signal sent after the mutex
\* was released is missed, none is received by a thread that came too late for
\* it or by two, and a broadcast reaches every thread that was waiting.
Implements == Condition!FairSpec
=============================================================================
