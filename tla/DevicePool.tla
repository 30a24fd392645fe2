----------------------------- MODULE DevicePool -----------------------------
(***************************************************************************)
(* The device threads of channel.c, the scheduler of every build but the   *)
(* Windows one: startio puts the device on the linked list sysblk.ioq and  *)
(* signals or creates a device_thread; device_thread empties the list,     *)
(* then waits or exits; the devtmax command (hsccmd.c) changes the limit.  *)
(*                                                                         *)
(* An action is one hold of sysblk.ioqlock, or one access outside it.      *)
(***************************************************************************)
EXTENDS Integers, FiniteSets

CONSTANTS
    Device,
    NoDev,          \* the null pointer
    Thread,         \* identities of threads that may exist at one time
    Priority,       \* [Device -> Int], dev->priority
    Limits,         \* values devtmax may have
    IdleMax,        \* idle threads kept when there is no limit; 3 in the source
    AllowSwitch,    \* may the devtmax command change the sign of devtmax
    AllowLastFail,  \* may create_thread fail when there is no device thread
    Spurious,       \* may wait_condition return though nobody signalled
    MaxWait         \* bound: no such return once devtwait has come this far

ASSUME PoolAssumption ==
    /\ NoDev \notin Device /\ IsFiniteSet(Device) /\ IsFiniteSet(Thread)
    /\ Priority \in [Device -> Int]
    /\ Limits \subseteq Int
    /\ IdleMax \in Nat
    /\ {AllowSwitch, AllowLastFail, Spurious} \subseteq BOOLEAN
    /\ MaxWait \in Nat

VARIABLES
    ioq,            \* sysblk.ioq
    nextioq,        \* dev->nextioq
    devtmax, devtwait, devtnbr,
    pc,             \* where each thread is
    tdev,           \* the device a thread has a channel program for
    started,        \* devices startio calls busy
    sdev,           \* the device startio is about to queue
    command         \* the devtmax command has set the limit and nothing else

queuevars == <<ioq, nextioq>>
vars == <<queuevars, devtmax, devtwait, devtnbr, pc, tdev, started, sdev, command>>

ThreadPc == {"none",    \* no such thread
             "new",     \* created, has not got ioqlock yet
             "wait",    \* in wait_condition
             "woken",   \* about to get ioqlock back
             "run",     \* in execute_ccw_chain
             "made",    \* created for one program, has not called it yet
             "direct",  \* in execute_ccw_chain, and nothing else to do
             "back"}    \* out of it, about to get ioqlock

Init ==
    /\ ioq = NoDev /\ nextioq = [d \in Device |-> NoDev]
    /\ devtmax \in Limits /\ devtwait = 0 /\ devtnbr = 0
    /\ pc = [t \in Thread |-> "none"] /\ tdev = [t \in Thread |-> NoDev]
    /\ started = {} /\ sdev = NoDev /\ command = FALSE

-----------------------------------------------------------------------------
(* The linked list sysblk.ioq *)

Index == 0..Cardinality(Device)

\* The n-th entry, NoDev from the end of the list on.
Entry == LET at[n \in Index] ==
                 IF n = 0 THEN ioq
                 ELSE IF at[n - 1] = NoDev THEN NoDev ELSE nextioq[at[n - 1]]
         IN at

Queued(d) == LET e == Entry IN \E n \in Index : e[n] = d
Made(d) == \E t \in Thread : pc[t] = "made" /\ tdev[t] = d
Running(d) == \E t \in Thread : pc[t] # "made" /\ tdev[t] = d

\* As if every device were put at the end of the list, its link left alone.
InsertNoLink(d) ==
    LET e == Entry IN
    \E n \in Index :
        /\ e[n] = NoDev /\ \A m \in 0..(n - 1) : e[m] # NoDev
        /\ ioq' = IF n = 0 THEN d ELSE ioq
        /\ nextioq' = IF n = 0 THEN nextioq ELSE [nextioq EXCEPT ![e[n - 1]] = d]

\* Before the first entry with a greater priority number.
Insert(d) ==
    LET e == Entry
        Goes(n) == e[n] # NoDev => Priority[d] < Priority[e[n]] IN
    \E n \in Index :
        /\ Goes(n) /\ \A m \in 0..(n - 1) : ~Goes(m)
        /\ ioq' = IF n = 0 THEN d ELSE ioq
        /\ nextioq' = [x \in Device |-> IF x = d THEN e[n]
                                       ELSE IF n > 0 /\ x = e[n - 1] THEN d
                                       ELSE nextioq[x]]

-----------------------------------------------------------------------------
(* startio, from the choice of the method on *)

\* As if a busy device were started again.
StartioQueueBusy(d) ==
    /\ sdev = NoDev /\ devtmax >= 0
    /\ started' = started \cup {d} /\ sdev' = d
    /\ UNCHANGED <<queuevars, devtmax, devtwait, devtnbr, pc, tdev, command>>

\* The device is made busy, and devtmax is read to choose the method.
StartioQueue(d) ==
    /\ sdev = NoDev /\ d \notin started /\ devtmax >= 0
    /\ started' = started \cup {d} /\ sdev' = d
    /\ UNCHANGED <<queuevars, devtmax, devtwait, devtnbr, pc, tdev, command>>

StartioDirect(d, t) ==
    /\ sdev = NoDev /\ d \notin started /\ devtmax < 0
    /\ pc[t] = "none"
    /\ started' = started \cup {d}
    /\ pc' = [pc EXCEPT ![t] = "made"] /\ tdev' = [tdev EXCEPT ![t] = d]
    /\ UNCHANGED <<queuevars, devtmax, devtwait, devtnbr, sdev, command>>

\* Condition code 2, the device staying busy.
StartioDirectFail(d) ==
    /\ sdev = NoDev /\ d \notin started /\ devtmax < 0
    /\ started' = started \cup {d}
    /\ UNCHANGED <<queuevars, devtmax, devtwait, devtnbr, pc, tdev, sdev, command>>

Queue == sdev # NoDev /\ Insert(sdev) /\ sdev' = NoDev

MayCreate == devtmax = 0 \/ devtnbr < devtmax

\* As if the condition were never signalled.
QueueSilent ==
    /\ devtwait > 0
    /\ Queue
    /\ devtwait' = devtwait - 1
    /\ UNCHANGED <<devtmax, devtnbr, pc, tdev, started, command>>

QueueSignal ==
    /\ devtwait > 0
    /\ Queue
    /\ devtwait' = devtwait - 1
    /\ IF \E t \in Thread : pc[t] = "wait"
       THEN \E t \in Thread : pc[t] = "wait" /\ pc' = [pc EXCEPT ![t] = "woken"]
       ELSE UNCHANGED pc
    /\ UNCHANGED <<devtmax, devtnbr, tdev, started, command>>

QueueCreate(t) ==
    /\ devtwait = 0 /\ MayCreate
    /\ Queue
    /\ pc[t] = "none" /\ pc' = [pc EXCEPT ![t] = "new"]
    /\ UNCHANGED <<devtmax, devtwait, devtnbr, tdev, started, command>>

\* create_thread fails.  Condition code 2 if there is no other thread, the
\* request staying on the list; condition code 0 otherwise.
QueueCreateFail ==
    /\ devtwait = 0 /\ MayCreate /\ (devtnbr = 0 => AllowLastFail)
    /\ Queue
    /\ UNCHANGED <<devtmax, devtwait, devtnbr, pc, tdev, started, command>>

QueueUnavailable ==
    /\ devtwait = 0 /\ ~MayCreate
    /\ Queue
    /\ UNCHANGED <<devtmax, devtwait, devtnbr, pc, tdev, started, command>>

-----------------------------------------------------------------------------
(* device_thread *)

MustExit(nbr) == devtmax < 0 \/ (devtmax = 0 /\ devtwait > IdleMax)
                 \/ (devtmax > 0 /\ nbr > devtmax)

\* As if a thread over the limit left before it had emptied the list.
LoopImpatient(t, nbr) ==
    /\ UNCHANGED <<devtmax, started, sdev, command>>
    /\ IF MustExit(nbr)
       THEN /\ pc' = [pc EXCEPT ![t] = "none"]
            /\ devtnbr' = nbr - 1
            /\ UNCHANGED <<queuevars, devtwait, tdev>>
       ELSE /\ devtnbr' = nbr
            /\ IF ioq # NoDev
               THEN /\ ioq' = nextioq[ioq]
                    /\ tdev' = [tdev EXCEPT ![t] = ioq]
                    /\ pc' = [pc EXCEPT ![t] = "run"]
                    /\ UNCHANGED <<nextioq, devtwait>>
               ELSE /\ pc' = [pc EXCEPT ![t] = "wait"]
                    /\ devtwait' = devtwait + 1
                    /\ UNCHANGED <<queuevars, tdev>>

\* With ioqlock held, and nbr device threads counted: take the first device
\* off the list, or exit, or wait.
Loop(t, nbr) ==
    /\ UNCHANGED <<devtmax, started, sdev, command>>
    /\ \/ /\ ioq # NoDev
          /\ ioq' = nextioq[ioq]
          /\ tdev' = [tdev EXCEPT ![t] = ioq]
          /\ pc' = [pc EXCEPT ![t] = "run"]
          /\ devtnbr' = nbr
          /\ UNCHANGED <<nextioq, devtwait>>
       \/ /\ ioq = NoDev /\ MustExit(nbr)
          /\ pc' = [pc EXCEPT ![t] = "none"]
          /\ devtnbr' = nbr - 1
          /\ UNCHANGED <<queuevars, devtwait, tdev>>
       \/ /\ ioq = NoDev /\ ~MustExit(nbr)
          /\ pc' = [pc EXCEPT ![t] = "wait"]
          /\ devtwait' = devtwait + 1
          /\ devtnbr' = nbr
          /\ UNCHANGED <<queuevars, tdev>>

\* wait_condition is pthread_cond_wait and may return with no signal.  Nobody has
\* counted the thread out of devtwait, and Loop will count it in again.
SpuriousReturn(t) ==
    /\ Spurious /\ devtwait < MaxWait
    /\ pc[t] = "wait" /\ pc' = [pc EXCEPT ![t] = "woken"]
    /\ UNCHANGED <<queuevars, devtmax, devtwait, devtnbr, tdev, started, sdev, command>>

\* As if a new thread did not count itself.
BeginUncounted(t) == pc[t] = "new" /\ Loop(t, devtnbr)

Begin(t) == pc[t] = "new" /\ Loop(t, devtnbr + 1)
Resume(t) == pc[t] \in {"woken", "back"} /\ Loop(t, devtnbr)

BeginDirect(t) ==
    /\ pc[t] = "made" /\ pc' = [pc EXCEPT ![t] = "direct"]
    /\ UNCHANGED <<queuevars, devtmax, devtwait, devtnbr, tdev, started, sdev, command>>

\* execute_ccw_chain makes the device free, and returns.
Finish(t) ==
    /\ pc[t] \in {"run", "direct"}
    /\ pc' = [pc EXCEPT ![t] = IF @ = "run" THEN "back" ELSE "none"]
    /\ tdev' = [tdev EXCEPT ![t] = NoDev]
    /\ started' = started \ {tdev[t]}
    /\ UNCHANGED <<queuevars, devtmax, devtwait, devtnbr, sdev, command>>

-----------------------------------------------------------------------------
(* The devtmax command *)

\* The limit is changed with no lock held.
SetDevtmax(n) ==
    /\ ~command
    /\ (devtmax < 0) # (n < 0) => AllowSwitch
    /\ devtmax' = n /\ command' = TRUE
    /\ UNCHANGED <<queuevars, devtwait, devtnbr, pc, tdev, started, sdev>>

\* A thread is created if the list needs one (and this may fail), and all
\* waiting threads are woken.
Broadcast ==
    /\ command
    /\ LET woken == [t \in Thread |-> IF pc[t] = "wait" THEN "woken" ELSE pc[t]] IN
       \/ pc' = woken
       \/ /\ ioq # NoDev /\ MayCreate
          /\ \E t \in Thread : pc[t] = "none" /\ pc' = [woken EXCEPT ![t] = "new"]
    /\ devtwait' = 0 /\ command' = FALSE
    /\ UNCHANGED <<queuevars, devtmax, devtnbr, tdev, started, sdev>>

-----------------------------------------------------------------------------
ThreadStep(t) == Begin(t) \/ Resume(t) \/ BeginDirect(t) \/ Finish(t)

Next ==
    \/ \E d \in Device : StartioQueue(d) \/ StartioDirectFail(d) \/ \E t \in Thread : StartioDirect(d, t)
    \/ QueueSignal \/ QueueCreateFail \/ QueueUnavailable
    \/ \E t \in Thread : QueueCreate(t) \/ ThreadStep(t) \/ SpuriousReturn(t)
    \/ \E n \in Limits : SetDevtmax(n)
    \/ Broadcast

Spec == Init /\ [][Next]_vars

\* Every thread that can take a step does; a channel program comes to an end.
FairSpec == Spec /\ \A t \in Thread : WF_vars(ThreadStep(t))

-----------------------------------------------------------------------------
(* Properties *)

TypeOK ==
    /\ ioq \in Device \cup {NoDev} /\ nextioq \in [Device -> Device \cup {NoDev}]
    /\ devtmax \in Limits /\ devtwait \in Nat
    /\ devtnbr \in 0..Cardinality(Thread)
    /\ pc \in [Thread -> ThreadPc] /\ tdev \in [Thread -> Device \cup {NoDev}]
    /\ started \subseteq Device /\ sdev \in Device \cup {NoDev} /\ command \in BOOLEAN

\* sysblk.ioq ends, holds no device twice, is in order of priority, and holds
\* only devices that are started and not running.
QueueSound ==
    LET e == Entry IN
    /\ \E n \in Index : e[n] = NoDev
    /\ \A m, n \in Index : m < n /\ e[n] # NoDev =>
        e[m] # e[n] /\ Priority[e[m]] <= Priority[e[n]]
    /\ \A n \in Index : e[n] # NoDev =>
        e[n] \in started /\ ~Made(e[n]) /\ ~Running(e[n])

\* As long as a request is queued, some thread will look at the list without
\* being signalled any more: startio signals a device thread if one is waiting,
\* otherwise creates one.  A wait that returns unsignalled is counted in devtwait
\* twice, and then startio may signal a thread that does not exist.
QueueAttended ==
    ioq # NoDev => \E t \in Thread : pc[t] \in {"new", "woken", "run", "back"}

\* Requests are attended to, and devtwait, by which startio decides whether to
\* signal a thread or to make one, counts every thread in wait_condition, and
\* nothing else unless a wait has returned unsignalled.
QueueServed ==
    LET waiting == Cardinality({t \in Thread : pc[t] = "wait"}) IN
    /\ QueueAttended
    /\ waiting <= devtwait /\ (~Spurious => devtwait = waiting)

\* How far the request of each device is, as the abstract scheduler sees it.
Stage == [d \in Device |-> IF Running(d) THEN "running"
                           ELSE IF Queued(d) \/ Made(d) THEN "queued" ELSE "idle"]

Abstract == INSTANCE IoScheduler WITH Device <- Device, st <- Stage

\* The device threads are a scheduler: only accepted requests are executed, and
\* each of them at most once.
Implements == Abstract!Spec

\* A request to a device of the most urgent priority is executed.  One to any
\* other may be overtaken for ever.
UrgentExecuted ==
    \A d \in Device : (\A e \in Device : Priority[d] <= Priority[e]) =>
        (Stage[d] = "queued" ~> Stage[d] = "running")
=============================================================================
