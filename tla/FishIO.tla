------------------------------- MODULE FishIO -------------------------------
(***************************************************************************)
(* The I/O scheduler of the Windows build, src/hercules/w32chan.c.         *)
(* ScheduleIORequest gives each request to a device thread that is not     *)
(* busy, or to a new one; a thread that has waited too long for work marks *)
(* itself dead and its parms block is freed later by whoever holds the     *)
(* scheduler lock; with devtmax < 0 every request gets a "one time only"   *)
(* thread.  The devtmax command (hsccmd.c) changes the limit and asks idle *)
(* threads to exit.                                                        *)
(*                                                                         *)
(* Two kinds of lock: the scheduler lock, which is what holder stands for, *)
(* and one lock per parms block.  An action is what is done under one      *)
(* acquisition of a parms lock, or one access outside it.                  *)
(***************************************************************************)
EXTENDS Integers, Sequences, ChainOps

CONSTANTS
    Device,
    NoDev,
    Thread,         \* parms blocks, and the threads that use them
    Limits,         \* values devtmax may have
    AllowSwitch     \* may the devtmax command change the sign of devtmax

ASSUME FishAssumption ==
    /\ NoDev \notin Device
    /\ Limits \subseteq Int
    /\ AllowSwitch \in BOOLEAN

VARIABLES
    list,           \* ThreadListHeadListEntry; its length is ios_devtnbr
    pc,             \* where each thread is; "none" while its block is free
    work,           \* the device a thread executes a channel program for
    queue,          \* the requests in each thread's IORequestList
    event,          \* threads with hRequestQueuedEvent set
    shutdown,       \* threads with hShutdownEvent set
    dead,           \* threads with bThreadIsDead
    devtmax,        \* ios_devtmax
    holder,         \* what the holder of the scheduler lock is doing
    sdev,           \* the device ScheduleIORequest was called for
    rest,           \* threads the holder has still to look at
    console         \* the devtmax command has yet to trim

threadvars == <<pc, work, queue, event, shutdown, dead>>
vars == <<list, threadvars, devtmax, holder, sdev, rest, console>>

ThreadPc == {"none",    \* no such thread
             "wait",    \* waiting for hRequestQueuedEvent
             "look",    \* about to look at its queue
             "run",     \* in execute_ccw_chain
             "reset",   \* about to reset the event
             "check",   \* about to test hShutdownEvent
             "once",    \* about to test ios_devtmax
             "mark",    \* one time only: about to mark itself dead
             "shut",    \* leaving because of hShutdownEvent
             "gone"}    \* has returned

Init ==
    /\ list = <<>>
    /\ pc = [t \in Thread |-> "none"]
    /\ work = [t \in Thread |-> NoDev]
    /\ queue = [t \in Thread |-> <<>>]
    /\ event = {} /\ shutdown = {} /\ dead = {}
    /\ devtmax \in Limits
    /\ holder = "none" /\ sdev = NoDev /\ rest = <<>> /\ console = FALSE

Queued(d) == \E t \in Thread : \E i \in 1..Len(queue[t]) : queue[t][i] = d
Running(d) == \E t \in Thread : work[t] = d

-----------------------------------------------------------------------------
(* The list of threads, under the scheduler lock *)

\* RemoveThisThreadFromOurList, for every thread of S: the block is freed.
Discard(S) ==
    /\ list' = Without(list, S)
    /\ pc' = [t \in Thread |-> IF t \in S THEN "none" ELSE pc[t]]
    /\ dead' = dead \ S /\ event' = event \ S /\ shutdown' = shutdown \ S

Listed == On(list)

\* As if the event were not set.
GiveSilent(t, d) ==
    /\ queue' = [queue EXCEPT ![t] = Append(@, d)]
    /\ UNCHANGED event

\* The request is queued and the event set in one hold of the parms lock.
Give(t, d) ==
    /\ queue' = [queue EXCEPT ![t] = Append(@, d)]
    /\ event' = event \cup {t}

Release == holder' = "none" /\ sdev' = NoDev /\ rest' = <<>>

-----------------------------------------------------------------------------
(* ScheduleIORequest, called by startio for a device that is not busy *)

SchedulePooled(d) ==
    /\ holder = "none" /\ devtmax >= 0
    /\ ~Queued(d) /\ ~Running(d)
    /\ holder' = "select" /\ sdev' = d /\ rest' = list
    /\ UNCHANGED <<list, threadvars, devtmax, console>>

\* One time only: dead threads are removed, then a thread is created.
ScheduleOnce(d) ==
    /\ holder = "none" /\ devtmax < 0
    /\ ~Queued(d) /\ ~Running(d)
    /\ Discard(dead \cap Listed)
    /\ holder' = "create" /\ sdev' = d /\ rest' = <<>>
    /\ UNCHANGED <<work, queue, devtmax, console>>

\* SelectDeviceThread, one thread of the list at a time.
SelectDead ==
    /\ holder = "select" /\ rest # <<>> /\ Head(rest) \in dead
    /\ Discard({Head(rest)})
    /\ rest' = list'
    /\ UNCHANGED <<work, queue, devtmax, holder, sdev, console>>

\* As if dead threads were not skipped.
SelectIdleDead ==
    /\ holder = "select" /\ rest # <<>>
    /\ Head(rest) \notin event
    /\ list' = Append(Without(list, {Head(rest)}), Head(rest))
    /\ Give(Head(rest), sdev)
    /\ Release
    /\ UNCHANGED <<pc, work, shutdown, dead, devtmax, console>>

SelectIdle ==
    /\ holder = "select" /\ rest # <<>>
    /\ Head(rest) \notin dead /\ Head(rest) \notin event
    /\ list' = Append(Without(list, {Head(rest)}), Head(rest))
    /\ Give(Head(rest), sdev)
    /\ Release
    /\ UNCHANGED <<pc, work, shutdown, dead, devtmax, console>>

SelectBusy ==
    /\ holder = "select" /\ rest # <<>>
    /\ Head(rest) \notin dead /\ Head(rest) \in event
    /\ rest' = Tail(rest)
    /\ UNCHANGED <<list, threadvars, devtmax, holder, sdev, console>>

Creating == holder = "create" \/ (holder = "select" /\ rest = <<>>)

\* CreateDeviceThread.  The new thread's first wait is far longer than its
\* creator needs to give it the request, so the two are one step.
Create(t) ==
    /\ Creating /\ pc[t] = "none"
    /\ list' = Append(list, t)
    /\ pc' = [pc EXCEPT ![t] = "wait"]
    /\ Give(t, sdev)
    /\ Release
    /\ UNCHANGED <<work, shutdown, dead, devtmax, console>>

\* Out of storage or threads: condition code 2.
CreateFail ==
    /\ Creating
    /\ Release
    /\ UNCHANGED <<list, threadvars, devtmax, console>>

-----------------------------------------------------------------------------
(* DeviceThread *)

Move(t, from, to) == pc[t] = from /\ pc' = [pc EXCEPT ![t] = to]

\* The wait ends because of the event or the timeout.
WaitEnds(t) ==
    /\ Move(t, "wait", IF t \in shutdown THEN "shut" ELSE "look")
    /\ UNCHANGED <<list, work, queue, event, shutdown, dead, devtmax, holder, sdev, rest, console>>

Wake(t) == t \in event /\ WaitEnds(t)
Timeout(t) == t \notin event /\ WaitEnds(t)

LookEmpty(t) ==
    /\ queue[t] = <<>>
    /\ Move(t, "look", "gone")
    /\ dead' = dead \cup {t}
    /\ UNCHANGED <<list, work, queue, event, shutdown, devtmax, holder, sdev, rest, console>>

LookWork(t) ==
    /\ queue[t] # <<>>
    /\ Move(t, "look", "run")
    /\ work' = [work EXCEPT ![t] = Head(queue[t])]
    /\ queue' = [queue EXCEPT ![t] = Tail(@)]
    /\ UNCHANGED <<list, event, shutdown, dead, devtmax, holder, sdev, rest, console>>

Finish(t) ==
    /\ Move(t, "run", "reset")
    /\ work' = [work EXCEPT ![t] = NoDev]
    /\ UNCHANGED <<list, queue, event, shutdown, dead, devtmax, holder, sdev, rest, console>>

ResetEvent(t) ==
    /\ Move(t, "reset", "check")
    /\ event' = IF queue[t] = <<>> THEN event \ {t} ELSE event
    /\ UNCHANGED <<list, work, queue, shutdown, dead, devtmax, holder, sdev, rest, console>>

CheckShutdown(t) ==
    /\ Move(t, "check", IF t \in shutdown THEN "shut" ELSE "once")
    /\ UNCHANGED <<list, work, queue, event, shutdown, dead, devtmax, holder, sdev, rest, console>>

CheckOnce(t) ==
    /\ Move(t, "once", IF devtmax < 0 THEN "mark" ELSE "wait")
    /\ UNCHANGED <<list, work, queue, event, shutdown, dead, devtmax, holder, sdev, rest, console>>

\* The dead flag is set without the parms lock.
MarkDead(t) ==
    /\ Move(t, "mark", "gone")
    /\ dead' = dead \cup {t}
    /\ UNCHANGED <<list, work, queue, event, shutdown, devtmax, holder, sdev, rest, console>>

\* What is left in the queue is discarded.
Shut(t) ==
    /\ Move(t, "shut", "gone")
    /\ queue' = [queue EXCEPT ![t] = <<>>]
    /\ dead' = dead \cup {t}
    /\ UNCHANGED <<list, work, event, shutdown, devtmax, holder, sdev, rest, console>>

ThreadStep(t) ==
    LookEmpty(t) \/ LookWork(t) \/ Finish(t) \/ ResetEvent(t) \/ CheckShutdown(t)
    \/ CheckOnce(t) \/ MarkDead(t) \/ Shut(t)

-----------------------------------------------------------------------------
(* The devtmax command: devtmax_cmd, then TrimDeviceThreads *)

\* As if the limit were one less than asked for.
SetDevtmaxLess(n) ==
    /\ ~console
    /\ (devtmax < 0) # (n < 0) => AllowSwitch
    /\ devtmax' = n - 1 /\ console' = TRUE
    /\ UNCHANGED <<list, threadvars, holder, sdev, rest>>

\* The limit is changed with no lock held.
SetDevtmax(n) ==
    /\ ~console
    /\ (devtmax < 0) # (n < 0) => AllowSwitch
    /\ devtmax' = n /\ console' = TRUE
    /\ UNCHANGED <<list, threadvars, holder, sdev, rest>>

TrimBegin ==
    /\ console /\ holder = "none"
    /\ holder' = "trim" /\ rest' = list
    /\ UNCHANGED <<list, threadvars, devtmax, sdev, console>>

Trimming == holder = "trim" /\ rest # <<>> /\ Len(list) > devtmax

TrimBusy ==
    /\ Trimming /\ Head(rest) \in event
    /\ rest' = Tail(rest)
    /\ UNCHANGED <<list, threadvars, devtmax, holder, sdev, console>>

TrimIdle ==
    /\ Trimming /\ Head(rest) \notin event
    /\ shutdown' = shutdown \cup {Head(rest)}
    /\ event' = event \cup {Head(rest)}
    /\ holder' = "reap" /\ rest' = Tail(rest)
    /\ UNCHANGED <<list, pc, work, queue, dead, devtmax, sdev, console>>

\* RemoveDeadThreadsFromList may free the very block the walk goes on from:
\* what it finds there is the old link or anything else.
TrimReap ==
    /\ holder = "reap"
    /\ Discard(dead \cap Listed)
    /\ holder' = "trim"
    /\ rest' \in {Without(rest, dead)} \cup
                 (IF rest # <<>> /\ Head(rest) \in dead THEN {<<>>} ELSE {})
    /\ UNCHANGED <<work, queue, devtmax, sdev, console>>

TrimEnd ==
    /\ holder = "trim" /\ ~Trimming
    /\ Release
    /\ console' = FALSE
    /\ UNCHANGED <<list, threadvars, devtmax>>

-----------------------------------------------------------------------------
Select == SelectDead \/ SelectIdle \/ SelectBusy \/ CreateFail \/ \E t \in Thread : Create(t)
Trim == TrimBegin \/ TrimBusy \/ TrimIdle \/ TrimReap \/ TrimEnd

Next ==
    \/ \E d \in Device : SchedulePooled(d) \/ ScheduleOnce(d)
    \/ Select
    \/ \E t \in Thread : Wake(t) \/ Timeout(t) \/ ThreadStep(t)
    \/ \E n \in Limits : SetDevtmax(n)
    \/ Trim

\* Every thread that can go on does; a channel program comes to an end; no
\* timeout is counted on.
Spec == Init /\ [][Next]_vars
FairSpec == Spec /\ WF_vars(Select)
            /\ \A t \in Thread : WF_vars(Wake(t)) /\ WF_vars(ThreadStep(t))

-----------------------------------------------------------------------------
(* Properties *)

TypeOK ==
    /\ list \in Seq(Thread) /\ pc \in [Thread -> ThreadPc]
    /\ work \in [Thread -> Device \cup {NoDev}] /\ queue \in [Thread -> Seq(Device)]
    /\ event \subseteq Thread /\ shutdown \subseteq Thread /\ dead \subseteq Thread
    /\ devtmax \in Limits
    /\ holder \in {"none", "select", "create", "trim", "reap"}
    /\ sdev \in Device \cup {NoDev} /\ rest \in Seq(Thread) /\ console \in BOOLEAN

\* A request waits only with a thread that will look for it: one on the list,
\* not dead nor bound to die, with its event set; and never behind another, whose
\* program could be suspended for as long as this one is not executed.
QueuedServed ==
    \A t \in Thread : queue[t] # <<>> =>
        /\ t \in Listed /\ t \in event /\ t \notin dead
        /\ pc[t] \notin {"mark", "shut", "gone"}
        /\ Len(queue[t]) = 1 /\ work[t] = NoDev

\* A parms block is on the list exactly while it is allocated, once, and it is
\* freed only when its thread has returned.
BlocksSound ==
    /\ \A t \in Thread : t \in Listed <=> pc[t] # "none"
    /\ Once(list)
    /\ \A t \in dead : pc[t] = "gone"

\* How far the request of each device is, as the abstract scheduler sees it.
Stage == [d \in Device |-> IF Running(d) THEN "running"
                           ELSE IF Queued(d) THEN "queued" ELSE "idle"]

Abstract == INSTANCE IoScheduler WITH Device <- Device, st <- Stage

\* w32chan.c is a scheduler: every accepted request is executed, once.
Implements == Abstract!FairSpec
=============================================================================
