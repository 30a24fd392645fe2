-------------------------- MODULE FthreadCond_proof --------------------------
(***************************************************************************)
(* Proofs about FthreadCond, for any finite number of threads, any of which *)
(* may use timeouts.                                                       *)
(***************************************************************************)
EXTENDS FthreadCond, FiniteSetTheorems, TLAPS

-----------------------------------------------------------------------------
(* The inductive invariant *)

Shapes ==
    /\ mutex \in Thread \cup {NoThread} /\ lock \in Thread \cup {NoThread}
    /\ xmit \in BOOLEAN /\ recvd \in BOOLEAN /\ bcast \in BOOLEAN
    /\ nwait \in Nat /\ pc \in [Thread -> ThreadPc]

\* Who may have which lock, and whose time can be up.
Places == \A t \in Thread :
    /\ pc[t] \in {"enrolled", "leave"} => lock = t
    /\ pc[t] = "begin" => mutex = t
    /\ pc[t] \in {"enrolled", "sleep", "awake", "expired", "leave", "relock"} => mutex # t
    /\ pc[t] = "expired" => t \in Timed

Inv == Shapes /\ Places /\ TransmissionSound

-----------------------------------------------------------------------------
(* The threads that are registered *)

\* nNumWaiting cannot exceed the number of threads.
LEMMA RegisteredFinite ==
    /\ IsFiniteSet(Registered) /\ Cardinality(Registered) \in Nat
    /\ Cardinality(Registered) <= Cardinality(Thread)
    /\ (Cardinality(Registered) = 0) <=> (Registered = {})
<1>1. Registered \in SUBSET Thread
    BY DEF Registered
<1>2. IsFiniteSet(Registered) /\ Cardinality(Registered) <= Cardinality(Thread)
    BY <1>1, FthreadAssumption, FS_Subset
<1> QED BY <1>2, FS_CardinalityType, FS_EmptySet

\* BeginWait makes a thread registered.
LEMMA RegisteredMore ==
    ASSUME NEW t \in Thread, pc \in [Thread -> ThreadPc],
           pc[t] \notin {"enrolled", "sleep", "awake", "expired"},
           pc' = [pc EXCEPT ![t] = "enrolled"]
    PROVE  Registered' = Registered \cup {t} /\ Cardinality(Registered') = Cardinality(Registered) + 1
<1>1. t \notin Registered /\ Registered' = Registered \cup {t}
    BY DEF Registered
<1> QED BY <1>1, RegisteredFinite, FS_AddElement

\* ReceiveXmission makes it one no more.
LEMMA RegisteredLess ==
    ASSUME NEW t \in Thread, pc \in [Thread -> ThreadPc], t \in Registered,
           pc' = [pc EXCEPT ![t] = "leave"]
    PROVE  /\ Registered' = Registered \ {t}
           /\ Cardinality(Registered) \in Nat
           /\ Cardinality(Registered') = Cardinality(Registered) - 1
           /\ (Cardinality(Registered') = 0) <=> (Registered = {t})
<1>1. Registered' = Registered \ {t}
    BY DEF Registered
<1>2. IsFiniteSet(Registered \ {t}) /\ Cardinality(Registered \ {t}) = Cardinality(Registered) - 1
    BY RegisteredFinite, FS_RemoveElement
<1>3. (Cardinality(Registered \ {t}) = 0) <=> (Registered \ {t} = {})
    BY <1>2, FS_EmptySet
<1>4. (Registered \ {t} = {}) <=> (Registered = {t})
    OBVIOUS
<1> QED BY <1>1, <1>2, <1>3, <1>4, RegisteredFinite

\* A step of t from one place to another of the same kind changes nothing.
LEMMA RegisteredSame ==
    ASSUME NEW t \in Thread, NEW to, pc \in [Thread -> ThreadPc],
           pc' = [pc EXCEPT ![t] = to],
           (pc[t] \in {"enrolled", "sleep", "awake", "expired"})
               <=> (to \in {"enrolled", "sleep", "awake", "expired"})
    PROVE  Registered' = Registered
BY DEF Registered

-----------------------------------------------------------------------------
LEMMA InvInit == Init => Inv
<1> SUFFICES ASSUME Init PROVE Inv
    OBVIOUS
<1>1. Shapes /\ Places
    BY FthreadAssumption DEF Init, Shapes, Places, ThreadPc
<1>2. Registered = {}
    BY DEF Init, Registered
<1>3. TransmissionSound
    BY <1>2, FS_EmptySet DEF Init, TransmissionSound
<1> QED BY <1>1, <1>3 DEF Inv

\* What ReceiveXmission leaves behind: while it is not the last that is to
\* receive, the transmission goes on for those that are.
LEMMA ReceiveSound ==
    ASSUME Inv, NEW t \in Thread, t \in Registered, Receive, pc' = [pc EXCEPT ![t] = "leave"]
    PROVE  TransmissionSound' /\ xmit' \in BOOLEAN /\ recvd' \in BOOLEAN /\ nwait' \in Nat
<1>1. /\ nwait = Cardinality(Registered) /\ recvd = ~ xmit /\ nwait \in Nat
      /\ xmit \in BOOLEAN /\ recvd \in BOOLEAN
    BY DEF Inv, Shapes, TransmissionSound
<1>2. nwait' = Cardinality(Registered')
    BY <1>1, RegisteredLess DEF Receive, Inv, Shapes
<1>3. nwait' \in Nat
    BY <1>2, RegisteredLess, FS_RemoveElement, RegisteredFinite, FS_CardinalityType DEF Inv, Shapes
<1>4. xmit' \in BOOLEAN /\ recvd' = ~ xmit' /\ (xmit' => nwait' > 0)
  <2>1. CASE ~ bcast \/ nwait' <= 0
    <3>1. xmit' = FALSE /\ recvd' = TRUE
        BY <1>1, <2>1, Zenon DEF Receive
    <3> QED BY <3>1
  <2>2. CASE ~ (~ bcast \/ nwait' <= 0)
    <3>1. xmit' = xmit /\ recvd' = recvd
        BY <1>1, <2>2, Zenon DEF Receive
    <3> QED BY <1>1, <1>3, <2>2, <3>1
  <2> QED BY <2>1, <2>2
<1> QED BY <1>2, <1>3, <1>4 DEF TransmissionSound

LEMMA InvNext == Inv /\ [Next]_vars => Inv'
<1> SUFFICES ASSUME Inv, [Next]_vars
             PROVE  Shapes' /\ Places' /\ TransmissionSound'
    BY DEF Inv
<1> USE FthreadAssumption
<1>1. Shapes /\ Places /\ TransmissionSound
    BY DEF Inv
<1>3. ASSUME NEW t \in Thread, MutexLock(t) \/ MutexUnlock(t) PROVE Shapes' /\ Places' /\ TransmissionSound'
  <2>1. UNCHANGED <<lock, condvars, pc>>
      BY <1>3 DEF MutexLock, MutexUnlock
  <2>2. Shapes' /\ Places'
      BY <1>1, <1>3 DEF MutexLock, MutexUnlock, Shapes, Places, condvars
  <2>3. Registered' = Registered
      BY <2>1 DEF Registered
  <2> QED BY <1>1, <2>1, <2>2, <2>3, Zenon DEF TransmissionSound, condvars
<1>4. ASSUME NEW t \in Thread, CallWait(t) \/ CallNotify(t) PROVE Shapes' /\ Places' /\ TransmissionSound'
  <2>1. UNCHANGED <<mutex, lock, condvars>>
      BY <1>4 DEF CallWait, CallNotify
  <2>2. Shapes' /\ Places'
      BY <1>1, <1>4, <2>1 DEF CallWait, CallNotify, Goto, Shapes, Places, ThreadPc, condvars
  <2>3. Registered' = Registered
      BY <1>1, <1>4, RegisteredSame DEF CallWait, CallNotify, Goto, Shapes
  <2> QED BY <1>1, <2>1, <2>2, <2>3, Zenon DEF TransmissionSound, condvars
<1>5. ASSUME NEW t \in Thread, Register(t) PROVE Shapes' /\ Places' /\ TransmissionSound'
  <2>1. Shapes' /\ Places'
      BY <1>1, <1>5 DEF Register, Goto, Shapes, Places, ThreadPc
  <2>2. Cardinality(Registered') = Cardinality(Registered) + 1
      BY <1>1, <1>5, RegisteredMore DEF Register, Goto, Shapes
  <2>3. nwait' = Cardinality(Registered') /\ nwait' > 0
      BY <1>1, <1>5, <2>2 DEF Register, TransmissionSound, Shapes
  <2>4. xmit' = xmit /\ recvd' = recvd
      BY <1>5 DEF Register
  <2> QED BY <1>1, <2>1, <2>3, <2>4, Zenon DEF TransmissionSound
<1>6. ASSUME NEW t \in Thread, NoSleep(t) \/ Take(t) PROVE Shapes' /\ Places' /\ TransmissionSound'
  <2>1. /\ t \in Registered /\ Receive /\ pc' = [pc EXCEPT ![t] = "leave"]
        /\ lock' = t /\ mutex' = mutex /\ bcast' = bcast
      BY <1>1, <1>6 DEF NoSleep, Take, Goto, Registered, Receive, Places
  <2>2. TransmissionSound' /\ xmit' \in BOOLEAN /\ recvd' \in BOOLEAN /\ nwait' \in Nat
      BY <2>1, ReceiveSound
  <2>3. Shapes'
      BY <1>1, <2>1, <2>2 DEF Shapes, ThreadPc
  <2>4. lock = t \/ lock = NoThread
      BY <1>1, <1>6 DEF NoSleep, Take, Goto, Places
  <2>5. Places'
      BY <1>1, <1>6, <2>1, <2>4 DEF Shapes, Places, NoSleep, Take, Goto
  <2> QED BY <2>2, <2>3, <2>5
<1>7. ASSUME NEW t \in Thread, Sleep(t) \/ Arrive(t) \/ TimeOut(t) \/ SleepAgain(t)
      PROVE  Shapes' /\ Places' /\ TransmissionSound'
  <2>1. mutex' = mutex /\ UNCHANGED condvars
      BY <1>7 DEF Sleep, Arrive, TimeOut, SleepAgain
  <2>2. Shapes'
      BY <1>1, <1>7, <2>1 DEF Sleep, Arrive, TimeOut, SleepAgain, Goto, Shapes, ThreadPc, condvars
  <2>3. Places'
      BY <1>1, <1>7, <2>1 DEF Sleep, Arrive, TimeOut, SleepAgain, Goto, Shapes, Places
  <2>4. Registered' = Registered
      BY <1>1, <1>7, RegisteredSame DEF Sleep, Arrive, TimeOut, SleepAgain, Goto, Shapes
  <2> QED BY <1>1, <2>1, <2>2, <2>3, <2>4, Zenon DEF TransmissionSound, condvars
<1>8. ASSUME NEW t \in Thread, Leave(t) \/ Relock(t) PROVE Shapes' /\ Places' /\ TransmissionSound'
  <2>1. UNCHANGED condvars
      BY <1>8 DEF Leave, Relock
  <2>2. Shapes' /\ Places'
      BY <1>1, <1>8, <2>1 DEF Leave, Relock, Goto, Shapes, Places, ThreadPc, condvars
  <2>3. Registered' = Registered
      BY <1>1, <1>8, RegisteredSame DEF Leave, Relock, Goto, Shapes
  <2> QED BY <1>1, <2>1, <2>2, <2>3, Zenon DEF TransmissionSound, condvars
<1>9. ASSUME NEW t \in Thread, Transmit(t) PROVE Shapes' /\ Places' /\ TransmissionSound'
  <2>1. UNCHANGED <<mutex, lock, nwait>> /\ pc' = [pc EXCEPT ![t] = "out"]
        /\ pc[t] \in {"signal", "broadcast"} /\ recvd
      BY <1>9 DEF Transmit, Goto
  <2>2. Registered' = Registered
      BY <1>1, <2>1, RegisteredSame DEF Shapes
  <2>3. CASE nwait # 0
    <3>1. xmit' = TRUE /\ recvd' = FALSE /\ bcast' = (pc[t] = "broadcast")
        BY <1>1, <1>9, <2>3, Zenon DEF Transmit, AnyoneInterested, Shapes
    <3>2. Shapes' /\ Places'
        BY <1>1, <2>1, <3>1 DEF Shapes, Places, ThreadPc
    <3>3. nwait' = Cardinality(Registered') /\ nwait' > 0
        BY <1>1, <2>1, <2>2, <2>3 DEF TransmissionSound, Shapes
    <3> QED BY <3>1, <3>2, <3>3, Zenon DEF TransmissionSound
  <2>4. CASE ~ (nwait # 0)
    <3>1. xmit' = xmit /\ recvd' = recvd /\ bcast' = bcast
        BY <1>1, <1>9, <2>4, Zenon DEF Transmit, AnyoneInterested, Shapes
    <3>2. Shapes' /\ Places'
        BY <1>1, <2>1, <3>1 DEF Shapes, Places, ThreadPc
    <3> QED BY <1>1, <2>1, <2>2, <3>1, <3>2, Zenon DEF TransmissionSound
  <2> QED BY <2>3, <2>4
<1>10. CASE UNCHANGED vars
  <2>1. Shapes' /\ Places' /\ Registered' = Registered
      BY <1>1, <1>10 DEF vars, condvars, Shapes, Places, Registered
  <2> QED BY <1>1, <1>10, <2>1, Zenon DEF vars, condvars, TransmissionSound
<1> QED BY <1>3, <1>4, <1>5, <1>6, <1>7, <1>8, <1>9, <1>10, Zenon DEF Next, Call, Step, Enter

-----------------------------------------------------------------------------
LEMMA InvHolds == Spec => []Inv
BY InvInit, InvNext, PTL DEF Spec

\* Every variable of the condition and the mutex keeps its type; nNumWaiting is
\* never more than the number of threads.
THEOREM TypeCorrect == Spec => []TypeOK
<1>1. Inv => TypeOK
    BY RegisteredFinite, FthreadAssumption, FS_CardinalityType
       DEF Inv, Shapes, TransmissionSound, TypeOK
<1> QED BY <1>1, InvHolds, PTL

\* Exactly one event is set between the sections of CondVarLock, nNumWaiting is
\* exact, and no transmission is left that nobody is to receive.
THEOREM TransmissionIsSound == Spec => []TransmissionSound
<1>1. Inv => TransmissionSound
    BY DEF Inv
<1> QED BY <1>1, InvHolds, PTL

-----------------------------------------------------------------------------
(* The refinement *)

\* The waiters of the abstract condition are the registered threads.
LEMMA SameWaiters == Condition!Waiters = Registered
BY DEF Condition!Waiters, Where, Registered

\* A step that changes the place of one thread changes Where for it only.
LEMMA WhereStep ==
    ASSUME NEW t \in Thread, NEW to, pc \in [Thread -> ThreadPc], pc' = [pc EXCEPT ![t] = to]
    PROVE  Where' = [Where EXCEPT ![t] =
                        IF to \in {"enrolled", "sleep", "awake", "expired"} THEN "waiting"
                        ELSE IF to \in {"leave", "relock"} THEN "woken" ELSE "out"]
BY DEF Where, Registered

\* A thread that receives leaves the abstract condition, and the notice with it
\* unless others are to have it too.
LEMMA ReceiveLeaves ==
    ASSUME Inv, NEW t \in Thread, t \in Registered, Receive,
           pc' = [pc EXCEPT ![t] = "leave"], mutex' = mutex
    PROVE  Condition!Leave(t)
<1>1. Where[t] = "waiting" /\ Where' = [Where EXCEPT ![t] = "woken"]
    BY WhereStep DEF Where, Inv, Shapes
<1>2. (nwait' <= 0) <=> (Registered = {t})
  <2>1. nwait = Cardinality(Registered) /\ nwait' = nwait - 1
      BY DEF Receive, Inv, TransmissionSound
  <2>2. /\ Cardinality(Registered) \in Nat
        /\ Cardinality(Registered') = Cardinality(Registered) - 1
        /\ (Cardinality(Registered') = 0) <=> (Registered = {t})
      BY RegisteredLess DEF Inv, Shapes
  <2>3. Cardinality(Registered) # 0
      BY RegisteredFinite
  <2> QED BY <2>1, <2>2, <2>3
<1>3. Notice' = IF Notice = "all" /\ Registered # {t} THEN "all" ELSE "none"
  <2>1. CASE ~ bcast \/ nwait' <= 0
    <3>1. xmit' = FALSE
        BY <2>1, Zenon DEF Receive
    <3>2. ~ (Notice = "all" /\ Registered # {t})
        BY <1>2, <2>1 DEF Notice
    <3> QED BY <3>1, <3>2 DEF Notice
  <2>2. CASE ~ (~ bcast \/ nwait' <= 0)
    <3>1. xmit' = xmit /\ bcast' = bcast
        BY <2>2, Zenon DEF Receive, Inv, Shapes
    <3> QED BY <1>2, <2>2, <3>1 DEF Notice
  <2> QED BY <2>1, <2>2
<1> QED BY <1>1, <1>3, SameWaiters DEF Condition!Leave

LEMMA RefinesNext == Inv /\ [Next]_vars => [Condition!Next]_(Condition!vars)
<1> SUFFICES ASSUME Inv, [Next]_vars
             PROVE  Condition!Next \/ UNCHANGED <<mutex, Where, Notice>>
    BY DEF Condition!vars
<1> USE FthreadAssumption
<1>1. Shapes /\ Places /\ TransmissionSound /\ pc \in [Thread -> ThreadPc]
    BY DEF Inv, Shapes
<1>2. ASSUME NEW t \in Thread, MutexLock(t) PROVE Condition!Acquire(t)
    BY <1>2 DEF MutexLock, Condition!Acquire, Where, Notice, Registered, condvars
<1>3. ASSUME NEW t \in Thread, MutexUnlock(t) PROVE Condition!Release(t)
    BY <1>3 DEF MutexUnlock, Condition!Release, Where, Notice, Registered, condvars
<1>4. ASSUME NEW t \in Thread,
             CallWait(t) \/ CallNotify(t) \/ Sleep(t) \/ Arrive(t) \/ TimeOut(t)
                 \/ SleepAgain(t) \/ Leave(t)
      PROVE  UNCHANGED <<mutex, Where, Notice>>
  <2>1. mutex' = mutex /\ UNCHANGED condvars
      BY <1>4 DEF CallWait, CallNotify, Sleep, Arrive, TimeOut, SleepAgain, Leave
  <2>2. Where' = Where
      BY <1>1, <1>4 DEF CallWait, CallNotify, Sleep, Arrive, TimeOut, SleepAgain, Leave, Goto,
                        Where, Registered
  <2> QED BY <2>1, <2>2 DEF Notice, condvars
<1>5. ASSUME NEW t \in Thread, Register(t) PROVE Condition!Wait(t)
  <2>1. mutex = t /\ mutex' = NoThread
      BY <1>1, <1>5 DEF Register, Goto, Places
  <2>2. Notice # "one" /\ Notice' = Notice
    <3>1. xmit' = xmit /\ bcast' = bcast /\ (recvd \/ nwait = 0 \/ bcast)
        BY <1>5 DEF Register, MayRegister
    <3>2. recvd = ~ xmit /\ (xmit => nwait > 0) /\ nwait \in Nat
        BY <1>1, Zenon DEF TransmissionSound, Shapes
    <3>3. xmit => nwait # 0
        BY <3>2
    <3>4. ~ xmit \/ bcast
        BY <3>1, <3>2, <3>3, Zenon
    <3> QED BY <3>1, <3>4 DEF Notice
  <2>3. Where' = [Where EXCEPT ![t] = "waiting"]
      BY <1>1, <1>5, WhereStep DEF Register, Goto
  <2> QED BY <2>1, <2>2, <2>3 DEF Condition!Wait
<1>6. ASSUME NEW t \in Thread, NoSleep(t) \/ Take(t) PROVE Condition!Wake(t) \/ Condition!Expire(t)
  <2>1. /\ t \in Registered /\ Receive /\ pc' = [pc EXCEPT ![t] = "leave"] /\ mutex' = mutex
      BY <1>6 DEF NoSleep, Take, Goto, Registered
  <2>2. Condition!Leave(t)
      BY <2>1, ReceiveLeaves
  <2>3. xmit \/ t \in Timed
      BY <1>1, <1>6 DEF NoSleep, Take, Goto, Places
  <2>4. xmit => Notice # "none"
      BY DEF Notice
  <2> QED BY <2>2, <2>3, <2>4 DEF Condition!Wake, Condition!Expire
<1>7. ASSUME NEW t \in Thread, Relock(t) PROVE Condition!Reacquire(t)
  <2>1. Where[t] = "woken" /\ Where' = [Where EXCEPT ![t] = "out"]
      BY <1>1, <1>7, WhereStep DEF Relock, Goto, Where, Registered
  <2> QED BY <1>7, <2>1 DEF Relock, condvars, Notice, Condition!Reacquire
<1>8. ASSUME NEW t \in Thread, Transmit(t)
      PROVE  (\E kind \in {"one", "all"} : Condition!Notify(kind)) \/ UNCHANGED <<mutex, Where, Notice>>
  <2>1. /\ mutex' = mutex /\ pc[t] \in {"signal", "broadcast"} /\ recvd
        /\ pc' = [pc EXCEPT ![t] = "out"]
      BY <1>8 DEF Transmit, Goto
  <2>2. Where' = Where
      BY <1>1, <2>1 DEF Where, Registered
  <2>3. Notice = "none"
      BY <1>1, <2>1 DEF TransmissionSound, Notice
  <2>4. CASE nwait # 0
    <3>1. xmit' = TRUE
        BY <1>1, <1>8, <2>4, Zenon DEF Transmit, AnyoneInterested
    <3>2. Notice' \in {"one", "all"}
        BY <3>1 DEF Notice
    <3>3. Registered # {}
        BY <1>1, <2>4, RegisteredFinite DEF TransmissionSound
    <3> QED BY <2>1, <2>2, <2>3, <3>2, <3>3, SameWaiters DEF Condition!Notify
  <2>5. CASE ~ (nwait # 0)
    <3>1. xmit' = xmit /\ bcast' = bcast
        BY <1>1, <1>8, <2>5, Zenon DEF Transmit, AnyoneInterested, Shapes
    <3> QED BY <2>1, <2>2, <3>1 DEF Notice
  <2> QED BY <2>4, <2>5
<1>9. CASE UNCHANGED vars
    BY <1>9 DEF vars, condvars, Where, Notice, Registered
<1> QED BY <1>2, <1>3, <1>4, <1>5, <1>6, <1>7, <1>8, <1>9, Zenon
        DEF Next, Call, Step, Enter, Condition!Next

\* fthreads.c implements the condition variable of hthreads.h, as far as what may
\* happen goes: a signal is received by one thread, that was waiting when it was
\* sent; a broadcast by all of them; and nobody goes on without one before its
\* time is up.
THEOREM ImplementsCondition == Spec => Condition!Spec
<1>1. Init => Condition!Init
    BY DEF Init, Condition!Init, Where, Notice, Registered
<1> QED BY <1>1, RefinesNext, InvHolds, PTL DEF Spec, Condition!Spec
=============================================================================
