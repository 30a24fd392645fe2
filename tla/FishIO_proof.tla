---------------------------- MODULE FishIO_proof -----------------------------
(***************************************************************************)
(* Proofs about FishIO, for any devices, threads and limits, as long as    *)
(* the devtmax command does not change the sign of devtmax.                *)
(***************************************************************************)
EXTENDS FishIO, ChainOps_proof

-----------------------------------------------------------------------------
(* The inductive invariant *)

\* Where each thread is says whether it is dead, what it works on, and how its
\* events are set; a thread asked to exit has nothing more to do.
Threads == \A t \in Thread :
    /\ t \in dead <=> pc[t] = "gone"
    /\ pc[t] = "none" => t \notin event /\ t \notin shutdown
    /\ work[t] # NoDev <=> pc[t] = "run"
    /\ pc[t] \in {"run", "reset"} => t \in event /\ t \notin shutdown /\ queue[t] = <<>>
    /\ t \in shutdown => t \in event /\ queue[t] = <<>>
    /\ pc[t] = "shut" => t \in shutdown
    /\ pc[t] = "mark" => devtmax < 0

\* A queue holds one request at most, and one only where the thread will find it.
Queues == \A t \in Thread :
    /\ queue[t] = <<>> \/ \E d \in Device : queue[t] = <<d>>
    /\ queue[t] # <<>> =>
        /\ t \in event /\ pc[t] \in {"wait", "look", "check", "once"}
        /\ devtmax < 0 => pc[t] \in {"wait", "look"}

\* A device has one request at most, and one thread has it.
Has(t, d) == work[t] = d \/ queue[t] = <<d>>
OneEach == \A t, u \in Thread, d \in Device : Has(t, d) /\ Has(u, d) => t = u

\* What the holder of the scheduler lock has found out stays so.
HolderSound ==
    /\ On(rest) \subseteq Listed
    /\ holder = "select" => devtmax >= 0
    /\ holder = "create" => devtmax < 0
    /\ IF holder \in {"select", "create"}
       THEN sdev \in Device /\ \A t \in Thread : ~Has(t, sdev) ELSE sdev = NoDev

Inv == TypeOK /\ BlocksSound /\ Threads /\ Queues /\ HolderSound /\ OneEach

-----------------------------------------------------------------------------
\* A device has its request queued or running if some thread has it.
LEMMA HasRequest ==
    ASSUME Inv, NEW d \in Device
    PROVE  /\ Queued(d) <=> \E t \in Thread : queue[t] = <<d>>
           /\ Queued(d) \/ Running(d) <=> \E t \in Thread : Has(t, d)
<1>1. \A t \in Thread : queue[t] = <<>> \/ \E e \in Device : queue[t] = <<e>>
    BY DEF Inv, Queues
<1>2. \A t \in Thread : (\E i \in 1..Len(queue[t]) : queue[t][i] = d) <=> queue[t] = <<d>>
  <2> TAKE t \in Thread
  <2>1. CASE queue[t] = <<>>
      BY <2>1
  <2>2. ASSUME NEW e \in Device, queue[t] = <<e>>
        PROVE  (\E i \in 1..Len(queue[t]) : queue[t][i] = d) <=> queue[t] = <<d>>
    <3>1. 1..Len(queue[t]) = {1} /\ queue[t][1] = e
        BY <2>2
    <3>2. queue[t] = <<d>> <=> e = d
        BY <2>2
    <3> QED BY <3>1, <3>2
  <2> QED BY <1>1, <2>1, <2>2
<1> QED BY <1>2 DEF Queued, Running, Has

\* RemoveThisThreadFromOurList for threads that are dead.
LEMMA DiscardSound ==
    ASSUME Inv, NEW S \in SUBSET dead, Discard(S), UNCHANGED <<work, queue, devtmax>>
    PROVE  /\ list' \in Seq(Thread) /\ Listed' = Listed \ S
           /\ pc' \in [Thread -> ThreadPc] /\ event' \subseteq Thread
           /\ shutdown' \subseteq Thread /\ dead' \subseteq Thread
           /\ BlocksSound' /\ Threads' /\ Queues' /\ OneEach'
           /\ \A t \in Thread, d \in Device : Has(t, d)' <=> Has(t, d)
<1>1. list' \in Seq(Thread) /\ Listed' = Listed \ S /\ Once(list')
    BY WithoutProperties DEF Discard, Listed, Inv, TypeOK, BlocksSound
<1>2. /\ pc \in [Thread -> ThreadPc]
      /\ \A t \in Thread : pc'[t] = IF t \in S THEN "none" ELSE pc[t]
      /\ pc' \in [Thread -> ThreadPc]
    BY DEF Discard, Inv, TypeOK, ThreadPc
<1>3. event' = event \ S /\ shutdown' = shutdown \ S /\ dead' = dead \ S
    BY DEF Discard
<1>4. dead \subseteq Thread /\ \A t \in S : t \in Thread /\ pc[t] = "gone"
    BY DEF Inv, TypeOK, BlocksSound
<1>5. BlocksSound'
    BY <1>1, <1>2, <1>3, <1>4 DEF Inv, BlocksSound
<1>6. Threads'
    BY <1>2, <1>3, <1>4 DEF Inv, Threads
<1>7. Queues'
    BY <1>2, <1>3, <1>4 DEF Inv, Queues
<1>8. OneEach' /\ \A t \in Thread, d \in Device : Has(t, d)' <=> Has(t, d)
    BY DEF Inv, OneEach, Has
<1> QED BY <1>1, <1>2, <1>3, <1>5, <1>6, <1>7, <1>8 DEF Inv, TypeOK

-----------------------------------------------------------------------------
LEMMA InvInit == Init => Inv
<1> SUFFICES ASSUME Init PROVE Inv
    OBVIOUS
<1>1. On(<<>>) = {} /\ Once(<<>>)
    BY DEF On, Once
<1>2. TypeOK
  <2>1. <<>> \in Seq(Thread) /\ <<>> \in Seq(Device)
      OBVIOUS
  <2> QED BY <2>1 DEF Init, TypeOK, ThreadPc
<1>3. BlocksSound /\ Threads /\ Queues
    BY <1>1 DEF Init, BlocksSound, Listed, Threads, Queues
<1>4. HolderSound /\ OneEach
    BY <1>1, FishAssumption DEF Init, HolderSound, Listed, OneEach, Has
<1> QED BY <1>2, <1>3, <1>4 DEF Inv

\* A thread that takes a step leaves the list and the holder of the lock alone,
\* and no request comes to it by that.
LEMMA ThreadStepSound ==
    ASSUME Inv, NEW t \in Thread, Wake(t) \/ Timeout(t) \/ ThreadStep(t)
    PROVE  Inv'
<1>1. UNCHANGED <<list, shutdown, devtmax, holder, sdev, rest, console>>
    BY DEF Wake, Timeout, WaitEnds, ThreadStep, LookEmpty, LookWork, Finish, ResetEvent,
       CheckShutdown, CheckOnce, MarkDead, Shut
<1>2. /\ pc[t] \notin {"none", "gone"} /\ pc'[t] \notin {"none"}
      /\ pc' \in [Thread -> ThreadPc] /\ \A u \in Thread \ {t} : pc'[u] = pc[u]
    BY DEF Wake, Timeout, WaitEnds, ThreadStep, LookEmpty, LookWork, Finish, ResetEvent,
       CheckShutdown, CheckOnce, MarkDead, Shut, Move, Inv, TypeOK, ThreadPc
<1>3. /\ work' \in [Thread -> Device \cup {NoDev}] /\ queue' \in [Thread -> Seq(Device)]
      /\ \A u \in Thread \ {t} : work'[u] = work[u] /\ queue'[u] = queue[u]
  <2>1. CASE LookWork(t)
    <3>1. queue[t] \in Seq(Device) /\ queue[t] # <<>>
        BY <2>1 DEF LookWork, Inv, TypeOK
    <3>2. Head(queue[t]) \in Device /\ Tail(queue[t]) \in Seq(Device)
        BY <3>1, HeadTailProperties
    <3> QED BY <2>1, <3>2 DEF LookWork, Inv, TypeOK
  <2>2. CASE Finish(t)
      BY <2>2 DEF Finish, Inv, TypeOK
  <2>3. CASE Shut(t)
    <3>1. <<>> \in Seq(Device)
        OBVIOUS
    <3> QED BY <2>3, <3>1 DEF Shut, Inv, TypeOK
  <2>4. CASE ~LookWork(t) /\ ~Finish(t) /\ ~Shut(t)
    <3>1. UNCHANGED <<work, queue>>
        BY <2>4 DEF Wake, Timeout, WaitEnds, ThreadStep, LookEmpty, ResetEvent, CheckShutdown,
           CheckOnce, MarkDead
    <3> QED BY <3>1 DEF Inv, TypeOK
  <2> QED BY <2>1, <2>2, <2>3, <2>4
<1>4. /\ event' \subseteq Thread /\ dead' \subseteq Thread
      /\ \A u \in Thread \ {t} : (u \in event' <=> u \in event) /\ (u \in dead' <=> u \in dead)
    BY DEF Wake, Timeout, WaitEnds, ThreadStep, LookEmpty, LookWork, Finish, ResetEvent,
       CheckShutdown, CheckOnce, MarkDead, Shut, Move, Inv, TypeOK
<1>5. TypeOK'
    BY <1>1, <1>2, <1>3, <1>4 DEF Inv, TypeOK
<1>6. t \in dead' <=> pc'[t] = "gone"
    BY DEF Wake, Timeout, WaitEnds, ThreadStep, LookEmpty, LookWork, Finish, ResetEvent,
       CheckShutdown, CheckOnce, MarkDead, Shut, Move, Inv, TypeOK, Threads
<1>7. BlocksSound'
    BY <1>1, <1>2, <1>4, <1>6 DEF Inv, BlocksSound, Listed, Threads
<1>8. queue[t] = <<>> \/ \E d \in Device : queue[t] = <<d>>
    BY DEF Inv, Queues
<1>9. /\ (work'[t] # NoDev <=> pc'[t] = "run")
      /\ (pc'[t] \in {"run", "reset"} => t \in event' /\ t \notin shutdown' /\ queue'[t] = <<>>)
      /\ (t \in shutdown' => t \in event' /\ queue'[t] = <<>>)
      /\ (pc'[t] = "shut" => t \in shutdown')
      /\ (pc'[t] = "mark" => devtmax' < 0)
      /\ (queue'[t] = <<>> \/ queue'[t] = queue[t])
      /\ queue'[t] # <<>> =>
            /\ t \in event' /\ pc'[t] \in {"wait", "look", "check", "once"}
            /\ devtmax' < 0 => pc'[t] \in {"wait", "look"}
      /\ \A d \in Device : work'[t] = d \/ queue'[t] = <<d>> => work[t] = d \/ queue[t] = <<d>>
  <2>1. CASE WaitEnds(t)
      BY <2>1 DEF WaitEnds, Move, Inv, TypeOK, Threads, Queues
  <2>2. CASE LookEmpty(t)
      BY <2>2 DEF LookEmpty, Move, Inv, TypeOK, Threads, Queues
  <2>3. CASE LookWork(t)
    <3>1. PICK d \in Device : queue[t] = <<d>>
        BY <1>8, <2>3 DEF LookWork
    <3>2. Head(queue[t]) = d /\ Tail(queue[t]) = <<>>
        BY <3>1
    <3>3. work'[t] = d /\ queue'[t] = <<>> /\ pc'[t] = "run" /\ d # NoDev
        BY <2>3, <3>2, FishAssumption DEF LookWork, Move, Inv, TypeOK
    <3>4. t \in event' /\ t \notin shutdown'
        BY <2>3, <3>1 DEF LookWork, Inv, Threads, Queues
    <3> QED BY <3>1, <3>3, <3>4
  <2>4. CASE Finish(t)
      BY <2>4, FishAssumption DEF Finish, Move, Inv, TypeOK, Threads, Queues
  <2>5. CASE ResetEvent(t)
      BY <2>5 DEF ResetEvent, Move, Inv, TypeOK, Threads, Queues
  <2>6. CASE CheckShutdown(t)
      BY <2>6 DEF CheckShutdown, Move, Inv, TypeOK, Threads, Queues
  <2>7. CASE CheckOnce(t)
      BY <2>7 DEF CheckOnce, Move, Inv, TypeOK, Threads, Queues
  <2>8. CASE MarkDead(t)
      BY <2>8 DEF MarkDead, Move, Inv, TypeOK, Threads, Queues
  <2>9. CASE Shut(t)
      BY <2>9, FishAssumption DEF Shut, Move, Inv, TypeOK, Threads, Queues
  <2> QED BY <2>1, <2>2, <2>3, <2>4, <2>5, <2>6, <2>7, <2>8, <2>9 DEF Wake, Timeout, ThreadStep
<1>10. Threads'
    BY <1>1, <1>2, <1>3, <1>4, <1>6, <1>9 DEF Inv, Threads
<1>11. Queues'
  <2>1. queue'[t] = <<>> \/ \E d \in Device : queue'[t] = <<d>>
      BY <1>8, <1>9
  <2>2. \A u \in Thread \ {t} : /\ queue'[u] = queue[u] /\ pc'[u] = pc[u]
                                /\ (u \in event' <=> u \in event) /\ devtmax' = devtmax
      BY <1>1, <1>2, <1>3, <1>4
  <2>3. ASSUME NEW u \in Thread
        PROVE  /\ queue'[u] = <<>> \/ \E d \in Device : queue'[u] = <<d>>
               /\ queue'[u] # <<>> =>
                    /\ u \in event' /\ pc'[u] \in {"wait", "look", "check", "once"}
                    /\ devtmax' < 0 => pc'[u] \in {"wait", "look"}
    <3>1. CASE u = t
        BY <1>9, <2>1, <3>1
    <3>2. CASE u # t
        BY <2>2, <3>2 DEF Inv, Queues
    <3> QED BY <3>1, <3>2
  <2> QED BY <2>3 DEF Queues
<1>12. \A u \in Thread, d \in Device : Has(u, d)' => Has(u, d)
    BY <1>3, <1>9 DEF Has
<1>13. OneEach'
    BY <1>12 DEF Inv, OneEach
<1>14. HolderSound'
    BY <1>1, <1>12 DEF Inv, HolderSound, Listed
<1> QED BY <1>5, <1>7, <1>10, <1>11, <1>13, <1>14 DEF Inv

-----------------------------------------------------------------------------
\* Giving the request to an idle thread, or to the one just created.
LEMMA GiveSound ==
    ASSUME Inv, holder \in {"select", "create"}, NEW t \in Thread,
           t \notin event, t \notin dead, pc'[t] # "none", Give(t, sdev), Release,
           holder = "create" => pc'[t] = "wait",
           pc' \in [Thread -> ThreadPc], pc'[t] = pc[t] \/ pc'[t] = "wait",
           pc[t] = "none" <=> t \notin Listed,
           \A u \in Thread \ {t} : pc'[u] = pc[u],
           list' \in Seq(Thread), On(list') = On(list) \cup {t}, Once(list'),
           UNCHANGED <<work, shutdown, dead, devtmax, console>>
    PROVE  Inv' /\ queue' = [queue EXCEPT ![t] = <<sdev>>]
<1>1. sdev \in Device /\ \A u \in Thread : ~Has(u, sdev)
    BY DEF Inv, HolderSound
<1>2. queue[t] = <<>> /\ t \notin shutdown /\ pc[t] \notin {"run", "reset", "gone", "shut"}
    BY DEF Inv, Threads, Queues
<1>3. /\ pc'[t] \in {"wait", "look", "check", "once"}
      /\ devtmax < 0 => pc'[t] = "wait"
  <2>1. devtmax \in Int
      BY FishAssumption DEF Inv, TypeOK
  <2>2. CASE holder = "select"
    <3>1. ~ (devtmax < 0)
        BY <2>1, <2>2 DEF Inv, HolderSound
    <3>2. pc[t] # "mark"
        BY <3>1 DEF Inv, Threads
    <3> QED BY <1>2, <3>1, <3>2 DEF ThreadPc
  <2>3. CASE holder = "create"
      BY <2>3
  <2> QED BY <2>2, <2>3
<1>4. queue' = [queue EXCEPT ![t] = <<sdev>>] /\ event' = event \cup {t}
    BY <1>2 DEF Give, Inv, TypeOK
<1>5. TypeOK'
  <2>1. <<sdev>> \in Seq(Device) /\ <<>> \in Seq(Thread)
      BY <1>1
  <2> QED BY <1>1, <1>4, <2>1 DEF Release, Inv, TypeOK
<1>6. BlocksSound'
  <2>1. dead \subseteq Thread
      BY DEF Inv, TypeOK
  <2> QED BY <2>1 DEF Inv, BlocksSound, Listed
<1>7. Threads'
    BY <1>2, <1>3, <1>4 DEF Inv, Threads
<1>8. \A u \in Thread : queue'[u] = IF u = t THEN <<sdev>> ELSE queue[u]
    BY <1>4 DEF Inv, TypeOK
<1>9. Queues'
    BY <1>1, <1>3, <1>4, <1>8 DEF Inv, Queues
<1>10. OneEach'
    BY <1>1, <1>2, <1>8 DEF Inv, OneEach, Has
<1>11. HolderSound'
    BY OnHead DEF Release, HolderSound, Listed
<1> QED BY <1>4, <1>5, <1>6, <1>7, <1>9, <1>10, <1>11 DEF Inv

\* The steps of ScheduleIORequest and of TrimDeviceThreads.
LEMMA SelectSound == Inv /\ Select => Inv'
<1> SUFFICES ASSUME Inv, Select PROVE Inv'
    OBVIOUS
<1>1. /\ list \in Seq(Thread) /\ rest \in Seq(Thread) /\ pc \in [Thread -> ThreadPc]
      /\ On(rest) \subseteq Listed /\ Once(list)
      /\ Listed \subseteq Thread /\ On(<<>>) = {}
  <2>1. list \in Seq(Thread) /\ rest \in Seq(Thread) /\ pc \in [Thread -> ThreadPc]
        /\ On(rest) \subseteq Listed /\ Once(list)
      BY DEF Inv, TypeOK, HolderSound, BlocksSound
  <2> QED BY <2>1, OnHead DEF Listed
<1>2. CASE SelectDead
  <2>1. Discard({Head(rest)}) /\ {Head(rest)} \in SUBSET dead /\ UNCHANGED <<work, queue, devtmax>>
      BY <1>2 DEF SelectDead
  <2> QED BY <1>2, <2>1, DiscardSound DEF SelectDead, Inv, TypeOK, HolderSound, Listed
<1>3. CASE SelectIdle
  <2> DEFINE t == Head(rest)
  <2>1. t \in Listed
      BY <1>1, <1>3, OnHead DEF SelectIdle
  <2>2. t \in Thread /\ pc[t] # "none"
      BY <1>1, <2>1 DEF Inv, BlocksSound
  <2>3. /\ Without(list, {t}) \in Seq(Thread) /\ On(Without(list, {t})) = Listed \ {t}
        /\ Once(Without(list, {t}))
      BY <1>1, WithoutProperties DEF Listed
  <2>4. /\ list' \in Seq(Thread) /\ On(list') = (Listed \ {t}) \cup {t} /\ Once(list')
      BY <1>3, <2>2, <2>3, OnAppend DEF SelectIdle
  <2> HIDE DEF t
  <2>5. On(list') = On(list) \cup {t}
      BY <2>1, <2>4 DEF Listed
  <2>6. /\ holder = "select" /\ t \notin dead /\ t \notin event /\ Give(t, sdev) /\ Release
        /\ UNCHANGED <<pc, work, shutdown, dead, devtmax, console>>
      BY <1>3 DEF SelectIdle, t
  <2> QED BY <1>1, <2>1, <2>2, <2>4, <2>5, <2>6, GiveSound
<1>4. CASE SelectBusy
  <2>1. Tail(rest) \in Seq(Thread) /\ On(Tail(rest)) \subseteq On(rest)
      BY <1>1, <1>4, OnHead DEF SelectBusy
  <2> QED BY <1>4, <2>1 DEF SelectBusy, threadvars, Inv, TypeOK, BlocksSound, Threads, Queues, OneEach,
             Has, HolderSound, Listed
<1>5. ASSUME NEW t \in Thread, Create(t) PROVE Inv'
  <2>1. t \notin Listed /\ t \notin event /\ t \notin dead
      BY <1>5 DEF Create, Inv, BlocksSound, Threads
  <2>2. list' \in Seq(Thread) /\ On(list') = On(list) \cup {t} /\ Once(list')
      BY <1>1, <1>5, <2>1, OnAppend DEF Create, Listed
  <2>3. /\ pc' \in [Thread -> ThreadPc] /\ pc'[t] = "wait"
        /\ \A u \in Thread \ {t} : pc'[u] = pc[u]
      BY <1>1, <1>5 DEF Create, ThreadPc
  <2>4. /\ holder \in {"select", "create"} /\ Give(t, sdev) /\ Release /\ pc[t] = "none"
        /\ UNCHANGED <<work, shutdown, dead, devtmax, console>>
      BY <1>5 DEF Create, Creating
  <2> QED BY <2>1, <2>2, <2>3, <2>4, GiveSound
<1>6. CASE CreateFail
  <2>1. <<>> \in Seq(Thread)
      OBVIOUS
  <2> QED BY <1>1, <1>6, <2>1 DEF CreateFail, Release, threadvars, Inv, TypeOK, BlocksSound, Threads, Queues,
             OneEach, Has, HolderSound, Listed
<1> QED BY <1>2, <1>3, <1>4, <1>5, <1>6 DEF Select

LEMMA TrimSound == Inv /\ Trim => Inv'
<1> SUFFICES ASSUME Inv, Trim PROVE Inv'
    OBVIOUS
<1>1. /\ list \in Seq(Thread) /\ rest \in Seq(Thread) /\ On(rest) \subseteq Listed
      /\ Listed \subseteq Thread /\ On(<<>>) = {} /\ <<>> \in Seq(Thread)
  <2>1. /\ list \in Seq(Thread) /\ rest \in Seq(Thread) /\ On(rest) \subseteq Listed
        /\ <<>> \in Seq(Thread)
      BY DEF Inv, TypeOK, HolderSound
  <2> QED BY <2>1, OnHead DEF Listed
<1> DEFINE Same == Threads' /\ Queues' /\ OneEach' /\ BlocksSound'
<1>2. ASSUME UNCHANGED <<list, threadvars, devtmax>> PROVE Same
    BY <1>2 DEF threadvars, Inv, Threads, Queues, OneEach, Has, BlocksSound, Listed
<1>3. CASE TrimBegin
  <2>1. Same
      BY <1>2, <1>3 DEF TrimBegin
  <2> QED BY <1>1, <1>3, <2>1 DEF TrimBegin, threadvars, Inv, TypeOK, HolderSound, Listed
<1>4. CASE TrimBusy
  <2>1. Same
      BY <1>2, <1>4 DEF TrimBusy
  <2>2. Tail(rest) \in Seq(Thread) /\ On(Tail(rest)) \subseteq On(rest)
      BY <1>1, <1>4, OnHead DEF TrimBusy, Trimming
  <2> QED BY <1>1, <1>4, <2>1, <2>2
          DEF TrimBusy, Trimming, threadvars, Inv, TypeOK, HolderSound, Listed
<1>5. CASE TrimIdle
  <2> DEFINE t == Head(rest)
  <2>1. /\ Tail(rest) \in Seq(Thread) /\ On(Tail(rest)) \subseteq On(rest)
        /\ t \in Listed /\ t \in Thread
      BY <1>1, <1>5, OnHead DEF TrimIdle, Trimming
  <2> HIDE DEF t
  <2>2. /\ t \notin event /\ event' = event \cup {t} /\ shutdown' = shutdown \cup {t}
        /\ UNCHANGED <<list, pc, work, queue, dead, devtmax, sdev, console>>
        /\ holder = "trim" /\ holder' = "reap" /\ rest' = Tail(rest)
      BY <1>5 DEF TrimIdle, Trimming, t
  <2>3. pc[t] \notin {"none", "run", "reset"} /\ queue[t] = <<>>
      BY <2>1, <2>2 DEF Inv, BlocksSound, Threads, Queues
  <2>4. Threads' /\ Queues' /\ OneEach' /\ BlocksSound'
      BY <2>1, <2>2, <2>3 DEF Inv, Threads, Queues, OneEach, Has, BlocksSound, Listed
  <2> QED BY <1>1, <2>1, <2>2, <2>4 DEF Inv, TypeOK, HolderSound, Listed
<1>6. CASE TrimReap
  <2>1. /\ Discard(dead \cap Listed) /\ dead \cap Listed \in SUBSET dead
        /\ UNCHANGED <<work, queue, devtmax, sdev, console>>
        /\ holder = "reap" /\ holder' = "trim"
      BY <1>6 DEF TrimReap
  <2>2. Without(rest, dead) \in Seq(Thread) /\ On(Without(rest, dead)) = On(rest) \ dead
      BY <1>1, WithoutProperties
  <2>3. rest' \in Seq(Thread) /\ On(rest') \subseteq Listed \ (dead \cap Listed)
    <3>1. rest' = Without(rest, dead) \/ rest' = <<>>
        BY <1>6 DEF TrimReap
    <3> QED BY <1>1, <2>2, <3>1
  <2> QED BY <2>1, <2>3, DiscardSound DEF Inv, TypeOK, HolderSound
<1>7. CASE TrimEnd
  <2>1. Same
      BY <1>2, <1>7 DEF TrimEnd
  <2> QED BY <1>1, <1>7, <2>1 DEF TrimEnd, Trimming, Release, threadvars, Inv, TypeOK, HolderSound, Listed
<1> QED BY <1>3, <1>4, <1>5, <1>6, <1>7 DEF Trim

\* A request that comes in, for a device that has none.
LEMMA ScheduleSound ==
    ASSUME Inv, NEW d \in Device, SchedulePooled(d) \/ ScheduleOnce(d)
    PROVE  Inv'
<1>1. \A t \in Thread : ~Has(t, d)
    BY HasRequest DEF SchedulePooled, ScheduleOnce
<1>2. /\ list \in Seq(Thread) /\ <<>> \in Seq(Thread) /\ On(<<>>) = {}
    BY OnHead DEF Inv, TypeOK
<1>3. CASE SchedulePooled(d)
    BY <1>1, <1>2, <1>3 DEF SchedulePooled, threadvars, Inv, TypeOK, BlocksSound, Threads, Queues, OneEach,
       Has, HolderSound, Listed
<1>4. CASE ScheduleOnce(d)
  <2>1. Discard(dead \cap Listed) /\ dead \cap Listed \in SUBSET dead
      BY <1>4 DEF ScheduleOnce
  <2>2. UNCHANGED <<work, queue, devtmax>>
      BY <1>4 DEF ScheduleOnce
  <2> QED BY <1>1, <1>2, <1>4, <2>1, <2>2, DiscardSound DEF ScheduleOnce, Inv, TypeOK, HolderSound
<1> QED BY <1>3, <1>4

\* The command may change the limit at any time, but here not its sign.
LEMMA SetDevtmaxSound ==
    ASSUME Inv, ~AllowSwitch, NEW n \in Limits, SetDevtmax(n)
    PROVE  Inv'
<1>1. devtmax \in Int /\ n \in Int /\ devtmax' = n /\ (devtmax < 0 <=> n < 0)
    BY FishAssumption DEF SetDevtmax, Inv, TypeOK
<1>2. devtmax >= 0 => devtmax' >= 0
    BY <1>1
<1> QED BY <1>1, <1>2 DEF SetDevtmax, threadvars, Inv, TypeOK, BlocksSound, Threads, Queues, OneEach, Has,
       HolderSound, Listed

LEMMA InvNext == ASSUME ~AllowSwitch PROVE Inv /\ [Next]_vars => Inv'
<1> SUFFICES ASSUME Inv, [Next]_vars PROVE Inv'
    OBVIOUS
<1>1. CASE UNCHANGED vars
  <2>1. /\ UNCHANGED <<list, pc, work, queue, event, shutdown, dead, devtmax, holder, sdev, rest, console>>
        /\ \A t \in Thread, d \in Device : Has(t, d)' <=> Has(t, d)
      BY <1>1 DEF vars, threadvars, Has
  <2>2. TypeOK' /\ BlocksSound'
      BY <2>1 DEF Inv, TypeOK, BlocksSound, Listed
  <2>3. Threads' /\ Queues'
      BY <2>1 DEF Inv, Threads, Queues
  <2>4. OneEach'
      BY <2>1 DEF Inv, OneEach
  <2>5. HolderSound'
      BY <2>1 DEF Inv, HolderSound, Has, Listed
  <2> QED BY <2>2, <2>3, <2>4, <2>5 DEF Inv
<1>2. ASSUME NEW d \in Device, SchedulePooled(d) \/ ScheduleOnce(d) PROVE Inv'
    BY <1>2, ScheduleSound
<1>3. ASSUME NEW t \in Thread, Wake(t) \/ Timeout(t) \/ ThreadStep(t) PROVE Inv'
    BY <1>3, ThreadStepSound
<1>4. ASSUME NEW n \in Limits, SetDevtmax(n) PROVE Inv'
    BY <1>4, SetDevtmaxSound
<1> QED BY <1>1, <1>2, <1>3, <1>4, SelectSound, TrimSound DEF Next

-----------------------------------------------------------------------------
(* The theorems *)

\* Every variable keeps its type.
THEOREM TypeCorrect == ASSUME ~AllowSwitch PROVE Spec => []TypeOK
<1>1. Inv => TypeOK
    BY DEF Inv
<1> QED BY <1>1, InvInit, InvNext, PTL DEF Spec

\* ScheduleIORequest, DeviceThread, RemoveDeadThreadsFromList: a parms block is
\* on the list exactly while it is allocated, and freed only when its thread has
\* returned.
THEOREM BlocksAreSound == ASSUME ~AllowSwitch PROVE Spec => []BlocksSound
<1>1. Inv => BlocksSound
    BY DEF Inv
<1> QED BY <1>1, InvInit, InvNext, PTL DEF Spec

\* SelectDeviceThread, DeviceThread: no request is left with a thread that has
\* exited, is about to, or has another device's request.
THEOREM QueuedIsServed == ASSUME ~AllowSwitch PROVE Spec => []QueuedServed
<1>1. Inv => QueuedServed
  <2> SUFFICES ASSUME Inv, NEW t \in Thread, queue[t] # <<>>
               PROVE  /\ t \in Listed /\ t \in event /\ t \notin dead
                      /\ pc[t] \notin {"mark", "shut", "gone"}
                      /\ Len(queue[t]) = 1 /\ work[t] = NoDev
      BY DEF QueuedServed
  <2>1. t \in event /\ pc[t] \in {"wait", "look", "check", "once"}
      BY DEF Inv, Queues
  <2>2. t \in Listed /\ t \notin dead /\ work[t] = NoDev
      BY <2>1 DEF Inv, BlocksSound, Threads
  <2>3. PICK d \in Device : queue[t] = <<d>>
      BY DEF Inv, Queues
  <2>4. Len(queue[t]) = 1
      BY <2>3
  <2> QED BY <2>1, <2>2, <2>4
<1> QED BY <1>1, InvInit, InvNext, PTL DEF Spec

-----------------------------------------------------------------------------
(* What the abstract scheduler sees *)

\* Under the invariant a device is running, queued or idle by what its thread has.
StageIs ==
    \A d \in Device :
        /\ (\E t \in Thread : work[t] = d) => Stage[d] = "running"
        /\ (\E t \in Thread : queue[t] = <<d>>) => Stage[d] = "queued"
        /\ (\A t \in Thread : ~Has(t, d)) => Stage[d] = "idle"

LEMMA StageKnown == Inv => StageIs
<1> SUFFICES ASSUME Inv, NEW d \in Device
             PROVE  /\ (\E t \in Thread : work[t] = d) => Stage[d] = "running"
                    /\ (\E t \in Thread : queue[t] = <<d>>) => Stage[d] = "queued"
                    /\ (\A t \in Thread : ~Has(t, d)) => Stage[d] = "idle"
    BY DEF StageIs
<1>1. Stage[d] = IF Running(d) THEN "running" ELSE IF Queued(d) THEN "queued" ELSE "idle"
    BY DEF Stage
<1>2. /\ Queued(d) <=> \E t \in Thread : queue[t] = <<d>>
      /\ Queued(d) \/ Running(d) <=> \E t \in Thread : Has(t, d)
    BY HasRequest
<1>3. (\E t \in Thread : queue[t] = <<d>>) => ~Running(d)
  <2> SUFFICES ASSUME NEW t \in Thread, queue[t] = <<d>>, NEW u \in Thread, work[u] = d
               PROVE  FALSE
      BY DEF Running
  <2>1. t = u
      BY DEF Inv, OneEach, Has
  <2>2. work[u] # NoDev
      BY FishAssumption
  <2> QED BY <2>1, <2>2 DEF Inv, Threads
<1> QED BY <1>1, <1>2, <1>3 DEF Running

\* Who has which request, but for those of the devices in D, is as it was.
SameBut(D) == \A t \in Thread, e \in Device \ D :
    (work'[t] = e <=> work[t] = e) /\ (queue'[t] = <<e>> <=> queue[t] = <<e>>)

\* A step that leaves the requests of the other devices alone moves the stage of
\* one device.
LEMMA StageMoves ==
    ASSUME StageIs, StageIs', NEW d \in Device, SameBut({d})
    PROVE  Stage' = [Stage EXCEPT ![d] = Stage'[d]]
<1>1. ASSUME NEW e \in Device \ {d} PROVE Stage'[e] = Stage[e]
  <2>1. CASE \E t \in Thread : work[t] = e
      BY <2>1 DEF StageIs, SameBut
  <2>2. CASE \E t \in Thread : queue[t] = <<e>>
      BY <2>2 DEF StageIs, SameBut
  <2>3. CASE \A t \in Thread : ~Has(t, e)
      BY <2>3 DEF StageIs, SameBut, Has
  <2> QED BY <2>1, <2>2, <2>3 DEF Has
<1>2. Stage' = [e \in Device |-> Stage'[e]] /\ Stage = [e \in Device |-> Stage[e]]
    BY DEF Stage
<1> QED BY <1>1, <1>2

\* A step that leaves all of them alone is nothing to the scheduler.
LEMMA StageSame == ASSUME StageIs, StageIs', SameBut({}) PROVE Stage' = Stage
<1>1. ASSUME NEW e \in Device PROVE Stage'[e] = Stage[e]
  <2>1. CASE \E t \in Thread : work[t] = e
      BY <2>1 DEF StageIs, SameBut
  <2>2. CASE \E t \in Thread : queue[t] = <<e>>
      BY <2>2 DEF StageIs, SameBut
  <2>3. CASE \A t \in Thread : ~Has(t, e)
      BY <2>3 DEF StageIs, SameBut, Has
  <2> QED BY <2>1, <2>2, <2>3 DEF Has
<1>2. Stage' = [e \in Device |-> Stage'[e]] /\ Stage = [e \in Device |-> Stage[e]]
    BY DEF Stage
<1> QED BY <1>1, <1>2

\* Giving a request to a thread accepts it.
LEMMA GiveAccepts ==
    ASSUME Inv, StageIs, StageIs', holder \in {"select", "create"},
           NEW t \in Thread, t \notin event, Give(t, sdev), UNCHANGED work
    PROVE  Abstract!Next
<1>1. sdev \in Device /\ \A u \in Thread : ~Has(u, sdev)
    BY DEF Inv, HolderSound
<1>2. queue[t] = <<>>
    BY DEF Inv, Queues
<1>3. \A u \in Thread : queue'[u] = IF u = t THEN <<sdev>> ELSE queue[u]
    BY <1>2 DEF Give, Inv, TypeOK
<1>4. SameBut({sdev})
    BY <1>2, <1>3 DEF SameBut
<1>5. Stage[sdev] = "idle" /\ Stage'[sdev] = "queued"
    BY <1>1, <1>3 DEF StageIs
<1> QED BY <1>1, <1>4, <1>5, StageMoves DEF Abstract!Next, Abstract!Accept, Abstract!Step

\* DeviceThread takes a request off its queue, executes it, and is done with it.
LEMMA ThreadStepStage ==
    ASSUME Inv, StageIs, StageIs', NEW t \in Thread, Wake(t) \/ Timeout(t) \/ ThreadStep(t)
    PROVE  [Abstract!Next]_Stage
<1>1. CASE LookWork(t)
  <2>1. PICK d \in Device : queue[t] = <<d>>
      BY <1>1 DEF LookWork, Inv, Queues
  <2>2. Head(queue[t]) = d /\ Tail(queue[t]) = <<>>
      BY <2>1
  <2>3. /\ \A u \in Thread : work'[u] = IF u = t THEN d ELSE work[u]
        /\ \A u \in Thread : queue'[u] = IF u = t THEN <<>> ELSE queue[u]
        /\ work[t] = NoDev
      BY <1>1, <2>2 DEF LookWork, Move, Inv, TypeOK, Threads
  <2>4. SameBut({d})
    <3>1. \A e \in Device \ {d} : <<e>> # <<d>> /\ <<e>> # <<>> /\ e # NoDev
        BY FishAssumption
    <3> QED BY <2>1, <2>3, <3>1 DEF SameBut
  <2>5. Stage[d] = "queued" /\ Stage'[d] = "running"
      BY <2>1, <2>3 DEF StageIs
  <2> QED BY <2>4, <2>5, StageMoves DEF Abstract!Next, Abstract!Run, Abstract!Step
<1>2. CASE Finish(t)
  <2>1. PICK d \in Device : work[t] = d
      BY <1>2 DEF Finish, Move, Inv, TypeOK, Threads
  <2>2. /\ \A u \in Thread : work'[u] = IF u = t THEN NoDev ELSE work[u]
        /\ queue' = queue /\ queue[t] = <<>>
      BY <1>2 DEF Finish, Move, Inv, TypeOK, Threads
  <2>3. SameBut({d})
      BY <2>1, <2>2, FishAssumption DEF SameBut
  <2>4. \A u \in Thread : ~Has(u, d)'
    <3>1. \A u \in Thread \ {t} : ~Has(u, d)
        BY <2>1 DEF Inv, OneEach, Has
    <3> QED BY <2>2, <3>1, FishAssumption DEF Has
  <2>5. Stage[d] = "running" /\ Stage'[d] = "idle"
      BY <2>1, <2>4 DEF StageIs
  <2> QED BY <2>3, <2>5, StageMoves DEF Abstract!Next, Abstract!End, Abstract!Step
<1>3. CASE ~LookWork(t) /\ ~Finish(t)
  <2>1. UNCHANGED <<work, queue>>
    <3>1. CASE Shut(t)
      <4>1. queue[t] = <<>>
          BY <3>1 DEF Shut, Move, Inv, Threads
      <4> QED BY <3>1, <4>1 DEF Shut, Inv, TypeOK
    <3>2. CASE ~Shut(t)
        BY <1>3, <3>2 DEF Wake, Timeout, WaitEnds, ThreadStep, LookEmpty, ResetEvent, CheckShutdown,
           CheckOnce, MarkDead
    <3> QED BY <3>1, <3>2
  <2> QED BY <2>1, StageSame DEF SameBut
<1> QED BY <1>1, <1>2, <1>3

LEMMA StageNext == Inv /\ StageIs /\ StageIs' /\ [Next]_vars => [Abstract!Next]_Stage
<1> SUFFICES ASSUME Inv, StageIs, StageIs', [Next]_vars PROVE [Abstract!Next]_Stage
    OBVIOUS
<1>1. ASSUME UNCHANGED <<work, queue>> PROVE Stage' = Stage
    BY <1>1, StageSame DEF SameBut
<1>2. CASE UNCHANGED vars
    BY <1>1, <1>2 DEF vars, threadvars
<1>3. ASSUME NEW d \in Device, SchedulePooled(d) \/ ScheduleOnce(d) PROVE Stage' = Stage
    BY <1>1, <1>3 DEF SchedulePooled, ScheduleOnce, threadvars
<1>4. CASE SelectDead \/ SelectBusy \/ CreateFail
    BY <1>1, <1>4 DEF SelectDead, SelectBusy, CreateFail, threadvars
<1>5. CASE SelectIdle
  <2>1. Head(rest) \in Thread
    <3>1. rest \in Seq(Thread) /\ rest # <<>>
        BY <1>5 DEF SelectIdle, Inv, TypeOK
    <3> QED BY <3>1
  <2> QED BY <1>5, <2>1, GiveAccepts DEF SelectIdle
<1>6. ASSUME NEW t \in Thread, Create(t) PROVE [Abstract!Next]_Stage
  <2>1. t \notin event
      BY <1>6 DEF Create, Inv, Threads
  <2> QED BY <1>6, <2>1, GiveAccepts DEF Create, Creating
<1>7. CASE \E n \in Limits : SetDevtmax(n)
    BY <1>1, <1>7 DEF SetDevtmax, threadvars
<1>8. CASE Trim
    BY <1>1, <1>8 DEF Trim, TrimBegin, TrimBusy, TrimIdle, TrimReap, TrimEnd, threadvars
<1> QED BY <1>2, <1>3, <1>4, <1>5, <1>6, <1>7, <1>8, ThreadStepStage DEF Next, Select

\* w32chan.c executes only requests it has accepted, each of them once.  (That
\* it does execute them needs fairness, and is left to TLC.)
THEOREM ImplementsScheduler == ASSUME ~AllowSwitch PROVE Spec => Abstract!Spec
<1>1. Init => Abstract!Init
    BY FishAssumption DEF Init, Abstract!Init, Stage, Queued, Running
<1> QED BY <1>1, InvInit, InvNext, StageKnown, StageNext, PTL DEF Spec, Abstract!Spec
=============================================================================
