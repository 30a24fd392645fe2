----------------------------- MODULE CckdCache ------------------------------
(***************************************************************************)
(* The track cache of the compressed disks (src/hercules/cckddasd.c): the  *)
(* i/o thread of each device, the readahead threads, the writers that      *)
(* write updated tracks behind the i/o, the garbage collector, and the     *)
(* thread of an operator command that closes a device or adds a shadow     *)
(* file (the other sf commands empty the cache in the same way).           *)
(*                                                                         *)
(* A section under a device's iolock, cckdblk.wrlock, cckdblk.ralock or    *)
(* the cache lock is one action: the locks are taken in that order and     *)
(* nobody waits for anything else while holding one.  Reading and writing  *)
(* a file happens between such sections.  The device chain's lock, held    *)
(* over several of them, is explicit.  A condition is the set of threads   *)
(* blocked in wait_condition on it.                                        *)
(*                                                                         *)
(* An image is the number of updates made to its track, or the null image  *)
(* that stands for a track that could not be read.  Ages are left out: any *)
(* entry that is not busy may be stolen and any pending write may be the   *)
(* oldest.                                                                 *)
(***************************************************************************)
EXTENDS Integers, FiniteSets, ChainOps

CONSTANTS
    Dev,            \* compressed devices, and their i/o threads
    Ra,             \* readahead threads: cckdblk.ramax of them
    Writer,         \* writer threads: cckdblk.wrmax of them
    Entry,          \* entries of the cache
    Tracks,         \* the tracks of each device that programs use
    Command,        \* the commands an operator gives for each device
    Ahead,          \* cckdblk.readaheads, tracks to read ahead
    RaQueue,        \* cckdblk.ranbr, length of the readahead queue
    FSync,          \* cckdblk.fsync
    Races,          \* whether sf may be given during a readahead, and close while a
                    \* program waits for sf to end: neither command looks
    Written,        \* the tracks that programs update
    Faulty,         \* the tracks whose images may fail to be read from their file
    Fragile,        \* the tracks whose images may fail to be written to it
    MaxImage,       \* bound on the updates of one track
    MaxPending,     \* bound on cckdblk.wrpending, which counts tracks taken back too
    None

Key == Dev \X UNION {Tracks[d] : d \in Dev}
Null == -1
Image == Null..MaxImage

ASSUME CckdAssumption ==
    /\ Tracks \in [Dev -> SUBSET Nat]
    /\ Command \in [Dev -> SUBSET {"close", "sf"}]
    /\ Ahead \in Nat /\ RaQueue \in Nat
    /\ Written \subseteq Key /\ Faulty \subseteq Key /\ Fragile \subseteq Key
    /\ MaxImage \in Nat /\ MaxPending \in Nat
    /\ FSync \in BOOLEAN /\ Races \in BOOLEAN
    /\ None \notin Dev \cup Ra \cup Entry \cup Key \cup Nat
    /\ IsFiniteSet(Entry) /\ IsFiniteSet(Ra) /\ Dev \cap Ra = {}
    /\ Writer # {}     \* CCKD_MIN_WRITER is 1

VARIABLES
    entry,          \* CACHE_DEVBUF: key, busy flags and image of each entry
    file,           \* the image of each track in its file
    cckd,           \* CCKDDASD_EXT of each device
    current,        \* dev->bufcur and dev->cache
    iocond,         \* who is blocked on each cckd->iocond
    cachecond,      \* threads blocked in cache_wait
    pc, job,        \* what each i/o and readahead thread does, and for what
    raq,            \* the readahead queue
    racond,         \* readahead threads blocked on cckdblk.racond
    writer,         \* what each writer does
    wrpending,      \* cckdblk.wrpending
    wrcond,         \* writers blocked on cckdblk.wrcond
    gcol,           \* what the garbage collector does
    cmd,            \* what the operator's command for each device does
    chain           \* the devices on cckdblk.dev1st

iovars == <<pc, job>>
ravars == <<raq, racond>>
wrvars == <<writer, wrpending, wrcond>>
vars == <<entry, file, cckd, current, iocond, cachecond, iovars, ravars,
          wrvars, gcol, cmd, chain>>

IoBusy == {"READING", "WRITING"}                            \* CCKD_CACHE_IOBUSY
Flags == IoBusy \cup {"ACTIVE", "IOWAIT", "UPDATED", "WRITE"}   \* CACHE_BUSY

Empty == [key |-> None, flag |-> {}, image |-> 0]
NoCurrent == [trk |-> None, slot |-> None]
NoJob == [dev |-> None, trk |-> None, slot |-> None, ahead |-> FALSE, todo |-> {}]

Init ==
    /\ entry = [e \in Entry |-> Empty]
    /\ file = [k \in Key |-> 0]
    /\ cckd = [d \in Dev |-> [ioactive |-> FALSE, updated |-> FALSE, opened |-> FALSE,
                              merging |-> FALSE, stopping |-> FALSE,
                              iowaiters |-> 0, wrpending |-> 0, ras |-> 0]]
    /\ current = [d \in Dev |-> NoCurrent]
    /\ iocond = [d \in Dev |-> {}] /\ cachecond = {}
    /\ pc = [t \in Dev \cup Ra |-> IF t \in Dev THEN "idle" ELSE "none"]
    /\ job = [t \in Dev \cup Ra |-> NoJob]
    /\ raq = <<>> /\ racond = {}
    /\ writer = [w \in Writer |-> [at |-> "none", slot |-> None]]
    /\ wrpending = 0 /\ wrcond = {}
    /\ gcol = [at |-> "none", todo |-> {}, dev |-> None]
    /\ cmd = [d \in Dev |-> "none"]
    /\ chain = Dev

-----------------------------------------------------------------------------
(* The cache and its conditions *)

Of(d, ent) == {e \in Entry : ent[e].key # None /\ ent[e].key[1] = d}
Holding(k, ent) == {e \in Entry : ent[e].key = k}
\* As if an entry being read or written could be stolen.
NotInUse(ent) == {e \in Entry : ent[e].flag \subseteq IoBusy}

NotBusy(ent) == {e \in Entry : ent[e].flag = {}}

\* Every cache_setflag and cache_release that leaves an entry not busy signals
\* one of the threads in cache_wait.
SignalCache ==
    LET freed == {e \in Entry : entry'[e] # entry[e] /\ entry'[e].flag = {}} IN
    \E s \in SUBSET cachecond :
        /\ Cardinality(s) = IF Cardinality(freed) <= Cardinality(cachecond)
                            THEN Cardinality(freed) ELSE Cardinality(cachecond)
        /\ cachecond' = cachecond \ s

\* As if taking a write back left the entry as written.
ActivatedClean(f) == (f \ {"WRITE"}) \cup {"ACTIVE"}

\* cache_setflag on an entry that becomes the active one: a pending write is
\* taken back, the track will be flushed again.
Activated(f) == IF "WRITE" \in f THEN (f \ {"WRITE"}) \cup {"ACTIVE", "UPDATED"}
                                 ELSE f \cup {"ACTIVE"}

Deactivated(d) ==
    IF current[d].slot = None THEN entry
    ELSE [entry EXCEPT ![current[d].slot].flag = @ \ {"ACTIVE"}]

Purged(d) == [e \in Entry |-> IF e \in Of(d, entry) THEN Empty ELSE entry[e]]

-----------------------------------------------------------------------------
(* Writes behind: cckd_flush_cache and cckd_writer *)

Waiting(ws) == {w \in Writer : ws[w].at = "wait"}                   \* wrwaiting
Started(ws) == {w \in Writer : ws[w].at \notin {"none", "new"}}     \* wrs

\* As if only a first writer were ever created and a waiting one not signalled.
ScheduleFirst(n, ws) ==
    /\ wrcond' = wrcond
    /\ IF n > 0 /\ Started(ws) = {}
       THEN \E w \in Writer : writer' = [ws EXCEPT ![w].at = IF @ = "none" THEN "new" ELSE @]
       ELSE writer' = ws

\* Wake a writer, or create one: of those created beyond wrmax nothing remains.
ScheduleWriter(n, ws) ==
    IF n > 0 /\ Waiting(ws) # {}
    THEN /\ writer' = ws
         /\ IF wrcond = {} THEN wrcond' = wrcond
            ELSE \E w \in wrcond : wrcond' = wrcond \ {w}
    ELSE /\ wrcond' = wrcond
         /\ LET unborn == {w \in Writer : ws[w].at = "none"} IN
            IF n > 0 /\ unborn # {}
            THEN \E w \in unborn : writer' = [ws EXCEPT ![w].at = "new"]
            ELSE writer' = ws

Dirty(d, ent) == {e \in Of(d, ent) : ent[e].flag = {"UPDATED"}}

\* As if the track in use were counted with those to be written.
PendingInUse(d, ent) ==
    cckd[d].wrpending + Cardinality({e \in Of(d, ent) : "UPDATED" \in ent[e].flag})

\* cckd_flush_cache on the cache ent; the caller adds to cckd[d].wrpending.
FlushCache(d, ent) ==
    /\ entry' = [e \in Entry |-> IF e \in Dirty(d, ent) THEN [ent[e] EXCEPT !.flag = {"WRITE"}]
                                                        ELSE ent[e]]
    /\ wrpending' = wrpending + Cardinality(Dirty(d, ent))
    /\ wrpending' <= MaxPending
    /\ ScheduleWriter(wrpending', writer)

Pending(d, ent) == cckd[d].wrpending + Cardinality(Dirty(d, ent))

WriterBegin(w) ==
    /\ writer[w].at = "new"
    /\ writer' = [writer EXCEPT ![w].at = "top"]
    /\ UNCHANGED <<entry, file, cckd, current, iocond, cachecond, iovars, ravars,
                   wrpending, wrcond, gcol, cmd, chain>>

\* Wait for work, or mark a pending write and pass on what is left.
WriterNext(w) ==
    /\ \/ writer[w].at = "top"
       \/ writer[w].at = "wait" /\ w \notin wrcond
    /\ LET ready == {e \in Entry : "WRITE" \in entry[e].flag} IN
       IF (writer[w].at = "top" /\ wrpending = 0) \/ ready = {}
       THEN /\ wrpending' = 0
            /\ writer' = [writer EXCEPT ![w].at = "wait"]
            /\ wrcond' = wrcond \cup {w}
            /\ UNCHANGED entry
       ELSE \E e \in ready :
            /\ entry' = [entry EXCEPT ![e].flag = (@ \ {"WRITE"}) \cup {"WRITING"}]
            /\ wrpending' = wrpending - 1
            /\ ScheduleWriter(wrpending', [writer EXCEPT ![w] = [at |-> "write", slot |-> e]])
    /\ UNCHANGED <<file, cckd, current, iocond, cachecond, iovars, ravars, gcol, cmd, chain>>

\* Write the image, create the garbage collector, announce the end.  Whether
\* cckd_write_trkimg failed is not looked at: the entry counts as written.
WriterEnd(w) ==
    LET e == writer[w].slot
        d == entry[e].key[1]
    IN
    /\ writer[w].at = "write"
    /\ \/ file' = [file EXCEPT ![entry[e].key] = entry[e].image]
       \/ entry[e].key \in Fragile /\ UNCHANGED file
    /\ entry' = [entry EXCEPT ![e].flag = @ \ {"WRITING"}]
    /\ cckd' = [cckd EXCEPT ![d].opened = TRUE, ![d].wrpending = @ - 1]
    /\ iocond' = IF cckd[d].iowaiters > 0
                    /\ ("IOWAIT" \in entry[e].flag \/ cckd[d].wrpending = 1)
                 THEN [iocond EXCEPT ![d] = {}] ELSE iocond
    /\ SignalCache
    /\ writer' = [writer EXCEPT ![w] = [at |-> "top", slot |-> None]]
    /\ gcol' = IF gcol.at = "none" THEN [gcol EXCEPT !.at = "top"] ELSE gcol
    /\ UNCHANGED <<current, iovars, ravars, wrpending, wrcond, cmd, chain>>

Writers == \E w \in Writer : WriterBegin(w) \/ WriterNext(w) \/ WriterEnd(w)

-----------------------------------------------------------------------------
(* Channel programs: cckddasd_start, cckd_update_track, cckddasd_end *)

\* The last track is used again if its entry still holds it and is not busy
\* with input or output.
Begin(d, cur) ==
    LET e == cur.slot
        valid == /\ e # None
                 /\ entry[e].key = <<d, cur.trk>>
                 /\ entry[e].flag \cap IoBusy = {}
        taken == valid /\ "WRITE" \in entry[e].flag
        n == cckd[d].wrpending - (IF taken THEN 1 ELSE 0)
        waiters == cckd[d].iowaiters - (IF pc[d] = "startwait" THEN 1 ELSE 0)
    IN
    /\ entry' = IF valid THEN [entry EXCEPT ![e].flag = Activated(@)] ELSE entry
    /\ current' = [current EXCEPT ![d] = IF valid THEN cur ELSE NoCurrent]
    /\ cckd' = [cckd EXCEPT ![d].ioactive = TRUE, ![d].wrpending = n, ![d].iowaiters = waiters]
    /\ iocond' = IF taken /\ waiters > 0 /\ n = 0 THEN [iocond EXCEPT ![d] = {}] ELSE iocond
    /\ pc' = [pc EXCEPT ![d] = "run"]

\* No program starts on a device whose detach, which holds dev->lock, began.
StartIo(d) ==
    /\ pc[d] = "idle" /\ ~cckd[d].stopping
    /\ IF cckd[d].merging
       THEN /\ cckd' = [cckd EXCEPT ![d].iowaiters = @ + 1]
            /\ iocond' = [iocond EXCEPT ![d] = @ \cup {"io"}]
            /\ pc' = [pc EXCEPT ![d] = "startwait"]
            /\ UNCHANGED <<entry, current>>
       ELSE Begin(d, current[d])
    /\ UNCHANGED <<file, cachecond, job, ravars, wrvars, gcol, cmd, chain>>

StartWoken(d) ==
    /\ pc[d] = "startwait" /\ "io" \notin iocond[d]
    /\ IF cckd[d].merging
       THEN /\ iocond' = [iocond EXCEPT ![d] = @ \cup {"io"}]
            /\ UNCHANGED <<entry, current, cckd, pc>>
       ELSE Begin(d, NoCurrent)
    /\ UNCHANGED <<file, cachecond, job, ravars, wrvars, gcol, cmd, chain>>

\* A null image does not become the track's by an update.
Updated(image) == IF image = Null THEN Null ELSE image + 1

Update(d) ==
    LET e == current[d].slot IN
    /\ pc[d] = "run" /\ e # None
    /\ entry[e].key \in Written /\ entry[e].image < MaxImage
    /\ entry' = [entry EXCEPT ![e].flag = @ \cup {"UPDATED"},
                              ![e].image = Updated(@)]
    /\ cckd' = [cckd EXCEPT ![d].updated = TRUE]
    /\ UNCHANGED <<file, current, iocond, cachecond, iovars, ravars, wrvars, gcol, cmd, chain>>

EndIo(d) ==
    LET flush == cckd[d].updated /\ (Started(writer) = {} \/ cckd[d].iowaiters # 0) IN
    /\ pc[d] = "run"
    /\ pc' = [pc EXCEPT ![d] = "idle"]
    /\ IF flush
       THEN /\ FlushCache(d, Deactivated(d))
            /\ cckd' = [cckd EXCEPT ![d].ioactive = FALSE,
                                    ![d].wrpending = Pending(d, Deactivated(d))]
            /\ UNCHANGED iocond
       ELSE /\ entry' = Deactivated(d)
            /\ cckd' = [cckd EXCEPT ![d].ioactive = FALSE]
            /\ iocond' = IF cckd[d].iowaiters > 0 THEN [iocond EXCEPT ![d] = {}] ELSE iocond
            /\ UNCHANGED wrvars
    /\ SignalCache
    /\ UNCHANGED <<file, current, job, ravars, gcol, cmd, chain>>

-----------------------------------------------------------------------------
(* cckd_read_trk, for an i/o thread or for a readahead thread *)

\* cckd_flush_cache_all: lock the chain, flush device by device, unlock.
EnterFlushAll(j) == [j EXCEPT !.todo = chain]

BusyPercent(ent) == (Cardinality(Entry \ NotBusy(ent)) * 100) \div Cardinality(Entry)

\* The last step of a read.
Done(t) ==
    /\ pc' = [pc EXCEPT ![t] = IF t \in Dev THEN "run" ELSE "raend"]
    /\ job' = IF t \in Dev THEN [job EXCEPT ![t] = NoJob] ELSE job

\* Look the track of job j up in the cache ent.  A hit interests the i/o thread
\* only, which waits for input or output on the entry to end; a miss steals an
\* entry that is not busy; without one everything is flushed and the thread waits.
Search(t, j, ent) ==
    LET d == j.dev
        k == <<d, j.trk>>
    IN
    \/ \E e \in Holding(k, ent) :
        LET busy == ent[e].flag \cap IoBusy # {}
            taken == "WRITE" \in ent[e].flag
            n == cckd[d].wrpending - (IF taken THEN 1 ELSE 0)
        IN
        /\ job' = [job EXCEPT ![t] = IF t \in Ra \/ busy \/ j.ahead THEN [j EXCEPT !.slot = e]
                                                                ELSE NoJob]
        /\ IF t \in Ra
           THEN /\ pc' = [pc EXCEPT ![t] = "raend"]
                /\ entry' = ent
                /\ UNCHANGED <<cckd, current, iocond>>
           ELSE /\ entry' = [ent EXCEPT ![e].flag = Activated(@) \cup
                                                    (IF busy THEN {"IOWAIT"} ELSE {})]
                /\ cckd' = [cckd EXCEPT ![d].wrpending = n,
                                        ![d].iowaiters = @ + (IF busy THEN 1 ELSE 0)]
                /\ iocond' = [iocond EXCEPT ![d] =
                                (IF taken /\ cckd[d].iowaiters > 0 /\ n = 0 THEN {} ELSE @)
                                    \cup (IF busy THEN {"io"} ELSE {})]
                /\ current' = [current EXCEPT ![d] = IF busy THEN NoCurrent
                                                     ELSE [trk |-> j.trk, slot |-> e]]
                /\ pc' = [pc EXCEPT ![t] = IF busy THEN "iowait"
                                           ELSE IF j.ahead THEN "ahead" ELSE "run"]
    \/ /\ Holding(k, ent) = {}
       /\ \E e \in NotBusy(ent) :
            /\ entry' = [ent EXCEPT ![e] =
                            [key |-> k, image |-> 0,
                             flag |-> {"READING"} \cup (IF t \in Dev THEN {"ACTIVE"} ELSE {})]]
            /\ job' = [job EXCEPT ![t] = [j EXCEPT !.slot = e]]
            /\ pc' = [pc EXCEPT ![t] = IF j.ahead THEN "ahead" ELSE "load"]
       /\ current' = IF t \in Dev THEN [current EXCEPT ![d] = NoCurrent] ELSE current
       /\ UNCHANGED <<cckd, iocond>>
    \/ /\ Holding(k, ent) = {} /\ NotBusy(ent) = {}
       /\ entry' = ent
       /\ job' = [job EXCEPT ![t] = EnterFlushAll(j)]
       /\ pc' = [pc EXCEPT ![t] = "flush"]
       /\ current' = IF t \in Dev THEN [current EXCEPT ![d] = NoCurrent] ELSE current
       /\ UNCHANGED <<cckd, iocond>>

\* A track other than the current one is read; two tracks on, at most, the
\* tracks behind it are read ahead.
ReadTrk(d, t) ==
    LET from == current[d].trk IN
    /\ pc[d] = "run" /\ t # from
    /\ Search(d, [NoJob EXCEPT !.dev = d, !.trk = t,
                               !.ahead = from # None /\ from > 0 /\ t > from /\ t <= from + 2],
              Deactivated(d))
    /\ SignalCache
    /\ UNCHANGED <<file, ravars, wrvars, gcol, cmd, chain>>

\* The retry after cache_wait, and the lookup of a readahead thread.
SearchAgain(t) ==
    /\ pc[t] = "search" /\ t \notin cachecond
    /\ Search(t, job[t], entry)
    /\ UNCHANGED <<file, cachecond, ravars, wrvars, gcol, cmd, chain>>

IoWaitWoken(d) ==
    LET e == job[d].slot IN
    /\ pc[d] = "iowait" /\ "io" \notin iocond[d]
    /\ IF entry[e].flag \cap IoBusy # {}
       THEN /\ entry' = [entry EXCEPT ![e].flag = @ \cup {"IOWAIT"}]
            /\ iocond' = [iocond EXCEPT ![d] = @ \cup {"io"}]
            /\ UNCHANGED <<cckd, current, iovars>>
       ELSE /\ entry' = [entry EXCEPT ![e].flag = @ \ {"IOWAIT"}]
            /\ cckd' = [cckd EXCEPT ![d].iowaiters = @ - 1]
            /\ current' = [current EXCEPT ![d] = [trk |-> job[d].trk, slot |-> e]]
            /\ pc' = [pc EXCEPT ![d] = IF job[d].ahead THEN "ahead" ELSE "run"]
            /\ job' = IF job[d].ahead THEN job ELSE [job EXCEPT ![d] = NoJob]
            /\ UNCHANGED iocond
    /\ UNCHANGED <<file, cachecond, ravars, wrvars, gcol, cmd, chain>>

\* cckd_read_trkimg: what it puts in the buffer for track k.
Read(k) == {file[k]} \cup (IF k \in Faulty THEN {Null} ELSE {})

\* READING comes off, whatever was read: a null image that stands for an error
\* stays in the cache as the track's.
ReadEnd(t) ==
    LET d == job[t].dev
        e == job[t].slot
        ent == [entry EXCEPT ![e].flag = @ \ {"READING"}]
    IN
    /\ pc[t] = "load"
    /\ \E image \in Read(<<d, job[t].trk>>) : entry' = [ent EXCEPT ![e].image = image]
    /\ iocond' = IF cckd[d].iowaiters > 0 /\ "IOWAIT" \in entry[e].flag
                 THEN [iocond EXCEPT ![d] = {}] ELSE iocond
    /\ SignalCache
    /\ current' = IF t \in Dev THEN [current EXCEPT ![d] = [trk |-> job[t].trk, slot |-> e]]
                               ELSE current
    /\ IF BusyPercent(ent) > 80
       THEN /\ job' = [job EXCEPT ![t] = EnterFlushAll(@)]
            /\ pc' = [pc EXCEPT ![t] = "flush"]
       ELSE Done(t)
    /\ UNCHANGED <<file, cckd, ravars, wrvars, gcol, cmd, chain>>

\* One device of cckd_flush_cache_all.
FlushNext(t) ==
    /\ pc[t] = "flush"
    /\ \E d \in job[t].todo :
        /\ IF cckd[d].merging \/ cckd[d].stopping
           THEN UNCHANGED <<entry, cckd, wrvars>>
           ELSE /\ FlushCache(d, entry)
                /\ cckd' = [cckd EXCEPT ![d].wrpending = Pending(d, entry)]
        /\ IF job[t].todo = {d} /\ job[t].slot # None THEN Done(t)
           ELSE /\ job' = [job EXCEPT ![t].todo = @ \ {d}]
                /\ pc' = [pc EXCEPT ![t] = IF job[t].todo = {d} THEN "space" ELSE "flush"]
    /\ UNCHANGED <<file, current, iocond, cachecond, ravars, gcol, cmd, chain>>

CacheWait(t) ==
    /\ pc[t] = "space"
    /\ pc' = [pc EXCEPT ![t] = "search"]
    /\ cachecond' = IF NotBusy(entry) = {} THEN cachecond \cup {t} ELSE cachecond
    /\ UNCHANGED <<entry, file, cckd, current, iocond, job, ravars, wrvars, gcol, cmd, chain>>

-----------------------------------------------------------------------------
(* Readahead: cckd_readahead and cckd_ra *)

\* Wake a readahead thread or create one.
ScheduleRa(pcs) ==
    LET idle == {r \in Ra : pcs[r] = "rawait"}
        unborn == {r \in Ra : pcs[r] = "none"}
    IN
    IF idle # {}
    THEN /\ pc' = pcs
         /\ IF racond = {} THEN UNCHANGED racond
            ELSE \E r \in racond : racond' = racond \ {r}
    ELSE /\ UNCHANGED racond
         /\ IF unborn = {} THEN pc' = pcs
            ELSE \E r \in unborn : pc' = [pcs EXCEPT ![r] = "ratop"]

\* The first n of the tracks in S.
FirstOf(S, n) == {s \in [1..n -> S] : /\ \A i, j \in 1..n : i < j => s[i] < s[j]
                                      /\ \A x \in S \ On(s) : \A i \in 1..n : s[i] < x}

\* The tracks behind the one read that are neither cached nor queued are queued,
\* as far as the queue goes.
Readahead(d) ==
    LET t == job[d].trk
        wanted == {x \in Tracks[d] : /\ x \in (t + 1)..(t + Ahead)
                                     /\ Holding(<<d, x>>, entry) = {}
                                     /\ <<d, x>> \notin On(raq)}
        room == RaQueue - Len(raq)
        n == IF room <= Cardinality(wanted) THEN room ELSE Cardinality(wanted)
        reading == "READING" \in entry[job[d].slot].flag
        pcs == [pc EXCEPT ![d] = IF reading THEN "load" ELSE "run"]
    IN
    /\ pc[d] = "ahead"
    /\ \E new \in FirstOf(wanted, n) : raq' = raq \o [i \in 1..n |-> <<d, new[i]>>]
    /\ IF raq' # <<>> THEN ScheduleRa(pcs) ELSE pc' = pcs /\ UNCHANGED racond
    /\ job' = IF reading THEN job ELSE [job EXCEPT ![d] = NoJob]
    /\ UNCHANGED <<entry, file, cckd, current, iocond, cachecond, wrvars, gcol, cmd, chain>>

\* cckd_ra: take the first track queued, unless its device is closing or merging.
\* Whether another thread is scheduled for the rest depends on the index of the
\* queue's first element, which the model leaves out.
RaNext(r) ==
    /\ pc[r] = "ratop" \/ (pc[r] = "rawait" /\ r \notin racond)
    /\ IF raq = <<>>
       THEN /\ pc' = [pc EXCEPT ![r] = "rawait"]
            /\ racond' = racond \cup {r}
            /\ UNCHANGED <<raq, job, cckd>>
       ELSE LET d == Head(raq)[1]
                skip == cmd[d] = "closed" \/ cckd[d].stopping \/ cckd[d].merging
                pcs == [pc EXCEPT ![r] = IF skip THEN "ratop" ELSE "search"]
            IN
            /\ raq' = Tail(raq)
            /\ ScheduleRa(pcs) \/ (pc' = pcs /\ UNCHANGED racond)
            /\ IF skip THEN UNCHANGED <<job, cckd>>
               ELSE /\ cckd' = [cckd EXCEPT ![d].ras = @ + 1]
                    /\ job' = [job EXCEPT ![r] = [NoJob EXCEPT !.dev = d, !.trk = Head(raq)[2]]]
    /\ UNCHANGED <<entry, file, current, iocond, cachecond, wrvars, gcol, cmd, chain>>

\* As if the end of a readahead were not counted.
RaEndUncounted(r) ==
    /\ pc[r] = "raend"
    /\ pc' = [pc EXCEPT ![r] = "ratop"]
    /\ job' = [job EXCEPT ![r] = NoJob]
    /\ UNCHANGED <<entry, file, cckd, current, iocond, cachecond, ravars, wrvars, gcol, cmd,
                   chain>>

RaEnd(r) ==
    /\ pc[r] = "raend"
    /\ cckd' = [cckd EXCEPT ![job[r].dev].ras = @ - 1]
    /\ pc' = [pc EXCEPT ![r] = "ratop"]
    /\ job' = [job EXCEPT ![r] = NoJob]
    /\ UNCHANGED <<entry, file, current, iocond, cachecond, ravars, wrvars, gcol, cmd, chain>>

-----------------------------------------------------------------------------
(* The garbage collector, cckd_gcol; what it does to the file is CckdSpace *)

GcPassed(d) ==
    gcol' = [at |-> IF gcol.todo = {d} THEN "sleep" ELSE "device",
             todo |-> gcol.todo \ {d}, dev |-> None]

\* Lock the chain; after the last device unlock it and wait for gcint seconds.
GcBegin ==
    /\ gcol.at \in {"top", "sleep"}
    /\ gcol' = [gcol EXCEPT !.at = IF chain = {} THEN "sleep" ELSE "device", !.todo = chain]
    /\ UNCHANGED <<entry, file, cckd, current, iocond, cachecond, iovars, ravars, wrvars,
                   cmd, chain>>

\* A device that is busy with a command is passed over, and one whose file was
\* not written yet; its updated tracks are flushed.
GcDevice(d) ==
    /\ gcol.at = "device" /\ d \in gcol.todo
    /\ IF cckd[d].merging \/ cckd[d].stopping
       THEN GcPassed(d) /\ UNCHANGED <<entry, cckd, wrvars>>
       ELSE IF cckd[d].opened
       THEN /\ gcol' = [gcol EXCEPT !.at = "collect", !.dev = d]
            /\ UNCHANGED <<entry, cckd, wrvars>>
       ELSE /\ GcPassed(d)
            /\ IF cckd[d].updated
               THEN /\ FlushCache(d, entry)
                    /\ cckd' = [cckd EXCEPT ![d].wrpending = Pending(d, entry)]
               ELSE UNCHANGED <<entry, cckd, wrvars>>
    /\ UNCHANGED <<file, current, iocond, cachecond, iovars, ravars, cmd, chain>>

\* With fsync it waits for the writes to end, but not as one of the iowaiters.
GcFlush ==
    LET d == gcol.dev
        n == Pending(d, entry)
    IN
    /\ gcol.at = "collect"
    /\ FlushCache(d, entry)
    /\ cckd' = [cckd EXCEPT ![d].wrpending = n]
    /\ IF FSync /\ n > 0
       THEN /\ gcol' = [gcol EXCEPT !.at = "wait"]
            /\ iocond' = [iocond EXCEPT ![d] = @ \cup {"gcol"}]
       ELSE GcPassed(d) /\ UNCHANGED iocond
    /\ UNCHANGED <<file, current, cachecond, iovars, ravars, cmd, chain>>

GcWoken ==
    LET d == gcol.dev IN
    /\ gcol.at = "wait" /\ "gcol" \notin iocond[d]
    /\ IF cckd[d].wrpending > 0
       THEN iocond' = [iocond EXCEPT ![d] = @ \cup {"gcol"}] /\ UNCHANGED gcol
       ELSE GcPassed(d) /\ UNCHANGED iocond
    /\ UNCHANGED <<entry, file, cckd, current, cachecond, iovars, ravars, wrvars, cmd, chain>>

Gcol == GcBegin \/ (\E d \in Dev : GcDevice(d)) \/ GcFlush \/ GcWoken

-----------------------------------------------------------------------------
(* cckddasd_close_device and cckd_sf_add *)

CloseBegin(d) ==
    /\ "close" \in Command[d] /\ cmd[d] = "none"
    /\ Races \/ pc[d] # "startwait"
    /\ cmd' = [cmd EXCEPT ![d] = "readaheads"]
    /\ cckd' = [cckd EXCEPT ![d].stopping = TRUE]
    /\ UNCHANGED <<entry, file, current, iocond, cachecond, iovars, ravars, wrvars, gcol, chain>>

\* Flush, and wait until no write is pending and no channel program active; then
\* the device's entries leave the cache.
Quiesce(d, ext, next) ==
    LET n == Pending(d, entry)
        waited == IF cmd[d] = "wait" THEN 1 ELSE 0
    IN
    IF n > 0 \/ ext.ioactive
    THEN /\ FlushCache(d, entry)
         /\ cckd' = [cckd EXCEPT ![d] = [ext EXCEPT !.wrpending = n,
                                                     !.iowaiters = @ + 1 - waited]]
         /\ iocond' = [iocond EXCEPT ![d] = @ \cup {"cmd"}]
         /\ cmd' = [cmd EXCEPT ![d] = "wait"]
         /\ UNCHANGED <<current, cachecond>>
    ELSE /\ entry' = Purged(d)
         /\ SignalCache
         /\ current' = [current EXCEPT ![d] = NoCurrent]
         /\ cckd' = [cckd EXCEPT ![d] = [ext EXCEPT !.iowaiters = @ - waited]]
         /\ iocond' = IF next = "remove" THEN [iocond EXCEPT ![d] = {}] ELSE iocond
         /\ cmd' = [cmd EXCEPT ![d] = next]
         /\ UNCHANGED wrvars

CloseFlush(d) ==
    /\ \/ cmd[d] = "readaheads" /\ cckd[d].ras = 0
       \/ cmd[d] = "wait" /\ "cmd" \notin iocond[d] /\ cckd[d].stopping
    /\ Quiesce(d, cckd[d], "remove")
    /\ UNCHANGED <<file, iovars, ravars, gcol, chain>>

\* Off the chain, once nobody holds it; the extension is freed.
CloseEnd(d) ==
    /\ cmd[d] = "remove"
    /\ \A t \in Dev \cup Ra : pc[t] # "flush"
    /\ gcol.at \notin {"device", "collect", "wait"}
    /\ chain' = chain \ {d}
    /\ cmd' = [cmd EXCEPT ![d] = "closed"]
    /\ UNCHANGED <<entry, file, cckd, current, iocond, cachecond, iovars, ravars, wrvars, gcol>>

SfFlush(d) ==
    /\ \/ "sf" \in Command[d] /\ cmd[d] = "none" /\ (Races \/ cckd[d].ras = 0)
       \/ cmd[d] = "wait" /\ "cmd" \notin iocond[d] /\ cckd[d].merging
    /\ Quiesce(d, [cckd[d] EXCEPT !.merging = TRUE], "shadow")
    /\ UNCHANGED <<file, iovars, ravars, gcol, chain>>

\* The file is hardened and a new one opened, neither marked as written to.
SfEnd(d) ==
    /\ cmd[d] = "shadow"
    /\ cckd' = [cckd EXCEPT ![d].merging = FALSE, ![d].opened = FALSE]
    /\ iocond' = IF cckd[d].iowaiters > 0 THEN [iocond EXCEPT ![d] = {}] ELSE iocond
    /\ cmd' = [cmd EXCEPT ![d] = "none"]
    /\ UNCHANGED <<entry, file, current, cachecond, iovars, ravars, wrvars, gcol, chain>>

Commands == \E d \in Dev : CloseFlush(d) \/ CloseEnd(d) \/ SfFlush(d) \/ SfEnd(d)

-----------------------------------------------------------------------------

Reads(t) == \/ SearchAgain(t) \/ ReadEnd(t) \/ FlushNext(t) \/ CacheWait(t)

Next ==
    \/ \E d \in Dev :
        \/ StartIo(d) \/ StartWoken(d) \/ Update(d) \/ EndIo(d)
        \/ \E t \in Tracks[d] : ReadTrk(d, t)
        \/ IoWaitWoken(d) \/ Readahead(d)
    \/ \E t \in Dev \cup Ra : Reads(t)
    \/ \E r \in Ra : RaNext(r) \/ RaEnd(r)
    \/ Writers
    \/ Gcol
    \/ \E d \in Dev : CloseBegin(d)
    \/ Commands

\* Threads run once they exist; channel programs end, however many tracks they
\* read; an operator need not give a command.
Fairness ==
    /\ \A d \in Dev :
        /\ SF_vars(EndIo(d))
        /\ WF_vars(StartWoken(d) \/ IoWaitWoken(d) \/ Readahead(d) \/ Reads(d))
        /\ WF_vars(CloseFlush(d) \/ (cmd[d] = "wait" /\ SfFlush(d)) \/ SfEnd(d))
        /\ SF_vars(CloseEnd(d))
    /\ \A r \in Ra : WF_vars(Reads(r) \/ RaNext(r) \/ RaEnd(r))
    /\ \A w \in Writer : WF_vars(WriterBegin(w) \/ WriterNext(w) \/ WriterEnd(w))
    /\ WF_vars(Gcol)

Spec == Init /\ [][Next]_vars
FairSpec == Spec /\ Fairness

-----------------------------------------------------------------------------

IoPc == {"idle", "startwait", "run", "search", "iowait", "ahead", "load", "flush", "space"}
RaPc == {"none", "ratop", "rawait", "search", "load", "flush", "space", "raend"}

\* The shape of the state; a count is at most the number of what it counts.
TypeOK ==
    /\ entry \in [Entry -> [key : Key \cup {None}, flag : SUBSET Flags, image : Image]]
    /\ file \in [Key -> Image]
    /\ cckd \in [Dev -> [ioactive : BOOLEAN, updated : BOOLEAN, opened : BOOLEAN,
                          merging : BOOLEAN, stopping : BOOLEAN, iowaiters : 0..2,
                          wrpending : 0..Cardinality(Entry), ras : 0..Cardinality(Ra)]]
    /\ \A d \in Dev : \/ current[d] = NoCurrent
                       \/ current[d] \in [trk : Tracks[d], slot : Entry]
    /\ iocond \in [Dev -> SUBSET {"io", "cmd", "gcol"}]
    /\ cachecond \subseteq {t \in Dev \cup Ra : pc[t] = "search"}
    /\ \A d \in Dev : pc[d] \in IoPc
    /\ \A r \in Ra : pc[r] \in RaPc
    /\ job \in [Dev \cup Ra -> [dev : Dev \cup {None}, trk : Nat \cup {None},
                                slot : Entry \cup {None}, ahead : BOOLEAN, todo : SUBSET Dev]]
    /\ raq \in Seq(Key) /\ Len(raq) <= RaQueue
    /\ racond \subseteq {r \in Ra : pc[r] = "rawait"}
    /\ writer \in [Writer -> [at : {"none", "new", "top", "wait", "write"},
                              slot : Entry \cup {None}]]
    /\ wrpending \in 0..MaxPending
    /\ wrcond \subseteq {w \in Writer : writer[w].at = "wait"}
    /\ gcol \in [at : {"none", "top", "device", "collect", "wait", "sleep"},
                 todo : SUBSET Dev, dev : Dev \cup {None}]
    /\ cmd \in [Dev -> {"none", "readaheads", "wait", "remove", "closed", "shadow"}]
    /\ chain \subseteq Dev

Marked(d, f) == {e \in Of(d, entry) : f \cap entry[e].flag # {}}

\* cckd->wrpending, on which close and the sf commands wait, is the number of the
\* device's tracks yet to be written or being written, although start, read,
\* flush and writer change it under different locks.  cckdblk.wrpending is never
\* less than the writes yet to be begun, or writers would leave some of them.
PendingCounted ==
    /\ \A d \in Dev : cckd[d].wrpending = Cardinality(Marked(d, {"WRITE", "WRITING"}))
    /\ Cardinality({e \in Entry : "WRITE" \in entry[e].flag}) <= wrpending

\* While a write is pending some writer is on its way to it: a flush that signals
\* a writer already woken, or creates none because all exist, loses nothing.
WritesScheduled ==
    (\E e \in Entry : "WRITE" \in entry[e].flag)
        => \E w \in Writer : writer[w].at # "none" /\ w \notin wrcond

\* An entry with input in progress is being read by exactly one thread and for
\* that thread's track, one with output by exactly one writer; one in use by the
\* running channel program stays what the program believes it to be.
OneOwner ==
    /\ \A e \in Entry :
        LET readers == {t \in Dev \cup Ra : pc[t] \in {"ahead", "load"} /\ job[t].slot = e
                                            /\ (pc[t] = "ahead" => "READING" \in entry[e].flag)}
            writers == {w \in Writer : writer[w].slot = e}
        IN
        /\ Cardinality(readers) = IF "READING" \in entry[e].flag THEN 1 ELSE 0
        /\ Cardinality(writers) = IF "WRITING" \in entry[e].flag THEN 1 ELSE 0
        /\ \A t \in readers : entry[e].key = <<job[t].dev, job[t].trk>>
    /\ \A d \in Dev : pc[d] = "run" /\ current[d] # NoCurrent =>
        /\ entry[current[d].slot].key = <<d, current[d].trk>>
        /\ entry[current[d].slot].flag \cap IoBusy = {}

\* The image of a track that the next program to read it will find.
Newest(k) ==
    IF \E e \in Holding(k, entry) : "READING" \notin entry[e].flag
    THEN entry[CHOOSE e \in Holding(k, entry) : "READING" \notin entry[e].flag].image
    ELSE file[k]

\* No step undoes an update of a track whose images can be read and written: not
\* a steal, a purge, a read that overtakes a write, or a write that overtakes the
\* program, whatever errors there are on other tracks.  A failing read or write
\* of a track loses its updates (cckd_read_trkimg, cckd_writer), so a track in
\* Faulty or Fragile is not promised anything.
NoUpdateLost == [][\A k \in Key \ (Faulty \cup Fragile) : Newest(k) <= Newest(k)']_vars

\* A command that waits for the device's i/o gets to the end.
CommandEnds == \A d \in Dev : cmd[d] # "none" ~> cmd[d] \in {"none", "closed"}

=============================================================================
