----------------------------- MODULE DasdCache ------------------------------
(***************************************************************************)
(* The device buffer cache (cache.c) and the CKD and FBA disks that read   *)
(* and write through it (ckddasd.c, fbadasd.c).                            *)
(*                                                                         *)
(* The devices share a table of track images.  An entry is busy while a    *)
(* device works on it; an entry that is not may be taken by any device     *)
(* that misses, the one used longest ago first.  Between cache_lock and    *)
(* cache_unlock a device is alone with the table, so such a stretch is one *)
(* step; reading and writing the disk, and cache_unlock's look at the      *)
(* counters once the lock is free, are steps of their own.                 *)
(*                                                                         *)
(* Of an image the model keeps how it compares with the track on disk, of  *)
(* an entry's age only its rank.                                           *)
(***************************************************************************)
EXTENDS Integers, FiniteSets, ChainOps

CONSTANTS
    Device,     \* disks
    Track,      \* their tracks or block groups; track 0 is special
    NoTrack,    \* dev->bufcur = -1, and the track number -1
    Nbr,        \* number of entries
    Prefer,     \* the entry that each key prefers
    Aged,       \* whether an entry can grow old enough for that to matter
    Sync,       \* disks whose programs may be tried synchronously
    Faulty,     \* disks whose reads may fail
    Fragile,    \* disks whose writes may fail
    Closing,    \* disks that may be closed, and opened again
    Made        \* whether the cache exists when the model starts

Entry == 1..Nbr
Key == Device \X Track
NoKey == <<>>

ASSUME CacheAssumption ==
    /\ NoTrack \notin Track /\ IsFiniteSet(Device)
    /\ Nbr \in Nat \ {0}
    /\ Prefer \in [Key -> Entry]
    /\ Aged \in BOOLEAN /\ Made \in BOOLEAN
    /\ Sync \subseteq Device /\ Faulty \subseteq Device
    /\ Fragile \subseteq Device /\ Closing \subseteq Device

VARIABLES
    cache,      \* CACHEBLK: the entries, their order of use, the counters
    made,       \* its magic number: the cache exists
    asleep,     \* the devices inside wait_condition of cache_wait
    dev,        \* what each device is doing (its thread and DEVBLK)
    unwritten   \* tracks with a change that failed to be written and is not on disk

vars == <<cache, made, asleep, dev, unwritten>>

-----------------------------------------------------------------------------
(* Entries and counters (cache.c).  An operation maps a cache to the next. *)

EmptyCache ==
    [entry |-> [i \in Entry |-> [key |-> NoKey, busy |-> FALSE, image |-> "other"]],
     age   |-> <<>>,
     busy  |-> 0,
     empty |-> Nbr]

IsBusy(c, i) == c.entry[i].busy
IsEmpty(c, i) == c.entry[i].key = NoKey /\ ~IsBusy(c, i) /\ i \notin On(c.age)

Count(b) == IF b THEN 1 ELSE 0

SetKey(c, i, k) ==
    LET n == [c EXCEPT !.entry[i].key = k] IN
    [n EXCEPT !.empty = @ + Count(IsEmpty(n, i)) - Count(IsEmpty(c, i))]

SetFlag(c, i, b) ==
    LET n == [c EXCEPT !.entry[i].busy = b] IN
    [n EXCEPT !.busy = @ + Count(IsBusy(n, i)) - Count(IsBusy(c, i)),
              !.empty = @ + Count(IsEmpty(n, i)) - Count(IsEmpty(c, i))]

\* As if every new age made an entry less empty.
SetAgeAlways(c, i) ==
    [c EXCEPT !.age = Append(Without(@, {i}), i), !.empty = @ - 1]

SetAge(c, i) ==
    [c EXCEPT !.age = Append(Without(@, {i}), i),
              !.empty = @ - Count(IsEmpty(c, i))]

\* cache_release, of every entry in S.
ReleaseAll(c, S) ==
    [c EXCEPT !.entry = [i \in Entry |-> IF i \in S
                             THEN [key |-> NoKey, busy |-> FALSE, image |-> "other"] ELSE @[i]],
              !.age = Without(@, S),
              !.empty = @ + Cardinality({i \in S : ~IsEmpty(c, i)}),
              !.busy = @ - Cardinality({i \in S : IsBusy(c, i)})]

\* As if a released entry were never busy.
ReleaseIdle(c, i) == [ReleaseAll(c, {i}) EXCEPT !.busy = c.busy]

Release(c, i) == ReleaseAll(c, {i})

\* cache_lookup: the entries that have the key.
Hits(c, k) == {i \in Entry : c.entry[i].key = k}

\* An entry's age: its place in the order of use, first those never used.
Rank(c, i) == IF i \in On(c.age) THEN CHOOSE n \in 1..Len(c.age) : c.age[n] = i ELSE 0

\* As if busy entries could be stolen.
OffersBusy(c, k) ==
    {i \in Entry : \A j \in Entry : Rank(c, i) < Rank(c, j) \/ (Rank(c, i) = Rank(c, j) /\ i <= j)}

\* cache_lookup: the entries it may offer for stealing.  That is the oldest
\* one not busy, or the preferred one if twenty uses of the others have gone by.
Offers(c, k) ==
    LET Free == {i \in Entry : ~IsBusy(c, i)} IN
    {i \in Free :
        \/ \A j \in Free : Rank(c, i) < Rank(c, j) \/ (Rank(c, i) = Rank(c, j) /\ i <= j)
        \/ Aged /\ i = Prefer[k]}

-----------------------------------------------------------------------------
(* cache_lock, cache_unlock, cache_wait *)

At(d, pc) == dev[d].pc = pc
Set(d, new) == dev' = [dev EXCEPT ![d] = new]
Goto(d, pc) == dev' = [dev EXCEPT ![d].pc = pc]

\* cache_unlock is still to look at the counters; then go on at pc.
Unlock(r, pc) == [r EXCEPT !.pc = "unlock", !.then = pc]

Resumed(d) == [dev[d] EXCEPT !.pc = dev[d].then, !.then = "idle"]

\* n calls of signal_condition wake as many sleepers, if there are as many.
Signal(n) == \E S \in SUBSET asleep :
    /\ Cardinality(S) = IF n <= Cardinality(asleep) THEN n ELSE Cardinality(asleep)
    /\ asleep' = asleep \ S

\* cache_lock finds no cache and creates one.
FindNoCache(d) ==
    /\ dev[d].pc \in {"lock", "writefailed", "readfailed", "purge"} /\ ~made
    /\ Set(d, [dev[d] EXCEPT !.pc = "create", !.then = dev[d].pc])
    /\ UNCHANGED <<cache, made, asleep, unwritten>>

CreateCache(d) ==
    /\ At(d, "create")
    /\ cache' = EmptyCache /\ made' = TRUE
    /\ Set(d, Resumed(d))
    /\ UNCHANGED <<asleep, unwritten>>

\* cache_unlock, the lock released: an empty cache is destroyed.
KeepCache(d) ==
    /\ At(d, "unlock") /\ made /\ cache.empty # Nbr
    /\ Set(d, Resumed(d))
    /\ UNCHANGED <<cache, made, asleep, unwritten>>

\* As if the counters were not looked at.
FindUnusedCache(d) ==
    /\ At(d, "unlock")
    /\ Goto(d, "destroy")
    /\ UNCHANGED <<cache, made, asleep, unwritten>>

FindEmptyCache(d) ==
    /\ At(d, "unlock") /\ ~(made /\ cache.empty # Nbr)
    /\ Goto(d, "destroy")
    /\ UNCHANGED <<cache, made, asleep, unwritten>>

DestroyCache(d) ==
    /\ At(d, "destroy")
    /\ cache' = EmptyCache /\ made' = FALSE
    /\ Set(d, Resumed(d))
    /\ UNCHANGED <<asleep, unwritten>>

-----------------------------------------------------------------------------
(* Reading a track or block group (ckddasd_read_track, fbadasd_read_blkgrp) *)

Syncing(d) == dev[d].sync /\ dev[d].trk # 0
Buffer(d) == dev[d].cache
NothingInHand(d) == [dev[d] EXCEPT !.cur = NoTrack, !.cache = 0]

\* As if the track in hand were never written back.
RequestUnwritten(d, t) ==
    Set(d, [dev[d] EXCEPT !.pc = "lock", !.trk = t, !.upd = FALSE])

\* The request: the track in hand is written first if it was changed.  It is
\* retried asynchronously if that is not possible now.
Request(d, t) ==
    LET s == dev[d].sync /\ t # NoTrack IN
    IF ~dev[d].upd THEN Set(d, [dev[d] EXCEPT !.pc = "lock", !.trk = t, !.sync = s])
    ELSE IF s /\ t # 0 THEN Set(d, [dev[d] EXCEPT !.sync = FALSE])
    ELSE Set(d, [dev[d] EXCEPT !.pc = "write", !.trk = t, !.sync = s])

Read(d, t) ==
    /\ At(d, "ready") /\ t # dev[d].cur
    /\ Request(d, t)
    /\ UNCHANGED <<cache, made, asleep, unwritten>>

\* What was updated since the last write gets to the disk, not the whole image.
\* A change whose write failed gets there only if it was updated again.
WriteOk(d) ==
    LET k == <<d, dev[d].cur>> IN
    /\ At(d, "write")
    /\ \/ /\ cache' = [cache EXCEPT !.entry[Buffer(d)].image = "disk"]
          /\ unwritten' = unwritten \ {k}
       \/ k \in unwritten /\ UNCHANGED <<cache, unwritten>>
    /\ Set(d, [dev[d] EXCEPT !.pc = "lock", !.upd = FALSE])
    /\ UNCHANGED <<made, asleep>>

\* The bounds of the update are forgotten, the image stays as it is.
WriteFail(d) ==
    /\ d \in Fragile
    /\ At(d, "write")
    /\ Set(d, [dev[d] EXCEPT !.pc = "writefailed", !.upd = FALSE])
    /\ unwritten' = unwritten \cup {<<d, dev[d].cur>>}
    /\ UNCHANGED <<cache, made, asleep>>

\* Where a device goes when the read it wanted is over: the close handler
\* goes on whatever came of it, and an ending program ends.
Over(d) == IF dev[d].trk # NoTrack THEN "ready"
           ELSE IF dev[d].close THEN "purge" ELSE "idle"

\* After the failure the entry is given up as it is, and the program is not
\* made synchronous again.
AbandonWrite(d) ==
    /\ At(d, "writefailed") /\ made
    /\ cache' = SetFlag(cache, Buffer(d), FALSE)
    /\ Signal(1)
    /\ Set(d, Unlock([NothingInHand(d) EXCEPT !.trk = NoTrack, !.sync = FALSE], Over(d)))
    /\ UNCHANGED <<made, unwritten>>

\* Under the lock: the previous entry is made inactive.
Inactive(d) == IF Buffer(d) = 0 THEN cache ELSE SetFlag(cache, Buffer(d), FALSE)

\* The special case of the track number -1.
LetGo(d) ==
    /\ At(d, "lock") /\ made /\ dev[d].trk = NoTrack
    /\ cache' = Inactive(d)
    /\ Signal(Count(Buffer(d) # 0))
    /\ Set(d, Unlock(NothingInHand(d), Over(d)))
    /\ UNCHANGED <<made, unwritten>>

\* A device looks a track up when it has the lock, or again when it is woken.
Looking(d) ==
    \/ At(d, "lock") /\ made /\ dev[d].trk # NoTrack
    \/ At(d, "wait") /\ d \notin asleep

\* The signal of the entry made inactive comes first, then the lookup.
Hit(d) ==
    LET k == <<d, dev[d].trk>> IN
    /\ Looking(d)
    /\ \E i \in Hits(Inactive(d), k) :
        /\ cache' = SetAge(SetFlag(Inactive(d), i, TRUE), i)
        /\ Set(d, Unlock([dev[d] EXCEPT !.cur = dev[d].trk, !.cache = i, !.trk = NoTrack],
                      "ready"))
    /\ Signal(Count(Buffer(d) # 0))
    /\ UNCHANGED <<made, unwritten>>

MissSync(d) ==
    /\ Looking(d) /\ Syncing(d)
    /\ Hits(Inactive(d), <<d, dev[d].trk>>) = {}
    /\ cache' = Inactive(d)
    /\ Signal(Count(Buffer(d) # 0))
    /\ Set(d, Unlock([NothingInHand(d) EXCEPT !.trk = NoTrack, !.sync = FALSE], "ready"))
    /\ UNCHANGED <<made, unwritten>>

\* cache_wait; a device that finds no entry has none of its own either.
Wait(d) ==
    LET k == <<d, dev[d].trk>> IN
    /\ Looking(d) /\ ~Syncing(d)
    /\ Hits(Inactive(d), k) = {} /\ Offers(Inactive(d), k) = {}
    /\ Inactive(d).busy >= Nbr
    /\ asleep' = asleep \cup {d}
    /\ Goto(d, "wait")
    /\ UNCHANGED <<cache, made, unwritten>>

\* A miss: the entry is renamed, busy before the lock is released.
Steal(d) ==
    LET k == <<d, dev[d].trk>> IN
    /\ Looking(d) /\ ~Syncing(d)
    /\ Hits(Inactive(d), k) = {}
    /\ \E i \in Offers(Inactive(d), k) :
        /\ cache' = [SetAge(SetFlag(SetKey(Inactive(d), i, k), i, TRUE), i)
                        EXCEPT !.entry[i].image = "other"]
        /\ Set(d, Unlock([NothingInHand(d) EXCEPT !.slot = i], "seek"))
    /\ Signal(Count(Buffer(d) # 0))
    /\ UNCHANGED <<made, unwritten>>

\* Reading the disk into the stolen entry's buffer.
ReadOk(d) ==
    LET i == dev[d].slot IN
    /\ At(d, "seek")
    /\ cache' = [cache EXCEPT !.entry[i].image = "disk"]
    /\ Set(d, [dev[d] EXCEPT !.pc = "ready", !.cur = dev[d].trk, !.cache = i, !.slot = 0,
                              !.trk = NoTrack])
    /\ unwritten' = unwritten \ {<<d, dev[d].trk>>}
    /\ UNCHANGED <<made, asleep>>

ReadFail(d) ==
    /\ d \in Faulty
    /\ At(d, "seek")
    /\ Goto(d, "readfailed")
    /\ UNCHANGED <<cache, made, asleep, unwritten>>

\* As if the entry were only made inactive, or nobody were told.
AbandonReadKeep(d) ==
    /\ At(d, "readfailed") /\ made
    /\ cache' = SetFlag(cache, dev[d].slot, FALSE)
    /\ Signal(1)
    /\ Set(d, Unlock([dev[d] EXCEPT !.slot = 0, !.trk = NoTrack], "ready"))
    /\ UNCHANGED <<made, unwritten>>

AbandonReadSilent(d) ==
    /\ At(d, "readfailed") /\ made
    /\ cache' = Release(cache, dev[d].slot)
    /\ Set(d, Unlock([dev[d] EXCEPT !.slot = 0, !.trk = NoTrack], "ready"))
    /\ UNCHANGED <<made, asleep, unwritten>>

AbandonRead(d) ==
    /\ At(d, "readfailed") /\ made
    /\ cache' = Release(cache, dev[d].slot)
    /\ Signal(1)
    /\ Set(d, Unlock([dev[d] EXCEPT !.slot = 0, !.trk = NoTrack], "ready"))
    /\ UNCHANGED <<made, unwritten>>

-----------------------------------------------------------------------------
(* Channel programs and close *)

StartProgram(d) ==
    /\ At(d, "idle")
    /\ \E s \in BOOLEAN :
        /\ s => d \in Sync
        /\ Set(d, [dev[d] EXCEPT !.pc = "ready", !.sync = s])
    /\ UNCHANGED <<cache, made, asleep, unwritten>>

\* A command changes the image in hand (ckddasd_update_track).
Update(d) ==
    /\ At(d, "ready") /\ Buffer(d) # 0
    /\ cache' = [cache EXCEPT !.entry[Buffer(d)].image = "new"]
    /\ Set(d, [dev[d] EXCEPT !.upd = TRUE])
    /\ UNCHANGED <<made, asleep, unwritten>>

EndProgram(d) ==
    /\ At(d, "ready")
    /\ Request(d, NoTrack)
    /\ UNCHANGED <<cache, made, asleep, unwritten>>

Close(d) ==
    /\ d \in Closing
    /\ At(d, "idle")
    /\ Set(d, [dev[d] EXCEPT !.pc = "lock", !.trk = NoTrack, !.close = TRUE])
    /\ UNCHANGED <<cache, made, asleep, unwritten>>

\* ckddasd_purge_cache for every entry.
Purge(d) ==
    LET mine == {i \in Entry : cache.entry[i].key # NoKey /\ cache.entry[i].key[1] = d} IN
    /\ At(d, "purge") /\ made
    /\ cache' = ReleaseAll(cache, mine)
    /\ Signal(Cardinality(mine))
    /\ Set(d, Unlock([dev[d] EXCEPT !.close = FALSE], "idle"))
    /\ unwritten' = {k \in unwritten : k[1] # d}
    /\ UNCHANGED made

-----------------------------------------------------------------------------
Quiet == [pc |-> "idle", then |-> "idle", trk |-> NoTrack, cur |-> NoTrack,
          cache |-> 0, slot |-> 0, upd |-> FALSE, sync |-> FALSE, close |-> FALSE]

Init ==
    /\ made = Made
    /\ IF Made
       THEN \E k \in Key, i \in Entry :
                cache = [SetAge(SetFlag(SetFlag(SetKey(EmptyCache, i, k), i, TRUE), i, FALSE), i)
                            EXCEPT !.entry[i].image = "disk"]
       ELSE cache = EmptyCache
    /\ asleep = {} /\ unwritten = {}
    /\ dev = [d \in Device |-> Quiet]

ReadTrack(d) ==
    \/ \E t \in Track : Read(d, t)
    \/ WriteOk(d) \/ WriteFail(d) \/ AbandonWrite(d)
    \/ LetGo(d) \/ Hit(d) \/ MissSync(d) \/ Wait(d) \/ Steal(d)
    \/ ReadOk(d) \/ ReadFail(d) \/ AbandonRead(d)

Locking(d) ==
    FindNoCache(d) \/ CreateCache(d) \/ KeepCache(d) \/ FindEmptyCache(d) \/ DestroyCache(d)

Program(d) == StartProgram(d) \/ Update(d) \/ EndProgram(d) \/ Close(d) \/ Purge(d)

Next == \E d \in Device : ReadTrack(d) \/ Locking(d) \/ Program(d)

Spec == Init /\ [][Next]_vars

-----------------------------------------------------------------------------
(* Properties *)

Pc == {"idle", "ready", "write", "writefailed", "lock", "wait", "seek", "readfailed",
       "purge", "create", "unlock", "destroy"}

\* Every variable keeps its type.
TypeOK ==
    /\ cache \in [entry : [Entry -> [key : Key \cup {NoKey}, busy : BOOLEAN,
                                     image : {"disk", "new", "other"}]],
                  age : Seq(Entry), busy : 0..Nbr, empty : 0..Nbr]
    /\ made \in BOOLEAN /\ asleep \subseteq Device /\ unwritten \subseteq Key
    /\ dev \in [Device -> [pc : Pc, then : Pc, trk : Track \cup {NoTrack},
                           cur : Track \cup {NoTrack}, cache : 0..Nbr, slot : 0..Nbr,
                           upd : BOOLEAN, sync : BOOLEAN, close : BOOLEAN]]

\* The entry a device has in hand or is filling, with the key it believes in.
Holds(d, i, k) ==
    \/ i = dev[d].cache /\ k = <<d, dev[d].cur>>
    \/ i = dev[d].slot /\ k = <<d, dev[d].trk>>

\* A busy entry is not stolen or reused (cache.h): what a device has in hand or
\* is filling stays busy and keeps its key, whatever the others do between
\* two of its steps.
HeldIsKept ==
    \A d \in Device, i \in Entry, k \in Key \cup (Device \X {NoTrack}) :
        Holds(d, i, k) => IsBusy(cache, i) /\ cache.entry[i].key = k

\* The counters kept by increments are the numbers of busy and empty entries:
\* cache_wait returns without waiting, and cache_unlock destroys, by them.
CountersExact ==
    /\ cache.busy = Cardinality({i \in Entry : IsBusy(cache, i)})
    /\ cache.empty = Cardinality({i \in Entry : IsEmpty(cache, i)})

\* No wakeup is lost: while a device sleeps in cache_wait, every entry that is
\* not busy has been announced to a device that is awake and on its way to it.
WakeupForEachFree ==
    asleep # {} =>
        Cardinality({d \in Device : dev[d].pc = "wait" /\ d \notin asleep})
            >= Nbr - Cardinality({i \in Entry : IsBusy(cache, i)})

\* No change is dropped in silence: an image that differs from the disk belongs
\* to a device that knows it has to write it, or to a track of which a write
\* failed and was reported.  A change that failed stays so through later hits
\* and good writes of other parts of the track, until it is made again or the
\* disk is read again: that it is on disk is not claimed.
NoChangeDropped ==
    \A i \in Entry : cache.entry[i].image = "new" =>
        \/ \E d \in Device : dev[d].cache = i /\ dev[d].upd
        \/ cache.entry[i].key \in unwritten

\* A device that goes on to a command has an image of the track it believes to
\* have, and never the leftovers of another.
ImageRead ==
    \A d \in Device : dev[d].cache # 0 => cache.entry[dev[d].cache].image # "other"

\* A cache is destroyed only when nobody has an entry or waits for one.
UsersHaveCache ==
    ~made => asleep = {} /\ \A d \in Device : dev[d].cache = 0 /\ dev[d].slot = 0

=============================================================================
