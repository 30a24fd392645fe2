----------------------------- MODULE CckdSpace ------------------------------
(***************************************************************************)
(* The space of a compressed disk's file (src/hercules/cckddasd.c): where  *)
(* track images and level 2 tables are put, the chain of free spaces, and  *)
(* the garbage collector, which moves what lies between free spaces and    *)
(* makes released space available some intervals later.                    *)
(*                                                                         *)
(* cckd->filelock makes each operation one action.  The unit of space is   *)
(* CCKD_FREEBLK_SIZE.  The links and the slots of the chain are left out:  *)
(* cckd.free is the sequence of free spaces, each with its own position.   *)
(* Position 0 stands for no space; of null tracks there is one format.     *)
(***************************************************************************)
EXTENDS Integers, FiniteSets, SequencesExt

CONSTANTS
    Track,      \* tracks
    Table,      \* entries of the level 1 table
    TableOf,    \* the level 1 entry of each track
    Length,     \* lengths of compressed images; length 0 is a null track
    First,      \* where the level 1 table ends
    L2Size,     \* CCKD_L2TAB_SIZE
    FreeMin,    \* cckd->freemin
    ManyFree,   \* with as many free spaces (100) the collector takes any size
    MaxSize,    \* cckd->maxsize
    FreePend,   \* cckdblk.freepend
    FSync       \* cckdblk.fsync

ASSUME SpaceAssumption ==
    /\ IsFiniteSet(Track)
    /\ IsFiniteSet(Table) /\ Table \subseteq Nat
    /\ TableOf \in [Track -> Table]
    /\ Length \subseteq Nat
    /\ First \in Nat \ {0} /\ L2Size \in Nat \ {0}
    /\ FreeMin \in Nat /\ ManyFree \in Nat /\ MaxSize \in Nat
    /\ FreePend \in -1..4 /\ FSync \in BOOLEAN

VARIABLES
    cckd,       \* header, free chain and tables of the file
    gcol,       \* what the garbage collector does, and its `after'
    released,   \* units released, and how often free space was flushed since
    synced,     \* where tracks and tables were when the file was last synced
    failed      \* whether a write found no space

vars == <<cckd, gcol, released, synced, failed>>

NoSpace == [pos |-> 0, len |-> 0, size |-> 0]

\* A new file.
Init ==
    /\ cckd = [size |-> First, used |-> First, number |-> 0, total |-> 0, largest |-> 0,
               imbed |-> 0, free |-> <<>>, bounds |-> First,
               l1 |-> [x \in Table |-> 0], l2 |-> [t \in Track |-> NoSpace]]
    /\ gcol = [at |-> "sleep", after |-> 0]
    /\ released = {}
    /\ synced = [o \in {} |-> 0]
    /\ failed = FALSE

-----------------------------------------------------------------------------
(* cckd_get_space, cckd_rel_space, cckd_flush_space: each maps a file to the *)
(* next.                                                                     *)

Largest(free) ==
    LET lens == {free[i].len : i \in {j \in DOMAIN free : free[j].pending = 0}} IN
    Max(lens \cup {0})

Pend == IF FreePend >= 0 THEN FreePend ELSE IF FSync THEN 1 ELSE 2

Failed(f) == [pos |-> -1, size |-> 0, file |-> f]

AtEnd(f, len) ==
    IF f.size + len > MaxSize THEN Failed(f)
    ELSE [pos |-> f.size, size |-> len,
          file |-> [f EXCEPT !.size = @ + len, !.used = @ + len]]

\* As if free_largest were looked for again only when all of a space is taken.
TakeStale(f, i, len, any) ==
    LET e == f.free[i] IN
    IF len < e.len
    THEN [pos |-> e.pos, size |-> len,
          file |-> [f EXCEPT !.free[i].pos = @ + len, !.free[i].len = @ - len,
                             !.used = @ + len, !.total = @ - len]]
    ELSE [pos |-> e.pos, size |-> len,
          file |-> [f EXCEPT !.free = RemoveAt(@, i), !.number = @ - 1,
                             !.largest = Largest(RemoveAt(f.free, i)),
                             !.used = @ + len, !.total = @ - len]]

\* The first space i of the chain: all of it, or its beginning.  Those that will
\* take any size get all of a small one, whose rest is imbedded free space.
TakeFrom(f, i, len, any) ==
    LET e == f.free[i]
        size == IF any /\ e.len <= FreeMin THEN e.len ELSE len
        rest == [e EXCEPT !.pos = @ + size, !.len = @ - size]
        free == IF size < e.len THEN [f.free EXCEPT ![i] = rest] ELSE RemoveAt(f.free, i)
    IN
    [pos |-> e.pos, size |-> size,
     file |-> [f EXCEPT !.free = free,
                        !.number = IF size < e.len THEN @ ELSE @ - 1,
                        !.largest = IF e.len >= @ THEN Largest(free) ELSE @,
                        !.used = @ + len, !.total = @ - len, !.imbed = @ + size - len]]

\* Only tables are put within the bounds of the tables.
GetSpace(f, len, table, any) ==
    LET Fits(n) == len + 1 <= n \/ len = n
        fit == {i \in DOMAIN f.free : /\ f.free[i].pending = 0
                                      /\ Fits(f.free[i].len)
                                      /\ table \/ f.free[i].pos >= f.bounds}
    IN
    IF ~Fits(f.largest) \/ fit = {} THEN AtEnd(f, len)
    ELSE TakeFrom(f, Min(fit), len, any)

RelSpace(f, pos, len, size) ==
    LET p == Cardinality({i \in DOMAIN f.free : f.free[i].pos <= pos})
        joins == /\ p > 0
                 /\ f.free[p].pos + f.free[p].len = pos
                 /\ f.free[p].pending = Pend
        free == IF joins THEN [f.free EXCEPT ![p].len = @ + size]
                ELSE InsertAt(f.free, p + 1, [pos |-> pos, len |-> size, pending |-> Pend])
        fsize == IF joins THEN free[p].len ELSE size
    IN
    IF pos = 0 THEN f
    ELSE [f EXCEPT !.free = free,
                   !.number = IF joins THEN @ ELSE @ + 1,
                   !.used = @ - len, !.total = @ + len, !.imbed = @ - (size - len),
                   !.largest = IF Pend = 0 /\ fsize > @ THEN fsize ELSE @]

\* As if all adjacent spaces were joined.
FlushJoining(chain, e) ==
    LET n == Len(chain) IN
    IF n > 0 /\ chain[n].pos + chain[n].len = e.pos
    THEN [chain EXCEPT ![n].len = @ + e.len]
    ELSE Append(chain, [e EXCEPT !.pending = IF @ > 0 THEN @ - 1 ELSE 0])

\* One space of the chain joins the chain already flushed: its pending count is
\* decremented, or it becomes part of the space before it.
FlushOne(chain, e) ==
    LET n == Len(chain)
        joins == /\ n > 0
                 /\ chain[n].pos + chain[n].len = e.pos
                 /\ e.pending \in chain[n].pending..(chain[n].pending + 1)
    IN
    IF joins THEN [chain EXCEPT ![n].len = @ + e.len]
    ELSE Append(chain, [e EXCEPT !.pending = IF @ > 0 THEN @ - 1 ELSE 0])

FlushChain(free) ==
    LET flushed[n \in 0..Len(free)] ==
            IF n = 0 THEN <<>> ELSE FlushOne(flushed[n - 1], free[n])
    IN flushed[Len(free)]

\* What is free at the end of the file is cut off.
FlushSpace(f) ==
    LET free == FlushChain(f.free)
        n == Len(free)
        cut == n > 0 /\ free[n].pending = 0 /\ free[n].pos + free[n].len = f.size
    IN
    IF cut THEN [f EXCEPT !.free = Front(free), !.number = n - 1, !.largest = Largest(Front(free)),
                          !.size = @ - free[n].len, !.total = @ - free[n].len]
    ELSE [f EXCEPT !.free = free, !.number = n, !.largest = Largest(free)]

-----------------------------------------------------------------------------
(* cckd_write_l2, cckd_write_l2ent, cckd_write_trkimg: the next file, whether  *)
(* the write succeeded, and whether the image moved towards the end.           *)

Result(f, ok, after) == [file |-> f, ok |-> ok, after |-> after]

TableEmpty(f, x) == \A t \in Track : TableOf[t] = x => f.l2[t].pos = 0

WriteL2(f, x) ==
    LET old == f.l1[x]
        b == [f EXCEPT !.bounds = IF old = 0 THEN @ + L2Size ELSE @]
        new == IF TableEmpty(f, x)
               THEN [pos |-> 0, size |-> 0, file |-> [b EXCEPT !.bounds = @ - L2Size]]
               ELSE GetSpace(b, L2Size, TRUE, FALSE)
    IN
    IF new.pos < 0 THEN Result(b, FALSE, 0)
    ELSE Result([RelSpace(new.file, old, L2Size, L2Size) EXCEPT !.l1[x] = new.pos], TRUE, 0)

\* The table is written when the file has none; else its entry.
WriteL2Ent(f, t, l2) ==
    LET g == [f EXCEPT !.l2[t] = l2] IN
    IF g.l1[TableOf[t]] = 0 THEN WriteL2(g, TableOf[t]) ELSE Result(g, TRUE, 0)

\* As if the old space were released by the length of its image.
WriteTrkimgLen(f, t, len, any) ==
    LET old == f.l2[t]
        got == IF len = 0 THEN [pos |-> 0, size |-> 0, file |-> f] ELSE GetSpace(f, len, FALSE, any)
        ent == WriteL2Ent(got.file, t, [pos |-> got.pos, len |-> len, size |-> got.size])
    IN
    IF got.pos < 0 THEN Result(f, FALSE, 0)
    ELSE IF ~ent.ok THEN ent
    ELSE Result(RelSpace(ent.file, old.pos, old.len, old.len), TRUE, 0)

WriteTrkimg(f, t, len, any) ==
    LET old == f.l2[t]
        got == IF len = 0 THEN [pos |-> 0, size |-> 0, file |-> f] ELSE GetSpace(f, len, FALSE, any)
        new == [pos |-> got.pos, len |-> len, size |-> got.size]
        ent == WriteL2Ent(got.file, t, new)
        after == IF old.pos # 0 /\ old.pos < new.pos THEN 1 ELSE 0
    IN
    IF got.pos < 0 THEN Result(f, FALSE, 0)
    ELSE IF ~ent.ok THEN ent
    ELSE Result(RelSpace(ent.file, old.pos, old.len, old.size), TRUE, after)

-----------------------------------------------------------------------------
(* What was released and not made available yet *)

Owner == ({"track"} \X Track) \cup ({"table"} \X Table)

\* The space of a track or table, none if it has none.
SpaceOf(f, o) ==
    IF o[1] = "track" THEN [pos |-> f.l2[o[2]].pos, len |-> f.l2[o[2]].size]
    ELSE [pos |-> f.l1[o[2]], len |-> IF f.l1[o[2]] = 0 THEN 0 ELSE L2Size]

Units(e) == e.pos..(e.pos + e.len - 1)

\* Every unit that an owner has in the file before and not in the one after.
Releases(before, after) ==
    UNION {Units(SpaceOf(before, o)) : o \in {p \in Owner : SpaceOf(before, p) # SpaceOf(after, p)}}

Becomes(r) ==
    /\ cckd' = r.file
    /\ released' = IF Pend = 0 THEN {} ELSE released \cup (Releases(cckd, r.file) \X {0})
    /\ failed' = (failed \/ ~r.ok)

Flushed(n) == {<<r[1], r[2] + n>> : r \in {q \in released : q[2] + n < Pend}}

-----------------------------------------------------------------------------
(* The writers, a close or sf command, and the garbage collector *)

\* cckd_writer; whether the write succeeded it does not ask.  (The model writes no
\* more after a write that found no space.)
WriteTrack(t) ==
    /\ ~failed
    /\ \E len \in Length : Becomes(WriteTrkimg(cckd, t, len, TRUE))
    /\ UNCHANGED <<gcol, synced>>

Sync(f) == synced' = [o \in Owner |-> SpaceOf(f, o)]

Flushed4(f) == FlushSpace(FlushSpace(FlushSpace(FlushSpace(f))))

\* cckd_harden: cckd_write_fsp flushes as often as any space can be pending, and
\* writes the chain, which is read again when it is needed.  (Where there is no
\* room for it the code writes over the device header; the model stops.)
Harden ==
    LET f == Flushed4(cckd) IN
    /\ f.number = 0 \/ f.size + f.number + 1 <= MaxSize
                    \/ \E i \in DOMAIN f.free : f.number + 1 <= f.free[i].len
    /\ cckd' = f
    /\ released' = Flushed(4)
    /\ IF FSync THEN Sync(f) ELSE UNCHANGED synced
    /\ UNCHANGED <<gcol, failed>>

\* cckd_gc_l2, step by step: each maps what there is so far to the next result and
\* leaves alone one that failed or has nothing more to move.
OutOfBounds(f, x) == f.bounds - L2Size < f.l1[x]

\* The first track image within the bounds of the tables goes elsewhere.
ClearBounds(r) ==
    LET f == r.file
        low == {f.l2[t].pos : t \in Track} \cap First..(f.bounds - 1)
        t == CHOOSE x \in Track : f.l2[x].pos = Min(low)
    IN
    IF ~r.ok \/ low = {} THEN r ELSE WriteTrkimg(f, t, f.l2[t].len, FALSE)

\* A table out of bounds goes to the first free space; if no table fits there, the
\* table behind it goes elsewhere.
MoveTable(r) ==
    LET f == r.file
        e == Head(f.free)
        ready == f.free # <<>> /\ e.pos < f.bounds /\ e.pending = 0
        fits == e.len = L2Size \/ e.len >= L2Size + 1
        move == {x \in Table : IF fits THEN OutOfBounds(f, x) ELSE e.pos + e.len = f.l1[x]}
    IN
    IF ~r.ok \/ ~ready \/ move = {} THEN r ELSE WriteL2(f, Min(move))

\* As often as there may be something to move.
Moves == Cardinality(Track) + 2 * Cardinality(Table)

ClearAll(f) ==
    LET cleared[n \in 0..Moves] ==
            IF n = 0 THEN Result(f, TRUE, 0) ELSE ClearBounds(cleared[n - 1])
    IN cleared[Moves]

MoveTables(r) ==
    LET moved[n \in 0..Moves] == IF n = 0 THEN r ELSE MoveTable(moved[n - 1])
    IN moved[Moves]

GcL2(f) ==
    IF f.total = 0 \/ ~\E x \in Table : OutOfBounds(f, x) THEN Result(f, TRUE, 0)
    ELSE MoveTables(ClearAll(f))

\* The collector first looks after the tables.  cckd->l2ok only says that it would
\* find none out of bounds.
GcBegin ==
    /\ ~failed
    /\ gcol.at = "sleep"
    /\ gcol' = [at |-> "collect", after |-> 0]
    /\ Becomes(GcL2(cckd))
    /\ UNCHANGED synced

\* cckd_gc_percolate: the free space whose used neighbour is to be moved is the
\* first available one, or after a move towards the end the largest; and of those
\* adjacent to it the last.
StartOf(f) ==
    LET avail == {i \in DOMAIN f.free : f.free[i].pending = 0}
        big == {i \in DOMAIN f.free : i >= Min(avail) /\ f.free[i].len = f.largest}
        from == IF gcol.after = 0 THEN Min(avail) ELSE Min(big)
        Adjacent(i) == i < Len(f.free) /\ f.free[i].pos + f.free[i].len = f.free[i + 1].pos
    IN
    IF avail = {} THEN 0
    ELSE Min({i \in from..Len(f.free) : ~Adjacent(i)})

\* With imbedded free space only, the used space behind the first tables.
BehindTables(f) ==
    LET tables == UNION {Units(SpaceOf(f, o)) : o \in {"table"} \X Table} IN
    Min({p \in First..f.size : p \notin tables})

\* The used space to be moved, from and up to; nothing if they are equal.
Used(f) ==
    LET i == StartOf(f) IN
    IF i > 0 THEN [from |-> f.free[i].pos + f.free[i].len,
                   to |-> IF i = Len(f.free) THEN f.size ELSE f.free[i + 1].pos]
    ELSE IF f.number = 0 /\ f.imbed > 0 THEN [from |-> BehindTables(f), to |-> f.size]
    ELSE [from |-> 0, to |-> 0]

\* Move what is left of the result so far: stop at the first failure.
MoveOne(r, o, any) ==
    LET w == IF o[1] = "table" THEN WriteL2(r.file, o[2])
             ELSE WriteTrkimg(r.file, o[2], r.file.l2[o[2]].len, any)
    IN
    IF r.ok THEN [w EXCEPT !.after = @ + r.after] ELSE r

\* What begins at from..to is moved, in the order in which it lies there.
MoveUsed(f, from, to) ==
    LET moved[p \in 0..to] ==
            LET here == {o \in Owner : SpaceOf(f, o).pos = p} IN
            IF p = 0 THEN Result(f, TRUE, 0)
            ELSE IF p < from \/ here = {} THEN moved[p - 1]
            ELSE MoveOne(moved[p - 1], CHOOSE o \in here : TRUE, f.number >= ManyFree)
    IN moved[to]

\* One cycle moves as much as its buffer holds; the collector stops when it has
\* moved enough, when there is nothing to move, or when it moves things back.
GcCycle ==
    LET used == Used(cckd)
        done == [gcol EXCEPT !.at = "sync"]
    IN
    /\ ~failed
    /\ gcol.at = "collect"
    /\ IF cckd.total = 0 \/ used.from = used.to
       THEN /\ gcol' = done
            /\ UNCHANGED <<cckd, released, failed>>
       ELSE \E to \in First..(cckd.size - 1) :
            LET r == MoveUsed(cckd, used.from, to)
                after == gcol.after + IF gcol.after = 0 THEN Min({r.after, 1}) ELSE r.after
            IN
            /\ to \in used.from..(used.to - 1)
            /\ Becomes(r)
            /\ \/ gcol' = done
               \/ r.ok /\ after < 4 /\ gcol' = [gcol EXCEPT !.after = after]
    /\ UNCHANGED synced

\* The file is synced only if ten seconds have passed since it last was.
GcSync ==
    /\ gcol.at = "sync"
    /\ gcol' = [at |-> "flush", after |-> 0]
    /\ (FSync /\ Sync(cckd)) \/ UNCHANGED synced
    /\ UNCHANGED <<cckd, released, failed>>

GcFlush ==
    /\ gcol.at = "flush"
    /\ gcol' = [gcol EXCEPT !.at = "sleep"]
    /\ cckd' = FlushSpace(cckd)
    /\ released' = Flushed(1)
    /\ UNCHANGED <<synced, failed>>

Next == \/ \E t \in Track : WriteTrack(t)
        \/ Harden
        \/ GcBegin \/ GcCycle \/ GcSync \/ GcFlush

Spec == Init /\ [][Next]_vars

-----------------------------------------------------------------------------
(* Properties *)

Spaces == {[o |-> o, e |-> SpaceOf(cckd, o)] : o \in {p \in Owner : SpaceOf(cckd, p).pos # 0}}
          \cup {[o |-> <<"free", i>>, e |-> [pos |-> cckd.free[i].pos, len |-> cckd.free[i].len]] :
                    i \in DOMAIN cckd.free}

\* Every unit of the file behind the level 1 table belongs to one track image,
\* one level 2 table or one free space, after any sequence of writes, moves and
\* flushes: no image is overwritten, and no space is lost, unless a write failed:
\* cckd_write_trkimg then does not release the space of the image it replaced.
Tiled ==
    /\ \A s \in Spaces : s.e.len > 0 /\ Units(s.e) \subseteq First..(cckd.size - 1)
    /\ \A u \in First..(cckd.size - 1) : LET n == Cardinality({s \in Spaces : u \in Units(s.e)}) IN
                                        n = 1 \/ (failed /\ n = 0)

\* What an image leaves of its space.
Rest(e) == [pos |-> e.pos + e.len, len |-> e.size - e.len]

\* The header and the chain agree (cckd_chk_space): a space too small for what
\* free_largest promises would be taken, or the free space table misread.
SpaceCounted ==
    LET free == UNION {Units(cckd.free[i]) : i \in DOMAIN cckd.free}
        imbedded == UNION {Units(Rest(cckd.l2[t])) : t \in Track}
    IN
    /\ cckd.number = Len(cckd.free)
    /\ \A i \in 1..(Len(cckd.free) - 1) : cckd.free[i].pos < cckd.free[i + 1].pos
    /\ cckd.total - cckd.imbed = Cardinality(free)
    /\ cckd.largest = Largest(cckd.free)
    /\ failed \/ cckd.imbed = Cardinality(imbedded)
    /\ cckd.used + cckd.total = cckd.size

\* Released space is not used again before it was flushed as often as `freepend'
\* says, although adjacent spaces with other counts are joined.
ReusedLate ==
    \A r \in released : \A o \in Owner : r[1] \notin Units(SpaceOf(cckd, o))

\* "when fsync is enabled ... if a catastrophic error occurs then the emulated
\* disks should be recovered coherently" (html/cckddasd.html): what the tables of
\* the last sync point to has not been written over.
CrashSafe ==
    \A o \in DOMAIN synced : synced[o] # SpaceOf(cckd, o) =>
        \A p \in Owner : Units(synced[o]) \cap Units(SpaceOf(cckd, p)) = {}

=============================================================================
