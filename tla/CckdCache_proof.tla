--------------------------- MODULE CckdCache_proof ---------------------------
(***************************************************************************)
(* Proofs about CckdCache, for any number of devices, tracks, entries and  *)
(* threads.  That each entry has one owner, and that no update is lost, is *)
(* proved of the commands the code has a defence against (~Races); of the  *)
(* updates only for tracks without errors of input or output, while all    *)
(* else is proved with errors on any track.                                *)
(***************************************************************************)
EXTENDS CckdCache, ChainOps_proof, FiniteSetTheorems

-----------------------------------------------------------------------------
(* Entries *)

EntryRec == [key : Key \cup {None}, flag : SUBSET Flags, image : Image]

\* An image is a number, the one of a track not updated among them.
LEMMA ImageFacts == 0 \in Image /\ Null \in Image /\ \A i \in Image : i \in Int
BY CckdAssumption DEF Image, Null

\* An update makes an image newer, or leaves it null.
LEMMA UpdatedImage ==
    ASSUME NEW i \in Image
    PROVE  /\ Updated(i) \in Int /\ i <= Updated(i)
           /\ i < MaxImage => Updated(i) \in Image
BY CckdAssumption DEF Image, Null, Updated

\* What is read is an image, whether it is the track's or not.
LEMMA ReadImage ==
    ASSUME file \in [Key -> Image], NEW k \in Key, NEW i \in Read(k)
    PROVE  i \in Image
BY ImageFacts DEF Read

\* The flags that an entry can have together.
FlagOK(r) ==
    /\ "WRITE" \in r.flag => r.flag = {"WRITE"}
    /\ "READING" \in r.flag => r.flag \subseteq {"READING", "ACTIVE", "IOWAIT"}
    /\ "WRITING" \in r.flag => r.flag \subseteq {"WRITING", "ACTIVE", "IOWAIT"}
    /\ r.key = None => r.flag = {}

EntriesOK(ent) == ent \in [Entry -> EntryRec] /\ \A e \in Entry : FlagOK(ent[e])

\* The entries of d with a write pending or in progress, and those with one pending.
IsMarked(r) == "WRITE" \in r.flag \/ "WRITING" \in r.flag
Marks(d, ent) == {e \in Of(d, ent) : IsMarked(ent[e])}
ToWrite(ent) == {e \in Entry : "WRITE" \in ent[e].flag}

\* An entry that stays as it is, as far as writers are concerned.
SameMark(r, s) ==
    /\ "WRITE" \in s.flag <=> "WRITE" \in r.flag
    /\ "WRITING" \in s.flag <=> "WRITING" \in r.flag
    /\ IsMarked(r) => s.key = r.key

SameMarks(ent, new) == \A e \in Entry : SameMark(ent[e], new[e])

\* A write of d that is pending in e is not pending any more; it is in progress if b.
Unmarked(ent, new, d, e, b) ==
    /\ e \in Of(d, ent) /\ "WRITE" \in ent[e].flag
    /\ "WRITE" \notin new[e].flag /\ new[e].key = ent[e].key
    /\ "WRITING" \in new[e].flag <=> b
    /\ \A x \in Entry \ {e} : SameMark(ent[x], new[x])

\* What the channel program of d uses is left to it.
KeptFor(d, ent, new) ==
    \A e \in Entry : e \in Of(d, ent) /\ "ACTIVE" \in ent[e].flag =>
        /\ new[e].key = ent[e].key /\ "ACTIVE" \in new[e].flag
        /\ new[e].flag \cap IoBusy \subseteq ent[e].flag

LEMMA KeyFacts ==
    /\ \A k \in Key : k = <<k[1], k[2]>> /\ k[1] \in Dev /\ k # None
    /\ \A d \in Dev, t \in UNION {Tracks[x] : x \in Dev} : <<d, t>> \in Key
    /\ \A d \in Dev : \A t \in Tracks[d] : <<d, t>> \in Key /\ t \in Nat
    /\ None \notin Entry /\ None \notin Dev
BY CckdAssumption DEF Key

LEMMA FlagFacts ==
    /\ \A f \in {"READING", "WRITING", "ACTIVE", "IOWAIT", "UPDATED", "WRITE"} : f \in Flags
    /\ IoBusy \subseteq Flags
    /\ \A f : f \in IoBusy <=> f = "READING" \/ f = "WRITING"
BY DEF Flags, IoBusy

\* An entry whose flags change.
WithFlag(ent, e, f) == [ent EXCEPT ![e].flag = f]

Flagged(ent, new, e, f) ==
    /\ new \in [Entry -> EntryRec]
    /\ new[e].key = ent[e].key /\ new[e].image = ent[e].image /\ new[e].flag = f
    /\ \A x \in Entry \ {e} : new[x] = ent[x]

LEMMA FlagForm ==
    ASSUME NEW ent \in [Entry -> EntryRec], NEW e \in Entry, NEW f \in SUBSET Flags
    PROVE  Flagged(ent, WithFlag(ent, e, f), e, f)
<1> DEFINE r == [ent[e] EXCEPT !.flag = f]
           new == WithFlag(ent, e, f)
<1>1. ent[e] \in EntryRec
    OBVIOUS
<1>2. new = [ent EXCEPT ![e] = r]
    BY DEF WithFlag
<1>3. r \in EntryRec /\ r.key = ent[e].key /\ r.image = ent[e].image /\ r.flag = f
    BY <1>1 DEF EntryRec
<1> HIDE DEF r, new
<1>4. Flagged(ent, new, e, f)
    BY <1>2, <1>3 DEF Flagged
<1> QED BY <1>4 DEF new

LEMMA SameMarksFacts ==
    ASSUME NEW ent, NEW new, SameMarks(ent, new),
           \A e \in Entry : IsMarked(ent[e]) => ent[e].key # None
    PROVE  ToWrite(new) = ToWrite(ent) /\ \A d \in Dev : Marks(d, new) = Marks(d, ent)
BY DEF SameMarks, SameMark, ToWrite, Marks, IsMarked, Of

\* Flags are taken off, but not WRITE or WRITING.
Lessened(ent, new, e, f) ==
    /\ EntriesOK(new) /\ SameMarks(ent, new)
    /\ new[e].key = ent[e].key /\ new[e].image = ent[e].image
    /\ new[e].flag = ent[e].flag \ f
    /\ \A x \in Entry \ {e} : new[x] = ent[x]

LEMMA LessFlags ==
    ASSUME NEW ent, EntriesOK(ent), NEW e \in Entry, NEW f \in SUBSET {"ACTIVE", "READING", "IOWAIT"}
    PROVE  Lessened(ent, WithFlag(ent, e, ent[e].flag \ f), e, f)
<1>0. PICK new : new = WithFlag(ent, e, ent[e].flag \ f)
    OBVIOUS
<1>1. ent \in [Entry -> EntryRec] /\ ent[e].flag \in SUBSET Flags /\ FlagOK(ent[e])
    BY DEF EntriesOK, EntryRec
<1>2. /\ new \in [Entry -> EntryRec]
      /\ new[e].key = ent[e].key /\ new[e].image = ent[e].image
      /\ new[e].flag = ent[e].flag \ f
      /\ \A x \in Entry \ {e} : new[x] = ent[x]
  <2> DEFINE g == ent[e].flag \ f
  <2>1. g \in SUBSET Flags /\ new = WithFlag(ent, e, g)
      BY <1>0, <1>1
  <2> HIDE DEF g
  <2>2. Flagged(ent, WithFlag(ent, e, g), e, g)
      BY <1>1, <2>1, FlagForm
  <2> QED BY <2>1, <2>2 DEF g, Flagged
<1>3. FlagOK(new[e]) /\ SameMark(ent[e], new[e])
    BY <1>1, <1>2 DEF FlagOK, SameMark, IsMarked
<1>4. \A x \in Entry : FlagOK(new[x])
    BY <1>2, <1>3 DEF EntriesOK
<1>5. SameMarks(ent, new)
    BY <1>2, <1>3 DEF SameMarks, SameMark
<1>6. Lessened(ent, new, e, f)
    BY <1>2, <1>4, <1>5 DEF EntriesOK, Lessened
<1> QED BY <1>0, <1>6

\* Input or output begins to be waited for, or a track is updated.
Raised(ent, new, e, f) ==
    /\ EntriesOK(new) /\ SameMarks(ent, new)
    /\ new[e].key = ent[e].key /\ new[e].image = ent[e].image
    /\ new[e].flag = ent[e].flag \cup {f}
    /\ \A x \in Entry \ {e} : new[x] = ent[x]

LEMMA MoreFlags ==
    ASSUME NEW ent, EntriesOK(ent), NEW e \in Entry, ent[e].key # None, NEW f,
           \/ f = "IOWAIT" /\ "WRITE" \notin ent[e].flag
           \/ f = "UPDATED" /\ "WRITE" \notin ent[e].flag /\ ent[e].flag \cap IoBusy = {}
    PROVE  Raised(ent, WithFlag(ent, e, ent[e].flag \cup {f}), e, f)
<1>0. PICK new : new = WithFlag(ent, e, ent[e].flag \cup {f})
    OBVIOUS
<1>1. ent \in [Entry -> EntryRec] /\ ent[e].flag \in SUBSET Flags /\ FlagOK(ent[e])
    BY DEF EntriesOK, EntryRec
<1>2. ent[e].flag \cup {f} \in SUBSET Flags
    BY <1>1, FlagFacts
<1>3. /\ new \in [Entry -> EntryRec]
      /\ new[e].key = ent[e].key /\ new[e].image = ent[e].image
      /\ new[e].flag = ent[e].flag \cup {f}
      /\ \A x \in Entry \ {e} : new[x] = ent[x]
  <2> DEFINE g == ent[e].flag \cup {f}
  <2>1. g \in SUBSET Flags /\ new = WithFlag(ent, e, g)
      BY <1>0, <1>2
  <2> HIDE DEF g
  <2>2. Flagged(ent, WithFlag(ent, e, g), e, g)
      BY <1>1, <2>1, FlagForm
  <2> QED BY <2>1, <2>2 DEF g, Flagged
<1>4. FlagOK(new[e]) /\ SameMark(ent[e], new[e])
    BY <1>1, <1>3, FlagFacts DEF FlagOK, SameMark, IsMarked
<1>5. \A x \in Entry : FlagOK(new[x])
    BY <1>3, <1>4 DEF EntriesOK
<1>6. SameMarks(ent, new)
    BY <1>3, <1>4 DEF SameMarks, SameMark
<1>7. Raised(ent, new, e, f)
    BY <1>3, <1>5, <1>6 DEF EntriesOK, Raised
<1> QED BY <1>0, <1>7

\* An entry of d becomes the active one; it may be waited for at once.
Taking(ent, new, d, e, f) ==
    /\ EntriesOK(new)
    /\ "WRITE" \in ent[e].flag => Unmarked(ent, new, d, e, FALSE)
    /\ "WRITE" \notin ent[e].flag => SameMarks(ent, new)
    /\ new[e].key = ent[e].key /\ new[e].image = ent[e].image
    /\ new[e].flag = Activated(ent[e].flag) \cup f
    /\ "ACTIVE" \in new[e].flag
    /\ new[e].flag \cap IoBusy = ent[e].flag \cap IoBusy
    /\ \A x \in Entry \ {e} : new[x] = ent[x]

LEMMA ActivatedFacts ==
    ASSUME NEW ent, EntriesOK(ent), NEW d \in Dev, NEW e \in Of(d, ent), NEW f \in SUBSET {"IOWAIT"}
    PROVE  Taking(ent, WithFlag(ent, e, Activated(ent[e].flag) \cup f), d, e, f)
<1>0. PICK new : new = WithFlag(ent, e, Activated(ent[e].flag) \cup f)
    OBVIOUS
<1>1. e \in Entry /\ ent \in [Entry -> EntryRec] /\ ent[e].flag \in SUBSET Flags /\ FlagOK(ent[e])
      /\ ent[e].key # None
    BY DEF EntriesOK, EntryRec, Of
<1>2. Activated(ent[e].flag) \cup f \in SUBSET Flags
    BY <1>1, FlagFacts DEF Activated
<1>3. /\ new \in [Entry -> EntryRec]
      /\ new[e].key = ent[e].key /\ new[e].image = ent[e].image
      /\ new[e].flag = Activated(ent[e].flag) \cup f
      /\ \A x \in Entry \ {e} : new[x] = ent[x]
  <2> DEFINE g == Activated(ent[e].flag) \cup f
  <2>1. g \in SUBSET Flags /\ new = WithFlag(ent, e, g)
      BY <1>0, <1>2
  <2> HIDE DEF g
  <2>2. Flagged(ent, WithFlag(ent, e, g), e, g)
      BY <1>1, <2>1, FlagForm
  <2> QED BY <2>1, <2>2 DEF g, Flagged
<1>4. /\ "ACTIVE" \in new[e].flag
      /\ new[e].flag \cap IoBusy = ent[e].flag \cap IoBusy
    BY <1>1, <1>3, FlagFacts DEF Activated, FlagOK
<1>5. FlagOK(new[e])
    BY <1>1, <1>3 DEF FlagOK, Activated
<1>6. \A x \in Entry : FlagOK(new[x])
    BY <1>3, <1>5 DEF EntriesOK
<1>7. /\ "WRITE" \in ent[e].flag => Unmarked(ent, new, d, e, FALSE)
      /\ "WRITE" \notin ent[e].flag => SameMarks(ent, new)
  <2>1. \A x \in Entry \ {e} : SameMark(ent[x], new[x])
      BY <1>3 DEF SameMark
  <2>2. CASE "WRITE" \in ent[e].flag
      BY <1>1, <1>3, <2>1, <2>2 DEF Unmarked, Of, Activated, FlagOK
  <2>3. CASE "WRITE" \notin ent[e].flag
    <3>1. new[e].flag = (ent[e].flag \cup {"ACTIVE"}) \cup f /\ new[e].key = ent[e].key
        BY <1>3, <2>3 DEF Activated
    <3>2. SameMark(ent[e], new[e])
        BY <2>3, <3>1 DEF SameMark
    <3> QED BY <2>1, <2>3, <3>2 DEF SameMarks
  <2> QED BY <2>2, <2>3
<1>8. EntriesOK(new)
    BY <1>3, <1>6 DEF EntriesOK
<1>9. Taking(ent, new, d, e, f)
    BY <1>3, <1>4, <1>7, <1>8 DEF Taking
<1> QED BY <1>0, <1>9

\* An entry that is not busy is given to another track.
Stealing(ent, e, k, f) == [ent EXCEPT ![e] = [key |-> k, image |-> 0, flag |-> {"READING"} \cup f]]
Stolen(ent, new, e, k, f) ==
    /\ e \in Entry /\ ent[e].flag = {}
    /\ EntriesOK(new) /\ SameMarks(ent, new)
    /\ new[e] = [key |-> k, image |-> 0, flag |-> {"READING"} \cup f]
    /\ \A x \in Entry \ {e} : new[x] = ent[x]

LEMMA StolenFacts ==
    ASSUME NEW ent, EntriesOK(ent), NEW e \in NotBusy(ent), NEW k \in Key, NEW f \in SUBSET {"ACTIVE"}
    PROVE  Stolen(ent, Stealing(ent, e, k, f), e, k, f)
<1>0. PICK new : new = Stealing(ent, e, k, f)
    OBVIOUS
<1>1. e \in Entry /\ ent[e].flag = {} /\ ent \in [Entry -> EntryRec]
    BY DEF NotBusy, EntriesOK
<1> DEFINE r == [key |-> k, image |-> 0, flag |-> {"READING"} \cup f]
<1>2. r \in EntryRec
    BY ImageFacts, FlagFacts DEF EntryRec
<1>3. new \in [Entry -> EntryRec] /\ new[e] = r /\ \A x \in Entry \ {e} : new[x] = ent[x]
    BY <1>0, <1>1, <1>2 DEF Stealing
<1>4. FlagOK(r) /\ SameMark(ent[e], r)
    BY <1>1, KeyFacts DEF FlagOK, SameMark, IsMarked
<1> HIDE DEF r
<1>5. EntriesOK(new) /\ SameMarks(ent, new)
    BY <1>3, <1>4 DEF EntriesOK, SameMarks, SameMark
<1>6. Stolen(ent, new, e, k, f)
    BY <1>1, <1>3, <1>5 DEF r, Stolen
<1> QED BY <1>0, <1>6

-----------------------------------------------------------------------------
(* The invariant *)

ExtRec == [ioactive : BOOLEAN, updated : BOOLEAN, opened : BOOLEAN, merging : BOOLEAN,
           stopping : BOOLEAN, iowaiters : Int, wrpending : Int, ras : Int]
CurRec == [trk : Nat \cup {None}, slot : Entry \cup {None}]
JobRec == [dev : Dev \cup {None}, trk : Nat \cup {None}, slot : Entry \cup {None},
           ahead : BOOLEAN, todo : SUBSET Dev]
WriterRec == [at : {"none", "new", "top", "wait", "write"}, slot : Entry \cup {None}]
GcolRec == [at : {"none", "top", "device", "collect", "wait", "sleep"},
            todo : SUBSET Dev, dev : Dev \cup {None}]
Cmd == {"none", "readaheads", "wait", "remove", "closed", "shadow"}
CurOK(c, d) == c = NoCurrent \/ c \in [trk : Tracks[d], slot : Entry]

DiskTypes ==
    /\ file \in [Key -> Image] /\ cckd \in [Dev -> ExtRec]
    /\ iocond \in [Dev -> SUBSET {"io", "cmd", "gcol"}]
    /\ cmd \in [Dev -> Cmd] /\ chain \subseteq Dev

ThreadTypes ==
    /\ current \in [Dev -> CurRec] /\ (\A d \in Dev : CurOK(current[d], d))
    /\ pc \in [Dev \cup Ra -> IoPc \cup RaPc]
    /\ (\A d \in Dev : pc[d] \in IoPc) /\ (\A r \in Ra : pc[r] \in RaPc)
    /\ job \in [Dev \cup Ra -> JobRec]
    /\ cachecond \subseteq {t \in Dev \cup Ra : pc[t] = "search"}
    /\ racond \subseteq {r \in Ra : pc[r] = "rawait"}

QueueTypes == raq \in Seq(Key) /\ Len(raq) <= RaQueue

WriterTypes ==
    /\ writer \in [Writer -> WriterRec] /\ wrpending \in 0..MaxPending
    /\ wrcond \subseteq {w \in Writer : writer[w].at = "wait"}

GcolTypes == gcol \in GcolRec /\ (gcol.at \in {"collect", "wait"} => gcol.dev \in Dev)

Types == DiskTypes /\ ThreadTypes /\ QueueTypes /\ WriterTypes /\ GcolTypes

\* What a running program of d believes of its entry is so.
Running(d) == pc[d] \notin {"idle", "startwait"}
Uses(d, t, e) == e \in Entry /\ entry[e].key = <<d, t>> /\ "ACTIVE" \in entry[e].flag

IoOK(d) ==
    /\ cckd[d].ioactive <=> Running(d)
    /\ pc[d] \in {"search", "iowait", "ahead", "load", "flush", "space"} =>
          job[d].dev = d /\ job[d].trk \in Tracks[d]
    /\ pc[d] \in {"iowait", "ahead", "load"} => Uses(d, job[d].trk, job[d].slot)
    /\ pc[d] \in {"ahead", "load"} => "WRITING" \notin entry[job[d].slot].flag
    /\ Running(d) /\ current[d] # NoCurrent =>
          /\ Uses(d, current[d].trk, current[d].slot)
          /\ entry[current[d].slot].flag \cap IoBusy = {}

\* A readahead thread has a job from the time it takes it off the queue.
RaOK(r) ==
    /\ pc[r] \in {"search", "load", "flush", "space", "raend"} =>
          job[r].dev \in Dev /\ job[r].trk \in UNION {Tracks[x] : x \in Dev}
    /\ pc[r] = "load" => job[r].slot \in Entry
    /\ pc[r] \in {"none", "ratop", "rawait"} => job[r].dev = None
    /\ job[r].ahead = FALSE

\* Each write in progress is that of one writer.
WritersOK ==
    /\ \A w \in Writer : writer[w].at = "write" <=> writer[w].slot # None
    /\ \A w \in Writer : writer[w].slot # None => "WRITING" \in entry[writer[w].slot].flag
    /\ \A v, w \in Writer : writer[v].slot = writer[w].slot /\ writer[v].slot # None => v = w
    /\ \A e \in Entry : "WRITING" \in entry[e].flag => \E w \in Writer : writer[w].slot = e

Counted ==
    /\ \A d \in Dev : cckd[d].wrpending = Cardinality(Marks(d, entry))
    /\ Cardinality(ToWrite(entry)) <= wrpending

\* cckd->iowaiters and cckd->ras count those who wait, and the readaheads.
IfSo(b) == IF b THEN 1 ELSE 0
Jobs(d) == {r \in Ra : job[r].dev = d}
WaitersCounted(d) ==
    cckd[d].iowaiters = IfSo(pc[d] \in {"startwait", "iowait"}) + IfSo(cmd[d] = "wait")
RasCounted(d) == cckd[d].ras = Cardinality(Jobs(d))

-----------------------------------------------------------------------------
(* Counts of entries *)

\* The number of elements, when at most one of them comes or goes.
LEMMA CountOne ==
    ASSUME NEW A, IsFiniteSet(A), NEW S \in SUBSET A, NEW T \in SUBSET A, NEW x \in A,
           \A y \in A \ {x} : y \in T <=> y \in S
    PROVE  /\ Cardinality(S) \in Nat
           /\ Cardinality(T) = Cardinality(S) + (IF x \in T THEN 1 ELSE 0)
                                             - (IF x \in S THEN 1 ELSE 0)
<1>1. IsFiniteSet(S) /\ Cardinality(S) \in Nat
    BY FS_Subset, FS_CardinalityType
<1>2. T = IF x \in T THEN S \cup {x} ELSE S \ {x}
    OBVIOUS
<1>3. /\ Cardinality(S \cup {x}) = IF x \in S THEN Cardinality(S) ELSE Cardinality(S) + 1
      /\ Cardinality(S \ {x}) = IF x \in S THEN Cardinality(S) - 1 ELSE Cardinality(S)
    BY <1>1, FS_AddElement, FS_RemoveElement
<1>4. CASE x \in T
  <2>1. T = S \cup {x}
      BY <1>2, <1>4
  <2> QED BY <1>1, <1>3, <1>4, <2>1
<1>5. CASE x \notin T
  <2>1. T = S \ {x}
      BY <1>2, <1>5
  <2> QED BY <1>1, <1>3, <1>5, <2>1
<1> QED BY <1>4, <1>5

LEMMA CountDisjoint ==
    ASSUME NEW S, IsFiniteSet(S), NEW T, IsFiniteSet(T), S \cap T = {}
    PROVE  Cardinality(S \cup T) = Cardinality(S) + Cardinality(T)
<1>1. Cardinality(S \cap T) = 0
    BY FS_EmptySet
<1>2. Cardinality(S) \in Nat /\ Cardinality(T) \in Nat
    BY FS_CardinalityType
<1>3. Cardinality(S \cup T) = Cardinality(S) + Cardinality(T) - Cardinality(S \cap T)
    BY FS_Union
<1> QED BY <1>1, <1>2, <1>3

LEMMA EntryCount ==
    ASSUME NEW S \in SUBSET Entry
    PROVE  IsFiniteSet(S) /\ Cardinality(S) \in 0..Cardinality(Entry) /\ (S = {} <=> Cardinality(S) = 0)
BY CckdAssumption, FS_Subset, FS_CardinalityType, FS_EmptySet

\* IsMarked entries have a key, so that they are some device's.
LEMMA MarkedHasKey ==
    ASSUME NEW ent, EntriesOK(ent)
    PROVE  \A e \in Entry : IsMarked(ent[e]) => ent[e].key # None /\ ent[e].key \in Key
BY DEF EntriesOK, EntryRec, FlagOK, IsMarked

\* A write of d that is not pending any more.
LEMMA UnmarkedCount ==
    ASSUME NEW ent, NEW new, EntriesOK(ent), NEW d \in Dev, NEW e, NEW b \in BOOLEAN,
           Unmarked(ent, new, d, e, b)
    PROVE  /\ \A x \in Dev \ {d} : Marks(x, new) = Marks(x, ent)
           /\ Cardinality(Marks(d, new)) = Cardinality(Marks(d, ent)) - (IF b THEN 0 ELSE 1)
           /\ Cardinality(ToWrite(new)) = Cardinality(ToWrite(ent)) - 1
           /\ Cardinality(Marks(d, ent)) \in Nat /\ Cardinality(ToWrite(ent)) \in Nat
           /\ e \in ToWrite(ent)
<1>1. /\ e \in Entry /\ ent[e].key # None /\ ent[e].key[1] = d
      /\ "WRITE" \in ent[e].flag /\ "WRITE" \notin new[e].flag
      /\ new[e].key = ent[e].key /\ ("WRITING" \in new[e].flag <=> b)
    BY DEF Unmarked, Of
<1>2. \A x \in Entry \ {e} : \A y \in Dev : x \in Marks(y, new) <=> x \in Marks(y, ent)
    BY MarkedHasKey DEF Unmarked, SameMark, Marks, Of, IsMarked
<1>3. \A x \in Entry \ {e} : x \in ToWrite(new) <=> x \in ToWrite(ent)
    BY DEF Unmarked, SameMark, ToWrite
<1>4. e \in Marks(d, ent) /\ (e \in Marks(d, new) <=> b)
    BY <1>1 DEF Marks, Of, IsMarked
<1>5. e \in ToWrite(ent) /\ e \notin ToWrite(new)
    BY <1>1 DEF ToWrite
<1>6. \A x \in Dev \ {d} : e \notin Marks(x, ent) /\ e \notin Marks(x, new)
    BY <1>1 DEF Marks, Of
<1>7. /\ \A x \in Dev : Marks(x, ent) \in SUBSET Entry /\ Marks(x, new) \in SUBSET Entry
      /\ ToWrite(ent) \in SUBSET Entry /\ ToWrite(new) \in SUBSET Entry
    BY DEF Marks, Of, ToWrite
<1>8. \A x \in Dev \ {d} : Marks(x, new) = Marks(x, ent)
  <2> SUFFICES ASSUME NEW x \in Dev \ {d}, NEW y \in Entry
               PROVE  y \in Marks(x, new) <=> y \in Marks(x, ent)
      BY <1>7
  <2> QED BY <1>2, <1>6
<1>9. /\ Cardinality(Marks(d, ent)) \in Nat
      /\ Cardinality(Marks(d, new)) = Cardinality(Marks(d, ent)) + (IF e \in Marks(d, new) THEN 1 ELSE 0)
                                      - (IF e \in Marks(d, ent) THEN 1 ELSE 0)
    BY <1>1, <1>2, <1>7, CckdAssumption, CountOne
<1>10. /\ Cardinality(ToWrite(ent)) \in Nat
       /\ Cardinality(ToWrite(new)) = Cardinality(ToWrite(ent)) + (IF e \in ToWrite(new) THEN 1 ELSE 0)
                                       - (IF e \in ToWrite(ent) THEN 1 ELSE 0)
    BY <1>1, <1>3, <1>7, CckdAssumption, CountOne
<1> QED BY <1>4, <1>5, <1>8, <1>9, <1>10

\* The entries of d to be written, of the cache ent, get a write pending.
Flushed(d, ent) ==
    [e \in Entry |-> IF e \in Dirty(d, ent) THEN [ent[e] EXCEPT !.flag = {"WRITE"}] ELSE ent[e]]

LEMMA FlushedFacts ==
    ASSUME NEW d \in Dev, NEW ent, EntriesOK(ent), NEW new, new = Flushed(d, ent)
    PROVE  /\ EntriesOK(new)
           /\ \A e \in Entry : /\ new[e].key = ent[e].key /\ new[e].image = ent[e].image
                               /\ new[e].flag = IF e \in Dirty(d, ent) THEN {"WRITE"} ELSE ent[e].flag
           /\ \A e \in Dirty(d, ent) : e \in Of(d, ent) /\ ent[e].flag = {"UPDATED"}
           /\ \A x \in Dev \ {d} : Marks(x, new) = Marks(x, ent)
           /\ Cardinality(Marks(d, new)) = Cardinality(Marks(d, ent)) + Cardinality(Dirty(d, ent))
           /\ Cardinality(ToWrite(new)) = Cardinality(ToWrite(ent)) + Cardinality(Dirty(d, ent))
           /\ Cardinality(Dirty(d, ent)) \in Nat
<1> DEFINE D == Dirty(d, ent)
<1>1. D \in SUBSET Entry /\ (\A e \in D : e \in Of(d, ent) /\ ent[e].flag = {"UPDATED"})
    BY DEF Dirty, Of
<1>2. \A e \in Entry : new[e] = IF e \in D THEN [ent[e] EXCEPT !.flag = {"WRITE"}] ELSE ent[e]
    BY DEF Flushed
<1>3. new = [e \in Entry |-> new[e]]
    BY DEF Flushed
<1> HIDE DEF D
<1>4. \A e \in Entry : /\ new[e] \in EntryRec
                       /\ new[e].key = ent[e].key /\ new[e].image = ent[e].image
                       /\ new[e].flag = IF e \in D THEN {"WRITE"} ELSE ent[e].flag
  <2> SUFFICES ASSUME NEW e \in Entry
               PROVE  /\ new[e] \in EntryRec
                      /\ new[e].key = ent[e].key /\ new[e].image = ent[e].image
                      /\ new[e].flag = IF e \in D THEN {"WRITE"} ELSE ent[e].flag
      OBVIOUS
  <2>1. ent[e] \in EntryRec
      BY DEF EntriesOK
  <2>2. PICK r : r = ent[e]
      OBVIOUS
  <2>3. [r EXCEPT !.flag = {"WRITE"}] \in EntryRec
      BY <2>1, <2>2, FlagFacts DEF EntryRec
  <2> QED BY <1>2, <2>1, <2>2, <2>3 DEF EntryRec
<1>5. EntriesOK(new)
  <2>1. \A e \in Entry : FlagOK(new[e])
      BY <1>1, <1>4 DEF EntriesOK, FlagOK, Of
  <2> QED BY <1>3, <1>4, <2>1 DEF EntriesOK
<1>6. \A x \in Dev : Marks(x, new) = IF x = d THEN Marks(d, ent) \cup D ELSE Marks(x, ent)
    BY <1>1, <1>4 DEF Marks, Of, IsMarked
<1>7. ToWrite(new) = ToWrite(ent) \cup D
    BY <1>1, <1>4 DEF ToWrite
<1>8. Marks(d, ent) \cap D = {} /\ ToWrite(ent) \cap D = {}
    BY <1>1 DEF Marks, ToWrite, IsMarked
<1>9. /\ IsFiniteSet(Marks(d, ent)) /\ IsFiniteSet(ToWrite(ent)) /\ IsFiniteSet(D)
      /\ Cardinality(Marks(d, ent)) \in Nat /\ Cardinality(ToWrite(ent)) \in Nat
      /\ Cardinality(D) \in Nat
  <2>1. Marks(d, ent) \in SUBSET Entry /\ ToWrite(ent) \in SUBSET Entry
      BY DEF Marks, Of, ToWrite
  <2> QED BY <1>1, <2>1, EntryCount
<1>10. /\ Cardinality(Marks(d, ent) \cup D) = Cardinality(Marks(d, ent)) + Cardinality(D)
       /\ Cardinality(ToWrite(ent) \cup D) = Cardinality(ToWrite(ent)) + Cardinality(D)
    BY <1>8, <1>9, CountDisjoint
<1> QED BY <1>1, <1>4, <1>5, <1>6, <1>7, <1>9, <1>10 DEF D

-----------------------------------------------------------------------------
(* Parts that a step leaves alone *)

Threads == (\A r \in Ra : RaOK(r)) /\ (\A d \in Dev : RasCounted(d))
Waiters == \A d \in Dev : WaitersCounted(d)

Inv ==
    /\ Types /\ EntriesOK(entry) /\ (\A d \in Dev : IoOK(d)) /\ Threads
    /\ WritersOK /\ Counted /\ WritesScheduled /\ Waiters

SameWriting(ent, new) == \A e \in Entry : "WRITING" \in new[e].flag <=> "WRITING" \in ent[e].flag

\* A program that has what it uses, and does not move, goes on to be right.
LEMMA UsesKept ==
    ASSUME Inv, NEW d \in Dev, KeptFor(d, entry, entry')
    PROVE  \A t, e : Uses(d, t, e) => /\ Uses(d, t, e)'
                                      /\ entry'[e].flag \cap IoBusy \subseteq entry[e].flag
<1> SUFFICES ASSUME NEW t, NEW e, Uses(d, t, e)
             PROVE  Uses(d, t, e)' /\ entry'[e].flag \cap IoBusy \subseteq entry[e].flag
    OBVIOUS
<1>1. e \in Entry /\ entry[e].key = <<d, t>> /\ "ACTIVE" \in entry[e].flag
    BY DEF Uses
<1>2. entry[e].key # None
    BY <1>1 DEF Inv, EntriesOK, FlagOK
<1>3. e \in Of(d, entry)
    BY <1>1, <1>2 DEF Of
<1> QED BY <1>1, <1>3 DEF KeptFor, Uses

CurrentOK(d) ==
    current[d] # NoCurrent => /\ Uses(d, current[d].trk, current[d].slot)
                              /\ entry[current[d].slot].flag \cap IoBusy = {}

LEMMA CurrentKept ==
    ASSUME Inv, NEW d \in Dev, KeptFor(d, entry, entry'), Running(d), current'[d] = current[d]
    PROVE  CurrentOK(d)'
<1>1. CurrentOK(d)
    BY DEF Inv, IoOK, CurrentOK
<1> QED BY <1>1, UsesKept DEF CurrentOK

LEMMA IoKept ==
    ASSUME Inv, NEW d \in Dev, KeptFor(d, entry, entry'), pc'[d] = pc[d], job'[d] = job[d],
           current'[d] = current[d], cckd'[d].ioactive = cckd[d].ioactive
    PROVE  IoOK(d)'
<1>1. IoOK(d)
    BY DEF Inv
<1>2. Running(d)' = Running(d)
    BY DEF Running
<1>3. Running(d) => CurrentOK(d)'
    BY CurrentKept
<1>4. pc[d] \in {"iowait", "ahead", "load"} => Uses(d, job[d].trk, job[d].slot)'
    BY <1>1, UsesKept DEF IoOK
<1>5. pc[d] \in {"ahead", "load"} => "WRITING" \notin entry'[job[d].slot].flag
  <2>1. SUFFICES ASSUME pc[d] \in {"ahead", "load"} PROVE "WRITING" \notin entry'[job[d].slot].flag
      OBVIOUS
  <2>2. /\ "WRITING" \notin entry[job[d].slot].flag
        /\ entry'[job[d].slot].flag \cap IoBusy \subseteq entry[job[d].slot].flag
      BY <1>1, <2>1, UsesKept DEF IoOK
  <2> QED BY <2>2 DEF IoBusy
<1> QED BY <1>1, <1>2, <1>3, <1>4, <1>5 DEF IoOK, CurrentOK

\* Readahead threads that only come into being have no job yet.
LEMMA ThreadsKept ==
    ASSUME Threads, \A d \in Dev : cckd'[d].ras = cckd[d].ras,
           \A r \in Ra : /\ job'[r] = job[r]
                         /\ pc'[r] = pc[r] \/ (pc[r] = "none" /\ pc'[r] = "ratop")
    PROVE  Threads'
<1>1. \A d \in Dev : Jobs(d)' = Jobs(d)
    BY DEF Jobs
<1>2. \A r \in Ra : RaOK(r)'
    BY DEF Threads, RaOK
<1> QED BY <1>1, <1>2 DEF Threads, RasCounted

LEMMA WritersKept ==
    ASSUME WritersOK, SameWriting(entry, entry'), EntriesOK(entry), Types, writer' = writer
    PROVE  WritersOK'
<1>1. \A w \in Writer : writer[w].slot # None => writer[w].slot \in Entry
    BY DEF Types, WriterTypes, WriterRec
<1> QED BY <1>1 DEF WritersOK, SameWriting

LEMMA ScheduledKept ==
    ASSUME WritesScheduled, UNCHANGED <<writer, wrcond>>,
           \A e \in Entry : "WRITE" \in entry'[e].flag => "WRITE" \in entry[e].flag
    PROVE  WritesScheduled'
BY DEF WritesScheduled

\* A step that does nothing to the writes.
Untouched ==
    /\ SameMarks(entry, entry') /\ (\A d \in Dev : cckd'[d].wrpending = cckd[d].wrpending)
    /\ UNCHANGED wrvars

\* A step in which a program of d takes a pending write back.
TakenBack(d) ==
    /\ \E e \in Entry : Unmarked(entry, entry', d, e, FALSE)
    /\ cckd'[d].wrpending = cckd[d].wrpending - 1
    /\ \A x \in Dev \ {d} : cckd'[x].wrpending = cckd[x].wrpending
    /\ UNCHANGED wrvars

WriteParts == WritersOK /\ Counted /\ WritesScheduled

LEMMA UntouchedStep == ASSUME Inv, Untouched PROVE WriteParts'
<1>1. /\ Types /\ EntriesOK(entry) /\ WritersOK /\ Counted /\ WritesScheduled
      /\ UNCHANGED <<writer, wrpending, wrcond>>
    BY DEF Inv, Untouched, wrvars
<1>2. ToWrite(entry') = ToWrite(entry) /\ \A d \in Dev : Marks(d, entry') = Marks(d, entry)
    BY <1>1, MarkedHasKey, SameMarksFacts DEF Untouched
<1>3. /\ SameWriting(entry, entry')
      /\ \A e \in Entry : "WRITE" \in entry'[e].flag => "WRITE" \in entry[e].flag
    BY DEF Untouched, SameMarks, SameMark, SameWriting
<1>4. Counted'
    BY <1>1, <1>2 DEF Counted, Untouched
<1> QED BY <1>1, <1>3, <1>4, WritersKept, ScheduledKept DEF WriteParts

LEMMA TakenBackStep == ASSUME Inv, NEW d \in Dev, TakenBack(d) PROVE WriteParts'
<1>1. /\ Types /\ EntriesOK(entry) /\ WritersOK /\ Counted /\ WritesScheduled
      /\ UNCHANGED <<writer, wrpending, wrcond>>
    BY DEF Inv, TakenBack, wrvars
<1>2. PICK e \in Entry : Unmarked(entry, entry', d, e, FALSE)
    BY DEF TakenBack
<1>3. /\ \A x \in Dev \ {d} : Marks(x, entry') = Marks(x, entry)
      /\ Cardinality(Marks(d, entry')) = Cardinality(Marks(d, entry)) - 1
      /\ Cardinality(ToWrite(entry')) = Cardinality(ToWrite(entry)) - 1
      /\ Cardinality(ToWrite(entry)) \in Nat
    BY <1>1, <1>2, UnmarkedCount
<1>4. Counted'
  <2>1. wrpending \in Int
      BY <1>1 DEF Types, WriterTypes
  <2> QED BY <1>1, <1>3, <2>1 DEF Counted, TakenBack
<1>5. "WRITING" \notin entry[e].flag /\ "WRITING" \notin entry'[e].flag
      /\ "WRITE" \notin entry'[e].flag
    BY <1>1, <1>2 DEF Unmarked, EntriesOK, FlagOK
<1>6. /\ SameWriting(entry, entry')
      /\ \A x \in Entry : "WRITE" \in entry'[x].flag => "WRITE" \in entry[x].flag
    BY <1>2, <1>5 DEF Unmarked, SameMark, SameWriting
<1> QED BY <1>1, <1>4, <1>6, WritersKept, ScheduledKept DEF WriteParts

\* A writer is woken or created, if there is one.
LEMMA ScheduleFacts ==
    ASSUME NEW n \in Nat, NEW ws \in [Writer -> WriterRec], wrcond \subseteq Waiting(ws),
           ScheduleWriter(n, ws)
    PROVE  /\ writer' \in [Writer -> WriterRec] /\ wrcond' \subseteq Waiting(writer')
           /\ \A w \in Writer : /\ writer'[w].slot = ws[w].slot
                                /\ writer'[w].at = "write" <=> ws[w].at = "write"
           /\ n > 0 => \E w \in Writer : writer'[w].at # "none" /\ w \notin wrcond'
<1>1. \A w \in Writer : ws[w] \in WriterRec
    OBVIOUS
<1>2. CASE n > 0 /\ Waiting(ws) # {}
  <2>1. writer' = ws /\ wrcond' \subseteq wrcond
      BY <1>2 DEF ScheduleWriter
  <2>2. PICK w \in Waiting(ws) : w \notin wrcond'
      BY <1>2 DEF ScheduleWriter
  <2>3. w \in Writer /\ ws[w].at = "wait"
      BY <2>2 DEF Waiting
  <2> QED BY <2>1, <2>2, <2>3
<1>3. CASE ~(n > 0 /\ Waiting(ws) # {}) /\ n > 0 /\ {w \in Writer : ws[w].at = "none"} # {}
  <2>1. wrcond' = wrcond
      BY <1>3 DEF ScheduleWriter
  <2>2. wrcond = {}
      BY <1>3
  <2>3. PICK v \in Writer : ws[v].at = "none" /\ writer' = [ws EXCEPT ![v].at = "new"]
      BY <1>3 DEF ScheduleWriter
  <2>4. [ws[v] EXCEPT !.at = "new"] \in WriterRec
      BY <1>1, <2>3 DEF WriterRec
  <2>5. /\ writer' \in [Writer -> WriterRec]
        /\ writer'[v].at = "new" /\ writer'[v].slot = ws[v].slot
        /\ \A w \in Writer \ {v} : writer'[w] = ws[w]
      BY <1>1, <2>3, <2>4 DEF WriterRec
  <2> QED BY <2>1, <2>2, <2>3, <2>5
<1>4. CASE ~(n > 0 /\ Waiting(ws) # {}) /\ ~(n > 0 /\ {w \in Writer : ws[w].at = "none"} # {})
  <2>1. writer' = ws /\ wrcond' = wrcond
      BY <1>4 DEF ScheduleWriter
  <2>2. n > 0 => \E w \in Writer : ws[w].at # "none" /\ w \notin wrcond
      BY <1>4, CckdAssumption
  <2> QED BY <2>1, <2>2
<1> QED BY <1>2, <1>3, <1>4

\* cckd_flush_cache, on a cache in which nothing was done to the writes.
LEMMA FlushStep ==
    ASSUME Inv, NEW d \in Dev, NEW ent, EntriesOK(ent), SameMarks(entry, ent), FlushCache(d, ent),
           cckd'[d].wrpending = Pending(d, ent),
           \A x \in Dev \ {d} : cckd'[x].wrpending = cckd[x].wrpending
    PROVE  /\ WriteParts' /\ WriterTypes' /\ EntriesOK(entry')
           /\ \A x \in Dev : KeptFor(x, ent, entry')
           /\ \A e \in Entry : /\ entry'[e].key = ent[e].key /\ entry'[e].image = ent[e].image
                               /\ entry'[e].flag = IF e \in Dirty(d, ent) THEN {"WRITE"}
                                                   ELSE ent[e].flag
           /\ \A e \in Dirty(d, ent) : e \in Of(d, ent) /\ ent[e].flag = {"UPDATED"}
<1>1. /\ Types /\ EntriesOK(entry) /\ WritersOK /\ Counted /\ WritesScheduled
    BY DEF Inv
<1>2. wrpending \in Nat /\ writer \in [Writer -> WriterRec] /\ wrcond \subseteq Waiting(writer)
      /\ MaxPending \in Nat
    BY <1>1, CckdAssumption DEF Types, WriterTypes, Waiting
<1>3. ToWrite(ent) = ToWrite(entry) /\ \A x \in Dev : Marks(x, ent) = Marks(x, entry)
    BY <1>1, MarkedHasKey, SameMarksFacts
<1>4. /\ EntriesOK(entry')
      /\ \A e \in Entry : /\ entry'[e].key = ent[e].key /\ entry'[e].image = ent[e].image
                          /\ entry'[e].flag = IF e \in Dirty(d, ent) THEN {"WRITE"}
                                              ELSE ent[e].flag
      /\ \A e \in Dirty(d, ent) : e \in Of(d, ent) /\ ent[e].flag = {"UPDATED"}
      /\ \A x \in Dev \ {d} : Marks(x, entry') = Marks(x, ent)
      /\ Cardinality(Marks(d, entry')) = Cardinality(Marks(d, ent)) + Cardinality(Dirty(d, ent))
      /\ Cardinality(ToWrite(entry')) = Cardinality(ToWrite(ent)) + Cardinality(Dirty(d, ent))
      /\ Cardinality(Dirty(d, ent)) \in Nat
  <2>1. entry' = Flushed(d, ent)
      BY DEF FlushCache, Flushed
  <2> QED BY <2>1, FlushedFacts
<1>5. /\ wrpending' = wrpending + Cardinality(Dirty(d, ent)) /\ wrpending' <= MaxPending
      /\ ScheduleWriter(wrpending', writer)
    BY DEF FlushCache
<1>6. wrpending' \in Nat
    BY <1>2, <1>4, <1>5
<1>7. /\ writer' \in [Writer -> WriterRec] /\ wrcond' \subseteq Waiting(writer')
      /\ \A w \in Writer : /\ writer'[w].slot = writer[w].slot
                           /\ writer'[w].at = "write" <=> writer[w].at = "write"
      /\ wrpending' > 0 => \E w \in Writer : writer'[w].at # "none" /\ w \notin wrcond'
    BY <1>2, <1>5, <1>6, ScheduleFacts
<1>8. WriterTypes'
    BY <1>2, <1>5, <1>6, <1>7 DEF WriterTypes, Waiting
<1>9. Counted'
  <2>1. Cardinality(ToWrite(entry)) \in Nat
      BY EntryCount DEF ToWrite
  <2>2. Cardinality(ToWrite(entry')) <= wrpending'
      BY <1>1, <1>2, <1>3, <1>4, <1>5, <2>1 DEF Counted
  <2>3. \A x \in Dev : cckd'[x].wrpending = Cardinality(Marks(x, entry'))
      BY <1>1, <1>3, <1>4 DEF Counted, Pending
  <2> QED BY <2>2, <2>3 DEF Counted
<1>10. WritersOK'
  <2>1. SameWriting(entry, entry')
      BY <1>4 DEF SameWriting, SameMarks, SameMark
  <2>2. \A w \in Writer : writer[w].slot # None => writer[w].slot \in Entry
      BY <1>2 DEF WriterRec
  <2> QED BY <1>1, <1>7, <2>1, <2>2 DEF WritersOK, SameWriting
<1>11. WritesScheduled'
  <2> SUFFICES ASSUME NEW e \in Entry, "WRITE" \in entry'[e].flag
               PROVE  wrpending' > 0
      BY <1>7 DEF WritesScheduled
  <2>1. e \in ToWrite(entry') /\ ToWrite(entry') \in SUBSET Entry
      BY DEF ToWrite
  <2>2. Cardinality(ToWrite(entry')) # 0 /\ Cardinality(ToWrite(entry')) \in Nat
      BY <2>1, EntryCount
  <2>3. Cardinality(ToWrite(entry')) <= wrpending'
      BY <1>9 DEF Counted
  <2> QED BY <1>6, <2>2, <2>3
<1>12. \A x \in Dev : KeptFor(x, ent, entry')
    BY <1>4 DEF KeptFor
<1> QED BY <1>4, <1>8, <1>9, <1>10, <1>11, <1>12 DEF WriteParts

-----------------------------------------------------------------------------
(* The writers *)

LEMMA KeptSame == \A ent : \A d \in Dev : KeptFor(d, ent, ent)
BY DEF KeptFor

LEMMA SignalFacts == ASSUME SignalCache PROVE cachecond' \subseteq cachecond
BY DEF SignalCache

\* What a step of cckd makes of a device's extension.
LEMMA ExtForm ==
    ASSUME NEW c \in [Dev -> ExtRec], NEW d \in Dev, NEW r \in ExtRec, NEW n, n = [c EXCEPT ![d] = r]
    PROVE  n \in [Dev -> ExtRec] /\ n[d] = r /\ \A x \in Dev \ {d} : n[x] = c[x]
OBVIOUS

LEMMA WriterBeginStep == ASSUME Inv, NEW w \in Writer, WriterBegin(w) PROVE Inv'
<1>1. /\ writer' = [writer EXCEPT ![w].at = "top"] /\ writer[w].at = "new"
      /\ UNCHANGED <<entry, file, cckd, current, iocond, cachecond, pc, job, raq, racond,
                     wrpending, wrcond, gcol, cmd, chain>>
    BY DEF WriterBegin, iovars, ravars
<1>2. /\ writer \in [Writer -> WriterRec] /\ wrcond \subseteq {v \in Writer : writer[v].at = "wait"}
      /\ wrpending \in 0..MaxPending
    BY DEF Inv, Types, WriterTypes
<1>3. /\ writer' \in [Writer -> WriterRec] /\ writer'[w].at = "top" /\ writer'[w].slot = writer[w].slot
      /\ \A v \in Writer \ {w} : writer'[v] = writer[v]
  <2>1. [writer[w] EXCEPT !.at = "top"] \in WriterRec
      BY <1>2 DEF WriterRec
  <2> QED BY <1>1, <1>2, <2>1 DEF WriterRec
<1>4. WriterTypes'
    BY <1>1, <1>2, <1>3 DEF WriterTypes
<1>5. WritersOK'
    BY <1>1, <1>3 DEF Inv, WritersOK
<1>6. WritesScheduled'
    BY <1>1, <1>3 DEF Inv, WritesScheduled
<1>7. (\A d \in Dev : IoOK(d))' /\ Threads' /\ Waiters' /\ Counted' /\ EntriesOK(entry')
  <2>1. Threads'
      BY <1>1, ThreadsKept DEF Inv
  <2>2. \A d \in Dev : IoOK(d)'
      BY <1>1, KeptSame, IoKept
  <2> QED BY <1>1, <2>1, <2>2 DEF Inv, Counted, Waiters, WaitersCounted
<1> QED BY <1>1, <1>4, <1>5, <1>6, <1>7 DEF Inv, Types, DiskTypes, ThreadTypes, QueueTypes, GcolTypes

LEMMA WriterNextStep == ASSUME Inv, NEW w \in Writer, WriterNext(w) PROVE Inv'
<1>1. /\ writer[w].at = "top" \/ (writer[w].at = "wait" /\ w \notin wrcond)
      /\ UNCHANGED <<file, cckd, current, iocond, cachecond, pc, job, raq, racond, gcol, cmd, chain>>
    BY DEF WriterNext, iovars, ravars
<1>2. /\ writer \in [Writer -> WriterRec] /\ wrcond \subseteq {v \in Writer : writer[v].at = "wait"}
      /\ wrpending \in Nat /\ wrpending <= MaxPending /\ MaxPending \in Nat
      /\ EntriesOK(entry) /\ WritersOK /\ Counted
    BY CckdAssumption DEF Inv, Types, WriterTypes
<1>3. writer[w].slot = None /\ \A v \in Writer : writer[v].slot # None => writer[v].slot \in Entry
    BY <1>1, <1>2 DEF WritersOK, WriterRec
<1>4. /\ (\A e \in Entry : entry'[e].key = entry[e].key /\ ("ACTIVE" \in entry[e].flag => entry'[e] = entry[e]))
      /\ EntriesOK(entry') /\ WriterTypes' /\ WritersOK' /\ Counted' /\ WritesScheduled'
  <2>1. CASE (writer[w].at = "top" /\ wrpending = 0) \/ ToWrite(entry) = {}
    <3>1. /\ wrpending' = 0 /\ writer' = [writer EXCEPT ![w].at = "wait"]
          /\ wrcond' = wrcond \cup {w} /\ entry' = entry
        BY <2>1 DEF WriterNext, ToWrite
    <3>2. /\ writer' \in [Writer -> WriterRec] /\ writer'[w].at = "wait" /\ writer'[w].slot = None
          /\ \A v \in Writer \ {w} : writer'[v] = writer[v]
      <4>1. [writer[w] EXCEPT !.at = "wait"] \in WriterRec
          BY <1>2 DEF WriterRec
      <4> QED BY <1>2, <1>3, <3>1, <4>1 DEF WriterRec
    <3>3. ToWrite(entry) = {}
      <4>1. ToWrite(entry) \in SUBSET Entry
          BY DEF ToWrite
      <4> QED BY <1>2, <2>1, <4>1, EntryCount DEF Counted
    <3>4. WriterTypes'
        BY <1>2, <3>1, <3>2 DEF WriterTypes
    <3>5. WritersOK'
        BY <1>1, <1>2, <1>3, <3>1, <3>2 DEF WritersOK
    <3>6. WritesScheduled'
        BY <3>1, <3>3 DEF WritesScheduled, ToWrite
    <3>7. Counted'
      <4>1. Cardinality(ToWrite(entry')) = 0
          BY <3>1, <3>3, FS_EmptySet
      <4> QED BY <1>1, <1>2, <3>1, <4>1 DEF Counted
    <3> QED BY <1>2, <3>1, <3>4, <3>5, <3>6, <3>7
  <2>2. CASE ~((writer[w].at = "top" /\ wrpending = 0) \/ ToWrite(entry) = {})
    <3> DEFINE S(e) == [writer EXCEPT ![w] = [at |-> "write", slot |-> e]]
    <3>1. PICK e \in Entry :
             /\ "WRITE" \in entry[e].flag
             /\ entry' = [entry EXCEPT ![e].flag = (entry[e].flag \ {"WRITE"}) \cup {"WRITING"}]
             /\ wrpending' = wrpending - 1
             /\ ScheduleWriter(wrpending', S(e))
        BY <2>2 DEF WriterNext, ToWrite
    <3> DEFINE ws == S(e)
    <3>2. entry[e].flag = {"WRITE"} /\ entry[e].key \in Key /\ entry \in [Entry -> EntryRec]
        BY <1>2, <3>1, MarkedHasKey DEF EntriesOK, FlagOK, IsMarked
    <3>3. Flagged(entry, entry', e, {"WRITING"})
      <4>1. entry' = WithFlag(entry, e, {"WRITING"})
          BY <3>1, <3>2 DEF WithFlag
      <4>2. Flagged(entry, WithFlag(entry, e, {"WRITING"}), e, {"WRITING"})
          BY <3>2, FlagFacts, FlagForm
      <4> QED BY <4>1, <4>2
    <3>4. EntriesOK(entry')
        BY <1>2, <3>2, <3>3, KeyFacts DEF Flagged, EntriesOK, FlagOK
    <3>5. PICK d \in Dev : entry[e].key[1] = d
        BY <3>2, KeyFacts
    <3> HIDE DEF ws, S
    <3>5a. PICK b \in BOOLEAN : b = TRUE
        OBVIOUS
    <3>6. d \in Dev /\ Unmarked(entry, entry', d, e, b)
        BY <3>1, <3>2, <3>3, <3>5, <3>5a, KeyFacts DEF Flagged, Unmarked, Of, SameMark
    <3>7. /\ \A x \in Dev \ {d} : Marks(x, entry') = Marks(x, entry)
          /\ Cardinality(Marks(d, entry')) = Cardinality(Marks(d, entry))
          /\ Cardinality(ToWrite(entry')) = Cardinality(ToWrite(entry)) - 1
          /\ Cardinality(Marks(d, entry)) \in Nat /\ Cardinality(ToWrite(entry)) \in Nat
          /\ e \in ToWrite(entry)
      <4>1. /\ \A x \in Dev \ {d} : Marks(x, entry') = Marks(x, entry)
            /\ Cardinality(Marks(d, entry')) = Cardinality(Marks(d, entry)) - (IF b THEN 0 ELSE 1)
            /\ Cardinality(ToWrite(entry')) = Cardinality(ToWrite(entry)) - 1
            /\ Cardinality(Marks(d, entry)) \in Nat /\ Cardinality(ToWrite(entry)) \in Nat
            /\ e \in ToWrite(entry)
          BY <1>2, <3>5, <3>5a, <3>6, UnmarkedCount
      <4> QED BY <3>5a, <4>1
    <3>8. wrpending' \in Nat
      <4>1. ToWrite(entry) \in SUBSET Entry
          BY DEF ToWrite
      <4>2. Cardinality(ToWrite(entry)) >= 1
          BY <3>7, <4>1, EntryCount
      <4> QED BY <1>2, <3>1, <3>7, <4>2 DEF Counted
    <3>9. ws \in [Writer -> WriterRec] /\ wrcond \subseteq Waiting(ws)
          /\ ws[w].at = "write" /\ ws[w].slot = e /\ \A v \in Writer \ {w} : ws[v] = writer[v]
      <4>1. [at |-> "write", slot |-> e] \in WriterRec
          BY <3>1 DEF WriterRec
      <4> QED BY <1>1, <1>2, <4>1 DEF Waiting, ws, S
    <3>10. ScheduleWriter(wrpending', ws)
        BY <3>1 DEF ws
    <3>11. /\ writer' \in [Writer -> WriterRec] /\ wrcond' \subseteq Waiting(writer')
           /\ \A v \in Writer : /\ writer'[v].slot = ws[v].slot
                                /\ writer'[v].at = "write" <=> ws[v].at = "write"
        BY <3>8, <3>9, <3>10, ScheduleFacts
    <3>12. WriterTypes'
        BY <1>2, <3>1, <3>8, <3>11 DEF WriterTypes, Waiting
    <3>13. WritersOK'
      <4>1. \A x \in Entry : "WRITING" \in entry'[x].flag <=> x = e \/ "WRITING" \in entry[x].flag
          BY <3>3 DEF Flagged
      <4>2. "WRITING" \notin entry[e].flag /\ e # None
          BY <3>1, <3>2, KeyFacts
      <4>3. \A v \in Writer : writer'[v].slot = IF v = w THEN e ELSE writer[v].slot
          BY <3>9, <3>11
      <4>4. \A v \in Writer : writer'[v].at = "write" <=> v = w \/ writer[v].at = "write"
          BY <3>9, <3>11
      <4>5. \A v \in Writer : writer[v].slot # e
          BY <1>2, <4>2 DEF WritersOK
      <4>6. /\ (\A v \in Writer : writer[v].at = "write" <=> writer[v].slot # None)
            /\ (\A v \in Writer : writer[v].slot # None => "WRITING" \in entry[writer[v].slot].flag)
            /\ (\A u, v \in Writer : writer[u].slot = writer[v].slot /\ writer[u].slot # None => u = v)
            /\ (\A x \in Entry : "WRITING" \in entry[x].flag => \E v \in Writer : writer[v].slot = x)
          BY <1>2 DEF WritersOK
      <4>7. \A v \in Writer : writer'[v].at = "write" <=> writer'[v].slot # None
          BY <4>2, <4>3, <4>4, <4>6
      <4>8. \A v \in Writer : writer'[v].slot # None => "WRITING" \in entry'[writer'[v].slot].flag
          BY <1>3, <3>1, <4>1, <4>3, <4>6
      <4>9. \A u, v \in Writer : writer'[u].slot = writer'[v].slot /\ writer'[u].slot # None => u = v
          BY <4>3, <4>5, <4>6
      <4>10. \A x \in Entry : "WRITING" \in entry'[x].flag => \E v \in Writer : writer'[v].slot = x
        <5> SUFFICES ASSUME NEW x \in Entry, "WRITING" \in entry'[x].flag
                     PROVE  \E v \in Writer : writer'[v].slot = x
            OBVIOUS
        <5>1. CASE x = e
            BY <4>3, <5>1
        <5>2. CASE x # e
          <6>1. PICK v \in Writer : writer[v].slot = x
              BY <4>1, <4>6, <5>2
          <6>2. v # w
              BY <1>3, <6>1, KeyFacts
          <6> QED BY <4>3, <6>1, <6>2
        <5> QED BY <5>1, <5>2
      <4> QED BY <4>7, <4>8, <4>9, <4>10 DEF WritersOK
    <3>14. WritesScheduled'
      <4>1. w \notin wrcond' /\ writer'[w].at # "none"
          BY <3>9, <3>11 DEF Waiting
      <4> QED BY <4>1 DEF WritesScheduled
    <3>15. Counted'
      <4>1. \A x \in Dev : cckd'[x].wrpending = Cardinality(Marks(x, entry'))
        <5>1. \A x \in Dev : cckd[x].wrpending = Cardinality(Marks(x, entry))
            BY <1>2 DEF Counted
        <5>2. \A x \in Dev : Cardinality(Marks(x, entry')) = Cardinality(Marks(x, entry))
            BY <3>7
        <5> QED BY <1>1, <5>1, <5>2
      <4>2. Cardinality(ToWrite(entry)) <= wrpending
          BY <1>2 DEF Counted
      <4>3. Cardinality(ToWrite(entry')) <= wrpending'
          BY <1>2, <3>1, <3>7, <4>2
      <4> QED BY <4>1, <4>3 DEF Counted
    <3> QED BY <3>2, <3>3, <3>4, <3>12, <3>13, <3>14, <3>15 DEF Flagged
  <2> QED BY <2>1, <2>2
<1>5. \A d \in Dev : IoOK(d)'
  <2>1. \A d \in Dev : KeptFor(d, entry, entry')
      BY <1>4 DEF KeptFor, Of
  <2> QED BY <1>1, <2>1, IoKept
<1>6. Threads'
    BY <1>1, ThreadsKept DEF Inv
<1> QED BY <1>1, <1>4, <1>5, <1>6 DEF Inv, Types, DiskTypes, ThreadTypes, QueueTypes, GcolTypes,
            Waiters, WaitersCounted


LEMMA WriterEndStep == ASSUME Inv, NEW w \in Writer, WriterEnd(w) PROVE Inv'
<1>1. /\ writer \in [Writer -> WriterRec] /\ wrcond \subseteq {v \in Writer : writer[v].at = "wait"}
      /\ EntriesOK(entry) /\ entry \in [Entry -> EntryRec] /\ WritersOK /\ Counted
      /\ file \in [Key -> Image] /\ cckd \in [Dev -> ExtRec]
      /\ iocond \in [Dev -> SUBSET {"io", "cmd", "gcol"}] /\ gcol \in GcolRec
    BY DEF Inv, Types, WriterTypes, DiskTypes, GcolTypes, EntriesOK
<1>2. PICK e \in Entry : writer[w].slot = e /\ "WRITING" \in entry[e].flag
    BY <1>1 DEF WriterEnd, WritersOK, WriterRec
<1>3. /\ entry[e].key \in Key /\ entry[e].key # None /\ entry[e].image \in Image
      /\ entry[e].flag \in SUBSET Flags /\ FlagOK(entry[e])
    BY <1>1, <1>2, MarkedHasKey DEF IsMarked, EntryRec, EntriesOK
<1>4. PICK d \in Dev : entry[e].key[1] = d
    BY <1>3, KeyFacts
<1>5. /\ writer[w].at = "write"
      /\ file' \in {file, [file EXCEPT ![entry[e].key] = entry[e].image]}
      /\ entry' = [entry EXCEPT ![e].flag = entry[e].flag \ {"WRITING"}]
      /\ cckd' = [cckd EXCEPT ![d].opened = TRUE, ![d].wrpending = @ - 1]
      /\ iocond' = iocond \/ iocond' = [iocond EXCEPT ![d] = {}]
      /\ SignalCache
      /\ writer' = [writer EXCEPT ![w] = [at |-> "top", slot |-> None]]
      /\ gcol' = gcol \/ (gcol' = [gcol EXCEPT !.at = "top"] /\ gcol.at = "none")
      /\ UNCHANGED <<current, pc, job, raq, racond, wrpending, wrcond, cmd, chain>>
    BY <1>2, <1>4 DEF WriterEnd, iovars, ravars
<1>6. Flagged(entry, entry', e, entry[e].flag \ {"WRITING"})
  <2> DEFINE g == entry[e].flag \ {"WRITING"}
  <2>1. g \in SUBSET Flags /\ entry' = WithFlag(entry, e, g)
      BY <1>3, <1>5 DEF WithFlag
  <2> HIDE DEF g
  <2>2. Flagged(entry, WithFlag(entry, e, g), e, g)
      BY <1>1, <2>1, FlagForm
  <2> QED BY <2>1, <2>2 DEF g
<1>7. EntriesOK(entry')
  <2>1. FlagOK(entry'[e])
      BY <1>3, <1>6 DEF FlagOK, Flagged
  <2> QED BY <1>1, <1>6, <2>1 DEF EntriesOK, Flagged
<1>8. /\ cckd' \in [Dev -> ExtRec]
      /\ cckd'[d].wrpending = cckd[d].wrpending - 1 /\ cckd'[d].ioactive = cckd[d].ioactive
      /\ cckd'[d].ras = cckd[d].ras /\ cckd'[d].iowaiters = cckd[d].iowaiters
      /\ \A x \in Dev \ {d} : cckd'[x] = cckd[x]
  <2>1. PICK c : c = cckd[d]
      OBVIOUS
  <2>2. c \in ExtRec
      BY <1>1, <2>1
  <2>3a. PICK m \in Int : m = c.wrpending - 1
      BY <2>2 DEF ExtRec
  <2>3. PICK n : n = [c EXCEPT !.opened = TRUE, !.wrpending = m]
      OBVIOUS
  <2>4. n \in ExtRec /\ n.wrpending = m /\ n.ioactive = c.ioactive
        /\ n.ras = c.ras /\ n.iowaiters = c.iowaiters
      BY <2>2, <2>3 DEF ExtRec
  <2>5. cckd' = [cckd EXCEPT ![d] = n]
      BY <1>1, <1>5, <2>1, <2>3, <2>3a
  <2> QED BY <1>1, <2>1, <2>3a, <2>4, <2>5, ExtForm
<1>9. DiskTypes'
  <2>1. file' \in [Key -> Image] /\ iocond' \in [Dev -> SUBSET {"io", "cmd", "gcol"}]
      BY <1>1, <1>3, <1>5
  <2> QED BY <1>5, <1>8, <2>1 DEF Inv, Types, DiskTypes
<1>10. /\ writer' \in [Writer -> WriterRec] /\ writer'[w].at = "top" /\ writer'[w].slot = None
       /\ \A v \in Writer \ {w} : writer'[v] = writer[v]
    BY <1>1, <1>5 DEF WriterRec
<1>11. WriterTypes'
    BY <1>1, <1>5, <1>10 DEF Inv, Types, WriterTypes
<1>12. GcolTypes'
    BY <1>1, <1>5 DEF Inv, Types, GcolTypes, GcolRec
<1>13. ThreadTypes'
    BY <1>5, SignalFacts DEF Inv, Types, ThreadTypes
<1>14. WritersOK'
  <2>1. \A x \in Entry : "WRITING" \in entry'[x].flag <=> x # e /\ "WRITING" \in entry[x].flag
      BY <1>6 DEF Flagged
  <2>2. \A v \in Writer : v # w => writer[v].slot # e
      BY <1>1, <1>2, <1>3, KeyFacts DEF WritersOK
  <2>3. \A v \in Writer : writer[v].slot # None => writer[v].slot \in Entry
      BY <1>1 DEF WriterRec
  <2>4. \A x \in Entry : "WRITING" \in entry'[x].flag => \E v \in Writer : writer'[v].slot = x
    <3> SUFFICES ASSUME NEW x \in Entry, "WRITING" \in entry'[x].flag
                 PROVE  \E v \in Writer : writer'[v].slot = x
        OBVIOUS
    <3>1. PICK v \in Writer : writer[v].slot = x
        BY <1>1, <2>1 DEF WritersOK
    <3>2. v # w
        BY <1>2, <2>1, <3>1
    <3> QED BY <1>10, <3>1, <3>2
  <2>5. \A v \in Writer : writer'[v].slot # None => "WRITING" \in entry'[writer'[v].slot].flag
      BY <1>1, <1>10, <2>1, <2>2, <2>3 DEF WritersOK
  <2>6. \A v \in Writer : writer'[v].at = "write" <=> writer'[v].slot # None
      BY <1>1, <1>10 DEF WritersOK
  <2>7. \A u, v \in Writer : writer'[u].slot = writer'[v].slot /\ writer'[u].slot # None => u = v
      BY <1>1, <1>10 DEF WritersOK
  <2> QED BY <2>4, <2>5, <2>6, <2>7 DEF WritersOK
<1>15. Counted'
  <2>1. ToWrite(entry') = ToWrite(entry)
      BY <1>6 DEF Flagged, ToWrite
  <2>2. \A x \in Dev \ {d} : Marks(x, entry') = Marks(x, entry)
    <3> SUFFICES ASSUME NEW x \in Dev \ {d}, NEW y \in Entry
                 PROVE  y \in Marks(x, entry') <=> y \in Marks(x, entry)
        BY DEF Marks, Of
    <3>1. CASE y = e
        BY <1>4, <1>6, <3>1 DEF Marks, Of, Flagged
    <3>2. CASE y # e
        BY <1>6, <3>2 DEF Marks, Of, Flagged
    <3> QED BY <3>1, <3>2
  <2>3. /\ e \in Marks(d, entry) /\ e \notin Marks(d, entry')
        /\ \A x \in Entry \ {e} : x \in Marks(d, entry') <=> x \in Marks(d, entry)
        /\ Marks(d, entry) \in SUBSET Entry /\ Marks(d, entry') \in SUBSET Entry
    <3>1. e \in Of(d, entry)
        BY <1>3, <1>4 DEF Of
    <3>2. "WRITE" \notin entry[e].flag
        BY <1>2, <1>3 DEF FlagOK
    <3> QED BY <1>2, <1>6, <3>1, <3>2 DEF Marks, Of, Flagged, IsMarked
  <2>4. /\ Cardinality(Marks(d, entry)) \in Nat
        /\ Cardinality(Marks(d, entry')) = Cardinality(Marks(d, entry))
              + (IF e \in Marks(d, entry') THEN 1 ELSE 0) - (IF e \in Marks(d, entry) THEN 1 ELSE 0)
      BY <2>3, CckdAssumption, CountOne
  <2>5. Cardinality(Marks(d, entry')) = cckd'[d].wrpending
      BY <1>1, <1>8, <2>3, <2>4 DEF Counted
  <2>6. \A x \in Dev \ {d} : cckd'[x].wrpending = Cardinality(Marks(x, entry'))
      BY <1>1, <1>8, <2>2 DEF Counted
  <2>7. Cardinality(ToWrite(entry')) <= wrpending'
      BY <1>1, <1>5, <2>1 DEF Counted
  <2> QED BY <2>5, <2>6, <2>7 DEF Counted
<1>16. WritesScheduled'
  <2>1. w \notin wrcond' /\ writer'[w].at # "none"
      BY <1>1, <1>5, <1>10
  <2> QED BY <2>1 DEF WritesScheduled
<1>17. \A x \in Dev : IoOK(x)'
  <2>1. \A x \in Dev : KeptFor(x, entry, entry')
      BY <1>6 DEF KeptFor, Flagged, Of
  <2>2. \A x \in Dev : cckd'[x].ioactive = cckd[x].ioactive
      BY <1>8
  <2> QED BY <1>5, <2>1, <2>2, IoKept
<1>18. Threads' /\ Waiters'
  <2>1. \A x \in Dev : cckd'[x].ras = cckd[x].ras /\ cckd'[x].iowaiters = cckd[x].iowaiters
      BY <1>8
  <2>2. Threads'
      BY <1>5, <2>1, ThreadsKept DEF Inv
  <2> QED BY <1>5, <2>1, <2>2 DEF Inv, Waiters, WaitersCounted
<1>19. QueueTypes'
    BY <1>5 DEF Inv, Types, QueueTypes
<1> QED BY <1>7, <1>9, <1>11, <1>12, <1>13, <1>14, <1>15, <1>16, <1>17, <1>18, <1>19 DEF Inv, Types

-----------------------------------------------------------------------------
(* Flushes: the garbage collector, and the reads that find no room *)

SameExt(c, n) ==
    /\ n.ioactive = c.ioactive /\ n.merging = c.merging /\ n.stopping = c.stopping
    /\ n.iowaiters = c.iowaiters /\ n.ras = c.ras

\* A step that flushes, at most.
FlushesOnly ==
    /\ WriteParts' /\ WriterTypes' /\ EntriesOK(entry') /\ cckd' \in [Dev -> ExtRec]
    /\ \A x \in Dev : KeptFor(x, entry, entry') /\ SameExt(cckd[x], cckd'[x])

LEMMA ExtFields ==
    ASSUME NEW c \in ExtRec
    PROVE  /\ c.wrpending \in Int /\ c.iowaiters \in Int /\ c.ras \in Int
           /\ \A i \in Int : LET n == [c EXCEPT !.wrpending = i]
                             IN  n \in ExtRec /\ SameExt(c, n) /\ n.wrpending = i
BY DEF ExtRec, SameExt

LEMMA FlushOne ==
    ASSUME Inv, NEW d \in Dev, FlushCache(d, entry), cckd' = [cckd EXCEPT ![d].wrpending = Pending(d, entry)]
    PROVE  FlushesOnly
<1>1. cckd \in [Dev -> ExtRec] /\ EntriesOK(entry) /\ SameMarks(entry, entry)
    BY DEF Inv, Types, DiskTypes, SameMarks, SameMark
<1>2. Pending(d, entry) \in Int
  <2>1. Dirty(d, entry) \in SUBSET Entry
      BY DEF Dirty, Of
  <2> QED BY <1>1, <2>1, EntryCount, ExtFields DEF Pending
<1>3. PICK n : n = [cckd[d] EXCEPT !.wrpending = Pending(d, entry)]
    OBVIOUS
<1>4. n \in ExtRec /\ SameExt(cckd[d], n) /\ n.wrpending = Pending(d, entry)
    BY <1>1, <1>2, <1>3, ExtFields
<1>5. cckd' = [cckd EXCEPT ![d] = n]
    BY <1>1, <1>3
<1>6. cckd' \in [Dev -> ExtRec] /\ cckd'[d] = n /\ \A x \in Dev \ {d} : cckd'[x] = cckd[x]
    BY <1>1, <1>4, <1>5, ExtForm
<1>7. \A x \in Dev : SameExt(cckd[x], cckd'[x])
    BY <1>4, <1>6 DEF SameExt
<1>8. WriteParts' /\ WriterTypes' /\ EntriesOK(entry') /\ \A x \in Dev : KeptFor(x, entry, entry')
  <2>1. cckd'[d].wrpending = Pending(d, entry) /\ \A x \in Dev \ {d} : cckd'[x].wrpending = cckd[x].wrpending
      BY <1>4, <1>6
  <2> QED BY <1>1, <2>1, FlushStep
<1> QED BY <1>6, <1>7, <1>8 DEF FlushesOnly

LEMMA NoFlush == ASSUME Inv, UNCHANGED <<entry, cckd, wrvars>> PROVE FlushesOnly
<1>1. /\ UNCHANGED <<entry, cckd, writer, wrpending, wrcond>>
    BY DEF wrvars
<1>2. WriteParts' /\ WriterTypes' /\ EntriesOK(entry') /\ cckd' \in [Dev -> ExtRec]
    BY <1>1 DEF Inv, Types, DiskTypes, WriteParts, WriterTypes, WritersOK, Counted, WritesScheduled
<1>3. \A x \in Dev : KeptFor(x, entry, entry') /\ SameExt(cckd[x], cckd'[x])
    BY <1>1, KeptSame DEF SameExt
<1> QED BY <1>2, <1>3 DEF FlushesOnly

\* What is left to show when no thread moves.
LEMMA StillStep ==
    ASSUME Inv, FlushesOnly, UNCHANGED <<pc, job, current, cachecond, raq, racond, cmd>>
    PROVE  /\ EntriesOK(entry') /\ (\A d \in Dev : IoOK(d)') /\ Threads' /\ WriteParts' /\ Waiters'
           /\ ThreadTypes' /\ QueueTypes' /\ WriterTypes'
<1>1. \A x \in Dev : SameExt(cckd[x], cckd'[x]) /\ KeptFor(x, entry, entry')
    BY DEF FlushesOnly
<1>2. \A x \in Dev : IoOK(x)'
    BY <1>1, IoKept DEF SameExt
<1>3. Threads' /\ Waiters'
    BY <1>1, ThreadsKept DEF Inv, SameExt, Waiters, WaitersCounted
<1> QED BY <1>2, <1>3 DEF FlushesOnly, Inv, Types, ThreadTypes, QueueTypes

LEMMA GcPassedType == ASSUME NEW d \in Dev, gcol \in GcolRec, GcPassed(d) PROVE GcolTypes'
BY DEF GcPassed, GcolTypes, GcolRec

LEMMA GcolStep == ASSUME Inv, Gcol PROVE Inv'
<1>1. /\ FlushesOnly /\ GcolTypes' /\ DiskTypes'
      /\ UNCHANGED <<pc, job, current, cachecond, raq, racond, cmd>>
  <2>1. gcol \in GcolRec /\ (gcol.at \in {"collect", "wait"} => gcol.dev \in Dev) /\ DiskTypes
      BY DEF Inv, Types, GcolTypes
  <2>2. CASE GcBegin
    <3>1. UNCHANGED <<entry, file, cckd, current, iocond, cachecond, pc, job, raq, racond, wrvars, cmd, chain>>
        BY <2>2 DEF GcBegin, iovars, ravars
    <3>2. GcolTypes'
        BY <2>1, <2>2 DEF GcBegin, GcolTypes, GcolRec, DiskTypes
    <3> QED BY <2>1, <3>1, <3>2, NoFlush DEF DiskTypes
  <2>3. ASSUME NEW d \in Dev, GcDevice(d)
        PROVE  /\ FlushesOnly /\ GcolTypes' /\ DiskTypes'
               /\ UNCHANGED <<pc, job, current, cachecond, raq, racond, cmd>>
    <3>1. UNCHANGED <<file, current, iocond, cachecond, pc, job, raq, racond, cmd, chain>>
        BY <2>3 DEF GcDevice, iovars, ravars
    <3>2. FlushesOnly
      <4>1. \/ UNCHANGED <<entry, cckd, wrvars>>
            \/ FlushCache(d, entry) /\ cckd' = [cckd EXCEPT ![d].wrpending = Pending(d, entry)]
          BY <2>3 DEF GcDevice
      <4> QED BY <4>1, NoFlush, FlushOne
    <3>3. GcolTypes'
      <4>1. GcPassed(d) \/ gcol' = [gcol EXCEPT !.at = "collect", !.dev = d]
          BY <2>3 DEF GcDevice
      <4> QED BY <2>1, <4>1, GcPassedType DEF GcolTypes, GcolRec
    <3> QED BY <2>1, <3>1, <3>2, <3>3 DEF DiskTypes, FlushesOnly
  <2>4. CASE GcFlush
    <3>1. UNCHANGED <<file, current, cachecond, pc, job, raq, racond, cmd, chain>>
        BY <2>4 DEF GcFlush, iovars, ravars
    <3>2. gcol.dev \in Dev /\ gcol.at = "collect"
        BY <2>1, <2>4 DEF GcFlush
    <3>3. FlushesOnly
        BY <2>4, <3>2, FlushOne DEF GcFlush
    <3>4. \/ gcol' = [gcol EXCEPT !.at = "wait"] /\ iocond' = [iocond EXCEPT ![gcol.dev] = @ \cup {"gcol"}]
          \/ GcPassed(gcol.dev) /\ UNCHANGED iocond
        BY <2>4 DEF GcFlush
    <3>5. GcolTypes'
        BY <2>1, <3>2, <3>4, GcPassedType DEF GcolTypes, GcolRec
    <3>6. iocond' \in [Dev -> SUBSET {"io", "cmd", "gcol"}]
        BY <2>1, <3>2, <3>4 DEF DiskTypes
    <3> QED BY <2>1, <3>1, <3>3, <3>5, <3>6 DEF DiskTypes, FlushesOnly
  <2>5. CASE GcWoken
    <3>1. UNCHANGED <<entry, file, cckd, current, cachecond, pc, job, raq, racond, wrvars, cmd, chain>>
        BY <2>5 DEF GcWoken, iovars, ravars
    <3>2. gcol.dev \in Dev /\ gcol.at = "wait"
        BY <2>1, <2>5 DEF GcWoken
    <3>3. \/ UNCHANGED gcol /\ iocond' = [iocond EXCEPT ![gcol.dev] = @ \cup {"gcol"}]
          \/ GcPassed(gcol.dev) /\ UNCHANGED iocond
        BY <2>5 DEF GcWoken
    <3>4. GcolTypes'
        BY <2>1, <3>2, <3>3, GcPassedType DEF GcolTypes, GcolRec
    <3>5. iocond' \in [Dev -> SUBSET {"io", "cmd", "gcol"}]
        BY <2>1, <3>2, <3>3 DEF DiskTypes
    <3> QED BY <2>1, <3>1, <3>4, <3>5, NoFlush DEF DiskTypes, FlushesOnly
  <2> QED BY <2>2, <2>3, <2>4, <2>5 DEF Gcol
<1> QED BY <1>1, StillStep DEF Inv, Types, WriteParts

-----------------------------------------------------------------------------
(* The operator's commands *)

\* What a command's step leaves alone.
CommandOnly(d) ==
    /\ UNCHANGED <<file, pc, job, raq, racond, gcol>>
    /\ WriteParts' /\ WriterTypes' /\ EntriesOK(entry')
    /\ cckd' \in [Dev -> ExtRec] /\ cmd' \in [Dev -> Cmd] /\ current' \in [Dev -> CurRec]
    /\ iocond' \in [Dev -> SUBSET {"io", "cmd", "gcol"}] /\ chain' \subseteq chain
    /\ \A x \in Dev \ {d} : /\ KeptFor(x, entry, entry') /\ current'[x] = current[x]
                            /\ cckd'[x] = cckd[x] /\ cmd'[x] = cmd[x]
    /\ cckd'[d].ioactive = cckd[d].ioactive /\ cckd'[d].ras = cckd[d].ras
    /\ \/ KeptFor(d, entry, entry') /\ current'[d] = current[d]
       \/ ~cckd[d].ioactive /\ current'[d] = NoCurrent
    /\ cachecond' \subseteq cachecond

LEMMA CommandStep == ASSUME Inv, NEW d \in Dev, CommandOnly(d), WaitersCounted(d)' PROVE Inv'
<1>1. UNCHANGED <<file, pc, job, raq, racond, gcol>>
    BY DEF CommandOnly
<1>2. Threads'
  <2>1. \A x \in Dev : cckd'[x].ras = cckd[x].ras
      BY DEF CommandOnly
  <2> QED BY <1>1, <2>1, ThreadsKept DEF Inv
<1>3. \A x \in Dev : IoOK(x)'
  <2>1. \A x \in Dev \ {d} : IoOK(x)'
      BY <1>1, IoKept DEF CommandOnly
  <2>2. CASE KeptFor(d, entry, entry') /\ current'[d] = current[d]
      BY <1>1, <2>1, <2>2, IoKept DEF CommandOnly
  <2>3. CASE ~cckd[d].ioactive
    <3>1. ~Running(d) /\ pc[d] \in IoPc
        BY <2>3 DEF Inv, IoOK, Types, ThreadTypes
    <3>2. IoOK(d)'
        BY <1>1, <2>3, <3>1 DEF CommandOnly, IoOK, Running, IoPc
    <3> QED BY <2>1, <3>2
  <2> QED BY <2>2, <2>3 DEF CommandOnly
<1>4. Waiters'
    BY <1>1 DEF CommandOnly, Inv, Waiters, WaitersCounted
<1>5. DiskTypes'
    BY <1>1 DEF CommandOnly, Inv, Types, DiskTypes
<1>6. ThreadTypes'
  <2>1. \A x \in Dev : CurOK(current'[x], x)
      BY DEF CommandOnly, Inv, Types, ThreadTypes, CurOK
  <2> QED BY <1>1, <2>1 DEF CommandOnly, Inv, Types, ThreadTypes
<1>7. QueueTypes' /\ GcolTypes'
    BY <1>1 DEF Inv, Types, QueueTypes, GcolTypes
<1> QED BY <1>2, <1>3, <1>4, <1>5, <1>6, <1>7 DEF CommandOnly, Inv, Types, WriteParts

LEMMA PurgedFacts ==
    ASSUME Inv, NEW d \in Dev, Marks(d, entry) = {}, NEW new, new = Purged(d)
    PROVE  /\ EntriesOK(new) /\ SameMarks(entry, new)
           /\ \A x \in Dev \ {d} : KeptFor(x, entry, new)
           /\ \A e \in Entry : new[e] = IF e \in Of(d, entry) THEN Empty ELSE entry[e]
<1>1. \A e \in Entry : new[e] = IF e \in Of(d, entry) THEN Empty ELSE entry[e]
    BY DEF Purged
<1>2. new = [e \in Entry |-> new[e]]
    BY DEF Purged
<1>3. Empty \in EntryRec /\ FlagOK(Empty) /\ Empty.flag = {}
    BY ImageFacts DEF Empty, EntryRec, FlagOK
<1>4. EntriesOK(entry)
    BY DEF Inv
<1>5. EntriesOK(new)
    BY <1>1, <1>2, <1>3, <1>4 DEF EntriesOK
<1>6. SameMarks(entry, new)
    BY <1>1, <1>3 DEF SameMarks, SameMark, Marks, IsMarked
<1>7. \A x \in Dev \ {d} : \A e \in Of(x, entry) : new[e] = entry[e]
    BY <1>1 DEF Of
<1>8. \A x \in Dev \ {d} : KeptFor(x, entry, new)
    BY <1>7 DEF KeptFor
<1> QED BY <1>1, <1>5, <1>6, <1>8

\* Nothing pending: no entry of the device is to be written.
LEMMA NothingPending ==
    ASSUME Inv, NEW d \in Dev
    PROVE  /\ Pending(d, entry) \in Nat
           /\ Pending(d, entry) = 0 => Marks(d, entry) = {} /\ Dirty(d, entry) = {} /\ cckd[d].wrpending = 0
<1>1. Marks(d, entry) \in SUBSET Entry /\ Dirty(d, entry) \in SUBSET Entry
    BY DEF Marks, Dirty, Of
<1>2. cckd[d].wrpending = Cardinality(Marks(d, entry))
    BY DEF Inv, Counted
<1> QED BY <1>1, <1>2, EntryCount DEF Pending

LEMMA QuiesceStep ==
    ASSUME Inv, NEW d \in Dev, NEW ext \in ExtRec, NEW next \in Cmd, next # "wait",
           UNCHANGED <<file, pc, job, raq, racond, gcol, chain>>,
           ext.ioactive = cckd[d].ioactive, ext.ras = cckd[d].ras,
           ext.iowaiters = cckd[d].iowaiters, ext.wrpending = cckd[d].wrpending,
           Quiesce(d, ext, next)
    PROVE  Inv'
<1>1. /\ cckd \in [Dev -> ExtRec] /\ cmd \in [Dev -> Cmd] /\ current \in [Dev -> CurRec]
      /\ iocond \in [Dev -> SUBSET {"io", "cmd", "gcol"}] /\ EntriesOK(entry) /\ SameMarks(entry, entry)
      /\ WaitersCounted(d)
    BY DEF Inv, Types, DiskTypes, ThreadTypes, Waiters, SameMarks, SameMark
<1>2. Pending(d, entry) \in Nat
    BY NothingPending
<1>3. PICK waited \in {0, 1} : waited = IF cmd[d] = "wait" THEN 1 ELSE 0
    OBVIOUS
<1>4. CASE Pending(d, entry) > 0 \/ ext.ioactive
  <2>1. /\ FlushCache(d, entry)
        /\ cckd' = [cckd EXCEPT ![d] = [ext EXCEPT !.wrpending = Pending(d, entry),
                                                   !.iowaiters = @ + 1 - waited]]
        /\ iocond' = [iocond EXCEPT ![d] = @ \cup {"cmd"}]
        /\ cmd' = [cmd EXCEPT ![d] = "wait"]
        /\ UNCHANGED <<current, cachecond>>
      BY <1>3, <1>4 DEF Quiesce
  <2>2. PICK m \in Int : m = ext.iowaiters + 1 - waited
      BY <1>3 DEF ExtRec
  <2>2a. PICK p \in Int : p = Pending(d, entry)
      BY <1>2
  <2>3. PICK n : n = [ext EXCEPT !.wrpending = p, !.iowaiters = m]
      OBVIOUS
  <2>4. n \in ExtRec /\ n.wrpending = p /\ n.iowaiters = m
        /\ n.ioactive = ext.ioactive /\ n.ras = ext.ras
      BY <2>3 DEF ExtRec
  <2>5. cckd' = [cckd EXCEPT ![d] = n]
      BY <2>1, <2>2, <2>2a, <2>3
  <2>6. cckd' \in [Dev -> ExtRec] /\ cckd'[d] = n /\ \A x \in Dev \ {d} : cckd'[x] = cckd[x]
      BY <1>1, <2>4, <2>5, ExtForm
  <2>7. WriteParts' /\ WriterTypes' /\ EntriesOK(entry') /\ \A x \in Dev : KeptFor(x, entry, entry')
    <3>1. cckd'[d].wrpending = Pending(d, entry) /\ \A x \in Dev \ {d} : cckd'[x].wrpending = cckd[x].wrpending
        BY <2>2a, <2>4, <2>6
    <3> QED BY <1>1, <2>1, <3>1, FlushStep
  <2>8. CommandOnly(d)
      BY <1>1, <2>1, <2>4, <2>6, <2>7 DEF CommandOnly, Cmd
  <2>9. WaitersCounted(d)'
      BY <1>1, <1>3, <2>1, <2>2, <2>4, <2>6 DEF WaitersCounted, IfSo, ExtRec
  <2> QED BY <2>8, <2>9, CommandStep
<1>5. CASE ~(Pending(d, entry) > 0 \/ ext.ioactive)
  <2>1. /\ entry' = Purged(d) /\ SignalCache
        /\ current' = [current EXCEPT ![d] = NoCurrent]
        /\ cckd' = [cckd EXCEPT ![d] = [ext EXCEPT !.iowaiters = @ - waited]]
        /\ iocond' = IF next = "remove" THEN [iocond EXCEPT ![d] = {}] ELSE iocond
        /\ cmd' = [cmd EXCEPT ![d] = next]
        /\ UNCHANGED wrvars
      BY <1>3, <1>5 DEF Quiesce
  <2>2. PICK m \in Int : m = ext.iowaiters - waited
      BY <1>3 DEF ExtRec
  <2>3. PICK n : n = [ext EXCEPT !.iowaiters = m]
      OBVIOUS
  <2>4. n \in ExtRec /\ n.wrpending = ext.wrpending /\ n.iowaiters = m
        /\ n.ioactive = ext.ioactive /\ n.ras = ext.ras
      BY <2>3 DEF ExtRec
  <2>5. cckd' = [cckd EXCEPT ![d] = n]
      BY <2>1, <2>2, <2>3
  <2>6. cckd' \in [Dev -> ExtRec] /\ cckd'[d] = n /\ \A x \in Dev \ {d} : cckd'[x] = cckd[x]
      BY <1>1, <2>4, <2>5, ExtForm
  <2>7. Marks(d, entry) = {}
      BY <1>2, <1>5, NothingPending
  <2>8. /\ EntriesOK(entry') /\ SameMarks(entry, entry')
        /\ \A x \in Dev \ {d} : KeptFor(x, entry, entry')
      BY <2>1, <2>7, PurgedFacts
  <2>9. WriteParts' /\ WriterTypes'
    <3>1. \A x \in Dev : cckd'[x].wrpending = cckd[x].wrpending
        BY <2>4, <2>6
    <3> QED BY <2>1, <2>8, <3>1, UntouchedStep DEF Untouched, wrvars, Inv, Types, WriterTypes
  <2>10. CommandOnly(d)
    <3>1. NoCurrent \in CurRec
        BY DEF NoCurrent, CurRec
    <3>2. /\ current' \in [Dev -> CurRec] /\ cmd' \in [Dev -> Cmd]
          /\ iocond' \in [Dev -> SUBSET {"io", "cmd", "gcol"}]
          /\ current'[d] = NoCurrent
          /\ \A x \in Dev \ {d} : current'[x] = current[x] /\ cmd'[x] = cmd[x]
        BY <1>1, <2>1, <3>1
    <3> QED BY <1>5, <2>1, <2>4, <2>6, <2>8, <2>9, <3>2, SignalFacts DEF CommandOnly
  <2>11. WaitersCounted(d)'
      BY <1>1, <1>3, <2>1, <2>2, <2>4, <2>6 DEF WaitersCounted, IfSo, ExtRec
  <2> QED BY <2>10, <2>11, CommandStep
<1> QED BY <1>4, <1>5

LEMMA CloseFlushStep == ASSUME Inv, NEW d \in Dev, CloseFlush(d) PROVE Inv'
<1>1. cckd[d] \in ExtRec
    BY DEF Inv, Types, DiskTypes
<1>2. /\ Quiesce(d, cckd[d], "remove")
      /\ UNCHANGED <<file, pc, job, raq, racond, gcol, chain>>
    BY DEF CloseFlush, iovars, ravars
<1> QED BY <1>1, <1>2, QuiesceStep DEF Cmd

LEMMA SfFlushStep == ASSUME Inv, NEW d \in Dev, SfFlush(d) PROVE Inv'
<1>1. cckd[d] \in ExtRec
    BY DEF Inv, Types, DiskTypes
<1>2. PICK ext : ext = [cckd[d] EXCEPT !.merging = TRUE]
    OBVIOUS
<1>3. /\ ext \in ExtRec /\ ext.ioactive = cckd[d].ioactive /\ ext.ras = cckd[d].ras
      /\ ext.iowaiters = cckd[d].iowaiters /\ ext.wrpending = cckd[d].wrpending
    BY <1>1, <1>2 DEF ExtRec
<1>4. /\ Quiesce(d, ext, "shadow")
      /\ UNCHANGED <<file, pc, job, raq, racond, gcol, chain>>
    BY <1>2 DEF SfFlush, iovars, ravars
<1> QED BY <1>3, <1>4, QuiesceStep DEF Cmd

\* The steps of a command that change no entry.
LEMMA OtherCommandStep ==
    ASSUME Inv, NEW d \in Dev, CloseBegin(d) \/ CloseEnd(d) \/ SfEnd(d)
    PROVE  Inv'
<1>1. /\ cckd \in [Dev -> ExtRec] /\ cmd \in [Dev -> Cmd] /\ current \in [Dev -> CurRec]
      /\ iocond \in [Dev -> SUBSET {"io", "cmd", "gcol"}]
      /\ WaitersCounted(d) /\ cckd[d] \in ExtRec
    BY DEF Inv, Types, DiskTypes, ThreadTypes, Waiters
<1>2. /\ UNCHANGED <<entry, file, current, cachecond, pc, job, raq, racond, wrvars, gcol>>
      /\ chain' \subseteq chain /\ (iocond' = iocond \/ iocond' = [iocond EXCEPT ![d] = {}])
      /\ cmd[d] # "wait"
    BY DEF CloseBegin, CloseEnd, SfEnd, iovars, ravars
<1>3. PICK c \in Cmd : cmd' = [cmd EXCEPT ![d] = c] /\ c # "wait"
    BY DEF CloseBegin, CloseEnd, SfEnd, Cmd
<1>4. PICK n \in ExtRec : /\ cckd' = [cckd EXCEPT ![d] = n] /\ n.wrpending = cckd[d].wrpending
                          /\ n.ioactive = cckd[d].ioactive /\ n.ras = cckd[d].ras
                          /\ n.iowaiters = cckd[d].iowaiters
  <2>1. PICK r : r = cckd[d]
      OBVIOUS
  <2>2. /\ r \in ExtRec /\ [r EXCEPT !.stopping = TRUE] \in ExtRec
        /\ [r EXCEPT !.merging = FALSE, !.opened = FALSE] \in ExtRec
      BY <1>1, <2>1 DEF ExtRec
  <2>3. CASE CloseBegin(d)
    <3>1. cckd' = [cckd EXCEPT ![d] = [r EXCEPT !.stopping = TRUE]]
        BY <1>1, <2>1, <2>3 DEF CloseBegin
    <3> QED BY <2>1, <2>2, <3>1 DEF ExtRec
  <2>4. CASE CloseEnd(d)
    <3>1. cckd' = [cckd EXCEPT ![d] = r]
        BY <1>1, <2>1, <2>4 DEF CloseEnd
    <3> QED BY <2>1, <2>2, <3>1
  <2>5. CASE SfEnd(d)
    <3>1. cckd' = [cckd EXCEPT ![d] = [r EXCEPT !.merging = FALSE, !.opened = FALSE]]
        BY <1>1, <2>1, <2>5 DEF SfEnd
    <3> QED BY <2>1, <2>2, <3>1 DEF ExtRec
  <2> QED BY <2>3, <2>4, <2>5
<1>5. cckd' \in [Dev -> ExtRec] /\ cckd'[d] = n /\ \A x \in Dev \ {d} : cckd'[x] = cckd[x]
    BY <1>1, <1>4, ExtForm
<1>6. WriteParts' /\ WriterTypes' /\ EntriesOK(entry')
  <2>1. Untouched
      BY <1>2, <1>4, <1>5 DEF Untouched, SameMarks, SameMark
  <2> QED BY <1>2, <2>1, UntouchedStep DEF Inv, Types, WriterTypes, wrvars
<1>7. CommandOnly(d)
    BY <1>1, <1>2, <1>3, <1>4, <1>5, <1>6, KeptSame DEF CommandOnly
<1>8. WaitersCounted(d)'
    BY <1>1, <1>2, <1>3, <1>4, <1>5 DEF WaitersCounted, IfSo
<1> QED BY <1>7, <1>8, CommandStep

-----------------------------------------------------------------------------
(* The i/o threads *)

\* What a step of d's i/o thread leaves alone, outside the readahead queue.
IoOnly(d) ==
    /\ UNCHANGED <<file, raq, racond, gcol, cmd, chain>>
    /\ WriteParts' /\ WriterTypes' /\ EntriesOK(entry')
    /\ cckd' \in [Dev -> ExtRec] /\ iocond' \in [Dev -> SUBSET {"io", "cmd", "gcol"}]
    /\ current' \in [Dev -> CurRec] /\ CurOK(current'[d], d)
    /\ pc' \in [Dev \cup Ra -> IoPc \cup RaPc] /\ pc'[d] \in IoPc
    /\ job' \in [Dev \cup Ra -> JobRec]
    /\ \A x \in Dev \ {d} : /\ KeptFor(x, entry, entry') /\ current'[x] = current[x]
                            /\ SameExt(cckd[x], cckd'[x])
    /\ \A t \in (Dev \cup Ra) \ {d} : pc'[t] = pc[t] /\ job'[t] = job[t]
    /\ cckd'[d].ras = cckd[d].ras
    /\ cachecond' \subseteq cachecond \cup {d} /\ (d \in cachecond' => pc'[d] = "search")

LEMMA IoStep ==
    ASSUME Inv, NEW d \in Dev, IoOnly(d), IoOK(d)', WaitersCounted(d)'
    PROVE  Inv'
<1>1. /\ \A r \in Ra : pc'[r] = pc[r] /\ job'[r] = job[r]
      /\ \A x \in Dev \ {d} : pc'[x] = pc[x] /\ job'[x] = job[x]
    BY CckdAssumption DEF IoOnly
<1>2. \A x \in Dev : cckd'[x].ras = cckd[x].ras
    BY DEF IoOnly, SameExt
<1>3. Threads'
    BY <1>1, <1>2, ThreadsKept DEF Inv
<1>4. \A x \in Dev : IoOK(x)'
  <2>1. \A x \in Dev \ {d} : cckd'[x].ioactive = cckd[x].ioactive
      BY DEF IoOnly, SameExt
  <2> QED BY <1>1, <2>1, IoKept DEF IoOnly
<1>5. Waiters'
    BY <1>1 DEF IoOnly, SameExt, Inv, Waiters, WaitersCounted
<1>6. ThreadTypes'
  <2>1. \A x \in Dev : CurOK(current'[x], x) /\ pc'[x] \in IoPc
      BY <1>1 DEF IoOnly, Inv, Types, ThreadTypes, CurOK
  <2>2. \A r \in Ra : pc'[r] \in RaPc
      BY <1>1 DEF Inv, Types, ThreadTypes
  <2>3. cachecond' \subseteq {t \in Dev \cup Ra : pc'[t] = "search"}
      BY DEF IoOnly, Inv, Types, ThreadTypes
  <2>4. racond' \subseteq {r \in Ra : pc'[r] = "rawait"}
      BY <1>1 DEF IoOnly, Inv, Types, ThreadTypes
  <2> QED BY <2>1, <2>2, <2>3, <2>4 DEF IoOnly, ThreadTypes
<1>7. DiskTypes' /\ QueueTypes' /\ GcolTypes'
    BY DEF IoOnly, Inv, Types, DiskTypes, QueueTypes, GcolTypes
<1> QED BY <1>3, <1>4, <1>5, <1>6, <1>7 DEF IoOnly, Inv, Types, WriteParts

\* An entry that one device holds changes: the programs of the others keep theirs.
LEMMA OthersKept ==
    ASSUME NEW ent, NEW new, NEW d, NEW e \in Entry, ent[e].key = None \/ ent[e].key[1] = d,
           \A x \in Entry \ {e} : new[x] = ent[x]
    PROVE  \A x \in Dev \ {d} : KeptFor(x, ent, new)
BY DEF KeptFor, Of

LEMMA BeginStep ==
    ASSUME Inv, NEW d \in Dev, NEW cur, cur = current[d] \/ cur = NoCurrent,
           pc[d] \in {"idle", "startwait"}, Begin(d, cur),
           UNCHANGED <<file, cachecond, job, raq, racond, wrvars, gcol, cmd, chain>>
    PROVE  Inv'
<1>1. /\ cckd \in [Dev -> ExtRec] /\ current \in [Dev -> CurRec] /\ cckd[d] \in ExtRec
      /\ iocond \in [Dev -> SUBSET {"io", "cmd", "gcol"}] /\ EntriesOK(entry)
      /\ pc \in [Dev \cup Ra -> IoPc \cup RaPc] /\ job \in [Dev \cup Ra -> JobRec]
      /\ cachecond \subseteq {t \in Dev \cup Ra : pc[t] = "search"} /\ WriterTypes
      /\ WaitersCounted(d)
    BY DEF Inv, Types, DiskTypes, ThreadTypes, Waiters
<1>2. cur \in CurRec /\ CurOK(cur, d) /\ CurOK(NoCurrent, d) /\ NoCurrent \in CurRec
    BY DEF Inv, Types, ThreadTypes, CurOK, CurRec, NoCurrent
<1> DEFINE e == cur.slot
           valid == e # None /\ entry[e].key = <<d, cur.trk>> /\ entry[e].flag \cap IoBusy = {}
<1>3. PICK b \in {0, 1} : b = IF valid /\ "WRITE" \in entry[e].flag THEN 1 ELSE 0
    OBVIOUS
<1>4. PICK w \in {0, 1} : w = IF pc[d] = "startwait" THEN 1 ELSE 0
    OBVIOUS
<1>5. PICK m \in Int : m = cckd[d].wrpending - b
    BY <1>1, <1>3 DEF ExtRec
<1>6. PICK p \in Int : p = cckd[d].iowaiters - w
    BY <1>1, <1>4 DEF ExtRec
<1>7. /\ entry' = IF valid THEN [entry EXCEPT ![e].flag = Activated(@)] ELSE entry
      /\ current' = [current EXCEPT ![d] = IF valid THEN cur ELSE NoCurrent]
      /\ cckd' = [cckd EXCEPT ![d].ioactive = TRUE, ![d].wrpending = m, ![d].iowaiters = p]
      /\ iocond' = iocond \/ iocond' = [iocond EXCEPT ![d] = {}]
      /\ pc' = [pc EXCEPT ![d] = "run"]
  <2>1. m = cckd[d].wrpending - IF valid /\ "WRITE" \in entry[e].flag THEN 1 ELSE 0
      BY <1>3, <1>5
  <2>2. p = cckd[d].iowaiters - IF pc[d] = "startwait" THEN 1 ELSE 0
      BY <1>4, <1>6
  <2> QED BY <2>1, <2>2 DEF Begin
<1> HIDE DEF valid, e
<1>8. PICK n : n = [cckd[d] EXCEPT !.ioactive = TRUE, !.wrpending = m, !.iowaiters = p]
    OBVIOUS
<1>9. n \in ExtRec /\ n.ioactive = TRUE /\ n.wrpending = m /\ n.iowaiters = p /\ n.ras = cckd[d].ras
    BY <1>1, <1>8 DEF ExtRec
<1>10. cckd' = [cckd EXCEPT ![d] = n]
    BY <1>1, <1>7, <1>8
<1>11. cckd' \in [Dev -> ExtRec] /\ cckd'[d] = n /\ \A x \in Dev \ {d} : cckd'[x] = cckd[x]
    BY <1>1, <1>9, <1>10, ExtForm
<1>12. /\ EntriesOK(entry') /\ WriteParts' /\ \A x \in Dev \ {d} : KeptFor(x, entry, entry')
       /\ valid => /\ Uses(d, cur.trk, e)' /\ entry'[e].flag \cap IoBusy = {}
  <2>1. CASE valid
    <3>1. e \in Entry /\ entry[e].key = <<d, cur.trk>> /\ entry[e].flag \cap IoBusy = {}
        BY <1>2, <2>1 DEF valid, e, CurRec
    <3>2. <<d, cur.trk>> # None
      <4>1. cur.trk \in Tracks[d]
          BY <1>2, <3>1, KeyFacts DEF CurOK, NoCurrent, e
      <4> QED BY <4>1, KeyFacts
    <3>3. PICK f \in SUBSET {"IOWAIT"} : f = {}
        OBVIOUS
    <3>4. /\ EntriesOK(entry')
          /\ "WRITE" \in entry[e].flag => Unmarked(entry, entry', d, e, FALSE)
          /\ "WRITE" \notin entry[e].flag => SameMarks(entry, entry')
          /\ entry'[e].key = entry[e].key /\ "ACTIVE" \in entry'[e].flag
          /\ entry'[e].flag \cap IoBusy = entry[e].flag \cap IoBusy
          /\ \A x \in Entry \ {e} : entry'[x] = entry[x]
      <4>1. e \in Of(d, entry)
          BY <3>1, <3>2 DEF Of
      <4>2. Taking(entry, WithFlag(entry, e, Activated(entry[e].flag) \cup f), d, e, f)
          BY <1>1, <4>1, ActivatedFacts
      <4>3. entry' = WithFlag(entry, e, Activated(entry[e].flag) \cup f)
          BY <1>7, <2>1, <3>3 DEF WithFlag
      <4>4. Taking(entry, entry', d, e, f)
          BY <4>2, <4>3
      <4> QED BY <4>4 DEF Taking
    <3>5. \A x \in Dev \ {d} : KeptFor(x, entry, entry')
      <4>1. entry[e].key[1] = d
          BY <3>1
      <4> QED BY <3>1, <3>4, <4>1, OthersKept
    <3>6. WriteParts'
      <4>1. CASE "WRITE" \in entry[e].flag
        <5>1. b = 1
            BY <1>3, <2>1, <4>1
        <5>2. TakenBack(d)
            BY <1>5, <1>9, <1>11, <3>1, <3>4, <4>1, <5>1 DEF TakenBack
        <5> QED BY <5>2, TakenBackStep
      <4>2. CASE "WRITE" \notin entry[e].flag
        <5>1. b = 0
            BY <1>3, <4>2
        <5>2. m = cckd[d].wrpending
            BY <1>1, <1>5, <5>1 DEF ExtRec
        <5>3. Untouched
            BY <1>9, <1>11, <3>4, <4>2, <5>2 DEF Untouched
        <5> QED BY <5>3, UntouchedStep
      <4> QED BY <4>1, <4>2
    <3> QED BY <3>1, <3>4, <3>5, <3>6 DEF Uses
  <2>2. CASE ~valid
    <3>1. entry' = entry
        BY <1>7, <2>2
    <3>2. m = cckd[d].wrpending
        BY <1>1, <1>3, <1>5, <2>2 DEF ExtRec
    <3>3. Untouched
        BY <1>9, <1>11, <3>1, <3>2 DEF Untouched, SameMarks, SameMark
    <3> QED BY <1>1, <2>2, <3>1, <3>3, UntouchedStep, KeptSame
  <2> QED BY <2>1, <2>2
<1>13. /\ current' \in [Dev -> CurRec] /\ current'[d] = (IF valid THEN cur ELSE NoCurrent)
       /\ \A x \in Dev \ {d} : current'[x] = current[x]
    BY <1>1, <1>2, <1>7
<1>14. IoOnly(d)
  <2>1. WriterTypes'
      BY <1>1 DEF wrvars, WriterTypes
  <2>2. /\ pc' \in [Dev \cup Ra -> IoPc \cup RaPc] /\ pc'[d] = "run" /\ pc'[d] \in IoPc
        /\ \A t \in (Dev \cup Ra) \ {d} : pc'[t] = pc[t]
      BY <1>1, <1>7 DEF IoPc
  <2>3. iocond' \in [Dev -> SUBSET {"io", "cmd", "gcol"}]
      BY <1>1, <1>7
  <2>4. d \notin cachecond'
      BY <1>1
  <2> QED BY <1>1, <1>2, <1>9, <1>11, <1>12, <1>13, <2>1, <2>2, <2>3, <2>4 DEF IoOnly, SameExt
<1>15. IoOK(d)'
    BY <1>1, <1>7, <1>9, <1>11, <1>12, <1>13 DEF IoOK, Running, e
<1>16. WaitersCounted(d)'
  <2>1. cckd[d].iowaiters = w + IfSo(cmd[d] = "wait")
      BY <1>1, <1>4 DEF WaitersCounted, IfSo
  <2> QED BY <1>1, <1>4, <1>6, <1>7, <1>9, <1>11, <2>1 DEF WaitersCounted, IfSo
<1> QED BY <1>14, <1>15, <1>16, IoStep

LEMMA StartStep == ASSUME Inv, NEW d \in Dev, StartIo(d) \/ StartWoken(d) PROVE Inv'
<1>1. /\ cckd \in [Dev -> ExtRec] /\ current \in [Dev -> CurRec] /\ cckd[d] \in ExtRec
      /\ iocond \in [Dev -> SUBSET {"io", "cmd", "gcol"}] /\ EntriesOK(entry)
      /\ pc \in [Dev \cup Ra -> IoPc \cup RaPc] /\ job \in [Dev \cup Ra -> JobRec]
      /\ cachecond \subseteq {t \in Dev \cup Ra : pc[t] = "search"} /\ WriterTypes
      /\ WaitersCounted(d) /\ IoOK(d) /\ CurOK(current[d], d)
    BY DEF Inv, Types, DiskTypes, ThreadTypes, Waiters
<1>2. /\ UNCHANGED <<file, cachecond, job, raq, racond, wrvars, gcol, cmd, chain>>
      /\ pc[d] \in {"idle", "startwait"}
    BY DEF StartIo, StartWoken, ravars
<1>3. CASE Begin(d, current[d]) \/ Begin(d, NoCurrent)
  <2>1. PICK cur : (cur = current[d] \/ cur = NoCurrent) /\ Begin(d, cur)
      BY <1>3
  <2> QED BY <1>2, <2>1, BeginStep
<1>4. CASE ~(Begin(d, current[d]) \/ Begin(d, NoCurrent))
  <2>1. PICK w \in {0, 1} : w = IF pc[d] = "startwait" THEN 0 ELSE 1
      OBVIOUS
  <2>2. PICK m \in Int : m = cckd[d].iowaiters + w
      BY <1>1, <2>1 DEF ExtRec
  <2>3. PICK n : n = [cckd[d] EXCEPT !.iowaiters = m]
      OBVIOUS
  <2>4. n \in ExtRec /\ n.iowaiters = m /\ n.wrpending = cckd[d].wrpending
        /\ n.ioactive = cckd[d].ioactive /\ n.ras = cckd[d].ras
      BY <1>1, <2>3 DEF ExtRec
  <2>5. /\ UNCHANGED <<entry, current>>
        /\ iocond' = [iocond EXCEPT ![d] = @ \cup {"io"}]
        /\ pc' = [pc EXCEPT ![d] = "startwait"]
        /\ cckd' = [cckd EXCEPT ![d] = n]
    <3>1. CASE StartIo(d)
      <4>1. pc[d] = "idle" /\ cckd' = [cckd EXCEPT ![d].iowaiters = @ + 1]
            /\ iocond' = [iocond EXCEPT ![d] = @ \cup {"io"}]
            /\ pc' = [pc EXCEPT ![d] = "startwait"] /\ UNCHANGED <<entry, current>>
          BY <1>4, <3>1 DEF StartIo
      <4> QED BY <1>1, <2>1, <2>2, <2>3, <4>1
    <3>2. CASE StartWoken(d)
      <4>1. pc[d] = "startwait" /\ UNCHANGED <<entry, current, cckd, pc>>
            /\ iocond' = [iocond EXCEPT ![d] = @ \cup {"io"}]
          BY <1>4, <3>2 DEF StartWoken
      <4>2. n = cckd[d]
          BY <1>1, <2>1, <2>2, <2>3, <4>1 DEF ExtRec
      <4> QED BY <1>1, <4>1, <4>2
    <3> QED BY <3>1, <3>2
  <2>6. cckd' \in [Dev -> ExtRec] /\ cckd'[d] = n /\ \A x \in Dev \ {d} : cckd'[x] = cckd[x]
      BY <1>1, <2>4, <2>5, ExtForm
  <2>7. WriteParts'
    <3>1. Untouched
        BY <1>2, <2>4, <2>5, <2>6 DEF Untouched, SameMarks, SameMark
    <3> QED BY <3>1, UntouchedStep
  <2>8. IoOnly(d)
    <3>1. WriterTypes'
        BY <1>1, <1>2 DEF wrvars, WriterTypes
    <3>2. /\ pc' \in [Dev \cup Ra -> IoPc \cup RaPc] /\ pc'[d] \in IoPc
          /\ \A t \in (Dev \cup Ra) \ {d} : pc'[t] = pc[t]
        BY <1>1, <2>5 DEF IoPc
    <3>3. iocond' \in [Dev -> SUBSET {"io", "cmd", "gcol"}] /\ d \notin cachecond'
        BY <1>1, <1>2, <2>5
    <3> QED BY <1>1, <1>2, <2>4, <2>5, <2>6, <2>7, <3>1, <3>2, <3>3, KeptSame DEF IoOnly, SameExt
  <2>9. IoOK(d)'
      BY <1>1, <1>2, <2>4, <2>5, <2>6 DEF IoOK, Running
  <2>10. WaitersCounted(d)'
    <3>1. cckd[d].iowaiters + w = 1 + IfSo(cmd[d] = "wait")
        BY <1>1, <1>2, <2>1 DEF WaitersCounted, IfSo
    <3> QED BY <1>1, <1>2, <2>2, <2>4, <2>5, <2>6, <3>1 DEF WaitersCounted, IfSo
  <2> QED BY <2>8, <2>9, <2>10, IoStep
<1> QED BY <1>3, <1>4

LEMMA UpdateStep == ASSUME Inv, NEW d \in Dev, Update(d) PROVE Inv'
<1>1. /\ cckd \in [Dev -> ExtRec] /\ cckd[d] \in ExtRec /\ EntriesOK(entry)
      /\ WaitersCounted(d) /\ IoOK(d) /\ CurOK(current[d], d) /\ ThreadTypes /\ DiskTypes /\ WriterTypes
    BY DEF Inv, Types, DiskTypes, ThreadTypes, Waiters
<1>2. PICK e : e = current[d].slot
    OBVIOUS
<1>3. /\ pc[d] = "run" /\ e # None /\ entry[e].image < MaxImage
      /\ entry' = [entry EXCEPT ![e].flag = @ \cup {"UPDATED"}, ![e].image = Updated(@)]
      /\ cckd' = [cckd EXCEPT ![d].updated = TRUE]
      /\ UNCHANGED <<file, current, iocond, cachecond, pc, job, raq, racond, wrvars, gcol, cmd, chain>>
    BY <1>2 DEF Update, iovars, ravars
<1>4. Uses(d, current[d].trk, e) /\ entry[e].flag \cap IoBusy = {}
    BY <1>1, <1>2, <1>3 DEF IoOK, Running, NoCurrent
<1>5. /\ e \in Entry /\ entry \in [Entry -> EntryRec] /\ entry[e] \in EntryRec /\ FlagOK(entry[e])
      /\ "ACTIVE" \in entry[e].flag /\ entry[e].key # None /\ entry[e].key[1] = d
    BY <1>1, <1>4 DEF Uses, EntriesOK, FlagOK
<1>6. "WRITE" \notin entry[e].flag /\ "READING" \notin entry[e].flag /\ "WRITING" \notin entry[e].flag
    BY <1>4, <1>5, FlagFacts DEF FlagOK
<1>7. /\ entry' \in [Entry -> EntryRec] /\ entry'[e].key = entry[e].key
      /\ entry'[e].flag = entry[e].flag \cup {"UPDATED"}
      /\ \A x \in Entry \ {e} : entry'[x] = entry[x]
  <2>1. PICK i \in Image : i = Updated(entry[e].image)
      BY <1>3, <1>5, UpdatedImage DEF EntryRec
  <2>2. PICK r : r = [entry[e] EXCEPT !.flag = @ \cup {"UPDATED"}, !.image = i]
      OBVIOUS
  <2>3. r \in EntryRec /\ r.key = entry[e].key /\ r.flag = entry[e].flag \cup {"UPDATED"}
    <3>1. PICK f \in SUBSET Flags : f = entry[e].flag \cup {"UPDATED"}
        BY <1>5, FlagFacts DEF EntryRec
    <3>2. r = [entry[e] EXCEPT !.flag = f, !.image = i]
        BY <2>2, <3>1
    <3> QED BY <1>5, <3>1, <3>2 DEF EntryRec
  <2>4. entry' = [entry EXCEPT ![e] = r]
      BY <1>3, <1>5, <2>1, <2>2
  <2> QED BY <1>5, <2>3, <2>4
<1>8. EntriesOK(entry') /\ SameMarks(entry, entry')
  <2>1. FlagOK(entry'[e]) /\ SameMark(entry[e], entry'[e])
      BY <1>5, <1>6, <1>7 DEF FlagOK, SameMark
  <2> QED BY <1>1, <1>7, <2>1 DEF EntriesOK, SameMarks, SameMark
<1>9. PICK n : n = [cckd[d] EXCEPT !.updated = TRUE]
    OBVIOUS
<1>10. n \in ExtRec /\ SameExt(cckd[d], n) /\ n.wrpending = cckd[d].wrpending
    BY <1>1, <1>9 DEF ExtRec, SameExt
<1>11. cckd' \in [Dev -> ExtRec] /\ cckd'[d] = n /\ \A x \in Dev \ {d} : cckd'[x] = cckd[x]
  <2>1. cckd' = [cckd EXCEPT ![d] = n]
      BY <1>1, <1>3, <1>9
  <2> QED BY <1>1, <1>10, <2>1, ExtForm
<1>12. WriteParts'
  <2>1. Untouched
      BY <1>3, <1>8, <1>10, <1>11 DEF Untouched
  <2> QED BY <2>1, UntouchedStep
<1>13. \A x \in Dev : KeptFor(x, entry, entry')
  <2>1. entry'[e].flag \cap IoBusy \subseteq entry[e].flag /\ "ACTIVE" \in entry'[e].flag
      BY <1>5, <1>7 DEF IoBusy
  <2> QED BY <1>7, <2>1 DEF KeptFor
<1>14. FlushesOnly
  <2>1. WriterTypes'
      BY <1>1, <1>3 DEF wrvars, WriterTypes
  <2>2. \A x \in Dev : SameExt(cckd[x], cckd'[x])
      BY <1>10, <1>11 DEF SameExt
  <2> QED BY <1>8, <1>11, <1>12, <1>13, <2>1, <2>2 DEF FlushesOnly
<1>15. DiskTypes' /\ GcolTypes'
    BY <1>1, <1>3, <1>11 DEF DiskTypes, GcolTypes, Inv, Types
<1> QED BY <1>3, <1>14, <1>15, StillStep DEF Inv, Types, WriteParts

\* What cckddasd_end and cckd_read_trk do first: the entry in use is given up.
LEMMA DeactivatedFacts ==
    ASSUME Inv, NEW d \in Dev, pc[d] = "run", NEW ent, ent = Deactivated(d)
    PROVE  /\ EntriesOK(ent) /\ SameMarks(entry, ent)
           /\ \A x \in Dev \ {d} : KeptFor(x, entry, ent)
           /\ \A e \in Entry : /\ ent[e].key = entry[e].key /\ ent[e].image = entry[e].image
                               /\ ent[e].flag = entry[e].flag \ (IF e = current[d].slot THEN {"ACTIVE"} ELSE {})
<1>1. EntriesOK(entry) /\ IoOK(d) /\ CurOK(current[d], d)
    BY DEF Inv, Types, ThreadTypes
<1>2. CASE current[d].slot = None
  <2>1. ent = entry
      BY <1>2 DEF Deactivated
  <2>2. \A e \in Entry : e # current[d].slot
      BY <1>2, KeyFacts
  <2> QED BY <1>1, <2>1, <2>2, KeptSame DEF SameMarks, SameMark
<1>3. CASE current[d].slot # None
  <2>1. PICK e : e = current[d].slot
      OBVIOUS
  <2>2. PICK f \in SUBSET {"ACTIVE", "READING", "IOWAIT"} : f = {"ACTIVE"}
      OBVIOUS
  <2>3. Uses(d, current[d].trk, e)
      BY <1>1, <1>3, <2>1 DEF IoOK, Running, NoCurrent
  <2>4. e \in Entry /\ entry[e].key[1] = d
      BY <2>3 DEF Uses
  <2>5. ent = [entry EXCEPT ![e].flag = entry[e].flag \ f]
      BY <1>3, <2>1, <2>2 DEF Deactivated
  <2>6. /\ EntriesOK(ent) /\ SameMarks(entry, ent)
        /\ ent[e].key = entry[e].key /\ ent[e].image = entry[e].image
        /\ ent[e].flag = entry[e].flag \ f
        /\ \A x \in Entry \ {e} : ent[x] = entry[x]
    <3>1. Lessened(entry, WithFlag(entry, e, entry[e].flag \ f), e, f)
        BY <1>1, <2>4, LessFlags
    <3>2. ent = WithFlag(entry, e, entry[e].flag \ f)
        BY <2>5 DEF WithFlag
    <3>3. Lessened(entry, ent, e, f)
        BY <3>1, <3>2
    <3> QED BY <3>3 DEF Lessened
  <2>7. \A x \in Dev \ {d} : KeptFor(x, entry, ent)
      BY <2>4, <2>6, OthersKept
  <2> QED BY <2>1, <2>2, <2>6, <2>7
<1> QED BY <1>2, <1>3

LEMMA KeptChain ==
    ASSUME NEW d, NEW a, NEW b, NEW c, KeptFor(d, a, b), KeptFor(d, b, c), \A e \in Entry : a[e].key = b[e].key
    PROVE  KeptFor(d, a, c)
<1> SUFFICES ASSUME NEW e \in Entry, e \in Of(d, a), "ACTIVE" \in a[e].flag
             PROVE  /\ c[e].key = a[e].key /\ "ACTIVE" \in c[e].flag
                    /\ c[e].flag \cap IoBusy \subseteq a[e].flag
    BY DEF KeptFor
<1>1. b[e].key = a[e].key /\ "ACTIVE" \in b[e].flag /\ b[e].flag \cap IoBusy \subseteq a[e].flag
    BY DEF KeptFor
<1>2. e \in Of(d, b)
    BY <1>1 DEF Of
<1>3. c[e].key = b[e].key /\ "ACTIVE" \in c[e].flag /\ c[e].flag \cap IoBusy \subseteq b[e].flag
    BY <1>1, <1>2 DEF KeptFor
<1> QED BY <1>1, <1>3

LEMMA EndIoStep == ASSUME Inv, NEW d \in Dev, EndIo(d) PROVE Inv'
<1>1. /\ cckd \in [Dev -> ExtRec] /\ cckd[d] \in ExtRec /\ EntriesOK(entry)
      /\ WaitersCounted(d) /\ IoOK(d) /\ ThreadTypes /\ DiskTypes /\ WriterTypes
    BY DEF Inv, Types, DiskTypes, ThreadTypes, Waiters
<1>2. PICK ent : ent = Deactivated(d)
    OBVIOUS
<1>3. /\ pc[d] = "run" /\ pc' = [pc EXCEPT ![d] = "idle"] /\ SignalCache
      /\ UNCHANGED <<file, current, job, raq, racond, gcol, cmd, chain>>
    BY DEF EndIo, ravars
<1>4. /\ EntriesOK(ent) /\ SameMarks(entry, ent)
      /\ \A x \in Dev \ {d} : KeptFor(x, entry, ent)
      /\ \A e \in Entry : ent[e].key = entry[e].key
    BY <1>2, <1>3, DeactivatedFacts
<1>5. /\ WriteParts' /\ WriterTypes' /\ EntriesOK(entry') /\ cckd' \in [Dev -> ExtRec]
      /\ \A x \in Dev : KeptFor(x, ent, entry')
      /\ \A x \in Dev \ {d} : cckd'[x] = cckd[x]
      /\ cckd'[d].ioactive = FALSE /\ cckd'[d].ras = cckd[d].ras /\ cckd'[d].iowaiters = cckd[d].iowaiters
      /\ iocond' \in [Dev -> SUBSET {"io", "cmd", "gcol"}]
  <2>1. CASE cckd[d].updated /\ (Started(writer) = {} \/ cckd[d].iowaiters # 0)
    <3>1. /\ FlushCache(d, ent) /\ UNCHANGED iocond
          /\ cckd' = [cckd EXCEPT ![d].ioactive = FALSE, ![d].wrpending = Pending(d, ent)]
        BY <1>2, <2>1 DEF EndIo
    <3>2. PICK p \in Int : p = Pending(d, ent)
      <4>1. Dirty(d, ent) \in SUBSET Entry
          BY DEF Dirty, Of
      <4> QED BY <1>1, <4>1, EntryCount, ExtFields DEF Pending
    <3>3. PICK n : n = [cckd[d] EXCEPT !.ioactive = FALSE, !.wrpending = p]
        OBVIOUS
    <3>4. n \in ExtRec /\ n.ioactive = FALSE /\ n.wrpending = p /\ n.ras = cckd[d].ras
          /\ n.iowaiters = cckd[d].iowaiters
        BY <1>1, <3>3 DEF ExtRec
    <3>5. cckd' \in [Dev -> ExtRec] /\ cckd'[d] = n /\ \A x \in Dev \ {d} : cckd'[x] = cckd[x]
      <4>1. cckd' = [cckd EXCEPT ![d] = n]
          BY <1>1, <3>1, <3>2, <3>3
      <4> QED BY <1>1, <3>4, <4>1, ExtForm
    <3>6. WriteParts' /\ WriterTypes' /\ EntriesOK(entry') /\ \A x \in Dev : KeptFor(x, ent, entry')
      <4>1. cckd'[d].wrpending = Pending(d, ent) /\ \A x \in Dev \ {d} : cckd'[x].wrpending = cckd[x].wrpending
          BY <3>2, <3>4, <3>5
      <4> QED BY <1>4, <3>1, <4>1, FlushStep
    <3> QED BY <1>1, <3>1, <3>4, <3>5, <3>6 DEF DiskTypes
  <2>2. CASE ~(cckd[d].updated /\ (Started(writer) = {} \/ cckd[d].iowaiters # 0))
    <3>1. /\ entry' = ent /\ UNCHANGED wrvars
          /\ cckd' = [cckd EXCEPT ![d].ioactive = FALSE]
          /\ iocond' = iocond \/ iocond' = [iocond EXCEPT ![d] = {}]
        BY <1>2, <2>2 DEF EndIo
    <3>2. PICK n : n = [cckd[d] EXCEPT !.ioactive = FALSE]
        OBVIOUS
    <3>3. n \in ExtRec /\ n.ioactive = FALSE /\ n.wrpending = cckd[d].wrpending /\ n.ras = cckd[d].ras
          /\ n.iowaiters = cckd[d].iowaiters
        BY <1>1, <3>2 DEF ExtRec
    <3>4. cckd' \in [Dev -> ExtRec] /\ cckd'[d] = n /\ \A x \in Dev \ {d} : cckd'[x] = cckd[x]
      <4>1. cckd' = [cckd EXCEPT ![d] = n]
          BY <1>1, <3>1, <3>2
      <4> QED BY <1>1, <3>3, <4>1, ExtForm
    <3>5. WriteParts'
      <4>1. Untouched
          BY <1>4, <3>1, <3>3, <3>4 DEF Untouched
      <4> QED BY <4>1, UntouchedStep
    <3>6. WriterTypes' /\ iocond' \in [Dev -> SUBSET {"io", "cmd", "gcol"}]
        BY <1>1, <3>1 DEF wrvars, WriterTypes, DiskTypes
    <3> QED BY <1>4, <3>1, <3>3, <3>4, <3>5, <3>6, KeptSame
  <2> QED BY <2>1, <2>2
<1>6. \A x \in Dev \ {d} : KeptFor(x, entry, entry')
    BY <1>4, <1>5, KeptChain
<1>7. IoOnly(d)
  <2>1. /\ pc' \in [Dev \cup Ra -> IoPc \cup RaPc] /\ pc'[d] = "idle" /\ pc'[d] \in IoPc
        /\ \A t \in (Dev \cup Ra) \ {d} : pc'[t] = pc[t]
      BY <1>1, <1>3 DEF IoPc, ThreadTypes
  <2>2. d \notin cachecond' /\ cachecond' \subseteq cachecond
      BY <1>1, <1>3, SignalFacts DEF ThreadTypes
  <2>3. job' \in [Dev \cup Ra -> JobRec] /\ current' \in [Dev -> CurRec] /\ CurOK(current'[d], d)
      BY <1>1, <1>3 DEF ThreadTypes
  <2> QED BY <1>3, <1>5, <1>6, <2>1, <2>2, <2>3 DEF IoOnly, SameExt
<1>8. IoOK(d)'
    BY <1>1, <1>3, <1>5 DEF IoOK, Running, ThreadTypes
<1>9. WaitersCounted(d)'
    BY <1>1, <1>3, <1>5 DEF WaitersCounted, IfSo, ThreadTypes
<1> QED BY <1>7, <1>8, <1>9, IoStep

-----------------------------------------------------------------------------
(* Reads *)

LEMMA SameMarksChain ==
    ASSUME NEW a, NEW b, NEW c, SameMarks(a, b), SameMarks(b, c), \A e \in Entry : b[e].key = a[e].key
    PROVE  SameMarks(a, c)
BY DEF SameMarks, SameMark, IsMarked

LEMMA UnmarkedChain ==
    ASSUME NEW a, NEW b, NEW c, NEW d, NEW e, SameMarks(a, b), Unmarked(b, c, d, e, FALSE),
           \A x \in Entry : b[x].key = a[x].key
    PROVE  e \in Entry /\ Unmarked(a, c, d, e, FALSE)
<1>1. e \in Entry /\ e \in Of(d, a)
    BY DEF Unmarked, Of
<1>2. "WRITE" \in a[e].flag /\ c[e].key = a[e].key
    BY <1>1 DEF Unmarked, SameMarks, SameMark
<1>3. \A x \in Entry \ {e} : SameMark(a[x], c[x])
    BY DEF Unmarked, SameMarks, SameMark, IsMarked
<1> QED BY <1>1, <1>2, <1>3 DEF Unmarked

\* An entry that is not in use changes: all programs keep theirs.
LEMMA IdleKept ==
    ASSUME NEW ent, NEW new, NEW e \in Entry, "ACTIVE" \notin ent[e].flag,
           \A x \in Entry \ {e} : new[x] = ent[x]
    PROVE  \A x \in Dev : KeptFor(x, ent, new)
BY DEF KeptFor

LEMMA JobForm == NoJob \in JobRec /\ NoJob.dev = None /\ NoJob.ahead = FALSE
BY DEF JobRec, NoJob

\* The entry e of the cache ent holds the track of job j of d; w says whether it
\* is busy with input or output, b whether it is to be written.
Hit(d, j, ent, e, w, b) ==
    /\ job' = [job EXCEPT ![d] = IF w = 1 \/ j.ahead THEN [j EXCEPT !.slot = e] ELSE NoJob]
    /\ entry' = [ent EXCEPT ![e].flag = Activated(@) \cup (IF w = 1 THEN {"IOWAIT"} ELSE {})]
    /\ cckd' = [cckd EXCEPT ![d].wrpending = cckd[d].wrpending - b, ![d].iowaiters = @ + w]
    /\ iocond' \in [Dev -> SUBSET {"io", "cmd", "gcol"}]
    /\ current' = [current EXCEPT ![d] = IF w = 1 THEN NoCurrent ELSE [trk |-> j.trk, slot |-> e]]
    /\ pc' = [pc EXCEPT ![d] = IF w = 1 THEN "iowait" ELSE IF j.ahead THEN "ahead" ELSE "run"]

\* A look-up for the i/o thread of d.
LEMMA SearchIo ==
    ASSUME Inv, NEW d \in Dev, NEW j \in JobRec, j.dev = d, j.trk \in Tracks[d],
           NEW ent, EntriesOK(ent), SameMarks(entry, ent), \A x \in Dev \ {d} : KeptFor(x, entry, ent),
           \A e \in Entry : ent[e].key = entry[e].key,
           pc[d] \in {"run", "search"}, Search(d, j, ent),
           cachecond' \subseteq cachecond, d \notin cachecond',
           UNCHANGED <<file, raq, racond, wrvars, gcol, cmd, chain>>
    PROVE  Inv'
<1>1. /\ cckd \in [Dev -> ExtRec] /\ cckd[d] \in ExtRec /\ current \in [Dev -> CurRec]
      /\ iocond \in [Dev -> SUBSET {"io", "cmd", "gcol"}] /\ chain \in SUBSET Dev
      /\ pc \in [Dev \cup Ra -> IoPc \cup RaPc] /\ job \in [Dev \cup Ra -> JobRec]
      /\ WriterTypes /\ WaitersCounted(d) /\ IoOK(d)
    BY DEF Inv, Types, DiskTypes, ThreadTypes, Waiters
<1>2. PICK k : k = <<d, j.trk>>
    OBVIOUS
<1>3. k \in Key /\ k # None /\ k[1] = d /\ j.trk \in Nat
    BY <1>2, KeyFacts
<1>4. d \notin Ra /\ WriterTypes'
    BY <1>1, CckdAssumption DEF wrvars, WriterTypes
<1>5. cckd[d].ioactive = TRUE /\ cckd[d].iowaiters = IfSo(cmd[d] = "wait")
    BY <1>1 DEF IoOK, Running, WaitersCounted, IfSo, ExtRec
<1>6. ASSUME NEW e \in Entry, ent[e].key = k,
             NEW w \in {0, 1}, w = 1 <=> ent[e].flag \cap IoBusy # {},
             NEW b \in {0, 1}, b = 1 <=> "WRITE" \in ent[e].flag,
             Hit(d, j, ent, e, w, b)
      PROVE  Inv'
  <2>0. /\ job' = [job EXCEPT ![d] = IF w = 1 \/ j.ahead THEN [j EXCEPT !.slot = e] ELSE NoJob]
        /\ entry' = [ent EXCEPT ![e].flag = Activated(@) \cup (IF w = 1 THEN {"IOWAIT"} ELSE {})]
        /\ cckd' = [cckd EXCEPT ![d].wrpending = cckd[d].wrpending - b, ![d].iowaiters = @ + w]
        /\ iocond' \in [Dev -> SUBSET {"io", "cmd", "gcol"}]
        /\ current' = [current EXCEPT ![d] = IF w = 1 THEN NoCurrent ELSE [trk |-> j.trk, slot |-> e]]
        /\ pc' = [pc EXCEPT ![d] = IF w = 1 THEN "iowait" ELSE IF j.ahead THEN "ahead" ELSE "run"]
      BY <1>6 DEF Hit
  <2>1. PICK f \in SUBSET {"IOWAIT"} : f = IF w = 1 THEN {"IOWAIT"} ELSE {}
      OBVIOUS
  <2>2. Taking(ent, entry', d, e, f)
    <3>1. entry' = WithFlag(ent, e, Activated(ent[e].flag) \cup f)
        BY <2>0, <2>1 DEF WithFlag
    <3>2. e \in Of(d, ent)
        BY <1>3, <1>6 DEF Of
    <3>3. Taking(ent, WithFlag(ent, e, Activated(ent[e].flag) \cup f), d, e, f)
        BY <3>2, ActivatedFacts
    <3> QED BY <3>1, <3>3
  <2>3. PICK p \in Int : p = cckd[d].wrpending - b
      BY <1>1, <1>6 DEF ExtRec
  <2>4. PICK q \in Int : q = cckd[d].iowaiters + w
      BY <1>1, <1>6 DEF ExtRec
  <2>5. PICK n : n = [cckd[d] EXCEPT !.wrpending = p, !.iowaiters = q]
      OBVIOUS
  <2>6. n \in ExtRec /\ n.wrpending = p /\ n.iowaiters = q /\ n.ioactive = cckd[d].ioactive
        /\ n.ras = cckd[d].ras
      BY <1>1, <2>5 DEF ExtRec
  <2>7. cckd' \in [Dev -> ExtRec] /\ cckd'[d] = n /\ \A x \in Dev \ {d} : cckd'[x] = cckd[x]
    <3>1. cckd' = [cckd EXCEPT ![d] = n]
        BY <1>1, <2>0, <2>3, <2>4, <2>5
    <3> QED BY <1>1, <2>6, <3>1, ExtForm
  <2>8. WriteParts' /\ EntriesOK(entry')
    <3>1. CASE "WRITE" \in ent[e].flag
      <4>1. e \in Entry /\ Unmarked(entry, entry', d, e, FALSE)
          BY <2>2, <3>1, UnmarkedChain DEF Taking
      <4>2. TakenBack(d)
          BY <1>6, <2>3, <2>6, <2>7, <3>1, <4>1 DEF TakenBack
      <4> QED BY <2>2, <4>2, TakenBackStep DEF Taking
    <3>2. CASE "WRITE" \notin ent[e].flag
      <4>1. SameMarks(entry, entry')
          BY <2>2, <3>2, SameMarksChain DEF Taking
      <4>1a. b = 0
          BY <1>6, <3>2
      <4>2. p = cckd[d].wrpending
          BY <1>1, <2>3, <4>1a DEF ExtRec
      <4>3. Untouched
          BY <2>6, <2>7, <4>1, <4>2 DEF Untouched
      <4> QED BY <2>2, <4>3, UntouchedStep DEF Taking
    <3> QED BY <3>1, <3>2
  <2>9. \A x \in Dev \ {d} : KeptFor(x, entry, entry')
    <3>1. \A x \in Entry \ {e} : entry'[x] = ent[x]
        BY <2>2 DEF Taking
    <3>2. ent[e].key[1] = d
        BY <1>3, <1>6
    <3>3. \A x \in Dev \ {d} : KeptFor(x, ent, entry')
        BY <3>1, <3>2, OthersKept
    <3> QED BY <3>3, KeptChain
  <2>10. PICK jn \in JobRec : jn = [j EXCEPT !.slot = e]
    <3>1. [j EXCEPT !.slot = e] \in JobRec
        BY <1>6 DEF JobRec
    <3> QED BY <3>1
  <2>11. jn.slot = e /\ jn.dev = d /\ jn.trk = j.trk /\ NoJob \in JobRec
      BY <2>10, JobForm DEF JobRec
  <2>12. PICK c : c = [trk |-> j.trk, slot |-> e]
      OBVIOUS
  <2>13. c \in CurRec /\ CurOK(c, d) /\ c.trk = j.trk /\ c.slot = e /\ NoCurrent \in CurRec
         /\ CurOK(NoCurrent, d)
      BY <1>3, <2>12 DEF CurRec, CurOK, NoCurrent
  <2>14. /\ job' \in [Dev \cup Ra -> JobRec] /\ job'[d] = (IF w = 1 \/ j.ahead THEN jn ELSE NoJob)
         /\ \A t \in (Dev \cup Ra) \ {d} : job'[t] = job[t]
    <3>1. job' = [job EXCEPT ![d] = IF w = 1 \/ j.ahead THEN jn ELSE NoJob]
        BY <2>0, <2>10
    <3> QED BY <1>1, <2>11, <3>1
  <2>15. /\ current' \in [Dev -> CurRec] /\ current'[d] = (IF w = 1 THEN NoCurrent ELSE c)
         /\ \A x \in Dev \ {d} : current'[x] = current[x]
    <3>1. current' = [current EXCEPT ![d] = IF w = 1 THEN NoCurrent ELSE c]
        BY <2>0, <2>12
    <3> QED BY <1>1, <2>13, <3>1
  <2>16. /\ pc' \in [Dev \cup Ra -> IoPc \cup RaPc]
         /\ pc'[d] = (IF w = 1 THEN "iowait" ELSE IF j.ahead THEN "ahead" ELSE "run")
         /\ pc'[d] \in IoPc /\ pc'[d] \in {"iowait", "ahead", "run"}
         /\ \A t \in (Dev \cup Ra) \ {d} : pc'[t] = pc[t]
      BY <1>1, <2>0 DEF IoPc
  <2>17. IoOnly(d)
    <3>1. CurOK(current'[d], d)
        BY <2>13, <2>15
    <3>2. \A x \in Dev \ {d} : SameExt(cckd[x], cckd'[x])
        BY <2>7 DEF SameExt
    <3> QED BY <1>4, <2>0, <2>6, <2>7, <2>8, <2>9, <2>14, <2>15, <2>16, <3>1, <3>2 DEF IoOnly
  <2>18. IoOK(d)'
    <3>1. entry'[e].key = k /\ "ACTIVE" \in entry'[e].flag /\ entry'[e].flag \cap IoBusy = ent[e].flag \cap IoBusy
        BY <1>6, <2>2 DEF Taking
    <3>2. Uses(d, j.trk, e)'
        BY <1>2, <3>1 DEF Uses
    <3>3. cckd'[d].ioactive /\ Running(d)'
        BY <1>5, <2>6, <2>7, <2>16 DEF Running
    <3>4. CASE w = 1
      <4>1. pc'[d] = "iowait" /\ job'[d] = jn /\ current'[d] = NoCurrent
          BY <2>14, <2>15, <2>16, <3>4
      <4> QED BY <2>11, <3>2, <3>3, <4>1 DEF IoOK
    <3>5. CASE w = 0
      <4>1. current'[d] = c /\ pc'[d] \in {"ahead", "run"} /\ (pc'[d] = "ahead" => job'[d] = jn)
          BY <2>14, <2>15, <2>16, <3>5
      <4>2. entry'[e].flag \cap IoBusy = {}
          BY <1>6, <3>1, <3>5
      <4>3. "WRITING" \notin entry'[e].flag
          BY <4>2 DEF IoBusy
      <4> QED BY <2>11, <2>13, <3>2, <3>3, <4>1, <4>2, <4>3 DEF IoOK
    <3> QED BY <3>4, <3>5
  <2>19. WaitersCounted(d)'
    <3>1. cckd'[d].iowaiters = w + IfSo(cmd[d] = "wait")
        BY <1>5, <1>6, <2>4, <2>6, <2>7 DEF IfSo
    <3>2. cmd'[d] = cmd[d] /\ w = IfSo(pc'[d] \in {"startwait", "iowait"})
        BY <1>6, <2>16 DEF IfSo
    <3> QED BY <3>1, <3>2 DEF WaitersCounted
  <2> QED BY <2>17, <2>18, <2>19, IoStep
<1>7. ASSUME current' = [current EXCEPT ![d] = NoCurrent], UNCHANGED <<cckd, iocond>>,
             EntriesOK(entry'), SameMarks(entry, entry'), \A x \in Dev \ {d} : KeptFor(x, entry, entry'),
             NEW jn \in JobRec, job' = [job EXCEPT ![d] = jn], jn.dev = d, jn.trk = j.trk,
             NEW p \in {"ahead", "load", "flush"}, pc' = [pc EXCEPT ![d] = p],
             p # "flush" => Uses(d, j.trk, jn.slot)' /\ "WRITING" \notin entry'[jn.slot].flag
      PROVE  Inv'
  <2>1. WriteParts'
    <3>1. Untouched
        BY <1>7 DEF Untouched
    <3> QED BY <3>1, UntouchedStep
  <2>2. /\ job' \in [Dev \cup Ra -> JobRec] /\ job'[d] = jn
        /\ \A t \in (Dev \cup Ra) \ {d} : job'[t] = job[t]
      BY <1>1, <1>7
  <2>3. /\ current' \in [Dev -> CurRec] /\ current'[d] = NoCurrent /\ CurOK(NoCurrent, d)
        /\ \A x \in Dev \ {d} : current'[x] = current[x]
    <3>1. NoCurrent \in CurRec
        BY DEF NoCurrent, CurRec
    <3> QED BY <1>1, <1>7, <3>1 DEF CurOK
  <2>4. /\ pc' \in [Dev \cup Ra -> IoPc \cup RaPc] /\ pc'[d] = p /\ pc'[d] \in IoPc
        /\ \A t \in (Dev \cup Ra) \ {d} : pc'[t] = pc[t]
      BY <1>1, <1>7 DEF IoPc
  <2>5. IoOnly(d)
    <3>1. \A x \in Dev \ {d} : SameExt(cckd[x], cckd'[x])
        BY <1>7 DEF SameExt
    <3> QED BY <1>1, <1>4, <1>7, <2>1, <2>2, <2>3, <2>4, <3>1 DEF IoOnly
  <2>6. IoOK(d)'
      BY <1>5, <1>7, <2>2, <2>3, <2>4 DEF IoOK, Running
  <2>7. WaitersCounted(d)'
      BY <1>5, <1>7, <2>4 DEF WaitersCounted, IfSo
  <2> QED BY <2>5, <2>6, <2>7, IoStep
<1>8. CASE \E e \in Holding(k, ent) :
              LET busy == ent[e].flag \cap IoBusy # {}
                  taken == "WRITE" \in ent[e].flag
                  n == cckd[d].wrpending - (IF taken THEN 1 ELSE 0)
              IN
              /\ job' = [job EXCEPT ![d] = IF d \in Ra \/ busy \/ j.ahead THEN [j EXCEPT !.slot = e] ELSE NoJob]
              /\ entry' = [ent EXCEPT ![e].flag = Activated(@) \cup (IF busy THEN {"IOWAIT"} ELSE {})]
              /\ cckd' = [cckd EXCEPT ![d].wrpending = n, ![d].iowaiters = @ + (IF busy THEN 1 ELSE 0)]
              /\ iocond' = [iocond EXCEPT ![d] = (IF taken /\ cckd[d].iowaiters > 0 /\ n = 0 THEN {} ELSE @)
                                                   \cup (IF busy THEN {"io"} ELSE {})]
              /\ current' = [current EXCEPT ![d] = IF busy THEN NoCurrent ELSE [trk |-> j.trk, slot |-> e]]
              /\ pc' = [pc EXCEPT ![d] = IF busy THEN "iowait" ELSE IF j.ahead THEN "ahead" ELSE "run"]
  <2>1. PICK e \in Holding(k, ent) :
              LET busy == ent[e].flag \cap IoBusy # {}
                  taken == "WRITE" \in ent[e].flag
                  n == cckd[d].wrpending - (IF taken THEN 1 ELSE 0)
              IN
              /\ job' = [job EXCEPT ![d] = IF d \in Ra \/ busy \/ j.ahead THEN [j EXCEPT !.slot = e] ELSE NoJob]
              /\ entry' = [ent EXCEPT ![e].flag = Activated(@) \cup (IF busy THEN {"IOWAIT"} ELSE {})]
              /\ cckd' = [cckd EXCEPT ![d].wrpending = n, ![d].iowaiters = @ + (IF busy THEN 1 ELSE 0)]
              /\ iocond' = [iocond EXCEPT ![d] = (IF taken /\ cckd[d].iowaiters > 0 /\ n = 0 THEN {} ELSE @)
                                                   \cup (IF busy THEN {"io"} ELSE {})]
              /\ current' = [current EXCEPT ![d] = IF busy THEN NoCurrent ELSE [trk |-> j.trk, slot |-> e]]
              /\ pc' = [pc EXCEPT ![d] = IF busy THEN "iowait" ELSE IF j.ahead THEN "ahead" ELSE "run"]
      BY <1>8
  <2>2. PICK w \in {0, 1} : w = 1 <=> ent[e].flag \cap IoBusy # {}
      OBVIOUS
  <2>3. PICK b \in {0, 1} : b = 1 <=> "WRITE" \in ent[e].flag
      OBVIOUS
  <2>4. e \in Entry /\ ent[e].key = k
      BY DEF Holding
  <2>5. Hit(d, j, ent, e, w, b)
    <3>1. iocond' \in [Dev -> SUBSET {"io", "cmd", "gcol"}]
        BY <1>1, <2>1
    <3>2. cckd' = [cckd EXCEPT ![d].wrpending = cckd[d].wrpending - b, ![d].iowaiters = @ + w]
      <4>1. b = (IF "WRITE" \in ent[e].flag THEN 1 ELSE 0)
          BY <2>3
      <4>2. w = (IF ent[e].flag \cap IoBusy # {} THEN 1 ELSE 0)
          BY <2>2
      <4> QED BY <2>1, <4>1, <4>2
    <3>3. job' = [job EXCEPT ![d] = IF w = 1 \/ j.ahead THEN [j EXCEPT !.slot = e] ELSE NoJob]
        BY <1>4, <2>1, <2>2
    <3>4. entry' = [ent EXCEPT ![e].flag = Activated(@) \cup (IF w = 1 THEN {"IOWAIT"} ELSE {})]
        BY <2>1, <2>2
    <3>5. current' = [current EXCEPT ![d] = IF w = 1 THEN NoCurrent ELSE [trk |-> j.trk, slot |-> e]]
        BY <2>1, <2>2
    <3>6. pc' = [pc EXCEPT ![d] = IF w = 1 THEN "iowait" ELSE IF j.ahead THEN "ahead" ELSE "run"]
        BY <2>1, <2>2
    <3> QED BY <3>1, <3>2, <3>3, <3>4, <3>5, <3>6 DEF Hit
  <2> QED BY <1>6, <2>2, <2>3, <2>4, <2>5
<1>9. CASE /\ \E e \in NotBusy(ent) :
                /\ entry' = [ent EXCEPT ![e] = [key |-> k, image |-> 0, flag |-> {"READING"} \cup {"ACTIVE"}]]
                /\ job' = [job EXCEPT ![d] = [j EXCEPT !.slot = e]]
                /\ pc' = [pc EXCEPT ![d] = IF j.ahead THEN "ahead" ELSE "load"]
           /\ current' = [current EXCEPT ![d] = NoCurrent]
           /\ UNCHANGED <<cckd, iocond>>
  <2>1. PICK e \in NotBusy(ent) :
                /\ entry' = [ent EXCEPT ![e] = [key |-> k, image |-> 0, flag |-> {"READING"} \cup {"ACTIVE"}]]
                /\ job' = [job EXCEPT ![d] = [j EXCEPT !.slot = e]]
                /\ pc' = [pc EXCEPT ![d] = IF j.ahead THEN "ahead" ELSE "load"]
      BY <1>9
  <2>2. PICK f \in SUBSET {"ACTIVE"} : f = {"ACTIVE"}
      OBVIOUS
  <2>3. Stolen(ent, entry', e, k, f)
    <3>1. Stolen(ent, Stealing(ent, e, k, f), e, k, f)
        BY <1>3, <2>1, StolenFacts
    <3>2. entry' = Stealing(ent, e, k, f)
        BY <2>1, <2>2 DEF Stealing
    <3> QED BY <3>1, <3>2
  <2>4. PICK jn \in JobRec : jn = [j EXCEPT !.slot = e]
    <3>1. [j EXCEPT !.slot = e] \in JobRec
        BY <2>3 DEF JobRec, Stolen
    <3> QED BY <3>1
  <2>5. jn.slot = e /\ jn.dev = d /\ jn.trk = j.trk
      BY <2>4 DEF JobRec
  <2>6. EntriesOK(entry') /\ SameMarks(entry, entry')
      BY <2>3, SameMarksChain DEF Stolen
  <2>7. \A x \in Dev \ {d} : KeptFor(x, entry, entry')
    <3>1. \A x \in Dev : KeptFor(x, ent, entry')
        BY <2>3, IdleKept DEF Stolen
    <3> QED BY <3>1, KeptChain
  <2>8. Uses(d, j.trk, jn.slot)' /\ "WRITING" \notin entry'[jn.slot].flag
      BY <1>2, <2>2, <2>3, <2>5 DEF Uses, Stolen
  <2>9. PICK p \in {"ahead", "load", "flush"} : p = IF j.ahead THEN "ahead" ELSE "load"
      OBVIOUS
  <2>10. job' = [job EXCEPT ![d] = jn] /\ pc' = [pc EXCEPT ![d] = p]
      BY <2>1, <2>4, <2>9
  <2> QED BY <1>7, <1>9, <2>5, <2>6, <2>7, <2>8, <2>10
<1>10. CASE /\ entry' = ent
            /\ job' = [job EXCEPT ![d] = EnterFlushAll(j)]
            /\ pc' = [pc EXCEPT ![d] = "flush"]
            /\ current' = [current EXCEPT ![d] = NoCurrent]
            /\ UNCHANGED <<cckd, iocond>>
  <2>1. PICK jn \in JobRec : jn = [j EXCEPT !.todo = chain]
    <3>1. [j EXCEPT !.todo = chain] \in JobRec
        BY <1>1 DEF JobRec
    <3> QED BY <3>1
  <2>2. jn.dev = d /\ jn.trk = j.trk
      BY <2>1 DEF JobRec
  <2>3. PICK p \in {"ahead", "load", "flush"} : p = "flush"
      OBVIOUS
  <2>4. job' = [job EXCEPT ![d] = jn] /\ pc' = [pc EXCEPT ![d] = p]
      BY <1>10, <2>1, <2>3 DEF EnterFlushAll
  <2>5. \A x \in Dev \ {d} : KeptFor(x, entry, entry')
      BY <1>10
  <2> QED BY <1>7, <1>10, <2>2, <2>3, <2>4, <2>5
<1> QED BY <1>2, <1>4, <1>8, <1>9, <1>10 DEF Search

LEMMA ReadTrkStep == ASSUME Inv, NEW d \in Dev, NEW t \in Tracks[d], ReadTrk(d, t) PROVE Inv'
<1>1. PICK a \in BOOLEAN : a = (/\ current[d].trk # None /\ current[d].trk > 0
                                /\ t > current[d].trk /\ t <= current[d].trk + 2)
    OBVIOUS
<1>2. PICK j : j = [NoJob EXCEPT !.dev = d, !.trk = t, !.ahead = a]
    OBVIOUS
<1>3. j \in JobRec /\ j.dev = d /\ j.trk = t
    BY <1>2, KeyFacts DEF NoJob, JobRec
<1>4. PICK ent : ent = Deactivated(d)
    OBVIOUS
<1>5. pc[d] = "run" /\ Search(d, j, ent) /\ SignalCache
      /\ UNCHANGED <<file, raq, racond, wrvars, gcol, cmd, chain>>
    BY <1>1, <1>2, <1>4 DEF ReadTrk, ravars
<1>6. /\ EntriesOK(ent) /\ SameMarks(entry, ent)
      /\ \A x \in Dev \ {d} : KeptFor(x, entry, ent)
      /\ \A e \in Entry : ent[e].key = entry[e].key
    BY <1>4, <1>5, DeactivatedFacts
<1>7. cachecond' \subseteq cachecond /\ d \notin cachecond'
    BY <1>5, SignalFacts DEF Inv, Types, ThreadTypes
<1> QED BY <1>3, <1>5, <1>6, <1>7, SearchIo

LEMMA SearchAgainIo == ASSUME Inv, NEW d \in Dev, SearchAgain(d) PROVE Inv'
<1>1. /\ pc[d] = "search" /\ d \notin cachecond /\ Search(d, job[d], entry)
      /\ UNCHANGED <<file, cachecond, raq, racond, wrvars, gcol, cmd, chain>>
    BY DEF SearchAgain, ravars
<1>2. job[d] \in JobRec /\ job[d].dev = d /\ job[d].trk \in Tracks[d]
    BY <1>1 DEF Inv, Types, ThreadTypes, IoOK
<1>3. EntriesOK(entry) /\ SameMarks(entry, entry) /\ \A x \in Dev \ {d} : KeptFor(x, entry, entry)
    BY KeptSame DEF Inv, SameMarks, SameMark
<1> QED BY <1>1, <1>2, <1>3, SearchIo

\* What a step of the readahead thread r leaves alone, in the middle of a job.
RaOnly(r) ==
    /\ UNCHANGED <<file, current, raq, racond, gcol, cmd, chain>>
    /\ WriteParts' /\ WriterTypes' /\ EntriesOK(entry')
    /\ cckd' \in [Dev -> ExtRec] /\ iocond' \in [Dev -> SUBSET {"io", "cmd", "gcol"}]
    /\ pc' \in [Dev \cup Ra -> IoPc \cup RaPc] /\ pc[r] # "rawait" /\ pc'[r] \in RaPc
    /\ job' \in [Dev \cup Ra -> JobRec] /\ job'[r].dev = job[r].dev
    /\ \A x \in Dev : KeptFor(x, entry, entry') /\ SameExt(cckd[x], cckd'[x])
    /\ \A t \in (Dev \cup Ra) \ {r} : pc'[t] = pc[t] /\ job'[t] = job[t]
    /\ cachecond' \subseteq cachecond \cup {r} /\ (r \in cachecond' => pc'[r] = "search")

LEMMA RaStep ==
    ASSUME Inv, NEW r \in Ra, RaOnly(r), RaOK(r)'
    PROVE  Inv'
<1>1. /\ \A s \in Ra \ {r} : pc'[s] = pc[s] /\ job'[s] = job[s]
      /\ \A x \in Dev : pc'[x] = pc[x] /\ job'[x] = job[x]
    BY CckdAssumption DEF RaOnly
<1>2. Threads'
  <2>1. \A d \in Dev : Jobs(d)' = Jobs(d)
      BY <1>1 DEF Jobs, RaOnly
  <2>2. \A d \in Dev : RasCounted(d)'
      BY <2>1 DEF RasCounted, RaOnly, SameExt, Inv, Threads
  <2>3. \A s \in Ra \ {r} : RaOK(s)'
      BY <1>1 DEF RaOK, Inv, Threads
  <2> QED BY <2>2, <2>3 DEF Threads
<1>3. \A x \in Dev : IoOK(x)'
  <2>1. \A x \in Dev : cckd'[x].ioactive = cckd[x].ioactive /\ current'[x] = current[x]
      BY DEF RaOnly, SameExt
  <2> QED BY <1>1, <2>1, IoKept DEF RaOnly
<1>4. Waiters'
    BY <1>1 DEF RaOnly, SameExt, Inv, Waiters, WaitersCounted
<1>5. ThreadTypes'
  <2>1. \A x \in Dev : pc'[x] \in IoPc
      BY <1>1 DEF Inv, Types, ThreadTypes
  <2>2. \A s \in Ra : pc'[s] \in RaPc
      BY <1>1 DEF RaOnly, Inv, Types, ThreadTypes
  <2>3. cachecond' \subseteq {t \in Dev \cup Ra : pc'[t] = "search"}
      BY DEF RaOnly, Inv, Types, ThreadTypes
  <2>4. racond' \subseteq {s \in Ra : pc'[s] = "rawait"}
      BY <1>1 DEF RaOnly, Inv, Types, ThreadTypes
  <2>5. current' \in [Dev -> CurRec] /\ \A x \in Dev : CurOK(current'[x], x)
      BY DEF RaOnly, Inv, Types, ThreadTypes
  <2> QED BY <2>1, <2>2, <2>3, <2>4, <2>5 DEF RaOnly, ThreadTypes
<1>6. DiskTypes' /\ QueueTypes' /\ GcolTypes'
    BY DEF RaOnly, Inv, Types, DiskTypes, QueueTypes, GcolTypes
<1> QED BY <1>2, <1>3, <1>4, <1>5, <1>6 DEF RaOnly, Inv, Types, WriteParts

LEMMA SearchAgainRa == ASSUME Inv, NEW r \in Ra, SearchAgain(r) PROVE Inv'
<1>1. /\ pc[r] = "search" /\ r \notin cachecond /\ Search(r, job[r], entry)
      /\ UNCHANGED <<file, cachecond, raq, racond, wrvars, gcol, cmd, chain>>
    BY DEF SearchAgain, ravars
<1>2. /\ job[r] \in JobRec /\ job[r].dev \in Dev /\ job[r].trk \in UNION {Tracks[x] : x \in Dev}
      /\ job[r].ahead = FALSE
    BY <1>1 DEF Inv, Types, ThreadTypes, Threads, RaOK
<1>3. /\ EntriesOK(entry) /\ cckd \in [Dev -> ExtRec] /\ chain \in SUBSET Dev
      /\ iocond \in [Dev -> SUBSET {"io", "cmd", "gcol"}]
      /\ pc \in [Dev \cup Ra -> IoPc \cup RaPc] /\ job \in [Dev \cup Ra -> JobRec]
      /\ WriterTypes' /\ r \notin Dev
    BY <1>1, CckdAssumption DEF Inv, Types, DiskTypes, ThreadTypes, WriterTypes, wrvars
<1>4. PICK k : k = <<job[r].dev, job[r].trk>>
    OBVIOUS
<1>5. k \in Key
    BY <1>2, <1>4, KeyFacts
<1>6. /\ UNCHANGED <<cckd, current, iocond>>
      /\ \E p \in {"raend", "load", "flush"} : pc' = [pc EXCEPT ![r] = p] /\ (p = "load" => job'[r].slot \in Entry)
      /\ \E n \in JobRec : n.dev = job[r].dev /\ n.trk = job[r].trk /\ n.ahead = FALSE
                             /\ job' = [job EXCEPT ![r] = n]
      /\ \/ entry' = entry
         \/ \E e \in NotBusy(entry) :
              entry' = [entry EXCEPT ![e] = [key |-> k, image |-> 0, flag |-> {"READING"} \cup {}]]
  <2>1. \A e \in Entry : /\ [job[r] EXCEPT !.slot = e] \in JobRec
                         /\ [job[r] EXCEPT !.slot = e].dev = job[r].dev
                         /\ [job[r] EXCEPT !.slot = e].trk = job[r].trk
                         /\ [job[r] EXCEPT !.slot = e].slot = e
                         /\ [job[r] EXCEPT !.slot = e].ahead = FALSE
      BY <1>2 DEF JobRec
  <2>2. CASE \E e \in Holding(k, entry) :
                /\ job' = [job EXCEPT ![r] = [job[r] EXCEPT !.slot = e]]
                /\ pc' = [pc EXCEPT ![r] = "raend"]
                /\ entry' = entry
                /\ UNCHANGED <<cckd, current, iocond>>
      BY <2>1, <2>2 DEF Holding
  <2>3. CASE /\ \E e \in NotBusy(entry) :
                  /\ entry' = [entry EXCEPT ![e] = [key |-> k, image |-> 0, flag |-> {"READING"} \cup {}]]
                  /\ job' = [job EXCEPT ![r] = [job[r] EXCEPT !.slot = e]]
                  /\ pc' = [pc EXCEPT ![r] = IF job[r].ahead THEN "ahead" ELSE "load"]
             /\ UNCHANGED <<cckd, current, iocond>>
    <3>1. PICK e \in NotBusy(entry) :
                  /\ entry' = [entry EXCEPT ![e] = [key |-> k, image |-> 0, flag |-> {"READING"} \cup {}]]
                  /\ job' = [job EXCEPT ![r] = [job[r] EXCEPT !.slot = e]]
                  /\ pc' = [pc EXCEPT ![r] = "load"]
        BY <1>2, <2>3
    <3>2. e \in Entry
        BY DEF NotBusy
    <3>3. job'[r].slot = e
        BY <1>3, <2>1, <3>1, <3>2
    <3> QED BY <2>1, <2>3, <3>1, <3>2, <3>3
  <2>4. CASE /\ entry' = entry /\ job' = [job EXCEPT ![r] = EnterFlushAll(job[r])]
             /\ pc' = [pc EXCEPT ![r] = "flush"]
             /\ UNCHANGED <<cckd, current, iocond>>
    <3>1. PICK n : n = EnterFlushAll(job[r])
        OBVIOUS
    <3>2. n \in JobRec /\ n.dev = job[r].dev /\ n.trk = job[r].trk /\ n.ahead = FALSE
        BY <1>2, <1>3, <3>1 DEF EnterFlushAll, JobRec
    <3> QED BY <2>4, <3>1, <3>2
  <2> QED BY <1>1, <1>3, <1>4, <2>2, <2>3, <2>4 DEF Search
<1>7. PICK p \in {"raend", "load", "flush"} : pc' = [pc EXCEPT ![r] = p] /\ (p = "load" => job'[r].slot \in Entry)
    BY <1>6
<1>8. PICK n \in JobRec : n.dev = job[r].dev /\ n.trk = job[r].trk /\ n.ahead = FALSE
                          /\ job' = [job EXCEPT ![r] = n]
    BY <1>6
<1>9. EntriesOK(entry') /\ SameMarks(entry, entry') /\ \A x \in Dev : KeptFor(x, entry, entry')
  <2>1. CASE entry' = entry
      BY <1>3, <2>1, KeptSame DEF SameMarks, SameMark
  <2>2. CASE \E e \in NotBusy(entry) :
                entry' = [entry EXCEPT ![e] = [key |-> k, image |-> 0, flag |-> {"READING"} \cup {}]]
    <3>1. PICK f \in SUBSET {"ACTIVE"} : f = {}
        OBVIOUS
    <3>2. PICK e \in NotBusy(entry) : entry' = Stealing(entry, e, k, f)
        BY <2>2, <3>1 DEF Stealing
    <3>3. Stolen(entry, entry', e, k, f)
      <4>1. Stolen(entry, Stealing(entry, e, k, f), e, k, f)
          BY <1>3, <1>5, <3>2, StolenFacts
      <4> QED BY <3>2, <4>1
    <3> QED BY <3>3, IdleKept DEF Stolen
  <2> QED BY <1>6, <2>1, <2>2
<1>10. WriteParts'
  <2>1. Untouched
      BY <1>1, <1>6, <1>9 DEF Untouched
  <2> QED BY <2>1, UntouchedStep
<1>11. /\ job' \in [Dev \cup Ra -> JobRec] /\ job'[r] = n
       /\ \A t \in (Dev \cup Ra) \ {r} : job'[t] = job[t]
    BY <1>3, <1>8
<1>12. /\ pc' \in [Dev \cup Ra -> IoPc \cup RaPc] /\ pc'[r] = p /\ p \in RaPc
       /\ \A t \in (Dev \cup Ra) \ {r} : pc'[t] = pc[t]
    BY <1>3, <1>7 DEF RaPc
<1>13. RaOnly(r)
  <2>1. \A x \in Dev : SameExt(cckd[x], cckd'[x])
      BY <1>6 DEF SameExt
  <2> QED BY <1>1, <1>3, <1>6, <1>8, <1>9, <1>10, <1>11, <1>12, <2>1 DEF RaOnly
<1>14. RaOK(r)'
    BY <1>2, <1>7, <1>8, <1>11, <1>12 DEF RaOK
<1> QED BY <1>13, <1>14, RaStep

\* One device of cckd_flush_cache_all, and cache_wait.
LEMMA FlushNextFacts ==
    ASSUME Inv, NEW t \in Dev \cup Ra, FlushNext(t)
    PROVE  /\ FlushesOnly /\ pc[t] = "flush"
           /\ UNCHANGED <<file, current, iocond, cachecond, raq, racond, gcol, cmd, chain>>
           /\ \/ Done(t)
              \/ \E n \in JobRec, p \in {"space", "flush"} :
                    /\ n.dev = job[t].dev /\ n.trk = job[t].trk /\ n.ahead = job[t].ahead
                    /\ job' = [job EXCEPT ![t] = n] /\ pc' = [pc EXCEPT ![t] = p]
<1>1. job \in [Dev \cup Ra -> JobRec] /\ job[t] \in JobRec
    BY DEF Inv, Types, ThreadTypes
<1>2. /\ pc[t] = "flush"
      /\ UNCHANGED <<file, current, iocond, cachecond, raq, racond, gcol, cmd, chain>>
    BY DEF FlushNext, ravars
<1>3. PICK d \in job[t].todo :
        /\ \/ UNCHANGED <<entry, cckd, wrvars>>
           \/ FlushCache(d, entry) /\ cckd' = [cckd EXCEPT ![d].wrpending = Pending(d, entry)]
        /\ \/ Done(t)
           \/ /\ job' = [job EXCEPT ![t].todo = @ \ {d}]
              /\ pc' = [pc EXCEPT ![t] = IF job[t].todo = {d} THEN "space" ELSE "flush"]
    BY DEF FlushNext
<1>4. d \in Dev
    BY <1>1 DEF JobRec
<1>5. FlushesOnly
    BY <1>3, <1>4, NoFlush, FlushOne
<1>6. PICK n : n = [job[t] EXCEPT !.todo = @ \ {d}]
    OBVIOUS
<1>7. n \in JobRec /\ n.dev = job[t].dev /\ n.trk = job[t].trk /\ n.ahead = job[t].ahead
    BY <1>1, <1>6 DEF JobRec
<1>8. PICK p \in {"space", "flush"} : p = IF job[t].todo = {d} THEN "space" ELSE "flush"
    OBVIOUS
<1>9. \/ Done(t)
      \/ job' = [job EXCEPT ![t] = n] /\ pc' = [pc EXCEPT ![t] = p]
    BY <1>1, <1>3, <1>6, <1>8
<1> QED BY <1>2, <1>5, <1>7, <1>9

LEMMA FlushNextIo == ASSUME Inv, NEW d \in Dev, FlushNext(d) PROVE Inv'
<1>1. /\ FlushesOnly /\ pc[d] = "flush"
      /\ UNCHANGED <<file, current, iocond, cachecond, raq, racond, gcol, cmd, chain>>
      /\ \/ Done(d)
         \/ \E n \in JobRec, p \in {"space", "flush"} :
               /\ n.dev = job[d].dev /\ n.trk = job[d].trk
               /\ job' = [job EXCEPT ![d] = n] /\ pc' = [pc EXCEPT ![d] = p]
    BY FlushNextFacts
<1>2. /\ pc \in [Dev \cup Ra -> IoPc \cup RaPc] /\ job \in [Dev \cup Ra -> JobRec]
      /\ cachecond \subseteq {t \in Dev \cup Ra : pc[t] = "search"}
      /\ IoOK(d) /\ WaitersCounted(d) /\ CurOK(current[d], d) /\ current \in [Dev -> CurRec]
      /\ iocond \in [Dev -> SUBSET {"io", "cmd", "gcol"}]
    BY DEF Inv, Types, DiskTypes, ThreadTypes, Waiters
<1>3. PICK n \in JobRec, p \in {"run", "space", "flush"} :
         /\ p = "run" \/ (n.dev = job[d].dev /\ n.trk = job[d].trk)
         /\ job' = [job EXCEPT ![d] = n] /\ pc' = [pc EXCEPT ![d] = p]
  <2>1. CASE Done(d)
    <3>1. job' = [job EXCEPT ![d] = NoJob] /\ pc' = [pc EXCEPT ![d] = "run"]
        BY <2>1 DEF Done
    <3> QED BY <3>1, JobForm
  <2>2. CASE \E n \in JobRec, p \in {"space", "flush"} :
               /\ n.dev = job[d].dev /\ n.trk = job[d].trk
               /\ job' = [job EXCEPT ![d] = n] /\ pc' = [pc EXCEPT ![d] = p]
      BY <2>2
  <2> QED BY <1>1, <2>1, <2>2
<1>4. /\ job' \in [Dev \cup Ra -> JobRec] /\ job'[d] = n
      /\ pc' \in [Dev \cup Ra -> IoPc \cup RaPc] /\ pc'[d] = p /\ p \in IoPc
      /\ \A t \in (Dev \cup Ra) \ {d} : job'[t] = job[t] /\ pc'[t] = pc[t]
    BY <1>2, <1>3 DEF IoPc
<1>5. IoOnly(d)
  <2>1. d \notin cachecond'
      BY <1>1, <1>2
  <2> QED BY <1>1, <1>2, <1>4, <2>1 DEF IoOnly, FlushesOnly, SameExt
<1>6. IoOK(d)'
  <2>1. Running(d) /\ Running(d)' /\ cckd'[d].ioactive
      BY <1>1, <1>2, <1>4 DEF Running, IoOK, FlushesOnly, SameExt
  <2>2. CurrentOK(d)'
      BY <1>1, <2>1, CurrentKept DEF FlushesOnly
  <2>3. p # "run" => n.dev = d /\ n.trk \in Tracks[d]
      BY <1>1, <1>2, <1>3 DEF IoOK
  <2> QED BY <1>4, <2>1, <2>2, <2>3 DEF IoOK, CurrentOK
<1>7. WaitersCounted(d)'
    BY <1>1, <1>2, <1>4 DEF WaitersCounted, IfSo, FlushesOnly, SameExt
<1> QED BY <1>5, <1>6, <1>7, IoStep

LEMMA FlushNextRa == ASSUME Inv, NEW r \in Ra, FlushNext(r) PROVE Inv'
<1>1. /\ FlushesOnly /\ pc[r] = "flush"
      /\ UNCHANGED <<file, current, iocond, cachecond, raq, racond, gcol, cmd, chain>>
      /\ \/ Done(r)
         \/ \E n \in JobRec, p \in {"space", "flush"} :
               /\ n.dev = job[r].dev /\ n.trk = job[r].trk /\ n.ahead = job[r].ahead
               /\ job' = [job EXCEPT ![r] = n] /\ pc' = [pc EXCEPT ![r] = p]
    BY FlushNextFacts
<1>2. /\ pc \in [Dev \cup Ra -> IoPc \cup RaPc] /\ job \in [Dev \cup Ra -> JobRec] /\ RaOK(r)
      /\ cachecond \subseteq {t \in Dev \cup Ra : pc[t] = "search"} /\ r \notin Dev
      /\ iocond \in [Dev -> SUBSET {"io", "cmd", "gcol"}]
    BY CckdAssumption DEF Inv, Types, DiskTypes, ThreadTypes, Threads
<1>3. PICK n \in JobRec, p \in {"raend", "space", "flush"} :
         /\ n.dev = job[r].dev /\ n.trk = job[r].trk /\ n.ahead = job[r].ahead
         /\ job' = [job EXCEPT ![r] = n] /\ pc' = [pc EXCEPT ![r] = p]
  <2>1. CASE Done(r)
    <3>1. job' = [job EXCEPT ![r] = job[r]] /\ pc' = [pc EXCEPT ![r] = "raend"] /\ job[r] \in JobRec
        BY <1>2, <2>1 DEF Done
    <3> QED BY <3>1
  <2>2. CASE \E n \in JobRec, p \in {"space", "flush"} :
               /\ n.dev = job[r].dev /\ n.trk = job[r].trk /\ n.ahead = job[r].ahead
               /\ job' = [job EXCEPT ![r] = n] /\ pc' = [pc EXCEPT ![r] = p]
      BY <2>2
  <2> QED BY <1>1, <2>1, <2>2
<1>4. /\ job' \in [Dev \cup Ra -> JobRec] /\ job'[r] = n
      /\ pc' \in [Dev \cup Ra -> IoPc \cup RaPc] /\ pc'[r] = p /\ p \in RaPc
      /\ \A t \in (Dev \cup Ra) \ {r} : job'[t] = job[t] /\ pc'[t] = pc[t]
    BY <1>2, <1>3 DEF RaPc
<1>5. RaOnly(r)
  <2>1. r \notin cachecond'
      BY <1>1, <1>2
  <2> QED BY <1>1, <1>2, <1>3, <1>4, <2>1 DEF RaOnly, FlushesOnly
<1>6. RaOK(r)'
    BY <1>1, <1>2, <1>3, <1>4 DEF RaOK
<1> QED BY <1>5, <1>6, RaStep

LEMMA CacheWaitStep == ASSUME Inv, NEW t \in Dev \cup Ra, CacheWait(t) PROVE Inv'
<1>1. /\ pc[t] = "space" /\ pc' = [pc EXCEPT ![t] = "search"] /\ cachecond' \subseteq cachecond \cup {t}
      /\ UNCHANGED <<entry, file, cckd, current, iocond, job, raq, racond, wrvars, gcol, cmd, chain>>
    BY DEF CacheWait, ravars
<1>2. /\ pc \in [Dev \cup Ra -> IoPc \cup RaPc] /\ job \in [Dev \cup Ra -> JobRec]
      /\ current \in [Dev -> CurRec] /\ iocond \in [Dev -> SUBSET {"io", "cmd", "gcol"}]
    BY DEF Inv, Types, DiskTypes, ThreadTypes
<1>3. /\ pc' \in [Dev \cup Ra -> IoPc \cup RaPc] /\ pc'[t] = "search" /\ pc'[t] \in IoPc /\ pc'[t] \in RaPc
      /\ \A x \in (Dev \cup Ra) \ {t} : pc'[x] = pc[x]
    BY <1>1, <1>2 DEF IoPc, RaPc
<1>4. FlushesOnly
    BY <1>1, NoFlush
<1>5. CASE t \in Dev
  <2>1. IoOK(t) /\ WaitersCounted(t) /\ CurOK(current[t], t)
      BY <1>5 DEF Inv, Types, ThreadTypes, Waiters
  <2>2. IoOnly(t)
      BY <1>1, <1>2, <1>3, <1>4, <1>5, <2>1 DEF IoOnly, FlushesOnly, SameExt
  <2>3. IoOK(t)'
      BY <1>1, <1>3, <2>1 DEF IoOK, Running, Uses
  <2>4. WaitersCounted(t)'
      BY <1>1, <1>3, <2>1 DEF WaitersCounted, IfSo
  <2> QED BY <1>5, <2>2, <2>3, <2>4, IoStep
<1>6. CASE t \in Ra
  <2>1. RaOK(t)
      BY <1>6 DEF Inv, Threads
  <2>2. RaOnly(t)
      BY <1>1, <1>2, <1>3, <1>4, <1>6 DEF RaOnly, FlushesOnly
  <2>3. RaOK(t)'
      BY <1>1, <1>3, <2>1 DEF RaOK
  <2> QED BY <1>6, <2>2, <2>3, RaStep
<1> QED BY <1>5, <1>6

\* The image of a track read arrives in its entry.
ReadEnded(t, e, d) ==
    /\ pc[t] = "load" /\ FlushesOnly /\ SignalCache
    /\ entry'[e].key = entry[e].key /\ entry'[e].flag = entry[e].flag \ {"READING"}
    /\ UNCHANGED <<file, cckd, raq, racond, wrvars, gcol, cmd, chain>>
    /\ iocond' \in [Dev -> SUBSET {"io", "cmd", "gcol"}]
    /\ current' = IF t \in Dev THEN [current EXCEPT ![d] = [trk |-> job[t].trk, slot |-> e]] ELSE current
    /\ \/ Done(t)
       \/ \E n \in JobRec :
             /\ n.dev = job[t].dev /\ n.trk = job[t].trk /\ n.ahead = job[t].ahead
             /\ job' = [job EXCEPT ![t] = n] /\ pc' = [pc EXCEPT ![t] = "flush"]

LEMMA ReadEndFacts ==
    ASSUME Inv, NEW t \in Dev \cup Ra, ReadEnd(t), NEW e \in Entry, e = job[t].slot,
           NEW d \in Dev, d = job[t].dev, job[t].trk \in UNION {Tracks[x] : x \in Dev}
    PROVE  ReadEnded(t, e, d)
<1>1. /\ job \in [Dev \cup Ra -> JobRec] /\ job[t] \in JobRec /\ chain \in SUBSET Dev
      /\ EntriesOK(entry) /\ entry \in [Entry -> EntryRec] /\ entry[e] \in EntryRec /\ FlagOK(entry[e])
      /\ file \in [Key -> Image] /\ iocond \in [Dev -> SUBSET {"io", "cmd", "gcol"}]
      /\ WriterTypes
    BY DEF Inv, Types, DiskTypes, ThreadTypes, EntriesOK
<1>2. PICK k : k = <<d, job[t].trk>>
    OBVIOUS
<1>3. k \in Key
    BY <1>2, KeyFacts
<1>4. PICK i \in Image : entry' = [entry EXCEPT ![e].flag = @ \ {"READING"}, ![e].image = i]
    BY <1>1, <1>2, <1>3, ReadImage DEF ReadEnd
<1>5. /\ pc[t] = "load" /\ SignalCache
      /\ entry' = [entry EXCEPT ![e].flag = @ \ {"READING"}, ![e].image = i]
      /\ UNCHANGED <<file, cckd, raq, racond, wrvars, gcol, cmd, chain>>
      /\ current' = IF t \in Dev THEN [current EXCEPT ![d] = [trk |-> job[t].trk, slot |-> e]] ELSE current
      /\ Done(t) \/ (job' = [job EXCEPT ![t] = EnterFlushAll(@)] /\ pc' = [pc EXCEPT ![t] = "flush"])
      /\ iocond' = iocond \/ iocond' = [iocond EXCEPT ![d] = {}]
    BY <1>2, <1>4 DEF ReadEnd, ravars
<1>6. /\ entry' \in [Entry -> EntryRec] /\ entry'[e].key = entry[e].key
      /\ entry'[e].flag = entry[e].flag \ {"READING"}
      /\ \A x \in Entry \ {e} : entry'[x] = entry[x]
  <2>1. PICK r : r = [entry[e] EXCEPT !.flag = @ \ {"READING"}, !.image = i]
      OBVIOUS
  <2>2. r \in EntryRec /\ r.key = entry[e].key /\ r.flag = entry[e].flag \ {"READING"}
    <3>1. PICK f \in SUBSET Flags : f = entry[e].flag \ {"READING"}
        BY <1>1 DEF EntryRec
    <3>2. r = [entry[e] EXCEPT !.flag = f, !.image = i]
        BY <2>1, <3>1
    <3> QED BY <1>1, <3>1, <3>2 DEF EntryRec
  <2>3. entry' = [entry EXCEPT ![e] = r]
      BY <1>1, <1>5, <2>1
  <2> QED BY <1>1, <2>2, <2>3
<1>7. EntriesOK(entry') /\ SameMarks(entry, entry')
  <2>1. FlagOK(entry'[e]) /\ SameMark(entry[e], entry'[e])
      BY <1>1, <1>6 DEF FlagOK, SameMark
  <2> QED BY <1>1, <1>6, <2>1 DEF EntriesOK, SameMarks, SameMark
<1>8. \A x \in Dev : KeptFor(x, entry, entry')
    BY <1>6 DEF KeptFor
<1>9. FlushesOnly
  <2>1. WriteParts'
    <3>1. Untouched
        BY <1>5, <1>7 DEF Untouched
    <3> QED BY <3>1, UntouchedStep
  <2>2. WriterTypes' /\ cckd' \in [Dev -> ExtRec] /\ \A x \in Dev : SameExt(cckd[x], cckd'[x])
      BY <1>1, <1>5 DEF WriterTypes, wrvars, SameExt, Inv, Types, DiskTypes
  <2> QED BY <1>7, <1>8, <2>1, <2>2 DEF FlushesOnly
<1>10. iocond' \in [Dev -> SUBSET {"io", "cmd", "gcol"}]
    BY <1>1, <1>5
<1>11. \/ Done(t)
       \/ \E n \in JobRec :
             /\ n.dev = job[t].dev /\ n.trk = job[t].trk /\ n.ahead = job[t].ahead
             /\ job' = [job EXCEPT ![t] = n] /\ pc' = [pc EXCEPT ![t] = "flush"]
  <2>1. PICK n : n = EnterFlushAll(job[t])
      OBVIOUS
  <2>2. n \in JobRec /\ n.dev = job[t].dev /\ n.trk = job[t].trk /\ n.ahead = job[t].ahead
      BY <1>1, <2>1 DEF EnterFlushAll, JobRec
  <2> QED BY <1>5, <2>1, <2>2
<1> QED BY <1>5, <1>6, <1>9, <1>10, <1>11 DEF ReadEnded

LEMMA ReadEndIo == ASSUME Inv, NEW d \in Dev, ReadEnd(d) PROVE Inv'
<1>1. /\ pc \in [Dev \cup Ra -> IoPc \cup RaPc] /\ job \in [Dev \cup Ra -> JobRec]
      /\ cachecond \subseteq {t \in Dev \cup Ra : pc[t] = "search"}
      /\ IoOK(d) /\ WaitersCounted(d) /\ current \in [Dev -> CurRec]
    BY DEF Inv, Types, ThreadTypes, Waiters
<1>2. pc[d] = "load"
    BY DEF ReadEnd
<1>3. PICK e : e = job[d].slot
    OBVIOUS
<1>4. /\ job[d].dev = d /\ job[d].trk \in Tracks[d] /\ job[d].trk \in UNION {Tracks[x] : x \in Dev}
      /\ Uses(d, job[d].trk, e) /\ e \in Entry /\ "WRITING" \notin entry[e].flag
    BY <1>1, <1>2, <1>3 DEF IoOK, Uses
<1>5. /\ FlushesOnly /\ SignalCache
      /\ entry'[e].key = entry[e].key /\ entry'[e].flag = entry[e].flag \ {"READING"}
      /\ UNCHANGED <<file, cckd, raq, racond, wrvars, gcol, cmd, chain>>
      /\ iocond' \in [Dev -> SUBSET {"io", "cmd", "gcol"}]
      /\ current' = [current EXCEPT ![d] = [trk |-> job[d].trk, slot |-> e]]
      /\ \/ Done(d)
         \/ \E n \in JobRec :
               /\ n.dev = job[d].dev /\ n.trk = job[d].trk
               /\ job' = [job EXCEPT ![d] = n] /\ pc' = [pc EXCEPT ![d] = "flush"]
  <2>1. d \in Dev \cup Ra /\ e = job[d].slot /\ d = job[d].dev
      BY <1>3, <1>4
  <2>2. ReadEnded(d, e, d)
      BY <1>4, <2>1, ReadEndFacts
  <2> QED BY <2>2 DEF ReadEnded
<1>6. PICK n \in JobRec, p \in {"run", "flush"} :
         /\ p = "run" \/ (n.dev = job[d].dev /\ n.trk = job[d].trk)
         /\ job' = [job EXCEPT ![d] = n] /\ pc' = [pc EXCEPT ![d] = p]
  <2>1. CASE Done(d)
    <3>1. job' = [job EXCEPT ![d] = NoJob] /\ pc' = [pc EXCEPT ![d] = "run"]
        BY <2>1 DEF Done
    <3> QED BY <3>1, JobForm
  <2> QED BY <1>5, <2>1
<1>7. /\ job' \in [Dev \cup Ra -> JobRec] /\ job'[d] = n
      /\ pc' \in [Dev \cup Ra -> IoPc \cup RaPc] /\ pc'[d] = p /\ p \in IoPc
      /\ \A t \in (Dev \cup Ra) \ {d} : job'[t] = job[t] /\ pc'[t] = pc[t]
    BY <1>1, <1>6 DEF IoPc
<1>8. PICK c : c = [trk |-> job[d].trk, slot |-> e]
    OBVIOUS
<1>9. c \in CurRec /\ CurOK(c, d) /\ c.trk = job[d].trk /\ c.slot = e
    BY <1>4, <1>8, KeyFacts DEF CurRec, CurOK
<1>10. current' \in [Dev -> CurRec] /\ current'[d] = c /\ \A x \in Dev \ {d} : current'[x] = current[x]
    BY <1>1, <1>5, <1>8, <1>9
<1>11. IoOnly(d)
  <2>1. cachecond' \subseteq cachecond /\ d \notin cachecond'
      BY <1>1, <1>2, <1>5, SignalFacts
  <2> QED BY <1>5, <1>7, <1>9, <1>10, <2>1 DEF IoOnly, FlushesOnly, SameExt
<1>12. IoOK(d)'
  <2>1. Uses(d, c.trk, c.slot)' /\ entry'[c.slot].flag \cap IoBusy = {}
      BY <1>4, <1>5, <1>9 DEF Uses, IoBusy
  <2>2. Running(d)' /\ cckd'[d].ioactive
      BY <1>1, <1>2, <1>5, <1>7 DEF Running, IoOK
  <2>3. p # "run" => n.dev = d /\ n.trk \in Tracks[d]
      BY <1>4, <1>6
  <2> QED BY <1>7, <1>10, <2>1, <2>2, <2>3 DEF IoOK
<1>13. WaitersCounted(d)'
    BY <1>1, <1>2, <1>5, <1>7 DEF WaitersCounted, IfSo
<1> QED BY <1>11, <1>12, <1>13, IoStep

LEMMA ReadEndRa == ASSUME Inv, NEW r \in Ra, ReadEnd(r) PROVE Inv'
<1>1. /\ pc \in [Dev \cup Ra -> IoPc \cup RaPc] /\ job \in [Dev \cup Ra -> JobRec] /\ RaOK(r)
      /\ cachecond \subseteq {t \in Dev \cup Ra : pc[t] = "search"} /\ r \notin Dev
    BY CckdAssumption DEF Inv, Types, ThreadTypes, Threads
<1>2. pc[r] = "load"
    BY DEF ReadEnd
<1>3. /\ job[r].dev \in Dev /\ job[r].trk \in UNION {Tracks[x] : x \in Dev} /\ job[r].slot \in Entry
      /\ job[r].ahead = FALSE
    BY <1>1, <1>2 DEF RaOK
<1>4. /\ FlushesOnly /\ SignalCache
      /\ UNCHANGED <<file, cckd, raq, racond, wrvars, gcol, cmd, chain>>
      /\ iocond' \in [Dev -> SUBSET {"io", "cmd", "gcol"}]
      /\ current' = current
      /\ \/ Done(r)
         \/ \E n \in JobRec :
               /\ n.dev = job[r].dev /\ n.trk = job[r].trk /\ n.ahead = job[r].ahead
               /\ job' = [job EXCEPT ![r] = n] /\ pc' = [pc EXCEPT ![r] = "flush"]
    BY <1>1, <1>3, ReadEndFacts DEF ReadEnded
<1>5. PICK n \in JobRec, p \in {"raend", "flush"} :
         /\ n.dev = job[r].dev /\ n.trk = job[r].trk /\ n.ahead = job[r].ahead
         /\ job' = [job EXCEPT ![r] = n] /\ pc' = [pc EXCEPT ![r] = p]
  <2>1. CASE Done(r)
    <3>1. job' = [job EXCEPT ![r] = job[r]] /\ pc' = [pc EXCEPT ![r] = "raend"] /\ job[r] \in JobRec
        BY <1>1, <2>1 DEF Done
    <3> QED BY <3>1
  <2> QED BY <1>4, <2>1
<1>6. /\ job' \in [Dev \cup Ra -> JobRec] /\ job'[r] = n
      /\ pc' \in [Dev \cup Ra -> IoPc \cup RaPc] /\ pc'[r] = p /\ p \in RaPc
      /\ \A t \in (Dev \cup Ra) \ {r} : job'[t] = job[t] /\ pc'[t] = pc[t]
    BY <1>1, <1>5 DEF RaPc
<1>7. RaOnly(r)
  <2>1. cachecond' \subseteq cachecond /\ r \notin cachecond'
      BY <1>1, <1>2, <1>4, SignalFacts
  <2> QED BY <1>2, <1>4, <1>5, <1>6, <2>1 DEF RaOnly, FlushesOnly
<1>8. RaOK(r)'
    BY <1>3, <1>5, <1>6 DEF RaOK
<1> QED BY <1>7, <1>8, RaStep

LEMMA IoWaitWokenStep == ASSUME Inv, NEW d \in Dev, IoWaitWoken(d) PROVE Inv'
<1>1. /\ pc \in [Dev \cup Ra -> IoPc \cup RaPc] /\ job \in [Dev \cup Ra -> JobRec]
      /\ cachecond \subseteq {t \in Dev \cup Ra : pc[t] = "search"} /\ EntriesOK(entry)
      /\ cckd \in [Dev -> ExtRec] /\ cckd[d] \in ExtRec
      /\ iocond \in [Dev -> SUBSET {"io", "cmd", "gcol"}] /\ WriterTypes
      /\ IoOK(d) /\ WaitersCounted(d) /\ current \in [Dev -> CurRec] /\ CurOK(current[d], d)
    BY DEF Inv, Types, DiskTypes, ThreadTypes, Waiters
<1>2. /\ pc[d] = "iowait"
      /\ UNCHANGED <<file, cachecond, raq, racond, wrvars, gcol, cmd, chain>>
    BY DEF IoWaitWoken, ravars
<1>3. PICK e : e = job[d].slot
    OBVIOUS
<1>4. /\ job[d].dev = d /\ job[d].trk \in Tracks[d] /\ Uses(d, job[d].trk, e)
      /\ e \in Entry /\ entry[e].key # None /\ "ACTIVE" \in entry[e].flag /\ "WRITE" \notin entry[e].flag
  <2>1. job[d].dev = d /\ job[d].trk \in Tracks[d] /\ Uses(d, job[d].trk, e)
      BY <1>1, <1>2, <1>3 DEF IoOK
  <2>2. e \in Entry /\ "ACTIVE" \in entry[e].flag
      BY <2>1 DEF Uses
  <2>3. FlagOK(entry[e])
      BY <1>1, <2>2 DEF EntriesOK
  <2> QED BY <2>1, <2>2, <2>3 DEF FlagOK
<1>5. cckd[d].ioactive = TRUE /\ cckd[d].iowaiters = 1 + IfSo(cmd[d] = "wait")
    BY <1>1, <1>2 DEF IoOK, Running, WaitersCounted, IfSo, ExtRec
<1>6. CASE entry[e].flag \cap IoBusy # {}
  <2>1. /\ entry' = [entry EXCEPT ![e].flag = @ \cup {"IOWAIT"}]
        /\ iocond' = [iocond EXCEPT ![d] = @ \cup {"io"}]
        /\ UNCHANGED <<cckd, current, pc, job>>
      BY <1>3, <1>6 DEF IoWaitWoken, iovars
  <2>2. Raised(entry, entry', e, "IOWAIT")
    <3>1. PICK f : f = "IOWAIT"
        OBVIOUS
    <3>2. Raised(entry, WithFlag(entry, e, entry[e].flag \cup {f}), e, f)
        BY <1>1, <1>4, <3>1, MoreFlags
    <3>3. entry' = WithFlag(entry, e, entry[e].flag \cup {f})
        BY <2>1, <3>1 DEF WithFlag
    <3> QED BY <3>1, <3>2, <3>3
  <2>3. \A x \in Dev : KeptFor(x, entry, entry')
    <3>1. entry'[e].flag \cap IoBusy \subseteq entry[e].flag
        BY <2>2 DEF Raised, IoBusy
    <3> QED BY <2>2, <3>1 DEF KeptFor, Raised
  <2>4. FlushesOnly
    <3>1. WriteParts'
      <4>1. Untouched
          BY <1>2, <2>1, <2>2 DEF Untouched, Raised
      <4> QED BY <4>1, UntouchedStep
    <3> QED BY <1>1, <1>2, <2>1, <2>2, <2>3, <3>1 DEF FlushesOnly, Raised, WriterTypes, wrvars, SameExt
  <2>5. DiskTypes'
      BY <1>1, <1>2, <2>1 DEF Inv, Types, DiskTypes
  <2>6. GcolTypes'
      BY <1>2 DEF Inv, Types, GcolTypes
  <2> QED BY <1>2, <2>1, <2>4, <2>5, <2>6, StillStep DEF Inv, Types, WriteParts
<1>7. CASE entry[e].flag \cap IoBusy = {}
  <2>1. /\ entry' = [entry EXCEPT ![e].flag = @ \ {"IOWAIT"}]
        /\ cckd' = [cckd EXCEPT ![d].iowaiters = @ - 1]
        /\ current' = [current EXCEPT ![d] = [trk |-> job[d].trk, slot |-> e]]
        /\ pc' = [pc EXCEPT ![d] = IF job[d].ahead THEN "ahead" ELSE "run"]
        /\ job' = IF job[d].ahead THEN job ELSE [job EXCEPT ![d] = NoJob]
        /\ UNCHANGED iocond
      BY <1>3, <1>7 DEF IoWaitWoken
  <2>2. PICK f \in SUBSET {"ACTIVE", "READING", "IOWAIT"} : f = {"IOWAIT"}
      OBVIOUS
  <2>3. Lessened(entry, entry', e, f)
    <3>1. Lessened(entry, WithFlag(entry, e, entry[e].flag \ f), e, f)
        BY <1>1, <1>4, LessFlags
    <3>2. entry' = WithFlag(entry, e, entry[e].flag \ f)
        BY <2>1, <2>2 DEF WithFlag
    <3> QED BY <3>1, <3>2
  <2>4. \A x \in Dev : KeptFor(x, entry, entry')
      BY <2>2, <2>3 DEF KeptFor, Lessened
  <2>5. PICK m \in Int : m = cckd[d].iowaiters - 1
      BY <1>1 DEF ExtRec
  <2>6. PICK n : n = [cckd[d] EXCEPT !.iowaiters = m]
      OBVIOUS
  <2>7. n \in ExtRec /\ n.iowaiters = m /\ n.wrpending = cckd[d].wrpending /\ n.ioactive = cckd[d].ioactive
        /\ n.ras = cckd[d].ras
      BY <1>1, <2>6 DEF ExtRec
  <2>8. cckd' \in [Dev -> ExtRec] /\ cckd'[d] = n /\ \A x \in Dev \ {d} : cckd'[x] = cckd[x]
    <3>1. cckd' = [cckd EXCEPT ![d] = n]
        BY <1>1, <2>1, <2>5, <2>6
    <3> QED BY <1>1, <2>7, <3>1, ExtForm
  <2>9. WriteParts'
    <3>1. Untouched
        BY <1>2, <2>3, <2>7, <2>8 DEF Untouched, Lessened
    <3> QED BY <3>1, UntouchedStep
  <2>10. PICK c : c = [trk |-> job[d].trk, slot |-> e]
      OBVIOUS
  <2>11. c \in CurRec /\ CurOK(c, d) /\ c.trk = job[d].trk /\ c.slot = e
      BY <1>4, <2>10, KeyFacts DEF CurRec, CurOK
  <2>12. current' \in [Dev -> CurRec] /\ current'[d] = c /\ \A x \in Dev \ {d} : current'[x] = current[x]
      BY <1>1, <2>1, <2>10, <2>11
  <2>13. /\ pc' \in [Dev \cup Ra -> IoPc \cup RaPc] /\ pc'[d] \in {"ahead", "run"} /\ pc'[d] \in IoPc
         /\ pc'[d] = "ahead" => job' = job
         /\ \A t \in (Dev \cup Ra) \ {d} : pc'[t] = pc[t]
      BY <1>1, <2>1 DEF IoPc
  <2>14. job' \in [Dev \cup Ra -> JobRec] /\ \A t \in (Dev \cup Ra) \ {d} : job'[t] = job[t]
      BY <1>1, <2>1, JobForm
  <2>15. IoOnly(d)
    <3>1. \A x \in Dev \ {d} : SameExt(cckd[x], cckd'[x])
        BY <2>8 DEF SameExt
    <3>2. WriterTypes' /\ EntriesOK(entry') /\ d \notin cachecond'
        BY <1>1, <1>2, <2>3 DEF WriterTypes, wrvars, Lessened
    <3> QED BY <1>1, <1>2, <2>1, <2>4, <2>7, <2>8, <2>9, <2>11, <2>12, <2>13, <2>14, <3>1, <3>2 DEF IoOnly
  <2>16. IoOK(d)'
    <3>1. Uses(d, c.trk, e)' /\ entry'[e].flag \cap IoBusy = {}
        BY <1>4, <1>7, <2>2, <2>3, <2>11 DEF Uses, Lessened
    <3>2. "WRITING" \notin entry'[e].flag
        BY <3>1 DEF IoBusy
    <3> QED BY <1>3, <1>4, <1>5, <2>7, <2>8, <2>11, <2>12, <2>13, <3>1, <3>2 DEF IoOK, Running
  <2>17. WaitersCounted(d)'
      BY <1>2, <1>5, <2>5, <2>7, <2>8, <2>13 DEF WaitersCounted, IfSo
  <2> QED BY <2>15, <2>16, <2>17, IoStep
<1> QED BY <1>6, <1>7

-----------------------------------------------------------------------------
(* The readahead queue *)

LEMMA ScheduleRaFacts ==
    ASSUME NEW pcs \in [Dev \cup Ra -> IoPc \cup RaPc], ScheduleRa(pcs) \/ (pc' = pcs /\ UNCHANGED racond)
    PROVE  /\ pc' \in [Dev \cup Ra -> IoPc \cup RaPc] /\ racond' \subseteq racond
           /\ \A d \in Dev : pc'[d] = pcs[d]
           /\ \A r \in Ra : pc'[r] = pcs[r] \/ (pcs[r] = "none" /\ pc'[r] = "ratop")
<1>1. racond' \subseteq racond /\ (pc' = pcs \/ \E r \in Ra : pcs[r] = "none" /\ pc' = [pcs EXCEPT ![r] = "ratop"])
  <2>1. CASE pc' = pcs /\ UNCHANGED racond
      BY <2>1
  <2>2. CASE ScheduleRa(pcs)
    <3>1. CASE {r \in Ra : pcs[r] = "rawait"} # {}
        BY <2>2, <3>1 DEF ScheduleRa
    <3>2. CASE {r \in Ra : pcs[r] = "rawait"} = {}
        BY <2>2, <3>2 DEF ScheduleRa
    <3> QED BY <3>1, <3>2
  <2> QED BY <2>1, <2>2
<1>2. CASE pc' = pcs
    BY <1>1, <1>2
<1>3. ASSUME NEW r \in Ra, pcs[r] = "none", pc' = [pcs EXCEPT ![r] = "ratop"]
      PROVE  /\ pc' \in [Dev \cup Ra -> IoPc \cup RaPc]
             /\ \A d \in Dev : pc'[d] = pcs[d]
             /\ \A s \in Ra : pc'[s] = pcs[s] \/ (pcs[s] = "none" /\ pc'[s] = "ratop")
    BY <1>3, CckdAssumption DEF RaPc
<1> QED BY <1>1, <1>2, <1>3

\* A step that changes no entry, and nothing else that a flush would.
LEMMA StillParts ==
    ASSUME Inv, UNCHANGED <<entry, wrvars>>, \A x \in Dev : cckd'[x].wrpending = cckd[x].wrpending
    PROVE  WriteParts' /\ WriterTypes' /\ EntriesOK(entry') /\ \A x \in Dev : KeptFor(x, entry, entry')
<1>1. Untouched
    BY DEF Untouched, SameMarks, SameMark
<1>2. WriterTypes'
    BY DEF Inv, Types, WriterTypes, wrvars
<1>3. EntriesOK(entry') /\ \A x \in Dev : KeptFor(x, entry, entry')
    BY KeptSame DEF Inv
<1> QED BY <1>1, <1>2, <1>3, UntouchedStep

LEMMA RaNextStep == ASSUME Inv, NEW r \in Ra, RaNext(r) PROVE Inv'
<1>1. /\ pc \in [Dev \cup Ra -> IoPc \cup RaPc] /\ job \in [Dev \cup Ra -> JobRec]
      /\ (\A d \in Dev : pc[d] \in IoPc) /\ (\A s \in Ra : pc[s] \in RaPc)
      /\ cachecond \subseteq {t \in Dev \cup Ra : pc[t] = "search"}
      /\ racond \subseteq {s \in Ra : pc[s] = "rawait"}
      /\ cckd \in [Dev -> ExtRec] /\ raq \in Seq(Key) /\ Len(raq) <= RaQueue /\ RaQueue \in Nat
      /\ (\A s \in Ra : RaOK(s)) /\ (\A d \in Dev : RasCounted(d)) /\ Waiters /\ r \notin Dev
    BY CckdAssumption DEF Inv, Types, DiskTypes, ThreadTypes, QueueTypes, Threads
<1>2. /\ pc[r] = "ratop" \/ (pc[r] = "rawait" /\ r \notin racond)
      /\ UNCHANGED <<entry, file, current, iocond, cachecond, wrvars, gcol, cmd, chain>>
    BY DEF RaNext
<1>3. job[r].dev = None /\ job[r].ahead = FALSE
    BY <1>1, <1>2 DEF RaOK
<1>4. /\ pc' \in [Dev \cup Ra -> IoPc \cup RaPc] /\ (\A d \in Dev : pc'[d] = pc[d])
      /\ \A s \in Ra \ {r} : pc'[s] = pc[s] \/ (pc[s] = "none" /\ pc'[s] = "ratop")
      /\ racond' \subseteq {s \in Ra : pc'[s] = "rawait"}
      /\ raq' \in Seq(Key) /\ Len(raq') <= RaQueue
      /\ \/ UNCHANGED <<job, cckd>> /\ pc'[r] \in {"ratop", "rawait"}
         \/ /\ raq # <<>>
            /\ cckd' = [cckd EXCEPT ![Head(raq)[1]].ras = @ + 1]
            /\ job' = [job EXCEPT ![r] = [NoJob EXCEPT !.dev = Head(raq)[1], !.trk = Head(raq)[2]]]
            /\ pc'[r] = "search"
  <2>1. CASE raq = <<>>
    <3>1. /\ pc' = [pc EXCEPT ![r] = "rawait"] /\ racond' = racond \cup {r}
          /\ UNCHANGED <<raq, job, cckd>>
        BY <2>1 DEF RaNext
    <3> QED BY <1>1, <3>1 DEF RaPc
  <2>2. CASE raq # <<>>
    <3>1. PICK p \in {"ratop", "search"} :
              /\ raq' = Tail(raq)
              /\ ScheduleRa([pc EXCEPT ![r] = p]) \/ (pc' = [pc EXCEPT ![r] = p] /\ UNCHANGED racond)
              /\ \/ p = "ratop" /\ UNCHANGED <<job, cckd>>
                 \/ /\ p = "search"
                    /\ cckd' = [cckd EXCEPT ![Head(raq)[1]].ras = @ + 1]
                    /\ job' = [job EXCEPT ![r] = [NoJob EXCEPT !.dev = Head(raq)[1], !.trk = Head(raq)[2]]]
        BY <2>2 DEF RaNext
    <3>2. PICK pcs : pcs = [pc EXCEPT ![r] = p]
        OBVIOUS
    <3>3. /\ pcs \in [Dev \cup Ra -> IoPc \cup RaPc] /\ pcs[r] = p
          /\ \A t \in (Dev \cup Ra) \ {r} : pcs[t] = pc[t]
        BY <1>1, <3>2 DEF RaPc
    <3>4. /\ pc' \in [Dev \cup Ra -> IoPc \cup RaPc] /\ racond' \subseteq racond
          /\ \A d \in Dev : pc'[d] = pcs[d]
          /\ \A s \in Ra : pc'[s] = pcs[s] \/ (pcs[s] = "none" /\ pc'[s] = "ratop")
      <4>1. ScheduleRa(pcs) \/ (pc' = pcs /\ UNCHANGED racond)
          BY <3>1, <3>2
      <4> QED BY <3>3, <4>1, ScheduleRaFacts
    <3>5. raq' \in Seq(Key) /\ Len(raq') <= RaQueue
      <4>1. Tail(raq) \in Seq(Key) /\ Len(Tail(raq)) = Len(raq) - 1 /\ Len(raq) \in Nat
          BY <1>1, <2>2
      <4> QED BY <1>1, <3>1, <4>1
    <3>6. racond' \subseteq {s \in Ra : pc'[s] = "rawait"}
        BY <1>1, <1>2, <3>3, <3>4
    <3> QED BY <1>1, <2>2, <3>1, <3>3, <3>4, <3>5, <3>6
  <2> QED BY <2>1, <2>2
<1>5. ThreadTypes' /\ Threads' /\ cckd' \in [Dev -> ExtRec]
      /\ \A x \in Dev : /\ cckd'[x].ioactive = cckd[x].ioactive /\ cckd'[x].iowaiters = cckd[x].iowaiters
                        /\ cckd'[x].wrpending = cckd[x].wrpending /\ job'[x] = job[x]
  <2>1. /\ current' \in [Dev -> CurRec] /\ (\A d \in Dev : CurOK(current'[d], d) /\ pc'[d] \in IoPc)
      BY <1>1, <1>2, <1>4 DEF Inv, Types, ThreadTypes
  <2>2. \A s \in Ra : pc'[s] \in RaPc
      BY <1>1, <1>4 DEF RaPc
  <2>3. cachecond' \subseteq {t \in Dev \cup Ra : pc'[t] = "search"}
    <3> SUFFICES ASSUME NEW t \in cachecond PROVE t \in Dev \cup Ra /\ pc'[t] = "search"
        BY <1>2
    <3>1. t \in Dev \cup Ra /\ pc[t] = "search"
        BY <1>1
    <3> QED BY <1>2, <1>4, <3>1
  <2>4. CASE UNCHANGED <<job, cckd>> /\ pc'[r] \in {"ratop", "rawait"}
    <3>1. \A d \in Dev : Jobs(d)' = Jobs(d) /\ RasCounted(d)'
        BY <1>1, <2>4 DEF Jobs, RasCounted
    <3>2. \A s \in Ra : RaOK(s)'
        BY <1>1, <1>3, <1>4, <2>4 DEF RaOK
    <3> QED BY <1>1, <1>4, <2>1, <2>2, <2>3, <2>4, <3>1, <3>2 DEF ThreadTypes, Threads
  <2>5. CASE /\ raq # <<>>
             /\ cckd' = [cckd EXCEPT ![Head(raq)[1]].ras = @ + 1]
             /\ job' = [job EXCEPT ![r] = [NoJob EXCEPT !.dev = Head(raq)[1], !.trk = Head(raq)[2]]]
             /\ pc'[r] = "search"
    <3>1. PICK k \in Key : k = Head(raq)
        BY <1>1, <2>5
    <3>2. PICK d \in Dev : d = k[1]
        BY <3>1, KeyFacts
    <3>3. PICK n : n = [NoJob EXCEPT !.dev = d, !.trk = k[2]]
        OBVIOUS
    <3>4. k[2] \in UNION {Tracks[x] : x \in Dev} /\ k[2] \in Nat
        BY <3>1, CckdAssumption DEF Key
    <3>5. n \in JobRec /\ n.dev = d /\ n.trk = k[2] /\ n.ahead = FALSE
        BY <3>3, <3>4 DEF NoJob, JobRec
    <3>6. /\ job' \in [Dev \cup Ra -> JobRec] /\ job'[r] = n
          /\ \A t \in (Dev \cup Ra) \ {r} : job'[t] = job[t]
      <4>1. job' = [job EXCEPT ![r] = n]
          BY <2>5, <3>1, <3>2, <3>3
      <4> QED BY <1>1, <3>5, <4>1
    <3>7. PICK m \in Int : m = cckd[d].ras + 1
        BY <1>1 DEF ExtRec
    <3>8. PICK c : c = [cckd[d] EXCEPT !.ras = m]
        OBVIOUS
    <3>9. /\ c \in ExtRec /\ c.ras = m /\ c.ioactive = cckd[d].ioactive
          /\ c.iowaiters = cckd[d].iowaiters /\ c.wrpending = cckd[d].wrpending
      <4>1. cckd[d] \in ExtRec
          BY <1>1
      <4> QED BY <3>8, <4>1 DEF ExtRec
    <3>10. cckd' \in [Dev -> ExtRec] /\ cckd'[d] = c /\ \A x \in Dev \ {d} : cckd'[x] = cckd[x]
      <4>1. cckd' = [cckd EXCEPT ![d] = c]
          BY <1>1, <2>5, <3>1, <3>2, <3>7, <3>8
      <4> QED BY <1>1, <3>9, <4>1, ExtForm
    <3>11. \A x \in Dev : RasCounted(x)'
      <4>1. \A x \in Dev \ {d} : Jobs(x)' = Jobs(x)
          BY <1>3, <3>5, <3>6, KeyFacts DEF Jobs
      <4>2. Jobs(d)' = Jobs(d) \cup {r} /\ r \notin Jobs(d)
          BY <1>3, <3>5, <3>6, KeyFacts DEF Jobs
      <4>3. IsFiniteSet(Jobs(d)) /\ Cardinality(Jobs(d)) \in Nat
        <5>1. Jobs(d) \in SUBSET Ra
            BY DEF Jobs
        <5> QED BY <5>1, CckdAssumption, FS_Subset, FS_CardinalityType
      <4>4. Cardinality(Jobs(d) \cup {r}) = Cardinality(Jobs(d)) + 1
          BY <4>2, <4>3, FS_AddElement
      <4>5. RasCounted(d)'
          BY <1>1, <3>7, <3>9, <3>10, <4>2, <4>4 DEF RasCounted
      <4> QED BY <1>1, <3>10, <4>1, <4>5 DEF RasCounted
    <3>12. \A s \in Ra : RaOK(s)'
      <4>1. RaOK(r)'
          BY <2>5, <3>4, <3>5, <3>6 DEF RaOK
      <4>2. \A s \in Ra \ {r} : RaOK(s)'
          BY <1>1, <1>4, <3>6 DEF RaOK
      <4> QED BY <4>1, <4>2
    <3> QED BY <1>1, <1>4, <2>1, <2>2, <2>3, <3>6, <3>9, <3>10, <3>11, <3>12 DEF ThreadTypes, Threads
  <2> QED BY <1>4, <2>4, <2>5
<1>6. WriteParts' /\ WriterTypes' /\ EntriesOK(entry') /\ \A x \in Dev : KeptFor(x, entry, entry')
    BY <1>2, <1>5, StillParts
<1>7. \A x \in Dev : IoOK(x)'
    BY <1>2, <1>4, <1>5, <1>6, IoKept
<1>8. Waiters'
    BY <1>1, <1>2, <1>4, <1>5 DEF Waiters, WaitersCounted
<1>9. DiskTypes' /\ GcolTypes' /\ QueueTypes'
    BY <1>2, <1>4, <1>5 DEF Inv, Types, DiskTypes, GcolTypes, QueueTypes
<1> QED BY <1>5, <1>6, <1>7, <1>8, <1>9 DEF Inv, Types, WriteParts

LEMMA RaEndStep == ASSUME Inv, NEW r \in Ra, RaEnd(r) PROVE Inv'
<1>1. /\ pc \in [Dev \cup Ra -> IoPc \cup RaPc] /\ job \in [Dev \cup Ra -> JobRec]
      /\ (\A d \in Dev : pc[d] \in IoPc) /\ (\A s \in Ra : pc[s] \in RaPc)
      /\ cachecond \subseteq {t \in Dev \cup Ra : pc[t] = "search"}
      /\ racond \subseteq {s \in Ra : pc[s] = "rawait"}
      /\ cckd \in [Dev -> ExtRec]
      /\ (\A s \in Ra : RaOK(s)) /\ (\A d \in Dev : RasCounted(d)) /\ Waiters /\ r \notin Dev
    BY CckdAssumption DEF Inv, Types, DiskTypes, ThreadTypes, Threads
<1>2. PICK d : d = job[r].dev
    OBVIOUS
<1>3. /\ pc[r] = "raend" /\ cckd' = [cckd EXCEPT ![d].ras = @ - 1]
      /\ pc' = [pc EXCEPT ![r] = "ratop"] /\ job' = [job EXCEPT ![r] = NoJob]
      /\ UNCHANGED <<entry, file, current, iocond, cachecond, raq, racond, wrvars, gcol, cmd, chain>>
    BY <1>2 DEF RaEnd, ravars
<1>4. d \in Dev
    BY <1>1, <1>2, <1>3 DEF RaOK
<1>5. /\ job' \in [Dev \cup Ra -> JobRec] /\ job'[r] = NoJob
      /\ pc' \in [Dev \cup Ra -> IoPc \cup RaPc] /\ pc'[r] = "ratop"
      /\ \A t \in (Dev \cup Ra) \ {r} : job'[t] = job[t] /\ pc'[t] = pc[t]
    BY <1>1, <1>3, JobForm DEF RaPc
<1>6. PICK m \in Int : m = cckd[d].ras - 1
    BY <1>1, <1>4 DEF ExtRec
<1>7. PICK c : c = [cckd[d] EXCEPT !.ras = m]
    OBVIOUS
<1>8. /\ c \in ExtRec /\ c.ras = m /\ c.ioactive = cckd[d].ioactive
      /\ c.iowaiters = cckd[d].iowaiters /\ c.wrpending = cckd[d].wrpending
  <2>1. cckd[d] \in ExtRec
      BY <1>1, <1>4
  <2> QED BY <1>7, <2>1 DEF ExtRec
<1>9. cckd' \in [Dev -> ExtRec] /\ cckd'[d] = c /\ \A x \in Dev \ {d} : cckd'[x] = cckd[x]
  <2>1. cckd' = [cckd EXCEPT ![d] = c]
      BY <1>1, <1>3, <1>4, <1>6, <1>7
  <2> QED BY <1>1, <1>4, <1>8, <2>1, ExtForm
<1>10. Threads'
  <2>1. \A x \in Dev \ {d} : Jobs(x)' = Jobs(x)
      BY <1>2, <1>5, JobForm, KeyFacts DEF Jobs
  <2>2. Jobs(d)' = Jobs(d) \ {r} /\ r \in Jobs(d)
      BY <1>2, <1>4, <1>5, JobForm, KeyFacts DEF Jobs
  <2>3. IsFiniteSet(Jobs(d)) /\ Cardinality(Jobs(d)) \in Nat
    <3>1. Jobs(d) \in SUBSET Ra
        BY DEF Jobs
    <3> QED BY <3>1, CckdAssumption, FS_Subset, FS_CardinalityType
  <2>4. Cardinality(Jobs(d) \ {r}) = Cardinality(Jobs(d)) - 1
      BY <2>2, <2>3, FS_RemoveElement
  <2>5. RasCounted(d)'
      BY <1>1, <1>4, <1>6, <1>8, <1>9, <2>2, <2>4 DEF RasCounted
  <2>6. \A x \in Dev \ {d} : RasCounted(x)'
      BY <1>1, <1>9, <2>1 DEF RasCounted
  <2>7. \A s \in Ra : RaOK(s)'
    <3>1. RaOK(r)'
        BY <1>5, JobForm DEF RaOK
    <3>2. \A s \in Ra \ {r} : RaOK(s)'
        BY <1>1, <1>5 DEF RaOK
    <3> QED BY <3>1, <3>2
  <2> QED BY <2>5, <2>6, <2>7 DEF Threads
<1>11. \A x \in Dev : /\ cckd'[x].ioactive = cckd[x].ioactive /\ cckd'[x].iowaiters = cckd[x].iowaiters
                      /\ cckd'[x].wrpending = cckd[x].wrpending /\ job'[x] = job[x] /\ pc'[x] = pc[x]
    BY <1>1, <1>5, <1>8, <1>9
<1>12. ThreadTypes'
  <2>1. /\ current' \in [Dev -> CurRec] /\ (\A x \in Dev : CurOK(current'[x], x) /\ pc'[x] \in IoPc)
      BY <1>1, <1>3, <1>11 DEF Inv, Types, ThreadTypes
  <2>2. \A s \in Ra : pc'[s] \in RaPc
      BY <1>1, <1>5 DEF RaPc
  <2>3. cachecond' \subseteq {t \in Dev \cup Ra : pc'[t] = "search"}
      BY <1>1, <1>3, <1>5
  <2>4. racond' \subseteq {s \in Ra : pc'[s] = "rawait"}
      BY <1>1, <1>3, <1>5
  <2> QED BY <1>5, <2>1, <2>2, <2>3, <2>4 DEF ThreadTypes
<1>13. WriteParts' /\ WriterTypes' /\ EntriesOK(entry') /\ \A x \in Dev : KeptFor(x, entry, entry')
    BY <1>3, <1>11, StillParts
<1>14. \A x \in Dev : IoOK(x)'
    BY <1>3, <1>11, <1>13, IoKept
<1>15. Waiters'
    BY <1>1, <1>3, <1>11 DEF Waiters, WaitersCounted
<1>16. DiskTypes' /\ GcolTypes' /\ QueueTypes'
    BY <1>3, <1>9 DEF Inv, Types, DiskTypes, GcolTypes, QueueTypes
<1> QED BY <1>10, <1>12, <1>13, <1>14, <1>15, <1>16 DEF Inv, Types, WriteParts

\* The tracks to read ahead join the queue as far as it goes.
LEMMA QueueGrows ==
    ASSUME Inv, NEW d \in Dev, Readahead(d)
    PROVE  raq' \in Seq(Key) /\ Len(raq') <= RaQueue
<1> DEFINE t == job[d].trk
           wanted == {x \in Tracks[d] : /\ x \in (t + 1)..(t + Ahead)
                                        /\ Holding(<<d, x>>, entry) = {}
                                        /\ <<d, x>> \notin On(raq)}
           room == RaQueue - Len(raq)
           n == IF room <= Cardinality(wanted) THEN room ELSE Cardinality(wanted)
<1>1. /\ raq \in Seq(Key) /\ Len(raq) \in Nat /\ Len(raq) <= RaQueue /\ RaQueue \in Nat /\ Ahead \in Nat
      /\ pc[d] = "ahead" /\ IoOK(d)
    BY CckdAssumption DEF Inv, Types, QueueTypes, Readahead
<1>2. t \in Tracks[d] /\ t \in Nat
    BY <1>1, KeyFacts DEF IoOK
<1>3. Cardinality(wanted) \in Nat
  <2>1. wanted \subseteq (t + 1)..(t + Ahead)
      OBVIOUS
  <2>2. t + 1 \in Int /\ t + Ahead \in Int
      BY <1>1, <1>2
  <2>3. IsFiniteSet((t + 1)..(t + Ahead))
      BY <2>2, FS_Interval
  <2> QED BY <2>1, <2>3, FS_Subset, FS_CardinalityType
<1>4. n \in Nat /\ n <= room
    BY <1>1, <1>3
<1>5. \E new \in FirstOf(wanted, n) : raq' = raq \o [i \in 1..n |-> <<d, new[i]>>]
    BY DEF Readahead
<1>6. wanted \subseteq Tracks[d]
    OBVIOUS
<1> HIDE DEF n, wanted, t
<1>7. PICK new \in [1..n -> wanted] : raq' = raq \o [i \in 1..n |-> <<d, new[i]>>]
    BY <1>5 DEF FirstOf
<1>8. PICK s : s = [i \in 1..n |-> <<d, new[i]>>]
    OBVIOUS
<1>9. s \in Seq(Key) /\ Len(s) = n
  <2>1. \A i \in 1..n : <<d, new[i]>> \in Key
      BY <1>6, <1>7, KeyFacts
  <2>2. s \in [1..n -> Key]
      BY <1>8, <2>1
  <2> QED BY <1>4, <2>2, SeqDef
<1>10. raq' \in Seq(Key) /\ Len(raq') = Len(raq) + Len(s)
    BY <1>1, <1>7, <1>8, <1>9, ConcatProperties
<1> QED BY <1>1, <1>4, <1>9, <1>10 DEF room

LEMMA ReadaheadStep == ASSUME Inv, NEW d \in Dev, Readahead(d) PROVE Inv'
<1>1. /\ pc \in [Dev \cup Ra -> IoPc \cup RaPc] /\ job \in [Dev \cup Ra -> JobRec]
      /\ (\A x \in Dev : pc[x] \in IoPc) /\ (\A s \in Ra : pc[s] \in RaPc)
      /\ cachecond \subseteq {t \in Dev \cup Ra : pc[t] = "search"}
      /\ racond \subseteq {s \in Ra : pc[s] = "rawait"}
      /\ IoOK(d) /\ Waiters /\ Threads /\ Dev \cap Ra = {} /\ CurrentOK(d)
    BY CckdAssumption DEF Inv, Types, ThreadTypes, Threads, IoOK, Running, Readahead, CurrentOK
<1>2. /\ pc[d] = "ahead"
      /\ UNCHANGED <<entry, file, cckd, current, iocond, cachecond, wrvars, gcol, cmd, chain>>
    BY DEF Readahead
<1>3. PICK p \in {"load", "run"} :
         LET pcs == [pc EXCEPT ![d] = p] IN
         /\ ScheduleRa(pcs) \/ (pc' = pcs /\ UNCHANGED racond)
         /\ (p = "load" /\ job' = job) \/ (p = "run" /\ job' = [job EXCEPT ![d] = NoJob])
  <2>1. CASE "READING" \in entry[job[d].slot].flag
      BY <2>1 DEF Readahead
  <2>2. CASE "READING" \notin entry[job[d].slot].flag
      BY <2>2 DEF Readahead
  <2> QED BY <2>1, <2>2
<1>4. PICK pcs : pcs = [pc EXCEPT ![d] = p]
    OBVIOUS
<1>5. /\ pcs \in [Dev \cup Ra -> IoPc \cup RaPc] /\ pcs[d] = p /\ p \in IoPc
      /\ \A t \in (Dev \cup Ra) \ {d} : pcs[t] = pc[t]
    BY <1>1, <1>4 DEF IoPc
<1>6. /\ pc' \in [Dev \cup Ra -> IoPc \cup RaPc] /\ racond' \subseteq racond
      /\ pc'[d] = p /\ (\A x \in Dev \ {d} : pc'[x] = pc[x])
      /\ \A r \in Ra : pc'[r] = pc[r] \/ (pc[r] = "none" /\ pc'[r] = "ratop")
  <2>1. ScheduleRa(pcs) \/ (pc' = pcs /\ UNCHANGED racond)
      BY <1>3, <1>4
  <2>2. /\ pc' \in [Dev \cup Ra -> IoPc \cup RaPc] /\ racond' \subseteq racond
        /\ \A x \in Dev : pc'[x] = pcs[x]
        /\ \A r \in Ra : pc'[r] = pcs[r] \/ (pcs[r] = "none" /\ pc'[r] = "ratop")
      BY <1>5, <2>1, ScheduleRaFacts
  <2> QED BY <1>1, <1>5, <2>2
<1>7. /\ job' \in [Dev \cup Ra -> JobRec] /\ (p = "load" => job'[d] = job[d])
      /\ \A t \in (Dev \cup Ra) \ {d} : job'[t] = job[t]
    BY <1>1, <1>3, JobForm
<1>8. ThreadTypes'
  <2>1. /\ current' \in [Dev -> CurRec] /\ (\A x \in Dev : CurOK(current'[x], x) /\ pc'[x] \in IoPc)
      BY <1>1, <1>2, <1>5, <1>6 DEF Inv, Types, ThreadTypes
  <2>2. \A s \in Ra : pc'[s] \in RaPc
      BY <1>1, <1>6 DEF RaPc
  <2>3. cachecond' \subseteq {t \in Dev \cup Ra : pc'[t] = "search"}
      BY <1>1, <1>2, <1>6
  <2>4. racond' \subseteq {s \in Ra : pc'[s] = "rawait"}
      BY <1>1, <1>6
  <2> QED BY <1>6, <1>7, <2>1, <2>2, <2>3, <2>4 DEF ThreadTypes
<1>9. Threads'
    BY <1>1, <1>2, <1>6, <1>7, ThreadsKept
<1>10. WriteParts' /\ WriterTypes' /\ EntriesOK(entry') /\ \A x \in Dev : KeptFor(x, entry, entry')
    BY <1>2, StillParts
<1>11. IoOK(d)'
  <2>1. CurrentOK(d)' /\ Running(d) /\ Running(d)'
      BY <1>1, <1>2, <1>6 DEF CurrentOK, Uses, Running
  <2> QED BY <1>1, <1>2, <1>6, <1>7, <2>1 DEF IoOK, CurrentOK, Uses
<1>12. \A x \in Dev : IoOK(x)'
  <2>1. \A x \in Dev \ {d} : IoOK(x)'
      BY <1>2, <1>6, <1>7, <1>10, IoKept
  <2> QED BY <1>11, <2>1
<1>13. Waiters'
    BY <1>1, <1>2, <1>6 DEF Waiters, WaitersCounted
<1>14. QueueTypes'
    BY QueueGrows DEF QueueTypes
<1>15. DiskTypes' /\ GcolTypes'
    BY <1>2 DEF Inv, Types, DiskTypes, GcolTypes
<1> QED BY <1>8, <1>9, <1>10, <1>12, <1>13, <1>14, <1>15 DEF Inv, Types, WriteParts

-----------------------------------------------------------------------------
(* The invariant holds *)

LEMMA InitInv == Init => Inv
<1> SUFFICES ASSUME Init PROVE Inv
    OBVIOUS
<1>0. /\ RaQueue \in Nat /\ MaxPending \in Nat /\ MaxImage \in Nat /\ Dev \cap Ra = {}
      /\ NoJob \in JobRec /\ NoCurrent \in CurRec
    BY CckdAssumption, JobForm DEF NoCurrent, CurRec
<1>1. \A e \in Entry : entry[e] = Empty
    BY DEF Init
<1>2. EntriesOK(entry)
  <2>1. Empty \in EntryRec
      BY ImageFacts DEF Empty, EntryRec
  <2>2. entry \in [Entry -> EntryRec]
      BY <2>1 DEF Init
  <2>3. FlagOK(Empty)
      BY DEF FlagOK, Empty
  <2> QED BY <1>1, <2>2, <2>3 DEF EntriesOK
<1>3. \A e \in Entry : entry[e].flag = {} /\ entry[e].key = None
    BY <1>1 DEF Empty
<1>4. DiskTypes
  <2> DEFINE c == [ioactive |-> FALSE, updated |-> FALSE, opened |-> FALSE, merging |-> FALSE,
                   stopping |-> FALSE, iowaiters |-> 0, wrpending |-> 0, ras |-> 0]
  <2>1. c \in ExtRec
      BY DEF ExtRec
  <2>2. cckd = [d \in Dev |-> c]
      BY DEF Init
  <2> HIDE DEF c
  <2>3. cckd \in [Dev -> ExtRec]
      BY <2>1, <2>2
  <2> QED BY <1>0, <2>3, ImageFacts DEF Init, DiskTypes, Cmd
<1>5. /\ \A d \in Dev : pc[d] = "idle" /\ current[d] = NoCurrent /\ cmd[d] = "none"
      /\ \A d \in Dev : cckd[d].ioactive = FALSE /\ cckd[d].iowaiters = 0
      /\ \A d \in Dev : cckd[d].wrpending = 0 /\ cckd[d].ras = 0
      /\ \A r \in Ra : pc[r] = "none" /\ job[r] = NoJob
    BY <1>0 DEF Init
<1>6. ThreadTypes
  <2>1. pc \in [Dev \cup Ra -> IoPc \cup RaPc]
      BY DEF Init, IoPc, RaPc
  <2>2. job \in [Dev \cup Ra -> JobRec] /\ current \in [Dev -> CurRec]
      BY <1>0 DEF Init
  <2> QED BY <1>5, <2>1, <2>2 DEF Init, ThreadTypes, IoPc, RaPc, CurOK
<1>7. QueueTypes
    BY <1>0 DEF Init, QueueTypes
<1>8. WriterTypes
    BY <1>0 DEF Init, WriterTypes, WriterRec
<1>9. GcolTypes
    BY DEF Init, GcolTypes, GcolRec
<1>10. \A d \in Dev : IoOK(d)
    BY <1>5 DEF IoOK, Running
<1>11. Threads
  <2>1. \A d \in Dev : Jobs(d) = {}
      BY <1>5, JobForm, KeyFacts DEF Jobs
  <2>2. \A d \in Dev : RasCounted(d)
      BY <1>5, <2>1, FS_EmptySet DEF RasCounted
  <2> QED BY <1>5, <2>2, JobForm DEF Threads, RaOK
<1>12. WritersOK
  <2>1. \A w \in Writer : writer[w].at = "none" /\ writer[w].slot = None
      BY DEF Init
  <2> QED BY <1>3, <2>1 DEF WritersOK
<1>13. Counted
  <2>1. ToWrite(entry) = {} /\ \A d \in Dev : Marks(d, entry) = {}
      BY <1>3 DEF ToWrite, Marks, IsMarked, Of
  <2>2. Cardinality({}) = 0
      BY FS_EmptySet
  <2>3. wrpending = 0
      BY DEF Init
  <2>4. Cardinality(ToWrite(entry)) = 0 /\ \A d \in Dev : Cardinality(Marks(d, entry)) = 0
      BY <2>1, <2>2
  <2>5. \A d \in Dev : cckd[d].wrpending = Cardinality(Marks(d, entry))
      BY <1>5, <2>4
  <2>6. Cardinality(ToWrite(entry)) <= wrpending
      BY <2>3, <2>4
  <2> QED BY <2>5, <2>6 DEF Counted
<1>14. WritesScheduled
    BY <1>3 DEF WritesScheduled
<1>15. Waiters
    BY <1>5 DEF Waiters, WaitersCounted, IfSo
<1> QED BY <1>2, <1>4, <1>6, <1>7, <1>8, <1>9, <1>10, <1>11, <1>12, <1>13, <1>14, <1>15 DEF Inv, Types

\* Nothing of the invariant refers to anything but the variables.
LEMMA StutterInv == ASSUME Inv, UNCHANGED vars PROVE Inv'
<1>1. /\ UNCHANGED <<entry, cckd, wrvars>> /\ UNCHANGED <<pc, job, current, cachecond, raq, racond, cmd>>
      /\ UNCHANGED <<file, iocond, gcol, chain>>
    BY DEF vars, iovars, ravars
<1>2. FlushesOnly
    BY <1>1, NoFlush
<1>3. DiskTypes' /\ GcolTypes'
    BY <1>1 DEF Inv, Types, DiskTypes, GcolTypes
<1> QED BY <1>1, <1>2, <1>3, StillStep DEF Inv, Types, WriteParts

LEMMA ReadsStep == ASSUME Inv, NEW t \in Dev \cup Ra, Reads(t) PROVE Inv'
<1>1. CASE t \in Dev
    BY <1>1, SearchAgainIo, ReadEndIo, FlushNextIo, CacheWaitStep DEF Reads
<1>2. CASE t \in Ra
    BY <1>2, SearchAgainRa, ReadEndRa, FlushNextRa, CacheWaitStep DEF Reads
<1> QED BY <1>1, <1>2

LEMMA StepInv == Inv /\ [Next]_vars => Inv'
<1> SUFFICES ASSUME Inv, [Next]_vars PROVE Inv'
    OBVIOUS
<1>1. ASSUME NEW d \in Dev,
             \/ StartIo(d) \/ StartWoken(d) \/ Update(d) \/ EndIo(d)
             \/ \E t \in Tracks[d] : ReadTrk(d, t)
             \/ IoWaitWoken(d) \/ Readahead(d)
      PROVE  Inv'
    BY <1>1, StartStep, UpdateStep, EndIoStep, ReadTrkStep, IoWaitWokenStep, ReadaheadStep
<1>2. ASSUME NEW t \in Dev \cup Ra, Reads(t) PROVE Inv'
    BY <1>2, ReadsStep
<1>3. ASSUME NEW r \in Ra, RaNext(r) \/ RaEnd(r) PROVE Inv'
    BY <1>3, RaNextStep, RaEndStep
<1>4. CASE Writers
    BY <1>4, WriterBeginStep, WriterNextStep, WriterEndStep DEF Writers
<1>5. CASE Gcol
    BY <1>5, GcolStep
<1>6. ASSUME NEW d \in Dev, CloseBegin(d) \/ CloseFlush(d) \/ CloseEnd(d) \/ SfFlush(d) \/ SfEnd(d) PROVE Inv'
    BY <1>6, CloseFlushStep, SfFlushStep, OtherCommandStep
<1>7. CASE UNCHANGED vars
    BY <1>7, StutterInv
<1> QED BY <1>1, <1>2, <1>3, <1>4, <1>5, <1>6, <1>7 DEF Next, Commands

LEMMA Invariant == Spec => []Inv
BY InitInv, StepInv, PTL DEF Spec

-----------------------------------------------------------------------------
(* What it says *)

\* The shape of the state: iowaiters, wrpending and ras of a device, which are
\* changed under several locks, stay within the numbers of what they count; an
\* i/o thread and a command wait at most, a write is pending at most for every
\* entry, and as many readaheads are active as there are threads.
THEOREM TypeCorrect == Spec => []TypeOK
<1>1. Inv => TypeOK
  <2> SUFFICES ASSUME Inv PROVE TypeOK
      OBVIOUS
  <2>1. /\ DiskTypes /\ ThreadTypes /\ QueueTypes /\ WriterTypes /\ GcolTypes /\ EntriesOK(entry)
      BY DEF Inv, Types
  <2>2. entry \in [Entry -> EntryRec] /\ job \in [Dev \cup Ra -> JobRec]
      BY <2>1 DEF EntriesOK, ThreadTypes
  <2>3. ASSUME NEW d \in Dev
        PROVE  /\ cckd[d].iowaiters \in 0..2 /\ cckd[d].wrpending \in 0..Cardinality(Entry)
               /\ cckd[d].ras \in 0..Cardinality(Ra)
    <3>1. cckd[d].iowaiters \in 0..2
        BY DEF Inv, Waiters, WaitersCounted, IfSo
    <3>2. Marks(d, entry) \in SUBSET Entry /\ Jobs(d) \in SUBSET Ra
        BY DEF Marks, Of, Jobs
    <3>3. cckd[d].wrpending \in 0..Cardinality(Entry)
        BY <3>2, EntryCount DEF Inv, Counted
    <3>4. cckd[d].ras \in 0..Cardinality(Ra)
      <4>1. /\ IsFiniteSet(Jobs(d)) /\ Cardinality(Jobs(d)) <= Cardinality(Ra)
            /\ Cardinality(Jobs(d)) \in Nat /\ Cardinality(Ra) \in Nat
          BY <3>2, CckdAssumption, FS_Subset, FS_CardinalityType
      <4> QED BY <4>1 DEF Inv, Threads, RasCounted
    <3> QED BY <3>1, <3>3, <3>4
  <2>4. cckd \in [Dev -> [ioactive : BOOLEAN, updated : BOOLEAN, opened : BOOLEAN,
                          merging : BOOLEAN, stopping : BOOLEAN, iowaiters : 0..2,
                          wrpending : 0..Cardinality(Entry), ras : 0..Cardinality(Ra)]]
    <3>1. cckd \in [Dev -> ExtRec]
        BY <2>1 DEF DiskTypes
    <3>2. ASSUME NEW d \in Dev
          PROVE  cckd[d] \in [ioactive : BOOLEAN, updated : BOOLEAN, opened : BOOLEAN,
                          merging : BOOLEAN, stopping : BOOLEAN, iowaiters : 0..2,
                          wrpending : 0..Cardinality(Entry), ras : 0..Cardinality(Ra)]
        BY <2>3, <3>1 DEF ExtRec
    <3> QED BY <3>1, <3>2
  <2>5. \A d \in Dev : current[d] = NoCurrent \/ current[d] \in [trk : Tracks[d], slot : Entry]
      BY <2>1 DEF ThreadTypes, CurOK
  <2> QED BY <2>1, <2>2, <2>4, <2>5 DEF TypeOK, DiskTypes, ThreadTypes, QueueTypes, WriterTypes,
                                        GcolTypes, EntryRec, JobRec, WriterRec, GcolRec, Cmd
<1> QED BY <1>1, Invariant, PTL

\* cckd->wrpending, on which cckddasd_close_device and the sf commands wait, is
\* the number of the device's tracks still to be written, whichever of start,
\* read, flush and writer changed it under which lock; and cckdblk.wrpending,
\* which cckd_writer takes for the work left, is never too small.
THEOREM PendingIsCounted == Spec => []PendingCounted
<1>1. Inv => PendingCounted
  <2> SUFFICES ASSUME Inv PROVE PendingCounted
      OBVIOUS
  <2>1. \A d \in Dev : Marked(d, {"WRITE", "WRITING"}) = Marks(d, entry)
      BY DEF Marked, Marks, IsMarked
  <2>2. {e \in Entry : "WRITE" \in entry[e].flag} = ToWrite(entry)
      BY DEF ToWrite
  <2> QED BY <2>1, <2>2 DEF Inv, Counted, PendingCounted
<1> QED BY <1>1, Invariant, PTL

\* While a write is pending some writer of cckd_writer is on its way to it: no
\* flush signals or creates one in vain.
THEOREM WritesAreScheduled == Spec => []WritesScheduled
<1>1. Inv => WritesScheduled
    BY DEF Inv
<1> QED BY <1>1, Invariant, PTL


-----------------------------------------------------------------------------
(* Who reads an entry *)

Reading(t, e) ==
    /\ e = job[t].slot
    /\ pc[t] = "load" \/ (pc[t] = "ahead" /\ "READING" \in entry[e].flag)

\* An entry being read is read by one thread, and for that thread's track.
ReadersOK ==
    /\ \A t \in Dev \cup Ra : pc[t] = "load" =>
          /\ job[t].slot \in Entry /\ "READING" \in entry[job[t].slot].flag
          /\ entry[job[t].slot].key = <<job[t].dev, job[t].trk>>
    /\ \A e \in Entry : "READING" \in entry[e].flag => \E t \in Dev \cup Ra : Reading(t, e)
    /\ \A t, u \in Dev \cup Ra : \A e \in Entry : Reading(t, e) /\ Reading(u, e) => t = u

\* What the flags of a device say of the command given for it.  From the time a
\* command waits for the device, no readahead is active or begins.
CmdOK(d) ==
    /\ cmd[d] = "none" => ~cckd[d].merging /\ ~cckd[d].stopping
    /\ cmd[d] = "readaheads" => cckd[d].stopping /\ ~cckd[d].merging
    /\ cmd[d] = "wait" => (cckd[d].merging <=> ~cckd[d].stopping)
    /\ cmd[d] \in {"remove", "closed"} => cckd[d].stopping /\ ~cckd[d].merging
    /\ cmd[d] = "shadow" => cckd[d].merging /\ ~cckd[d].stopping
    /\ cmd[d] \in {"wait", "remove", "closed", "shadow"} => cckd[d].ras = 0

Own == Inv /\ ReadersOK /\ \A d \in Dev : CmdOK(d)

\* A step that neither begins nor ends a read.
QuietEntries ==
    \A e \in Entry : /\ "READING" \in entry'[e].flag <=> "READING" \in entry[e].flag
                     /\ "READING" \in entry[e].flag => entry'[e].key = entry[e].key

NotReading(t) == pc[t] # "load" /\ (pc[t] = "ahead" => "READING" \notin entry[job[t].slot].flag)
QuietThreads ==
    \A t \in Dev \cup Ra : \/ pc'[t] = pc[t] /\ job'[t] = job[t]
                           \/ NotReading(t) /\ NotReading(t)'

CmdsStay ==
    /\ cmd' = cmd
    /\ \A d \in Dev : /\ cckd'[d].merging = cckd[d].merging /\ cckd'[d].stopping = cckd[d].stopping
                      /\ cckd'[d].ras = cckd[d].ras

LEMMA ReadersMove ==
    ASSUME Inv, Inv', ReadersOK, QuietEntries,
           \A t \in Dev \cup Ra : \A e \in Entry : Reading(t, e)' <=> Reading(t, e),
           \A r \in Ra : pc'[r] = "load" => job'[r] = job[r]
    PROVE  ReadersOK'
<1>1. /\ Dev \cap Ra = {} /\ \A r \in Ra : pc[r] # "ahead" /\ pc'[r] # "ahead"
      /\ \A r \in Ra : pc'[r] = "load" => job'[r].slot \in Entry
    BY CckdAssumption DEF Inv, Types, ThreadTypes, RaPc, Threads, RaOK
<1>2. ASSUME NEW t \in Dev \cup Ra, pc'[t] = "load"
      PROVE  /\ job'[t].slot \in Entry /\ "READING" \in entry'[job'[t].slot].flag
             /\ entry'[job'[t].slot].key = <<job'[t].dev, job'[t].trk>>
  <2>1. CASE t \in Dev
    <3>1. IoOK(t)'
        BY <2>1 DEF Inv
    <3>2. job'[t].slot \in Entry /\ entry'[job'[t].slot].key = <<job'[t].dev, job'[t].trk>>
        BY <1>2, <3>1 DEF IoOK, Uses
    <3>3. PICK e \in Entry : e = job'[t].slot
        BY <3>2
    <3>4. Reading(t, e)'
        BY <1>2, <3>3 DEF Reading
    <3>5. Reading(t, e)
        BY <3>4
    <3>6. "READING" \in entry[e].flag
        BY <3>5 DEF ReadersOK, Reading
    <3> QED BY <3>2, <3>3, <3>6 DEF QuietEntries
  <2>2. CASE t \in Ra
    <3>1. job'[t] = job[t] /\ job'[t].slot \in Entry
        BY <1>1, <1>2, <2>2
    <3>2. PICK e \in Entry : e = job'[t].slot
        BY <3>1
    <3>3. pc[t] = "load"
      <4>1. Reading(t, e)'
          BY <1>2, <3>2 DEF Reading
      <4>2. Reading(t, e)
          BY <4>1
      <4> QED BY <1>1, <2>2, <4>2 DEF Reading
    <3> QED BY <3>1, <3>3 DEF ReadersOK, QuietEntries
  <2> QED BY <2>1, <2>2
<1>3. \A e \in Entry : "READING" \in entry'[e].flag => \E t \in Dev \cup Ra : Reading(t, e)'
    BY DEF ReadersOK, QuietEntries
<1>4. \A t, u \in Dev \cup Ra : \A e \in Entry : Reading(t, e)' /\ Reading(u, e)' => t = u
    BY DEF ReadersOK
<1> QED BY <1>2, <1>3, <1>4 DEF ReadersOK

LEMMA QuietStep ==
    ASSUME Own, Inv', QuietEntries, QuietThreads, CmdsStay
    PROVE  Own'
<1>1. ASSUME NEW t \in Dev \cup Ra, NEW e \in Entry PROVE Reading(t, e)' <=> Reading(t, e)
  <2>1. CASE pc'[t] = pc[t] /\ job'[t] = job[t]
      BY <2>1 DEF Reading, QuietEntries
  <2>2. CASE NotReading(t) /\ NotReading(t)'
    <3>1. ~Reading(t, e)
        BY <2>2 DEF Reading, NotReading
    <3>2. ~Reading(t, e)'
        BY <2>2 DEF Reading, NotReading
    <3> QED BY <3>1, <3>2
  <2> QED BY <2>1, <2>2 DEF QuietThreads
<1>2. \A r \in Ra : pc'[r] = "load" => job'[r] = job[r]
    BY DEF QuietThreads, NotReading
<1>3. ReadersOK'
    BY <1>1, <1>2, ReadersMove DEF Own
<1>4. \A d \in Dev : CmdOK(d)'
    BY DEF Own, CmdOK, CmdsStay
<1> QED BY <1>3, <1>4 DEF Own

LEMMA SameThreads == ASSUME UNCHANGED <<pc, job>> PROVE QuietThreads
BY DEF QuietThreads

\* An entry whose flags change.
LEMMA QuietFlag ==
    ASSUME NEW e \in Entry, entry \in [Entry -> EntryRec], NEW f,
           "READING" \in f <=> "READING" \in entry[e].flag,
           entry' = WithFlag(entry, e, f)
    PROVE  QuietEntries
BY DEF WithFlag, QuietEntries, EntryRec

LEMMA QuietFlush ==
    ASSUME NEW d \in Dev, NEW ent, EntriesOK(ent), FlushCache(d, ent),
           \A e \in Entry : /\ "READING" \in ent[e].flag <=> "READING" \in entry[e].flag
                            /\ ent[e].key = entry[e].key
    PROVE  QuietEntries
<1>1. entry' = Flushed(d, ent)
    BY DEF FlushCache, Flushed
<1>2. /\ \A e \in Entry : /\ entry'[e].key = ent[e].key
                          /\ entry'[e].flag = IF e \in Dirty(d, ent) THEN {"WRITE"} ELSE ent[e].flag
      /\ \A e \in Dirty(d, ent) : ent[e].flag = {"UPDATED"}
    BY <1>1, FlushedFacts
<1> QED BY <1>2 DEF QuietEntries

\* The extension of a device that changes in nothing a command looks at.
LEMMA CmdsStayFor ==
    ASSUME Inv, NEW d \in Dev, NEW n, cckd' = [cckd EXCEPT ![d] = n], cmd' = cmd,
           n.merging = cckd[d].merging, n.stopping = cckd[d].stopping, n.ras = cckd[d].ras
    PROVE  CmdsStay
BY DEF Inv, Types, DiskTypes, CmdsStay

LEMMA WriterOwn == ASSUME Own, Inv', Writers PROVE Own'
<1>1. /\ entry \in [Entry -> EntryRec] /\ cckd \in [Dev -> ExtRec] /\ WriterTypes /\ EntriesOK(entry)
    BY DEF Own, Inv, Types, DiskTypes, EntriesOK
<1>2. UNCHANGED <<pc, job, cmd>>
    BY DEF Writers, WriterBegin, WriterNext, WriterEnd, iovars
<1>3. CmdsStay
  <2>1. CASE UNCHANGED cckd
      BY <1>2, <2>1 DEF CmdsStay
  <2>2. ASSUME NEW d, cckd' = [cckd EXCEPT ![d].opened = TRUE, ![d].wrpending = @ - 1] PROVE CmdsStay
      BY <1>1, <1>2, <2>2 DEF CmdsStay, ExtRec
  <2> QED BY <2>1, <2>2 DEF Writers, WriterBegin, WriterNext, WriterEnd
<1>4. QuietEntries
  <2>1. CASE UNCHANGED entry
      BY <2>1 DEF QuietEntries
  <2>2. ASSUME NEW e \in Entry, entry' = [entry EXCEPT ![e].flag = (@ \ {"WRITE"}) \cup {"WRITING"}]
        PROVE  QuietEntries
      BY <1>1, <2>2 DEF QuietEntries, EntryRec
  <2>3. ASSUME NEW e, entry' = [entry EXCEPT ![e].flag = @ \ {"WRITING"}]
        PROVE  QuietEntries
      BY <1>1, <2>3 DEF QuietEntries, EntryRec
  <2> QED BY <2>1, <2>2, <2>3 DEF Writers, WriterBegin, WriterNext, WriterEnd
<1> QED BY <1>2, <1>3, <1>4, SameThreads, QuietStep

LEMMA GcolOwn == ASSUME Own, Inv', Gcol PROVE Own'
<1>1. /\ cckd \in [Dev -> ExtRec] /\ EntriesOK(entry)
      /\ gcol.at \in {"collect", "wait"} => gcol.dev \in Dev
    BY DEF Own, Inv, Types, DiskTypes, GcolTypes
<1>2. UNCHANGED <<pc, job, cmd>>
    BY DEF Gcol, GcBegin, GcDevice, GcFlush, GcWoken, iovars
<1>3. \/ UNCHANGED <<entry, cckd>>
      \/ \E d \in Dev : FlushCache(d, entry) /\ cckd' = [cckd EXCEPT ![d].wrpending = Pending(d, entry)]
  <2>1. CASE GcBegin
      BY <2>1 DEF GcBegin
  <2>2. ASSUME NEW d \in Dev, GcDevice(d)
        PROVE  UNCHANGED <<entry, cckd>> \/ (FlushCache(d, entry) /\ cckd' = [cckd EXCEPT ![d].wrpending = Pending(d, entry)])
      BY <2>2 DEF GcDevice
  <2>3. CASE GcFlush
      BY <1>1, <2>3 DEF GcFlush
  <2>4. CASE GcWoken
      BY <2>4 DEF GcWoken
  <2> QED BY <2>1, <2>2, <2>3, <2>4 DEF Gcol
<1>4. CASE UNCHANGED <<entry, cckd>>
    BY <1>2, <1>4, SameThreads, QuietStep DEF QuietEntries, CmdsStay
<1>5. ASSUME NEW d \in Dev, FlushCache(d, entry), cckd' = [cckd EXCEPT ![d].wrpending = Pending(d, entry)]
      PROVE  Own'
  <2>1. QuietEntries
      BY <1>1, <1>5, QuietFlush
  <2>2. CmdsStay
      BY <1>1, <1>2, <1>5 DEF CmdsStay, ExtRec
  <2> QED BY <1>2, <2>1, <2>2, SameThreads, QuietStep
<1> QED BY <1>3, <1>4, <1>5

\* Steps of an i/o thread that is, and remains, no reader.
LEMMA QuietIo ==
    ASSUME Own, Inv', NEW d \in Dev, QuietEntries, CmdsStay,
           NotReading(d), pc'[d] \notin {"load", "ahead"},
           \A t \in (Dev \cup Ra) \ {d} : pc'[t] = pc[t] /\ job'[t] = job[t]
    PROVE  Own'
<1>1. QuietThreads
    BY DEF QuietThreads, NotReading
<1> QED BY <1>1, QuietStep

LEMMA StartOwn == ASSUME Own, Inv', NEW d \in Dev, StartIo(d) \/ StartWoken(d) PROVE Own'
<1>1. /\ cckd \in [Dev -> ExtRec] /\ EntriesOK(entry) /\ entry \in [Entry -> EntryRec]
      /\ pc \in [Dev \cup Ra -> IoPc \cup RaPc]
    BY DEF Own, Inv, Types, DiskTypes, ThreadTypes, EntriesOK
<1>2. /\ pc[d] \in {"idle", "startwait"} /\ UNCHANGED <<job, cmd>>
      /\ \/ pc' = [pc EXCEPT ![d] = "startwait"] \/ pc' = [pc EXCEPT ![d] = "run"] \/ pc' = pc
    BY DEF StartIo, StartWoken, Begin
<1>3. QuietEntries
  <2>1. CASE UNCHANGED entry
      BY <2>1 DEF QuietEntries
  <2>2. ASSUME NEW e, entry' = [entry EXCEPT ![e].flag = Activated(@)] PROVE QuietEntries
      BY <1>1, <2>2 DEF QuietEntries, EntryRec, Activated
  <2> QED BY <2>1, <2>2 DEF StartIo, StartWoken, Begin
<1>4. CmdsStay
  <2>1. CASE UNCHANGED cckd
      BY <1>2, <2>1 DEF CmdsStay
  <2>2. CASE cckd' = [cckd EXCEPT ![d].iowaiters = @ + 1]
      BY <1>1, <1>2, <2>2 DEF CmdsStay, ExtRec
  <2>3. ASSUME NEW m, NEW n, cckd' = [cckd EXCEPT ![d].ioactive = TRUE, ![d].wrpending = m, ![d].iowaiters = n]
        PROVE  CmdsStay
      BY <1>1, <1>2, <2>3 DEF CmdsStay, ExtRec
  <2>4. ASSUME NEW cur, Begin(d, cur) PROVE CmdsStay
    <3> DEFINE b == IF cur.slot # None /\ entry[cur.slot].key = <<d, cur.trk>>
                       /\ entry[cur.slot].flag \cap IoBusy = {} /\ "WRITE" \in entry[cur.slot].flag
                    THEN 1 ELSE 0
               w == IF pc[d] = "startwait" THEN 1 ELSE 0
    <3>1. PICK m : m = cckd[d].wrpending - b
        OBVIOUS
    <3>2. PICK n : n = cckd[d].iowaiters - w
        OBVIOUS
    <3>3. cckd' = [cckd EXCEPT ![d].ioactive = TRUE, ![d].wrpending = m, ![d].iowaiters = n]
        BY <2>4, <3>1, <3>2 DEF Begin
    <3> QED BY <2>3, <3>3
  <2> QED BY <2>1, <2>2, <2>4 DEF StartIo, StartWoken
<1>5. NotReading(d) /\ pc'[d] \notin {"load", "ahead"}
    BY <1>1, <1>2 DEF NotReading
<1>6. \A t \in (Dev \cup Ra) \ {d} : pc'[t] = pc[t] /\ job'[t] = job[t]
    BY <1>1, <1>2
<1> QED BY <1>3, <1>4, <1>5, <1>6, QuietIo

LEMMA UpdateOwn == ASSUME Own, Inv', NEW d \in Dev, Update(d) PROVE Own'
<1>1. /\ cckd \in [Dev -> ExtRec] /\ entry \in [Entry -> EntryRec]
    BY DEF Own, Inv, Types, DiskTypes, EntriesOK
<1>2. UNCHANGED <<pc, job, cmd>> /\ cckd' = [cckd EXCEPT ![d].updated = TRUE]
    BY DEF Update, iovars
<1>3. CmdsStay
    BY <1>1, <1>2 DEF CmdsStay, ExtRec
<1>4. QuietEntries
  <2>1. PICK e : entry' = [entry EXCEPT ![e].flag = @ \cup {"UPDATED"}, ![e].image = Updated(@)]
      BY DEF Update
  <2> QED BY <1>1, <2>1 DEF QuietEntries, EntryRec
<1> QED BY <1>2, <1>3, <1>4, SameThreads, QuietStep

LEMMA QuietDeactivated ==
    ASSUME Inv, NEW d \in Dev
    PROVE  \A e \in Entry : /\ "READING" \in Deactivated(d)[e].flag <=> "READING" \in entry[e].flag
                            /\ Deactivated(d)[e].key = entry[e].key
<1>1. entry \in [Entry -> EntryRec]
    BY DEF Inv, EntriesOK
<1> QED BY <1>1 DEF Deactivated, EntryRec

LEMMA EndIoOwn == ASSUME Own, Inv', NEW d \in Dev, EndIo(d) PROVE Own'
<1>1. /\ cckd \in [Dev -> ExtRec] /\ pc \in [Dev \cup Ra -> IoPc \cup RaPc] /\ EntriesOK(entry)
      /\ pc[d] = "run" /\ pc' = [pc EXCEPT ![d] = "idle"] /\ UNCHANGED <<job, cmd>>
    BY DEF Own, Inv, Types, DiskTypes, ThreadTypes, EndIo
<1>2. EntriesOK(Deactivated(d))
    BY <1>1, DeactivatedFacts DEF Own
<1>3. \A e \in Entry : /\ "READING" \in Deactivated(d)[e].flag <=> "READING" \in entry[e].flag
                       /\ Deactivated(d)[e].key = entry[e].key
    BY QuietDeactivated DEF Own
<1>4. PICK ent : ent = Deactivated(d)
    OBVIOUS
<1>5. QuietEntries
  <2>1. CASE FlushCache(d, ent)
      BY <1>2, <1>3, <1>4, <2>1, QuietFlush
  <2>2. CASE entry' = ent
      BY <1>3, <1>4, <2>2 DEF QuietEntries
  <2> QED BY <1>4, <2>1, <2>2 DEF EndIo
<1>6. CmdsStay
  <2>1. ASSUME NEW m, cckd' = [cckd EXCEPT ![d].ioactive = FALSE, ![d].wrpending = m] PROVE CmdsStay
      BY <1>1, <2>1 DEF CmdsStay, ExtRec
  <2>2. CASE cckd' = [cckd EXCEPT ![d].ioactive = FALSE]
      BY <1>1, <2>2 DEF CmdsStay, ExtRec
  <2> QED BY <2>1, <2>2 DEF EndIo
<1>7. /\ NotReading(d) /\ pc'[d] = "idle"
      /\ \A t \in (Dev \cup Ra) \ {d} : pc'[t] = pc[t] /\ job'[t] = job[t]
    BY <1>1 DEF NotReading
<1> QED BY <1>5, <1>6, <1>7, QuietIo

LEMMA IoWaitOwn == ASSUME Own, Inv', NEW d \in Dev, IoWaitWoken(d) PROVE Own'
<1>1. /\ cckd \in [Dev -> ExtRec] /\ pc \in [Dev \cup Ra -> IoPc \cup RaPc] /\ entry \in [Entry -> EntryRec]
      /\ pc[d] = "iowait" /\ UNCHANGED cmd /\ job \in [Dev \cup Ra -> JobRec]
    BY DEF Own, Inv, Types, DiskTypes, ThreadTypes, EntriesOK, IoWaitWoken
<1>2. PICK e : e = job[d].slot
    OBVIOUS
<1>3. CASE entry[e].flag \cap IoBusy # {}
  <2>1. entry' = [entry EXCEPT ![e].flag = @ \cup {"IOWAIT"}] /\ UNCHANGED <<cckd, pc, job>>
      BY <1>2, <1>3 DEF IoWaitWoken, iovars
  <2>2. QuietEntries
      BY <1>1, <2>1 DEF QuietEntries, EntryRec
  <2>3. CmdsStay
      BY <1>1, <2>1 DEF CmdsStay
  <2> QED BY <2>1, <2>2, <2>3, SameThreads, QuietStep
<1>4. CASE entry[e].flag \cap IoBusy = {}
  <2>1. /\ entry' = [entry EXCEPT ![e].flag = @ \ {"IOWAIT"}]
        /\ cckd' = [cckd EXCEPT ![d].iowaiters = @ - 1]
        /\ pc' = [pc EXCEPT ![d] = IF job[d].ahead THEN "ahead" ELSE "run"]
        /\ job' = IF job[d].ahead THEN job ELSE [job EXCEPT ![d] = NoJob]
      BY <1>2, <1>4 DEF IoWaitWoken
  <2>2. QuietEntries
      BY <1>1, <2>1 DEF QuietEntries, EntryRec
  <2>3. CmdsStay
      BY <1>1, <2>1 DEF CmdsStay, ExtRec
  <2>4. NotReading(d)'
    <3>1. pc'[d] # "load" /\ (pc'[d] = "ahead" => job' = job)
        BY <1>1, <2>1
    <3>2. job' = job => "READING" \notin entry'[job'[d].slot].flag
      <4> SUFFICES ASSUME job' = job PROVE "READING" \notin entry'[e].flag
          BY <1>2
      <4>1. e \in Entry
          BY <1>1, <1>2 DEF Own, Inv, IoOK, Uses
      <4>2. "READING" \notin entry[e].flag
          BY <1>4 DEF IoBusy
      <4> QED BY <2>2, <4>1, <4>2 DEF QuietEntries
    <3> QED BY <3>1, <3>2 DEF NotReading
  <2>5. QuietThreads
    <3>1. NotReading(d)
        BY <1>1 DEF NotReading
    <3>2. \A t \in (Dev \cup Ra) \ {d} : pc'[t] = pc[t] /\ job'[t] = job[t]
        BY <1>1, <2>1
    <3> QED BY <2>4, <3>1, <3>2 DEF QuietThreads
  <2> QED BY <2>2, <2>3, <2>5, QuietStep
<1> QED BY <1>3, <1>4

-----------------------------------------------------------------------------
(* Reads begin and end *)

\* Nobody reads an entry that is not being read.
LEMMA NobodyReads ==
    ASSUME ReadersOK, NEW e \in Entry, "READING" \notin entry[e].flag, NEW t \in Dev \cup Ra
    PROVE  ~Reading(t, e)
BY DEF ReadersOK, Reading

\* An entry that is not busy is stolen by t, which will read it.
Steals(t, e) ==
    /\ "READING" \notin entry[e].flag /\ "READING" \in entry'[e].flag
    /\ \A x \in Entry \ {e} : /\ "READING" \in entry'[x].flag <=> "READING" \in entry[x].flag
                              /\ "READING" \in entry[x].flag => entry'[x].key = entry[x].key
    /\ job'[t].slot = e /\ pc'[t] \in {"load", "ahead"} /\ NotReading(t)
    /\ entry'[e].key = <<job'[t].dev, job'[t].trk>> /\ (t \in Ra => "ACTIVE" \notin entry'[e].flag)
    /\ \A u \in (Dev \cup Ra) \ {t} : pc'[u] = pc[u] /\ job'[u] = job[u]

LEMMA StealStep ==
    ASSUME Own, NEW t \in Dev \cup Ra, NEW e \in Entry, Steals(t, e), CmdsStay, Inv'
    PROVE  Own'
<1>1. \A u \in Dev \cup Ra : ~Reading(u, e)
    BY NobodyReads DEF Own, Steals
<1>2. ASSUME NEW u \in (Dev \cup Ra) \ {t}, NEW x \in Entry PROVE Reading(u, x)' <=> Reading(u, x)
  <2>1. pc'[u] = pc[u] /\ job'[u] = job[u]
      BY DEF Steals
  <2>2. CASE x = e
    <3>1. pc[u] # "load" \/ job[u].slot # e
        BY <1>1 DEF Reading
    <3>2. pc[u] = "ahead" => job[u].slot # e
      <4> SUFFICES ASSUME pc[u] = "ahead", job[u].slot = e PROVE FALSE
          OBVIOUS
      <4>1. u \in Dev /\ IoOK(u)'
          BY CckdAssumption DEF Own, Inv, Types, ThreadTypes, RaPc
      <4>2. entry'[e].key = <<u, job'[u].trk>> /\ "ACTIVE" \in entry'[e].flag
          BY <2>1, <4>1 DEF IoOK, Uses
      <4>3. t \in Dev /\ job'[t].dev = u /\ pc'[t] \in {"load", "ahead"}
          BY <4>2 DEF Steals
      <4>4. job'[t].dev = t
          BY <4>3 DEF Inv, IoOK
      <4> QED BY <4>3, <4>4
    <3> QED BY <1>1, <2>1, <2>2, <3>1, <3>2 DEF Reading
  <2>3. CASE x # e
      BY <2>1, <2>3 DEF Reading, Steals
  <2> QED BY <2>2, <2>3
<1>3. \A x \in Entry : Reading(t, x)' <=> x = e
    BY DEF Reading, Steals
<1>4. \A x \in Entry : ~Reading(t, x)
    BY DEF Reading, Steals, NotReading
<1>5. ASSUME NEW u \in Dev \cup Ra, pc'[u] = "load"
      PROVE  /\ job'[u].slot \in Entry /\ "READING" \in entry'[job'[u].slot].flag
             /\ entry'[job'[u].slot].key = <<job'[u].dev, job'[u].trk>>
  <2>1. CASE u = t
      BY <2>1 DEF Steals
  <2>2. CASE u # t
    <3>1. pc[u] = "load" /\ job'[u] = job[u]
        BY <1>5, <2>2 DEF Steals
    <3>2. PICK x \in Entry : x = job[u].slot
        BY <3>1 DEF Own, ReadersOK
    <3>3. "READING" \in entry[x].flag /\ entry[x].key = <<job[u].dev, job[u].trk>>
        BY <3>1, <3>2 DEF Own, ReadersOK
    <3>4. x # e
        BY <3>3 DEF Steals
    <3> QED BY <3>1, <3>2, <3>3, <3>4 DEF Steals
  <2> QED BY <2>1, <2>2
<1>6. ASSUME NEW x \in Entry, "READING" \in entry'[x].flag PROVE \E u \in Dev \cup Ra : Reading(u, x)'
  <2>1. CASE x = e
      BY <1>3, <2>1
  <2>2. CASE x # e
    <3>1. "READING" \in entry[x].flag
        BY <1>6, <2>2 DEF Steals
    <3>2. PICK u \in Dev \cup Ra : Reading(u, x)
        BY <3>1 DEF Own, ReadersOK
    <3> QED BY <1>2, <1>4, <3>2
  <2> QED BY <2>1, <2>2
<1>7. ASSUME NEW u \in Dev \cup Ra, NEW v \in Dev \cup Ra, NEW x \in Entry, Reading(u, x)', Reading(v, x)'
      PROVE  u = v
  <2>1. CASE x = e
    <3>1. \A w \in (Dev \cup Ra) \ {t} : ~Reading(w, e)'
        BY <1>1, <1>2
    <3> QED BY <1>7, <2>1, <3>1
  <2>2. CASE x # e
    <3>1. u # t /\ v # t
        BY <1>3, <1>7, <2>2
    <3>2. Reading(u, x) /\ Reading(v, x)
        BY <1>2, <1>7, <3>1
    <3> QED BY <3>2 DEF Own, ReadersOK
  <2> QED BY <2>1, <2>2
<1>8. ReadersOK'
    BY <1>5, <1>6, <1>7 DEF ReadersOK
<1>9. \A d \in Dev : CmdOK(d)'
    BY DEF Own, CmdOK, CmdsStay
<1> QED BY <1>8, <1>9 DEF Own

\* What a look-up does to readers: none, or it steals.  
LEMMA SearchOwn ==
    ASSUME Own, Inv', NEW t \in Dev \cup Ra, NEW j \in JobRec, NEW ent, EntriesOK(ent),
           \A e \in Entry : /\ "READING" \in ent[e].flag <=> "READING" \in entry[e].flag
                            /\ ent[e].key = entry[e].key,
           pc[t] \in {"run", "search"}, Search(t, j, ent), j.dev \in Dev, t \in Dev => j.dev = t, cmd' = cmd
    PROVE  Own'
<1>1. /\ cckd \in [Dev -> ExtRec] /\ pc \in [Dev \cup Ra -> IoPc \cup RaPc] /\ ent \in [Entry -> EntryRec]
      /\ job \in [Dev \cup Ra -> JobRec] /\ Dev \cap Ra = {}
    BY CckdAssumption DEF Own, Inv, Types, DiskTypes, ThreadTypes, EntriesOK
<1>2. PICK k : k = <<j.dev, j.trk>>
    OBVIOUS
<1>3. NotReading(t)
    BY DEF NotReading
<1>4. CASE \E e \in Holding(k, ent) :
              /\ IF t \in Ra
                 THEN pc' = [pc EXCEPT ![t] = "raend"] /\ entry' = ent /\ UNCHANGED cckd
                 ELSE /\ entry' = [ent EXCEPT ![e].flag = Activated(@) \cup
                                     (IF ent[e].flag \cap IoBusy # {} THEN {"IOWAIT"} ELSE {})]
                      /\ \E m, n : cckd' = [cckd EXCEPT ![j.dev].wrpending = m, ![j.dev].iowaiters = n]
                      /\ pc' = [pc EXCEPT ![t] = IF ent[e].flag \cap IoBusy # {} THEN "iowait"
                                                 ELSE IF j.ahead THEN "ahead" ELSE "run"]
              /\ (t \in Dev /\ pc'[t] = "ahead") => job'[t].slot = e
              /\ \A u \in (Dev \cup Ra) \ {t} : job'[u] = job[u]
  <2>1. PICK e \in Holding(k, ent) :
              /\ IF t \in Ra
                 THEN pc' = [pc EXCEPT ![t] = "raend"] /\ entry' = ent /\ UNCHANGED cckd
                 ELSE /\ entry' = [ent EXCEPT ![e].flag = Activated(@) \cup
                                     (IF ent[e].flag \cap IoBusy # {} THEN {"IOWAIT"} ELSE {})]
                      /\ \E m, n : cckd' = [cckd EXCEPT ![j.dev].wrpending = m, ![j.dev].iowaiters = n]
                      /\ pc' = [pc EXCEPT ![t] = IF ent[e].flag \cap IoBusy # {} THEN "iowait"
                                                 ELSE IF j.ahead THEN "ahead" ELSE "run"]
              /\ (t \in Dev /\ pc'[t] = "ahead") => job'[t].slot = e
              /\ \A u \in (Dev \cup Ra) \ {t} : job'[u] = job[u]
      BY <1>4
  <2>2. e \in Entry
      BY DEF Holding
  <2>3. QuietEntries
    <3>1. CASE entry' = ent
        BY <3>1 DEF QuietEntries
    <3>2. CASE t \notin Ra
      <4>1. PICK f \in SUBSET {"IOWAIT"} : f = IF ent[e].flag \cap IoBusy # {} THEN {"IOWAIT"} ELSE {}
          OBVIOUS
      <4>2. entry' = [ent EXCEPT ![e].flag = Activated(@) \cup f]
          BY <2>1, <3>2, <4>1
      <4>3. \A x \in Entry : /\ "READING" \in entry'[x].flag <=> "READING" \in ent[x].flag
                             /\ entry'[x].key = ent[x].key
          BY <1>1, <4>2 DEF EntryRec, Activated
      <4> QED BY <4>3 DEF QuietEntries
    <3> QED BY <2>1, <3>1, <3>2
  <2>4. CmdsStay
    <3>1. CASE UNCHANGED cckd
        BY <3>1 DEF CmdsStay
    <3>2. ASSUME NEW m, NEW n, cckd' = [cckd EXCEPT ![j.dev].wrpending = m, ![j.dev].iowaiters = n]
          PROVE  CmdsStay
        BY <1>1, <3>2 DEF CmdsStay, ExtRec
    <3> QED BY <2>1, <3>1, <3>2
  <2>5. QuietThreads
    <3>1. \A u \in (Dev \cup Ra) \ {t} : pc'[u] = pc[u] /\ job'[u] = job[u]
        BY <1>1, <2>1
    <3>2. NotReading(t)'
      <4>1. CASE t \in Ra
        <5>1. pc'[t] = "raend"
            BY <1>1, <2>1, <4>1
        <5> QED BY <5>1 DEF NotReading
      <4>2. CASE t \notin Ra
        <5>1. /\ pc'[t] \in {"iowait", "ahead", "run"}
              /\ pc'[t] = "ahead" => ent[e].flag \cap IoBusy = {} /\ job'[t].slot = e
            BY <1>1, <2>1, <4>2
        <5>2. pc'[t] = "ahead" => "READING" \notin ent[e].flag
            BY <5>1 DEF IoBusy
        <5>3. pc'[t] = "ahead" => "READING" \notin entry'[e].flag
            BY <2>2, <2>3, <5>2 DEF QuietEntries
        <5> QED BY <5>1, <5>3 DEF NotReading
      <4> QED BY <4>1, <4>2
    <3> QED BY <1>3, <3>1, <3>2 DEF QuietThreads
  <2> QED BY <2>3, <2>4, <2>5, QuietStep
<1>5. CASE /\ \E e \in NotBusy(ent) :
                /\ entry' = [ent EXCEPT ![e] =
                                [key |-> k, image |-> 0,
                                 flag |-> {"READING"} \cup (IF t \in Dev THEN {"ACTIVE"} ELSE {})]]
                /\ job' = [job EXCEPT ![t] = [j EXCEPT !.slot = e]]
                /\ pc' = [pc EXCEPT ![t] = IF j.ahead THEN "ahead" ELSE "load"]
           /\ UNCHANGED cckd
  <2>1. PICK e \in NotBusy(ent) :
                /\ entry' = [ent EXCEPT ![e] =
                                [key |-> k, image |-> 0,
                                 flag |-> {"READING"} \cup (IF t \in Dev THEN {"ACTIVE"} ELSE {})]]
                /\ job' = [job EXCEPT ![t] = [j EXCEPT !.slot = e]]
                /\ pc' = [pc EXCEPT ![t] = IF j.ahead THEN "ahead" ELSE "load"]
      BY <1>5
  <2>2. e \in Entry /\ ent[e].flag = {}
      BY DEF NotBusy
  <2>3. PICK jn : jn = [j EXCEPT !.slot = e]
      OBVIOUS
  <2>4. jn.dev = j.dev /\ jn.trk = j.trk /\ jn.slot = e
      BY <2>3 DEF JobRec
  <2>5. PICK r : r = [key |-> k, image |-> 0,
                     flag |-> {"READING"} \cup (IF t \in Dev THEN {"ACTIVE"} ELSE {})]
      OBVIOUS
  <2>6. r.key = k /\ "READING" \in r.flag /\ (t \in Ra => "ACTIVE" \notin r.flag)
      BY <1>1, <2>5
  <2>7. entry'[e] = r /\ \A x \in Entry \ {e} : entry'[x] = ent[x]
      BY <1>1, <2>1, <2>2, <2>5
  <2>8. /\ job'[t] = jn /\ pc'[t] \in {"load", "ahead"}
        /\ \A u \in (Dev \cup Ra) \ {t} : pc'[u] = pc[u] /\ job'[u] = job[u]
      BY <1>1, <2>1, <2>3
  <2>9. Steals(t, e)
      BY <1>2, <1>3, <2>2, <2>4, <2>6, <2>7, <2>8 DEF Steals
  <2>10. CmdsStay
      BY <1>5 DEF CmdsStay
  <2> QED BY <2>2, <2>9, <2>10, StealStep
<1>6. CASE entry' = ent /\ job' = [job EXCEPT ![t] = EnterFlushAll(j)] /\ pc' = [pc EXCEPT ![t] = "flush"]
           /\ UNCHANGED cckd
  <2>1. QuietEntries /\ CmdsStay
      BY <1>6 DEF QuietEntries, CmdsStay
  <2>2. pc'[t] = "flush" /\ \A u \in (Dev \cup Ra) \ {t} : pc'[u] = pc[u] /\ job'[u] = job[u]
      BY <1>1, <1>6
  <2>3. QuietThreads
      BY <1>3, <2>2 DEF QuietThreads, NotReading
  <2> QED BY <2>1, <2>3, QuietStep
<1>7. CASE \E e \in Holding(k, ent) :
              LET busy == ent[e].flag \cap IoBusy # {}
                  taken == "WRITE" \in ent[e].flag
                  n == cckd[j.dev].wrpending - (IF taken THEN 1 ELSE 0)
              IN
              /\ job' = [job EXCEPT ![t] = IF t \in Ra \/ busy \/ j.ahead THEN [j EXCEPT !.slot = e] ELSE NoJob]
              /\ IF t \in Ra
                 THEN pc' = [pc EXCEPT ![t] = "raend"] /\ entry' = ent /\ UNCHANGED cckd
                 ELSE /\ entry' = [ent EXCEPT ![e].flag = Activated(@) \cup (IF busy THEN {"IOWAIT"} ELSE {})]
                      /\ cckd' = [cckd EXCEPT ![j.dev].wrpending = n,
                                              ![j.dev].iowaiters = @ + (IF busy THEN 1 ELSE 0)]
                      /\ pc' = [pc EXCEPT ![t] = IF busy THEN "iowait"
                                                 ELSE IF j.ahead THEN "ahead" ELSE "run"]
  <2>1. PICK e \in Holding(k, ent) :
              LET busy == ent[e].flag \cap IoBusy # {}
                  taken == "WRITE" \in ent[e].flag
                  n == cckd[j.dev].wrpending - (IF taken THEN 1 ELSE 0)
              IN
              /\ job' = [job EXCEPT ![t] = IF t \in Ra \/ busy \/ j.ahead THEN [j EXCEPT !.slot = e] ELSE NoJob]
              /\ IF t \in Ra
                 THEN pc' = [pc EXCEPT ![t] = "raend"] /\ entry' = ent /\ UNCHANGED cckd
                 ELSE /\ entry' = [ent EXCEPT ![e].flag = Activated(@) \cup (IF busy THEN {"IOWAIT"} ELSE {})]
                      /\ cckd' = [cckd EXCEPT ![j.dev].wrpending = n,
                                              ![j.dev].iowaiters = @ + (IF busy THEN 1 ELSE 0)]
                      /\ pc' = [pc EXCEPT ![t] = IF busy THEN "iowait"
                                                 ELSE IF j.ahead THEN "ahead" ELSE "run"]
      BY <1>7
  <2>2. \A u \in (Dev \cup Ra) \ {t} : job'[u] = job[u]
      BY <1>1, <2>1
  <2>3. (t \in Dev /\ pc'[t] = "ahead") => job'[t].slot = e
    <3> SUFFICES ASSUME t \in Dev, pc'[t] = "ahead" PROVE job'[t].slot = e
        OBVIOUS
    <3>1. j.ahead
        BY <1>1, <2>1
    <3>2. job'[t] = [j EXCEPT !.slot = e]
        BY <1>1, <2>1, <3>1
    <3> QED BY <3>2 DEF JobRec
  <2>4. t \notin Ra => \E m, n : cckd' = [cckd EXCEPT ![j.dev].wrpending = m, ![j.dev].iowaiters = n]
    <3> SUFFICES ASSUME t \notin Ra
                 PROVE  \E m, n : cckd' = [cckd EXCEPT ![j.dev].wrpending = m, ![j.dev].iowaiters = n]
        OBVIOUS
    <3>1. PICK m : m = cckd[j.dev].wrpending - (IF "WRITE" \in ent[e].flag THEN 1 ELSE 0)
        OBVIOUS
    <3>2. PICK n : n = cckd[j.dev].iowaiters + (IF ent[e].flag \cap IoBusy # {} THEN 1 ELSE 0)
        OBVIOUS
    <3>3. cckd' = [cckd EXCEPT ![j.dev].wrpending = m, ![j.dev].iowaiters = n]
      <4>1. cckd' = [cckd EXCEPT ![j.dev].wrpending = m,
                                 ![j.dev].iowaiters = @ + (IF ent[e].flag \cap IoBusy # {} THEN 1 ELSE 0)]
          BY <2>1, <3>1
      <4> QED BY <1>1, <3>2, <4>1 DEF ExtRec
    <3> QED BY <3>3
  <2> QED BY <1>4, <2>1, <2>2, <2>3, <2>4
<1> QED BY <1>2, <1>5, <1>6, <1>7 DEF Search

LEMMA ReadTrkOwn == ASSUME Own, Inv', NEW d \in Dev, NEW t \in Tracks[d], ReadTrk(d, t) PROVE Own'
<1>1. PICK a \in BOOLEAN : a = (/\ current[d].trk # None /\ current[d].trk > 0
                                /\ t > current[d].trk /\ t <= current[d].trk + 2)
    OBVIOUS
<1>2. PICK j : j = [NoJob EXCEPT !.dev = d, !.trk = t, !.ahead = a]
    OBVIOUS
<1>3. j \in JobRec /\ j.dev = d /\ j.trk = t
    BY <1>2, KeyFacts DEF NoJob, JobRec
<1>4. PICK ent : ent = Deactivated(d)
    OBVIOUS
<1>5. pc[d] = "run" /\ Search(d, j, ent) /\ cmd' = cmd
    BY <1>1, <1>2, <1>4 DEF ReadTrk
<1>6. EntriesOK(ent)
    BY <1>4, <1>5, DeactivatedFacts DEF Own
<1>7. \A e \in Entry : /\ "READING" \in ent[e].flag <=> "READING" \in entry[e].flag
                       /\ ent[e].key = entry[e].key
    BY <1>4, QuietDeactivated DEF Own
<1> QED BY <1>3, <1>5, <1>6, <1>7, SearchOwn

LEMMA SearchAgainOwn == ASSUME Own, Inv', NEW t \in Dev \cup Ra, SearchAgain(t) PROVE Own'
<1>1. pc[t] = "search" /\ Search(t, job[t], entry) /\ cmd' = cmd
    BY DEF SearchAgain
<1>2. job[t] \in JobRec /\ EntriesOK(entry)
    BY DEF Own, Inv, Types, ThreadTypes
<1>3. job[t].dev \in Dev /\ (t \in Dev => job[t].dev = t)
    BY <1>1 DEF Own, Inv, IoOK, Threads, RaOK
<1> QED BY <1>1, <1>2, <1>3, SearchOwn

LEMMA ReadEndOwn == ASSUME Own, Inv', NEW t \in Dev \cup Ra, ReadEnd(t) PROVE Own'
<1>1. /\ pc \in [Dev \cup Ra -> IoPc \cup RaPc] /\ job \in [Dev \cup Ra -> JobRec]
      /\ entry \in [Entry -> EntryRec] /\ ReadersOK
    BY DEF Own, Inv, Types, ThreadTypes, EntriesOK
<1>2. PICK e : e = job[t].slot
    OBVIOUS
<1>3. pc[t] = "load" /\ UNCHANGED <<cckd, cmd>>
    BY DEF ReadEnd
<1>4. e \in Entry /\ Reading(t, e)
    BY <1>1, <1>2, <1>3 DEF ReadersOK, Reading
<1>5. /\ entry'[e].key = entry[e].key /\ entry'[e].flag = entry[e].flag \ {"READING"}
      /\ \A x \in Entry \ {e} : entry'[x] = entry[x]
  <2>1. PICK i : entry' = [entry EXCEPT ![e].flag = @ \ {"READING"}, ![e].image = i]
      BY <1>2 DEF ReadEnd
  <2>2. entry[e] \in EntryRec
      BY <1>1, <1>4
  <2>3. PICK r : r = [entry[e] EXCEPT !.flag = @ \ {"READING"}, !.image = i]
      OBVIOUS
  <2>4. r.key = entry[e].key /\ r.flag = entry[e].flag \ {"READING"}
      BY <2>2, <2>3 DEF EntryRec
  <2>5. entry' = [entry EXCEPT ![e] = r]
      BY <1>1, <1>4, <2>1, <2>3
  <2> QED BY <1>1, <1>4, <2>4, <2>5
<1>6. /\ pc'[t] \in {"flush", "run", "raend"}
      /\ \A u \in (Dev \cup Ra) \ {t} : pc'[u] = pc[u] /\ job'[u] = job[u]
  <2>1. \/ Done(t)
        \/ job' = [job EXCEPT ![t] = EnterFlushAll(@)] /\ pc' = [pc EXCEPT ![t] = "flush"]
      BY DEF ReadEnd
  <2> QED BY <1>1, <2>1 DEF Done
<1>7. \A x \in Entry : ~Reading(t, x)'
    BY <1>6 DEF Reading
<1>8. ASSUME NEW u \in (Dev \cup Ra) \ {t}, NEW x \in Entry PROVE Reading(u, x)' <=> Reading(u, x)
  <2>1. CASE x = e
    <3>1. ~Reading(u, e)
        BY <1>1, <1>4 DEF ReadersOK
    <3>2. ~Reading(u, e)'
        BY <1>5, <1>6, <3>1 DEF Reading
    <3> QED BY <2>1, <3>1, <3>2
  <2>2. CASE x # e
      BY <1>5, <1>6, <2>2 DEF Reading
  <2> QED BY <2>1, <2>2
<1>9. ASSUME NEW u \in Dev \cup Ra, pc'[u] = "load"
      PROVE  /\ job'[u].slot \in Entry /\ "READING" \in entry'[job'[u].slot].flag
             /\ entry'[job'[u].slot].key = <<job'[u].dev, job'[u].trk>>
  <2>1. u # t /\ pc[u] = "load" /\ job'[u] = job[u]
      BY <1>6, <1>9
  <2>2. PICK x \in Entry : x = job[u].slot
      BY <1>1, <2>1 DEF ReadersOK
  <2>3. "READING" \in entry[x].flag /\ entry[x].key = <<job[u].dev, job[u].trk>> /\ Reading(u, x)
      BY <1>1, <2>1, <2>2 DEF ReadersOK, Reading
  <2>4. x # e
      BY <1>1, <1>4, <2>1, <2>3 DEF ReadersOK
  <2> QED BY <1>5, <2>1, <2>2, <2>3, <2>4
<1>10. ASSUME NEW x \in Entry, "READING" \in entry'[x].flag PROVE \E u \in Dev \cup Ra : Reading(u, x)'
  <2>1. x # e /\ "READING" \in entry[x].flag
      BY <1>5, <1>10
  <2>2. PICK u \in Dev \cup Ra : Reading(u, x)
      BY <1>1, <2>1 DEF ReadersOK
  <2>3. u # t
      BY <1>2, <2>1, <2>2 DEF Reading
  <2> QED BY <1>8, <2>2, <2>3
<1>11. \A u, v \in Dev \cup Ra : \A x \in Entry : Reading(u, x)' /\ Reading(v, x)' => u = v
    BY <1>1, <1>7, <1>8 DEF ReadersOK
<1>12. ReadersOK'
    BY <1>9, <1>10, <1>11 DEF ReadersOK
<1>13. \A d \in Dev : CmdOK(d)'
    BY <1>3 DEF Own, CmdOK
<1> QED BY <1>12, <1>13 DEF Own

LEMMA FlushNextOwn == ASSUME Own, Inv', NEW t \in Dev \cup Ra, FlushNext(t) PROVE Own'
<1>1. /\ pc \in [Dev \cup Ra -> IoPc \cup RaPc] /\ job \in [Dev \cup Ra -> JobRec]
      /\ cckd \in [Dev -> ExtRec] /\ EntriesOK(entry) /\ pc[t] = "flush" /\ cmd' = cmd /\ job[t].todo \subseteq Dev
  <2>1. job[t] \in JobRec
      BY DEF Own, Inv, Types, ThreadTypes
  <2> QED BY <2>1 DEF Own, Inv, Types, DiskTypes, ThreadTypes, FlushNext, JobRec
<1>2. PICK d \in job[t].todo :
        /\ \/ UNCHANGED <<entry, cckd>>
           \/ FlushCache(d, entry) /\ cckd' = [cckd EXCEPT ![d].wrpending = Pending(d, entry)]
        /\ \/ Done(t)
           \/ /\ job' = [job EXCEPT ![t].todo = @ \ {d}]
              /\ pc' = [pc EXCEPT ![t] = IF job[t].todo = {d} THEN "space" ELSE "flush"]
    BY DEF FlushNext
<1>3. d \in Dev
    BY <1>1
<1>4. QuietEntries
    BY <1>1, <1>2, <1>3, QuietFlush DEF QuietEntries
<1>5. CmdsStay
    BY <1>1, <1>2 DEF CmdsStay, ExtRec
<1>6. QuietThreads
  <2>1. /\ pc'[t] \in {"run", "raend", "space", "flush"}
        /\ \A u \in (Dev \cup Ra) \ {t} : pc'[u] = pc[u] /\ job'[u] = job[u]
      BY <1>1, <1>2 DEF Done
  <2> QED BY <1>1, <2>1 DEF QuietThreads, NotReading
<1> QED BY <1>4, <1>5, <1>6, QuietStep

LEMMA CacheWaitOwn == ASSUME Own, Inv', NEW t \in Dev \cup Ra, CacheWait(t) PROVE Own'
<1>1. /\ pc \in [Dev \cup Ra -> IoPc \cup RaPc] /\ pc[t] = "space" /\ pc' = [pc EXCEPT ![t] = "search"]
      /\ UNCHANGED <<entry, cckd, job, cmd>>
    BY DEF Own, Inv, Types, ThreadTypes, CacheWait
<1>2. QuietEntries /\ CmdsStay
    BY <1>1 DEF QuietEntries, CmdsStay
<1>3. QuietThreads
    BY <1>1 DEF QuietThreads, NotReading
<1> QED BY <1>2, <1>3, QuietStep

LEMMA ReadaheadOwn == ASSUME Own, Inv', NEW d \in Dev, Readahead(d) PROVE Own'
<1>1. /\ pc \in [Dev \cup Ra -> IoPc \cup RaPc] /\ job \in [Dev \cup Ra -> JobRec] /\ Dev \cap Ra = {}
      /\ pc[d] = "ahead" /\ UNCHANGED <<entry, cckd, cmd>> /\ \A r \in Ra : pc[r] \in RaPc
    BY CckdAssumption DEF Own, Inv, Types, ThreadTypes, Readahead
<1>2. PICK p \in {"load", "run"} :
         /\ p = "load" <=> "READING" \in entry[job[d].slot].flag
         /\ \/ ScheduleRa([pc EXCEPT ![d] = p])
            \/ pc' = [pc EXCEPT ![d] = p] /\ UNCHANGED racond
         /\ job' = IF p = "load" THEN job ELSE [job EXCEPT ![d] = NoJob]
  <2>1. CASE "READING" \in entry[job[d].slot].flag
      BY <2>1 DEF Readahead
  <2>2. CASE "READING" \notin entry[job[d].slot].flag
      BY <2>2 DEF Readahead
  <2> QED BY <2>1, <2>2
<1>3. PICK pcs : pcs = [pc EXCEPT ![d] = p]
    OBVIOUS
<1>4. pcs \in [Dev \cup Ra -> IoPc \cup RaPc] /\ pcs[d] = p /\ \A t \in (Dev \cup Ra) \ {d} : pcs[t] = pc[t]
    BY <1>1, <1>3 DEF IoPc
<1>5. /\ \A x \in Dev : pc'[x] = pcs[x]
      /\ \A r \in Ra : pc'[r] = pcs[r] \/ (pcs[r] = "none" /\ pc'[r] = "ratop")
  <2>1. ScheduleRa(pcs) \/ (pc' = pcs /\ UNCHANGED racond)
      BY <1>2, <1>3
  <2> QED BY <1>4, <2>1, ScheduleRaFacts
<1>6. \A t \in (Dev \cup Ra) \ {d} : job'[t] = job[t]
    BY <1>1, <1>2
<1>7. ASSUME NEW t \in Dev \cup Ra, NEW e \in Entry PROVE Reading(t, e)' <=> Reading(t, e)
  <2>1. CASE t = d
      BY <1>1, <1>2, <1>4, <1>5, <2>1 DEF Reading
  <2>2. CASE t # d
      BY <1>1, <1>4, <1>5, <1>6, <2>2 DEF Reading
  <2> QED BY <2>1, <2>2
<1>8. \A r \in Ra : pc'[r] = "load" => job'[r] = job[r]
    BY <1>1, <1>6
<1>9. QuietEntries
    BY <1>1 DEF QuietEntries
<1>10. ReadersOK'
    BY <1>7, <1>8, <1>9, ReadersMove DEF Own
<1>11. \A x \in Dev : CmdOK(x)'
    BY <1>1 DEF Own, CmdOK
<1> QED BY <1>10, <1>11 DEF Own

LEMMA RaNextOwn == ASSUME Own, Inv', NEW r \in Ra, RaNext(r) PROVE Own'
<1>1. /\ pc \in [Dev \cup Ra -> IoPc \cup RaPc] /\ job \in [Dev \cup Ra -> JobRec] /\ r \notin Dev
      /\ cckd \in [Dev -> ExtRec] /\ raq \in Seq(Key) /\ UNCHANGED <<entry, cmd>>
      /\ pc[r] \in {"ratop", "rawait"}
    BY CckdAssumption DEF Own, Inv, Types, DiskTypes, ThreadTypes, QueueTypes, RaNext
<1>2. QuietEntries
    BY <1>1 DEF QuietEntries
<1>3. QuietThreads
  <2>1. PICK p \in {"ratop", "rawait", "search"} :
           \/ ScheduleRa([pc EXCEPT ![r] = p])
           \/ pc' = [pc EXCEPT ![r] = p]
      BY DEF RaNext
  <2>2. PICK pcs : pcs = [pc EXCEPT ![r] = p]
      OBVIOUS
  <2>3. /\ pcs \in [Dev \cup Ra -> IoPc \cup RaPc] /\ pcs[r] = p
        /\ \A t \in (Dev \cup Ra) \ {r} : pcs[t] = pc[t]
      BY <1>1, <2>2 DEF RaPc
  <2>4. /\ \A x \in Dev : pc'[x] = pcs[x]
        /\ \A s \in Ra : pc'[s] = pcs[s] \/ (pcs[s] = "none" /\ pc'[s] = "ratop")
    <3>1. CASE ScheduleRa(pcs)
        BY <2>3, <3>1, ScheduleRaFacts
    <3>2. CASE pc' = pcs
        BY <3>2
    <3> QED BY <2>1, <2>2, <3>1, <3>2
  <2>5. \A t \in (Dev \cup Ra) \ {r} : job'[t] = job[t]
      BY <1>1 DEF RaNext
  <2>6. NotReading(r) /\ NotReading(r)'
      BY <1>1, <2>3, <2>4 DEF NotReading
  <2>7. ASSUME NEW t \in (Dev \cup Ra) \ {r}
        PROVE  (pc'[t] = pc[t] /\ job'[t] = job[t]) \/ (NotReading(t) /\ NotReading(t)')
      BY <2>3, <2>4, <2>5 DEF NotReading
  <2> QED BY <2>6, <2>7 DEF QuietThreads
<1>4. ReadersOK'
  <2>1. \A t \in Dev \cup Ra : \A e \in Entry : Reading(t, e)' <=> Reading(t, e)
      BY <1>2, <1>3 DEF QuietThreads, QuietEntries, Reading, NotReading
  <2>2. \A s \in Ra : pc'[s] = "load" => job'[s] = job[s]
      BY <1>3 DEF QuietThreads, NotReading
  <2> QED BY <1>2, <2>1, <2>2, ReadersMove DEF Own
<1>5. \A x \in Dev : CmdOK(x)'
  <2>1. CASE UNCHANGED cckd
      BY <1>1, <2>1 DEF Own, CmdOK
  <2>2. CASE ~UNCHANGED cckd
    <3>1. PICK d : /\ d = Head(raq)[1] /\ raq # <<>> /\ ~cckd[d].stopping /\ ~cckd[d].merging
                   /\ cckd' = [cckd EXCEPT ![d].ras = @ + 1]
        BY <2>2 DEF RaNext
    <3>2. Head(raq) \in Key
        BY <1>1, <3>1
    <3>3. d \in Dev
        BY <3>1, <3>2, KeyFacts
    <3>4. cmd[d] = "none"
        BY <3>1, <3>3 DEF Own, CmdOK, Inv, Types, DiskTypes, Cmd
    <3>5. PICK n : n = [cckd[d] EXCEPT !.ras = @ + 1]
        OBVIOUS
    <3>6. n.merging = cckd[d].merging /\ n.stopping = cckd[d].stopping
        BY <1>1, <3>3, <3>5 DEF ExtRec
    <3>7. cckd'[d] = n /\ \A x \in Dev \ {d} : cckd'[x] = cckd[x]
        BY <1>1, <3>1, <3>3, <3>5
    <3> QED BY <1>1, <3>4, <3>6, <3>7 DEF Own, CmdOK
  <2> QED BY <2>1, <2>2
<1> QED BY <1>4, <1>5 DEF Own

LEMMA RaEndOwn == ASSUME Own, Inv', NEW r \in Ra, RaEnd(r) PROVE Own'
<1>1. /\ pc \in [Dev \cup Ra -> IoPc \cup RaPc] /\ job \in [Dev \cup Ra -> JobRec]
      /\ cckd \in [Dev -> ExtRec] /\ UNCHANGED <<entry, cmd>> /\ pc[r] = "raend"
      /\ pc' = [pc EXCEPT ![r] = "ratop"] /\ job' = [job EXCEPT ![r] = NoJob]
    BY DEF Own, Inv, Types, DiskTypes, ThreadTypes, RaEnd
<1>2. PICK d \in Dev : d = job[r].dev
    BY <1>1 DEF Own, Inv, Threads, RaOK
<1>3. QuietEntries
    BY <1>1 DEF QuietEntries
<1>4. \A t \in Dev \cup Ra : \A e \in Entry : Reading(t, e)' <=> Reading(t, e)
    BY <1>1 DEF Reading
<1>5. \A s \in Ra : pc'[s] = "load" => job'[s] = job[s]
    BY <1>1
<1>6. ReadersOK'
    BY <1>3, <1>4, <1>5, ReadersMove DEF Own
<1>7. cckd[d].ras # 0
  <2>1. r \in Jobs(d) /\ cckd[d].ras = Cardinality(Jobs(d))
      BY <1>2 DEF Own, Inv, Threads, RasCounted, Jobs
  <2>2. IsFiniteSet(Jobs(d))
    <3>1. Jobs(d) \in SUBSET Ra
        BY DEF Jobs
    <3> QED BY <3>1, CckdAssumption, FS_Subset
  <2> QED BY <2>1, <2>2, FS_EmptySet
<1>8. \A x \in Dev : CmdOK(x)'
  <2>1. cmd[d] \in {"none", "readaheads"}
      BY <1>7 DEF Own, CmdOK, Inv, Types, DiskTypes, Cmd
  <2>2. PICK n : n = [cckd[d] EXCEPT !.ras = @ - 1]
      OBVIOUS
  <2>3. n.merging = cckd[d].merging /\ n.stopping = cckd[d].stopping
      BY <1>1, <2>2 DEF ExtRec
  <2>4. cckd'[d] = n /\ \A x \in Dev \ {d} : cckd'[x] = cckd[x]
    <3>1. cckd' = [cckd EXCEPT ![d].ras = @ - 1]
        BY <1>2 DEF RaEnd
    <3> QED BY <1>1, <2>2, <3>1
  <2> QED BY <1>1, <2>1, <2>3, <2>4 DEF Own, CmdOK
<1> QED BY <1>6, <1>8 DEF Own

-----------------------------------------------------------------------------
(* Commands that find no read under way *)

LEMMA NoReads ==
    ASSUME Own, NEW d \in Dev, cckd[d].ras = 0, ~cckd[d].ioactive
    PROVE  \A e \in Of(d, entry) : "READING" \notin entry[e].flag
<1> SUFFICES ASSUME NEW e \in Of(d, entry), "READING" \in entry[e].flag PROVE FALSE
    OBVIOUS
<1>1. e \in Entry /\ entry[e].key[1] = d
    BY DEF Of
<1>2. PICK t \in Dev \cup Ra : Reading(t, e)
    BY <1>1 DEF Own, ReadersOK
<1>3. CASE t \in Dev
  <2>1. pc[t] \in {"load", "ahead"} /\ IoOK(t) /\ e = job[t].slot
      BY <1>2, <1>3 DEF Own, Inv, Reading
  <2>2. entry[e].key = <<t, job[t].trk>> /\ cckd[t].ioactive
      BY <2>1 DEF IoOK, Uses, Running
  <2>3. t = d
      BY <1>1, <2>2
  <2> QED BY <2>2, <2>3
<1>4. CASE t \in Ra
  <2>1. pc[t] = "load" /\ e = job[t].slot
      BY <1>2, <1>4 DEF Own, Inv, Types, ThreadTypes, RaPc, Reading
  <2>2. entry[e].key = <<job[t].dev, job[t].trk>>
      BY <2>1 DEF Own, ReadersOK
  <2>3. t \in Jobs(d)
      BY <1>1, <1>4, <2>2 DEF Jobs
  <2>4. cckd[d].ras = Cardinality(Jobs(d))
      BY DEF Own, Inv, Threads, RasCounted
  <2>5. IsFiniteSet(Jobs(d))
    <3>1. Jobs(d) \in SUBSET Ra
        BY DEF Jobs
    <3> QED BY <3>1, CckdAssumption, FS_Subset
  <2> QED BY <2>3, <2>4, <2>5, FS_EmptySet
<1> QED BY <1>3, <1>4

LEMMA QuiesceOwn ==
    ASSUME Own, Inv', NEW d \in Dev, NEW ext \in ExtRec, NEW next \in {"remove", "shadow"},
           cckd[d].ras = 0, ext.ras = 0, ext.ioactive = cckd[d].ioactive,
           ext.merging <=> next = "shadow", ext.stopping <=> next = "remove",
           Quiesce(d, ext, next), UNCHANGED <<pc, job>>
    PROVE  Own'
<1>1. /\ cckd \in [Dev -> ExtRec] /\ cmd \in [Dev -> Cmd] /\ EntriesOK(entry)
    BY DEF Own, Inv, Types, DiskTypes
<1>2. CASE Pending(d, entry) > 0 \/ ext.ioactive
  <2>1. /\ FlushCache(d, entry) /\ cmd' = [cmd EXCEPT ![d] = "wait"]
        /\ cckd' = [cckd EXCEPT ![d] = [ext EXCEPT !.wrpending = Pending(d, entry),
                              !.iowaiters = @ + 1 - (IF cmd[d] = "wait" THEN 1 ELSE 0)]]
      BY <1>2 DEF Quiesce
  <2>2. PICK n : n = [ext EXCEPT !.wrpending = Pending(d, entry),
                              !.iowaiters = @ + 1 - (IF cmd[d] = "wait" THEN 1 ELSE 0)]
      OBVIOUS
  <2>3. n.merging = ext.merging /\ n.stopping = ext.stopping /\ n.ras = 0
      BY <2>2 DEF ExtRec
  <2>4. /\ cckd'[d] = n /\ cmd'[d] = "wait"
        /\ \A x \in Dev \ {d} : cckd'[x] = cckd[x] /\ cmd'[x] = cmd[x]
      BY <1>1, <2>1, <2>2
  <2>5. \A x \in Dev : CmdOK(x)'
      BY <2>3, <2>4 DEF Own, CmdOK
  <2>6. QuietEntries
      BY <1>1, <2>1, QuietFlush
  <2>7. ReadersOK'
    <3>1. \A t \in Dev \cup Ra : \A e \in Entry : Reading(t, e)' <=> Reading(t, e)
        BY <2>6 DEF QuietEntries, Reading
    <3> QED BY <2>6, <3>1, ReadersMove DEF Own
  <2> QED BY <2>5, <2>7 DEF Own
<1>3. CASE ~(Pending(d, entry) > 0 \/ ext.ioactive)
  <2>1. /\ entry' = Purged(d) /\ cmd' = [cmd EXCEPT ![d] = next]
        /\ cckd' = [cckd EXCEPT ![d] = [ext EXCEPT !.iowaiters = @ - (IF cmd[d] = "wait" THEN 1 ELSE 0)]]
      BY <1>3 DEF Quiesce
  <2>2. PICK n : n = [ext EXCEPT !.iowaiters = @ - (IF cmd[d] = "wait" THEN 1 ELSE 0)]
      OBVIOUS
  <2>3. n.merging = ext.merging /\ n.stopping = ext.stopping /\ n.ras = 0
      BY <2>2 DEF ExtRec
  <2>4. /\ cckd'[d] = n /\ cmd'[d] = next
        /\ \A x \in Dev \ {d} : cckd'[x] = cckd[x] /\ cmd'[x] = cmd[x]
      BY <1>1, <2>1, <2>2
  <2>5. \A x \in Dev : CmdOK(x)'
      BY <2>3, <2>4 DEF Own, CmdOK
  <2>6. QuietEntries
    <3>1. \A e \in Of(d, entry) : "READING" \notin entry[e].flag
        BY <1>3, NoReads
    <3>2. \A e \in Entry : entry'[e] = IF e \in Of(d, entry) THEN Empty ELSE entry[e]
        BY <2>1 DEF Purged
    <3> QED BY <3>1, <3>2 DEF QuietEntries, Empty
  <2>7. ReadersOK'
    <3>1. \A t \in Dev \cup Ra : \A e \in Entry : Reading(t, e)' <=> Reading(t, e)
        BY <2>6 DEF QuietEntries, Reading
    <3> QED BY <2>6, <3>1, ReadersMove DEF Own
  <2> QED BY <2>5, <2>7 DEF Own
<1> QED BY <1>2, <1>3

LEMMA CommandOwn ==
    ASSUME ~Races, Own, Inv', NEW d \in Dev,
           CloseBegin(d) \/ CloseFlush(d) \/ CloseEnd(d) \/ SfFlush(d) \/ SfEnd(d)
    PROVE  Own'
<1>1. /\ cckd \in [Dev -> ExtRec] /\ cmd \in [Dev -> Cmd] /\ CmdOK(d) /\ cckd[d] \in ExtRec
    BY DEF Own, Inv, Types, DiskTypes
<1>2. CASE CloseFlush(d)
  <2>1. /\ Quiesce(d, cckd[d], "remove") /\ UNCHANGED <<pc, job>>
        /\ \/ cmd[d] = "readaheads" /\ cckd[d].ras = 0
           \/ cmd[d] = "wait" /\ cckd[d].stopping
      BY <1>2 DEF CloseFlush, iovars
  <2>2. cckd[d].ras = 0 /\ cckd[d].stopping /\ ~cckd[d].merging
      BY <1>1, <2>1 DEF CmdOK
  <2> QED BY <1>1, <2>1, <2>2, QuiesceOwn
<1>3. CASE SfFlush(d)
  <2>1. PICK ext : ext = [cckd[d] EXCEPT !.merging = TRUE]
      OBVIOUS
  <2>2. /\ ext \in ExtRec /\ ext.ras = cckd[d].ras /\ ext.ioactive = cckd[d].ioactive
        /\ ext.merging /\ ext.stopping = cckd[d].stopping
      BY <1>1, <2>1 DEF ExtRec
  <2>3. /\ Quiesce(d, ext, "shadow") /\ UNCHANGED <<pc, job>>
        /\ \/ cmd[d] = "none" /\ cckd[d].ras = 0
           \/ cmd[d] = "wait" /\ cckd[d].merging
      BY <1>3, <2>1 DEF SfFlush, iovars
  <2>4. cckd[d].ras = 0 /\ ~cckd[d].stopping
      BY <1>1, <2>3 DEF CmdOK
  <2> QED BY <2>2, <2>3, <2>4, QuiesceOwn
<1>4. CASE CloseBegin(d) \/ CloseEnd(d) \/ SfEnd(d)
  <2>1. UNCHANGED <<entry, pc, job>>
      BY <1>4 DEF CloseBegin, CloseEnd, SfEnd, iovars
  <2>2. ReadersOK'
    <3>1. QuietEntries /\ \A t \in Dev \cup Ra : \A e \in Entry : Reading(t, e)' <=> Reading(t, e)
        BY <2>1 DEF QuietEntries, Reading
    <3> QED BY <2>1, <3>1, ReadersMove DEF Own
  <2>3. CmdOK(d)' /\ \A x \in Dev \ {d} : cckd'[x] = cckd[x] /\ cmd'[x] = cmd[x]
    <3>1. CASE CloseBegin(d)
      <4>1. /\ cmd[d] = "none" /\ cmd' = [cmd EXCEPT ![d] = "readaheads"]
            /\ cckd' = [cckd EXCEPT ![d].stopping = TRUE]
          BY <3>1 DEF CloseBegin
      <4> QED BY <1>1, <4>1 DEF CmdOK, ExtRec
    <3>2. CASE CloseEnd(d)
      <4>1. cmd[d] = "remove" /\ cmd' = [cmd EXCEPT ![d] = "closed"] /\ cckd' = cckd
          BY <3>2 DEF CloseEnd
      <4> QED BY <1>1, <4>1 DEF CmdOK
    <3>3. CASE SfEnd(d)
      <4>1. /\ cmd[d] = "shadow" /\ cmd' = [cmd EXCEPT ![d] = "none"]
            /\ cckd' = [cckd EXCEPT ![d].merging = FALSE, ![d].opened = FALSE]
          BY <3>3 DEF SfEnd
      <4> QED BY <1>1, <4>1 DEF CmdOK, ExtRec
    <3> QED BY <1>4, <3>1, <3>2, <3>3
  <2>4. \A x \in Dev : CmdOK(x)'
      BY <2>3 DEF Own, CmdOK
  <2> QED BY <2>2, <2>4 DEF Own
<1> QED BY <1>2, <1>3, <1>4

-----------------------------------------------------------------------------

LEMMA InitOwn == Init => Own
<1> SUFFICES ASSUME Init PROVE Own
    OBVIOUS
<1>1. Inv
    BY InitInv
<1>2. /\ \A t \in Dev \cup Ra : pc[t] \in {"idle", "none"}
      /\ \A e \in Entry : entry[e].flag = {}
      /\ \A d \in Dev : cmd[d] = "none" /\ ~cckd[d].merging /\ ~cckd[d].stopping
    BY DEF Init, Empty
<1>3. ReadersOK
    BY <1>2 DEF ReadersOK, Reading
<1>4. \A d \in Dev : CmdOK(d)
    BY <1>2 DEF CmdOK
<1> QED BY <1>1, <1>3, <1>4 DEF Own

LEMMA StepOwn == ~Races /\ Own /\ [Next]_vars => Own'
<1> SUFFICES ASSUME ~Races, Own, [Next]_vars PROVE Own'
    OBVIOUS
<1>1. Inv'
    BY StepInv DEF Own
<1>2. ASSUME NEW d \in Dev,
             \/ StartIo(d) \/ StartWoken(d) \/ Update(d) \/ EndIo(d)
             \/ \E t \in Tracks[d] : ReadTrk(d, t)
             \/ IoWaitWoken(d) \/ Readahead(d)
      PROVE  Own'
    BY <1>1, <1>2, StartOwn, UpdateOwn, EndIoOwn, ReadTrkOwn, IoWaitOwn, ReadaheadOwn
<1>3. ASSUME NEW t \in Dev \cup Ra, Reads(t) PROVE Own'
    BY <1>1, <1>3, SearchAgainOwn, ReadEndOwn, FlushNextOwn, CacheWaitOwn DEF Reads
<1>4. ASSUME NEW r \in Ra, RaNext(r) \/ RaEnd(r) PROVE Own'
    BY <1>1, <1>4, RaNextOwn, RaEndOwn
<1>5. CASE Writers
    BY <1>1, <1>5, WriterOwn
<1>6. CASE Gcol
    BY <1>1, <1>6, GcolOwn
<1>7. ASSUME NEW d \in Dev, CloseBegin(d) \/ CloseFlush(d) \/ CloseEnd(d) \/ SfFlush(d) \/ SfEnd(d) PROVE Own'
    BY <1>1, <1>7, CommandOwn
<1>8. CASE UNCHANGED vars
  <2>1. QuietEntries /\ QuietThreads /\ CmdsStay
      BY <1>8 DEF QuietEntries, QuietThreads, CmdsStay, vars, iovars
  <2> QED BY <1>1, <2>1, QuietStep
<1> QED BY <1>2, <1>3, <1>4, <1>5, <1>6, <1>7, <1>8 DEF Next, Commands

LEMMA Owned == ASSUME ~Races PROVE Spec => []Own
BY InitOwn, StepOwn, PTL DEF Spec

\* An entry that is being read or written belongs to one thread, and what the
\* running program of a device believes of its entry is so, unless sf is given
\* during a readahead or close while a program waits for sf to end: cckd_sf_add
\* and cckddasd_close_device do not look.
THEOREM EntriesHaveOneOwner == ASSUME ~Races PROVE Spec => []OneOwner
<1>1. Own => OneOwner
  <2> SUFFICES ASSUME Own PROVE OneOwner
      OBVIOUS
  <2>1. ASSUME NEW e \in Entry
        PROVE  LET readers == {t \in Dev \cup Ra : pc[t] \in {"ahead", "load"} /\ job[t].slot = e
                                            /\ (pc[t] = "ahead" => "READING" \in entry[e].flag)}
                   writers == {w \in Writer : writer[w].slot = e}
               IN
               /\ Cardinality(readers) = IF "READING" \in entry[e].flag THEN 1 ELSE 0
               /\ Cardinality(writers) = IF "WRITING" \in entry[e].flag THEN 1 ELSE 0
               /\ \A t \in readers : entry[e].key = <<job[t].dev, job[t].trk>>
    <3> DEFINE readers == {t \in Dev \cup Ra : pc[t] \in {"ahead", "load"} /\ job[t].slot = e
                                            /\ (pc[t] = "ahead" => "READING" \in entry[e].flag)}
               writers == {w \in Writer : writer[w].slot = e}
    <3>1. readers = {t \in Dev \cup Ra : Reading(t, e)}
        BY DEF Reading
    <3>2. \A t \in readers : entry[e].key = <<job[t].dev, job[t].trk>>
      <4> SUFFICES ASSUME NEW t \in readers PROVE entry[e].key = <<job[t].dev, job[t].trk>>
          OBVIOUS
      <4>1. CASE pc[t] = "load"
          BY <4>1 DEF Own, ReadersOK
      <4>2. CASE pc[t] = "ahead"
        <5>1. t \in Dev /\ IoOK(t)
            BY <4>2 DEF Own, Inv, Types, ThreadTypes, RaPc
        <5> QED BY <4>2, <5>1 DEF IoOK, Uses
      <4> QED BY <4>1, <4>2
    <3> HIDE DEF readers
    <3>3. Cardinality(readers) = IF "READING" \in entry[e].flag THEN 1 ELSE 0
      <4>1. CASE "READING" \in entry[e].flag
        <5>1. PICK t \in Dev \cup Ra : Reading(t, e)
            BY <4>1 DEF Own, ReadersOK
        <5>2. readers = {t}
            BY <3>1, <5>1 DEF Own, ReadersOK
        <5> QED BY <4>1, <5>2, FS_Singleton
      <4>2. CASE "READING" \notin entry[e].flag
        <5>1. readers = {}
            BY <3>1, <4>2, NobodyReads DEF Own
        <5> QED BY <4>2, <5>1, FS_EmptySet
      <4> QED BY <4>1, <4>2
    <3>4. Cardinality(writers) = IF "WRITING" \in entry[e].flag THEN 1 ELSE 0
      <4>0. WritersOK /\ e # None
          BY KeyFacts DEF Own, Inv
      <4>1. CASE "WRITING" \in entry[e].flag
        <5>1. PICK w \in Writer : writer[w].slot = e
            BY <4>0, <4>1 DEF WritersOK
        <5>2. writers = {w}
            BY <4>0, <5>1 DEF WritersOK
        <5> QED BY <4>1, <5>2, FS_Singleton
      <4>2. CASE "WRITING" \notin entry[e].flag
        <5>1. writers = {}
            BY <4>0, <4>2 DEF WritersOK
        <5> QED BY <4>2, <5>1, FS_EmptySet
      <4> QED BY <4>1, <4>2
    <3> QED BY <3>2, <3>3, <3>4 DEF readers
  <2>2. ASSUME NEW d \in Dev, pc[d] = "run", current[d] # NoCurrent
        PROVE  /\ entry[current[d].slot].key = <<d, current[d].trk>>
               /\ entry[current[d].slot].flag \cap IoBusy = {}
      BY <2>2 DEF Own, Inv, IoOK, Uses, Running
  <2> QED BY <2>1, <2>2 DEF OneOwner
<1> QED BY <1>1, Owned, PTL

-----------------------------------------------------------------------------
(* Images *)

Unwritten == {"UPDATED", "WRITE", "WRITING"}

\* The tracks that are read and written without errors.
Reliable == Key \ (Faulty \cup Fragile)

\* An entry of such a track that is not being read is as new as the file, and what
\* makes it newer is on its way there.
Fresh(r, f) ==
    r.key \in Reliable /\ "READING" \notin r.flag =>
        /\ f[r.key] <= r.image
        /\ r.flag \cap Unwritten = {} => r.image = f[r.key]

KeysOnce(ent) == \A e, x \in Entry : ent[e].key = ent[x].key /\ ent[e].key # None => e = x

\* The entry a channel program of d has in its hands.
Hand(d) ==
    IF pc[d] \in {"iowait", "ahead", "load"} THEN job[d].slot
    ELSE IF pc[d] = "run" \/ (pc[d] = "flush" /\ job[d].slot # None) THEN current[d].slot
    ELSE None

\* No entry of d stays active, or waited for, when the program lets go of it.
HandOK(d) ==
    /\ \A e \in Of(d, entry) :
          /\ "ACTIVE" \in entry[e].flag => e = Hand(d)
          /\ "IOWAIT" \in entry[e].flag => pc[d] = "iowait" /\ e = job[d].slot
    /\ pc[d] = "ahead" /\ "READING" \notin entry[job[d].slot].flag => current[d].slot = job[d].slot

\* Why no update is lost.  An entry that may be stolen or purged is not being
\* read, and has no write to come: by Fresh the file is as new.  The entry in a
\* program's hands may be changed, and by HandOK it is the only active one.
Kept ==
    /\ Own /\ KeysOnce(entry) /\ (\A e \in Entry : Fresh(entry[e], file))
    /\ \A d \in Dev : HandOK(d)

\* What a step may do to an entry: leave it as new as it is, or give it up once
\* the file is as new.
NotUndone(e) ==
    entry[e].key \in Reliable /\ "READING" \notin entry[e].flag =>
        \/ /\ entry'[e].key = entry[e].key /\ "READING" \notin entry'[e].flag
           /\ entry[e].image <= entry'[e].image
        \/ entry[e].image <= file'[entry[e].key]

ImagesKept ==
    /\ KeysOnce(entry') /\ (\A e \in Entry : Fresh(entry'[e], file'))
    /\ \A k \in Reliable : file[k] <= file'[k]
    /\ \A e \in Entry : NotUndone(e)

Preserved == ImagesKept /\ \A d \in Dev : HandOK(d)'

NewestOf(k, ent, f) ==
    IF \E e \in Holding(k, ent) : "READING" \notin ent[e].flag
    THEN ent[CHOOSE e \in Holding(k, ent) : "READING" \notin ent[e].flag].image
    ELSE f[k]

LEMMA NewestIs ==
    ASSUME NEW ent, NEW f, KeysOnce(ent), NEW k \in Key
    PROVE  /\ \A e \in Entry : ent[e].key = k /\ "READING" \notin ent[e].flag =>
                  NewestOf(k, ent, f) = ent[e].image
           /\ (\A e \in Entry : ent[e].key = k => "READING" \in ent[e].flag) =>
                  NewestOf(k, ent, f) = f[k]
<1>1. ASSUME NEW e \in Entry, ent[e].key = k, "READING" \notin ent[e].flag
      PROVE  NewestOf(k, ent, f) = ent[e].image
  <2>1. e \in Holding(k, ent) /\ k # None
      BY <1>1, KeyFacts DEF Holding
  <2>2. \A x \in Holding(k, ent) : x = e
      BY <1>1, <2>1 DEF Holding, KeysOnce
  <2>3. (CHOOSE x \in Holding(k, ent) : "READING" \notin ent[x].flag) = e
      BY <1>1, <2>1, <2>2
  <2> QED BY <1>1, <2>1, <2>3 DEF NewestOf
<1>2. ASSUME \A e \in Entry : ent[e].key = k => "READING" \in ent[e].flag
      PROVE  NewestOf(k, ent, f) = f[k]
    BY <1>2 DEF NewestOf, Holding
<1> QED BY <1>1, <1>2

\* The newest image is never older than the file.
LEMMA NewestBound ==
    ASSUME NEW ent \in [Entry -> EntryRec], NEW f \in [Key -> Image], KeysOnce(ent),
           \A e \in Entry : Fresh(ent[e], f), NEW k \in Reliable
    PROVE  f[k] <= NewestOf(k, ent, f) /\ NewestOf(k, ent, f) \in Int /\ f[k] \in Int
<1>0. k \in Key
    BY DEF Reliable
<1>1. f[k] \in Int
    BY <1>0, ImageFacts
<1>2. ASSUME NEW e \in Entry, ent[e].key = k, "READING" \notin ent[e].flag
      PROVE  f[k] <= NewestOf(k, ent, f) /\ NewestOf(k, ent, f) \in Int
  <2>1. NewestOf(k, ent, f) = ent[e].image /\ k # None
      BY <1>0, <1>2, NewestIs, KeyFacts
  <2>2. f[k] <= ent[e].image
      BY <1>2 DEF Fresh
  <2>3. ent[e].image \in Int
      BY ImageFacts DEF EntryRec
  <2> QED BY <2>1, <2>2, <2>3
<1>3. CASE \A e \in Entry : ent[e].key = k => "READING" \in ent[e].flag
    BY <1>0, <1>1, <1>3, NewestIs
<1> QED BY <1>1, <1>2, <1>3

LEMMA NewestGrows ==
    ASSUME Kept, Inv', ImagesKept, NEW k \in Reliable
    PROVE  Newest(k) <= Newest(k)'
<1>0. k \in Key
    BY DEF Reliable
<1>1. /\ entry \in [Entry -> EntryRec] /\ entry' \in [Entry -> EntryRec]
      /\ file \in [Key -> Image] /\ file' \in [Key -> Image]
    BY DEF Kept, Own, Inv, Types, DiskTypes, EntriesOK
<1>2. /\ KeysOnce(entry) /\ KeysOnce(entry')
      /\ \A e \in Entry : Fresh(entry[e], file) /\ Fresh(entry'[e], file') /\ NotUndone(e)
      /\ file[k] <= file'[k]
    BY DEF Kept, ImagesKept
<1>3. Newest(k) = NewestOf(k, entry, file) /\ Newest(k)' = NewestOf(k, entry', file')
    BY DEF Newest, NewestOf
<1>4. /\ NewestOf(k, entry, file) \in Int /\ NewestOf(k, entry', file') \in Int
      /\ file[k] \in Int /\ file'[k] \in Int /\ file'[k] <= NewestOf(k, entry', file')
    BY <1>1, <1>2, NewestBound
<1>5. ASSUME NEW e \in Entry, entry[e].key = k, "READING" \notin entry[e].flag
      PROVE  NewestOf(k, entry, file) <= NewestOf(k, entry', file')
  <2>1. NewestOf(k, entry, file) = entry[e].image /\ k # None
      BY <1>0, <1>2, <1>5, NewestIs, KeyFacts
  <2>2. CASE entry'[e].key = k /\ "READING" \notin entry'[e].flag /\ entry[e].image <= entry'[e].image
    <3>1. NewestOf(k, entry', file') = entry'[e].image
        BY <1>0, <1>2, <2>2, NewestIs
    <3> QED BY <2>1, <2>2, <3>1
  <2>3. CASE entry[e].image <= file'[k]
      BY <1>4, <2>1, <2>3
  <2> QED BY <1>2, <1>5, <2>1, <2>2, <2>3 DEF NotUndone
<1>6. ASSUME \A e \in Entry : entry[e].key = k => "READING" \in entry[e].flag
      PROVE  NewestOf(k, entry, file) <= NewestOf(k, entry', file')
  <2>1. NewestOf(k, entry, file) = file[k]
      BY <1>0, <1>2, <1>6, NewestIs
  <2> QED BY <1>2, <1>4, <2>1
<1>7. NewestOf(k, entry, file) <= NewestOf(k, entry', file')
    BY <1>5, <1>6
<1> QED BY <1>3, <1>7

\* As far as images are concerned, an entry stays as it is.
SameImage(r, s) ==
    /\ s.key = r.key /\ s.image = r.image
    /\ "READING" \in s.flag <=> "READING" \in r.flag
    /\ s.flag \cap Unwritten = {} => r.flag \cap Unwritten = {}

\* Some entries change, the others stay as they are.
LEMMA SomeImages ==
    ASSUME Kept, file' = file, NEW E \in SUBSET Entry,
           \A x \in Entry \ E : SameImage(entry[x], entry'[x]),
           \A e \in E : /\ Fresh(entry'[e], file) /\ NotUndone(e)
                        /\ entry'[e].key # None =>
                              \A x \in Entry \ {e} : entry'[x].key # entry'[e].key
    PROVE  ImagesKept
<1>1. entry \in [Entry -> EntryRec] /\ file \in [Key -> Image]
    BY DEF Kept, Own, Inv, Types, DiskTypes, EntriesOK
<1>2. KeysOnce(entry) /\ \A e \in Entry : Fresh(entry[e], file)
    BY DEF Kept
<1>3. KeysOnce(entry')
    BY <1>2 DEF KeysOnce, SameImage
<1>4. \A x \in Entry \ E : Fresh(entry'[x], file)
    BY <1>2 DEF SameImage, Fresh
<1>5. \A x \in Entry \ E : NotUndone(x)
  <2> SUFFICES ASSUME NEW x \in Entry \ E PROVE NotUndone(x)
      OBVIOUS
  <2>1. entry[x].image \in Int
      BY <1>1, ImageFacts DEF EntryRec
  <2>2. SameImage(entry[x], entry'[x])
      OBVIOUS
  <2> QED BY <2>1, <2>2 DEF NotUndone, SameImage
<1>6. \A k \in Reliable : file[k] <= file'[k]
  <2>1. \A k \in Reliable : file[k] \in Int
      BY <1>1, ImageFacts DEF Reliable
  <2> QED BY <2>1
<1> QED BY <1>3, <1>4, <1>5, <1>6 DEF ImagesKept

LEMMA SameImages ==
    ASSUME Kept, file' = file, \A e \in Entry : SameImage(entry[e], entry'[e])
    PROVE  ImagesKept
BY SomeImages, {} \in SUBSET Entry

\* A device whose program does not move, and none of whose entries becomes active
\* or waited for.
Hands == {"ACTIVE", "IOWAIT"}
FewerHands(d, ent, new) ==
    \A e \in Of(d, new) : new[e].flag \cap Hands # {} =>
        e \in Of(d, ent) /\ new[e].flag \cap Hands \subseteq ent[e].flag

LEMMA HandKept ==
    ASSUME NEW d \in Dev, HandOK(d), pc'[d] = pc[d], job'[d] = job[d], current'[d] = current[d],
           FewerHands(d, entry, entry'),
           pc[d] = "ahead" /\ "READING" \in entry[job[d].slot].flag
               => "READING" \in entry'[job[d].slot].flag
    PROVE  HandOK(d)'
<1>1. Hand(d)' = Hand(d)
    BY DEF Hand
<1>2. ASSUME NEW e \in Of(d, entry')
      PROVE  /\ "ACTIVE" \in entry'[e].flag => e = Hand(d)
             /\ "IOWAIT" \in entry'[e].flag => pc[d] = "iowait" /\ e = job[d].slot
    BY <1>2 DEF HandOK, FewerHands, Hands
<1>3. pc[d] = "ahead" /\ "READING" \notin entry'[job[d].slot].flag => current[d].slot = job[d].slot
    BY DEF HandOK
<1> QED BY <1>1, <1>2, <1>3 DEF HandOK

\* The program of d goes on, with e in its hands from now on (or nothing).
LEMMA HandMoves ==
    ASSUME NEW d \in Dev, NEW e,
           \A x \in Of(d, entry') : /\ "ACTIVE" \in entry'[x].flag => x = e
                                    /\ "IOWAIT" \in entry'[x].flag => pc'[d] = "iowait" /\ x = e,
           Hand(d)' = e, pc'[d] = "iowait" => job'[d].slot = e,
           pc'[d] = "ahead" /\ "READING" \notin entry'[job'[d].slot].flag
               => current'[d].slot = job'[d].slot
    PROVE  HandOK(d)'
BY DEF HandOK

-----------------------------------------------------------------------------
(* Steps that leave what programs have in their hands *)

LEMMA HandsStay ==
    ASSUME Kept, NEW D \in SUBSET Dev, QuietEntries,
           \A d \in D : /\ pc'[d] = pc[d] /\ job'[d] = job[d] /\ current'[d] = current[d]
                        /\ FewerHands(d, entry, entry')
    PROVE  \A d \in D : HandOK(d)'
<1> SUFFICES ASSUME NEW d \in D PROVE HandOK(d)'
    OBVIOUS
<1>1. pc[d] = "ahead" => job[d].slot \in Entry
    BY DEF Kept, Own, Inv, IoOK, Uses
<1>2. HandOK(d)
    BY DEF Kept
<1>3. pc[d] = "ahead" /\ "READING" \in entry[job[d].slot].flag
          => "READING" \in entry'[job[d].slot].flag
    BY <1>1 DEF QuietEntries
<1> QED BY <1>2, <1>3, HandKept

\* A step that leaves entries, files and what programs have in their hands alone.
LEMMA NothingMoves ==
    ASSUME Kept, UNCHANGED <<entry, file>>,
           \A d \in Dev : pc'[d] = pc[d] /\ job'[d] = job[d] /\ current'[d] = current[d]
    PROVE  Preserved
<1>1. /\ QuietEntries /\ (\A d \in Dev : FewerHands(d, entry, entry'))
      /\ \A e \in Entry : SameImage(entry[e], entry'[e])
    BY DEF QuietEntries, FewerHands, SameImage
<1>2. ImagesKept
    BY <1>1, SameImages
<1>3. \A d \in Dev : HandOK(d)'
    BY <1>1, HandsStay
<1> QED BY <1>2, <1>3 DEF Preserved

\* cckd_flush_cache makes no image older, and nothing active.
LEMMA FlushImages ==
    ASSUME NEW d \in Dev, NEW ent, EntriesOK(ent), FlushCache(d, ent),
           \A e \in Entry : SameImage(entry[e], ent[e]),
           NEW D \in SUBSET Dev, \A x \in D : FewerHands(x, entry, ent)
    PROVE  /\ \A e \in Entry : SameImage(entry[e], entry'[e])
           /\ \A x \in D : FewerHands(x, entry, entry')
<1>1. entry' = Flushed(d, ent)
    BY DEF FlushCache, Flushed
<1>2. /\ \A e \in Entry : /\ entry'[e].key = ent[e].key /\ entry'[e].image = ent[e].image
                          /\ entry'[e].flag = IF e \in Dirty(d, ent) THEN {"WRITE"} ELSE ent[e].flag
      /\ \A e \in Dirty(d, ent) : ent[e].flag = {"UPDATED"}
    BY <1>1, FlushedFacts
<1>3. \A e \in Entry : /\ entry'[e].flag \cap Unwritten = {} => ent[e].flag \cap Unwritten = {}
                       /\ entry'[e].flag \cap Hands \subseteq ent[e].flag
                       /\ "READING" \in entry'[e].flag <=> "READING" \in ent[e].flag
    BY <1>2 DEF Unwritten, Hands
<1>4. \A e \in Entry : SameImage(entry[e], entry'[e])
    BY <1>2, <1>3 DEF SameImage
<1>5. ASSUME NEW x \in D PROVE FewerHands(x, entry, entry')
  <2>1. Of(x, entry') = Of(x, ent)
      BY <1>2 DEF Of
  <2>2. \A e \in Of(x, ent) : e \in Entry
      BY DEF Of
  <2> QED BY <1>3, <2>1, <2>2 DEF FewerHands
<1> QED BY <1>4, <1>5

LEMMA SameQuiet == ASSUME \A e \in Entry : SameImage(entry[e], entry'[e]) PROVE QuietEntries
BY DEF SameImage, QuietEntries

\* A flush of one device, or nothing, and nobody moves.
LEMMA FlushKept ==
    ASSUME Kept, file' = file, \/ entry' = entry
                               \/ \E d \in Dev : FlushCache(d, entry)
    PROVE  /\ ImagesKept
           /\ \A d \in Dev : pc'[d] = pc[d] /\ job'[d] = job[d] /\ current'[d] = current[d] => HandOK(d)'
<1>1. EntriesOK(entry)
    BY DEF Kept, Own, Inv
<1>2. /\ \A e \in Entry : SameImage(entry[e], entry[e])
      /\ \A x \in Dev : FewerHands(x, entry, entry)
    BY DEF SameImage, FewerHands
<1>3. /\ \A e \in Entry : SameImage(entry[e], entry'[e])
      /\ \A x \in Dev : FewerHands(x, entry, entry')
  <2>1. CASE entry' = entry
      BY <1>2, <2>1
  <2>2. ASSUME NEW d \in Dev, FlushCache(d, entry)
        PROVE  /\ \A e \in Entry : SameImage(entry[e], entry'[e])
               /\ \A x \in Dev : FewerHands(x, entry, entry')
      BY <1>1, <1>2, <2>2, FlushImages
  <2> QED BY <2>1, <2>2
<1>4. ImagesKept /\ QuietEntries
    BY <1>3, SameImages, SameQuiet
<1>5. ASSUME NEW d \in Dev, pc'[d] = pc[d], job'[d] = job[d], current'[d] = current[d]
      PROVE  HandOK(d)'
  <2>1. {d} \in SUBSET Dev
      OBVIOUS
  <2> QED BY <1>3, <1>4, <1>5, <2>1, HandsStay
<1> QED BY <1>4, <1>5

LEMMA GcolKept == ASSUME Kept, Gcol PROVE Preserved
<1>1. gcol.at \in {"collect", "wait"} => gcol.dev \in Dev
    BY DEF Kept, Own, Inv, Types, GcolTypes
<1>2. UNCHANGED <<pc, job, current, file>>
    BY DEF Gcol, GcBegin, GcDevice, GcFlush, GcWoken, iovars
<1>3. entry' = entry \/ \E d \in Dev : FlushCache(d, entry)
    BY <1>1 DEF Gcol, GcBegin, GcDevice, GcFlush, GcWoken
<1> QED BY <1>2, <1>3, FlushKept DEF Preserved

\* The image that is written is the newest, and the file gets it, but for an error.
LEMMA WriterEndKept == ASSUME Kept, NEW w \in Writer, WriterEnd(w) PROVE Preserved
<1>1. PICK e : e = writer[w].slot
    OBVIOUS
<1>2. /\ writer[w].at = "write" /\ UNCHANGED <<pc, job, current>>
      /\ \/ file' = [file EXCEPT ![entry[e].key] = entry[e].image]
         \/ entry[e].key \in Fragile /\ file' = file
      /\ entry' = [entry EXCEPT ![e].flag = @ \ {"WRITING"}]
    BY <1>1 DEF WriterEnd, iovars
<1>3. /\ entry \in [Entry -> EntryRec] /\ file \in [Key -> Image] /\ KeysOnce(entry)
      /\ \A x \in Entry : Fresh(entry[x], file) /\ FlagOK(entry[x])
    BY DEF Kept, Own, Inv, Types, DiskTypes, EntriesOK
<1>4. e \in Entry /\ "WRITING" \in entry[e].flag
  <2>1. writer[w] \in WriterRec
      BY DEF Kept, Own, Inv, Types, WriterTypes
  <2> QED BY <1>1, <1>2, <2>1 DEF Kept, Own, Inv, WritersOK, WriterRec
<1>5. PICK k \in Key : k = entry[e].key
    BY <1>3, <1>4 DEF FlagOK, EntryRec
<1>6. /\ k # None /\ "READING" \notin entry[e].flag /\ entry[e].flag \in SUBSET Flags
      /\ k \in Reliable => file[k] <= entry[e].image
      /\ entry[e].image \in Int
    BY <1>3, <1>4, <1>5, KeyFacts, ImageFacts DEF FlagOK, Fresh, EntryRec
<1>7. /\ k \in Reliable => file'[k] = entry[e].image
      /\ \A q \in Key \ {k} : file'[q] = file[q]
    BY <1>2, <1>3, <1>5 DEF Reliable
<1>8. /\ entry'[e].key = k /\ entry'[e].image = entry[e].image /\ entry'[e].flag = entry[e].flag \ {"WRITING"}
      /\ \A x \in Entry \ {e} : entry'[x] = entry[x]
  <2>1. PICK r : r = [entry[e] EXCEPT !.flag = @ \ {"WRITING"}]
      OBVIOUS
  <2>2. r.key = entry[e].key /\ r.image = entry[e].image /\ r.flag = entry[e].flag \ {"WRITING"}
      BY <1>3, <1>4, <2>1 DEF EntryRec
  <2>3. entry' = [entry EXCEPT ![e] = r]
      BY <1>2, <2>1
  <2> QED BY <1>3, <1>4, <1>5, <2>2, <2>3
<1>9. KeysOnce(entry')
    BY <1>3, <1>4, <1>5, <1>8 DEF KeysOnce
<1>10. ASSUME NEW x \in Entry PROVE Fresh(entry'[x], file')
  <2>1. CASE x = e
      BY <1>6, <1>7, <1>8, <2>1 DEF Fresh
  <2>2. CASE x # e
    <3>1. entry'[x] = entry[x] /\ entry[x].key # k
        BY <1>3, <1>4, <1>5, <1>6, <1>8, <2>2 DEF KeysOnce
    <3>2. entry[x].key \in Reliable => file'[entry[x].key] = file[entry[x].key]
        BY <1>7, <3>1 DEF Reliable
    <3> QED BY <1>3, <3>1, <3>2 DEF Fresh
  <2> QED BY <2>1, <2>2
<1>11. \A q \in Reliable : file[q] <= file'[q]
  <2>1. \A q \in Reliable : q \in Key /\ file[q] \in Int
      BY <1>3, ImageFacts DEF Reliable
  <2> QED BY <1>6, <1>7, <2>1
<1>12. ASSUME NEW x \in Entry PROVE NotUndone(x)
  <2>1. /\ entry'[x].key = entry[x].key /\ entry'[x].image = entry[x].image
        /\ "READING" \notin entry[x].flag => "READING" \notin entry'[x].flag
      BY <1>5, <1>8
  <2>2. entry[x].image \in Int
      BY <1>3, ImageFacts DEF EntryRec
  <2> QED BY <2>1, <2>2 DEF NotUndone
<1>13. ImagesKept
    BY <1>9, <1>10, <1>11, <1>12 DEF ImagesKept
<1>14. QuietEntries /\ \A d \in Dev : FewerHands(d, entry, entry')
  <2>1. \A x \in Entry : /\ entry'[x].key = entry[x].key
                         /\ entry'[x].flag \cap Hands \subseteq entry[x].flag
                         /\ "READING" \in entry'[x].flag <=> "READING" \in entry[x].flag
      BY <1>5, <1>8 DEF Hands
  <2> QED BY <2>1 DEF QuietEntries, FewerHands, Of
<1>15. \A d \in Dev : HandOK(d)'
    BY <1>2, <1>14, HandsStay
<1> QED BY <1>13, <1>15 DEF Preserved

LEMMA WriterKept == ASSUME Kept, Writers PROVE Preserved
<1>1. /\ entry \in [Entry -> EntryRec] /\ EntriesOK(entry)
    BY DEF Kept, Own, Inv, Types, EntriesOK
<1>2. ASSUME NEW w \in Writer, WriterNext(w) \/ WriterBegin(w) PROVE Preserved
  <2>1. UNCHANGED <<pc, job, current, file>>
      BY <1>2 DEF WriterNext, WriterBegin, iovars
  <2>2. CASE entry' = entry
      BY <2>1, <2>2, NothingMoves
  <2>3. ASSUME NEW e \in Entry, "WRITE" \in entry[e].flag,
               entry' = [entry EXCEPT ![e].flag = (@ \ {"WRITE"}) \cup {"WRITING"}]
        PROVE  Preserved
    <3>1. PICK f : f = (entry[e].flag \ {"WRITE"}) \cup {"WRITING"}
        OBVIOUS
    <3>2. /\ f \cap Unwritten # {} /\ f \cap Hands \subseteq entry[e].flag
          /\ "READING" \in f <=> "READING" \in entry[e].flag
        BY <3>1 DEF Unwritten, Hands
    <3>3. /\ entry'[e].key = entry[e].key /\ entry'[e].image = entry[e].image /\ entry'[e].flag = f
          /\ \A x \in Entry \ {e} : entry'[x] = entry[x]
        BY <1>1, <2>3, <3>1 DEF EntryRec
    <3>4. \A x \in Entry : SameImage(entry[x], entry'[x]) /\ entry'[x].flag \cap Hands \subseteq entry[x].flag
        BY <3>2, <3>3 DEF SameImage
    <3>5. ImagesKept /\ QuietEntries
        BY <2>1, <3>4, SameImages, SameQuiet
    <3>6. \A d \in Dev : FewerHands(d, entry, entry')
        BY <3>4 DEF FewerHands, Of, SameImage
    <3>7. \A d \in Dev : HandOK(d)'
        BY <2>1, <3>5, <3>6, HandsStay
    <3> QED BY <3>5, <3>7 DEF Preserved
  <2> QED BY <1>2, <2>2, <2>3 DEF WriterNext, WriterBegin
<1> QED BY <1>2, WriterEndKept DEF Writers

-----------------------------------------------------------------------------
(* Commands *)

\* When nothing of d is pending and no program of it runs, the file has every
\* image of it that is in the cache, but for errors.
LEMMA NothingNewer ==
    ASSUME Kept, NEW d \in Dev, ~(Pending(d, entry) > 0), ~cckd[d].ioactive,
           NEW e \in Of(d, entry), "READING" \notin entry[e].flag, entry[e].key \in Reliable
    PROVE  entry[e].image = file[entry[e].key]
<1>1. e \in Entry /\ entry[e].key # None /\ entry[e].flag \in SUBSET Flags
    BY DEF Of, Kept, Own, Inv, EntriesOK, EntryRec
<1>2. "WRITE" \notin entry[e].flag /\ "WRITING" \notin entry[e].flag /\ Dirty(d, entry) = {}
    BY NothingPending DEF Kept, Own, Marks, IsMarked
<1>3. Hand(d) = None /\ pc[d] # "iowait"
    BY DEF Kept, Own, Inv, IoOK, Running, Hand
<1>4. "ACTIVE" \notin entry[e].flag /\ "IOWAIT" \notin entry[e].flag
    BY <1>1, <1>3, KeyFacts DEF Kept, HandOK
<1>5. "UPDATED" \notin entry[e].flag
  <2> SUFFICES ASSUME "UPDATED" \in entry[e].flag PROVE FALSE
      OBVIOUS
  <2>1. entry[e].flag = {"UPDATED"}
      BY <1>1, <1>2, <1>4 DEF Flags, IoBusy
  <2> QED BY <1>2, <2>1 DEF Dirty
<1> QED BY <1>1, <1>2, <1>5 DEF Kept, Fresh, Unwritten

LEMMA QuiesceKept ==
    ASSUME Kept, NEW d \in Dev, NEW ext \in ExtRec, NEW next, ext.ioactive = cckd[d].ioactive,
           Quiesce(d, ext, next), UNCHANGED <<pc, job, file>>
    PROVE  Preserved
<1>1. CASE Pending(d, entry) > 0 \/ ext.ioactive
  <2>1. FlushCache(d, entry) /\ current' = current
      BY <1>1 DEF Quiesce
  <2> QED BY <2>1, FlushKept DEF Preserved
<1>2. CASE ~(Pending(d, entry) > 0 \/ ext.ioactive)
  <2>1. entry' = Purged(d) /\ current' = [current EXCEPT ![d] = NoCurrent]
      BY <1>2 DEF Quiesce
  <2>2. /\ entry \in [Entry -> EntryRec] /\ file \in [Key -> Image] /\ KeysOnce(entry)
        /\ current \in [Dev -> CurRec]
      BY DEF Kept, Own, Inv, Types, DiskTypes, ThreadTypes, EntriesOK
  <2>3. /\ \A e \in Of(d, entry) : entry'[e] = Empty
        /\ \A e \in Entry \ Of(d, entry) : entry'[e] = entry[e]
        /\ Of(d, entry) \in SUBSET Entry
      BY <2>1 DEF Purged, Of
  <2>4. \A e \in Entry \ Of(d, entry) : SameImage(entry[e], entry'[e])
      BY <2>3 DEF SameImage
  <2>5. ASSUME NEW e \in Of(d, entry)
        PROVE  Fresh(entry'[e], file) /\ NotUndone(e) /\ entry'[e].key = None
    <3>1. entry'[e].key = None
        BY <2>3 DEF Empty
    <3>2. entry[e].key \in Reliable /\ "READING" \notin entry[e].flag
             => entry[e].image = file[entry[e].key]
        BY <1>2, NothingNewer
    <3>3. entry[e].image \in Int
        BY <2>2, ImageFacts DEF Of, EntryRec
    <3>4. None \notin Reliable
        BY CckdAssumption DEF Reliable
    <3> QED BY <3>1, <3>2, <3>3, <3>4 DEF Fresh, NotUndone
  <2>6. ImagesKept
      BY <2>3, <2>4, <2>5, SomeImages
  <2>7. HandOK(d)'
    <3>1. Of(d, entry') = {}
        BY <2>3 DEF Of, Empty
    <3>2. pc'[d] # "ahead"
        BY <1>2 DEF Kept, Own, Inv, IoOK, Running
    <3> QED BY <3>1, <3>2 DEF HandOK
  <2>8. ASSUME NEW x \in Dev \ {d} PROVE HandOK(x)'
    <3>1. HandOK(x) /\ current'[x] = current[x]
        BY <2>1, <2>2 DEF Kept
    <3>2. FewerHands(x, entry, entry')
        BY <2>3 DEF FewerHands, Of, Empty
    <3>3. pc[x] = "ahead" => entry'[job[x].slot] = entry[job[x].slot]
      <4> SUFFICES ASSUME pc[x] = "ahead" PROVE entry'[job[x].slot] = entry[job[x].slot]
          OBVIOUS
      <4>1. job[x].slot \in Entry /\ entry[job[x].slot].key = <<x, job[x].trk>>
          BY DEF Kept, Own, Inv, IoOK, Uses
      <4>2. job[x].slot \notin Of(d, entry)
          BY <4>1 DEF Of
      <4> QED BY <2>3, <4>1, <4>2
    <3> QED BY <3>1, <3>2, <3>3, HandKept
  <2> QED BY <2>6, <2>7, <2>8 DEF Preserved
<1> QED BY <1>1, <1>2

LEMMA CommandKept ==
    ASSUME Kept, NEW d \in Dev,
           CloseBegin(d) \/ CloseFlush(d) \/ CloseEnd(d) \/ SfFlush(d) \/ SfEnd(d)
    PROVE  Preserved
<1>1. cckd[d] \in ExtRec
    BY DEF Kept, Own, Inv, Types, DiskTypes
<1>2. CASE CloseFlush(d)
  <2>1. Quiesce(d, cckd[d], "remove") /\ UNCHANGED <<pc, job, file>>
      BY <1>2 DEF CloseFlush, iovars
  <2> QED BY <1>1, <2>1, QuiesceKept
<1>3. CASE SfFlush(d)
  <2>1. PICK ext : ext = [cckd[d] EXCEPT !.merging = TRUE]
      OBVIOUS
  <2>2. ext \in ExtRec /\ ext.ioactive = cckd[d].ioactive
      BY <1>1, <2>1 DEF ExtRec
  <2>3. Quiesce(d, ext, "shadow") /\ UNCHANGED <<pc, job, file>>
      BY <1>3, <2>1 DEF SfFlush, iovars
  <2> QED BY <2>2, <2>3, QuiesceKept
<1>4. CASE CloseBegin(d) \/ CloseEnd(d) \/ SfEnd(d)
  <2>1. UNCHANGED <<entry, file, pc, job, current>>
      BY <1>4 DEF CloseBegin, CloseEnd, SfEnd, iovars
  <2> QED BY <2>1, NothingMoves
<1> QED BY <1>2, <1>3, <1>4

-----------------------------------------------------------------------------
(* Programs *)

\* A step of d's i/o thread that makes no image older.
LEMMA IoMoves ==
    ASSUME Kept, NEW d \in Dev, file' = file, \A e \in Entry : SameImage(entry[e], entry'[e]),
           \A x \in Dev \ {d} : /\ pc'[x] = pc[x] /\ job'[x] = job[x] /\ current'[x] = current[x]
                                /\ FewerHands(x, entry, entry'),
           HandOK(d)'
    PROVE  Preserved
<1>1. ImagesKept /\ QuietEntries
    BY SameImages, SameQuiet
<1>2. Dev \ {d} \in SUBSET Dev
    OBVIOUS
<1>3. \A x \in Dev \ {d} : HandOK(x)'
    BY <1>1, <1>2, HandsStay
<1> QED BY <1>1, <1>3 DEF Preserved

NoHands(d, ent) == \A x \in Of(d, ent) : ent[x].flag \cap Hands = {}

LEMMA NoHandsOK == ASSUME NEW d \in Dev, NoHands(d, entry'), pc'[d] # "ahead" PROVE HandOK(d)'
BY DEF NoHands, Hands, HandOK

LEMMA EmptyHands ==
    ASSUME Kept, NEW d \in Dev, pc[d] \in {"idle", "startwait", "search", "space"}
    PROVE  NoHands(d, entry)
<1>1. Hand(d) = None
    BY DEF Hand
<1>2. \A e \in Of(d, entry) : e \in Entry
    BY DEF Of
<1> QED BY <1>1, <1>2, KeyFacts DEF Kept, HandOK, NoHands, Hands

LEMMA HandsDeactivated ==
    ASSUME Kept, NEW d \in Dev, pc[d] = "run", NEW ent, ent = Deactivated(d)
    PROVE  /\ EntriesOK(ent) /\ NoHands(d, ent)
           /\ \A e \in Entry : SameImage(entry[e], ent[e])
           /\ \A x \in Dev : FewerHands(x, entry, ent)
<1>1. /\ EntriesOK(ent)
      /\ \A e \in Entry : /\ ent[e].key = entry[e].key /\ ent[e].image = entry[e].image
                          /\ ent[e].flag = entry[e].flag \ (IF e = current[d].slot THEN {"ACTIVE"} ELSE {})
    BY DeactivatedFacts DEF Kept, Own
<1>2. Hand(d) = current[d].slot
    BY DEF Hand
<1>3. \A x \in Dev : Of(x, ent) = Of(x, entry)
    BY <1>1 DEF Of
<1>4. \A e \in Entry : SameImage(entry[e], ent[e])
    BY <1>1 DEF SameImage, Unwritten
<1>5. ASSUME NEW e \in Of(d, ent) PROVE ent[e].flag \cap Hands = {}
  <2>1. e \in Of(d, entry) /\ e \in Entry
      BY <1>3 DEF Of
  <2>2. /\ "ACTIVE" \in entry[e].flag => e = current[d].slot
        /\ "IOWAIT" \notin entry[e].flag
      BY <1>2, <2>1 DEF Kept, HandOK
  <2> QED BY <1>1, <2>1, <2>2 DEF Hands
<1>6. \A x \in Dev : FewerHands(x, entry, ent)
    BY <1>1, <1>3 DEF FewerHands, Of
<1> QED BY <1>1, <1>4, <1>5, <1>6 DEF NoHands

\* d's program takes e in its hands, which were empty.
TakenUp(d, e, f) ==
    /\ \A x \in Entry : SameImage(entry[x], entry'[x])
    /\ \A x \in Dev \ {d} : FewerHands(x, entry, entry')
    /\ \A x \in Of(d, entry') : /\ "ACTIVE" \in entry'[x].flag => x = e
                                /\ "IOWAIT" \in entry'[x].flag => x = e /\ f # {}

LEMMA TakenUpFacts ==
    ASSUME NEW d \in Dev, NEW ent, EntriesOK(ent), NoHands(d, ent),
           \A x \in Entry : SameImage(entry[x], ent[x]),
           \A x \in Dev : FewerHands(x, entry, ent),
           NEW e \in Of(d, ent), NEW f \in SUBSET {"IOWAIT"},
           entry' = WithFlag(ent, e, Activated(ent[e].flag) \cup f)
    PROVE  TakenUp(d, e, f)
<1>1. Taking(ent, entry', d, e, f)
    BY ActivatedFacts
<1>2. /\ e \in Entry /\ entry'[e].key = ent[e].key /\ entry'[e].image = ent[e].image
      /\ entry'[e].flag = Activated(ent[e].flag) \cup f
      /\ \A x \in Entry \ {e} : entry'[x] = ent[x]
      /\ ent[e].key # None /\ ent[e].key[1] = d
    BY <1>1 DEF Taking, Of
<1>3. /\ entry'[e].flag \cap Unwritten = {} => ent[e].flag \cap Unwritten = {}
      /\ "READING" \in entry'[e].flag <=> "READING" \in ent[e].flag
    BY <1>2 DEF Activated, Unwritten
<1>4. \A x \in Entry : SameImage(entry[x], entry'[x])
  <2>1. \A x \in Entry : SameImage(ent[x], entry'[x])
      BY <1>2, <1>3 DEF SameImage
  <2> QED BY <2>1 DEF SameImage
<1>5. ASSUME NEW x \in Dev \ {d} PROVE FewerHands(x, entry, entry')
  <2>1. \A y \in Of(x, entry') : y \in Of(x, ent) /\ entry'[y] = ent[y]
      BY <1>2 DEF Of
  <2> QED BY <2>1 DEF FewerHands
<1>6. ASSUME NEW x \in Of(d, entry')
      PROVE  /\ "ACTIVE" \in entry'[x].flag => x = e
             /\ "IOWAIT" \in entry'[x].flag => x = e /\ f # {}
  <2>1. CASE x # e
    <3>1. x \in Of(d, ent) /\ entry'[x] = ent[x]
        BY <1>2, <2>1 DEF Of
    <3> QED BY <3>1 DEF NoHands, Hands
  <2>2. CASE x = e
    <3>1. "IOWAIT" \notin ent[e].flag
        BY DEF NoHands, Hands
    <3>2. f = {} => "IOWAIT" \notin entry'[e].flag
        BY <1>2, <3>1 DEF Activated
    <3> QED BY <2>2, <3>2
  <2> QED BY <2>1, <2>2
<1> QED BY <1>4, <1>5, <1>6 DEF TakenUp

LEMMA BeginKept ==
    ASSUME Kept, NEW d \in Dev, NEW cur, cur = current[d] \/ cur = NoCurrent,
           Begin(d, cur), UNCHANGED <<file, job>>, pc[d] \in {"idle", "startwait"}
    PROVE  Preserved
<1>1. /\ pc \in [Dev \cup Ra -> IoPc \cup RaPc] /\ current \in [Dev -> CurRec]
      /\ CurOK(current[d], d) /\ EntriesOK(entry)
    BY DEF Kept, Own, Inv, Types, ThreadTypes
<1>2. PICK e : e = cur.slot
    OBVIOUS
<1>3. PICK valid \in BOOLEAN : valid = (/\ e # None /\ entry[e].key = <<d, cur.trk>>
                                        /\ entry[e].flag \cap IoBusy = {})
    OBVIOUS
<1>4. /\ entry' = IF valid THEN [entry EXCEPT ![e].flag = Activated(@)] ELSE entry
      /\ current' = [current EXCEPT ![d] = IF valid THEN cur ELSE NoCurrent]
      /\ pc' = [pc EXCEPT ![d] = "run"]
    BY <1>2, <1>3 DEF Begin
<1>5. /\ pc'[d] = "run" /\ current'[d] = IF valid THEN cur ELSE NoCurrent
      /\ \A x \in Dev \ {d} : pc'[x] = pc[x] /\ job'[x] = job[x] /\ current'[x] = current[x]
    BY <1>1, <1>4
<1>6. NoHands(d, entry)
    BY EmptyHands
<1>7. /\ \A x \in Entry : SameImage(entry[x], entry[x])
      /\ \A x \in Dev : FewerHands(x, entry, entry)
    BY DEF SameImage, FewerHands
<1>8. CASE valid
  <2>0. e # None /\ entry[e].key = <<d, cur.trk>>
      BY <1>3, <1>8
  <2>1. cur \in [trk : Tracks[d], slot : Entry]
    <3>1. NoCurrent.slot = None
        BY DEF NoCurrent
    <3>2. cur # NoCurrent
        BY <1>2, <2>0, <3>1
    <3> QED BY <1>1, <3>2 DEF CurOK
  <2>2. e \in Of(d, entry)
    <3>1. cur.trk \in Tracks[d] /\ e \in Entry
        BY <1>2, <2>1
    <3>2. <<d, cur.trk>> # None
        BY <3>1, KeyFacts
    <3> QED BY <2>0, <3>1, <3>2 DEF Of
  <2>3. entry' = WithFlag(entry, e, Activated(entry[e].flag) \cup {})
    <3>1. Activated(entry[e].flag) \cup {} = Activated(entry[e].flag)
        BY DEF Activated
    <3> QED BY <1>4, <1>8, <3>1 DEF WithFlag
  <2>4. TakenUp(d, e, {})
      BY <1>1, <1>6, <1>7, <2>2, <2>3, TakenUpFacts
  <2>5. Hand(d)' = e
      BY <1>2, <1>5, <1>8 DEF Hand
  <2>6. HandOK(d)'
      BY <1>5, <2>4, <2>5, HandMoves DEF TakenUp
  <2> QED BY <1>5, <2>4, <2>6, IoMoves DEF TakenUp
<1>9. CASE ~valid
  <2>1. entry' = entry
      BY <1>4, <1>9
  <2>2. HandOK(d)'
      BY <1>5, <1>6, <2>1, NoHandsOK
  <2> QED BY <1>5, <1>7, <2>1, <2>2, IoMoves
<1> QED BY <1>8, <1>9

LEMMA StartKept == ASSUME Kept, NEW d \in Dev, StartIo(d) \/ StartWoken(d) PROVE Preserved
<1>1. /\ pc[d] \in {"idle", "startwait"} /\ UNCHANGED <<file, job>>
      /\ pc \in [Dev \cup Ra -> IoPc \cup RaPc]
    BY DEF StartIo, StartWoken, Kept, Own, Inv, Types, ThreadTypes
<1>2. CASE Begin(d, current[d]) \/ Begin(d, NoCurrent)
    BY <1>1, <1>2, BeginKept
<1>3. CASE UNCHANGED <<entry, current>> /\ (pc' = pc \/ pc' = [pc EXCEPT ![d] = "startwait"])
  <2>1. /\ pc'[d] \in {"idle", "startwait"}
        /\ \A x \in Dev \ {d} : pc'[x] = pc[x] /\ job'[x] = job[x] /\ current'[x] = current[x]
      BY <1>1, <1>3
  <2>2. NoHands(d, entry)
      BY <1>1, EmptyHands
  <2>3. HandOK(d)'
      BY <1>3, <2>1, <2>2, NoHandsOK
  <2>4. /\ \A x \in Entry : SameImage(entry[x], entry'[x])
        /\ \A x \in Dev : FewerHands(x, entry, entry')
      BY <1>3 DEF SameImage, FewerHands
  <2> QED BY <1>1, <2>1, <2>3, <2>4, IoMoves
<1> QED BY <1>2, <1>3 DEF StartIo, StartWoken

\* The entry a program updates is active and not being written.
LEMMA UpdateKept == ASSUME Kept, NEW d \in Dev, Update(d) PROVE Preserved
<1>1. PICK e : e = current[d].slot
    OBVIOUS
<1>2. /\ pc[d] = "run" /\ e # None /\ UNCHANGED <<file, current, pc, job>>
      /\ entry' = [entry EXCEPT ![e].flag = @ \cup {"UPDATED"}, ![e].image = Updated(@)]
    BY <1>1 DEF Update, iovars
<1>3. /\ entry \in [Entry -> EntryRec] /\ KeysOnce(entry) /\ file \in [Key -> Image]
      /\ \A x \in Entry : Fresh(entry[x], file) /\ FlagOK(entry[x])
    BY DEF Kept, Own, Inv, Types, DiskTypes, EntriesOK
<1>4. /\ Uses(d, current[d].trk, e) /\ entry[e].flag \cap IoBusy = {}
    BY <1>1, <1>2 DEF Kept, Own, Inv, IoOK, Running, NoCurrent
<1>5. e \in Entry /\ "READING" \notin entry[e].flag
    BY <1>4 DEF Uses, IoBusy
<1>6. PICK i \in Int : i = entry[e].image
    BY <1>3, <1>5, ImageFacts DEF EntryRec
<1>6a. PICK m \in Int : m = Updated(i) /\ i <= m
    BY <1>3, <1>5, <1>6, UpdatedImage DEF EntryRec
<1>7. /\ entry'[e].key = entry[e].key /\ entry'[e].image = m
      /\ entry'[e].flag = entry[e].flag \cup {"UPDATED"}
      /\ \A x \in Entry \ {e} : entry'[x] = entry[x]
  <2>2. PICK f : f = entry[e].flag \cup {"UPDATED"}
      OBVIOUS
  <2>3. PICK r : r = [entry[e] EXCEPT !.flag = f, !.image = m]
      OBVIOUS
  <2>4. r.key = entry[e].key /\ r.image = m /\ r.flag = f
      BY <1>3, <1>5, <2>3 DEF EntryRec
  <2>5. entry' = [entry EXCEPT ![e] = r]
      BY <1>2, <1>3, <1>5, <1>6, <1>6a, <2>2, <2>3 DEF EntryRec
  <2> QED BY <1>3, <1>5, <2>2, <2>4, <2>5
<1>8. \A x \in Entry \ {e} : SameImage(entry[x], entry'[x]) /\ entry'[x].key = entry[x].key
    BY <1>7 DEF SameImage
<1>9. Fresh(entry'[e], file)
  <2>1. entry[e].key \in Reliable => file[entry[e].key] <= m
    <3> SUFFICES ASSUME entry[e].key \in Reliable PROVE file[entry[e].key] <= m
        OBVIOUS
    <3>1. file[entry[e].key] <= i
        BY <1>3, <1>5, <1>6 DEF Fresh
    <3>2. file[entry[e].key] \in Int
        BY <1>3, ImageFacts DEF Reliable
    <3> QED BY <1>6a, <3>1, <3>2
  <2> QED BY <1>7, <2>1 DEF Fresh, Unwritten
<1>10. NotUndone(e)
    BY <1>5, <1>6, <1>6a, <1>7 DEF NotUndone
<1>11. ImagesKept
  <2>1. PICK E \in SUBSET Entry : E = {e}
      BY <1>5
  <2>2. \A x \in Entry \ {e} : entry'[e].key # None => entry'[x].key # entry'[e].key
      BY <1>3, <1>5, <1>7 DEF KeysOnce
  <2>3. \A x \in Entry \ E : SameImage(entry[x], entry'[x])
      BY <1>8, <2>1
  <2>4. \A y \in E : /\ Fresh(entry'[y], file) /\ NotUndone(y)
                     /\ entry'[y].key # None =>
                           \A x \in Entry \ {y} : entry'[x].key # entry'[y].key
      BY <1>9, <1>10, <2>1, <2>2
  <2> QED BY <1>2, <2>3, <2>4, SomeImages
<1>12. QuietEntries /\ \A x \in Dev : FewerHands(x, entry, entry')
  <2>1. \A x \in Entry : /\ entry'[x].key = entry[x].key
                         /\ entry'[x].flag \cap Hands \subseteq entry[x].flag
                         /\ "READING" \in entry'[x].flag <=> "READING" \in entry[x].flag
      BY <1>7 DEF Hands
  <2> QED BY <2>1 DEF QuietEntries, FewerHands, Of
<1>13. \A x \in Dev : HandOK(x)'
    BY <1>2, <1>12, HandsStay
<1> QED BY <1>11, <1>13 DEF Preserved

LEMMA EndIoKept == ASSUME Kept, NEW d \in Dev, EndIo(d) PROVE Preserved
<1>1. PICK ent : ent = Deactivated(d)
    OBVIOUS
<1>2. /\ pc[d] = "run" /\ UNCHANGED <<file, current, job>> /\ pc' = [pc EXCEPT ![d] = "idle"]
      /\ pc \in [Dev \cup Ra -> IoPc \cup RaPc] /\ (FlushCache(d, ent) \/ entry' = ent)
    BY <1>1 DEF EndIo, Kept, Own, Inv, Types, ThreadTypes
<1>3. /\ EntriesOK(ent) /\ NoHands(d, ent)
      /\ \A e \in Entry : SameImage(entry[e], ent[e])
      /\ \A x \in Dev : FewerHands(x, entry, ent)
    BY <1>1, <1>2, HandsDeactivated
<1>4. /\ \A e \in Entry : SameImage(entry[e], entry'[e])
      /\ \A x \in Dev : FewerHands(x, entry, entry')
  <2>1. CASE FlushCache(d, ent)
      BY <1>3, <2>1, FlushImages
  <2>2. CASE entry' = ent
      BY <1>3, <2>2
  <2> QED BY <1>2, <2>1, <2>2
<1>5. NoHands(d, entry')
  <2>1. CASE FlushCache(d, ent)
    <3>1. entry' = Flushed(d, ent)
        BY <2>1 DEF FlushCache, Flushed
    <3>2. \A e \in Entry : /\ entry'[e].key = ent[e].key
                           /\ entry'[e].flag = IF e \in Dirty(d, ent) THEN {"WRITE"} ELSE ent[e].flag
        BY <1>3, <3>1, FlushedFacts
    <3>3. Of(d, entry') = Of(d, ent)
        BY <3>2 DEF Of
    <3>4. \A e \in Of(d, ent) : e \in Entry
        BY DEF Of
    <3> QED BY <1>3, <3>2, <3>3, <3>4 DEF NoHands, Hands
  <2>2. CASE entry' = ent
      BY <1>3, <2>2
  <2> QED BY <1>2, <2>1, <2>2
<1>6. pc'[d] = "idle" /\ \A x \in Dev \ {d} : pc'[x] = pc[x] /\ job'[x] = job[x] /\ current'[x] = current[x]
    BY <1>2
<1>7. HandOK(d)'
    BY <1>5, <1>6, NoHandsOK
<1> QED BY <1>2, <1>4, <1>6, <1>7, IoMoves

-----------------------------------------------------------------------------
(* Reads: waiting for an entry, reading ahead, and making room *)

LEMMA IoWaitKept == ASSUME Kept, NEW d \in Dev, IoWaitWoken(d) PROVE Preserved
<1>1. PICK e : e = job[d].slot
    OBVIOUS
<1>2. /\ pc \in [Dev \cup Ra -> IoPc \cup RaPc] /\ job \in [Dev \cup Ra -> JobRec]
      /\ current \in [Dev -> CurRec] /\ entry \in [Entry -> EntryRec] /\ HandOK(d)
      /\ pc[d] = "iowait" /\ file' = file
    BY DEF Kept, Own, Inv, Types, ThreadTypes, EntriesOK, IoWaitWoken
<1>3. e \in Entry /\ entry[e].key = <<d, job[d].trk>>
    BY <1>1, <1>2 DEF Kept, Own, Inv, IoOK, Uses
<1>4. Hand(d) = e
    BY <1>1, <1>2 DEF Hand
<1>5. ASSUME NEW f, f \ {"IOWAIT"} = entry[e].flag \ {"IOWAIT"}, entry' = [entry EXCEPT ![e].flag = f]
      PROVE  /\ \A x \in Entry : SameImage(entry[x], entry'[x])
             /\ \A x \in Dev \ {d} : FewerHands(x, entry, entry')
             /\ Of(d, entry') = Of(d, entry) /\ entry'[e].flag = f
             /\ \A x \in Entry \ {e} : entry'[x] = entry[x]
  <2>1. PICK r : r = [entry[e] EXCEPT !.flag = f]
      OBVIOUS
  <2>2. r.key = entry[e].key /\ r.image = entry[e].image /\ r.flag = f
      BY <1>2, <1>3, <2>1 DEF EntryRec
  <2>3. entry' = [entry EXCEPT ![e] = r]
      BY <1>5, <2>1
  <2>4. entry'[e] = r /\ \A x \in Entry \ {e} : entry'[x] = entry[x]
      BY <1>2, <1>3, <2>3
  <2>5. "READING" \in f <=> "READING" \in entry[e].flag
      BY <1>5
  <2>6. f \cap Unwritten = {} => entry[e].flag \cap Unwritten = {}
      BY <1>5 DEF Unwritten
  <2>7. \A x \in Entry : SameImage(entry[x], entry'[x])
      BY <2>2, <2>4, <2>5, <2>6 DEF SameImage
  <2>8. \A x \in Dev : Of(x, entry') = Of(x, entry)
      BY <2>7 DEF Of, SameImage
  <2>9. ASSUME NEW x \in Dev \ {d} PROVE FewerHands(x, entry, entry')
    <3>1. \A y \in Of(x, entry') : y \in Entry \ {e}
        BY <1>3, <2>8 DEF Of
    <3> QED BY <2>4, <2>8, <3>1 DEF FewerHands
  <2> QED BY <2>2, <2>4, <2>7, <2>8, <2>9
<1>6. \A x \in Dev \ {d} : pc'[x] = pc[x] /\ job'[x] = job[x] /\ current'[x] = current[x]
    BY <1>2 DEF IoWaitWoken, iovars
<1>7. CASE entry[e].flag \cap IoBusy # {}
  <2>1. entry' = [entry EXCEPT ![e].flag = @ \cup {"IOWAIT"}] /\ UNCHANGED <<current, pc, job>>
      BY <1>1, <1>7 DEF IoWaitWoken, iovars
  <2>2. PICK f : f = entry[e].flag \cup {"IOWAIT"}
      OBVIOUS
  <2>3. /\ \A x \in Entry : SameImage(entry[x], entry'[x])
        /\ \A x \in Dev \ {d} : FewerHands(x, entry, entry')
        /\ Of(d, entry') = Of(d, entry)
        /\ \A x \in Entry \ {e} : entry'[x] = entry[x]
    <3>1. entry' = [entry EXCEPT ![e].flag = f] /\ f \ {"IOWAIT"} = entry[e].flag \ {"IOWAIT"}
        BY <1>2, <1>3, <2>1, <2>2
    <3> QED BY <1>5, <3>1
  <2>4. \A x \in Of(d, entry') : /\ "ACTIVE" \in entry'[x].flag => x = e
                                 /\ "IOWAIT" \in entry'[x].flag => x = e
    <3> SUFFICES ASSUME NEW x \in Of(d, entry'), x # e
                 PROVE  "ACTIVE" \notin entry'[x].flag /\ "IOWAIT" \notin entry'[x].flag
        OBVIOUS
    <3>1. x \in Of(d, entry) /\ entry'[x] = entry[x]
        BY <2>3 DEF Of
    <3> QED BY <1>1, <1>2, <1>4, <3>1 DEF HandOK
  <2>5. HandOK(d)'
    <3>1. Hand(d)' = e /\ pc'[d] = "iowait" /\ job'[d].slot = e
        BY <1>1, <1>2, <2>1 DEF Hand
    <3> QED BY <2>4, <3>1, HandMoves
  <2> QED BY <1>2, <1>6, <2>3, <2>5, IoMoves
<1>8. CASE entry[e].flag \cap IoBusy = {}
  <2>1. /\ entry' = [entry EXCEPT ![e].flag = @ \ {"IOWAIT"}]
        /\ current' = [current EXCEPT ![d] = [trk |-> job[d].trk, slot |-> e]]
        /\ pc' = [pc EXCEPT ![d] = IF job[d].ahead THEN "ahead" ELSE "run"]
        /\ job' = IF job[d].ahead THEN job ELSE [job EXCEPT ![d] = NoJob]
      BY <1>1, <1>8 DEF IoWaitWoken
  <2>2. PICK f : f = entry[e].flag \ {"IOWAIT"}
      OBVIOUS
  <2>3. /\ \A x \in Entry : SameImage(entry[x], entry'[x])
        /\ \A x \in Dev \ {d} : FewerHands(x, entry, entry')
        /\ Of(d, entry') = Of(d, entry) /\ entry'[e].flag = f
        /\ \A x \in Entry \ {e} : entry'[x] = entry[x]
    <3>1. entry' = [entry EXCEPT ![e].flag = f] /\ f \ {"IOWAIT"} = entry[e].flag \ {"IOWAIT"}
        BY <1>2, <1>3, <2>1, <2>2
    <3> QED BY <1>5, <3>1
  <2>4. \A x \in Of(d, entry') : /\ "ACTIVE" \in entry'[x].flag => x = e
                                 /\ "IOWAIT" \notin entry'[x].flag
    <3> SUFFICES ASSUME NEW x \in Of(d, entry')
                 PROVE  /\ "ACTIVE" \in entry'[x].flag => x = e
                        /\ "IOWAIT" \notin entry'[x].flag
        OBVIOUS
    <3>1. CASE x = e
        BY <2>2, <2>3, <3>1
    <3>2. CASE x # e
      <4>1. x \in Of(d, entry) /\ entry'[x] = entry[x]
          BY <2>3, <3>2 DEF Of
      <4> QED BY <1>1, <1>2, <1>4, <3>2, <4>1 DEF HandOK
    <3> QED BY <3>1, <3>2
  <2>5. /\ current'[d].slot = e /\ pc'[d] \in {"ahead", "run"}
        /\ pc'[d] = "ahead" => job'[d] = job[d]
    <3>1. PICK c : c = [trk |-> job[d].trk, slot |-> e]
        OBVIOUS
    <3>2. c.slot = e /\ current'[d] = c
        BY <1>2, <2>1, <3>1
    <3> QED BY <1>2, <2>1, <3>2
  <2>6. Hand(d)' = e
      BY <1>1, <2>5 DEF Hand
  <2>7. HandOK(d)'
      BY <1>1, <2>4, <2>5, <2>6, HandMoves
  <2> QED BY <1>2, <1>6, <2>3, <2>7, IoMoves
<1> QED BY <1>7, <1>8

LEMMA ReadaheadKept == ASSUME Kept, NEW d \in Dev, Readahead(d) PROVE Preserved
<1>1. /\ pc \in [Dev \cup Ra -> IoPc \cup RaPc] /\ job \in [Dev \cup Ra -> JobRec] /\ Dev \cap Ra = {}
      /\ pc[d] = "ahead" /\ UNCHANGED <<entry, file, current>> /\ HandOK(d)
    BY CckdAssumption DEF Kept, Own, Inv, Types, ThreadTypes, Readahead
<1>2. PICK p \in {"load", "run"} :
         /\ p = "load" <=> "READING" \in entry[job[d].slot].flag
         /\ \/ ScheduleRa([pc EXCEPT ![d] = p])
            \/ pc' = [pc EXCEPT ![d] = p] /\ UNCHANGED racond
         /\ job' = IF p = "load" THEN job ELSE [job EXCEPT ![d] = NoJob]
  <2>1. CASE "READING" \in entry[job[d].slot].flag
      BY <2>1 DEF Readahead
  <2>2. CASE "READING" \notin entry[job[d].slot].flag
      BY <2>2 DEF Readahead
  <2> QED BY <2>1, <2>2
<1>3. PICK pcs : pcs = [pc EXCEPT ![d] = p]
    OBVIOUS
<1>4. pcs \in [Dev \cup Ra -> IoPc \cup RaPc] /\ pcs[d] = p /\ \A t \in Dev \ {d} : pcs[t] = pc[t]
    BY <1>1, <1>3 DEF IoPc
<1>5. \A x \in Dev : pc'[x] = pcs[x]
  <2>1. ScheduleRa(pcs) \/ (pc' = pcs /\ UNCHANGED racond)
      BY <1>2, <1>3
  <2> QED BY <1>4, <2>1, ScheduleRaFacts
<1>6. \A x \in Dev \ {d} : pc'[x] = pc[x] /\ job'[x] = job[x] /\ current'[x] = current[x]
    BY <1>1, <1>2, <1>4, <1>5
<1>7. Hand(d)' = Hand(d) /\ pc'[d] # "ahead"
    BY <1>1, <1>2, <1>4, <1>5 DEF Hand, HandOK
<1>8. HandOK(d)'
    BY <1>1, <1>7 DEF HandOK
<1>9. /\ \A x \in Entry : SameImage(entry[x], entry'[x])
      /\ \A x \in Dev : FewerHands(x, entry, entry')
    BY <1>1 DEF SameImage, FewerHands
<1> QED BY <1>1, <1>6, <1>8, <1>9, IoMoves

LEMMA RaKept == ASSUME Kept, NEW r \in Ra, RaNext(r) \/ RaEnd(r) PROVE Preserved
<1>1. /\ pc \in [Dev \cup Ra -> IoPc \cup RaPc] /\ job \in [Dev \cup Ra -> JobRec] /\ r \notin Dev
      /\ UNCHANGED <<entry, file, current>>
    BY CckdAssumption DEF Kept, Own, Inv, Types, ThreadTypes, RaNext, RaEnd
<1>2. \A d \in Dev : job'[d] = job[d]
    BY <1>1 DEF RaNext, RaEnd
<1>3. PICK p \in {"ratop", "rawait", "search"} :
         ScheduleRa([pc EXCEPT ![r] = p]) \/ pc' = [pc EXCEPT ![r] = p]
    BY DEF RaNext, RaEnd
<1>4. PICK pcs : pcs = [pc EXCEPT ![r] = p]
    OBVIOUS
<1>5. pcs \in [Dev \cup Ra -> IoPc \cup RaPc] /\ \A d \in Dev : pcs[d] = pc[d]
    BY <1>1, <1>4 DEF RaPc
<1>6. \A d \in Dev : pc'[d] = pc[d]
  <2>1. CASE ScheduleRa(pcs)
      BY <1>5, <2>1, ScheduleRaFacts
  <2>2. CASE pc' = pcs
      BY <1>5, <2>2
  <2> QED BY <1>3, <1>4, <2>1, <2>2
<1> QED BY <1>1, <1>2, <1>6, NothingMoves

LEMMA CacheWaitKept == ASSUME Kept, NEW t \in Dev \cup Ra, CacheWait(t) PROVE Preserved
<1>1. /\ pc \in [Dev \cup Ra -> IoPc \cup RaPc] /\ pc[t] = "space" /\ pc' = [pc EXCEPT ![t] = "search"]
      /\ UNCHANGED <<entry, file, current, job>>
    BY DEF Kept, Own, Inv, Types, ThreadTypes, CacheWait
<1>2. /\ \A x \in Entry : SameImage(entry[x], entry'[x])
      /\ \A x \in Dev : FewerHands(x, entry, entry')
    BY <1>1 DEF SameImage, FewerHands
<1>3. CASE t \in Dev
  <2>1. NoHands(t, entry') /\ pc'[t] = "search"
      BY <1>1, <1>3, EmptyHands
  <2>2. HandOK(t)'
      BY <1>3, <2>1, NoHandsOK
  <2>3. \A x \in Dev \ {t} : pc'[x] = pc[x]
      BY <1>1
  <2> QED BY <1>1, <1>2, <1>3, <2>2, <2>3, IoMoves
<1>4. CASE t \notin Dev
  <2>1. \A x \in Dev : pc'[x] = pc[x]
      BY <1>1, <1>4
  <2> QED BY <1>1, <2>1, NothingMoves
<1> QED BY <1>3, <1>4

LEMMA FlushNextKept == ASSUME Kept, NEW t \in Dev \cup Ra, FlushNext(t) PROVE Preserved
<1>1. /\ pc \in [Dev \cup Ra -> IoPc \cup RaPc] /\ job \in [Dev \cup Ra -> JobRec] /\ job[t] \in JobRec
      /\ pc[t] = "flush" /\ UNCHANGED <<file, current>> /\ Dev \cap Ra = {}
    BY CckdAssumption DEF Kept, Own, Inv, Types, ThreadTypes, FlushNext
<1>2. PICK d \in job[t].todo :
        /\ entry' = entry \/ FlushCache(d, entry)
        /\ IF job[t].todo = {d} /\ job[t].slot # None THEN Done(t)
           ELSE /\ job' = [job EXCEPT ![t].todo = @ \ {d}]
                /\ pc' = [pc EXCEPT ![t] = IF job[t].todo = {d} THEN "space" ELSE "flush"]
    BY DEF FlushNext
<1>3. d \in Dev /\ EntriesOK(entry)
    BY <1>1 DEF JobRec, Kept, Own, Inv
<1>4. /\ ImagesKept
      /\ \A x \in Dev : pc'[x] = pc[x] /\ job'[x] = job[x] /\ current'[x] = current[x] => HandOK(x)'
    BY <1>1, <1>2, <1>3, FlushKept
<1>5. \A x \in (Dev \cup Ra) \ {t} : pc'[x] = pc[x] /\ job'[x] = job[x]
    BY <1>1, <1>2 DEF Done
<1>6. ASSUME t \in Dev PROVE HandOK(t)'
  <2>1. /\ pc'[t] \in {"run", "space", "flush"}
        /\ pc'[t] = "run" => job[t].slot # None
        /\ pc'[t] = "space" => job[t].slot = None
        /\ pc'[t] = "flush" => job'[t].slot = job[t].slot
    <3>1. CASE job[t].todo = {d} /\ job[t].slot # None
      <4>1. pc'[t] = "run"
          BY <1>1, <1>2, <1>6, <3>1 DEF Done
      <4> QED BY <3>1, <4>1
    <3>2. CASE ~(job[t].todo = {d} /\ job[t].slot # None)
      <4>1. /\ job' = [job EXCEPT ![t].todo = @ \ {d}]
            /\ pc' = [pc EXCEPT ![t] = IF job[t].todo = {d} THEN "space" ELSE "flush"]
          BY <1>2, <3>2
      <4>2. PICK n : n = [job[t] EXCEPT !.todo = @ \ {d}]
          OBVIOUS
      <4>3. n.slot = job[t].slot
          BY <1>1, <4>2 DEF JobRec
      <4>4. job'[t] = n
          BY <1>1, <4>1, <4>2
      <4> QED BY <1>1, <3>2, <4>1, <4>3, <4>4
    <3> QED BY <3>1, <3>2
  <2>2. Hand(t)' = Hand(t)
      BY <1>1, <2>1 DEF Hand
  <2>3. FewerHands(t, entry, entry')
    <3>1. /\ \A e \in Entry : SameImage(entry[e], entry[e])
          /\ \A x \in Dev : FewerHands(x, entry, entry)
        BY DEF SameImage, FewerHands
    <3>2. CASE entry' = entry
        BY <1>6, <3>1, <3>2
    <3>3. CASE FlushCache(d, entry)
        BY <1>3, <1>6, <3>1, <3>3, FlushImages
    <3> QED BY <1>2, <3>2, <3>3
  <2>4. ASSUME NEW x \in Of(t, entry')
        PROVE  /\ "ACTIVE" \in entry'[x].flag => x = Hand(t)
               /\ "IOWAIT" \notin entry'[x].flag
    <3>1. HandOK(t) /\ pc[t] # "iowait"
        BY <1>1, <1>6 DEF Kept
    <3> QED BY <2>3, <3>1 DEF FewerHands, HandOK, Hands
  <2> QED BY <1>6, <2>1, <2>2, <2>4, HandMoves
<1>7. ASSUME NEW x \in Dev PROVE HandOK(x)'
    BY <1>1, <1>4, <1>5, <1>6
<1> QED BY <1>4, <1>7 DEF Preserved

-----------------------------------------------------------------------------
(* Reads: looking up, and the end of the input *)

\* The cache as ReadTrk or SearchAgain finds it: the program of d has nothing in
\* its hands.
Found(d, ent) ==
    /\ EntriesOK(ent) /\ NoHands(d, ent)
    /\ \A e \in Entry : SameImage(entry[e], ent[e])
    /\ \A x \in Dev : FewerHands(x, entry, ent)

\* An entry of the cache ent, not busy, is given to a track of which there is none.
StealsFor(k, ent, e, r) ==
    /\ EntriesOK(ent) /\ Holding(k, ent) = {} /\ e \in NotBusy(ent)
    /\ \A x \in Entry : SameImage(entry[x], ent[x])
    /\ entry' = [ent EXCEPT ![e] = r] /\ r.key = k /\ "READING" \in r.flag

Stole(ent, e, r) ==
    /\ ImagesKept /\ e \in Entry /\ entry'[e] = r
    /\ \A x \in Entry \ {e} : entry'[x] = ent[x]

LEMMA StealKept ==
    ASSUME Kept, file' = file, NEW k \in Key, NEW ent, NEW e, NEW r, StealsFor(k, ent, e, r)
    PROVE  Stole(ent, e, r)
<1>0. /\ EntriesOK(ent) /\ Holding(k, ent) = {} /\ e \in NotBusy(ent)
      /\ \A x \in Entry : SameImage(entry[x], ent[x])
      /\ entry' = [ent EXCEPT ![e] = r] /\ r.key = k /\ "READING" \in r.flag
    BY DEF StealsFor
<1>1. e \in Entry /\ ent[e].flag = {} /\ ent \in [Entry -> EntryRec] /\ entry \in [Entry -> EntryRec]
    BY <1>0 DEF NotBusy, EntriesOK, Kept, Own, Inv
<1>2. entry'[e] = r /\ \A x \in Entry \ {e} : entry'[x] = ent[x]
    BY <1>0, <1>1
<1>3. Fresh(entry'[e], file)
    BY <1>0, <1>2 DEF Fresh
<1>4. NotUndone(e)
  <2>1. SameImage(entry[e], ent[e])
      BY <1>0, <1>1
  <2>2. entry[e].flag \cap Unwritten = {}
      BY <1>1, <2>1 DEF SameImage
  <2>3. Fresh(entry[e], file)
      BY <1>1 DEF Kept
  <2>4. entry[e].image \in Int
      BY <1>1, ImageFacts DEF EntryRec
  <2> QED BY <2>2, <2>3, <2>4 DEF NotUndone, Fresh
<1>5. \A x \in Entry \ {e} : entry'[x].key # entry'[e].key
    BY <1>0, <1>2 DEF Holding
<1>6. ImagesKept
  <2>1. PICK E \in SUBSET Entry : E = {e}
      BY <1>1
  <2>2. \A x \in Entry \ E : SameImage(entry[x], entry'[x])
      BY <1>0, <1>2, <2>1
  <2>3. \A y \in E : /\ Fresh(entry'[y], file) /\ NotUndone(y)
                     /\ entry'[y].key # None =>
                           \A x \in Entry \ {y} : entry'[x].key # entry'[y].key
      BY <1>3, <1>4, <1>5, <2>1
  <2> QED BY <2>2, <2>3, SomeImages
<1> QED BY <1>1, <1>2, <1>6 DEF Stole

\* A look-up for the i/o thread of d.
LEMMA SearchIoKept ==
    ASSUME Kept, NEW d \in Dev, NEW j \in JobRec, j.dev = d, j.trk \in Tracks[d],
           NEW ent, Found(d, ent), Search(d, j, ent), file' = file
    PROVE  Preserved
<1>1. /\ pc \in [Dev \cup Ra -> IoPc \cup RaPc] /\ job \in [Dev \cup Ra -> JobRec]
      /\ current \in [Dev -> CurRec] /\ d \notin Ra
    BY CckdAssumption DEF Kept, Own, Inv, Types, ThreadTypes
<1>2. /\ EntriesOK(ent) /\ NoHands(d, ent) /\ ent \in [Entry -> EntryRec]
      /\ \A e \in Entry : SameImage(entry[e], ent[e])
      /\ \A x \in Dev : FewerHands(x, entry, ent)
    BY DEF Found, EntriesOK
<1>3. PICK k \in Key : k = <<d, j.trk>>
    BY KeyFacts
<1>4. \A x \in Dev \ {d} : pc'[x] = pc[x] /\ job'[x] = job[x] /\ current'[x] = current[x]
  <2>1. /\ \E p : pc' = [pc EXCEPT ![d] = p]
        /\ \E n : job' = [job EXCEPT ![d] = n]
        /\ \E c : current' = [current EXCEPT ![d] = c]
      BY <1>1 DEF Search
  <2> QED BY <1>1, <2>1
<1>5. ASSUME NEW e \in Entry, ent[e].key = k, NEW b \in BOOLEAN, b <=> ent[e].flag \cap IoBusy # {},
             job' = [job EXCEPT ![d] = IF b \/ j.ahead THEN [j EXCEPT !.slot = e] ELSE NoJob],
             entry' = [ent EXCEPT ![e].flag = Activated(@) \cup (IF b THEN {"IOWAIT"} ELSE {})],
             current' = [current EXCEPT ![d] = IF b THEN NoCurrent ELSE [trk |-> j.trk, slot |-> e]],
             pc' = [pc EXCEPT ![d] = IF b THEN "iowait" ELSE IF j.ahead THEN "ahead" ELSE "run"]
      PROVE  Preserved
  <2>1. PICK f \in SUBSET {"IOWAIT"} : f = IF b THEN {"IOWAIT"} ELSE {}
      OBVIOUS
  <2>2. e \in Of(d, ent)
      BY <1>3, <1>5, KeyFacts DEF Of
  <2>3. entry' = WithFlag(ent, e, Activated(ent[e].flag) \cup f)
      BY <1>5, <2>1 DEF WithFlag
  <2>4. TakenUp(d, e, f)
      BY <1>2, <2>2, <2>3, TakenUpFacts
  <2>5. PICK n : n = [j EXCEPT !.slot = e]
      OBVIOUS
  <2>6. n.slot = e
      BY <2>5 DEF JobRec
  <2>7. PICK c : c = [trk |-> j.trk, slot |-> e]
      OBVIOUS
  <2>8. c.slot = e
      BY <2>7
  <2>9. CASE b
    <3>1. pc'[d] = "iowait" /\ job'[d].slot = e
        BY <1>1, <1>5, <2>5, <2>6, <2>9
    <3>2. Hand(d)' = e
        BY <3>1 DEF Hand
    <3>3. HandOK(d)'
        BY <2>4, <3>1, <3>2, HandMoves DEF TakenUp
    <3> QED BY <1>4, <2>4, <3>3, IoMoves DEF TakenUp
  <2>10. CASE ~b
    <3>1. f = {}
        BY <2>1, <2>10
    <3>2. /\ current'[d].slot = e /\ pc'[d] \in {"ahead", "run"}
          /\ pc'[d] = "ahead" => job'[d].slot = e
        BY <1>1, <1>5, <2>5, <2>6, <2>7, <2>8, <2>10
    <3>3. Hand(d)' = e
        BY <3>2 DEF Hand
    <3>4. HandOK(d)'
        BY <2>4, <3>1, <3>2, <3>3, HandMoves DEF TakenUp
    <3> QED BY <1>4, <2>4, <3>4, IoMoves DEF TakenUp
  <2> QED BY <2>9, <2>10
<1>6. ASSUME NEW e \in NotBusy(ent), Holding(k, ent) = {}, NEW r,
             r.key = k, "READING" \in r.flag, "IOWAIT" \notin r.flag, entry' = [ent EXCEPT ![e] = r],
             NEW n \in JobRec, n.slot = e, job' = [job EXCEPT ![d] = n],
             NEW p \in {"ahead", "load"}, pc' = [pc EXCEPT ![d] = p]
      PROVE  Preserved
  <2>1. /\ ImagesKept /\ e \in Entry /\ entry'[e] = r
        /\ \A x \in Entry \ {e} : entry'[x] = ent[x]
    <3>1. StealsFor(k, ent, e, r)
        BY <1>2, <1>6 DEF StealsFor
    <3>2. Stole(ent, e, r)
        BY <1>3, <3>1, StealKept
    <3> QED BY <3>2 DEF Stole
  <2>2. pc'[d] = p /\ job'[d].slot = e
      BY <1>1, <1>6
  <2>3. Hand(d)' = e
      BY <2>2 DEF Hand
  <2>4. ASSUME NEW x \in Of(d, entry')
        PROVE  /\ "ACTIVE" \in entry'[x].flag => x = e
               /\ "IOWAIT" \notin entry'[x].flag
    <3>1. CASE x = e
        BY <1>6, <2>1, <3>1
    <3>2. CASE x # e
      <4>1. x \in Of(d, ent) /\ entry'[x] = ent[x]
          BY <2>1, <3>2 DEF Of
      <4> QED BY <1>2, <4>1 DEF NoHands, Hands
    <3> QED BY <3>1, <3>2
  <2>5. HandOK(d)'
    <3>1. pc'[d] # "iowait" /\ "READING" \in entry'[job'[d].slot].flag
        BY <1>6, <2>1, <2>2
    <3> QED BY <2>3, <2>4, <3>1, HandMoves
  <2>6. ASSUME NEW x \in Dev \ {d} PROVE HandOK(x)'
    <3>1. \A y \in Of(x, entry') : y \in Of(x, ent) /\ entry'[y] = ent[y]
        BY <1>3, <1>6, <2>1 DEF Of
    <3>2. FewerHands(x, entry, entry')
        BY <1>2, <3>1 DEF FewerHands
    <3>3. pc[x] = "ahead" /\ "READING" \in entry[job[x].slot].flag => "READING" \in entry'[job[x].slot].flag
      <4> SUFFICES ASSUME pc[x] = "ahead", "READING" \in entry[job[x].slot].flag
                   PROVE  "READING" \in entry'[job[x].slot].flag
          OBVIOUS
      <4>1. job[x].slot \in Entry
          BY DEF Kept, Own, Inv, IoOK, Uses
      <4>2. "READING" \in ent[job[x].slot].flag
          BY <1>2, <4>1 DEF SameImage
      <4>3. ent[e].flag = {}
          BY DEF NotBusy
      <4> QED BY <2>1, <4>1, <4>2, <4>3
    <3> QED BY <1>4, <3>2, <3>3, HandKept DEF Kept
  <2> QED BY <2>1, <2>5, <2>6 DEF Preserved
<1>7. CASE entry' = ent /\ current' = [current EXCEPT ![d] = NoCurrent] /\ pc' = [pc EXCEPT ![d] = "flush"]
  <2>1. pc'[d] # "ahead"
      BY <1>1, <1>7
  <2>2. HandOK(d)'
      BY <1>2, <1>7, <2>1, NoHandsOK
  <2> QED BY <1>2, <1>4, <1>7, <2>2, IoMoves
<1>8. CASE \E e \in Holding(k, ent) :
              LET busy == ent[e].flag \cap IoBusy # {} IN
              /\ job' = [job EXCEPT ![d] = IF d \in Ra \/ busy \/ j.ahead THEN [j EXCEPT !.slot = e] ELSE NoJob]
              /\ entry' = [ent EXCEPT ![e].flag = Activated(@) \cup (IF busy THEN {"IOWAIT"} ELSE {})]
              /\ current' = [current EXCEPT ![d] = IF busy THEN NoCurrent ELSE [trk |-> j.trk, slot |-> e]]
              /\ pc' = [pc EXCEPT ![d] = IF busy THEN "iowait" ELSE IF j.ahead THEN "ahead" ELSE "run"]
  <2>1. PICK e \in Holding(k, ent) :
              LET busy == ent[e].flag \cap IoBusy # {} IN
              /\ job' = [job EXCEPT ![d] = IF d \in Ra \/ busy \/ j.ahead THEN [j EXCEPT !.slot = e] ELSE NoJob]
              /\ entry' = [ent EXCEPT ![e].flag = Activated(@) \cup (IF busy THEN {"IOWAIT"} ELSE {})]
              /\ current' = [current EXCEPT ![d] = IF busy THEN NoCurrent ELSE [trk |-> j.trk, slot |-> e]]
              /\ pc' = [pc EXCEPT ![d] = IF busy THEN "iowait" ELSE IF j.ahead THEN "ahead" ELSE "run"]
      BY <1>8
  <2>2. PICK b \in BOOLEAN : b = (ent[e].flag \cap IoBusy # {})
      OBVIOUS
  <2>3. e \in Entry /\ ent[e].key = k
      BY DEF Holding
  <2>4. job' = [job EXCEPT ![d] = IF b \/ j.ahead THEN [j EXCEPT !.slot = e] ELSE NoJob]
      BY <1>1, <2>1, <2>2
  <2>5. /\ entry' = [ent EXCEPT ![e].flag = Activated(@) \cup (IF b THEN {"IOWAIT"} ELSE {})]
        /\ current' = [current EXCEPT ![d] = IF b THEN NoCurrent ELSE [trk |-> j.trk, slot |-> e]]
        /\ pc' = [pc EXCEPT ![d] = IF b THEN "iowait" ELSE IF j.ahead THEN "ahead" ELSE "run"]
      BY <2>1, <2>2
  <2> QED BY <1>5, <2>2, <2>3, <2>4, <2>5
<1>9. CASE /\ Holding(k, ent) = {}
           /\ \E e \in NotBusy(ent) :
                /\ entry' = [ent EXCEPT ![e] = [key |-> k, image |-> 0, flag |-> {"READING"} \cup {"ACTIVE"}]]
                /\ job' = [job EXCEPT ![d] = [j EXCEPT !.slot = e]]
                /\ pc' = [pc EXCEPT ![d] = IF j.ahead THEN "ahead" ELSE "load"]
  <2>1. PICK e \in NotBusy(ent) :
                /\ entry' = [ent EXCEPT ![e] = [key |-> k, image |-> 0, flag |-> {"READING"} \cup {"ACTIVE"}]]
                /\ job' = [job EXCEPT ![d] = [j EXCEPT !.slot = e]]
                /\ pc' = [pc EXCEPT ![d] = IF j.ahead THEN "ahead" ELSE "load"]
      BY <1>9
  <2>2. PICK r : r = [key |-> k, image |-> 0, flag |-> {"READING"} \cup {"ACTIVE"}]
      OBVIOUS
  <2>3. r.key = k /\ "READING" \in r.flag /\ "IOWAIT" \notin r.flag
      BY <2>2
  <2>4. PICK n \in JobRec : n = [j EXCEPT !.slot = e]
    <3>1. [j EXCEPT !.slot = e] \in JobRec
        BY DEF JobRec, NotBusy
    <3> QED BY <3>1
  <2>5. n.slot = e
      BY <2>4 DEF JobRec
  <2>6. PICK p \in {"ahead", "load"} : p = IF j.ahead THEN "ahead" ELSE "load"
      OBVIOUS
  <2>7. entry' = [ent EXCEPT ![e] = r] /\ job' = [job EXCEPT ![d] = n] /\ pc' = [pc EXCEPT ![d] = p]
      BY <2>1, <2>2, <2>4, <2>6
  <2> QED BY <1>6, <1>9, <2>3, <2>5, <2>7
<1> QED BY <1>1, <1>3, <1>7, <1>8, <1>9 DEF Search

LEMMA ReadTrkKept == ASSUME Kept, NEW d \in Dev, NEW t \in Tracks[d], ReadTrk(d, t) PROVE Preserved
<1>1. PICK a \in BOOLEAN : a = (/\ current[d].trk # None /\ current[d].trk > 0
                                /\ t > current[d].trk /\ t <= current[d].trk + 2)
    OBVIOUS
<1>2. PICK j : j = [NoJob EXCEPT !.dev = d, !.trk = t, !.ahead = a]
    OBVIOUS
<1>3. j \in JobRec /\ j.dev = d /\ j.trk = t
    BY <1>2, KeyFacts DEF NoJob, JobRec
<1>4. PICK ent : ent = Deactivated(d)
    OBVIOUS
<1>5. pc[d] = "run" /\ Search(d, j, ent) /\ file' = file
    BY <1>1, <1>2, <1>4 DEF ReadTrk
<1>6. Found(d, ent)
    BY <1>4, <1>5, HandsDeactivated DEF Found
<1> QED BY <1>3, <1>5, <1>6, SearchIoKept

LEMMA SearchAgainKept == ASSUME Kept, NEW t \in Dev \cup Ra, SearchAgain(t) PROVE Preserved
<1>1. /\ pc[t] = "search" /\ Search(t, job[t], entry) /\ file' = file /\ EntriesOK(entry)
      /\ pc \in [Dev \cup Ra -> IoPc \cup RaPc] /\ job \in [Dev \cup Ra -> JobRec] /\ Dev \cap Ra = {}
      /\ current \in [Dev -> CurRec]
    BY CckdAssumption DEF SearchAgain, Kept, Own, Inv, Types, ThreadTypes
<1>2. /\ \A x \in Entry : SameImage(entry[x], entry[x])
      /\ \A x \in Dev : FewerHands(x, entry, entry)
    BY DEF SameImage, FewerHands
<1>3. CASE t \in Dev
  <2>1. Found(t, entry)
      BY <1>1, <1>2, <1>3, EmptyHands DEF Found
  <2>2. job[t] \in JobRec /\ job[t].dev = t /\ job[t].trk \in Tracks[t]
      BY <1>1, <1>3 DEF Kept, Own, Inv, IoOK
  <2> QED BY <1>1, <1>3, <2>1, <2>2, SearchIoKept
<1>4. CASE t \in Ra
  <2>1. /\ job[t] \in JobRec /\ job[t].dev \in Dev /\ job[t].trk \in UNION {Tracks[x] : x \in Dev}
        /\ t \notin Dev
      BY <1>1, <1>4 DEF Kept, Own, Inv, Threads, RaOK
  <2>2. PICK k \in Key : k = <<job[t].dev, job[t].trk>>
      BY <2>1, KeyFacts
  <2>3. \A x \in Dev : pc'[x] = pc[x] /\ job'[x] = job[x] /\ current'[x] = current[x]
      BY <1>1, <1>4, <2>1 DEF Search
  <2>4. CASE entry' = entry
      BY <1>1, <2>3, <2>4, NothingMoves
  <2>5. CASE /\ Holding(k, entry) = {}
             /\ \E e \in NotBusy(entry) :
                   entry' = [entry EXCEPT ![e] = [key |-> k, image |-> 0, flag |-> {"READING"} \cup {}]]
    <3>1. PICK e \in NotBusy(entry) :
                   entry' = [entry EXCEPT ![e] = [key |-> k, image |-> 0, flag |-> {"READING"} \cup {}]]
        BY <2>5
    <3>2. PICK r : r = [key |-> k, image |-> 0, flag |-> {"READING"} \cup {}]
        OBVIOUS
    <3>3. r.key = k /\ "READING" \in r.flag /\ r.flag \cap Hands = {} /\ entry' = [entry EXCEPT ![e] = r]
        BY <3>1, <3>2 DEF Hands
    <3>4. /\ ImagesKept /\ e \in Entry /\ entry'[e] = r
          /\ \A x \in Entry \ {e} : entry'[x] = entry[x]
      <4>1. StealsFor(k, entry, e, r)
          BY <1>1, <1>2, <2>5, <3>3 DEF StealsFor
      <4>2. Stole(entry, e, r)
          BY <1>1, <2>2, <4>1, StealKept
      <4> QED BY <4>2 DEF Stole
    <3>5. ASSUME NEW x \in Dev PROVE HandOK(x)'
      <4>1. FewerHands(x, entry, entry')
        <5> SUFFICES ASSUME NEW y \in Of(x, entry'), entry'[y].flag \cap Hands # {}
                     PROVE  y \in Of(x, entry) /\ entry'[y].flag \cap Hands \subseteq entry[y].flag
            BY DEF FewerHands
        <5>1. y # e
            BY <3>3, <3>4
        <5>2. y \in Of(x, entry) /\ entry'[y] = entry[y]
            BY <3>4, <5>1 DEF Of
        <5> QED BY <5>2
      <4>2. pc[x] = "ahead" /\ "READING" \in entry[job[x].slot].flag => "READING" \in entry'[job[x].slot].flag
        <5> SUFFICES ASSUME pc[x] = "ahead", "READING" \in entry[job[x].slot].flag
                     PROVE  "READING" \in entry'[job[x].slot].flag
            OBVIOUS
        <5>1. job[x].slot \in Entry
            BY DEF Kept, Own, Inv, IoOK, Uses
        <5>2. entry[e].flag = {}
            BY DEF NotBusy
        <5> QED BY <3>4, <5>1, <5>2
      <4> QED BY <2>3, <4>1, <4>2, HandKept DEF Kept
    <3> QED BY <3>4, <3>5 DEF Preserved
  <2> QED BY <1>1, <1>4, <2>1, <2>2, <2>4, <2>5 DEF Search
<1> QED BY <1>3, <1>4

\* The image read is that of the file, but for an error, and nobody else waits for
\* it to come.
LEMMA ReadEndKept == ASSUME Kept, NEW t \in Dev \cup Ra, ReadEnd(t) PROVE Preserved
<1>1. /\ pc \in [Dev \cup Ra -> IoPc \cup RaPc] /\ job \in [Dev \cup Ra -> JobRec] /\ job[t] \in JobRec
      /\ current \in [Dev -> CurRec] /\ entry \in [Entry -> EntryRec] /\ file \in [Key -> Image]
      /\ ReadersOK /\ KeysOnce(entry) /\ (\A x \in Entry : FlagOK(entry[x]))
      /\ Dev \cap Ra = {} /\ pc[t] = "load" /\ file' = file
    BY CckdAssumption DEF Kept, Own, Inv, Types, DiskTypes, ThreadTypes, EntriesOK, ReadEnd
<1>2. PICK e : e = job[t].slot
    OBVIOUS
<1>3. PICK k : k = <<job[t].dev, job[t].trk>>
    OBVIOUS
<1>4. e \in Entry /\ "READING" \in entry[e].flag /\ entry[e].key = k /\ Reading(t, e)
    BY <1>1, <1>2, <1>3 DEF ReadersOK, Reading
<1>5. k \in Key /\ k # None
  <2>1. entry[e].key # None
      BY <1>1, <1>4 DEF FlagOK
  <2> QED BY <1>1, <1>4, <2>1 DEF EntryRec
<1>5a. PICK i \in Read(k) : entry' = [entry EXCEPT ![e].flag = @ \ {"READING"}, ![e].image = i]
    BY <1>2, <1>3 DEF ReadEnd
<1>6. /\ entry'[e].key = k /\ entry'[e].image = i /\ entry'[e].flag = entry[e].flag \ {"READING"}
      /\ \A x \in Entry \ {e} : entry'[x] = entry[x]
  <2>3. PICK r : r = [entry[e] EXCEPT !.flag = @ \ {"READING"}, !.image = i]
      OBVIOUS
  <2>4. r.key = entry[e].key /\ r.image = i /\ r.flag = entry[e].flag \ {"READING"}
      BY <1>1, <1>4, <2>3 DEF EntryRec
  <2>5. entry' = [entry EXCEPT ![e] = r]
      BY <1>1, <1>4, <1>5a, <2>3
  <2> QED BY <1>1, <1>4, <2>4, <2>5
<1>7. ImagesKept
  <2>1. Fresh(entry'[e], file)
    <3>1. file[k] \in Int
        BY <1>1, <1>5, ImageFacts
    <3>2. k \in Reliable => i = file[k]
        BY <1>5a DEF Reliable, Read
    <3> QED BY <1>6, <3>1, <3>2 DEF Fresh
  <2>2. NotUndone(e)
      BY <1>4 DEF NotUndone
  <2>3. \A x \in Entry \ {e} : entry'[x].key # entry'[e].key
      BY <1>1, <1>4, <1>5, <1>6 DEF KeysOnce
  <2>4. PICK E \in SUBSET Entry : E = {e}
      BY <1>4
  <2>5. \A x \in Entry \ E : SameImage(entry[x], entry'[x])
      BY <1>6, <2>4 DEF SameImage
  <2>6. \A y \in E : /\ Fresh(entry'[y], file) /\ NotUndone(y)
                     /\ entry'[y].key # None =>
                           \A x \in Entry \ {y} : entry'[x].key # entry'[y].key
      BY <2>1, <2>2, <2>3, <2>4
  <2> QED BY <1>1, <2>5, <2>6, SomeImages
<1>8. \A x \in Dev : FewerHands(x, entry, entry')
  <2>1. \A x \in Entry : entry'[x].key = entry[x].key /\ entry'[x].flag \cap Hands \subseteq entry[x].flag
      BY <1>4, <1>6
  <2> QED BY <2>1 DEF FewerHands, Of
<1>9. /\ \A x \in (Dev \cup Ra) \ {t} : pc'[x] = pc[x] /\ job'[x] = job[x]
      /\ \A x \in Dev \ {t} : current'[x] = current[x]
  <2>1. /\ \E p : pc' = [pc EXCEPT ![t] = p]
        /\ job' = job \/ \E n : job' = [job EXCEPT ![t] = n]
      BY DEF ReadEnd, Done
  <2>2. \A x \in Dev \ {t} : current'[x] = current[x]
    <3>1. CASE t \in Dev
      <4>1. job[t].dev = t
          BY <1>1, <3>1 DEF Kept, Own, Inv, IoOK
      <4>2. \E c : current' = [current EXCEPT ![t] = c]
          BY <3>1, <4>1 DEF ReadEnd
      <4> QED BY <1>1, <4>2
    <3>2. CASE t \notin Dev
        BY <3>2 DEF ReadEnd
    <3> QED BY <3>1, <3>2
  <2> QED BY <1>1, <2>1, <2>2
<1>10. ASSUME NEW x \in Dev \ {t} PROVE HandOK(x)'
  <2>1. pc[x] = "ahead" /\ "READING" \in entry[job[x].slot].flag => "READING" \in entry'[job[x].slot].flag
    <3> SUFFICES ASSUME pc[x] = "ahead", "READING" \in entry[job[x].slot].flag
                 PROVE  "READING" \in entry'[job[x].slot].flag
        OBVIOUS
    <3>1. job[x].slot \in Entry
        BY DEF Kept, Own, Inv, IoOK, Uses
    <3>2. job[x].slot # e
        BY <1>1, <1>4, <1>10 DEF ReadersOK, Reading
    <3> QED BY <1>6, <3>1, <3>2
  <2> QED BY <1>8, <1>9, <2>1, HandKept DEF Kept
<1>11. ASSUME t \in Dev PROVE HandOK(t)'
  <2>1. job[t].dev = t /\ HandOK(t)
      BY <1>1, <1>11 DEF Kept, Own, Inv, IoOK
  <2>2. current'[t].slot = e
    <3>1. PICK c : c = [trk |-> job[t].trk, slot |-> e]
        OBVIOUS
    <3>2. current' = [current EXCEPT ![t] = c]
        BY <1>2, <1>11, <2>1, <3>1 DEF ReadEnd
    <3> QED BY <1>1, <1>11, <3>1, <3>2
  <2>3. pc'[t] = "run" \/ (pc'[t] = "flush" /\ job'[t].slot = e)
    <3>1. CASE Done(t)
        BY <1>1, <1>11, <3>1 DEF Done
    <3>2. CASE job' = [job EXCEPT ![t] = EnterFlushAll(@)] /\ pc' = [pc EXCEPT ![t] = "flush"]
      <4>1. PICK n : n = [job[t] EXCEPT !.todo = chain]
          OBVIOUS
      <4>2. n.slot = e
          BY <1>1, <1>2, <4>1 DEF JobRec
      <4>3. job'[t] = n
          BY <1>1, <3>2, <4>1 DEF EnterFlushAll
      <4> QED BY <1>1, <3>2, <4>2, <4>3
    <3> QED BY <3>1, <3>2 DEF ReadEnd
  <2>4. Hand(t)' = e /\ Hand(t) = e
      BY <1>1, <1>2, <1>4, <2>2, <2>3, KeyFacts DEF Hand
  <2>5. \A x \in Of(t, entry') : /\ "ACTIVE" \in entry'[x].flag => x = e
                                 /\ "IOWAIT" \notin entry'[x].flag
      BY <1>1, <1>8, <1>11, <2>1, <2>4 DEF FewerHands, HandOK, Hands
  <2> QED BY <1>11, <2>3, <2>4, <2>5, HandMoves
<1>12. \A x \in Dev : HandOK(x)'
    BY <1>10, <1>11
<1> QED BY <1>7, <1>12 DEF Preserved

-----------------------------------------------------------------------------

LEMMA InitKept == Init => Kept
<1> SUFFICES ASSUME Init PROVE Kept
    OBVIOUS
<1>1. Own
    BY InitOwn
<1>2. (\A e \in Entry : entry[e] = Empty) /\ \A d \in Dev : pc[d] = "idle"
    BY DEF Init
<1>5. None \notin Reliable
    BY CckdAssumption DEF Reliable
<1>3. KeysOnce(entry) /\ \A e \in Entry : Fresh(entry[e], file)
    BY <1>2, <1>5 DEF KeysOnce, Fresh, Empty
<1>4. \A d \in Dev : HandOK(d)
    BY <1>2 DEF HandOK, Of, Empty
<1> QED BY <1>1, <1>3, <1>4 DEF Kept

LEMMA StepPreserves == ASSUME Kept, [Next]_vars PROVE Preserved
<1>1. ASSUME NEW d \in Dev,
             \/ StartIo(d) \/ StartWoken(d) \/ Update(d) \/ EndIo(d)
             \/ \E t \in Tracks[d] : ReadTrk(d, t)
             \/ IoWaitWoken(d) \/ Readahead(d)
      PROVE  Preserved
    BY <1>1, StartKept, UpdateKept, EndIoKept, ReadTrkKept, IoWaitKept, ReadaheadKept
<1>2. ASSUME NEW t \in Dev \cup Ra, Reads(t) PROVE Preserved
    BY <1>2, SearchAgainKept, ReadEndKept, FlushNextKept, CacheWaitKept DEF Reads
<1>3. ASSUME NEW r \in Ra, RaNext(r) \/ RaEnd(r) PROVE Preserved
    BY <1>3, RaKept
<1>4. CASE Writers
    BY <1>4, WriterKept
<1>5. CASE Gcol
    BY <1>5, GcolKept
<1>6. ASSUME NEW d \in Dev, CloseBegin(d) \/ CloseFlush(d) \/ CloseEnd(d) \/ SfFlush(d) \/ SfEnd(d)
      PROVE  Preserved
    BY <1>6, CommandKept
<1>7. CASE UNCHANGED vars
    BY <1>7, NothingMoves DEF vars, iovars
<1> QED BY <1>1, <1>2, <1>3, <1>4, <1>5, <1>6, <1>7 DEF Next, Commands

LEMMA StepKept == ~Races /\ Kept /\ [Next]_vars => Kept'
<1> SUFFICES ASSUME ~Races, Kept, [Next]_vars PROVE Kept'
    OBVIOUS
<1>1. Own'
    BY StepOwn DEF Kept
<1>2. Preserved
    BY StepPreserves
<1>3. KeysOnce(entry') /\ (\A e \in Entry : Fresh(entry'[e], file')) /\ \A d \in Dev : HandOK(d)'
    BY <1>2 DEF Preserved, ImagesKept
<1> QED BY <1>1, <1>3 DEF Kept

LEMMA KeptAlways == ASSUME ~Races PROVE Spec => []Kept
BY InitKept, StepKept, PTL DEF Spec

\* No step makes the image that the next program will find older: neither a steal
\* nor a purge, a read that overtakes a write, nor a write that overtakes a
\* program that took the entry back (cckd_read_trk, cckd_purge_cache,
\* cckd_writer), with the commands of ~Races.  It holds of the tracks whose images
\* are read and written without error, whatever happens to the others: of a track
\* with errors cckd_read_trkimg and cckd_writer do lose updates.
THEOREM UpdatesAreKept == ASSUME ~Races PROVE Spec => NoUpdateLost
<1>1. Kept /\ Kept' /\ [Next]_vars => [\A k \in Key \ (Faulty \cup Fragile) : Newest(k) <= Newest(k)']_vars
  <2> SUFFICES ASSUME Kept, Kept', [Next]_vars, NEW k \in Reliable PROVE Newest(k) <= Newest(k)'
      BY DEF Reliable
  <2>1. ImagesKept
      BY StepPreserves DEF Preserved
  <2>2. Inv'
      BY DEF Kept, Own
  <2> QED BY <2>1, <2>2, NewestGrows
<1> QED BY <1>1, KeptAlways, PTL DEF Spec, NoUpdateLost
=============================================================================
