------------------------ MODULE LocationBufferProofs ------------------------
(***************************************************************************)
(* LocationBuffer for any number of targets and requests and any sizes of  *)
(* buffer and batch.                                                       *)
(***************************************************************************)
EXTENDS LocationBuffer, FiniteSetTheorems, WellFoundedInduction, TLAPS

-----------------------------------------------------------------------------
(* The oldest entry                                                        *)

\* Every non-empty set of naturals has a least element.
LEMMA LeastNatural ==
    ASSUME NEW T \in SUBSET Nat, T # {}
    PROVE  \E x \in T : \A y \in T : x <= y
<1> DEFINE R == OpToRel(<, Nat)
<1>1. \A x, y \in Nat : x < y => <<x, y>> \in R
  BY DEF OpToRel
<1>2. IsWellFoundedOn(R, Nat)
  BY NatLessThanWellFounded
<1> HIDE DEF R
<1>3. PICK t \in T : \A y \in T : <<y, t>> \notin R
  BY <1>2, WFMin
<1>4. \A y \in T : ~(y < t)
  BY <1>1, <1>3
<1>. QED  BY <1>4

\* Some entries have an oldest one, which First picks.
LEMMA FirstIsOldest ==
    ASSUME NEW S \in SUBSET Entry, S # {}
    PROVE  First(S) \in S /\ \A f \in S : First(S).fix <= f.fix
<1> DEFINE T == {e.fix : e \in S}
<1>1. T \in SUBSET Nat /\ T # {}
  BY BoundsAssumption DEF Entry, Fixes
<1>2. PICK t \in T : \A y \in T : t <= y
  BY <1>1, LeastNatural
<1>3. \E e \in S : \A f \in S : e.fix <= f.fix
  BY <1>2
<1>. QED  BY <1>3 DEF First

\* A batch has a group to post, which is of one target.
LEMMA GroupFacts ==
    ASSUME sync.batch \subseteq Entry, sync.batch # {}
    PROVE  /\ First(sync.batch) \in Group /\ Group \subseteq sync.batch
           /\ First(sync.batch).target \in Targets
  BY FirstIsOldest DEF Group, Entry

\* What is read of the file is all of it or nothing.
LEMMA ReadFacts ==
    /\ Read \subseteq buffer
    /\ Read = buffer \/ (Read = {} /\ unreadable)
  BY DEF Read

-----------------------------------------------------------------------------
(* The inductive invariant                                                 *)

\* Entries that are in the buffer, in the loop's hands, under way, or stored.
Known ==
    {e \in Entry : \/ e \in buffer \cup sync.batch
                   \/ \E w \in Slots : e \in wire[w].points
                   \/ Stored(e)}

\* A fix was recorded once, for one target.
FixesDiffer ==
    /\ \A e \in Known : e.fix <= fixes
    /\ \A e, f \in Known : e.fix = f.fix => e = f

\* Without the phone's clock ahead of the server's, samples keep their times.
OwnStamps == ~ahead => \A r \in rows : r[3] = "own"

\* What the loop awaits an answer to is the group it will then mark.
AwaitedRight ==
    sync.at = "await" =>
        \A w \in Slots : sync.slot = {w} /\ wire[w] # Free => wire[w].points = Group

\* The server has what it has answered `ok' to, as far as the clock allows.
Kept(e) == Stored(e) \/ (ahead /\ \E f \in Group : f.fix < e.fix)
AnsweredRight == sync.at = "ok" => \A e \in Group : Kept(e)

IInv ==
    /\ TypeOK /\ IsFiniteSet(buffer)
    /\ FixesDiffer /\ OwnStamps
    /\ AwaitedRight /\ AnsweredRight

-----------------------------------------------------------------------------
(* Types                                                                   *)

\* A full buffer makes room for the entry it takes.
LEMMA RecordFits ==
    ASSUME TypeOK, IsFiniteSet(buffer), NEW t \in Targets, Record(t)
    PROVE  buffer' \subseteq Entry /\ IsFiniteSet(buffer') /\ Cardinality(buffer') <= MaxPoints
<1> DEFINE e == [target |-> t, fix |-> fixes + 1]
           kept == IF Cardinality(Read) = MaxPoints THEN Read \ {First(Read)} ELSE Read
<1>1. e \in Entry
  BY BoundsAssumption DEF Record, TypeOK, Entry, Fixes
<1>2. /\ Read \subseteq Entry /\ IsFiniteSet(Read)
      /\ Cardinality(Read) \in Nat /\ Cardinality(Read) <= MaxPoints
  <2>1. CASE Read = buffer
    BY <2>1, FS_CardinalityType DEF TypeOK
  <2>2. CASE Read = {}
    BY <2>2, FS_EmptySet, BoundsAssumption
  <2>. QED  BY <2>1, <2>2, ReadFacts
<1>3. kept \subseteq Entry /\ IsFiniteSet(kept) /\ Cardinality(kept) + 1 <= MaxPoints
        /\ Cardinality(kept) \in Nat
  <2>1. CASE Cardinality(Read) = MaxPoints
    <3>1. Read # {}
      BY <2>1, FS_EmptySet, BoundsAssumption
    <3>2. First(Read) \in Read
      BY <3>1, <1>2, FirstIsOldest
    <3>3. kept = Read \ {First(Read)}
      BY <2>1
    <3>4. IsFiniteSet(kept) /\ Cardinality(kept) = MaxPoints - 1
      BY <2>1, <3>2, <3>3, <1>2, FS_RemoveElement
    <3>. QED  BY <1>2, <3>3, <3>4, BoundsAssumption
  <2>2. CASE Cardinality(Read) # MaxPoints
    <3>1. kept = Read
      BY <2>2
    <3>. QED  BY <2>2, <3>1, <1>2, BoundsAssumption
  <2>. QED  BY <2>1, <2>2
<1>4. buffer' = kept \cup {e}
  BY DEF Record, Write
<1> HIDE DEF e, kept
<1>5. /\ IsFiniteSet(kept \cup {e})
      /\ Cardinality(kept \cup {e}) = IF e \in kept THEN Cardinality(kept) ELSE Cardinality(kept) + 1
  BY <1>3, FS_AddElement, Zenon
<1>. QED  BY <1>1, <1>3, <1>4, <1>5, BoundsAssumption

\* What is taken from the buffer makes it no longer.
LEMMA SmallerFits ==
    ASSUME TypeOK, IsFiniteSet(buffer), buffer' \subseteq buffer
    PROVE  buffer' \subseteq Entry /\ IsFiniteSet(buffer') /\ Cardinality(buffer') <= MaxPoints
<1>1. IsFiniteSet(buffer') /\ Cardinality(buffer') <= Cardinality(buffer)
  BY FS_Subset
<1>2. Cardinality(buffer) \in Nat /\ Cardinality(buffer') \in Nat
  BY <1>1, FS_CardinalityType
<1>. QED  BY <1>1, <1>2, BoundsAssumption DEF TypeOK

\* What else is written is part of what was read.
LEMMA OnlyRecordAdds ==
    ASSUME [Next]_vars, ~\E t \in Targets : Record(t)
    PROVE  buffer' \subseteq buffer
<1>1. CASE MarkSynced
  BY <1>1, ReadFacts DEF MarkSynced, Write
<1>2. CASE ClearTarget
  BY <1>2, ReadFacts DEF ClearTarget, Write
<1>. QED
  BY <1>1, <1>2 DEF Next, ReadsFail, Flush, Peek, GiveUp, Kill, Post, Ingest, Refuse, Lose, Toggle,
     fileVars, vars

\* The loop's record after one of its moves.
SyncTyped ==
    /\ sync \in [at : {"idle", "peek", "post", "await", "ok", "refused"},
                 batch : SUBSET Entry, slot : SUBSET Slots]
    /\ sync.at \in {"post", "await", "ok", "refused"} => sync.batch # {}

LEMMA AsleepTyped == sync' = Asleep => SyncTyped'
  BY DEF Asleep, SyncTyped

LEMMA NextGroupTyped ==
    ASSUME SyncTyped, NextGroup PROVE SyncTyped'
  BY DEF NextGroup, SyncTyped

\* Samples are stored under their own target and fix.
LEMMA StampedTyped ==
    ASSUME NEW points \in SUBSET Entry
    PROVE  Stamped(points) \subseteq Targets \X Fixes \X Stamps
<1>1. \A e \in points : e.target \in Targets /\ e.fix \in Fixes
  BY DEF Entry
<1>2. \A e \in points, s \in Stamps : <<e.target, e.fix, s>> \in Targets \X Fixes \X Stamps
  BY <1>1
<1>3. Earliest(points) \subseteq points
  BY DEF Earliest
<1>4. {"own", "arrival", "again"} \subseteq Stamps
  BY DEF Stamps
<1>. QED  BY <1>2, <1>3, <1>4 DEF Stamped

\* A message goes to a free place.
LEMMA OneSent ==
    ASSUME wire \in [Slots -> {Free} \cup Message], NEW w \in Slots, NEW m \in Message
    PROVE  [wire EXCEPT ![w] = m] \in [Slots -> {Free} \cup Message]
  OBVIOUS

LEMMA TypeStep == TypeOK /\ IsFiniteSet(buffer) /\ [Next]_vars => TypeOK' /\ IsFiniteSet(buffer')
<1> SUFFICES ASSUME TypeOK, IsFiniteSet(buffer), [Next]_vars PROVE TypeOK' /\ IsFiniteSet(buffer')
  OBVIOUS
<1>0. SyncTyped /\ (TypeOK' <=>
        /\ buffer' \subseteq Entry /\ Cardinality(buffer') <= MaxPoints
        /\ unreadable' \in BOOLEAN /\ fixes' \in 0 .. MaxFixes /\ ahead' \in BOOLEAN
        /\ SyncTyped'
        /\ wire' \in [Slots -> {Free} \cup Message] /\ accepts' \subseteq Targets
        /\ rows' \subseteq Targets \X Fixes \X Stamps)
  BY DEF TypeOK, SyncTyped
<1> DEFINE BufferFits == buffer' \subseteq Entry /\ IsFiniteSet(buffer') /\ Cardinality(buffer') <= MaxPoints
<1>1. BufferFits
  <2>1. CASE \E t \in Targets : Record(t)
    BY <2>1, RecordFits
  <2>2. CASE ~\E t \in Targets : Record(t)
    <3>1. buffer' \subseteq buffer
      BY <2>2, OnlyRecordAdds
    <3>. QED  BY <3>1, SmallerFits
  <2>. QED  BY <2>1, <2>2
<1>2. SyncTyped'
  <2>1. CASE UNCHANGED sync
    BY <2>1, <1>0 DEF SyncTyped
  <2>2. CASE sync' = Asleep
    BY <2>2, AsleepTyped
  <2>3. CASE NextGroup
    BY <2>3, <1>0, NextGroupTyped
  <2>4. CASE Flush
    BY <2>4, <1>0 DEF Flush, SyncTyped
  <2>5. CASE Peek
    <3> DEFINE batch == {e \in Read : Cardinality({f \in Read : f.fix < e.fix}) < BatchSize}
    <3>1. batch \subseteq Entry
      BY ReadFacts DEF TypeOK
    <3>2. batch # {} => sync' = [sync EXCEPT !.at = "post", !.batch = batch]
      BY <2>5 DEF Peek
    <3>3. batch = {} => sync' = Asleep
      BY <2>5 DEF Peek
    <3> HIDE DEF batch
    <3>. QED  BY <1>0, <3>1, <3>2, <3>3, AsleepTyped DEF SyncTyped
  <2>6. CASE \E w \in Slots : Post(w)
    <3>1. PICK w \in Slots : sync.at = "post" /\ sync' = [sync EXCEPT !.at = "await", !.slot = {w}]
      BY <2>6 DEF Post
    <3>2. {w} \subseteq Slots
      OBVIOUS
    <3>. QED  BY <3>1, <3>2, <1>0 DEF SyncTyped
  <2>7. CASE \E w \in Slots, a \in {"ok", "refused"} : Answer(w, a)
    BY <2>7, <1>0 DEF Answer, SyncTyped
  <2>. QED
    BY <2>1, <2>2, <2>3, <2>4, <2>5, <2>6, <2>7
    DEF Next, ReadsFail, Record, GiveUp, MarkSynced, ClearTarget, Kill, Ingest, Refuse, Lose, Toggle, vars
<1>3. wire' \in [Slots -> {Free} \cup Message]
  <2>1. CASE \E t \in Targets : Record(t)
    <3>1. PICK t \in Targets : Record(t)
      BY <2>1
    <3>2. [target |-> t, points |-> {[target |-> t, fix |-> fixes + 1]}] \in Message
      BY <3>1, BoundsAssumption DEF Record, TypeOK, Entry, Fixes, Message
    <3>3. CASE wire' = wire
      BY <3>3 DEF TypeOK
    <3>4. CASE wire' # wire
      <4>1. PICK w \in Slots :
                wire' = [wire EXCEPT ![w] =
                    [target |-> t, points |-> {[target |-> t, fix |-> fixes + 1]}]]
        BY <3>1, <3>4 DEF Record
      <4>. QED  BY <3>2, <4>1, OneSent DEF TypeOK
    <3>. QED  BY <3>3, <3>4
  <2>2. CASE \E w \in Slots : Post(w)
    <3>1. PICK w \in Slots : Post(w)
      BY <2>2
    <3>2. [target |-> First(sync.batch).target, points |-> Group] \in Message
      BY <3>1, <1>0, GroupFacts DEF Post, Message, SyncTyped
    <3>. QED  BY <3>1, <3>2, OneSent DEF Post, TypeOK
  <2>3. CASE ~(\E t \in Targets : Record(t)) /\ ~(\E w \in Slots : Post(w))
    BY <2>3 DEF Next, ReadsFail, Flush, Peek, GiveUp, MarkSynced, ClearTarget, Kill, Ingest, Refuse, Lose,
       Toggle, vars, TypeOK
  <2>. QED  BY <2>1, <2>2, <2>3
<1>4. rows' \subseteq Targets \X Fixes \X Stamps
  <2>1. CASE rows' = rows
    BY <2>1 DEF TypeOK
  <2>2. CASE \E w \in Slots : Ingest(w)
    <3>1. PICK w \in Slots : Ingest(w)
      BY <2>2
    <3>2. wire[w].points \in SUBSET Entry
      BY <3>1 DEF Ingest, TypeOK, Message
    <3>. QED  BY <3>1, <3>2, StampedTyped DEF Ingest, TypeOK
  <2>. QED
    BY <2>1, <2>2 DEF Next, ReadsFail, Record, Flush, Peek, GiveUp, MarkSynced, ClearTarget, Kill, Post,
       Refuse, Lose, Toggle, vars
<1>5. fixes' \in 0 .. MaxFixes
  <2>1. fixes' = fixes \/ (fixes < MaxFixes /\ fixes' = fixes + 1)
    BY DEF Next, ReadsFail, Record, Flush, Peek, GiveUp, MarkSynced, ClearTarget, Kill, Post, Ingest, Refuse,
       Lose, Toggle, vars
  <2>. QED  BY <2>1, BoundsAssumption DEF TypeOK
<1>6. unreadable' \in BOOLEAN
  <2>1. unreadable' \in {unreadable, ~unreadable, FALSE}
    BY DEF Next, ReadsFail, Record, Flush, Peek, GiveUp, MarkSynced, ClearTarget, Kill, Post,
       Ingest, Refuse, Lose, Toggle, Write, fileVars, vars
  <2>. QED  BY <2>1 DEF TypeOK
<1>7. ahead' \in BOOLEAN /\ accepts' \subseteq Targets
  <2>1. ahead' = ahead /\ (accepts' = accepts \/ \E t \in Targets : Toggle(t))
    BY DEF Next, ReadsFail, Record, Flush, Peek, GiveUp, MarkSynced, ClearTarget, Kill, Post, Ingest, Refuse,
       Lose, Toggle, vars
  <2>. QED  BY <2>1 DEF TypeOK, Toggle
<1> HIDE DEF BufferFits
<1>. QED  BY <1>0, <1>1, <1>2, <1>3, <1>4, <1>5, <1>6, <1>7 DEF BufferFits

-----------------------------------------------------------------------------
(* The moves of the loop                                                   *)

\* It rests or peeks, has something to post, or has posted; it learns that a
\* request was stored from the one that did it, or is refused.
Resting == sync'.at \in {"idle", "peek"} /\ sync'.batch \subseteq sync.batch
Posting == sync'.at = "post" /\ sync'.batch \subseteq buffer \cup sync.batch
Acknowledged(w) ==
    Ingest(w) /\ sync.slot = {w} /\ sync.at = "await" /\ sync' = [sync EXCEPT !.at = "ok"]
Refused == sync' = [sync EXCEPT !.at = "refused"]

LEMMA SyncMoves ==
    ASSUME TypeOK, [Next]_vars, sync' # sync
    PROVE  \/ Resting \/ Posting \/ Refused
           \/ \E w \in Slots : Post(w)
           \/ \E w \in Slots : Acknowledged(w)
<1>1. CASE sync' = Asleep
  BY <1>1 DEF Resting, Asleep
<1>2. CASE Flush
  BY <1>2 DEF Flush, Resting, TypeOK
<1>3. CASE Peek
  <2> DEFINE batch == {e \in Read : Cardinality({f \in Read : f.fix < e.fix}) < BatchSize}
  <2>1. batch \subseteq buffer
    BY ReadFacts
  <2>2. CASE batch = {}
    BY <1>1, <1>3, <2>2 DEF Peek
  <2>3. CASE batch # {}
    <3>1. sync' = [sync EXCEPT !.at = "post", !.batch = batch]
      BY <1>3, <2>3 DEF Peek
    <3> HIDE DEF batch
    <3>. QED  BY <2>1, <3>1 DEF Posting, TypeOK
  <2>. QED  BY <2>2, <2>3
<1>4. CASE NextGroup
  BY <1>4 DEF NextGroup, Resting, Posting
<1>5. CASE \E w \in Slots : Ingest(w)
  BY <1>5 DEF Ingest, Answer, Acknowledged
<1>6. CASE \E w \in Slots : Refuse(w)
  BY <1>6 DEF Refuse, Answer, Refused
<1>. QED
  BY <1>1, <1>2, <1>3, <1>4, <1>5, <1>6
  DEF Next, ReadsFail, Record, GiveUp, MarkSynced, ClearTarget, Kill, Lose, Toggle, vars

\* Where what is under way comes from: the recorder, the loop's post, nowhere.
LEMMA WireMoves ==
    ASSUME TypeOK, [Next]_vars, NEW w \in Slots, wire'[w] # wire[w]
    PROVE  \/ wire'[w] = Free
           \/ Post(w) /\ wire'[w].points = Group
           \/ Unused(w) /\ \E t \in Targets : Record(t)
<1>1. CASE \E t \in Targets : Record(t)
  BY <1>1 DEF Record, TypeOK
<1>2. CASE \E v \in Slots : Post(v)
  <2>1. PICK v \in Slots : Post(v)
    BY <1>2
  <2>2. PICK m : m.points = Group /\ wire' = [wire EXCEPT ![v] = m]
    BY <2>1 DEF Post
  <2>3. v = w
    BY <2>2 DEF TypeOK
  <2>. QED  BY <2>1, <2>2, <2>3 DEF TypeOK
<1>3. CASE \E v \in Slots : Ingest(v) \/ Refuse(v) \/ Lose(v)
  BY <1>3 DEF Ingest, Refuse, Lose, TypeOK
<1>. QED
  BY <1>1, <1>2, <1>3 DEF Next, ReadsFail, Flush, Peek, GiveUp, MarkSynced, ClearTarget, Kill, Toggle, vars

-----------------------------------------------------------------------------
(* A fix and its samples                                                   *)

\* What a request brings is stored under its entries' targets and fixes ...
LEMMA StoredByIngest ==
    ASSUME TypeOK, NEW w \in Slots, Ingest(w), NEW e \in Entry, Stored(e)'
    PROVE  Stored(e) \/ \E v \in Slots : e \in wire[v].points
<1>1. wire[w].points \subseteq Entry
  BY DEF Ingest, TypeOK, Message
<1>2. PICK s \in Stamps : <<e.target, e.fix, s>> \in rows'
  BY DEF Stored
<1>3. CASE <<e.target, e.fix, s>> \in rows
  BY <1>3 DEF Stored
<1>4. CASE <<e.target, e.fix, s>> \in Stamped(wire[w].points)
  <2>1. PICK f \in wire[w].points : f.target = e.target /\ f.fix = e.fix
    BY <1>4 DEF Stamped, Earliest
  <2>2. f = e
    BY <2>1, <1>1 DEF Entry
  <2>. QED  BY <2>1, <2>2
<1>. QED  BY <1>2, <1>3, <1>4 DEF Ingest

\* ... all of them, or the oldest if they get the same time.
LEMMA StampedKeeps ==
    ASSUME NEW points \in SUBSET Entry, NEW e \in points
    PROVE  \/ \E s \in Stamps : <<e.target, e.fix, s>> \in Stamped(points)
           \/ ahead /\ \E f \in points : f.fix < e.fix
<1>1. CASE ~ahead
  BY <1>1 DEF Stamped, Stamps
<1>2. CASE ahead /\ e \in Earliest(points)
  BY <1>2 DEF Stamped, Stamps
<1>3. CASE ahead /\ e \notin Earliest(points)
  <2>1. PICK f \in points : ~(e.fix <= f.fix)
    BY <1>3 DEF Earliest
  <2>. QED  BY <1>3, <2>1, BoundsAssumption DEF Entry, Fixes
<1>. QED  BY <1>1, <1>2, <1>3

\* Nothing is made up on the way: a step finds no entry but the one it records.
LEMMA KnownStep ==
    ASSUME TypeOK, [Next]_vars
    PROVE  \/ Known' \subseteq Known /\ fixes' = fixes
           \/ \E n \in Entry : Known' \subseteq Known \cup {n} /\ fixes' = fixes + 1 /\ n.fix = fixes'
<1>1. CASE \E t \in Targets : Record(t)
  <2>1. PICK t \in Targets : Record(t)
    BY <1>1
  <2> DEFINE n == [target |-> t, fix |-> fixes + 1]
  <2>2. n \in Entry /\ fixes' = fixes + 1 /\ n.fix = fixes'
    BY <2>1, BoundsAssumption DEF Record, TypeOK, Entry, Fixes
  <2>3. buffer' \subseteq buffer \cup {n} /\ sync' = sync /\ rows' = rows
    BY <2>1, ReadFacts DEF Record, Write
  <2>4. \A w \in Slots : wire'[w].points \subseteq wire[w].points \cup {n}
    BY <2>1 DEF Record, TypeOK
  <2>5. Known' \subseteq Known \cup {n}
    BY <2>3, <2>4 DEF Known, Stored
  <2>. QED  BY <2>2, <2>5
<1>2. CASE ~\E t \in Targets : Record(t)
  <2>1. fixes' = fixes
    BY <1>2 DEF Next, ReadsFail, Flush, Peek, GiveUp, MarkSynced, ClearTarget, Kill, Post, Ingest, Refuse,
       Lose, Toggle, vars
  <2>2. buffer' \subseteq buffer
    BY <1>2, OnlyRecordAdds
  <2>3. sync'.batch \subseteq buffer \cup sync.batch
    BY SyncMoves DEF Resting, Posting, Refused, Acknowledged, Post, TypeOK
  <2>4. ASSUME NEW w \in Slots PROVE wire'[w].points \subseteq wire[w].points \cup sync.batch
    BY <1>2, WireMoves DEF Free, Group
  <2>5. \A e \in Entry : Stored(e)' => Stored(e) \/ \E w \in Slots : e \in wire[w].points
    <3>1. CASE rows' = rows
      BY <3>1 DEF Stored
    <3>2. CASE \E w \in Slots : Ingest(w)
      BY <3>2, StoredByIngest
    <3>. QED
      BY <1>2, <3>1, <3>2 DEF Next, ReadsFail, Flush, Peek, GiveUp, MarkSynced, ClearTarget, Kill, Post,
         Refuse, Lose, Toggle, vars
  <2>6. Known' \subseteq Known
    BY <2>2, <2>3, <2>4, <2>5 DEF Known
  <2>. QED  BY <2>1, <2>6
<1>. QED  BY <1>1, <1>2

LEMMA FixesStep == TypeOK /\ FixesDiffer /\ [Next]_vars => FixesDiffer'
<1> SUFFICES ASSUME TypeOK, FixesDiffer, [Next]_vars PROVE FixesDiffer'
  OBVIOUS
<1>0. fixes \in Nat /\ \A e \in Known : e.fix \in Nat
  BY BoundsAssumption DEF TypeOK, Known, Entry, Fixes
<1>1. CASE Known' \subseteq Known /\ fixes' = fixes
  BY <1>1 DEF FixesDiffer
<1>2. CASE \E n \in Entry : Known' \subseteq Known \cup {n} /\ fixes' = fixes + 1 /\ n.fix = fixes'
  <2>1. PICK n \in Entry : Known' \subseteq Known \cup {n} /\ fixes' = fixes + 1 /\ n.fix = fixes'
    BY <1>2
  <2>2. \A e \in Known : e.fix < n.fix
    BY <2>1, <1>0 DEF FixesDiffer
  <2>3. \A e \in Known' : e.fix <= fixes'
    BY <2>1, <2>2, <1>0
  <2>4. \A e, f \in Known' : e.fix = f.fix => e = f
    BY <2>1, <2>2, <1>0 DEF FixesDiffer
  <2>. QED  BY <2>3, <2>4 DEF FixesDiffer
<1>. QED  BY <1>1, <1>2, KnownStep

LEMMA OwnStep == TypeOK /\ OwnStamps /\ [Next]_vars => OwnStamps'
<1> SUFFICES ASSUME TypeOK, OwnStamps, [Next]_vars, ~ahead' PROVE \A r \in rows' : r[3] = "own"
  BY DEF OwnStamps
<1>1. ~ahead
  BY DEF Next, ReadsFail, Record, Flush, Peek, GiveUp, MarkSynced, ClearTarget, Kill, Post, Ingest, Refuse,
     Lose, Toggle, vars
<1>2. CASE rows' = rows
  BY <1>1, <1>2 DEF OwnStamps
<1>3. CASE \E w \in Slots : Ingest(w)
  BY <1>1, <1>3 DEF Ingest, Stamped, OwnStamps
<1>. QED
  BY <1>2, <1>3 DEF Next, ReadsFail, Record, Flush, Peek, GiveUp, MarkSynced, ClearTarget, Kill, Post, Refuse,
     Lose, Toggle, vars

-----------------------------------------------------------------------------
(* What the loop waits for, and what it is told                            *)

LEMMA AwaitedStep == TypeOK /\ AwaitedRight /\ [Next]_vars => AwaitedRight'
<1> SUFFICES ASSUME TypeOK, AwaitedRight, [Next]_vars, sync'.at = "await",
                    NEW w \in Slots, sync'.slot = {w}, wire'[w] # Free
             PROVE  wire'[w].points = Group'
  BY DEF AwaitedRight
<1>1. CASE \E v \in Slots : Post(v)
  <2>1. PICK v \in Slots : Post(v)
    BY <1>1
  <2>2. sync'.slot = {v} /\ sync'.batch = sync.batch
    BY <2>1 DEF Post, TypeOK
  <2>3. v = w
    BY <2>2
  <2>. QED  BY <2>1, <2>2, <2>3 DEF Post, TypeOK, Group
<1>2. CASE ~\E v \in Slots : Post(v)
  <2>1. sync' = sync
    BY <1>2, SyncMoves DEF Resting, Posting, Refused, Acknowledged, TypeOK
  <2>2. ~Unused(w)
    BY <2>1 DEF Unused
  <2>3. wire'[w] = wire[w]
    BY <1>2, <2>2, WireMoves
  <2>. QED  BY <2>1, <2>3 DEF AwaitedRight, Group
<1>. QED  BY <1>1, <1>2

LEMMA AnsweredStep == TypeOK /\ AwaitedRight /\ AnsweredRight /\ [Next]_vars => AnsweredRight'
<1> SUFFICES ASSUME TypeOK, AwaitedRight, AnsweredRight, [Next]_vars, sync'.at = "ok"
             PROVE  \A e \in Group' : Kept(e)'
  BY DEF AnsweredRight
<1>1. rows \subseteq rows' /\ ahead' = ahead
  BY DEF Next, ReadsFail, Record, Flush, Peek, GiveUp, MarkSynced, ClearTarget, Kill, Post, Ingest, Refuse,
     Lose, Toggle, vars
<1>2. CASE sync' = sync
  <2>1. Group' = Group
    BY <1>2 DEF Group
  <2>. QED  BY <1>1, <1>2, <2>1 DEF AnsweredRight, Kept, Stored
<1>3. CASE sync' # sync
  <2>1. PICK w \in Slots : Acknowledged(w)
    BY <1>3, SyncMoves DEF Resting, Posting, Refused, Post, TypeOK
  <2>2. sync'.batch = sync.batch
    BY <2>1 DEF Acknowledged, TypeOK
  <2>3. Group' = Group
    BY <2>2 DEF Group
  <2>4. wire[w].points = Group /\ rows' = rows \cup Stamped(Group)
    BY <2>1 DEF Acknowledged, Ingest, AwaitedRight
  <2>5. Group \subseteq Entry
    BY DEF Group, TypeOK
  <2>6. ASSUME NEW e \in Group
        PROVE  \/ \E s \in Stamps : <<e.target, e.fix, s>> \in rows'
               \/ ahead /\ \E f \in Group : f.fix < e.fix
    BY <2>4, <2>5, StampedKeeps
  <2>. QED  BY <1>1, <2>3, <2>6 DEF Kept, Stored
<1>. QED  BY <1>2, <1>3

-----------------------------------------------------------------------------
\* All of it is kept by every step.
LEMMA Inductive == IInv /\ [Next]_vars => IInv'
  BY TypeStep, FixesStep, OwnStep, AwaitedStep, AnsweredStep DEF IInv

LEMMA IInvInit == Init => IInv
<1> SUFFICES ASSUME Init PROVE IInv
  OBVIOUS
<1>1. IsFiniteSet(buffer) /\ Cardinality(buffer) = 0
  BY FS_EmptySet DEF Init
<1>2. TypeOK
  <2>1. unreadable \in BOOLEAN
    BY DEF Init
  <2>. QED  BY <1>1, <2>1, BoundsAssumption DEF Init, TypeOK, Asleep
<1>3. Known = {}
  BY DEF Init, Known, Asleep, Free, Stored
<1>. QED  BY <1>1, <1>2, <1>3 DEF Init, IInv, FixesDiffer, OwnStamps, AwaitedRight, AnsweredRight, Asleep

LEMMA Invariance == Spec => []IInv
  BY IInvInit, Inductive, PTL DEF Spec

\* The buffer never exceeds its size, however many fixes come while the server
\* cannot be reached, and what the loop works at is never empty.
THEOREM TypeCorrect == Spec => []TypeOK
<1>1. IInv => TypeOK
  BY DEF IInv
<1>. QED  BY <1>1, Invariance, PTL

\* However often a fix is sent, over the socket, posted, posted again, it is
\* stored once and for one target, unless the phone's clock is ahead.
THEOREM SamplesAreStoredOnce == Spec => []StoredOnce
<1>1. IInv => StoredOnce
  <2> SUFFICES ASSUME IInv, ~ahead, NEW f \in Fixes
               PROVE  Cardinality({r \in rows : r[2] = f}) <= 1
    BY DEF StoredOnce
  <2> DEFINE R == {r \in rows : r[2] = f}
  <2>1. \A r \in R : r = <<r[1], f, "own">> /\ [target |-> r[1], fix |-> f] \in Known
    BY DEF IInv, TypeOK, OwnStamps, Known, Entry, Stored, Stamps
  <2>2. \A r, q \in R : [target |-> r[1], fix |-> f] = [target |-> q[1], fix |-> f]
    BY <2>1 DEF IInv, FixesDiffer
  <2>3. \A r, q \in R : r[1] = q[1]
    BY <2>2
  <2>4. \A r, q \in R : r = q
    BY <2>1, <2>3
  <2> HIDE DEF R
  <2>5. CASE R = {}
    BY <2>5, FS_EmptySet DEF R
  <2>6. CASE R # {}
    <3>1. PICK r : R = {r}
      BY <2>4, <2>6
    <3>2. Cardinality(R) = 1
      BY <3>1, FS_Singleton
    <3>. QED  BY <3>2 DEF R
  <2>. QED  BY <2>5, <2>6
<1>. QED  BY <1>1, Invariance, PTL

\* A fix leaves the buffer for good reason: what is marked as sent was stored
\* or collided with an older fix, what is dropped was refused or the oldest, or
\* was in a file that could not be read.
THEOREM LossesHaveCauses == Spec => LossHasACause
<1>1. IInv /\ [Next]_vars
        => [\A e \in buffer \ buffer' :
              \/ Stored(e)
              \/ sync.at = "refused" /\ e.target = First(sync.batch).target
              \/ sync' = sync /\ Cardinality(buffer) = MaxPoints /\ e = First(buffer)
              \/ ahead /\ \E f \in Group : f.fix < e.fix
              \/ unreadable /\ ~unreadable'
           ]_vars
  <2> SUFFICES ASSUME IInv, Next, NEW e \in buffer \ buffer'
               PROVE  \/ Stored(e)
                      \/ sync.at = "refused" /\ e.target = First(sync.batch).target
                      \/ sync' = sync /\ Cardinality(buffer) = MaxPoints /\ e = First(buffer)
                      \/ ahead /\ \E f \in Group : f.fix < e.fix
                      \/ unreadable /\ ~unreadable'
    OBVIOUS
  <2>1. CASE \E t \in Targets : Record(t)
    BY <2>1 DEF Record, Read, Write
  <2>2. CASE MarkSynced
    BY <2>2 DEF MarkSynced, Read, Write, IInv, AnsweredRight, Kept
  <2>3. CASE ClearTarget
    BY <2>3 DEF ClearTarget, Read, Write
  <2>. QED
    BY <2>1, <2>2, <2>3 DEF Next, ReadsFail, Flush, Peek, GiveUp, Kill, Post, Ingest, Refuse, Lose, Toggle, fileVars
<1>. QED  BY <1>1, Invariance, PTL DEF Spec, LossHasACause
=============================================================================
