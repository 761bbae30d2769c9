---------------------------- MODULE LocationBuffer ----------------------------
(***************************************************************************)
(* The app's queue of location fixes (location_buffer.dart) and what       *)
(* becomes of them: each is written to a file, perhaps sent over a socket, *)
(* and posted in batches until the server has answered.  The server knows  *)
(* a sample it has by user, target and time (location.go).                 *)
(*                                                                         *)
(* The file is read and rewritten under a lock, one step here; it survives *)
(* the app's death.  One that cannot be read counts as empty, and what is  *)
(* written next replaces it.  Requests and socket messages take any time,  *)
(* are processed or lost, and so are the answers.                          *)
(***************************************************************************)
EXTENDS Naturals, FiniteSets

CONSTANTS
    Targets,        \* rides and shares
    MaxFixes,       \* fixes that are recorded
    MaxPoints,      \* LocationBuffer.maxPoints
    BatchSize,      \* the limit _syncLoop peeks with
    Slots           \* requests and messages under way at a time

ASSUME BoundsAssumption == MaxFixes \in Nat /\ MaxPoints \in Nat \ {0} /\ BatchSize \in Nat \ {0}

VARIABLES
    buffer,     \* the file: its entries, whose order is that of their fixes
    unreadable, \* the file cannot be read, or not be decoded
    fixes,      \* number of fixes so far, which are their times
    ahead,      \* the phone's clock is over five minutes ahead of the server's
    sync,       \* _syncLoop
    wire,       \* what is under way to the server
    accepts,    \* targets the server takes this user's points for
    rows        \* location_points: target, fix and stamp

fileVars == <<buffer, unreadable>>
vars == <<buffer, unreadable, fixes, ahead, sync, wire, accepts, rows>>

Fixes == 1 .. MaxFixes
Entry == [target : Targets, fix : Fixes]
Message == [target : Targets, points : SUBSET Entry]
Free == [points |-> {}]

\* A fix keeps its own time; one from the future gets that of its arrival, and
\* another if it arrives again.
Stamps == {"own", "arrival", "again"}

Unused(w) == wire[w] = Free /\ sync.slot # {w}

\* Entries are only ever appended, so the first of some is the oldest.
First(S) == CHOOSE e \in S : \A f \in S : e.fix <= f.fix

\* The entries of a batch that are posted next: those of its first's target.
Group == {e \in sync.batch : e.target = First(sync.batch).target}
Asleep == [at |-> "idle", batch |-> {}, slot |-> {}]

TypeOK ==
    /\ buffer \subseteq Entry /\ Cardinality(buffer) <= MaxPoints
    /\ unreadable \in BOOLEAN
    /\ fixes \in 0 .. MaxFixes
    /\ ahead \in BOOLEAN
    /\ sync \in [at : {"idle", "peek", "post", "await", "ok", "refused"},
                batch : SUBSET Entry, slot : SUBSET Slots]
    /\ sync.at \in {"post", "await", "ok", "refused"} => sync.batch # {}
    /\ wire \in [Slots -> {Free} \cup Message]
    /\ accepts \subseteq Targets
    /\ rows \subseteq Targets \X Fixes \X Stamps

Init ==
    /\ buffer = {} /\ unreadable = FALSE
    /\ fixes = 0
    /\ ahead \in BOOLEAN
    /\ sync = Asleep
    /\ wire = [w \in Slots |-> Free]
    /\ accepts = {}
    /\ rows = {}

-----------------------------------------------------------------------------
(* The phone                                                               *)

\* _readAll starts afresh when it fails.
Read == IF unreadable THEN {} ELSE buffer

\* _writeAll puts a new file in its place.
Write(entries) == buffer' = entries /\ unreadable' = FALSE

\* The storage fails, the file is damaged, or it is just an error that passes.
ReadsFail ==
    /\ unreadable' = ~unreadable
    /\ UNCHANGED <<buffer, fixes, ahead, sync, wire, accepts, rows>>

\* Fault: it drops a point when there is one too many already.
RecordOneMore(t) ==
    LET e == [target |-> t, fix |-> fixes + 1] IN
    /\ fixes < MaxFixes
    /\ fixes' = fixes + 1
    /\ Write({e} \cup IF Cardinality(Read) > MaxPoints THEN Read \ {First(Read)} ELSE Read)
    /\ UNCHANGED <<ahead, sync, wire, accepts, rows>>

\* _onPosition: enqueue drops the oldest of a full buffer; then the point goes
\* out on the socket, if that is connected.
Record(t) ==
    LET e == [target |-> t, fix |-> fixes + 1] IN
    /\ fixes < MaxFixes
    /\ fixes' = fixes + 1
    /\ Write({e} \cup IF Cardinality(Read) = MaxPoints THEN Read \ {First(Read)} ELSE Read)
    /\ \/ UNCHANGED wire
       \/ \E w \in Slots : /\ Unused(w)
                           /\ wire' = [wire EXCEPT ![w] = [target |-> t, points |-> {e}]]
    /\ UNCHANGED <<ahead, sync, accepts, rows>>

\* syncAll: on the timer, when tracking stops, when the app is resumed.
Flush ==
    /\ sync.at = "idle"
    /\ sync' = [sync EXCEPT !.at = "peek"]
    /\ UNCHANGED <<fileVars, fixes, ahead, wire, accepts, rows>>

\* The oldest entries, as many as fit in a batch.
Peek ==
    LET batch == {e \in Read : Cardinality({f \in Read : f.fix < e.fix}) < BatchSize} IN
    /\ sync.at = "peek"
    /\ sync' = IF batch = {} THEN Asleep ELSE [sync EXCEPT !.at = "post", !.batch = batch]
    /\ UNCHANGED <<fileVars, fixes, ahead, wire, accepts, rows>>

\* flushBatch, for one target of the batch.
Post(w) ==
    /\ sync.at = "post" /\ Unused(w)
    /\ wire' = [wire EXCEPT ![w] = [target |-> First(sync.batch).target, points |-> Group]]
    /\ sync' = [sync EXCEPT !.at = "await", !.slot = {w}]
    /\ UNCHANGED <<fileVars, fixes, ahead, accepts, rows>>

\* A time-out, no network, 401, 408, 429 or 5xx: the loop is left.  What is
\* under way may still arrive.
GiveUp ==
    /\ sync.at \in {"post", "await"}
    /\ sync' = Asleep
    /\ UNCHANGED <<fileVars, fixes, ahead, wire, accepts, rows>>

\* On to the next target of the batch, or to the next batch.
NextGroup ==
    LET rest == sync.batch \ Group IN
    sync' = [at |-> IF rest = {} THEN "peek" ELSE "post", batch |-> rest, slot |-> {}]

\* Fault: everything peeked is taken for sent.
MarkSyncedBatch ==
    /\ sync.at = "ok"
    /\ Write(Read \ sync.batch)
    /\ sync' = [sync EXCEPT !.at = "peek", !.batch = {}]
    /\ UNCHANGED <<fixes, ahead, wire, accepts, rows>>

MarkSynced ==
    /\ sync.at = "ok"
    /\ Write(Read \ Group)
    /\ NextGroup
    /\ UNCHANGED <<fixes, ahead, wire, accepts, rows>>

\* Fault: refused points are kept.
ClearTargetNot ==
    /\ sync.at = "refused"
    /\ NextGroup
    /\ UNCHANGED <<fileVars, fixes, ahead, wire, accepts, rows>>

\* Any other 4xx: all of the target's points go, newer ones too.
ClearTarget ==
    /\ sync.at = "refused"
    /\ Write({e \in Read : e.target # First(sync.batch).target})
    /\ NextGroup
    /\ UNCHANGED <<fixes, ahead, wire, accepts, rows>>

\* The app is killed, and the next start flushes; or the file cannot be written,
\* which ends the loop.
Kill ==
    /\ sync' = Asleep
    /\ UNCHANGED <<fileVars, fixes, ahead, wire, accepts, rows>>

-----------------------------------------------------------------------------
(* The network and the server                                              *)

Earliest(points) == {e \in points : \A f \in points : e.fix <= f.fix}

\* Fault: every sample gets the time of its arrival.
StampedOnArrival(points) ==
    {<<e.target, e.fix, IF <<e.target, e.fix, "own">> \in rows THEN "again" ELSE "own">>
       : e \in points}

\* Points whose times are too far ahead are given the same time, now, and ON
\* CONFLICT DO NOTHING keeps the first of them.
Stamped(points) ==
    IF ahead
    THEN {<<e.target, e.fix, IF <<e.target, e.fix, "arrival">> \in rows THEN "again" ELSE "arrival">>
            : e \in Earliest(points)}
    ELSE {<<e.target, e.fix, "own">> : e \in points}

\* What the loop makes of an answer, if it is waiting for this one and gets it.
Answer(w, answer) ==
    \/ sync.slot = {w} /\ sync.at = "await" /\ sync' = [sync EXCEPT !.at = answer]
    \/ UNCHANGED sync

Ingest(w) ==
    /\ wire[w] # Free /\ wire[w].target \in accepts
    /\ rows' = rows \cup Stamped(wire[w].points)
    /\ wire' = [wire EXCEPT ![w] = Free]
    /\ Answer(w, "ok")
    /\ UNCHANGED <<fileVars, fixes, ahead, accepts>>

\* A ride that is not live, a share that is over, a participant who left.
Refuse(w) ==
    /\ wire[w] # Free /\ wire[w].target \notin accepts
    /\ wire' = [wire EXCEPT ![w] = Free]
    /\ Answer(w, "refused")
    /\ UNCHANGED <<fileVars, fixes, ahead, accepts, rows>>

Lose(w) ==
    /\ wire[w] # Free
    /\ wire' = [wire EXCEPT ![w] = Free]
    /\ UNCHANGED <<fileVars, fixes, ahead, sync, accepts, rows>>

\* Rides start and end, users join and leave, shares expire.
Toggle(t) ==
    /\ accepts' = IF t \in accepts THEN accepts \ {t} ELSE accepts \cup {t}
    /\ UNCHANGED <<fileVars, fixes, ahead, sync, wire, rows>>

-----------------------------------------------------------------------------
Next ==
    \/ ReadsFail
    \/ \E t \in Targets : Record(t)
    \/ Flush
    \/ Peek
    \/ GiveUp
    \/ MarkSynced
    \/ ClearTarget
    \/ Kill
    \/ \E w \in Slots : Post(w)
    \/ \E w \in Slots : Ingest(w)
    \/ \E w \in Slots : Refuse(w)
    \/ \E w \in Slots : Lose(w)
    \/ \E t \in Targets : Toggle(t)

\* The answer to what the loop is waiting for.
Answered == \E w \in Slots : (Ingest(w) \/ Refuse(w)) /\ sync'.at \in {"ok", "refused"}

\* The app is tracking, whose timer flushes, or is resumed again and again, which
\* flushes too.  Its lock is fair and requests time out; a network that is tried
\* again and again lets an answer through, and an app that gets answers is not
\* killed after every one of them.
Fairness ==
    /\ WF_vars(Flush) /\ SF_vars(Peek) /\ WF_vars(GiveUp)
    /\ SF_vars(\E w \in Slots : Post(w))
    /\ SF_vars(Answered)
    /\ SF_vars(MarkSynced) /\ SF_vars(ClearTarget)
    /\ \A w \in Slots : WF_vars(Lose(w))

Spec == Init /\ [][Next]_vars
FairSpec == Spec /\ Fairness

-----------------------------------------------------------------------------
(* Properties                                                              *)

Stored(e) == \E s \in Stamps : <<e.target, e.fix, s>> \in rows

\* A fix leaves the buffer once the server has stored it, but for four ways to
\* lose it: the server refused points of its target, be they older ones; the
\* buffer was full and it the oldest; with the phone's clock ahead, in a batch
\* with older fixes that the server gave the same time; and with all others, in
\* a file that could not be read when it was to be rewritten.
LossHasACause ==
    [][\A e \in buffer \ buffer' :
          \/ Stored(e)
          \/ sync.at = "refused" /\ e.target = First(sync.batch).target
          \/ sync' = sync /\ Cardinality(buffer) = MaxPoints /\ e = First(buffer)
          \/ ahead /\ \E f \in Group : f.fix < e.fix
          \/ unreadable /\ ~unreadable'
      ]_vars

\* A sample sent over the socket and posted, posted again after a lost answer
\* or after a restart, is stored once and for one target, unless the phone's
\* clock was ahead.
StoredOnce == ~ahead => \A f \in Fixes : Cardinality({r \in rows : r[2] = f}) <= 1

\* No fix stays in the buffer for good, unless that is unreadable again and
\* again: no answer, no refusal and no other target's points hold it up.
BufferDrains ==
    <>[]~unreadable =>
        \A f \in Fixes : (\E e \in buffer : e.fix = f) ~> (\A e \in buffer : e.fix # f)
=============================================================================
