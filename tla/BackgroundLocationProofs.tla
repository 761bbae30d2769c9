---------------------- MODULE BackgroundLocationProofs ----------------------
(***************************************************************************)
(* BackgroundLocation for any number of rides and overlapping calls.       *)
(***************************************************************************)
EXTENDS BackgroundLocation, TLAPS

CallRecord == {None} \cup Start \cup Stop

\* Where a call waits tells which record it is.
LEMMA CallCases ==
    ASSUME NEW q \in CallRecord
    PROVE  /\ q.at = "none" <=> q = None
           /\ q.at = "permissions" => q \in Start
           /\ q.at \in {"disconnect", "cancel"} => q \in Stop
           /\ q.at \in {"none", "permissions", "disconnect", "cancel"}
  BY DEF CallRecord, None, Start, Stop

-----------------------------------------------------------------------------
(* The inductive invariant                                                 *)

\* A stream that _sub knows has its timer, cancelled or not.
TimerRuns == sub # "none" => timer

\* A start that waits has found no stream.
StartsSawNone == \A c \in Calls : At(c, "permissions") => call[c].clear

\* A stop that cancels, other than the sign-out, has found nothing active.
StopsWereRight == \A c \in Calls : At(c, "cancel") => call[c].clear \/ call[c].all

CallsRight == StartsSawNone /\ StopsWereRight

Inv == TypeOK /\ TimerRuns /\ CallsRight

\* One call moves to a record that is right, the others stay.
LEMMA OneMoves ==
    ASSUME call \in [Calls -> CallRecord], CallsRight, NEW c \in Calls, NEW q \in CallRecord,
           call' = [call EXCEPT ![c] = q],
           q.at = "permissions" => q.clear,
           q.at = "cancel" => q.clear \/ q.all
    PROVE  call' \in [Calls -> CallRecord] /\ CallsRight'
  BY DEF CallsRight, StartsSawNone, StopsWereRight, At

LEMMA ReturnRight ==
    ASSUME call \in [Calls -> CallRecord], CallsRight, NEW c \in Calls, Return(c)
    PROVE  call' \in [Calls -> CallRecord] /\ CallsRight' /\ call'[c] = None
<1>1. None \in CallRecord /\ None.at = "none"
  BY DEF CallRecord, None
<1>. QED  BY <1>1, OneMoves DEF Return

ActiveTyped == ride \in {{}} \cup {{r} : r \in Rides} /\ share \in BOOLEAN
StreamTyped ==
    /\ sub \in {"none", "live", "cancelled"} /\ strays \in 0 .. MaxStrays /\ timer \in BOOLEAN
    /\ TimerRuns
CallsTyped == call \in [Calls -> CallRecord] /\ CallsRight

LEMMA InvSplit ==
    /\ Inv <=> ActiveTyped /\ StreamTyped /\ CallsTyped
    /\ Inv' <=> ActiveTyped' /\ StreamTyped' /\ CallsTyped'
  BY DEF Inv, TypeOK, ActiveTyped, StreamTyped, CallsTyped, CallRecord, TimerRuns

\* Nothing active, no stream and no call, at the start and after a kill.
LEMMA NothingRuns ==
    /\ ride = {} /\ share = FALSE => ActiveTyped
    /\ sub = "none" /\ strays = 0 /\ timer = FALSE => StreamTyped
    /\ call = [c \in Calls |-> None] => CallsTyped
<1>1. ASSUME sub = "none", strays = 0, timer = FALSE PROVE StreamTyped
  <2>1. strays \in 0 .. MaxStrays
    BY <1>1, StraysAssumption
  <2>2. timer \in BOOLEAN
    BY <1>1
  <2>. QED  BY <1>1, <2>1, <2>2 DEF StreamTyped, TimerRuns
<1>2. call = [c \in Calls |-> None] => CallsTyped
  BY DEF CallsTyped, CallRecord, CallsRight, StartsSawNone, StopsWereRight, At, None
<1>. QED  BY <1>1, <1>2 DEF ActiveTyped

LEMMA InvInit == Init => Inv
  BY NothingRuns, InvSplit DEF Init

LEMMA NothingRunsNext == Kill => Inv'
<1> SUFFICES ASSUME Kill PROVE Inv'
  OBVIOUS
<1>1. ActiveTyped'
  BY DEF Kill, ActiveTyped
<1>2. StreamTyped'
  <2>1. (strays \in 0 .. MaxStrays)'
    BY StraysAssumption DEF Kill
  <2>2. (timer \in BOOLEAN)'
    BY DEF Kill
  <2>. QED  BY <2>1, <2>2 DEF Kill, StreamTyped, TimerRuns
<1>3. CallsTyped'
  BY DEF Kill, CallsTyped, CallRecord, CallsRight, StartsSawNone, StopsWereRight, At, None
<1>. QED  BY <1>1, <1>2, <1>3, InvSplit

\* One more stray, or none.
LEMMA StraysCount ==
    ASSUME strays \in 0 .. MaxStrays, sub = "live" => strays < MaxStrays,
           strays' = IF sub = "live" THEN strays + 1 ELSE strays
    PROVE  strays' \in 0 .. MaxStrays
  BY StraysAssumption, SMT

LEMMA EnsureStreamKeeps ==
    ASSUME StreamTyped, CallsTyped, NEW c \in Calls, EnsureStream(c)
    PROVE  StreamTyped' /\ CallsTyped'
<1> DEFINE q == IF sub = "none" THEN [at |-> "permissions", clear |-> TRUE] ELSE None
<1>1. q \in CallRecord /\ (q.at = "permissions" => q.clear) /\ q.at # "cancel"
  BY DEF CallRecord, None, Start
<1>2. call' = [call EXCEPT ![c] = q]
  BY DEF EnsureStream
<1>. QED  BY <1>1, <1>2, OneMoves DEF EnsureStream, StreamTyped, CallsTyped, streamVars, TimerRuns

LEMMA CancelKeeps ==
    ASSUME StreamTyped, CallsTyped, NEW c \in Calls, NEW all \in BOOLEAN,
           all \/ ~Active', Cancel(c, all)
    PROVE  StreamTyped' /\ CallsTyped'
<1> DEFINE q == [at |-> "cancel", all |-> all, clear |-> ~Active']
<1>1. q \in CallRecord /\ q.at = "cancel" /\ (q.clear \/ q.all)
  BY DEF CallRecord, Stop, Active
<1>2. call' = [call EXCEPT ![c] = q]
  BY DEF Cancel
<1>. QED  BY <1>1, <1>2, OneMoves DEF Cancel, StreamTyped, CallsTyped, TimerRuns

LEMMA DisconnectKeeps ==
    ASSUME StreamTyped, CallsTyped, NEW c \in Calls, NEW all \in BOOLEAN, Disconnect(c, all)
    PROVE  StreamTyped' /\ CallsTyped'
<1> DEFINE q == [at |-> "disconnect", all |-> all, clear |-> ~Active']
<1>1. q \in CallRecord /\ q.at = "disconnect"
  BY DEF CallRecord, Stop, Active
<1>2. call' = [call EXCEPT ![c] = q]
  BY DEF Disconnect
<1>. QED  BY <1>1, <1>2, OneMoves DEF Disconnect, StreamTyped, CallsTyped, streamVars, TimerRuns

LEMMA MaybeStopKeeps ==
    ASSUME StreamTyped, CallsTyped, NEW c \in Calls, MaybeStop(c)
    PROVE  StreamTyped' /\ CallsTyped'
<1>1. CASE Active'
  BY <1>1, ReturnRight DEF MaybeStop, StreamTyped, CallsTyped, streamVars, TimerRuns
<1>2. CASE ~Active'
  BY <1>2, CancelKeeps DEF MaybeStop
<1>. QED  BY <1>1, <1>2

LEMMA Inductive == Inv /\ [Next]_vars => Inv'
<1> SUFFICES ASSUME Inv, [Next]_vars PROVE Inv'
  OBVIOUS
<1>0. ActiveTyped /\ StreamTyped /\ CallsTyped
  BY InvSplit
<1>1. ASSUME NEW c \in Calls, NEW r \in Rides, StartForRide(c, r)
      PROVE  ActiveTyped' /\ StreamTyped' /\ CallsTyped'
  BY <1>0, <1>1, EnsureStreamKeeps DEF StartForRide, ActiveTyped
<1>2. ASSUME NEW c \in Calls, StartForShare(c)
      PROVE  ActiveTyped' /\ StreamTyped' /\ CallsTyped'
  BY <1>0, <1>2, EnsureStreamKeeps DEF StartForShare, ActiveTyped
<1>3. ASSUME NEW c \in Calls, StopRide(c)
      PROVE  ActiveTyped' /\ StreamTyped' /\ CallsTyped'
  BY <1>0, <1>3, MaybeStopKeeps DEF StopRide, ActiveTyped
<1>4. ASSUME NEW c \in Calls, StopShare(c)
      PROVE  ActiveTyped' /\ StreamTyped' /\ CallsTyped'
  BY <1>0, <1>4, DisconnectKeeps DEF StopShare, ActiveTyped
<1>5. ASSUME NEW c \in Calls, StopAll(c)
      PROVE  ActiveTyped' /\ StreamTyped' /\ CallsTyped'
  BY <1>0, <1>5, DisconnectKeeps DEF StopAll, ActiveTyped
<1>6. ASSUME NEW c \in Calls, Granted(c)
      PROVE  ActiveTyped' /\ StreamTyped' /\ CallsTyped'
  <2>1. CallsTyped'
    BY <1>0, <1>6, ReturnRight DEF Granted, CallsTyped
  <2>2. StreamTyped'
    BY <1>0, <1>6, StraysCount DEF Granted, StreamTyped, TimerRuns
  <2>. QED  BY <1>0, <1>6, <2>1, <2>2 DEF Granted, ActiveTyped, activeVars
<1>7. ASSUME NEW c \in Calls, Denied(c)
      PROVE  ActiveTyped' /\ StreamTyped' /\ CallsTyped'
  BY <1>0, <1>7, ReturnRight DEF Denied, ActiveTyped, StreamTyped, CallsTyped, streamVars, TimerRuns
<1>8. ASSUME NEW c \in Calls, PermissionsThrow(c)
      PROVE  ActiveTyped' /\ StreamTyped' /\ CallsTyped'
  BY <1>0, <1>8, ReturnRight
  DEF PermissionsThrow, ActiveTyped, StreamTyped, CallsTyped, activeVars, streamVars, TimerRuns
<1>9. ASSUME NEW c \in Calls, Disconnected(c)
      PROVE  ActiveTyped' /\ StreamTyped' /\ CallsTyped'
  BY <1>0, <1>9, CancelKeeps, MaybeStopKeeps DEF Disconnected, ActiveTyped, activeVars
<1>10. ASSUME NEW c \in Calls, Cancelled(c)
      PROVE  ActiveTyped' /\ StreamTyped' /\ CallsTyped'
  <2>1. CallsTyped'
    BY <1>0, <1>10, ReturnRight DEF Cancelled, CallsTyped
  <2>2. StreamTyped'
    BY <1>0, <1>10, StraysCount DEF Cancelled, StreamTyped, TimerRuns
  <2>. QED  BY <1>0, <1>10, <2>1, <2>2 DEF Cancelled, ActiveTyped, activeVars
<1>11. CASE Kill
  BY <1>11, NothingRunsNext
<1>12. CASE UNCHANGED vars
  BY <1>0, <1>12, InvSplit
  DEF vars, ActiveTyped, StreamTyped, CallsTyped, TimerRuns, CallsRight, StartsSawNone, StopsWereRight, At
<1>. QED
  BY <1>1, <1>2, <1>3, <1>4, <1>5, <1>6, <1>7, <1>8, <1>9, <1>10, <1>11, <1>12, InvSplit
  DEF Next, Begin, Resume

-----------------------------------------------------------------------------
(* What the starts and stops do to the stream                              *)

\* Waits looks at one call that moves and at others that stay.
LEMMA WaitsStay ==
    ASSUME call \in [Calls -> CallRecord], NEW c \in Calls, NEW q,
           call' = [call EXCEPT ![c] = q], NEW locations
    PROVE  Waits(locations) /\ call[c].at \notin locations => Waits(locations)'
  BY DEF Waits

\* A stop that goes on waiting, or returns and leaves the rest alone, loses no
\* stream and leaves none behind.
LEMMA CancelSound ==
    ASSUME Inv, NEW c \in Calls, NEW all \in BOOLEAN, Cancel(c, all),
           call[c].at # "permissions", Active' => Active
    PROVE  /\ Untracked' => Untracked
           /\ ~Unwatched'
<1> DEFINE q == [at |-> "cancel", all |-> all, clear |-> ~Active']
<1>1. call' = [call EXCEPT ![c] = q] /\ call \in [Calls -> CallRecord]
  BY InvSplit DEF Cancel, CallsTyped
<1>2. Waits({"disconnect", "cancel"})'
  BY <1>1 DEF Waits
<1>3. Waits({"permissions"}) => Waits({"permissions"})'
  BY <1>1, WaitsStay
<1>4. timer' = timer /\ (sub' = "none" => sub = "none")
  BY DEF Cancel
<1>. QED  BY <1>2, <1>3, <1>4 DEF Untracked, Unwatched

LEMMA DisconnectSound ==
    ASSUME Inv, NEW c \in Calls, NEW all \in BOOLEAN, Disconnect(c, all),
           call[c].at # "permissions", Active' => Active
    PROVE  /\ Untracked' => Untracked
           /\ ~Unwatched'
<1> DEFINE q == [at |-> "disconnect", all |-> all, clear |-> ~Active']
<1>1. call' = [call EXCEPT ![c] = q] /\ call \in [Calls -> CallRecord]
  BY InvSplit DEF Disconnect, CallsTyped
<1>2. Waits({"disconnect", "cancel"})'
  BY <1>1 DEF Waits
<1>3. Waits({"permissions"}) => Waits({"permissions"})'
  BY <1>1, WaitsStay
<1>. QED  BY <1>2, <1>3 DEF Disconnect, streamVars, Untracked, Unwatched

LEMMA MaybeStopSound ==
    ASSUME Inv, NEW c \in Calls, MaybeStop(c), call[c].at # "permissions", Active' => Active
    PROVE  /\ Untracked' => Untracked
           /\ ~Unwatched'
<1>1. CASE Active'
  <2>1. call' = [call EXCEPT ![c] = None] /\ call \in [Calls -> CallRecord]
    BY <1>1, InvSplit DEF MaybeStop, Return, CallsTyped
  <2>2. Waits({"permissions"}) => Waits({"permissions"})'
    BY <2>1, WaitsStay
  <2>. QED  BY <1>1, <2>2 DEF MaybeStop, streamVars, Untracked, Unwatched
<1>2. CASE ~Active'
  BY <1>2, CancelSound DEF MaybeStop
<1>. QED  BY <1>1, <1>2

\* A start finds a stream, which has its timer, or waits for permissions.
LEMMA EnsureStreamSound ==
    ASSUME Inv, NEW c \in Calls, EnsureStream(c), Active'
    PROVE  ~Untracked' /\ ~Unwatched'
<1>1. CASE sub = "none"
  <2> DEFINE q == [at |-> "permissions", clear |-> TRUE]
  <2>1. call' = [call EXCEPT ![c] = q] /\ call \in [Calls -> CallRecord]
    BY <1>1, InvSplit DEF EnsureStream, CallsTyped
  <2>2. Waits({"permissions"})'
    BY <2>1 DEF Waits
  <2>. QED  BY <2>2 DEF Untracked, Unwatched
<1>2. CASE sub # "none"
  BY <1>2 DEF EnsureStream, streamVars, Inv, TimerRuns, Untracked, Unwatched
<1>. QED  BY <1>1, <1>2

\* What each step may do to what is tracked, and to what is streamed.
LEMMA StepSound ==
    Inv /\ [Next]_vars =>
        /\ Untracked' => Untracked \/ \E c \in Calls : StopsLate(c) \/ StartsInVain(c)
        /\ Unwatched' => Unwatched \/ \E c \in Calls : Ends(c, "permissions")
<1> SUFFICES ASSUME Inv, [Next]_vars
             PROVE  /\ Untracked' => Untracked \/ \E c \in Calls : StopsLate(c) \/ StartsInVain(c)
                    /\ Unwatched' => Unwatched \/ \E c \in Calls : Ends(c, "permissions")
  OBVIOUS
<1>a. call \in [Calls -> CallRecord]
  BY InvSplit DEF CallsTyped
<1>1. ASSUME NEW c \in Calls, NEW r \in Rides, StartForRide(c, r)
      PROVE  ~Untracked' /\ ~Unwatched'
  BY <1>1, EnsureStreamSound DEF StartForRide, Active
<1>2. ASSUME NEW c \in Calls, StartForShare(c)
      PROVE  ~Untracked' /\ ~Unwatched'
  BY <1>2, EnsureStreamSound DEF StartForShare, Active
<1>3. ASSUME NEW c \in Calls, StopRide(c)
      PROVE  (Untracked' => Untracked) /\ ~Unwatched'
  BY <1>3, MaybeStopSound DEF StopRide, At, Active
<1>4. ASSUME NEW c \in Calls, StopShare(c)
      PROVE  (Untracked' => Untracked) /\ ~Unwatched'
  BY <1>4, DisconnectSound DEF StopShare, At, Active
<1>5. ASSUME NEW c \in Calls, StopAll(c)
      PROVE  (Untracked' => Untracked) /\ ~Unwatched'
  BY <1>5, DisconnectSound DEF StopAll, At, Active
<1>6. ASSUME NEW c \in Calls, Granted(c)
      PROVE  ~Untracked' /\ Ends(c, "permissions")
  BY <1>6, <1>a DEF Granted, Return, Ends, Untracked
<1>7. ASSUME NEW c \in Calls, Denied(c)
      PROVE  ~Untracked' /\ Ends(c, "permissions")
  BY <1>7, <1>a DEF Denied, Return, Ends, Untracked, Active
<1>8. ASSUME NEW c \in Calls, PermissionsThrow(c)
      PROVE  StartsInVain(c) /\ Ends(c, "permissions")
  BY <1>8, <1>a DEF PermissionsThrow, Return, Ends, StartsInVain
<1>9. ASSUME NEW c \in Calls, Disconnected(c)
      PROVE  (Untracked' => Untracked) /\ ~Unwatched'
  BY <1>9, CancelSound, MaybeStopSound DEF Disconnected, At, Active, activeVars
<1>10. ASSUME NEW c \in Calls, Cancelled(c)
      PROVE  StopsLate(c) /\ ~Unwatched'
  BY <1>10, <1>a DEF Cancelled, Return, Ends, StopsLate, Unwatched, Inv, CallsRight, StopsWereRight
<1>11. CASE Kill
  BY <1>11 DEF Kill, Untracked, Unwatched, Active
<1>12. CASE UNCHANGED vars
  BY <1>12 DEF vars, Untracked, Unwatched, Active, Waits
<1>. QED
  BY <1>1, <1>2, <1>3, <1>4, <1>5, <1>6, <1>7, <1>8, <1>9, <1>10, <1>11, <1>12
  DEF Next, Begin, Resume

LEMMA StraySound ==
    Inv /\ [Next]_vars =>
        (strays' > strays =>
            /\ sub = "live"
            /\ \E c \in Calls : \/ Ends(c, "permissions") /\ call[c].clear
                                \/ Ends(c, "cancel"))
<1> SUFFICES ASSUME Inv, [Next]_vars, strays' > strays
             PROVE  /\ sub = "live"
                    /\ \E c \in Calls : \/ Ends(c, "permissions") /\ call[c].clear
                                        \/ Ends(c, "cancel")
  OBVIOUS
<1>1. call \in [Calls -> CallRecord] /\ strays \in Nat
  BY InvSplit, StraysAssumption DEF CallsTyped, StreamTyped
<1>2. strays' # strays /\ strays' # 0
  BY <1>1
<1>3. \E c \in Calls : Granted(c) \/ Cancelled(c)
  BY <1>2 DEF Next, Begin, Resume, StartForRide, StartForShare, EnsureStream, StopRide, StopShare,
              StopAll, MaybeStop, Cancel, Disconnect, Denied, PermissionsThrow, Disconnected, Kill, streamVars, vars
<1>4. ASSUME NEW c \in Calls, Granted(c)
      PROVE  sub = "live" /\ Ends(c, "permissions") /\ call[c].clear
  BY <1>1, <1>2, <1>4 DEF Granted, Return, Ends, At, Inv, CallsRight, StartsSawNone
<1>5. ASSUME NEW c \in Calls, Cancelled(c)
      PROVE  sub = "live" /\ Ends(c, "cancel")
  BY <1>1, <1>2, <1>5 DEF Cancelled, Return, Ends, At
<1>. QED  BY <1>3, <1>4, <1>5

-----------------------------------------------------------------------------
(* Theorems                                                                *)

LEMMA AlwaysInv == Spec => []Inv
  BY InvInit, Inductive, PTL DEF Spec

\* Whatever calls overlap, the tracker's state is well formed, and a stream
\* that runs has its timer.
THEOREM TypeCorrect == Spec => []TypeOK
<1>1. Inv => TypeOK
  BY DEF Inv
<1>. QED  BY <1>1, AlwaysInv, PTL

\* A ride or share loses its stream only to a stop that was right to cancel one,
\* too late, or to the sign-out, and is left without one only by a permission
\* request that throws.
THEOREM TrackingIsKept == Spec => OnlyLateStopsUntrack
<1>1. Inv /\ [Next]_vars =>
        [Untracked' /\ ~Untracked => \E c \in Calls : StopsLate(c) \/ StartsInVain(c)]_vars
  BY StepSound
<1>. QED  BY <1>1, AlwaysInv, PTL DEF Spec, OnlyLateStopsUntrack

\* A stream runs for nothing only after a permission request.
THEOREM TrackingIsEnded == Spec => OnlyLateGrantsUnwatch
<1>1. Inv /\ [Next]_vars =>
        [Unwatched' /\ ~Unwatched => \E c \in Calls : Ends(c, "permissions")]_vars
  BY StepSound
<1>. QED  BY <1>1, AlwaysInv, PTL DEF Spec, OnlyLateGrantsUnwatch

\* A stream nobody can cancel takes two calls that overlap.
THEOREM StraysNeedOverlap == Spec => OnlyOverlapsStray
<1>1. Inv /\ [Next]_vars =>
        [strays' > strays =>
            /\ sub = "live"
            /\ \E c \in Calls : \/ Ends(c, "permissions") /\ call[c].clear
                                \/ Ends(c, "cancel")
        ]_vars
  BY StraySound
<1>. QED  BY <1>1, AlwaysInv, PTL DEF Spec, OnlyOverlapsStray
=============================================================================
