-------------------------- MODULE BackgroundLocation --------------------------
(***************************************************************************)
(* The app's tracker (background_location_service.dart): one position      *)
(* stream and one timer for what is active, a ride, a share or both.       *)
(* Screens, socket messages, the restore at the app's start and the        *)
(* sign-out call it without waiting for each other, and each of its        *)
(* methods stops at its awaits.                                            *)
(*                                                                         *)
(* Fixes, and what the timer and a stop flush, are LocationBuffer's.       *)
(***************************************************************************)
EXTENDS Naturals, FiniteSets

CONSTANTS
    Rides,      \* rides this phone may track
    Calls,      \* method calls that may wait at a time
    MaxStrays   \* bound on streams that nobody holds

ASSUME StraysAssumption == MaxStrays \in Nat

VARIABLES
    ride,       \* _activeRideId, {} when null
    share,      \* _activeShareId is set
    sub,        \* _sub: "none", "live", or "cancelled" before it is null again
    strays,     \* live streams that _sub does not hold
    timer,      \* _syncTimer runs
    call        \* where each method call waits

activeVars == <<ride, share>>
streamVars == <<sub, strays, timer>>
vars == <<ride, share, sub, strays, timer, call>>

None == [at |-> "none"]

\* A start waits for permissions, a stop for its socket to close and for the
\* stream to be cancelled.  all is stopAll's.  clear is history: nothing was
\* streaming when the start looked, or nothing active when the stop began.
Start == [at : {"permissions"}, clear : BOOLEAN]
Stop == [at : {"disconnect", "cancel"}, all : BOOLEAN, clear : BOOLEAN]

TypeOK ==
    /\ ride \in {{}} \cup {{r} : r \in Rides}
    /\ share \in BOOLEAN
    /\ sub \in {"none", "live", "cancelled"}
    /\ strays \in 0 .. MaxStrays
    /\ timer \in BOOLEAN
    /\ call \in [Calls -> {None} \cup Start \cup Stop]
    /\ sub = "live" => timer

Init ==
    /\ ride = {} /\ share = FALSE
    /\ sub = "none" /\ strays = 0 /\ timer = FALSE
    /\ call = [c \in Calls |-> None]

-----------------------------------------------------------------------------
At(c, location) == call[c].at = location
Return(c) == call' = [call EXCEPT ![c] = None]
Active == ride # {} \/ share

\* Fault: whether there is a stream already is not asked.
EnsureStreamAnyway(c) ==
    /\ call' = [call EXCEPT ![c] = [at |-> "permissions", clear |-> sub = "none"]]
    /\ UNCHANGED streamVars

\* _ensureStream, as far as requestPermissions.
EnsureStream(c) ==
    /\ call' = [call EXCEPT ![c] = IF sub = "none" THEN [at |-> "permissions", clear |-> TRUE]
                                                   ELSE None]
    /\ UNCHANGED streamVars

StartForRide(c, r) ==
    /\ At(c, "none")
    /\ ride' = {r}
    /\ EnsureStream(c)
    /\ UNCHANGED share

StartForShare(c) ==
    /\ At(c, "none")
    /\ share' = TRUE
    /\ EnsureStream(c)
    /\ UNCHANGED ride

\* A stream that _sub holds is lost sight of.
Granted(c) ==
    /\ At(c, "permissions")
    /\ sub = "live" => strays < MaxStrays
    /\ strays' = IF sub = "live" THEN strays + 1 ELSE strays
    /\ sub' = "live" /\ timer' = TRUE
    /\ Return(c)
    /\ UNCHANGED activeVars

\* Neither a ride nor a share can be tracked.
Denied(c) ==
    /\ At(c, "permissions")
    /\ ride' = {} /\ share' = FALSE
    /\ Return(c)
    /\ UNCHANGED streamVars

\* requestPermissions throws: what was to be tracked stays set.
PermissionsThrow(c) ==
    /\ At(c, "permissions")
    /\ Return(c)
    /\ UNCHANGED <<activeVars, streamVars>>

\* _stopStream, as far as the stream's cancel().
Cancel(c, all) ==
    /\ call' = [call EXCEPT ![c] = [at |-> "cancel", all |-> all, clear |-> ~Active']]
    /\ sub' = IF sub = "live" THEN "cancelled" ELSE sub
    /\ UNCHANGED <<strays, timer>>

Disconnect(c, all) ==
    /\ call' = [call EXCEPT ![c] = [at |-> "disconnect", all |-> all, clear |-> ~Active']]
    /\ UNCHANGED streamVars

\* Fault: the ride's end is the end of the stream.
MaybeStopAlways(c) == Cancel(c, FALSE)

\* _maybeStopStream.
MaybeStop(c) ==
    IF Active' THEN Return(c) /\ UNCHANGED streamVars ELSE Cancel(c, FALSE)

\* Fault: the stream is left running.
StopRideOnly(c) ==
    /\ At(c, "none")
    /\ ride' = {}
    /\ Return(c)
    /\ UNCHANGED <<share, streamVars>>

StopRide(c) ==
    /\ At(c, "none")
    /\ ride' = {} /\ UNCHANGED share
    /\ MaybeStop(c)

StopShare(c) ==
    /\ At(c, "none")
    /\ share' = FALSE /\ UNCHANGED ride
    /\ Disconnect(c, FALSE)

\* At sign-out.
StopAll(c) ==
    /\ At(c, "none")
    /\ ride' = {} /\ share' = FALSE
    /\ Disconnect(c, TRUE)

\* The share's socket is closed.
Disconnected(c) ==
    /\ At(c, "disconnect")
    /\ UNCHANGED activeVars
    /\ IF call[c].all THEN Cancel(c, TRUE) ELSE MaybeStop(c)

\* cancel() is done: _sub is null, whatever it holds by now.
Cancelled(c) ==
    /\ At(c, "cancel")
    /\ sub = "live" => strays < MaxStrays
    /\ strays' = IF sub = "live" THEN strays + 1 ELSE strays
    /\ sub' = "none" /\ timer' = FALSE
    /\ Return(c)
    /\ UNCHANGED activeVars

\* The app is killed, its streams with it.
Kill ==
    /\ ride' = {} /\ share' = FALSE
    /\ sub' = "none" /\ strays' = 0 /\ timer' = FALSE
    /\ call' = [c \in Calls |-> None]

Begin(c) ==
    \/ \E r \in Rides : StartForRide(c, r)
    \/ StartForShare(c)
    \/ StopRide(c)
    \/ StopShare(c)
    \/ StopAll(c)

Resume(c) ==
    \/ Granted(c)
    \/ Denied(c)
    \/ PermissionsThrow(c)
    \/ Disconnected(c)
    \/ Cancelled(c)

Next ==
    \/ \E c \in Calls : Begin(c)
    \/ \E c \in Calls : Resume(c)
    \/ Kill

Spec == Init /\ [][Next]_vars

-----------------------------------------------------------------------------
(* Properties                                                              *)

Waits(locations) == \E c \in Calls : call[c].at \in locations
Ends(c, location) == At(c, location) /\ call'[c] = None

\* Something is to be tracked, nothing tracks or flushes it, and no start is
\* about to.
Untracked == Active /\ (sub = "none" \/ ~timer) /\ ~Waits({"permissions"})

StopsLate(c) == Ends(c, "cancel") /\ (call[c].clear \/ call[c].all)
StartsInVain(c) == Ends(c, "permissions") /\ UNCHANGED <<activeVars, streamVars>>

\* A ride or share loses its stream only to a stop that was right to cancel it,
\* for nothing was active then, and finds out too late that a start has come in
\* between and taken the dying stream for its own; or to the sign-out.  It never
\* gets one when the permission request throws.
OnlyLateStopsUntrack ==
    [][Untracked' /\ ~Untracked => \E c \in Calls : StopsLate(c) \/ StartsInVain(c)]_vars

\* The stream runs, nothing is tracked, and no stop is about to end it.
Unwatched == ~Active /\ sub = "live" /\ ~Waits({"disconnect", "cancel"})

\* The phone goes on locating itself for nothing only after a permission
\* request: what it was for was stopped meanwhile, or another request's refusal
\* took it away.
OnlyLateGrantsUnwatch ==
    [][Unwatched' /\ ~Unwatched => \E c \in Calls : Ends(c, "permissions")]_vars

\* A stream that nothing can cancel any more is the work of two calls that
\* overlap: of two starts that both found no stream, or of a start during a
\* stop, which forgets the new stream with the old.
OnlyOverlapsStray ==
    [][strays' > strays =>
          /\ sub = "live"
          /\ \E c \in Calls : \/ Ends(c, "permissions") /\ call[c].clear
                              \/ Ends(c, "cancel")
      ]_vars
=============================================================================
