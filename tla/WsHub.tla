------------------------------- MODULE WsHub -------------------------------
(***************************************************************************)
(* The websocket hub (ws/hub.go) and the read loop around it (serve in     *)
(* handler/ws.go): a room of clients, a bounded send queue per client that *)
(* one writePump goroutine drains, broadcasts that snapshot the room under *)
(* its lock and send after releasing it, and Close, which anyone may call. *)
(*                                                                         *)
(* Rooms share nothing but the map and its lock, so one is enough.  A      *)
(* client has two goroutines, writePump and the serve loop; whatever it    *)
(* sends while it handles a frame is sent by that loop, so clients are     *)
(* senders beside the request handlers, the casters.                       *)
(***************************************************************************)
EXTENDS Naturals, Sequences, FiniteSets, SequencesExt

CONSTANTS
    Clients,     \* connections
    Casters,     \* request handlers that broadcast
    Messages,    \* what is broadcast, each once
    Pongs,       \* answers to pings, each sent once
    SendBuffer,  \* capacity of a send queue
    NoMsg        \* no message, or a ping frame

ASSUME BufferAssumption == SendBuffer \in Nat \ {0}
ASSUME NamesAssumption ==
    /\ Clients \cap Casters = {}
    /\ Messages \cap Pongs = {}
    /\ NoMsg \notin Messages \cup Pongs

VARIABLES
    room,     \* h.rooms[room]
    hasRoom,  \* h.rooms has the key
    queue,    \* c.send
    conn,     \* the connection; c.done is closed unless it is "open"
    pump,     \* writePump: where it is and the message it is writing
    serve,    \* where the connection's handler is in serve
    send,     \* sendRaw per sender: where it is, the message, whom it has
              \* still to send to and whom it is sending to
    unsent,   \* messages not sent yet
    wire,     \* what was written to each connection
    target,   \* history: the clients each message was meant for
    before    \* history: <<m, n>> when m was sent before n was begun

vars == <<room, hasRoom, queue, conn, pump, serve, send, unsent, wire, target, before>>

All == Messages \cup Pongs
Senders == Casters \cup Clients
Silent == [at |-> "idle", msg |-> NoMsg, todo |-> {}, cur |-> {}]

Pump(location, m) == [at |-> location, msg |-> m]
Waiting == Pump("select", NoMsg)

\* c.done is closed.
Done(c) == conn[c] \in {"closing", "closed"}

TypeOK ==
    /\ room \subseteq Clients
    /\ hasRoom \in BOOLEAN
    /\ queue \in [Clients -> Seq(All)]
    /\ conn \in [Clients -> {"none", "open", "closing", "closed"}]
    /\ pump \in [Clients -> [at : {"none", "select", "write", "exit", "close", "stopped"},
                             msg : All \cup {NoMsg}]]
    /\ serve \in [Clients -> {"none", "join", "read", "leave", "exit", "close", "gone"}]
    /\ send \in [Senders -> [at : {"idle", "check", "enqueue", "close"}, msg : All \cup {NoMsg},
                             todo : SUBSET Clients, cur : SUBSET Clients]]
    /\ unsent \subseteq All
    /\ wire \in [Clients -> Seq(All)]
    /\ target \in [All -> SUBSET Clients]
    /\ before \subseteq All \X All
    /\ \A c \in Clients : Len(queue[c]) <= SendBuffer

Init ==
    /\ room = {} /\ hasRoom = FALSE
    /\ queue = [c \in Clients |-> <<>>]
    /\ conn = [c \in Clients |-> "none"]
    /\ pump = [c \in Clients |-> Pump("none", NoMsg)]
    /\ serve = [c \in Clients |-> "none"]
    /\ send = [s \in Senders |-> Silent]
    /\ unsent = All
    /\ wire = [c \in Clients |-> <<>>]
    /\ target = [m \in All |-> {}]
    /\ before = {}

-----------------------------------------------------------------------------
(* Close: the first caller closes done, then the connection; closeOnce     *)
(* makes the others wait until it has.                                     *)

Closing(c) == [conn EXCEPT ![c] = IF @ = "open" THEN "closing" ELSE @]

CloseConn(c) ==
    /\ conn[c] = "closing"
    /\ conn' = [conn EXCEPT ![c] = "closed"]
    /\ UNCHANGED <<room, hasRoom, queue, pump, serve, send, unsent, wire, target, before>>

-----------------------------------------------------------------------------
(* serve: the life of a connection                                         *)

\* The upgrade and NewClient, which starts the pump.
Connect(c) ==
    /\ serve[c] = "none"
    /\ conn' = [conn EXCEPT ![c] = "open"]
    /\ pump' = [pump EXCEPT ![c] = Waiting]
    /\ serve' = [serve EXCEPT ![c] = "join"]
    /\ UNCHANGED <<room, hasRoom, queue, send, unsent, wire, target, before>>

Join(c) ==
    /\ serve[c] = "join"
    /\ room' = room \cup {c}
    /\ hasRoom' = TRUE
    /\ serve' = [serve EXCEPT ![c] = "read"]
    /\ UNCHANGED <<queue, conn, pump, send, unsent, wire, target, before>>

\* Read fails: the peer left, the read deadline passed, or Close was called.
ReadError(c) ==
    /\ serve[c] = "read" /\ send[c].at = "idle"
    /\ serve' = [serve EXCEPT ![c] = "leave"]
    /\ UNCHANGED <<room, hasRoom, queue, conn, pump, send, unsent, wire, target, before>>

\* Fault: the empty room stays in the map.
LeaveKeepingKey(c) ==
    /\ serve[c] = "leave"
    /\ room' = room \ {c}
    /\ serve' = [serve EXCEPT ![c] = "exit"]
    /\ UNCHANGED <<hasRoom, queue, conn, pump, send, unsent, wire, target, before>>

Leave(c) ==
    /\ serve[c] = "leave"
    /\ room' = room \ {c}
    /\ hasRoom' = (hasRoom /\ room' # {})
    /\ serve' = [serve EXCEPT ![c] = "exit"]
    /\ UNCHANGED <<queue, conn, pump, send, unsent, wire, target, before>>

ServeClose(c) ==
    /\ serve[c] = "exit"
    /\ conn' = Closing(c)
    /\ serve' = [serve EXCEPT ![c] = "close"]
    /\ UNCHANGED <<room, hasRoom, queue, pump, send, unsent, wire, target, before>>

ServeReturn(c) ==
    /\ serve[c] = "close" /\ conn[c] = "closed"
    /\ serve' = [serve EXCEPT ![c] = "gone"]
    /\ UNCHANGED <<room, hasRoom, queue, conn, pump, send, unsent, wire, target, before>>

-----------------------------------------------------------------------------
(* writePump; select takes any case that is ready                          *)

\* Fault: the pump does not watch done.
PumpDoneIgnored(c) ==
    /\ pump[c].at = "select" /\ Done(c) /\ serve[c] = "none"
    /\ UNCHANGED vars

PumpDone(c) ==
    /\ pump[c].at = "select" /\ Done(c)
    /\ pump' = [pump EXCEPT ![c] = Pump("exit", NoMsg)]
    /\ UNCHANGED <<room, hasRoom, queue, conn, serve, send, unsent, wire, target, before>>

\* Fault: the message stays in the queue while it is written.
PumpTakeKeeping(c) ==
    /\ pump[c].at = "select" /\ queue[c] # <<>>
    /\ pump' = [pump EXCEPT ![c] = Pump("write", Head(queue[c]))]
    /\ UNCHANGED <<room, hasRoom, queue, conn, serve, send, unsent, wire, target, before>>

PumpTake(c) ==
    /\ pump[c].at = "select" /\ queue[c] # <<>>
    /\ pump' = [pump EXCEPT ![c] = Pump("write", Head(queue[c]))]
    /\ queue' = [queue EXCEPT ![c] = Tail(@)]
    /\ UNCHANGED <<room, hasRoom, conn, serve, send, unsent, wire, target, before>>

PumpPing(c) ==
    /\ pump[c].at = "select"
    /\ pump' = [pump EXCEPT ![c] = Pump("write", NoMsg)]
    /\ UNCHANGED <<room, hasRoom, queue, conn, serve, send, unsent, wire, target, before>>

PumpWrite(c) ==
    /\ pump[c].at = "write" /\ conn[c] # "closed"
    /\ wire' = [wire EXCEPT ![c] = IF pump[c].msg = NoMsg THEN @ ELSE Append(@, pump[c].msg)]
    /\ pump' = [pump EXCEPT ![c] = Waiting]
    /\ UNCHANGED <<room, hasRoom, queue, conn, serve, send, unsent, target, before>>

\* Fault: a failed write is skipped.
PumpFailContinues(c) ==
    /\ pump[c].at = "write"
    /\ pump' = [pump EXCEPT ![c] = Waiting]
    /\ UNCHANGED <<room, hasRoom, queue, conn, serve, send, unsent, wire, target, before>>

\* The write deadline passed, or the connection is gone.
PumpFail(c) ==
    /\ pump[c].at = "write"
    /\ pump' = [pump EXCEPT ![c] = Pump("exit", NoMsg)]
    /\ UNCHANGED <<room, hasRoom, queue, conn, serve, send, unsent, wire, target, before>>

PumpClose(c) ==
    /\ pump[c].at = "exit"
    /\ conn' = Closing(c)
    /\ pump' = [pump EXCEPT ![c] = Pump("close", NoMsg)]
    /\ UNCHANGED <<room, hasRoom, queue, serve, send, unsent, wire, target, before>>

PumpReturn(c) ==
    /\ pump[c].at = "close" /\ conn[c] = "closed"
    /\ pump' = [pump EXCEPT ![c] = Pump("stopped", NoMsg)]
    /\ UNCHANGED <<room, hasRoom, queue, conn, serve, send, unsent, wire, target, before>>

-----------------------------------------------------------------------------
(* Broadcast and sendRaw                                                   *)

\* sendRaw returns: to the next client of the snapshot, or Broadcast ends.
Onward(q) == IF q.todo = {} THEN Silent ELSE [q EXCEPT !.at = "check", !.cur = {}]

\* A caster may send at any time, a serve loop while it handles a frame.
MaySend(s) == send[s].at = "idle" /\ (s \in Clients => serve[s] = "read")

\* Messages every sender is through with.
Finished == {m \in All \ unsent : \A s \in Senders : send[s].msg # m}

Begin(s, m, clients) ==
    /\ MaySend(s) /\ m \in unsent
    /\ unsent' = unsent \ {m}
    /\ send' = [send EXCEPT ![s] =
                    Onward([at |-> "check", msg |-> m, todo |-> clients, cur |-> {}])]
    /\ target' = [target EXCEPT ![m] = clients]
    /\ before' = before \cup (Finished \X {m})
    /\ UNCHANGED <<room, hasRoom, queue, conn, pump, serve, wire>>

\* The snapshot of the room, under the read lock.
Broadcast(s) == \E m \in Messages : Begin(s, m, room)

\* The answer to a ping, to the client itself.
SendPong(c) == \E m \in Pongs : Begin(c, m, {c})

\* The next client in map order; done is looked at first.
SendCheck(s, c) ==
    LET rest == [send[s] EXCEPT !.todo = @ \ {c}] IN
    /\ send[s].at = "check" /\ c \in send[s].todo
    /\ send' = [send EXCEPT ![s] =
                    IF Done(c) THEN Onward(rest) ELSE [rest EXCEPT !.at = "enqueue", !.cur = {c}]]
    /\ UNCHANGED <<room, hasRoom, queue, conn, pump, serve, unsent, wire, target, before>>

\* Fault: a full queue gives up its oldest message for the new one.
SendEnqueueDropOldest(s, c) ==
    /\ send[s].at = "enqueue" /\ c \in send[s].cur
    /\ queue' = [queue EXCEPT ![c] = Append(IF Len(@) < SendBuffer THEN @ ELSE Tail(@), send[s].msg)]
    /\ send' = [send EXCEPT ![s] = Onward(@)]
    /\ UNCHANGED <<room, hasRoom, conn, pump, serve, unsent, wire, target, before>>

\* Fault: a plain channel send, which waits for room.
SendEnqueueBlocking(s, c) ==
    /\ send[s].at = "enqueue" /\ c \in send[s].cur /\ Len(queue[c]) < SendBuffer
    /\ queue' = [queue EXCEPT ![c] = Append(@, send[s].msg)]
    /\ send' = [send EXCEPT ![s] = Onward(@)]
    /\ UNCHANGED <<room, hasRoom, conn, pump, serve, unsent, wire, target, before>>

\* Fault: the queue takes one more than its capacity.
SendEnqueueUnbounded(s, c) ==
    /\ send[s].at = "enqueue" /\ c \in send[s].cur
    /\ queue' = [queue EXCEPT ![c] = Append(@, send[s].msg)]
    /\ send' = [send EXCEPT ![s] = Onward(@)]
    /\ UNCHANGED <<room, hasRoom, conn, pump, serve, unsent, wire, target, before>>

\* The second select: queue the message, or close a client that is too slow.
SendEnqueue(s, c) ==
    /\ send[s].at = "enqueue" /\ c \in send[s].cur
    /\ IF Len(queue[c]) < SendBuffer
          THEN /\ queue' = [queue EXCEPT ![c] = Append(@, send[s].msg)]
               /\ send' = [send EXCEPT ![s] = Onward(@)]
               /\ UNCHANGED conn
          ELSE /\ conn' = Closing(c)
               /\ send' = [send EXCEPT ![s].at = "close"]
               /\ UNCHANGED queue
    /\ UNCHANGED <<room, hasRoom, pump, serve, unsent, wire, target, before>>

SendClosed(s, c) ==
    /\ send[s].at = "close" /\ c \in send[s].cur /\ conn[c] = "closed"
    /\ send' = [send EXCEPT ![s] = Onward(@)]
    /\ UNCHANGED <<room, hasRoom, queue, conn, pump, serve, unsent, wire, target, before>>

-----------------------------------------------------------------------------
Sending(s) == \E c \in Clients : SendCheck(s, c) \/ SendEnqueue(s, c) \/ SendClosed(s, c)

Serving(c) == Join(c) \/ Leave(c) \/ ServeClose(c) \/ ServeReturn(c)

Pumping(c) == PumpWrite(c) \/ PumpFail(c) \/ PumpClose(c) \/ PumpReturn(c)

Next ==
    \/ \E c \in Clients :
           \/ Connect(c) \/ Serving(c) \/ ReadError(c) \/ SendPong(c)
           \/ PumpDone(c) \/ PumpTake(c) \/ PumpPing(c) \/ Pumping(c)
           \/ CloseConn(c)
    \/ \E s \in Senders : Broadcast(s) \/ Sending(s)

Spec == Init /\ [][Next]_vars

\* A goroutine in sendRaw or Close keeps running, whatever the others do.
SendersRun ==
    /\ \A s \in Senders : WF_vars(Sending(s))
    /\ \A c \in Clients : WF_vars(CloseConn(c))

\* So do a pump and a serve loop.  Go's select picks among the ready cases at
\* random, so none is passed over for ever (strong fairness); a write ends by
\* its deadline; Read fails once the connection is closed, and only then must.
ClientsRun ==
    \A c \in Clients :
        /\ SF_vars(PumpDone(c)) /\ SF_vars(PumpTake(c)) /\ WF_vars(Pumping(c))
        /\ WF_vars(Serving(c))
        /\ WF_vars(conn[c] = "closed" /\ ReadError(c))

FairSpec == Spec /\ SendersRun /\ ClientsRun

-----------------------------------------------------------------------------
(* Safety                                                                  *)

\* A client that misses a message is disconnected, never left behind: a
\* message meant for it is written, in its queue, in the pump's hands or still
\* to be sent, unless the client is closed or its pump is about to close it
\* (sendRaw's default case, writePump's deferred Close).
NoSilentGap ==
    \A m \in All : \A c \in target[m] :
        \/ m \in ToSet(wire[c]) \cup ToSet(queue[c]) \cup {pump[c].msg}
        \/ \E s \in Senders : send[s].msg = m /\ c \in send[s].todo \cup send[s].cur
        \/ Done(c) \/ pump[c].at = "exit"

Precedes(m, n, log) ==
    \E i, j \in 1..Len(log) : i < j /\ log[i] = m /\ log[j] = n

\* What a client reads has no holes and no inversions: when one message was
\* sent before another was begun, a client meant to get both that got the
\* second got the first before it, although sendRaw runs outside the hub's
\* lock, clients are closed half-way and the pump may go on after Close.
OrderKept ==
    \A p \in before : \A c \in target[p[1]] \cap target[p[2]] :
        p[2] \in ToSet(wire[c]) => Precedes(p[1], p[2], wire[c])

\* Nobody reads a message twice, or one that was not meant for it: a client
\* that joins between the snapshot and the sends does not see the broadcast.
NoStrayMessages ==
    \A c \in Clients :
        /\ IsInjective(wire[c])
        /\ \A m \in ToSet(wire[c]) : c \in target[m]

\* A connection whose handler returned is closed, is in no room and will not
\* come back, and the rooms map keeps no key when the last one left (Join,
\* Leave and the deferred calls of serve).
NothingLeftBehind ==
    /\ \A c \in Clients : serve[c] = "gone" => conn[c] = "closed" /\ c \notin room
    /\ (\A c \in Clients : serve[c] \in {"none", "join", "exit", "close", "gone"}) => ~hasRoom

(* Liveness                                                                *)

\* Broadcast comes back to its caller.
BroadcastReturns == \A s \in Senders : send[s].at # "idle" ~> send[s].at = "idle"

\* A message for a client is written, or the client is disconnected.
DeliveredOrClosed ==
    \A m \in All, c \in Clients :
        c \in target[m] ~> (m \in ToSet(wire[c]) \/ Done(c))

\* A closed client frees its pump, its handler and its place in the room.
ClosedIsReleased ==
    \A c \in Clients :
        Done(c) ~> (pump[c].at = "stopped" /\ serve[c] = "gone" /\ c \notin room)
=============================================================================
