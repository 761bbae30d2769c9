----------------------------- MODULE WsHubProofs -----------------------------
(***************************************************************************)
(* WsHub for any number of connections, senders and messages, and queues   *)
(* of any capacity.                                                        *)
(***************************************************************************)
EXTENDS WsHub, TLAPS

Conns == {"none", "open", "closing", "closed"}
Pumps == [at : {"none", "select", "write", "exit", "close", "stopped"}, msg : All \cup {NoMsg}]
Serves == {"none", "join", "read", "leave", "exit", "close", "gone"}
Sends == [at : {"idle", "check", "enqueue", "close"}, msg : All \cup {NoMsg},
          todo : SUBSET Clients, cur : SUBSET Clients]

-----------------------------------------------------------------------------
(* Sequences                                                               *)

LEMMA Appended ==
    ASSUME NEW S, NEW s \in Seq(S), NEW x \in S
    PROVE  /\ Append(s, x) \in Seq(S) /\ Len(Append(s, x)) = Len(s) + 1
           /\ ToSet(Append(s, x)) = ToSet(s) \cup {x}
           /\ IsInjective(s) /\ x \notin ToSet(s) => IsInjective(Append(s, x))
<1> DEFINE t == Append(s, x)
<1>1. t \in Seq(S) /\ Len(t) = Len(s) + 1 /\ Len(s) \in Nat
  OBVIOUS
<1>2. /\ DOMAIN s = 1 .. Len(s) /\ DOMAIN t = 1 .. (Len(s) + 1)
      /\ t[Len(s) + 1] = x /\ \A i \in 1 .. Len(s) : t[i] = s[i]
  OBVIOUS
<1>. HIDE DEF t
<1>3. \A i \in 1 .. (Len(s) + 1) : i \in 1 .. Len(s) \/ i = Len(s) + 1
  BY <1>1
<1>4. 1 .. Len(s) \subseteq 1 .. (Len(s) + 1) /\ Len(s) + 1 \in 1 .. (Len(s) + 1)
  BY <1>1
<1>5. ToSet(t) = ToSet(s) \cup {x}
  BY <1>2, <1>3, <1>4, Zenon DEF ToSet
<1>6. ASSUME IsInjective(s), x \notin ToSet(s) PROVE IsInjective(t)
  BY <1>2, <1>3, <1>6 DEF IsInjective, ToSet
<1>. QED  BY <1>1, <1>5, <1>6 DEF t

LEMMA Taken ==
    ASSUME NEW S, NEW s \in Seq(S), s # <<>>
    PROVE  /\ Head(s) \in S /\ Tail(s) \in Seq(S) /\ Len(Tail(s)) = Len(s) - 1
           /\ ToSet(s) = {Head(s)} \cup ToSet(Tail(s))
           /\ IsInjective(s) => IsInjective(Tail(s)) /\ Head(s) \notin ToSet(Tail(s))
<1>1. Head(s) \in S /\ Tail(s) \in Seq(S) /\ Len(Tail(s)) = Len(s) - 1 /\ Len(s) \in Nat \ {0}
  OBVIOUS
<1>2. /\ DOMAIN s = 1 .. Len(s) /\ DOMAIN Tail(s) = 1 .. (Len(s) - 1)
      /\ Head(s) = s[1] /\ \A i \in 1 .. (Len(s) - 1) : Tail(s)[i] = s[i + 1]
  OBVIOUS
<1>3. ToSet(s) \subseteq {Head(s)} \cup ToSet(Tail(s))
  <2>1. ASSUME NEW i \in 1 .. Len(s) PROVE s[i] \in {Head(s)} \cup ToSet(Tail(s))
    <3>1. CASE i = 1
      BY <1>2, <3>1
    <3>2. CASE i # 1
      <4>1. i - 1 \in 1 .. (Len(s) - 1) /\ (i - 1) + 1 = i
        BY <1>1, <3>2
      <4>. QED  BY <1>2, <4>1 DEF ToSet
    <3>. QED  BY <3>1, <3>2
  <2>. QED  BY <1>2, <2>1 DEF ToSet
<1>4. {Head(s)} \cup ToSet(Tail(s)) \subseteq ToSet(s)
  BY <1>1, <1>2 DEF ToSet
<1>5. ASSUME IsInjective(s) PROVE IsInjective(Tail(s)) /\ Head(s) \notin ToSet(Tail(s))
  BY <1>1, <1>2, <1>5 DEF IsInjective, ToSet
<1>. QED  BY <1>1, <1>3, <1>4, <1>5

\* What is in a log stays in its order when something is appended, and what is
\* in it precedes that.
LEMMA PrecedesAppended ==
    ASSUME NEW S, NEW s \in Seq(S), NEW x \in S, NEW m, NEW n
    PROVE  /\ Precedes(m, n, s) => Precedes(m, n, Append(s, x))
           /\ m \in ToSet(s) => Precedes(m, x, Append(s, x))
  BY DEF Precedes, ToSet

\* And of what is taken from the front.
LEMMA PrecedesTaken ==
    ASSUME NEW S, NEW s \in Seq(S), s # <<>>, NEW m, NEW n
    PROVE  /\ Precedes(m, n, s) /\ m # Head(s) => Precedes(m, n, Tail(s))
           /\ IsInjective(s) => ~Precedes(m, Head(s), s)
           /\ Precedes(m, n, s) => m \in ToSet(s)
<1>2. /\ Len(s) \in Nat \ {0} /\ DOMAIN s = 1 .. Len(s) /\ Len(Tail(s)) = Len(s) - 1
      /\ Head(s) = s[1] /\ \A i \in 1 .. (Len(s) - 1) : Tail(s)[i] = s[i + 1]
  OBVIOUS
<1>3. ASSUME Precedes(m, n, s), m # Head(s) PROVE Precedes(m, n, Tail(s))
  <2>1. PICK i, j \in 1 .. Len(s) : i < j /\ s[i] = m /\ s[j] = n
    BY <1>3 DEF Precedes
  <2>2. i - 1 \in 1 .. (Len(s) - 1) /\ j - 1 \in 1 .. (Len(s) - 1) /\ i - 1 < j - 1
        /\ (i - 1) + 1 = i /\ (j - 1) + 1 = j
    BY <1>2, <1>3, <2>1
  <2>3. Tail(s)[i - 1] = m /\ Tail(s)[j - 1] = n
    BY <1>2, <2>1, <2>2
  <2>. QED  BY <1>2, <2>2, <2>3 DEF Precedes
<1>4. ASSUME IsInjective(s), Precedes(m, Head(s), s) PROVE FALSE
  <2>1. PICK i, j \in 1 .. Len(s) : i < j /\ s[j] = s[1]
    BY <1>2, <1>4 DEF Precedes
  <2>. QED  BY <1>2, <1>4, <2>1 DEF IsInjective
<1>5. Precedes(m, n, s) => m \in ToSet(s)
  BY <1>2 DEF Precedes, ToSet
<1>. QED  BY <1>3, <1>4, <1>5

-----------------------------------------------------------------------------
(* Types                                                                   *)

HubTyped == room \subseteq Clients /\ hasRoom \in BOOLEAN
ClientsTyped ==
    /\ conn \in [Clients -> Conns] /\ pump \in [Clients -> Pumps] /\ serve \in [Clients -> Serves]
QueuesTyped == queue \in [Clients -> Seq(All)] /\ \A c \in Clients : Len(queue[c]) <= SendBuffer
WiresTyped == wire \in [Clients -> Seq(All)]
SendsTyped == send \in [Senders -> Sends]
HistoryTyped == unsent \subseteq All /\ target \in [All -> SUBSET Clients] /\ before \subseteq All \X All

LEMMA TypeSplit ==
    TypeOK <=> HubTyped /\ ClientsTyped /\ QueuesTyped /\ WiresTyped /\ SendsTyped /\ HistoryTyped
  BY DEF TypeOK, HubTyped, ClientsTyped, QueuesTyped, WiresTyped, SendsTyped, HistoryTyped,
         Conns, Pumps, Serves, Sends

LEMMA TypeSplitNext ==
    TypeOK' <=> HubTyped' /\ ClientsTyped' /\ QueuesTyped' /\ WiresTyped' /\ SendsTyped' /\ HistoryTyped'
  BY DEF TypeOK, HubTyped, ClientsTyped, QueuesTyped, WiresTyped, SendsTyped, HistoryTyped,
         Conns, Pumps, Serves, Sends

\* The types of what a step leaves alone.
LEMMA TypesStay ==
    ASSUME TypeOK
    PROVE  /\ UNCHANGED <<room, hasRoom>> => HubTyped'
           /\ UNCHANGED <<conn, pump, serve>> => ClientsTyped'
           /\ UNCHANGED queue => QueuesTyped'
           /\ UNCHANGED wire => WiresTyped'
           /\ UNCHANGED send => SendsTyped'
           /\ UNCHANGED <<unsent, target, before>> => HistoryTyped'
  BY TypeSplit DEF HubTyped, ClientsTyped, QueuesTyped, WiresTyped, SendsTyped, HistoryTyped

\* sendRaw returns.
LEMMA OnwardFacts ==
    ASSUME NEW q \in Sends
    PROVE  /\ Onward(q) \in Sends
           /\ q.todo = {} => Onward(q) = Silent
           /\ q.todo # {} => /\ Onward(q).at = "check" /\ Onward(q).msg = q.msg
                             /\ Onward(q).todo = q.todo /\ Onward(q).cur = {}
  BY DEF Onward, Sends, Silent

LEMMA SilentFacts ==
    /\ Silent \in Sends /\ Silent.at = "idle" /\ Silent.msg = NoMsg
    /\ Silent.todo = {} /\ Silent.cur = {}
  BY DEF Silent, Sends

LEMMA PumpFacts ==
    ASSUME NEW l \in {"none", "select", "write", "exit", "close", "stopped"}, NEW m \in All \cup {NoMsg}
    PROVE  Pump(l, m) \in Pumps /\ Pump(l, m).at = l /\ Pump(l, m).msg = m
  BY DEF Pump, Pumps

LEMMA TypeInit == Init => TypeOK
<1> SUFFICES ASSUME Init PROVE TypeOK
  OBVIOUS
<1>1. Pump("none", NoMsg) \in Pumps /\ Silent \in Sends
  BY PumpFacts, SilentFacts
<1>2. HubTyped /\ ClientsTyped /\ SendsTyped /\ HistoryTyped
  BY <1>1 DEF Init, HubTyped, ClientsTyped, SendsTyped, HistoryTyped, Conns, Serves
<1>3. QueuesTyped /\ WiresTyped
  <2>1. <<>> \in Seq(All) /\ Len(<<>>) <= SendBuffer
    BY BufferAssumption
  <2>. QED  BY <2>1 DEF Init, QueuesTyped, WiresTyped
<1>. QED  BY <1>2, <1>3, TypeSplit

-----------------------------------------------------------------------------
(* The steps of Next, by what they change                                  *)

\* Serve loops, Close and the pump's steps that move no message.
ServeStep(c) == Connect(c) \/ Serving(c) \/ ReadError(c)
PumpStep(c) == PumpDone(c) \/ PumpPing(c) \/ PumpFail(c) \/ PumpClose(c) \/ PumpReturn(c)
CalmStep(c) == ServeStep(c) \/ PumpStep(c) \/ CloseConn(c)

\* The steps that send one.
BeginStep(s) == Broadcast(s) \/ (s \in Clients /\ SendPong(s))

LEMMA NextSteps ==
    ASSUME [Next]_vars
    PROVE  \/ \E c \in Clients : CalmStep(c) \/ PumpTake(c) \/ PumpWrite(c)
           \/ \E s \in Senders : BeginStep(s) \/ Sending(s)
           \/ UNCHANGED vars
  BY DEF Next, CalmStep, ServeStep, PumpStep, Pumping, BeginStep, Senders

\* What a sender has in hand while it is at work.
SendShape(q) ==
    /\ q.at = "idle" => q = Silent
    /\ q.at # "idle" => q.msg \in All
    /\ q.at = "check" => q.todo # {} /\ q.cur = {}
    /\ q.at \in {"enqueue", "close"} => \E c \in Clients : q.cur = {c} /\ c \notin q.todo

Shaped == \A s \in Senders : SendShape(send[s])

\* The messages are where they were.
LEMMA CalmStays ==
    ASSUME NEW c \in Clients, CalmStep(c)
    PROVE  UNCHANGED <<queue, send, unsent, wire, target, before>>
  BY DEF CalmStep, ServeStep, PumpStep, Connect, Serving, Join, Leave, ServeClose, ServeReturn,
         ReadError, PumpDone, PumpPing, PumpFail, PumpClose, PumpReturn, CloseConn

LEMMA CalmTyped ==
    ASSUME TypeOK, NEW c \in Clients, CalmStep(c)
    PROVE  HubTyped' /\ ClientsTyped'
<1>0. HubTyped /\ ClientsTyped
  BY TypeSplit
<1>1. CASE ServeStep(c)
  <2>1. HubTyped' /\ serve' \in [Clients -> Serves] /\ conn' \in [Clients -> Conns]
    BY <1>0, <1>1 DEF ServeStep, Connect, Serving, Join, Leave, ServeClose, ServeReturn, ReadError,
                      HubTyped, ClientsTyped, Conns, Serves, Closing
  <2>2. Waiting \in Pumps
    BY PumpFacts DEF Waiting
  <2>3. pump' \in [Clients -> Pumps]
    BY <1>0, <1>1, <2>2 DEF ServeStep, Connect, Serving, Join, Leave, ServeClose, ServeReturn, ReadError,
                            ClientsTyped
  <2>. QED  BY <2>1, <2>3 DEF ClientsTyped
<1>2. CASE PumpStep(c)
  <2>1. HubTyped' /\ serve' \in [Clients -> Serves] /\ conn' \in [Clients -> Conns]
    BY <1>0, <1>2 DEF PumpStep, PumpDone, PumpPing, PumpFail, PumpClose, PumpReturn,
                      HubTyped, ClientsTyped, Conns, Closing
  <2>2. \A l \in {"write", "exit", "close", "stopped"} : Pump(l, NoMsg) \in Pumps
    BY PumpFacts
  <2>3. pump' \in [Clients -> Pumps]
    BY <1>0, <1>2, <2>2 DEF PumpStep, PumpDone, PumpPing, PumpFail, PumpClose, PumpReturn, ClientsTyped
  <2>. QED  BY <2>1, <2>3 DEF ClientsTyped
<1>3. CASE CloseConn(c)
  BY <1>0, <1>3 DEF CloseConn, HubTyped, ClientsTyped, Conns
<1>. QED  BY <1>1, <1>2, <1>3 DEF CalmStep

LEMMA PumpTakeTyped ==
    ASSUME TypeOK, NEW c \in Clients, PumpTake(c)
    PROVE  TypeOK'
<1>0. ClientsTyped /\ QueuesTyped /\ queue[c] \in Seq(All) /\ queue[c] # <<>>
  BY TypeSplit DEF PumpTake, QueuesTyped
<1>1. Head(queue[c]) \in All /\ Tail(queue[c]) \in Seq(All) /\ Len(Tail(queue[c])) = Len(queue[c]) - 1
  BY <1>0, Taken
<1>2. Pump("write", Head(queue[c])) \in Pumps
  BY <1>1, PumpFacts
<1>3. ClientsTyped'
  BY <1>0, <1>2 DEF PumpTake, ClientsTyped
<1>4. QueuesTyped'
  <2>1. Len(queue[c]) - 1 <= SendBuffer /\ Len(queue[c]) \in Nat
    BY <1>0, BufferAssumption DEF QueuesTyped
  <2>. QED  BY <1>0, <1>1, <2>1 DEF PumpTake, QueuesTyped
<1>. QED  BY <1>3, <1>4, TypesStay, TypeSplitNext DEF PumpTake

LEMMA PumpWriteTyped ==
    ASSUME TypeOK, NEW c \in Clients, PumpWrite(c)
    PROVE  TypeOK'
<1>0. ClientsTyped /\ WiresTyped
  BY TypeSplit
<1>1. Waiting \in Pumps
  BY PumpFacts DEF Waiting
<1>2. ClientsTyped'
  BY <1>0, <1>1 DEF PumpWrite, ClientsTyped
<1>3. WiresTyped'
  <2>1. pump[c].msg = NoMsg \/ Append(wire[c], pump[c].msg) \in Seq(All)
    BY <1>0, Appended DEF ClientsTyped, Pumps, WiresTyped
  <2>. QED  BY <1>0, <2>1 DEF PumpWrite, WiresTyped
<1>. QED  BY <1>2, <1>3, TypesStay, TypeSplitNext DEF PumpWrite

LEMMA BeginIsBegin ==
    ASSUME TypeOK, NEW s \in Senders, BeginStep(s)
    PROVE  \E m \in unsent, clients \in SUBSET Clients :
               /\ Begin(s, m, clients)
               /\ m \in All
               /\ clients = room \/ (s \in Clients /\ clients = {s})
<1>0. HubTyped /\ unsent \subseteq All
  BY TypeSplit DEF HistoryTyped
<1>1. CASE Broadcast(s)
  <2>1. PICK m \in Messages : Begin(s, m, room)
    BY <1>1 DEF Broadcast
  <2>. QED  BY <1>0, <2>1 DEF Begin, HubTyped
<1>2. CASE s \in Clients /\ SendPong(s)
  <2>1. PICK m \in Pongs : Begin(s, m, {s})
    BY <1>2 DEF SendPong
  <2>. QED  BY <1>0, <1>2, <2>1 DEF Begin
<1>. QED  BY <1>1, <1>2 DEF BeginStep

LEMMA BeginTyped ==
    ASSUME TypeOK, NEW s \in Senders, NEW m \in All, NEW clients \in SUBSET Clients, Begin(s, m, clients)
    PROVE  TypeOK'
<1>0. SendsTyped /\ HistoryTyped
  BY TypeSplit
<1>1. [at |-> "check", msg |-> m, todo |-> clients, cur |-> {}] \in Sends
  BY DEF Sends
<1>2. SendsTyped'
  BY <1>0, <1>1, OnwardFacts DEF Begin, SendsTyped
<1>3. HistoryTyped'
  BY <1>0 DEF Begin, HistoryTyped, Finished
<1>. QED  BY <1>2, <1>3, TypesStay, TypeSplitNext DEF Begin

LEMMA SendingTyped ==
    ASSUME TypeOK, Shaped, NEW s \in Senders, Sending(s)
    PROVE  TypeOK'
<1>0. SendsTyped /\ ClientsTyped /\ QueuesTyped /\ send[s] \in Sends
  BY TypeSplit DEF SendsTyped
<1>1. PICK c \in Clients : SendCheck(s, c) \/ SendEnqueue(s, c) \/ SendClosed(s, c)
  BY DEF Sending
<1>2. CASE SendCheck(s, c)
  <2> DEFINE rest == [send[s] EXCEPT !.todo = @ \ {c}]
  <2>1. rest \in Sends /\ [rest EXCEPT !.at = "enqueue", !.cur = {c}] \in Sends
    BY <1>0 DEF Sends
  <2>2. Onward(rest) \in Sends
    BY <2>1, OnwardFacts
  <2>3. SendsTyped'
    BY <1>0, <1>2, <2>1, <2>2 DEF SendCheck, SendsTyped
  <2>. QED  BY <1>2, <2>3, TypesStay, TypeSplitNext DEF SendCheck
<1>3. CASE SendEnqueue(s, c)
  <2>1. Onward(send[s]) \in Sends /\ [send[s] EXCEPT !.at = "close"] \in Sends
    BY <1>0, OnwardFacts DEF Sends
  <2>2. SendsTyped'
    BY <1>0, <1>3, <2>1 DEF SendEnqueue, SendsTyped
  <2>3. ClientsTyped'
    BY <1>0, <1>3 DEF SendEnqueue, ClientsTyped, Conns, Closing
  <2>4. QueuesTyped'
    <3>1. CASE Len(queue[c]) < SendBuffer
      <4>1. send[s].msg \in All
        BY <1>3 DEF SendEnqueue, Shaped, SendShape
      <4>2. Append(queue[c], send[s].msg) \in Seq(All) /\ Len(Append(queue[c], send[s].msg)) = Len(queue[c]) + 1
        BY <1>0, <4>1, Appended DEF QueuesTyped
      <4>3. Len(queue[c]) + 1 <= SendBuffer
        BY <1>0, <3>1, BufferAssumption DEF QueuesTyped
      <4>. QED  BY <1>0, <1>3, <3>1, <4>2, <4>3 DEF SendEnqueue, QueuesTyped
    <3>2. CASE ~(Len(queue[c]) < SendBuffer)
      BY <1>0, <1>3, <3>2 DEF SendEnqueue, QueuesTyped
    <3>. QED  BY <3>1, <3>2
  <2>. QED  BY <1>3, <2>2, <2>3, <2>4, TypesStay, TypeSplitNext DEF SendEnqueue
<1>4. CASE SendClosed(s, c)
  <2>1. SendsTyped'
    BY <1>0, <1>4, OnwardFacts DEF SendClosed, SendsTyped
  <2>. QED  BY <1>4, <2>1, TypesStay, TypeSplitNext DEF SendClosed
<1>. QED  BY <1>1, <1>2, <1>3, <1>4

\* The sender that moves has what it should have.
LEMMA OnwardShaped ==
    ASSUME NEW q \in Sends, q.msg \in All
    PROVE  SendShape(Onward(q))
  BY OnwardFacts, SilentFacts DEF SendShape

LEMMA OneSends ==
    ASSUME SendsTyped, Shaped, NEW s \in Senders, NEW q, send' = [send EXCEPT ![s] = q], SendShape(q)
    PROVE  Shaped'
  BY DEF SendsTyped, Shaped

LEMMA SendingShaped ==
    ASSUME TypeOK, Shaped, NEW s \in Senders, Sending(s)
    PROVE  Shaped'
<1>0. SendsTyped /\ send[s] \in Sends /\ SendShape(send[s])
  BY TypeSplit DEF SendsTyped, Shaped
<1>1. PICK c \in Clients : SendCheck(s, c) \/ SendEnqueue(s, c) \/ SendClosed(s, c)
  BY DEF Sending
<1>2. send[s].at # "idle" /\ send[s].msg \in All
  BY <1>0, <1>1 DEF SendShape, SendCheck, SendEnqueue, SendClosed
<1>3. CASE SendCheck(s, c)
  <2> DEFINE rest == [send[s] EXCEPT !.todo = @ \ {c}]
             next == [rest EXCEPT !.at = "enqueue", !.cur = {c}]
  <2>1. rest \in Sends /\ rest.msg \in All
    BY <1>0, <1>2 DEF Sends
  <2>2. next.at = "enqueue" /\ next.cur = {c} /\ next.msg \in All /\ c \notin next.todo
    BY <1>0, <1>2 DEF Sends
  <2>3. SendShape(next)
    BY <2>2 DEF SendShape
  <2>4. send' = [send EXCEPT ![s] = IF Done(c) THEN Onward(rest) ELSE next]
    BY <1>3 DEF SendCheck
  <2>. HIDE DEF next, rest
  <2>. QED  BY <1>0, <2>1, <2>3, <2>4, OnwardShaped, OneSends
<1>4. CASE SendEnqueue(s, c)
  <2> DEFINE next == [send[s] EXCEPT !.at = "close"]
  <2>1. next.at = "close" /\ next.cur = send[s].cur /\ next.msg = send[s].msg /\ next.todo = send[s].todo
    BY <1>0 DEF Sends
  <2>2. SendShape(next)
    BY <1>0, <1>2, <1>4, <2>1 DEF SendShape, SendEnqueue
  <2>3. send' = [send EXCEPT ![s] = Onward(@)] \/ send' = [send EXCEPT ![s] = next]
    BY <1>4 DEF SendEnqueue
  <2>. HIDE DEF next
  <2>. QED  BY <1>0, <1>2, <2>2, <2>3, OnwardShaped, OneSends
<1>5. CASE SendClosed(s, c)
  BY <1>0, <1>2, <1>5, OnwardShaped, OneSends DEF SendClosed
<1>. QED  BY <1>1, <1>3, <1>4, <1>5

LEMMA BeginShaped ==
    ASSUME TypeOK, Shaped, NEW s \in Senders, NEW m \in All, NEW clients \in SUBSET Clients,
           Begin(s, m, clients)
    PROVE  Shaped'
<1> DEFINE q == [at |-> "check", msg |-> m, todo |-> clients, cur |-> {}]
<1>1. q \in Sends /\ q.msg \in All
  BY DEF Sends
<1>2. send' = [send EXCEPT ![s] = Onward(q)]
  BY DEF Begin
<1>. HIDE DEF q
<1>. QED  BY <1>1, <1>2, OnwardShaped, OneSends, TypeSplit

-----------------------------------------------------------------------------
(* Connections                                                             *)

Dead(c) == pump[c].at \in {"exit", "close", "stopped"}

\* What serve, the pump and the connection of a client know of each other.
Alive(c) ==
    /\ conn[c] = "none" <=> serve[c] = "none"
    /\ pump[c].at = "none" <=> serve[c] = "none"
    /\ pump[c].at # "write" => pump[c].msg = NoMsg
    /\ c \in room <=> serve[c] \in {"read", "leave"}
    /\ serve[c] = "gone" => conn[c] = "closed"

Lives == (hasRoom <=> room # {}) /\ \A c \in Clients : Alive(c)

\* A client's way to its end.
Ages(c) ==
    /\ conn[c] # "none" => conn'[c] # "none"
    /\ Done(c) => Done(c)'
    /\ Dead(c) => Dead(c)'
    /\ pump[c].at = "exit" => pump'[c].at = "exit" \/ Done(c)'

\* A step of c leaves other clients alone.
Others(c) ==
    \A d \in Clients \ {c} :
        /\ conn'[d] = conn[d] /\ pump'[d] = pump[d] /\ serve'[d] = serve[d]
        /\ d \in room' <=> d \in room

LEMMA CalmOthers ==
    ASSUME TypeOK, NEW c \in Clients, CalmStep(c)
    PROVE  Others(c)
<1>0. ClientsTyped
  BY TypeSplit
<1>. QED  BY <1>0 DEF Others, ClientsTyped, CalmStep, ServeStep, PumpStep, Connect, Serving, Join, Leave,
                      ServeClose, ServeReturn, ReadError, PumpDone, PumpPing, PumpFail, PumpClose,
                      PumpReturn, CloseConn, Closing

\* A calm step of c, as its goroutines see it.
LEMMA CalmAlive ==
    ASSUME TypeOK, Lives, NEW c \in Clients, CalmStep(c)
    PROVE  /\ Alive(c)' /\ Ages(c) /\ (hasRoom' <=> room' # {})
           /\ pump'[c].msg = pump[c].msg \/ (pump'[c].msg = NoMsg /\ pump'[c].at = "exit")
<1>0. /\ ClientsTyped /\ HubTyped /\ Alive(c) /\ pump[c] \in Pumps /\ conn[c] \in Conns /\ serve[c] \in Serves
      /\ hasRoom <=> room # {}
  BY TypeSplit DEF Lives, ClientsTyped
<1>1. CASE Connect(c)
  <2>1. conn'[c] = "open" /\ pump'[c].at = "select" /\ pump'[c].msg = NoMsg /\ serve'[c] = "join"
    BY <1>0, <1>1, PumpFacts DEF Connect, ClientsTyped, Waiting
  <2>2. conn[c] = "none" /\ pump[c].at = "none" /\ pump[c].msg = NoMsg /\ c \notin room
    BY <1>0, <1>1 DEF Connect, Alive
  <2>. QED  BY <1>0, <1>1, <2>1, <2>2 DEF Connect, Alive, Ages, Done, Dead
<1>2. CASE Serving(c) \/ ReadError(c)
  <2>1. pump' = pump /\ serve'[c] # "none" /\ serve[c] # "none"
    BY <1>0, <1>2 DEF Serving, Join, Leave, ServeClose, ServeReturn, ReadError, ClientsTyped
  <2>2. conn' = conn \/ (serve[c] = "exit" /\ conn' = Closing(c))
    BY <1>2 DEF Serving, Join, Leave, ServeClose, ServeReturn, ReadError
  <2>3. /\ conn[c] # "none" => conn'[c] # "none"
        /\ Done(c) => Done(c)'
        /\ conn[c] = "closed" => conn'[c] = "closed"
    BY <1>0, <2>2 DEF Closing, Done, ClientsTyped, Conns
  <2>4. c \in room' <=> serve'[c] \in {"read", "leave"}
    BY <1>0, <1>2 DEF Serving, Join, Leave, ServeClose, ServeReturn, ReadError, ClientsTyped, Alive
  <2>5. serve'[c] = "gone" => serve[c] = "close" /\ conn[c] = "closed"
    BY <1>0, <1>2 DEF Serving, Join, Leave, ServeClose, ServeReturn, ReadError, ClientsTyped
  <2>6. hasRoom' <=> room' # {}
    <3>1. CASE Join(c)
      BY <3>1 DEF Join
    <3>2. CASE Leave(c)
      <4>1. hasRoom' = (hasRoom /\ room' # {}) /\ room' \subseteq room
        BY <3>2 DEF Leave
      <4>. QED  BY <1>0, <4>1, Zenon
    <3>3. CASE ServeClose(c) \/ ServeReturn(c) \/ ReadError(c)
      BY <1>0, <3>3 DEF ServeClose, ServeReturn, ReadError
    <3>. QED  BY <1>2, <3>1, <3>2, <3>3 DEF Serving
  <2>7. conn[c] # "none" /\ pump[c].at # "none"
    BY <1>0, <2>1 DEF Alive
  <2>8. Alive(c)'
    BY <1>0, <2>1, <2>3, <2>4, <2>5, <2>7 DEF Alive
  <2>9. Ages(c)
    BY <2>1, <2>3 DEF Ages, Dead
  <2>. QED  BY <2>1, <2>6, <2>8, <2>9
<1>3. CASE PumpStep(c)
  <2>1. /\ serve' = serve /\ room' = room /\ hasRoom' = hasRoom
        /\ conn' = conn \/ (pump[c].at = "exit" /\ conn' = Closing(c))
    BY <1>3 DEF PumpStep, PumpDone, PumpPing, PumpFail, PumpClose, PumpReturn
  <2>2. /\ pump[c].at # "none" /\ conn[c] # "none"
    BY <1>0, <1>3 DEF PumpStep, PumpDone, PumpPing, PumpFail, PumpClose, PumpReturn, Alive
  <2>3. /\ conn'[c] # "none"
        /\ Done(c) => Done(c)'
        /\ conn[c] = "closed" => conn'[c] = "closed"
        /\ conn' = Closing(c) => Done(c)'
    BY <1>0, <2>1, <2>2 DEF Closing, Done, ClientsTyped, Conns
  <2>4. \A l \in {"write", "exit", "close", "stopped"} : Pump(l, NoMsg).at = l /\ Pump(l, NoMsg).msg = NoMsg
    BY PumpFacts
  <2>5. /\ pump'[c].at # "none" /\ pump'[c].msg = NoMsg
        /\ Dead(c) => Dead(c)'
        /\ pump[c].at = "exit" => conn' = Closing(c)
        /\ pump'[c].msg = pump[c].msg \/ pump'[c].at = "exit"
    BY <1>0, <1>3, <2>4 DEF PumpStep, PumpDone, PumpPing, PumpFail, PumpClose, PumpReturn, ClientsTyped,
                            Dead, Alive
  <2>6. Alive(c)'
    BY <1>0, <2>1, <2>2, <2>3, <2>5 DEF Alive
  <2>7. Ages(c)
    BY <2>3, <2>5 DEF Ages
  <2>8. hasRoom' <=> room' # {}
    BY <1>0, <2>1, Zenon
  <2>. QED  BY <2>5, <2>6, <2>7, <2>8
<1>4. CASE CloseConn(c)
  BY <1>0, <1>4 DEF CloseConn, ClientsTyped, Alive, Ages, Done, Dead
<1>. QED  BY <1>1, <1>2, <1>3, <1>4 DEF CalmStep, ServeStep

LEMMA OthersAlive ==
    ASSUME Lives, NEW c \in Clients, Others(c), Alive(c)', Ages(c), hasRoom' <=> room' # {}
    PROVE  Lives' /\ \A d \in Clients : Ages(d)
<1>1. ASSUME NEW d \in Clients \ {c} PROVE Alive(d)' /\ Ages(d)
  BY <1>1 DEF Lives, Others, Alive, Ages, Done, Dead
<1>. QED  BY <1>1 DEF Lives

LEMMA CalmLives ==
    ASSUME TypeOK, Lives, NEW c \in Clients, CalmStep(c)
    PROVE  Lives' /\ \A d \in Clients : Ages(d)
  BY CalmOthers, CalmAlive, OthersAlive

\* The steps that move a message.
LEMMA PumpLives ==
    ASSUME TypeOK, Lives, NEW c \in Clients, PumpTake(c) \/ PumpWrite(c)
    PROVE  Lives' /\ \A d \in Clients : Ages(d)
<1>0. ClientsTyped /\ Alive(c) /\ UNCHANGED <<room, hasRoom, conn, serve>>
  BY TypeSplit DEF Lives, PumpTake, PumpWrite
<1>1. Others(c)
  BY <1>0 DEF Others, PumpTake, PumpWrite, ClientsTyped
<1>2. pump[c].at \in {"select", "write"} /\ pump'[c].at \in {"select", "write"}
      /\ (pump'[c].at # "write" => pump'[c].msg = NoMsg)
  BY <1>0 DEF PumpTake, PumpWrite, ClientsTyped, Waiting, Pump
<1>3. Alive(c)' /\ Ages(c)
  BY <1>0, <1>2 DEF Alive, Ages, Done, Dead
<1>. QED  BY <1>0, <1>1, <1>3, OthersAlive DEF Lives

LEMMA SendLives ==
    ASSUME TypeOK, Lives, NEW s \in Senders, BeginStep(s) \/ Sending(s) \/ UNCHANGED vars
    PROVE  Lives' /\ \A d \in Clients : Ages(d)
<1>0. ClientsTyped
  BY TypeSplit
<1>1. /\ UNCHANGED <<room, hasRoom, pump, serve>>
      /\ conn' = conn \/ \E c \in Clients : conn' = Closing(c)
  BY DEF BeginStep, Broadcast, SendPong, Begin, Sending, SendCheck, SendEnqueue, SendClosed, vars
<1>2. ASSUME NEW d \in Clients
      PROVE  /\ conn'[d] = "none" <=> conn[d] = "none"
             /\ Done(d) => Done(d)'
             /\ conn[d] = "closed" => conn'[d] = "closed"
  BY <1>0, <1>1 DEF Closing, ClientsTyped, Conns, Done
<1>. QED  BY <1>1, <1>2 DEF Lives, Alive, Ages, Dead

-----------------------------------------------------------------------------
(* What every step keeps                                                   *)

Base == TypeOK /\ Shaped /\ Lives

LEMMA BaseInit == Init => Base
<1> SUFFICES ASSUME Init PROVE Base
  OBVIOUS
<1>1. TypeOK
  BY TypeInit
<1>2. Shaped
  BY SilentFacts DEF Init, Shaped, SendShape
<1>3. Lives
  <2>1. Pump("none", NoMsg).at = "none" /\ Pump("none", NoMsg).msg = NoMsg
    BY PumpFacts
  <2>2. hasRoom = FALSE /\ room = {}
    BY DEF Init
  <2>3. \A c \in Clients : Alive(c)
    BY <2>1 DEF Init, Alive
  <2>. QED  BY <2>2, <2>3 DEF Lives
<1>. QED  BY <1>1, <1>2, <1>3 DEF Base

LEMMA BaseStep ==
    ASSUME Base, [Next]_vars
    PROVE  Base' /\ \A c \in Clients : Ages(c)
<1>0. TypeOK /\ Shaped /\ Lives
  BY DEF Base
<1>1. CASE \E c \in Clients : CalmStep(c)
  <2>1. PICK c \in Clients : CalmStep(c)
    BY <1>1
  <2>2. UNCHANGED <<queue, send, unsent, wire, target, before>> /\ HubTyped' /\ ClientsTyped'
    BY <1>0, <2>1, CalmStays, CalmTyped
  <2>3. TypeOK'
    BY <1>0, <2>2, TypesStay, TypeSplitNext
  <2>4. Shaped'
    BY <1>0, <2>2 DEF Shaped, SendShape
  <2>. QED  BY <1>0, <2>1, <2>3, <2>4, CalmLives DEF Base
<1>2. CASE \E c \in Clients : PumpTake(c) \/ PumpWrite(c)
  <2>1. PICK c \in Clients : PumpTake(c) \/ PumpWrite(c)
    BY <1>2
  <2>2. TypeOK'
    BY <1>0, <2>1, PumpTakeTyped, PumpWriteTyped
  <2>3. Shaped'
    BY <1>0, <2>1 DEF Shaped, SendShape, PumpTake, PumpWrite
  <2>. QED  BY <1>0, <2>1, <2>2, <2>3, PumpLives DEF Base
<1>3. CASE \E s \in Senders : BeginStep(s)
  <2>1. PICK s \in Senders : BeginStep(s)
    BY <1>3
  <2>2. PICK m \in unsent, clients \in SUBSET Clients : Begin(s, m, clients) /\ m \in All
    BY <1>0, <2>1, BeginIsBegin
  <2>3. TypeOK' /\ Shaped'
    BY <1>0, <2>2, BeginTyped, BeginShaped
  <2>. QED  BY <1>0, <2>1, <2>3, SendLives DEF Base
<1>4. CASE \E s \in Senders : Sending(s)
  <2>1. PICK s \in Senders : Sending(s)
    BY <1>4
  <2>2. TypeOK' /\ Shaped'
    BY <1>0, <2>1, SendingTyped, SendingShaped
  <2>. QED  BY <1>0, <2>1, <2>2, SendLives DEF Base
<1>5. CASE UNCHANGED vars
  <2>1. TypeOK' /\ Shaped' /\ Lives'
    BY <1>0, <1>5 DEF vars, TypeOK, Shaped, SendShape, Lives, Alive
  <2>2. \A c \in Clients : Ages(c)
    BY <1>5 DEF vars, Ages, Done, Dead
  <2>. QED  BY <2>1, <2>2 DEF Base
<1>. QED  BY <1>1, <1>2, <1>3, <1>4, <1>5, NextSteps

\* What the connections, pumps, queues and senders hold has its type, and no
\* queue holds more than its capacity.
THEOREM TypeCorrect == Spec => []TypeOK
<1>1. Init => Base
  BY BaseInit
<1>2. Base /\ [Next]_vars => Base'
  BY BaseStep
<1>3. Base => TypeOK
  BY DEF Base
<1>. QED  BY <1>1, <1>2, <1>3, PTL DEF Spec

\* Whoever returned from its handler is closed and in no room, and the map has
\* no key for a room nobody is in.
THEOREM LeavesNothing == Spec => []NothingLeftBehind
<1>1. Init => Base
  BY BaseInit
<1>2. Base /\ [Next]_vars => Base'
  BY BaseStep
<1>3. ASSUME Base PROVE NothingLeftBehind
  <2>1. Lives /\ room \subseteq Clients
    BY <1>3 DEF Base, TypeOK
  <2>2. \A c \in Clients : serve[c] = "gone" => conn[c] = "closed" /\ c \notin room
    BY <2>1 DEF Lives, Alive
  <2>3. ASSUME \A c \in Clients : serve[c] \in {"none", "join", "exit", "close", "gone"} PROVE ~hasRoom
    <3>1. room = {}
      BY <2>1, <2>3 DEF Lives, Alive
    <3>. QED  BY <2>1, <3>1 DEF Lives
  <2>. QED  BY <2>2, <2>3 DEF NothingLeftBehind
<1>. QED  BY <1>1, <1>2, <1>3, PTL DEF Spec

-----------------------------------------------------------------------------
(* Steps, by what they do to the messages                                  *)

\* A sender and the clients it has still to serve, one of them in hand.
Holding(s) == send[s].todo \cup send[s].cur

\* What reached the client, or its queue, or its pump.
In(c) == ToSet(wire[c]) \cup ToSet(queue[c]) \cup {pump[c].msg}

\* No message moves; a pump that fails lets go of its own.
Calm ==
    /\ UNCHANGED <<queue, send, unsent, wire, target, before>>
    /\ \A c \in Clients :
           pump'[c].msg = pump[c].msg \/ (pump'[c].msg = NoMsg /\ pump'[c].at = "exit")

\* s begins to send m.
Begins(s, m, clients) ==
    /\ UNCHANGED <<queue, pump, wire, conn>>
    /\ \A t \in Senders \ {s} : send'[t] = send[t]
    /\ send'[s].todo = clients /\ send'[s].cur = {}
    /\ send'[s] = Silent \/ send'[s].msg = m
    /\ unsent' = unsent \ {m}
    /\ target' = [target EXCEPT ![m] = clients]
    /\ before' = before \cup (Finished \X {m})

\* s moves with client c: takes it in hand, lets it go, or queues the message.
Passes(s, c) ==
    /\ UNCHANGED <<pump, unsent, wire, target, before>>
    /\ \A t \in Senders \ {s} : send'[t] = send[t]
    /\ send[s].msg \in All /\ c \in Holding(s)
    /\ send'[s] = Silent \/ send'[s].msg = send[s].msg
    /\ send'[s].todo \subseteq send[s].todo /\ send'[s].cur \subseteq {c}
    /\ Holding(s) \ {c} \subseteq Holding(s)'
    /\ c \in send'[s].cur => c \in send[s].cur \/ ~Done(c)
    /\ \/ c \in Holding(s)' /\ UNCHANGED queue
       \/ c \notin Holding(s)' /\ Done(c) /\ UNCHANGED queue
       \/ /\ c \notin Holding(s)' /\ c \in send[s].cur
          /\ queue' = [queue EXCEPT ![c] = Append(@, send[s].msg)]

LEMMA CalmIsCalm ==
    ASSUME Base, (\E c \in Clients : CalmStep(c)) \/ UNCHANGED vars
    PROVE  Calm
<1>1. CASE UNCHANGED vars
  BY <1>1 DEF vars, Calm
<1>2. CASE \E c \in Clients : CalmStep(c)
  <2>1. PICK c \in Clients : CalmStep(c)
    BY <1>2
  <2>2. Others(c) /\ (pump'[c].msg = pump[c].msg \/ (pump'[c].msg = NoMsg /\ pump'[c].at = "exit"))
    BY <2>1, CalmOthers, CalmAlive DEF Base
  <2>. QED  BY <2>1, <2>2, CalmStays DEF Calm, Others
<1>. QED  BY <1>1, <1>2

LEMMA BeginBegins ==
    ASSUME Base, NEW s \in Senders, NEW m \in All, NEW clients \in SUBSET Clients, Begin(s, m, clients)
    PROVE  Begins(s, m, clients) /\ send[s] = Silent
<1> DEFINE q == [at |-> "check", msg |-> m, todo |-> clients, cur |-> {}]
<1>0. SendsTyped /\ send[s] = Silent
  BY TypeSplit DEF Base, Shaped, SendShape, Begin, MaySend
<1>1. q \in Sends /\ q.msg = m /\ q.todo = clients
  BY DEF Sends
<1>2. send' = [send EXCEPT ![s] = Onward(q)]
  BY DEF Begin
<1>. HIDE DEF q
<1>3. Onward(q).todo = clients /\ Onward(q).cur = {} /\ (Onward(q) = Silent \/ Onward(q).msg = m)
  BY <1>1, OnwardFacts, SilentFacts
<1>4. send'[s] = Onward(q) /\ \A t \in Senders \ {s} : send'[t] = send[t]
  BY <1>0, <1>2 DEF SendsTyped
<1>. QED  BY <1>0, <1>3, <1>4 DEF Begin, Begins

LEMMA OnwardPasses ==
    ASSUME NEW q \in Sends
    PROVE  /\ Onward(q).todo = q.todo /\ Onward(q).cur = {}
           /\ Onward(q) = Silent \/ Onward(q).msg = q.msg
  BY OnwardFacts, SilentFacts

LEMMA SendingPasses ==
    ASSUME Base, NEW s \in Senders, Sending(s)
    PROVE  \E c \in Clients : Passes(s, c)
<1>0. SendsTyped /\ send[s] \in Sends /\ SendShape(send[s])
  BY TypeSplit DEF Base, SendsTyped, Shaped
<1>1. PICK c \in Clients : SendCheck(s, c) \/ SendEnqueue(s, c) \/ SendClosed(s, c)
  BY DEF Sending
<1>2. send[s].at # "idle" /\ send[s].msg \in All
  BY <1>0, <1>1 DEF SendShape, SendCheck, SendEnqueue, SendClosed
<1>3. \A q : send' = [send EXCEPT ![s] = q] => send'[s] = q /\ \A t \in Senders \ {s} : send'[t] = send[t]
  BY <1>0 DEF SendsTyped
<1>4. CASE SendCheck(s, c)
  <2> DEFINE rest == [send[s] EXCEPT !.todo = @ \ {c}]
             next == [rest EXCEPT !.at = "enqueue", !.cur = {c}]
  <2>1. rest \in Sends /\ rest.msg = send[s].msg /\ rest.todo = send[s].todo \ {c}
    BY <1>0 DEF Sends
  <2>2. next.cur = {c} /\ next.msg = send[s].msg /\ next.todo = send[s].todo \ {c}
    BY <1>0 DEF Sends
  <2>3. send' = [send EXCEPT ![s] = IF Done(c) THEN Onward(rest) ELSE next]
    BY <1>4 DEF SendCheck
  <2>4. c \in send[s].todo /\ send[s].cur = {}
    BY <1>0, <1>4 DEF SendCheck, SendShape
  <2>. HIDE DEF next, rest
  <2>5. CASE Done(c)
    <3>1. send'[s].todo = send[s].todo \ {c} /\ send'[s].cur = {}
          /\ (send'[s] = Silent \/ send'[s].msg = send[s].msg)
      <4>1. send'[s] = Onward(rest)
        BY <1>3, <2>3, <2>5
      <4>2. Onward(rest).todo = rest.todo /\ Onward(rest).cur = {}
            /\ (Onward(rest) = Silent \/ Onward(rest).msg = rest.msg)
        BY <2>1, OnwardPasses
      <4>. QED  BY <2>1, <4>1, <4>2
    <3>. QED  BY <1>2, <1>3, <1>4, <2>3, <2>4, <2>5, <3>1 DEF Passes, Holding, SendCheck
  <2>6. CASE ~Done(c)
    <3>1. send'[s].todo = send[s].todo \ {c} /\ send'[s].cur = {c} /\ send'[s].msg = send[s].msg
      BY <1>3, <2>2, <2>3, <2>6
    <3>. QED  BY <1>2, <1>3, <1>4, <2>3, <2>4, <2>6, <3>1 DEF Passes, Holding, SendCheck
  <2>. QED  BY <2>5, <2>6
<1>5. CASE SendEnqueue(s, c) \/ SendClosed(s, c)
  <2>1. send[s].cur = {c} /\ c \notin send[s].todo
    BY <1>0, <1>5 DEF SendEnqueue, SendClosed, SendShape
  <2>2. UNCHANGED <<pump, unsent, wire, target, before>>
    BY <1>5 DEF SendEnqueue, SendClosed
  <2>3. CASE send' = [send EXCEPT ![s] = Onward(@)]
    <3>1. send' = [send EXCEPT ![s] = Onward(send[s])]
      BY <2>3
    <3>2. send'[s].todo = send[s].todo /\ send'[s].cur = {}
          /\ (send'[s] = Silent \/ send'[s].msg = send[s].msg)
          /\ \A t \in Senders \ {s} : send'[t] = send[t]
      BY <1>0, <1>3, <3>1, OnwardPasses
    <3>3. \/ Done(c) /\ UNCHANGED queue
          \/ queue' = [queue EXCEPT ![c] = Append(@, send[s].msg)]
          \/ send' = [send EXCEPT ![s].at = "close"]
      BY <1>5 DEF SendEnqueue, SendClosed, Done
    <3>4. send' # [send EXCEPT ![s].at = "close"]
      BY <1>0, <2>1, <3>2 DEF SendsTyped, Sends
    <3>. QED  BY <1>2, <2>1, <2>2, <3>2, <3>3, <3>4 DEF Passes, Holding
  <2>4. CASE UNCHANGED queue /\ send' = [send EXCEPT ![s].at = "close"]
    <3>1. send'[s].todo = send[s].todo /\ send'[s].cur = send[s].cur /\ send'[s].msg = send[s].msg
          /\ \A t \in Senders \ {s} : send'[t] = send[t]
      BY <1>0, <2>4 DEF SendsTyped, Sends
    <3>. QED  BY <1>2, <2>1, <2>2, <2>4, <3>1 DEF Passes, Holding
  <2>. QED  BY <1>5, <2>3, <2>4 DEF SendEnqueue, SendClosed
<1>. QED  BY <1>1, <1>4, <1>5

LEMMA MessageSteps ==
    ASSUME Base, [Next]_vars
    PROVE  \/ Calm
           \/ \E c \in Clients : PumpTake(c) \/ PumpWrite(c)
           \/ \E s \in Senders, m \in unsent, clients \in SUBSET Clients :
                  m \in All /\ Begins(s, m, clients) /\ send[s] = Silent
           \/ \E s \in Senders, c \in Clients : Passes(s, c)
<1>1. CASE \E s \in Senders : BeginStep(s)
  <2>1. PICK s \in Senders : BeginStep(s)
    BY <1>1
  <2>2. PICK m \in unsent, clients \in SUBSET Clients : Begin(s, m, clients) /\ m \in All
    BY <2>1, BeginIsBegin DEF Base
  <2>. QED  BY <2>2, BeginBegins
<1>. QED  BY <1>1, NextSteps, CalmIsCalm, SendingPasses

-----------------------------------------------------------------------------
(* Whom a message is for                                                   *)

Aimed ==
    /\ \A m \in unsent : target[m] = {}
    /\ \A s \in Senders :
           send[s].msg \in All => /\ send[s].msg \notin unsent
                                  /\ Holding(s) \subseteq target[send[s].msg]
    /\ \A s \in Senders : send[s].msg \notin All => send[s] = Silent
    /\ \A s, t \in Senders : send[s].msg \in All /\ send[s].msg = send[t].msg => s = t

\* One message is sent out completely before the other is begun.
Sequential ==
    \A p \in before : /\ p[1] \notin unsent /\ p[2] \notin unsent
                      /\ \A s \in Senders : send[s].msg # p[1]

LEMMA SilentMsg == Silent.msg \notin All /\ Silent.todo = {} /\ Silent.cur = {}
  BY SilentFacts, NamesAssumption DEF All

LEMMA AimedInit == Init => Aimed /\ Sequential
  BY SilentMsg DEF Init, Aimed, Sequential, Holding

LEMMA AimedStep ==
    ASSUME Base, Aimed, Sequential, [Next]_vars
    PROVE  Aimed' /\ Sequential'
<1>0. HistoryTyped
  BY TypeSplit DEF Base
<1>1. CASE UNCHANGED <<send, unsent, target, before>>
  BY <1>1 DEF Aimed, Sequential, Holding
<1>2. CASE \E s \in Senders, m \in unsent, clients \in SUBSET Clients :
               m \in All /\ Begins(s, m, clients) /\ send[s] = Silent
  <2>1. PICK s \in Senders, m \in unsent, clients \in SUBSET Clients :
            m \in All /\ Begins(s, m, clients) /\ send[s] = Silent
    BY <1>2
  <2>2. target'[m] = clients /\ \A n \in All \ {m} : target'[n] = target[n]
    BY <1>0, <2>1 DEF Begins, HistoryTyped
  <2>3. \A t \in Senders \ {s} : send[t].msg \in All => send[t].msg \notin unsent /\ send[t].msg # m
    BY <2>1 DEF Aimed
  <2>4. \A t \in Senders \ {s} : send'[t] = send[t]
    BY <2>1 DEF Begins
  <2>5. /\ send'[s].todo = clients /\ send'[s].cur = {} /\ m \notin unsent' /\ unsent' \subseteq unsent
        /\ send'[s] = Silent \/ send'[s].msg = m
    BY <2>1 DEF Begins
  <2>6. \A n \in unsent' : target'[n] = {}
    BY <1>0, <2>1, <2>2, <2>5 DEF Aimed, HistoryTyped
  <2>7. ASSUME NEW t \in Senders
        PROVE  /\ send'[t].msg \in All => send'[t].msg \notin unsent' /\ Holding(t)' \subseteq target'[send'[t].msg]
               /\ send'[t].msg \notin All => send'[t] = Silent
    <3>1. CASE t = s
      BY <2>1, <2>2, <2>5, <3>1, SilentMsg DEF Holding
    <3>2. CASE t # s
      BY <2>2, <2>3, <2>4, <2>5, <3>2 DEF Aimed, Holding
    <3>. QED  BY <3>1, <3>2
  <2>8. ASSUME NEW t \in Senders, NEW u \in Senders, send'[t].msg \in All, send'[t].msg = send'[u].msg
        PROVE  t = u
    BY <2>3, <2>4, <2>5, <2>8, SilentMsg DEF Aimed
  <2>9. ASSUME NEW p \in before'
        PROVE  p[1] \notin unsent' /\ p[2] \notin unsent' /\ \A t \in Senders : send'[t].msg # p[1]
    <3>1. CASE p \in before
      <4>1. p[1] \notin unsent /\ p[2] \notin unsent /\ \A t \in Senders : send[t].msg # p[1]
        BY <3>1 DEF Sequential
      <4>2. p[1] \in All
        BY <1>0, <3>1 DEF HistoryTyped
      <4>. QED  BY <2>1, <2>4, <2>5, <4>1, <4>2, SilentMsg
    <3>2. CASE p \in Finished \X {m}
      <4>1. p[1] \in All \ unsent /\ p[2] = m /\ \A t \in Senders : send[t].msg # p[1]
        BY <3>2 DEF Finished
      <4>. QED  BY <2>1, <2>4, <2>5, <4>1, SilentMsg
    <3>. QED  BY <2>1, <3>1, <3>2 DEF Begins
  <2>10. Aimed'
    BY <2>6, <2>7, <2>8 DEF Aimed
  <2>. QED  BY <2>9, <2>10 DEF Sequential
<1>3. CASE \E s \in Senders, c \in Clients : Passes(s, c)
  <2>1. PICK s \in Senders, c \in Clients : Passes(s, c)
    BY <1>3
  <2>2. /\ \A t \in Senders \ {s} : send'[t] = send[t]
        /\ UNCHANGED <<unsent, target, before>> /\ send[s].msg \in All
        /\ send'[s] = Silent \/ send'[s].msg = send[s].msg
    BY <2>1 DEF Passes
  <2>3. Holding(s)' \subseteq Holding(s)
    BY <2>1 DEF Passes, Holding
  <2>4. ASSUME NEW t \in Senders
        PROVE  /\ send'[t].msg \in All => send'[t].msg \notin unsent' /\ Holding(t)' \subseteq target'[send'[t].msg]
               /\ send'[t].msg \notin All => send'[t] = Silent
    <3>1. CASE t = s
      BY <2>2, <2>3, <3>1, SilentMsg DEF Aimed
    <3>2. CASE t # s
      BY <2>2, <3>2 DEF Aimed, Holding
    <3>. QED  BY <3>1, <3>2
  <2>5. ASSUME NEW t \in Senders, NEW u \in Senders, send'[t].msg \in All, send'[t].msg = send'[u].msg
        PROVE  t = u
    BY <2>2, <2>5, SilentMsg DEF Aimed
  <2>6. Aimed'
    BY <2>2, <2>4, <2>5 DEF Aimed
  <2>7. ASSUME NEW p \in before PROVE \A t \in Senders : send'[t].msg # p[1]
    <3>1. p[1] \in All /\ \A t \in Senders : send[t].msg # p[1]
      BY <1>0 DEF HistoryTyped, Sequential
    <3>. QED  BY <2>2, <3>1, SilentMsg
  <2>8. Sequential'
    BY <2>2, <2>7 DEF Sequential
  <2>. QED  BY <2>6, <2>8
<1>. QED  BY <1>1, <1>2, <1>3, MessageSteps DEF Calm, PumpTake, PumpWrite

-----------------------------------------------------------------------------
(* Nobody is left behind                                                   *)

Pending(m, c) == \E s \in Senders : send[s].msg = m /\ c \in Holding(s)

\* One client and one message of NoSilentGap.
NoGap(m, c) == m \in In(c) \/ Pending(m, c) \/ Done(c) \/ pump[c].at = "exit"

LEMMA GapSplit == NoSilentGap <=> \A m \in All : \A c \in target[m] : NoGap(m, c)
  BY DEF NoSilentGap, NoGap, In, Pending, Holding

LEMMA GapSplitNext == NoSilentGap' <=> \A m \in All : \A c \in target'[m] : NoGap(m, c)'
  BY DEF NoSilentGap, NoGap, In, Pending, Holding

\* What a client holds, and what the pump's two steps do to it.
LEMMA TakeKeepsIn ==
    ASSUME Base, NEW c \in Clients, PumpTake(c)
    PROVE  /\ \A m \in All : m \in In(c) <=> m \in In(c)'
           /\ \A d \in Clients \ {c} : queue'[d] = queue[d] /\ pump'[d] = pump[d]
           /\ pump[c].msg = NoMsg /\ pump'[c].msg = Head(queue[c]) /\ queue'[c] = Tail(queue[c])
           /\ queue[c] \in Seq(All) /\ queue[c] # <<>> /\ ~Dead(c)
<1>0. QueuesTyped /\ ClientsTyped /\ Alive(c)
  BY TypeSplit DEF Base, Lives
<1>1. queue[c] \in Seq(All) /\ queue[c] # <<>> /\ pump[c].at = "select"
  BY <1>0 DEF PumpTake, QueuesTyped
<1>2. ToSet(queue[c]) = {Head(queue[c])} \cup ToSet(Tail(queue[c])) /\ Head(queue[c]) \in All
  BY <1>1, Taken
<1>3. pump'[c].msg = Head(queue[c]) /\ queue'[c] = Tail(queue[c]) /\ wire' = wire
  BY <1>0, <1>2, PumpFacts DEF PumpTake, QueuesTyped, ClientsTyped
<1>4. pump[c].msg = NoMsg /\ ~Dead(c)
  BY <1>0, <1>1 DEF Alive, Dead
<1>5. \A d \in Clients \ {c} : queue'[d] = queue[d] /\ pump'[d] = pump[d]
  BY <1>0 DEF PumpTake, QueuesTyped, ClientsTyped
<1>6. \A m \in All : m \in In(c) <=> m \in In(c)'
  BY <1>2, <1>3, <1>4, NamesAssumption DEF In, All
<1>. QED  BY <1>1, <1>3, <1>4, <1>5, <1>6

LEMMA WriteKeepsIn ==
    ASSUME Base, NEW c \in Clients, PumpWrite(c)
    PROVE  /\ \A m \in All : m \in In(c) <=> m \in In(c)'
           /\ \A d \in Clients \ {c} : wire'[d] = wire[d] /\ pump'[d] = pump[d]
           /\ pump'[c].msg = NoMsg
           /\ wire'[c] = IF pump[c].msg = NoMsg THEN wire[c] ELSE Append(wire[c], pump[c].msg)
           /\ wire[c] \in Seq(All) /\ pump[c].msg \in All \cup {NoMsg}
<1>0. WiresTyped /\ ClientsTyped
  BY TypeSplit DEF Base
<1>1. wire[c] \in Seq(All) /\ pump[c].msg \in All \cup {NoMsg}
  BY <1>0 DEF WiresTyped, ClientsTyped, Pumps
<1>2. Waiting.msg = NoMsg
  BY PumpFacts DEF Waiting
<1>3. /\ pump'[c].msg = NoMsg /\ queue' = queue
      /\ wire'[c] = IF pump[c].msg = NoMsg THEN wire[c] ELSE Append(wire[c], pump[c].msg)
      /\ \A d \in Clients \ {c} : wire'[d] = wire[d] /\ pump'[d] = pump[d]
  BY <1>0, <1>2 DEF PumpWrite, WiresTyped, ClientsTyped
<1>4. pump[c].msg # NoMsg => ToSet(wire'[c]) = ToSet(wire[c]) \cup {pump[c].msg}
  BY <1>1, <1>3, Appended
<1>5. \A m \in All : m \in In(c) <=> m \in In(c)'
  BY <1>1, <1>3, <1>4, NamesAssumption DEF In, All
<1>. QED  BY <1>1, <1>3, <1>5

\* What a sender's step leaves with a client.
LEMMA PassIn ==
    ASSUME Base, NEW s \in Senders, NEW c \in Clients, Passes(s, c)
    PROVE  /\ \A d \in Clients \ {c} : queue'[d] = queue[d]
           /\ \A d \in Clients : In(d) \subseteq In(d)'
           /\ In(c)' \subseteq In(c) \cup {send[s].msg}
           /\ \/ queue' = queue /\ (c \in Holding(s)' \/ Done(c))
              \/ /\ queue'[c] = Append(queue[c], send[s].msg) /\ queue[c] \in Seq(All)
                 /\ ToSet(queue'[c]) = ToSet(queue[c]) \cup {send[s].msg}
                 /\ c \notin Holding(s)' /\ c \in send[s].cur
<1>0. QueuesTyped /\ queue[c] \in Seq(All) /\ send[s].msg \in All /\ pump' = pump /\ wire' = wire
  BY TypeSplit DEF Base, QueuesTyped, Passes
<1>1. CASE queue' = queue /\ (c \in Holding(s)' \/ Done(c))
  BY <1>0, <1>1 DEF In
<1>2. CASE /\ c \notin Holding(s)' /\ c \in send[s].cur
           /\ queue' = [queue EXCEPT ![c] = Append(@, send[s].msg)]
  <2>1. queue'[c] = Append(queue[c], send[s].msg) /\ \A d \in Clients \ {c} : queue'[d] = queue[d]
    BY <1>0, <1>2 DEF QueuesTyped
  <2>2. ToSet(queue'[c]) = ToSet(queue[c]) \cup {send[s].msg}
    BY <1>0, <2>1, Appended
  <2>. QED  BY <1>0, <1>2, <2>1, <2>2 DEF In
<1>. QED  BY <1>1, <1>2 DEF Passes

LEMMA GapStep ==
    ASSUME Base, Aimed, NoSilentGap, [Next]_vars
    PROVE  NoSilentGap'
<1>0. \A m \in All : \A c \in target[m] : NoGap(m, c)
  BY GapSplit
<1>1. \A c \in Clients : Ages(c)
  BY BaseStep
<1>2. HistoryTyped
  BY TypeSplit DEF Base
<1> SUFFICES ASSUME NEW m \in All, NEW c \in target'[m]
             PROVE  NoGap(m, c)'
  BY GapSplitNext
<1>3. c \in target[m] => c \in Clients /\ NoGap(m, c) /\ (Done(c) \/ pump[c].at = "exit" => NoGap(m, c)')
  BY <1>0, <1>1, <1>2 DEF Ages, NoGap, HistoryTyped
<1>4. CASE Calm
  <2>1. c \in target[m] /\ c \in Clients /\ NoGap(m, c)
    BY <1>3, <1>4 DEF Calm
  <2>2. Pending(m, c) => Pending(m, c)'
    BY <1>4 DEF Calm, Pending, Holding
  <2>3. m \in In(c) => m \in In(c)' \/ pump'[c].at = "exit"
    BY <1>4, <2>1 DEF Calm, In
  <2>. QED  BY <1>3, <2>1, <2>2, <2>3 DEF NoGap
<1>5. CASE \E d \in Clients : PumpTake(d) \/ PumpWrite(d)
  <2>1. PICK d \in Clients : PumpTake(d) \/ PumpWrite(d)
    BY <1>5
  <2>2. UNCHANGED <<send, target>> /\ c \in Clients
    BY <1>3, <2>1 DEF PumpTake, PumpWrite
  <2>3. Pending(m, c) => Pending(m, c)'
    BY <2>2 DEF Pending, Holding
  <2>4. m \in In(c) => m \in In(c)'
    <3>1. CASE c = d
      BY <2>1, <3>1, TakeKeepsIn, WriteKeepsIn
    <3>2. CASE c # d /\ PumpTake(d)
      <4>1. queue'[c] = queue[c] /\ pump'[c] = pump[c] /\ wire' = wire
        BY <2>2, <3>2, TakeKeepsIn DEF PumpTake
      <4>. QED  BY <4>1 DEF In
    <3>3. CASE c # d /\ PumpWrite(d)
      <4>1. wire'[c] = wire[c] /\ pump'[c] = pump[c] /\ queue' = queue
        BY <2>2, <3>3, WriteKeepsIn DEF PumpWrite
      <4>. QED  BY <4>1 DEF In
    <3>. QED  BY <2>1, <3>1, <3>2, <3>3
  <2>. QED  BY <1>3, <2>2, <2>3, <2>4 DEF NoGap
<1>6. CASE \E s \in Senders, n \in unsent, clients \in SUBSET Clients :
               n \in All /\ Begins(s, n, clients) /\ send[s] = Silent
  <2>1. PICK s \in Senders, n \in unsent, clients \in SUBSET Clients :
            n \in All /\ Begins(s, n, clients) /\ send[s] = Silent
    BY <1>6
  <2>2. target'[n] = clients /\ \A k \in All \ {n} : target'[k] = target[k]
    BY <1>2, <2>1 DEF Begins, HistoryTyped
  <2>3. CASE m = n
    <3>1. send'[s].todo = clients /\ c \in clients /\ send'[s].msg = n
      BY <2>1, <2>2, <2>3, SilentMsg DEF Begins
    <3>. QED  BY <2>3, <3>1 DEF NoGap, Pending, Holding
  <2>4. CASE m # n
    <3>1. In(c)' = In(c) /\ c \in target[m]
      BY <2>1, <2>2, <2>4 DEF Begins, In
    <3>2. Pending(m, c) => Pending(m, c)'
      BY <2>1, SilentMsg DEF Begins, Pending, Holding
    <3>. QED  BY <1>3, <3>1, <3>2 DEF NoGap
  <2>. QED  BY <2>3, <2>4
<1>7. CASE \E s \in Senders, d \in Clients : Passes(s, d)
  <2>1. PICK s \in Senders, d \in Clients : Passes(s, d)
    BY <1>7
  <2>2. c \in target[m] /\ c \in Clients /\ NoGap(m, c) /\ In(c) \subseteq In(c)'
    BY <1>3, <2>1, PassIn DEF Passes
  <2>3. ASSUME Pending(m, c) PROVE NoGap(m, c)'
    <3>1. PICK t \in Senders : send[t].msg = m /\ c \in Holding(t)
      BY <2>3 DEF Pending
    <3>2. CASE t # s
      <4>1. send'[t] = send[t]
        BY <2>1, <3>2 DEF Passes
      <4>. QED  BY <3>1, <4>1 DEF NoGap, Pending, Holding
    <3>3. CASE t = s /\ c \in Holding(s)'
      <4>1. send'[s].msg = m
        BY <2>1, <3>1, <3>3, SilentMsg DEF Passes, Holding
      <4>. QED  BY <3>3, <4>1 DEF NoGap, Pending, Holding
    <3>4. CASE t = s /\ c \notin Holding(s)'
      <4>1. c = d
        BY <2>1, <3>1, <3>4 DEF Passes
      <4>2. Done(c) \/ m \in ToSet(queue'[c])
        BY <2>1, <3>1, <3>4, <4>1, PassIn
      <4>. QED  BY <1>3, <2>2, <4>2 DEF NoGap, In
    <3>. QED  BY <3>2, <3>3, <3>4
  <2>. QED  BY <1>3, <2>2, <2>3 DEF NoGap
<1>. QED  BY <1>4, <1>5, <1>6, <1>7, MessageSteps

LEMMA GapInit == Init => NoSilentGap
  BY DEF Init, NoSilentGap

\* A client that misses a message is being disconnected, for any number of
\* connections, broadcasts and pongs and any capacity of the queues.
THEOREM GapsClose == Spec => []NoSilentGap
<1>1. Init => Base /\ Aimed /\ Sequential /\ NoSilentGap
  BY BaseInit, AimedInit, GapInit
<1>2. Base /\ Aimed /\ Sequential /\ NoSilentGap /\ [Next]_vars
        => Base' /\ Aimed' /\ Sequential' /\ NoSilentGap'
  BY BaseStep, AimedStep, GapStep
<1>. QED  BY <1>1, <1>2, PTL DEF Spec

-----------------------------------------------------------------------------
(* Nobody gets a message twice or one of others                            *)

\* What a client holds was meant for it, is held once, and is not coming again.
OnceAt(c) ==
    /\ IsInjective(wire[c]) /\ IsInjective(queue[c])
    /\ ToSet(queue[c]) \cap ToSet(wire[c]) = {}
    /\ pump[c].msg \notin ToSet(wire[c]) \cup ToSet(queue[c])
    /\ \A m \in All : m \in In(c) => c \in target[m]
    /\ \A s \in Senders : c \in Holding(s) => send[s].msg \notin In(c)

Once == \A c \in Clients : OnceAt(c)

LEMMA NoPings == ASSUME NEW s \in Seq(All) PROVE ToSet(s) \subseteq All /\ NoMsg \notin ToSet(s)
<1>1. \A i \in DOMAIN s : s[i] \in All
  OBVIOUS
<1>. QED  BY <1>1, NamesAssumption DEF ToSet, All

LEMMA OnceInit == Init => Once
<1> SUFFICES ASSUME Init, NEW c \in Clients PROVE OnceAt(c)
  BY DEF Once
<1>1. ToSet(<<>>) = {} /\ IsInjective(<<>>)
  BY DEF ToSet, IsInjective
<1>2. wire[c] = <<>> /\ queue[c] = <<>> /\ pump[c].msg = NoMsg
  BY PumpFacts DEF Init
<1>3. \A s \in Senders : Holding(s) = {}
  BY SilentFacts DEF Init, Holding
<1>. QED  BY <1>1, <1>2, <1>3, NamesAssumption DEF OnceAt, In, All

\* Nothing a client holds, or is still to get, changes.
LEMMA OnceStays ==
    ASSUME NEW c \in Clients, OnceAt(c), wire'[c] = wire[c], queue'[c] = queue[c],
           pump'[c].msg = pump[c].msg \/ (pump'[c].msg = NoMsg /\ NoMsg \notin ToSet(wire[c]) \cup ToSet(queue[c])),
           \A m \in All : m \in In(c) => c \in target'[m],
           \A s \in Senders : c \in Holding(s)' => send'[s].msg \notin In(c) /\ send'[s].msg # NoMsg
    PROVE  OnceAt(c)'
<1>1. In(c)' \subseteq In(c) \cup {NoMsg}
  BY DEF In
<1>. QED  BY <1>1, NamesAssumption DEF OnceAt, All

LEMMA HeldFacts ==
    ASSUME Base, Aimed, NEW c \in Clients
    PROVE  /\ NoMsg \notin ToSet(wire[c]) \cup ToSet(queue[c])
           /\ \A s \in Senders : c \in Holding(s) => send[s].msg \in All /\ send[s].msg # NoMsg
<1>1. wire[c] \in Seq(All) /\ queue[c] \in Seq(All)
  BY TypeSplit DEF Base, WiresTyped, QueuesTyped
<1>2. NoMsg \notin ToSet(wire[c]) \cup ToSet(queue[c])
  BY <1>1, NoPings
<1>3. \A s \in Senders : c \in Holding(s) => send[s].msg \in All
  BY SilentMsg DEF Aimed, Holding
<1>. QED  BY <1>2, <1>3, NamesAssumption DEF All

LEMMA OnceStep ==
    ASSUME Base, Aimed, Once, [Next]_vars
    PROVE  Once'
<1>2. HistoryTyped
  BY TypeSplit DEF Base
<1> SUFFICES ASSUME NEW c \in Clients PROVE OnceAt(c)'
  BY DEF Once
<1>3. OnceAt(c)
  BY DEF Once
<1>4. CASE Calm
  <2>1. \A s \in Senders : Holding(s)' = Holding(s) /\ send'[s] = send[s]
    BY <1>4 DEF Calm, Holding
  <2>2. wire'[c] = wire[c] /\ queue'[c] = queue[c] /\ target' = target
        /\ (pump'[c].msg = pump[c].msg \/ pump'[c].msg = NoMsg)
    BY <1>4 DEF Calm
  <2>3. \A m \in All : m \in In(c) => c \in target'[m]
    BY <1>3, <2>2 DEF OnceAt
  <2>4. \A s \in Senders : c \in Holding(s)' => send'[s].msg \notin In(c) /\ send'[s].msg # NoMsg
    BY <1>3, <2>1, HeldFacts DEF OnceAt
  <2>. QED  BY <1>3, <2>2, <2>3, <2>4, HeldFacts, OnceStays
<1>5. CASE \E d \in Clients : PumpTake(d) \/ PumpWrite(d)
  <2>1. PICK d \in Clients : PumpTake(d) \/ PumpWrite(d)
    BY <1>5
  <2>2. UNCHANGED <<send, target>>
    BY <2>1 DEF PumpTake, PumpWrite
  <2>3. \A s \in Senders : Holding(s)' = Holding(s) /\ send'[s] = send[s]
    BY <2>2 DEF Holding
  <2>4. CASE c # d
    <3>1. wire'[c] = wire[c] /\ queue'[c] = queue[c] /\ pump'[c] = pump[c]
      <4>1. CASE PumpTake(d)
        <5>1. wire' = wire
          BY <4>1 DEF PumpTake
        <5>. QED  BY <2>4, <4>1, <5>1, TakeKeepsIn
      <4>2. CASE PumpWrite(d)
        <5>1. queue' = queue
          BY <4>2 DEF PumpWrite
        <5>. QED  BY <2>4, <4>2, <5>1, WriteKeepsIn
      <4>. QED  BY <2>1, <4>1, <4>2
    <3>2. \A m \in All : m \in In(c) => c \in target'[m]
      BY <1>3, <2>2 DEF OnceAt
    <3>3. \A s \in Senders : c \in Holding(s)' => send'[s].msg \notin In(c) /\ send'[s].msg # NoMsg
      BY <1>3, <2>3, HeldFacts DEF OnceAt
    <3>. QED  BY <1>3, <3>1, <3>2, <3>3, OnceStays
  <2>5. ASSUME c = d
        PROVE  /\ \A m \in All : m \in In(c)' => c \in target'[m]
               /\ \A s \in Senders : c \in Holding(s)' => send'[s].msg \notin In(c)'
    <3>1. \A m \in All : m \in In(c)' => m \in In(c)
      BY <2>1, <2>5, TakeKeepsIn, WriteKeepsIn
    <3>. QED  BY <1>3, <2>2, <2>3, <3>1, HeldFacts DEF OnceAt
  <2>6. CASE c = d /\ PumpTake(d)
    <3>1. /\ pump'[c].msg = Head(queue[c]) /\ queue'[c] = Tail(queue[c]) /\ wire'[c] = wire[c]
          /\ queue[c] \in Seq(All) /\ queue[c] # <<>>
      <4>1. wire' = wire
        BY <2>6 DEF PumpTake
      <4>. QED  BY <2>6, <4>1, TakeKeepsIn
    <3>2. /\ ToSet(queue[c]) = {Head(queue[c])} \cup ToSet(Tail(queue[c]))
          /\ IsInjective(queue[c]) => IsInjective(Tail(queue[c])) /\ Head(queue[c]) \notin ToSet(Tail(queue[c]))
      BY <3>1, Taken
    <3>. QED  BY <1>3, <2>5, <2>6, <3>1, <3>2 DEF OnceAt
  <2>7. CASE c = d /\ PumpWrite(d)
    <3>1. /\ pump'[c].msg = NoMsg /\ queue'[c] = queue[c]
          /\ wire'[c] = IF pump[c].msg = NoMsg THEN wire[c] ELSE Append(wire[c], pump[c].msg)
          /\ wire[c] \in Seq(All) /\ pump[c].msg \in All \cup {NoMsg}
      <4>1. queue' = queue
        BY <2>7 DEF PumpWrite
      <4>. QED  BY <2>7, <4>1, WriteKeepsIn
    <3>2. CASE pump[c].msg = NoMsg
      BY <1>3, <2>5, <2>7, <3>1, <3>2, HeldFacts DEF OnceAt
    <3>3. CASE pump[c].msg # NoMsg
      <4>1. pump[c].msg \in All /\ wire'[c] = Append(wire[c], pump[c].msg)
        BY <3>1, <3>3
      <4>2. /\ ToSet(wire'[c]) = ToSet(wire[c]) \cup {pump[c].msg}
            /\ IsInjective(wire[c]) /\ pump[c].msg \notin ToSet(wire[c]) => IsInjective(wire'[c])
        BY <3>1, <4>1, Appended
      <4>3. NoMsg \notin ToSet(wire'[c]) \cup ToSet(queue'[c])
        BY <3>1, <3>3, <4>2, HeldFacts
      <4>. QED  BY <1>3, <2>5, <2>7, <3>1, <4>2, <4>3 DEF OnceAt
    <3>. QED  BY <3>2, <3>3
  <2>. QED  BY <2>1, <2>4, <2>6, <2>7
<1>6. CASE \E s \in Senders, n \in unsent, clients \in SUBSET Clients :
               n \in All /\ Begins(s, n, clients) /\ send[s] = Silent
  <2>1. PICK s \in Senders, n \in unsent, clients \in SUBSET Clients :
            n \in All /\ Begins(s, n, clients) /\ send[s] = Silent
    BY <1>6
  <2>2. target'[n] = clients /\ \A k \in All \ {n} : target'[k] = target[k]
    BY <1>2, <2>1 DEF Begins, HistoryTyped
  <2>3. n \notin In(c)
    BY <1>3, <2>1 DEF OnceAt, Aimed
  <2>4. \A m \in All : m \in In(c) => c \in target'[m]
    BY <1>3, <2>2, <2>3 DEF OnceAt
  <2>5. ASSUME NEW t \in Senders, c \in Holding(t)' PROVE send'[t].msg \notin In(c) /\ send'[t].msg # NoMsg
    <3>1. CASE t = s
      <4>1. send'[s].msg = n
        BY <2>1, <2>5, <3>1, SilentMsg DEF Begins, Holding
      <4>. QED  BY <2>1, <2>3, <3>1, <4>1, NamesAssumption DEF All
    <3>2. CASE t # s
      <4>1. send'[t] = send[t] /\ c \in Holding(t)
        BY <2>1, <2>5, <3>2 DEF Begins, Holding
      <4>. QED  BY <1>3, <4>1, HeldFacts DEF OnceAt
    <3>. QED  BY <3>1, <3>2
  <2>6. wire'[c] = wire[c] /\ queue'[c] = queue[c] /\ pump'[c].msg = pump[c].msg
    BY <2>1 DEF Begins
  <2>. QED  BY <1>3, <2>4, <2>5, <2>6, OnceStays
<1>7. CASE \E s \in Senders, d \in Clients : Passes(s, d)
  <2>1. PICK s \in Senders, d \in Clients : Passes(s, d)
    BY <1>7
  <2>2. ASSUME NEW t \in Senders, c \in Holding(t)'
        PROVE  send'[t].msg = send[t].msg /\ c \in Holding(t)
    <3>1. CASE t = s
      BY <2>1, <2>2, <3>1, SilentMsg DEF Passes, Holding
    <3>2. CASE t # s
      BY <2>1, <2>2, <3>2 DEF Passes, Holding
    <3>. QED  BY <3>1, <3>2
  <2>3. wire'[c] = wire[c] /\ pump'[c] = pump[c] /\ target' = target
    BY <2>1 DEF Passes
  <2>4. CASE queue'[c] = queue[c]
    <3>1. \A m \in All : m \in In(c) => c \in target'[m]
      BY <1>3, <2>3 DEF OnceAt
    <3>2. \A t \in Senders : c \in Holding(t)' => send'[t].msg \notin In(c) /\ send'[t].msg # NoMsg
      BY <1>3, <2>2, HeldFacts DEF OnceAt
    <3>. QED  BY <1>3, <2>3, <2>4, <3>1, <3>2, OnceStays
  <2>5. CASE queue'[c] # queue[c]
    <3>1. c = d
      BY <2>1, <2>5, PassIn
    <3>2. /\ queue'[c] = Append(queue[c], send[s].msg) /\ queue[c] \in Seq(All)
          /\ ToSet(queue'[c]) = ToSet(queue[c]) \cup {send[s].msg}
          /\ c \notin Holding(s)' /\ c \in Holding(s) /\ send[s].msg \in All
      BY <2>1, <2>5, <3>1, PassIn DEF Passes, Holding
    <3>3. send[s].msg \notin In(c) /\ c \in target[send[s].msg]
      BY <1>3, <3>2 DEF OnceAt, Aimed
    <3>4. IsInjective(queue'[c])
      BY <1>3, <3>2, <3>3, Appended DEF OnceAt, In
    <3>5. In(c)' = In(c) \cup {send[s].msg}
      BY <2>3, <3>2 DEF In
    <3>6. \A t \in Senders : c \in Holding(t)' => send'[t].msg \notin In(c)'
      <4>1. SUFFICES ASSUME NEW t \in Senders, c \in Holding(t)' PROVE send'[t].msg \notin In(c)'
        OBVIOUS
      <4>2. t # s /\ send'[t].msg = send[t].msg /\ c \in Holding(t)
        BY <2>2, <3>2, <4>1
      <4>3. send[t].msg # send[s].msg
        BY <3>2, <4>2 DEF Aimed
      <4>. QED  BY <1>3, <3>5, <4>2, <4>3 DEF OnceAt
    <3>7. \A m \in All : m \in In(c)' => c \in target'[m]
      BY <1>3, <2>3, <3>3, <3>5 DEF OnceAt
    <3>8. /\ ToSet(queue'[c]) \cap ToSet(wire'[c]) = {}
          /\ pump'[c].msg \notin ToSet(wire'[c]) \cup ToSet(queue'[c])
      BY <1>3, <2>3, <3>2, <3>3 DEF OnceAt, In
    <3>9. IsInjective(wire'[c])
      BY <1>3, <2>3 DEF OnceAt
    <3>. QED  BY <3>4, <3>6, <3>7, <3>8, <3>9 DEF OnceAt
  <2>. QED  BY <2>4, <2>5
<1>. QED  BY <1>4, <1>5, <1>6, <1>7, MessageSteps

\* Nobody reads a message twice or one that was not meant for it, whatever
\* broadcasts, pongs and closings interleave.
THEOREM NothingStrays == Spec => []NoStrayMessages
<1>1. Init => Base /\ Aimed /\ Sequential /\ Once
  BY BaseInit, AimedInit, OnceInit
<1>2. Base /\ Aimed /\ Sequential /\ Once /\ [Next]_vars
        => Base' /\ Aimed' /\ Sequential' /\ Once'
  BY BaseStep, AimedStep, OnceStep
<1>3. ASSUME Base, Once PROVE NoStrayMessages
  <2>1. SUFFICES ASSUME NEW c \in Clients
                 PROVE  IsInjective(wire[c]) /\ \A m \in ToSet(wire[c]) : c \in target[m]
    BY DEF NoStrayMessages
  <2>2. OnceAt(c) /\ ToSet(wire[c]) \subseteq All
    BY <1>3, NoPings, TypeSplit DEF Base, WiresTyped, Once
  <2>. QED  BY <2>2 DEF OnceAt, In
<1>. QED  BY <1>1, <1>2, <1>3, PTL DEF Spec

-----------------------------------------------------------------------------
(* First sent, first read                                                  *)

\* How far m is ahead of n on its way to c, when both are for c and m was sent
\* before n was begun: wherever n is, m is further, or the pump is past
\* writing anything.
Ahead(m, n, c) ==
    /\ n \in ToSet(wire[c]) => Precedes(m, n, wire[c])
    /\ n = pump[c].msg => m \in ToSet(wire[c])
    /\ n \in ToSet(queue[c]) => \/ m \in ToSet(wire[c]) \cup {pump[c].msg}
                                \/ Precedes(m, n, queue[c]) \/ Dead(c)
    /\ \A s \in Senders : send[s].msg = n =>
           /\ c \in send[s].cur => m \in In(c) \/ Dead(c)
           /\ c \in send[s].todo => m \in In(c) \/ Done(c) \/ Dead(c)

Ordered == \A p \in before : \A c \in target[p[1]] \cap target[p[2]] : Ahead(p[1], p[2], c)

LEMMA OrderedInit == Init => Ordered
  BY DEF Init, Ordered

\* Nothing moves but that a pump dies or a sender lets go.
LEMMA AheadStays ==
    ASSUME NEW c \in Clients, NEW m \in All, NEW n \in All, Ahead(m, n, c), Ages(c),
           wire'[c] = wire[c], queue'[c] = queue[c],
           pump'[c].msg = pump[c].msg \/ (pump'[c].msg = NoMsg /\ Dead(c)'),
           \A s \in Senders : send'[s].msg = n =>
               /\ c \in send'[s].cur => send[s].msg = n /\ (c \in send[s].cur \/ (c \in send[s].todo /\ ~Done(c)))
               /\ c \in send'[s].todo => send[s].msg = n /\ c \in send[s].todo
    PROVE  Ahead(m, n, c)'
<1>1. NoMsg # n /\ NoMsg # m
  BY NamesAssumption DEF All
<1>2. m \in In(c) => m \in In(c)' \/ Dead(c)'
  BY DEF In
<1>3. (Done(c) => Done(c)') /\ (Dead(c) => Dead(c)')
  BY DEF Ages
<1>4. n \in ToSet(wire'[c]) => Precedes(m, n, wire'[c])
  BY DEF Ahead
<1>5. n = pump'[c].msg => m \in ToSet(wire'[c])
  BY <1>1 DEF Ahead
<1>6. n \in ToSet(queue'[c]) => \/ m \in ToSet(wire'[c]) \cup {pump'[c].msg}
                                \/ Precedes(m, n, queue'[c]) \/ Dead(c)'
  BY <1>3 DEF Ahead
<1>7. ASSUME NEW s \in Senders, send'[s].msg = n
      PROVE  /\ c \in send'[s].cur => m \in In(c)' \/ Dead(c)'
             /\ c \in send'[s].todo => m \in In(c)' \/ Done(c)' \/ Dead(c)'
  BY <1>2, <1>3, <1>7 DEF Ahead
<1>. QED  BY <1>4, <1>5, <1>6, <1>7 DEF Ahead

\* The pump takes the oldest message of its queue.
LEMMA AheadTake ==
    ASSUME Base, Once, NEW c \in Clients, NEW m \in All, NEW n \in All, Ahead(m, n, c), Ages(c), PumpTake(c)
    PROVE  Ahead(m, n, c)'
<1>0. /\ \A k \in All : k \in In(c) <=> k \in In(c)'
      /\ pump[c].msg = NoMsg /\ pump'[c].msg = Head(queue[c]) /\ queue'[c] = Tail(queue[c])
      /\ queue[c] \in Seq(All) /\ queue[c] # <<>> /\ ~Dead(c)
  BY TakeKeepsIn
<1>1. wire' = wire /\ send' = send /\ NoMsg # m
  BY NamesAssumption DEF PumpTake, All
<1>2. /\ ToSet(queue[c]) = {Head(queue[c])} \cup ToSet(Tail(queue[c])) /\ IsInjective(queue[c])
  BY <1>0, Taken DEF Once, OnceAt
<1>3. /\ Precedes(m, n, queue[c]) /\ m # Head(queue[c]) => Precedes(m, n, Tail(queue[c]))
      /\ ~Precedes(m, Head(queue[c]), queue[c])
  BY <1>0, <1>2, PrecedesTaken
<1>4. n = pump'[c].msg => m \in ToSet(wire'[c])
  BY <1>0, <1>1, <1>2, <1>3 DEF Ahead
<1>5. n \in ToSet(queue'[c]) => \/ m \in ToSet(wire'[c]) \cup {pump'[c].msg}
                                \/ Precedes(m, n, queue'[c]) \/ Dead(c)'
  BY <1>0, <1>1, <1>2, <1>3 DEF Ahead
<1>6. (Done(c) => Done(c)') /\ (Dead(c) => Dead(c)')
  BY DEF Ages
<1>7. ASSUME NEW s \in Senders, send'[s].msg = n
      PROVE  /\ c \in send'[s].cur => m \in In(c)' \/ Dead(c)'
             /\ c \in send'[s].todo => m \in In(c)' \/ Done(c)' \/ Dead(c)'
  BY <1>0, <1>1, <1>6, <1>7 DEF Ahead
<1>8. n \in ToSet(wire'[c]) => Precedes(m, n, wire'[c])
  BY <1>1 DEF Ahead
<1>. QED  BY <1>4, <1>5, <1>7, <1>8 DEF Ahead

\* The pump has written what it had in hand.
LEMMA AheadWrite ==
    ASSUME Base, NEW c \in Clients, NEW m \in All, NEW n \in All, Ahead(m, n, c), Ages(c), PumpWrite(c)
    PROVE  Ahead(m, n, c)'
<1>0. /\ \A k \in All : k \in In(c) <=> k \in In(c)'
      /\ pump'[c].msg = NoMsg
      /\ wire'[c] = IF pump[c].msg = NoMsg THEN wire[c] ELSE Append(wire[c], pump[c].msg)
      /\ wire[c] \in Seq(All) /\ pump[c].msg \in All \cup {NoMsg}
  BY WriteKeepsIn
<1>1. queue' = queue /\ send' = send /\ NoMsg # n /\ NoMsg # m
  BY NamesAssumption DEF PumpWrite, All
<1>2. /\ ToSet(wire[c]) \subseteq ToSet(wire'[c])
      /\ m = pump[c].msg => m \in ToSet(wire'[c])
      /\ n \in ToSet(wire'[c]) => n \in ToSet(wire[c]) \/ n = pump[c].msg
      /\ Precedes(m, n, wire[c]) => Precedes(m, n, wire'[c])
      /\ n = pump[c].msg /\ m \in ToSet(wire[c]) => Precedes(m, n, wire'[c])
  <2>1. CASE pump[c].msg = NoMsg
    BY <1>0, <1>1, <2>1
  <2>2. CASE pump[c].msg # NoMsg
    <3>1. pump[c].msg \in All /\ wire'[c] = Append(wire[c], pump[c].msg)
      BY <1>0, <2>2
    <3>2. ToSet(wire'[c]) = ToSet(wire[c]) \cup {pump[c].msg}
      BY <1>0, <3>1, Appended
    <3>3. /\ Precedes(m, n, wire[c]) => Precedes(m, n, wire'[c])
          /\ m \in ToSet(wire[c]) => Precedes(m, pump[c].msg, wire'[c])
      BY <1>0, <3>1, PrecedesAppended
    <3>. QED  BY <3>2, <3>3
  <2>. QED  BY <2>1, <2>2
<1>3. (Done(c) => Done(c)') /\ (Dead(c) => Dead(c)')
  BY DEF Ages
<1>4. n \in ToSet(wire'[c]) => Precedes(m, n, wire'[c])
  BY <1>2 DEF Ahead
<1>5. n = pump'[c].msg => m \in ToSet(wire'[c])
  BY <1>0, <1>1
<1>6. n \in ToSet(queue'[c]) => \/ m \in ToSet(wire'[c]) \cup {pump'[c].msg}
                                \/ Precedes(m, n, queue'[c]) \/ Dead(c)'
  BY <1>1, <1>2, <1>3 DEF Ahead
<1>7. ASSUME NEW s \in Senders, send'[s].msg = n
      PROVE  /\ c \in send'[s].cur => m \in In(c)' \/ Dead(c)'
             /\ c \in send'[s].todo => m \in In(c)' \/ Done(c)' \/ Dead(c)'
  BY <1>0, <1>1, <1>3, <1>7 DEF Ahead
<1>. QED  BY <1>4, <1>5, <1>6, <1>7 DEF Ahead

\* A sender queues n behind what is there, or moves to another client.
LEMMA AheadPass ==
    ASSUME Base, NEW c \in Clients, NEW m \in All, NEW n \in All, Ahead(m, n, c), Ages(c),
           NEW s \in Senders, NEW d \in Clients, Passes(s, d)
    PROVE  Ahead(m, n, c)'
<1>1. ASSUME NEW t \in Senders, send'[t].msg = n
      PROVE  /\ c \in send'[t].cur => send[t].msg = n /\ (c \in send[t].cur \/ (c \in send[t].todo /\ ~Done(c)))
             /\ c \in send'[t].todo => send[t].msg = n /\ c \in send[t].todo
  <2>1. CASE t = s
    <3>1. send[s].msg = n
      BY <1>1, <2>1, SilentMsg DEF Passes
    <3>2. c \in send'[s].cur => c = d /\ c \in send[s].todo \cup send[s].cur /\ (c \in send[s].cur \/ ~Done(c))
      BY DEF Passes, Holding
    <3>3. c \in send'[s].todo => c \in send[s].todo
      BY DEF Passes
    <3>. QED  BY <2>1, <3>1, <3>2, <3>3
  <2>2. CASE t # s
    BY <1>1, <2>2 DEF Passes
  <2>. QED  BY <2>1, <2>2
<1>2. wire'[c] = wire[c] /\ pump' = pump
  BY DEF Passes
<1>3. CASE queue'[c] = queue[c]
  BY <1>1, <1>2, <1>3, AheadStays
<1>4. CASE queue'[c] # queue[c]
  <2>1. c = d
    BY <1>4, PassIn
  <2>2. /\ queue'[c] = Append(queue[c], send[s].msg) /\ queue[c] \in Seq(All) /\ send[s].msg \in All
        /\ ToSet(queue'[c]) = ToSet(queue[c]) \cup {send[s].msg}
        /\ c \in send[s].cur /\ In(c) \subseteq In(c)'
    BY <1>4, <2>1, PassIn DEF Passes
  <2>3. /\ Precedes(m, n, queue[c]) => Precedes(m, n, queue'[c])
        /\ m \in ToSet(queue[c]) => Precedes(m, send[s].msg, queue'[c])
    BY <2>2, PrecedesAppended
  <2>4. (Done(c) => Done(c)') /\ (Dead(c) => Dead(c)')
    BY DEF Ages
  <2>5. n = send[s].msg => m \in ToSet(wire[c]) \cup ToSet(queue[c]) \cup {pump[c].msg} \/ Dead(c)
    BY <2>2 DEF Ahead, In
  <2>6. n \in ToSet(queue'[c]) => \/ m \in ToSet(wire'[c]) \cup {pump'[c].msg}
                                  \/ Precedes(m, n, queue'[c]) \/ Dead(c)'
    <3>1. CASE n \in ToSet(queue[c])
      BY <1>2, <2>3, <2>4, <3>1 DEF Ahead
    <3>2. CASE n = send[s].msg
      BY <1>2, <2>3, <2>4, <2>5, <3>2
    <3>. QED  BY <2>2, <3>1, <3>2
  <2>7. ASSUME NEW t \in Senders, send'[t].msg = n
        PROVE  /\ c \in send'[t].cur => m \in In(c)' \/ Dead(c)'
               /\ c \in send'[t].todo => m \in In(c)' \/ Done(c)' \/ Dead(c)'
    BY <1>1, <2>2, <2>4, <2>7 DEF Ahead
  <2>8. (n \in ToSet(wire'[c]) => Precedes(m, n, wire'[c])) /\ (n = pump'[c].msg => m \in ToSet(wire'[c]))
    BY <1>2 DEF Ahead
  <2>. QED  BY <2>6, <2>7, <2>8 DEF Ahead
<1>. QED  BY <1>3, <1>4

LEMMA OrderedStep ==
    ASSUME Base, Aimed, Sequential, NoSilentGap, Once, Ordered, [Next]_vars
    PROVE  Ordered'
<1>0. HistoryTyped /\ \A c \in Clients : Ages(c)
  BY TypeSplit, BaseStep DEF Base
<1>1. \A p \in before : p[1] \in All /\ p[2] \in All
  BY <1>0 DEF HistoryTyped
<1>2. CASE Calm
  <2>1. SUFFICES ASSUME NEW p \in before, NEW c \in target[p[1]] \cap target[p[2]]
                 PROVE  Ahead(p[1], p[2], c)'
    BY <1>2 DEF Calm, Ordered
  <2>2. c \in Clients /\ Ahead(p[1], p[2], c) /\ p[1] \in All /\ p[2] \in All
    BY <1>0, <1>1 DEF Ordered, HistoryTyped
  <2>3. /\ wire' = wire /\ queue' = queue /\ send' = send
        /\ pump'[c].msg = pump[c].msg \/ (pump'[c].msg = NoMsg /\ Dead(c)')
    BY <1>2, <2>2 DEF Calm, Dead
  <2>. QED  BY <1>0, <2>2, <2>3, AheadStays
<1>3. CASE \E d \in Clients : PumpTake(d) \/ PumpWrite(d)
  <2>1. PICK d \in Clients : PumpTake(d) \/ PumpWrite(d)
    BY <1>3
  <2>2. SUFFICES ASSUME NEW p \in before, NEW c \in target[p[1]] \cap target[p[2]]
                 PROVE  Ahead(p[1], p[2], c)'
    BY <2>1 DEF PumpTake, PumpWrite, Ordered
  <2>3. c \in Clients /\ Ahead(p[1], p[2], c) /\ p[1] \in All /\ p[2] \in All /\ Ages(c)
    BY <1>0, <1>1 DEF Ordered, HistoryTyped
  <2>4. CASE c = d
    BY <2>1, <2>3, <2>4, AheadTake, AheadWrite
  <2>5. CASE c # d
    <3>1. wire'[c] = wire[c] /\ queue'[c] = queue[c] /\ pump'[c] = pump[c] /\ send' = send
      <4>1. CASE PumpTake(d)
        <5>1. wire' = wire /\ send' = send
          BY <4>1 DEF PumpTake
        <5>. QED  BY <2>3, <2>5, <4>1, <5>1, TakeKeepsIn
      <4>2. CASE PumpWrite(d)
        <5>1. queue' = queue /\ send' = send
          BY <4>2 DEF PumpWrite
        <5>. QED  BY <2>3, <2>5, <4>2, <5>1, WriteKeepsIn
      <4>. QED  BY <2>1, <4>1, <4>2
    <3>. QED  BY <2>3, <3>1, AheadStays
  <2>. QED  BY <2>4, <2>5
<1>4. CASE \E s \in Senders, n \in unsent, clients \in SUBSET Clients :
               n \in All /\ Begins(s, n, clients) /\ send[s] = Silent
  <2>1. PICK s \in Senders, n \in unsent, clients \in SUBSET Clients :
            n \in All /\ Begins(s, n, clients) /\ send[s] = Silent
    BY <1>4
  <2>2. target'[n] = clients /\ \A k \in All \ {n} : target'[k] = target[k]
    BY <1>0, <2>1 DEF Begins, HistoryTyped
  <2>3. ASSUME NEW p \in before', NEW c \in target'[p[1]] \cap target'[p[2]]
        PROVE  Ahead(p[1], p[2], c)'
    <3>1. CASE p \in before
      <4>1. p[1] \in All \ {n} /\ p[2] \in All \ {n}
        BY <1>1, <2>1, <3>1 DEF Sequential
      <4>2. c \in Clients /\ Ahead(p[1], p[2], c)
        BY <1>0, <2>2, <2>3, <3>1, <4>1 DEF Ordered, HistoryTyped
      <4>3. wire'[c] = wire[c] /\ queue'[c] = queue[c] /\ pump'[c].msg = pump[c].msg
        BY <2>1 DEF Begins
      <4>4. \A t \in Senders : send'[t].msg = p[2] => send'[t] = send[t]
        BY <2>1, <4>1, SilentMsg DEF Begins
      <4>. QED  BY <1>0, <4>1, <4>2, <4>3, <4>4, AheadStays
    <3>2. CASE p \in Finished \X {n}
      <4>1. p[1] \in All \ unsent /\ p[2] = n /\ \A t \in Senders : send[t].msg # p[1]
        BY <3>2 DEF Finished
      <4>2. c \in clients /\ c \in target[p[1]] /\ p[1] # n
        BY <2>1, <2>2, <2>3, <4>1
      <4>3. OnceAt(c) /\ n \notin In(c)
        BY <2>1, <4>2 DEF Once, OnceAt, Aimed
      <4>4. p[1] \in In(c) \/ Done(c) \/ Dead(c)
        BY <4>1, <4>2, GapSplit DEF NoGap, Pending, Dead
      <4>5. In(c)' = In(c) /\ wire' = wire /\ queue' = queue /\ pump' = pump /\ (Done(c)' <=> Done(c))
            /\ (Dead(c)' <=> Dead(c))
        BY <2>1 DEF Begins, In, Done, Dead
      <4>6. ASSUME NEW t \in Senders, send'[t].msg = n
            PROVE  t = s /\ send'[t].cur = {}
        BY <2>1, <4>6 DEF Begins, Aimed
      <4>7. n \notin ToSet(wire'[c]) /\ n # pump'[c].msg /\ n \notin ToSet(queue'[c])
        BY <4>3, <4>5 DEF In
      <4>. QED  BY <4>1, <4>4, <4>5, <4>6, <4>7 DEF Ahead
    <3>. QED  BY <2>1, <2>3, <3>1, <3>2 DEF Begins
  <2>. QED  BY <2>3 DEF Ordered
<1>5. CASE \E s \in Senders, d \in Clients : Passes(s, d)
  <2>1. PICK s \in Senders, d \in Clients : Passes(s, d)
    BY <1>5
  <2>2. SUFFICES ASSUME NEW p \in before, NEW c \in target[p[1]] \cap target[p[2]]
                 PROVE  Ahead(p[1], p[2], c)'
    BY <2>1 DEF Passes, Ordered
  <2>3. c \in Clients /\ Ahead(p[1], p[2], c) /\ p[1] \in All /\ p[2] \in All /\ Ages(c)
    BY <1>0, <1>1 DEF Ordered, HistoryTyped
  <2>. QED  BY <2>1, <2>3, AheadPass
<1>. QED  BY <1>2, <1>3, <1>4, <1>5, MessageSteps

\* When one message was sent before another was begun, every client meant to
\* get both that reads the second read the first before it, for any number of
\* senders and clients and any capacity of the queues.
THEOREM OrderHolds == Spec => []OrderKept
<1>1. Init => Base /\ Aimed /\ Sequential /\ NoSilentGap /\ Once /\ Ordered
  BY BaseInit, AimedInit, GapInit, OnceInit, OrderedInit
<1>2. Base /\ Aimed /\ Sequential /\ NoSilentGap /\ Once /\ Ordered /\ [Next]_vars
        => Base' /\ Aimed' /\ Sequential' /\ NoSilentGap' /\ Once' /\ Ordered'
  BY BaseStep, AimedStep, GapStep, OnceStep, OrderedStep
<1>3. Ordered => OrderKept
  BY DEF Ordered, Ahead, OrderKept
<1>. QED  BY <1>1, <1>2, <1>3, PTL DEF Spec
==============================================================================
