CONSTANTS
    Clients = {c1}
    Casters = {h1, h2}
    Messages = {m1, m2}
    Pongs = {p}
    SendBuffer = 2
    NoMsg = NoMsg
SPECIFICATION FairSpec
INVARIANTS TypeOK OrderKept
PROPERTIES BroadcastReturns DeliveredOrClosed ClosedIsReleased
\* The connections and messages of the instance are used up.
CHECK_DEADLOCK FALSE
