CONSTANTS
    Clients = {c1, c2}
    Casters = {h}
    Messages = {m1, m2}
    Pongs = {}
    SendBuffer = 1
    NoMsg = NoMsg
SPECIFICATION Spec
SYMMETRY Symmetry
INVARIANTS NoSilentGap NoStrayMessages NothingLeftBehind
\* The connections and messages of the instance are used up.
CHECK_DEADLOCK FALSE
