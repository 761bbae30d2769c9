SPECIFICATION Spec
CONSTANTS
    Users = {u1, u2}
    Requests = {r1, r2}
    MaxTime = 1
    SetStatuses = {"riding"}
    Operations = {"CreateRide", "JoinRide", "transition", "LeaveRide", "RemoveParticipant", "SetMyStatus", "Ingest", "wsRide", "DeleteMe"}
    NoUser = NoUser
SYMMETRY Symmetry
INVARIANTS
    HostOnBoard
    TrailImpliesStart
    AnnouncedWasCommitted
    OneTransitionWins
PROPERTIES
    HostDecides
    OnlyUploadsRevive
    ImplementsLifecycle
