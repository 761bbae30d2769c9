SPECIFICATION Spec
CONSTANTS
    Users = {u1, u2}
    Requests = {r1, r2}
    MaxTime = 1
    SetStatuses = {"riding"}
    Operations = {"CreateRide", "JoinRide", "transition", "RemoveParticipant", "Ingest"}
    NoUser = NoUser
SYMMETRY Symmetry
PROPERTY RemovedStaysRemoved
