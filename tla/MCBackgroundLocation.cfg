SPECIFICATION Spec
CONSTANTS
    Rides = {a, b}
    Calls = {c1, c2, c3, c4}
    MaxStrays = 2
SYMMETRY Symmetry
PROPERTIES
    OnlyLateStopsUntrack
    OnlyLateGrantsUnwatch
    OnlyOverlapsStray
