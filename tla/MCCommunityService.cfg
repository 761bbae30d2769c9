SPECIFICATION Spec
CONSTANTS
    Users = {u1, u2}
    Posts = {p1}
    Comments = {c1, c2}
    Files = {f1, f2, f3}
    Requests = {r1, r2}
SYMMETRY Symmetry
INVARIANTS
    NoCountTooHigh
PROPERTIES
    OnlyStaleDeletionsMiscount
    OnlyLostAnswersBreak
    OnlyKnownLeaks
