SPECIFICATION Spec
CONSTANTS
    Users = {u1, u2}
    Requests = {r1, r2}
    Shares = {s1, s2}
SYMMETRY Symmetry
INVARIANT OneActiveShare
