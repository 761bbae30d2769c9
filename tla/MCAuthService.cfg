CONSTANTS
    Tokens = {t1, t2, t3}
    Aging = {t1, t2, t3}
    Requests = {r1, r2}
    Callers = {c}
    Nobody = Nobody
    NoToken = NoToken
SPECIFICATION ServerSpec
SYMMETRY Symmetry
INVARIANTS OneHeirPerSession
PROPERTIES RevokedForGood NoSessionAfterDeletion
