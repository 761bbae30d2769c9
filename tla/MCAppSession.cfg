CONSTANTS
    Tokens = {t1, t2}
    Aging = {}
    Requests = {r1, r2}
    Callers = {d1}
    Uses = {"logout", "deleteMe", "profile"}
    Nobody = Nobody
    NoToken = NoToken
SPECIFICATION Spec
SYMMETRY Symmetry
VIEW View
INVARIANTS AppTypeOK TheftHasACause StoredTokenIsGood SignedOutForGood
