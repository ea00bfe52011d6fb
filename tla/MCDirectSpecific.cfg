\* Whether a destroy ends the fault of its own experiment only.
CONSTANTS
    u1 = u1  u2 = u2
    w1 = w1  w2 = w2  w3 = w3
    Uids = {u1, u2}
    Workers = {w1, w2, w3}
    MaxSize = 2
    Memory = 1
    NoExp = NoExp
    NoUid = NoUid
SPECIFICATION Spec
INVARIANT DestroyIsSpecific
CHECK_DEADLOCK FALSE
