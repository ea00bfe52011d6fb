\* Two experiments, three workers: one burn can be created again after both.
CONSTANTS
    u1 = u1  u2 = u2
    w1 = w1  w2 = w2  w3 = w3
    Uids = {u1, u2}
    Workers = {w1, w2}
    MaxSize = 2
    Memory = 1
    NoExp = NoExp
    NoUid = NoUid
SPECIFICATION FairSpec
INVARIANTS
    TypeOK
    BurningIsListed
    DestroyQuiets
    FreshBurnIsFull
    Inductive
PROPERTIES
    RequestsEnd
    BurnFadesOut
CHECK_DEADLOCK FALSE
