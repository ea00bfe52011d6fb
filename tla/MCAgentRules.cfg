\* Two threads, two uids, rules of every kind: reuse of a uid, stale
\* snapshots, a second rule behind an exhausted one.
CONSTANTS
    t1 = t1  t2 = t2  t3 = t3  u1 = u1  u2 = u2
    redis = redis  delay = delay  throw = throw  arg = arg
    Threads <- TwoThreads
    Uids <- TwoUids
    Targets = {redis}
    Actions = {delay, throw}
    Args = {arg}
    Models <- RuleModels
    NoModel = NoModel
    Absent = Absent
    Malformed = Malformed
    NoCall = NoCall
    MaxRegistrations = 2
    MaxHits = 2
    MaxCompareIterations = 2
    SpecActions <- MCSpecActions
SPECIFICATION Spec
SYMMETRY RuleSymmetry
INVARIANTS
    TypeOK
    HitsAccountedFor
    StatusIsExact
    OldestRuleWins
    UndoIsOwn
    Inductive
PROPERTIES
    ImplementsPlan
