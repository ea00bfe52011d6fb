\* Three threads compete for the two hits of one rule, whose uid may be
\* destroyed and registered again meanwhile.
CONSTANTS
    t1 = t1  t2 = t2  t3 = t3  u1 = u1  u2 = u2
    redis = redis  delay = delay  throw = throw  arg = arg
    Threads <- ThreeThreads
    Uids <- OneUid
    Targets = {redis}
    Actions = {delay, throw}
    Args = {arg}
    Models <- ContentionModels
    NoModel = NoModel
    Absent = Absent
    Malformed = Malformed
    NoCall = NoCall
    MaxRegistrations = 2
    MaxHits = 3
    MaxCompareIterations = 2
    SpecActions <- MCSpecActions
SPECIFICATION Spec
SYMMETRY ContentionSymmetry
INVARIANTS
    LimitRespected
PROPERTIES
    ImplementsPlan
