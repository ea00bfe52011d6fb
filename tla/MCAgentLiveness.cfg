\* Fair threads, fair handlers, a fair stop(): no symmetry.
CONSTANTS
    t1 = t1  t2 = t2  t3 = t3  u1 = u1  u2 = u2
    redis = redis  delay = delay  throw = throw  arg = arg
    Threads <- TwoThreads
    Uids <- TwoUids
    Targets = {redis}
    Actions = {delay, throw}
    Args = {arg}
    Models <- LivenessModels
    NoModel = NoModel
    Absent = Absent
    Malformed = Malformed
    NoCall = NoCall
    MaxRegistrations = 2
    MaxHits = 1
    MaxCompareIterations = 2
    SpecActions <- MCSpecActions
SPECIFICATION FairSpec
PROPERTIES
    StopCompletes
    RemovedFadesOut
