\* Two drivers behind one target, two runs of the agent; fair importers,
\* a fair handler, a fair stop().
CONSTANTS
    connector = connector  pymysql = pymysql  boto = boto
    mysql = mysql  aws = aws
    execute = execute  cursor = cursor  call = call
    Points <- TwoDrivers
    Modules <- DriverModules
    ModuleOf <- DriverModuleOf
    TargetOf <- DriverTargetOf
    Targets = {mysql}
    Frozen = {}
    MaxStarts = 2
    Missing = Missing
    NoRecord = NoRecord
    Free = Free
    NoBean = NoBean
SPECIFICATION FairSpec
INVARIANTS
    LoadedIsNotForgotten
    PromisedIsPatched
PROPERTIES
    ImportsEnd
    StopEnds
CHECK_DEADLOCK FALSE
