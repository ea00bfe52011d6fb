\* Two beans in one module, one of them on a type that refuses setattr.
CONSTANTS
    connector = connector  pymysql = pymysql  boto = boto
    mysql = mysql  aws = aws
    execute = execute  cursor = cursor  call = call
    Points <- ThreePoints
    Modules <- FrozenModules
    ModuleOf <- FrozenModuleOf
    TargetOf <- FrozenTargetOf
    Targets = {mysql, aws}
    Frozen <- FrozenPoints
    MaxStarts = 2
    Missing = Missing
    NoRecord = NoRecord
    Free = Free
    NoBean = NoBean
SPECIFICATION Spec
INVARIANTS
    TypeOK
    WrappedOnce
    LeftoversAreImported
    Inductive
PROPERTIES
    ImplementsPatchPlan
CHECK_DEADLOCK FALSE
