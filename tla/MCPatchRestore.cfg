\* One bean, one module.
CONSTANTS
    connector = connector  pymysql = pymysql  boto = boto
    mysql = mysql  aws = aws
    execute = execute  cursor = cursor  call = call
    Points <- OneDriver
    Modules <- OneModule
    ModuleOf <- OneModuleOf
    TargetOf <- OneTargetOf
    Targets = {mysql}
    Frozen = {}
    MaxStarts = 1
    Missing = Missing
    NoRecord = NoRecord
    Free = Free
    NoBean = NoBean
SPECIFICATION Spec
INVARIANTS
    StopRestoresAll
CHECK_DEADLOCK FALSE
