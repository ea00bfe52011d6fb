-------------------------- MODULE MCPatchLifecycle --------------------------
(* Small instances of PatchLifecycle for TLC.                              *)
EXTENDS PatchLifecycle, TLC
CONSTANTS connector, pymysql, boto, mysql, aws, execute, cursor, call

(* One target with two beans in two modules, as mysql has.                 *)
TwoDrivers == {execute, cursor}
DriverModules == {connector, pymysql}
DriverModuleOf == (execute :> connector) @@ (cursor :> pymysql)
DriverTargetOf == [p \in TwoDrivers |-> mysql]

(* One bean alone.                                                         *)
FrozenModules == {connector, boto}

OneDriver == {execute}
OneModule == {connector}
OneModuleOf == [p \in OneDriver |-> connector]
OneTargetOf == [p \in OneDriver |-> mysql]

(* Two beans in one module, as kafka has, one of which refuses setattr,    *)
(* beside a bean of another target.                                        *)
ThreePoints == {execute, cursor, call}
FrozenPoints == {cursor}
FrozenModuleOf == [p \in ThreePoints |-> IF p = call THEN boto ELSE connector]
FrozenTargetOf == [p \in ThreePoints |-> IF p = call THEN aws ELSE mysql]
=============================================================================
