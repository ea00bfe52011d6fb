--------------------------- MODULE StatusManager ---------------------------
(***************************************************************************)
(* The registry of active experiments: DefaultStatusManager and the        *)
(* StatusMetric objects it hands out (common/center/status_manager.py).    *)
(*                                                                         *)
(* A StatusMetric is an object with an identity of its own: a thread that  *)
(* took it from the registry keeps it after the experiment is removed, and *)
(* an experiment registered again under the same uid gets a new one.  The  *)
(* objects are therefore numbered in the order they are created, which is  *)
(* also the insertion order of the dict that holds them.                   *)
(*                                                                         *)
(* Each operator is one critical section of the code (one "with lock").    *)
(***************************************************************************)
EXTENDS Naturals, FiniteSets

CONSTANTS
    Uids,              \* experiment uids ("suid" of a request)
    Targets,           \* plugin targets: redis, http, mysql, ...
    Actions,           \* action names: delay, throwCustomException, ...
    Args,              \* what a patched call passes, as the matchers see it
    Models,            \* the experiment models a request can describe
    NoModel,           \* no StatusMetric has been created here yet
    Absent,            \* a control matcher that is not set
    Malformed,         \* a control matcher int() rejects
    MaxRegistrations   \* bound on the StatusMetric objects ever created

Ids == 1..MaxRegistrations
NoId == 0

(***************************************************************************)
(* A model: target and action name, the argument values its matchers       *)
(* accept, its effect-count and effect-percent matchers, and the verdict   *)
(* of the ModelSpec's predicate on its flags.                              *)
(***************************************************************************)
Model == [target : Targets, action : Actions, args : SUBSET Args,
          effectCount : Nat \cup {Absent, Malformed},
          effectPercent : (0..100) \cup {Absent, Malformed},
          flagsValid : BOOLEAN]

ASSUME ModelsAssumption == Models \subseteq Model /\ NoModel \notin Models
ASSUME BoundAssumption  == MaxRegistrations \in Nat
ASSUME MarkAssumption   == /\ Absent \notin Nat
                           /\ Malformed \notin Nat
                           /\ Absent # Malformed

VARIABLES
    experiments,   \* uid -> StatusMetric, NoId where the dict has no entry
    created,       \* how many StatusMetric objects were created so far
    model,         \* StatusMetric -> its model, immutable once created
    count          \* StatusMetric -> hit count

registryVars == <<experiments, created, model>>

RegistryTypeOK ==
    /\ experiments \in [Uids -> Ids \cup {NoId}]
    /\ created \in Ids \cup {NoId}
    /\ model \in [Ids -> Models \cup {NoModel}]
    /\ count \in [Ids -> Nat]

RegistryInit ==
    /\ experiments = [u \in Uids |-> NoId]
    /\ created = 0
    /\ model = [i \in Ids |-> NoModel]
    /\ count = [i \in Ids |-> 0]

-----------------------------------------------------------------------------
Registered == { experiments[u] : u \in Uids } \ {NoId}

(* A registry that keeps what it should have forgotten.                    *)
ByTargetEver(target) == { i \in 1..created : model[i].target = target }

(* get_exp_by_target: the snapshot a caller iterates after the lock is     *)
(* released; exp_exists asks whether it is empty.                          *)
ByTarget(target) == { i \in Registered : model[i].target = target }

(* list_uids: the action name is compared as it was written in the request *)
UidsOf(target, action) ==
    { u \in Uids : /\ experiments[u] # NoId
                   /\ model[experiments[u]].target = target
                   /\ model[experiments[u]].action = action }

(* register_exp: refuses a uid in use, otherwise creates a fresh metric.   *)
RegisterExp(u, m) ==
    /\ experiments[u] = NoId
    /\ created < MaxRegistrations
    /\ created' = created + 1
    /\ experiments' = [experiments EXCEPT ![u] = created + 1]
    /\ model' = [model EXCEPT ![created + 1] = m]
    /\ UNCHANGED count

(* remove_exp: only the entry goes; the metric lives on in its holders.    *)
RemoveExp(u) ==
    /\ experiments' = [experiments EXCEPT ![u] = NoId]
    /\ UNCHANGED <<created, model, count>>

(* unload: forget every experiment.                                        *)
ClearExperiments ==
    /\ experiments' = [u \in Uids |-> NoId]
    /\ UNCHANGED <<created, model, count>>

(* StatusMetric.increase                                                   *)
Increase(i) == count' = [count EXCEPT ![i] = @ + 1]

(* An off-by-one in the limit.                                             *)
IncreaseUpTo(i, limit) == count[i] <= limit /\ Increase(i)

(* StatusMetric.increase_with_lock, the branch that succeeds               *)
IncreaseBelow(i, limit) == count[i] < limit /\ Increase(i)

(* A decrease without its floor, and one that starts over.                 *)
DecreaseUnfloored(i) == count' = [count EXCEPT ![i] = @ - 1]
DecreaseToZero(i) == count' = [count EXCEPT ![i] = 0]

(* StatusMetric.decrease: floored at zero                                  *)
Decrease(i) == count' = [count EXCEPT ![i] = IF @ > 0 THEN @ - 1 ELSE 0]
=============================================================================
