----------------------------- MODULE ChaosAgent -----------------------------
(***************************************************************************)
(* The whole agent as far as experiments go: the HTTP thread that runs the *)
(* create and destroy handlers (service/handler), the main thread that     *)
(* starts and stops the agent (bootstrap/agent.py, manager_factory.py) and *)
(* the application threads of Injector, all over one registry.             *)
(*                                                                         *)
(* The server is a plain HTTPServer: one thread, one request at a time.    *)
(* What a handler only reads (status, list, health, and every request that *)
(* is refused) changes nothing here.                                       *)
(***************************************************************************)
EXTENDS Injector

VARIABLES
    main,      \* the agent's life cycle, driven by the main thread
    request,   \* where the handler of the current request is
    todo       \* the uids that handler has registered or has yet to remove

vars == <<registryVars, count, enabled, specs, callVars, effects, leaked,
          window, main, request, todo>>

Stages == {"stopped", "starting", "running", "draining", "clearing",
           "unloading"}
Phases == {"none", "registered", "failing", "sweeping"}

AgentTypeOK ==
    /\ main \in Stages
    /\ request \in Phases
    /\ todo \in SUBSET Uids

(* Type correctness of every variable of the agent.                        *)
TypeOK == RegistryTypeOK /\ InjectorTypeOK /\ AgentTypeOK

Init ==
    /\ RegistryInit
    /\ InjectorInit
    /\ main = "stopped"
    /\ request = "none"
    /\ todo = {}

-----------------------------------------------------------------------------
(* The request handlers.                                                   *)

Idle == main = "running" /\ request = "none"

(* A create that validates nothing.                                        *)
AcceptsAnything(m) == TRUE

(* What CreateHandler.handle asks before it registers: a ModelSpec, an     *)
(* ActionSpec, and the predicate on the flags.                             *)
Accepts(m) ==
    /\ m.target \in specs
    /\ m.action \in SpecActions[m.target]
    /\ m.flagsValid

(* CreateHandler, up to the registration.  Calls in progress may meet the  *)
(* experiment from here on.                                                *)
Create(u, m) ==
    /\ Idle
    /\ Accepts(m)
    /\ RegisterExp(u, m)
    /\ request' = "registered"
    /\ todo' = {u}
    /\ window' = [t \in Threads |->
                    IF pc[t] = "outside" THEN window[t]
                    ELSE [window[t] EXCEPT !.ids = @ \cup {created + 1}]]
    /\ UNCHANGED <<enabled, specs, callVars, effects, leaked, main>>

HandlerOnly == UNCHANGED <<enabled, specs, callVars, effects, leaked, window,
                           main>>

(* Lazy load, create_injection and pre_create succeed.                     *)
Prepare ==
    /\ request = "registered"
    /\ request' = "none"
    /\ todo' = {}
    /\ UNCHANGED <<registryVars, count>>
    /\ HandlerOnly

(* One of them raises.                                                     *)
PrepareFails ==
    /\ request = "registered"
    /\ request' = "failing"
    /\ UNCHANGED <<registryVars, count, todo>>
    /\ HandlerOnly

(* A handler that gives up once the agent is stopping.                     *)
UndoCreateWhileServing ==
    /\ request = "failing"
    /\ main = "running"
    /\ \E u \in todo : RemoveExp(u)
    /\ request' = "none"
    /\ todo' = {}
    /\ HandlerOnly

(* The handler takes the registration back, by uid.                        *)
UndoCreate ==
    /\ request = "failing"
    /\ \E u \in todo : RemoveExp(u)
    /\ request' = "none"
    /\ todo' = {}
    /\ HandlerOnly

(* _destroy_by_uid.  The hooks called afterwards keep no state here.       *)
DestroyByUid(u) ==
    /\ Idle
    /\ experiments[u] # NoId
    /\ RemoveExp(u)
    /\ UNCHANGED <<request, todo>>
    /\ HandlerOnly

(* _destroy_by_target_action: list the uids, then remove them one by one.  *)
DestroyByTarget(target, action) ==
    /\ Idle
    /\ UidsOf(target, action) # {}
    /\ todo' = UidsOf(target, action)
    /\ request' = "sweeping"
    /\ UNCHANGED <<registryVars, count>>
    /\ HandlerOnly

SweepOne ==
    /\ request = "sweeping"
    /\ \E u \in todo :
        /\ RemoveExp(u)
        /\ todo' = todo \ {u}
        /\ request' = IF todo = {u} THEN "none" ELSE "sweeping"
    /\ HandlerOnly

HandlerStep == Prepare \/ PrepareFails \/ UndoCreate \/ SweepOne

-----------------------------------------------------------------------------
(* ChaosBladeAgent.start and stop.                                         *)

Advance(from, to) == main = from /\ main' = to
MainOnly == UNCHANGED <<enabled, callVars, effects, leaked, window, request,
                        todo>>

Start ==
    /\ Advance("stopped", "starting")
    /\ UNCHANGED <<registryVars, count, specs>>
    /\ MainOnly

(* PluginLoader registers a plugin's ModelSpec; a plugin that cannot be    *)
(* loaded is skipped.                                                      *)
LoadPlugin(target) ==
    /\ main = "starting"
    /\ target \notin specs
    /\ specs' = specs \cup {target}
    /\ UNCHANGED <<registryVars, count, main>>
    /\ MainOnly

Serve ==
    /\ Advance("starting", "running")
    /\ UNCHANGED <<registryVars, count, specs>>
    /\ MainOnly

(* start_server raises, the port being taken: what was loaded stays.       *)
StartFails ==
    /\ Advance("starting", "stopped")
    /\ UNCHANGED <<registryVars, count, specs>>
    /\ MainOnly

(* server.shutdown: no request begins any more...                          *)
Shutdown ==
    /\ Advance("running", "draining")
    /\ UNCHANGED <<registryVars, count, specs>>
    /\ MainOnly

(* A shutdown that does not wait for it.                                   *)
DrainedAtOnce ==
    /\ Advance("draining", "clearing")
    /\ UNCHANGED <<registryVars, count, specs>>
    /\ MainOnly

(* ... and it returns when the current one is done.                        *)
Drained ==
    /\ request = "none"
    /\ Advance("draining", "clearing")
    /\ UNCHANGED <<registryVars, count, specs>>
    /\ MainOnly

(* The managers unloaded in the other order.                               *)
UnloadSpecsFirst ==
    /\ Advance("clearing", "unloading")
    /\ specs' = {}
    /\ UNCHANGED <<registryVars, count>>
    /\ MainOnly

(* ManagerFactory.unload: the status manager first...                      *)
UnloadStatus ==
    /\ Advance("clearing", "unloading")
    /\ ClearExperiments
    /\ UNCHANGED specs
    /\ MainOnly

(* ... the ModelSpecs after it.                                            *)
UnloadSpecs ==
    /\ Advance("unloading", "stopped")
    /\ specs' = {}
    /\ UNCHANGED <<registryVars, count>>
    /\ MainOnly

StopStep == Drained \/ UnloadStatus \/ UnloadSpecs

-----------------------------------------------------------------------------
ThreadNext == /\ \E t \in Threads : ThreadStep(t)
              /\ UNCHANGED <<main, request, todo>>
SwitchNext == /\ \E b \in BOOLEAN : SetEnabled(b)
              /\ UNCHANGED <<main, request, todo>>

Next ==
    \/ ThreadNext
    \/ SwitchNext
    \/ \E u \in Uids, m \in Models : Create(u, m)
    \/ \E u \in Uids : DestroyByUid(u)
    \/ \E target \in Targets, action \in Actions :
            DestroyByTarget(target, action)
    \/ HandlerStep
    \/ \E target \in Targets : LoadPlugin(target)
    \/ Start \/ Serve \/ StartFails \/ Shutdown \/ StopStep

Spec == Init /\ [][Next]_vars

(***************************************************************************)
(* Application threads keep running; the HTTP thread finishes the request  *)
(* it has begun; stop(), once called, runs to its end.  Nobody has to      *)
(* call, create, destroy, start or stop.                                   *)
(***************************************************************************)
FairSpec ==
    /\ Spec
    /\ \A t \in Threads :
         WF_vars(pc[t] # "outside" /\ ThreadStep(t)
                 /\ UNCHANGED <<main, request, todo>>)
    /\ WF_vars(HandlerStep)
    /\ WF_vars(StopStep)

-----------------------------------------------------------------------------
Created == 1..created

(* t has counted a hit on i that it has yet to turn into a fault or to     *)
(* take back.                                                              *)
HoldsHit(t, i) ==
    /\ cur[t] = i
    /\ \/ pc[t] \in {"counted", "running"}
       \/ pc[t] = "failed" /\ ~Unparsable(model[i])

Holders(i) == { t \in Threads : HoldsHit(t, i) }

(* Every hit counted is accounted for: it has caused a fault, belongs to   *)
(* a call in progress, or was left behind by a call that found its         *)
(* ModelSpec gone.  A rollback thus never takes back a hit that another    *)
(* call made, nor one on a later experiment of the same uid.               *)
HitsAccountedFor ==
    \A i \in Created :
        count[i] = effects[i] + leaked[i] + Cardinality(Holders(i))

(* effect-count is never exceeded, not even for a moment and whatever the  *)
(* threads that share the experiment do ("effect-count: Limit the number   *)
(* of injections").                                                        *)
LimitRespected ==
    \A i \in Created :
        model[i].effectCount \in Nat => count[i] <= model[i].effectCount

(* For an experiment a client can still see, the hit count that /status    *)
(* and /list report is exact: no hit was counted and then dropped, because *)
(* stop() forgets the experiments before the ModelSpecs.                   *)
StatusIsExact == \A i \in Registered : leaked[i] = 0

(* A call is under the oldest rule that matches it: no rule registered     *)
(* before the one it matched, still in force, matches it as well.          *)
OldestRuleWins ==
    \A t \in Threads : cur[t] # NoId =>
        \A i \in ByTarget(call[t].target) :
            i < cur[t] => ~Compare(i, call[t].arg)

(* While a create is unfinished its uid is bound to the metric it          *)
(* registered: undoing a failed create removes nothing else.               *)
UndoIsOwn ==
    request \in {"registered", "failing"} =>
        \E u \in Uids : todo = {u} /\ experiments[u] = created

(***************************************************************************)
(* What makes these inductive.                                             *)
(***************************************************************************)

(* Where a call is decides what it holds.                                  *)
CallsInv ==
    \A t \in Threads :
        /\ cur[t] # NoId
              <=> pc[t] \in {"matched", "counted", "running", "failed"}
        /\ cur[t] <= created
        /\ pc[t] \in {"counted", "running"} => ~Unparsable(model[cur[t]])

(* Metrics appear in order, and start from nothing; a rule int() rejects   *)
(* never counts a hit.                                                     *)
MetricsInv ==
    /\ \A u \in Uids : experiments[u] <= created
    /\ \A i \in Created : model[i] \in Models
    /\ \A i \in Ids : i > created => count[i] = 0 /\ effects[i] = 0
                                                  /\ leaked[i] = 0
    /\ \A i \in Created : Unparsable(model[i]) => count[i] = 0

HitsInv == CallsInv /\ MetricsInv /\ HitsAccountedFor /\ LimitRespected

(* The life cycle: experiments exist only while the server has been up and *)
(* the status manager has not been unloaded, each with its ModelSpec.      *)
StageInv ==
    /\ request # "none" => main \in {"running", "draining"}
    /\ main \in {"stopped", "starting", "unloading"} => Registered = {}
    /\ \A i \in Registered : /\ model[i].target \in specs
                              /\ model[i].action \in SpecActions[model[i].target]

(* What a call has seen covers what it can meet.                           *)
WindowInv ==
    \A t \in Threads :
        /\ pc[t] # "outside" => Registered \subseteq window[t].ids
        /\ pc[t] = "advised" /\ enabled => window[t].on
        /\ pc[t] \notin {"outside", "advised"} => window[t].on
        /\ cur[t] # NoId => cur[t] \in window[t].ids

(* The three together are what the proofs rest on.                         *)
Inductive == HitsInv /\ StageInv /\ WindowInv

(* A stop() under way clears the experiments of every client although      *)
(* calls keep running and a request may be half done.                      *)
StopCompletes == main = "draining" ~> main = "stopped"

(* A removed experiment fades out: a call that had already matched it may  *)
(* still run its fault, but from some moment on no call ever does.         *)
RemovedFadesOut ==
    \A i \in Ids : (i <= created /\ i \notin Registered)
                      ~> [](\A t \in Threads : cur[t] # i)

-----------------------------------------------------------------------------
(* What FaultPlan calls the budget of an experiment.                       *)
BudgetOf(m) ==
    IF Unparsable(m) THEN 0
    ELSE m.effectCount     \* Absent stands for the unlimited budget

Plan == INSTANCE FaultPlan WITH
    Callers   <- Threads,
    Plans     <- Ids,
    Budgets   <- { BudgetOf(m) : m \in Models },
    Unlimited <- Absent,
    used      <- Created,
    active    <- Registered,
    budget    <- [i \in Ids |-> IF i <= created THEN BudgetOf(model[i]) ELSE 0],
    faults    <- effects,
    switch    <- enabled,
    calling   <- { t \in Threads : pc[t] # "outside" },
    seen      <- [t \in Threads |-> window[t].ids],
    armed     <- [t \in Threads |-> window[t].on]

(* The agent implements FaultPlan: at most one fault per call, only from   *)
(* an experiment in force during that call, with the switch on during that *)
(* call, and never more faults than the budget.                            *)
ImplementsPlan == Plan!PlanSpec
=============================================================================
