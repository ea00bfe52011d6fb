------------------------------ MODULE Injector ------------------------------
(***************************************************************************)
(* A patched call on its way through the agent: the wrapper built by       *)
(* EnhancerFactory, BeforeEnhancer.before_advice and Injector.inject.      *)
(*                                                                         *)
(* Every application thread runs this code with no lock of its own.  A     *)
(* thread takes a step wherever it reads or writes state another thread    *)
(* can change; what lies between two such points is part of the step       *)
(* before it.                                                              *)
(***************************************************************************)
EXTENDS StatusManager

CONSTANTS
    Threads,               \* application threads that call patched functions
    NoCall,                \* a thread outside any patched call
    SpecActions,           \* target -> actions its ModelSpec defines
    MaxHits,               \* bound: no call begins once a count reaches it
    MaxCompareIterations   \* _MAX_COMPARE_ITERATIONS

ASSUME ThreadsAssumption == IsFiniteSet(Threads)
ASSUME SpecAssumption    == SpecActions \in [Targets -> SUBSET Actions]
ASSUME CompareAssumption == MaxCompareIterations \in Nat
ASSUME HitsAssumption    == MaxHits \in Nat
ASSUME NoCallAssumption  == NoCall \notin [target : Targets, arg : Args]

VARIABLES
    enabled,   \* Injector._enabled
    specs,     \* targets with a ModelSpec in DefaultModelSpecManager
    pc,        \* thread -> where its current patched call is
    call,      \* thread -> target and argument of that call
    cur,       \* thread -> the metric its call matched
    (* History, read by no action: *)
    effects,   \* metric -> faults it really caused
    leaked,    \* metric -> hits counted without a fault and never undone
    window     \* thread -> what was in force at some moment of its call

callVars == <<pc, call, cur>>

PCs == {"outside", "advised", "enabled", "matched", "counted", "running",
        "failed"}

Call == [target : Targets, arg : Args]
Window == [ids : SUBSET Ids, on : BOOLEAN]

InjectorTypeOK ==
    /\ enabled \in BOOLEAN
    /\ specs \in SUBSET Targets
    /\ pc \in [Threads -> PCs]
    /\ call \in [Threads -> Call \cup {NoCall}]
    /\ cur \in [Threads -> Ids \cup {NoId}]
    /\ effects \in [Ids -> Nat]
    /\ leaked \in [Ids -> Nat]
    /\ window \in [Threads -> Window]

InjectorInit ==
    /\ enabled = TRUE
    /\ specs = {}
    /\ pc = [t \in Threads |-> "outside"]
    /\ call = [t \in Threads |-> NoCall]
    /\ cur = [t \in Threads |-> NoId]
    /\ effects = [i \in Ids |-> 0]
    /\ leaked = [i \in Ids |-> 0]
    /\ window = [t \in Threads |-> [ids |-> {}, on |-> FALSE]]

-----------------------------------------------------------------------------
(* _compare: the matchers accept the call's argument.                      *)
Compare(i, arg) == arg \in model[i].args

(* The metrics the loop of inject looks at: the snapshot in the order of   *)
(* registration, cut off at the safety cap.                                *)
Compared(target) ==
    { i \in ByTarget(target) :
        Cardinality({ j \in ByTarget(target) : j < i }) < MaxCompareIterations }

Matching(target, arg) == { i \in Compared(target) : Compare(i, arg) }

(* int() raises inside _limit_and_increase: effect-count is looked at      *)
(* first, effect-percent only when there is no effect-count.               *)
Unparsable(m) ==
    \/ m.effectCount = Malformed
    \/ m.effectCount = Absent /\ m.effectPercent = Malformed

(* randint(1, 100) against effect-percent: whether a call may pass, and    *)
(* whether it may not.                                                     *)
MayPass(m) == m.effectPercent = Absent \/ m.effectPercent >= 1
MayMiss(m) == m.effectPercent # Absent /\ m.effectPercent < 100

-----------------------------------------------------------------------------
Goto(t, where) == pc' = [pc EXCEPT ![t] = where]

(* The call goes on to the original function, or has been interrupted.     *)
Leave(t) ==
    /\ Goto(t, "outside")
    /\ call' = [call EXCEPT ![t] = NoCall]
    /\ cur' = [cur EXCEPT ![t] = NoId]
    /\ window' = [window EXCEPT ![t] = [ids |-> {}, on |-> FALSE]]

(* before_advice: a call enters the wrapper.  Without an experiment for    *)
(* the target it goes straight to the original function, and nothing       *)
(* changes.                                                                *)
BeforeAdvice(t) ==
    /\ pc[t] = "outside"
    /\ \A i \in Ids : count[i] < MaxHits
    /\ \E c \in Call :
        /\ ByTarget(c.target) # {}
        /\ call' = [call EXCEPT ![t] = c]
    /\ Goto(t, "advised")
    /\ window' = [window EXCEPT ![t] = [ids |-> Registered, on |-> enabled]]
    /\ UNCHANGED <<registryVars, count, enabled, specs, cur, effects, leaked>>

(* do_before_advice gives up or raises (the wrapper swallows it), or       *)
(* inject finds the global switch off.                                     *)
Bypass(t) ==
    /\ pc[t] = "advised"
    /\ Leave(t)
    /\ UNCHANGED <<registryVars, count, enabled, specs, effects, leaked>>

(* An inject that never looks at the switch.                               *)
CheckNothing(t) ==
    /\ pc[t] = "advised"
    /\ Goto(t, "enabled")
    /\ UNCHANGED <<registryVars, count, enabled, specs, call, cur, effects,
                   leaked, window>>

(* inject: the global switch is read once.                                 *)
CheckEnabled(t) ==
    /\ pc[t] = "advised"
    /\ enabled
    /\ Goto(t, "enabled")
    /\ UNCHANGED <<registryVars, count, enabled, specs, call, cur, effects,
                   leaked, window>>

(* A loop that lets the last match win.                                    *)
MatchLast(t) ==
    /\ pc[t] = "enabled"
    /\ \/ \E i \in Matching(call[t].target, call[t].arg) :
            /\ \A j \in Matching(call[t].target, call[t].arg) : i >= j
            /\ cur' = [cur EXCEPT ![t] = i]
            /\ Goto(t, "matched")
            /\ UNCHANGED <<call, window>>
       \/ /\ Matching(call[t].target, call[t].arg) = {}
          /\ Leave(t)
    /\ UNCHANGED <<registryVars, count, enabled, specs, effects, leaked>>

(* inject: take the snapshot; the first rule that matches is the only one  *)
(* considered.  Models are immutable, so the comparisons are local.        *)
MatchFirst(t) ==
    /\ pc[t] = "enabled"
    /\ \/ \E i \in Matching(call[t].target, call[t].arg) :
            /\ \A j \in Matching(call[t].target, call[t].arg) : i <= j
            /\ cur' = [cur EXCEPT ![t] = i]
            /\ Goto(t, "matched")
            /\ UNCHANGED <<call, window>>
       \/ /\ Matching(call[t].target, call[t].arg) = {}
          /\ Leave(t)
    /\ UNCHANGED <<registryVars, count, enabled, specs, effects, leaked>>

(* _limit_and_increase says no: the count is used up, or the dice are      *)
(* against it.                                                             *)
Limited(t) ==
    /\ pc[t] = "matched"
    /\ LET m == model[cur[t]]
       IN  \/ m.effectCount \in Nat /\ count[cur[t]] >= m.effectCount
           \/ m.effectCount = Absent /\ ~Unparsable(m) /\ MayMiss(m)
    /\ Leave(t)
    /\ UNCHANGED <<registryVars, count, enabled, specs, effects, leaked>>

(* _limit_and_increase counts a hit.                                       *)
LimitAndIncrease(t) ==
    /\ pc[t] = "matched"
    /\ LET m == model[cur[t]]
       IN  \/ m.effectCount \in Nat /\ IncreaseBelow(cur[t], m.effectCount)
           \/ /\ m.effectCount = Absent /\ ~Unparsable(m) /\ MayPass(m)
              /\ Increase(cur[t])
    /\ Goto(t, "counted")
    /\ UNCHANGED <<registryVars, enabled, specs, call, cur, effects, leaked,
                   window>>

(* _limit_and_increase raises ValueError: nothing was counted, yet the     *)
(* handler below will take a hit back.                                     *)
LimitUnparsable(t) ==
    /\ pc[t] = "matched"
    /\ Unparsable(model[cur[t]])
    /\ Goto(t, "failed")
    /\ UNCHANGED <<registryVars, count, enabled, specs, call, cur, effects,
                   leaked, window>>

(* inject: find the ModelSpec and the ActionSpec.  When either is gone the *)
(* loop is left by a break, and the hit stays counted.                     *)
LookupSpec(t) ==
    /\ pc[t] = "counted"
    /\ LET m == model[cur[t]]
       IN  \/ /\ m.target \in specs /\ m.action \in SpecActions[m.target]
              /\ Goto(t, "running")
              /\ UNCHANGED <<call, cur, leaked, window>>
           \/ /\ ~(m.target \in specs /\ m.action \in SpecActions[m.target])
              /\ leaked' = [leaked EXCEPT ![cur[t]] = @ + 1]
              /\ Leave(t)
    /\ UNCHANGED <<registryVars, count, enabled, specs, effects>>

(* The executor does its work: it returns (delay) or raises                *)
(* InterruptProcessException (return value, exception).                    *)
Execute(t) ==
    /\ pc[t] = "running"
    /\ effects' = [effects EXCEPT ![cur[t]] = @ + 1]
    /\ Leave(t)
    /\ UNCHANGED <<registryVars, count, enabled, specs, leaked>>

(* The executor, or looking it up, raises anything else.                   *)
ExecuteFails(t) ==
    /\ pc[t] = "running"
    /\ Goto(t, "failed")
    /\ UNCHANGED <<registryVars, count, enabled, specs, call, cur, effects,
                   leaked, window>>

(* A rollback that looks the experiment up again.                          *)
RollbackByTarget(t) ==
    /\ pc[t] = "failed"
    /\ \/ \E i \in ByTarget(call[t].target) : Decrease(i)
       \/ ByTarget(call[t].target) = {} /\ UNCHANGED count
    /\ Leave(t)
    /\ UNCHANGED <<registryVars, enabled, specs, effects, leaked>>

(* except Exception: take the hit back, on the metric that was matched.    *)
Rollback(t) ==
    /\ pc[t] = "failed"
    /\ Decrease(cur[t])
    /\ Leave(t)
    /\ UNCHANGED <<registryVars, enabled, specs, effects, leaked>>

(* Injector.set_enabled, called by anyone at any time                      *)
SetEnabled(b) ==
    /\ enabled # b
    /\ enabled' = b
    /\ window' = [t \in Threads |->
                    [window[t] EXCEPT !.on = @ \/ (b /\ pc[t] # "outside")]]
    /\ UNCHANGED <<registryVars, count, specs, callVars, effects, leaked>>

ThreadStep(t) ==
    \/ BeforeAdvice(t) \/ Bypass(t) \/ CheckEnabled(t) \/ MatchFirst(t)
    \/ Limited(t) \/ LimitAndIncrease(t) \/ LimitUnparsable(t)
    \/ LookupSpec(t) \/ Execute(t) \/ ExecuteFails(t) \/ Rollback(t)
=============================================================================
