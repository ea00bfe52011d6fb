----------------------- MODULE ChaosAgentPlan_proofs ------------------------
(***************************************************************************)
(* ChaosAgent implements FaultPlan, and the oldest matching rule wins, for *)
(* every value of the constants.                                           *)
(***************************************************************************)
EXTENDS ChaosAgent_proofs

(* Leaving the agent, seen from every thread.                              *)
LEMMA Leaving ==
  ASSUME TypeOK, NEW t \in Threads, Leave(t)
  PROVE  /\ pc'[t] = "outside" /\ cur'[t] = NoId
         /\ window'[t] = [ids |-> {}, on |-> FALSE]
         /\ \A s \in Threads \ {t} : /\ pc'[s] = pc[s] /\ cur'[s] = cur[s]
                                     /\ call'[s] = call[s]
                                     /\ window'[s] = window[s]
BY DEF Leave, Goto, TypeOK, InjectorTypeOK

(* What a step of a thread cannot touch.                                   *)
LEMMA ThreadFrame ==
  ASSUME NEW t \in Threads, ThreadStep(t)
  PROVE  UNCHANGED <<registryVars, enabled, specs>>
BY DEF ThreadStep, BeforeAdvice, Bypass, CheckEnabled, MatchFirst, Limited,
       LimitAndIncrease, LimitUnparsable, LookupSpec, Execute, ExecuteFails,
       Rollback

(* A thread either leaves, or enters, or matches a rule, or keeps what it  *)
(* has matched and seen while it moves on.                                 *)
LEMMA ThreadMoves ==
  ASSUME TypeOK, HitsInv, NEW t \in Threads, ThreadStep(t)
  PROVE  \/ /\ Leave(t) /\ pc[t] # "outside"
            /\ effects' = effects \/ Execute(t)
         \/ BeforeAdvice(t)
         \/ /\ pc[t] = "enabled" /\ cur[t] = NoId
            /\ \E i \in Matching(call[t].target, call[t].arg) :
                 /\ \A j \in Matching(call[t].target, call[t].arg) : i <= j
                 /\ cur' = [cur EXCEPT ![t] = i]
            /\ pc' = [pc EXCEPT ![t] = "matched"]
            /\ UNCHANGED <<call, window, effects>>
         \/ /\ \/ pc[t] = "advised" /\ enabled
               \/ pc[t] \notin {"outside", "advised"}
            /\ \E to \in {"enabled", "counted", "running", "failed"} :
                 pc' = [pc EXCEPT ![t] = to]
            /\ UNCHANGED <<call, cur, window, effects>>
<1>1. CASE BeforeAdvice(t)
  BY <1>1
<1>2. CASE Bypass(t) \/ Limited(t) \/ Execute(t) \/ Rollback(t)
  BY <1>2 DEF Bypass, Limited, Execute, Rollback
<1>3. CASE CheckEnabled(t) \/ LimitAndIncrease(t) \/ LimitUnparsable(t)
           \/ ExecuteFails(t)
  BY <1>3 DEF CheckEnabled, LimitAndIncrease, LimitUnparsable, ExecuteFails,
              Goto
<1>4. CASE MatchFirst(t)
  BY <1>4 DEF MatchFirst, Goto, HitsInv, CallsInv
<1>5. CASE LookupSpec(t)
  BY <1>5 DEF LookupSpec, Goto
<1> QED
  BY <1>1, <1>2, <1>3, <1>4, <1>5 DEF ThreadStep

(* What a step of the HTTP or of the main thread cannot touch, and that it *)
(* adds nothing to the registry, unless it is a create.                    *)
LEMMA ControlFrame ==
  ASSUME TypeOK,
         \/ \E u \in Uids : DestroyByUid(u)
         \/ \E target \in Targets, action \in Actions :
                DestroyByTarget(target, action)
         \/ HandlerStep
         \/ \E target \in Targets : LoadPlugin(target)
         \/ Start \/ Serve \/ StartFails \/ Shutdown \/ StopStep
  PROVE  /\ UNCHANGED <<created, model, count, enabled, callVars, effects,
                        leaked, window>>
         /\ Registered' \subseteq Registered
<1> USE DEF TypeOK, RegistryTypeOK, registryVars, HandlerOnly, MainOnly,
            RemoveExp, Registered
<1>1. CASE \E u \in Uids : DestroyByUid(u)
  BY <1>1 DEF DestroyByUid
<1>2. CASE \E target \in Targets, action \in Actions :
               DestroyByTarget(target, action)
  BY <1>2 DEF DestroyByTarget
<1>3. CASE Prepare \/ PrepareFails
  BY <1>3 DEF Prepare, PrepareFails
<1>4. CASE UndoCreate \/ SweepOne
  BY <1>4 DEF UndoCreate, SweepOne
<1>5. CASE \E target \in Targets : LoadPlugin(target)
  BY <1>5 DEF LoadPlugin
<1>6. CASE Start \/ Serve \/ StartFails \/ Shutdown \/ Drained \/ UnloadSpecs
  BY <1>6 DEF Start, Serve, StartFails, Shutdown, Drained, UnloadSpecs
<1>7. CASE UnloadStatus
  BY <1>7 DEF UnloadStatus, ClearExperiments, NoId
<1> QED
  BY <1>1, <1>2, <1>3, <1>4, <1>5, <1>6, <1>7 DEF HandlerStep, StopStep

(* A create adds one metric, new to everyone.                              *)
LEMMA CreateFrame ==
  ASSUME TypeOK, HitsInv, NEW u \in Uids, NEW m \in Models, Create(u, m)
  PROVE  \E n \in Ids :
           /\ n = created + 1 /\ created' = n
           /\ Registered' = Registered \cup {n}
           /\ model' = [model EXCEPT ![n] = m]
           /\ \A i \in Created : i < n /\ model'[i] = model[i]
           /\ \A t \in Threads : cur[t] < n
           /\ window' = [t \in Threads |->
                            IF pc[t] = "outside" THEN window[t]
                            ELSE [window[t] EXCEPT !.ids = @ \cup {n}]]
           /\ UNCHANGED <<count, enabled, specs, callVars, effects, leaked>>
<1>1. PICK n \in Ids : n = created + 1
  BY MetricType DEF Create, RegisterExp, TypeOK
<1>2. /\ model' = [model EXCEPT ![n] = m]
      /\ experiments[u] = NoId
      /\ experiments' = [experiments EXCEPT ![u] = n]
  BY <1>1 DEF Create, RegisterExp
<1>3. Registered' = Registered \cup {n}
  <2>1. n # NoId
    BY MetricType DEF TypeOK
  <2>2. Registered' \subseteq Registered \cup {n}
    BY <1>2 DEF Registered, TypeOK, RegistryTypeOK
  <2>3. n \in Registered'
    BY <1>2, <2>1 DEF Registered, TypeOK, RegistryTypeOK
  <2>4. Registered \subseteq Registered'
    BY <1>2 DEF Registered, TypeOK, RegistryTypeOK
  <2> QED
    BY <2>2, <2>3, <2>4
<1>4. \A i \in Created : i < n /\ model'[i] = model[i]
  BY <1>1, <1>2, MetricType DEF TypeOK, RegistryTypeOK, Created
<1>5. \A t \in Threads : cur[t] < n
  BY <1>1, MetricType DEF HitsInv, CallsInv, TypeOK, InjectorTypeOK, Ids, NoId
<1> QED
  BY <1>1, <1>2, <1>3, <1>4, <1>5 DEF Create, RegisterExp

-----------------------------------------------------------------------------
(***************************************************************************)
(* The oldest matching rule wins.                                          *)
(***************************************************************************)

(* Nobody matches anything new, and no experiment appears.                 *)
LEMMA OldestKept ==
  ASSUME OldestRuleWins, Registered' \subseteq Registered, model' = model,
         \A t \in Threads : \/ cur'[t] = NoId
                            \/ cur'[t] = cur[t] /\ call'[t] = call[t]
  PROVE  OldestRuleWins'
BY DEF OldestRuleWins, ByTarget, Compare

(* The first rule of a snapshot that matches is the oldest that does: the  *)
(* safety cap cuts off younger rules only.                                 *)
LEMMA FirstIsOldest ==
  ASSUME TypeOK, NEW target, NEW arg, NEW i \in Matching(target, arg),
         \A j \in Matching(target, arg) : i <= j
  PROVE  \A j \in ByTarget(target) : j < i => ~Compare(j, arg)
<1> SUFFICES ASSUME NEW j \in ByTarget(target), j < i, Compare(j, arg)
             PROVE  FALSE
  OBVIOUS
<1> DEFINE Older(k) == { l \in ByTarget(target) : l < k }
<1>1. i \in Nat /\ j \in Nat /\ ByTarget(target) \subseteq Ids
      /\ ByTarget(target) \subseteq Nat
  BY MetricType DEF TypeOK, Matching, Compared, ByTarget, Ids
<1>2. IsFiniteSet(Older(i))
  <2>1. IsFiniteSet(Ids)
    BY FS_Interval, BoundAssumption DEF Ids
  <2>2. Older(i) \subseteq Ids
    BY <1>1
  <2> QED
    BY <2>1, <2>2, FS_Subset
<1>3. Older(j) \subseteq Older(i)
  BY <1>1
<1>4. /\ Cardinality(Older(j)) <= Cardinality(Older(i))
      /\ Cardinality(Older(j)) \in Nat /\ Cardinality(Older(i)) \in Nat
  BY <1>2, <1>3, FS_Subset, FS_CardinalityType
<1>5. Cardinality(Older(i)) < MaxCompareIterations
  BY DEF Matching, Compared
<1>6. Cardinality(Older(j)) < MaxCompareIterations
  BY <1>4, <1>5, CompareAssumption
<1>7. j \in Matching(target, arg)
  BY <1>6 DEF Matching, Compared
<1> QED
  BY <1>1, <1>7

(* A call is under the oldest rule that matches it and is still in force.  *)
THEOREM OldestWins == Spec => []OldestRuleWins
<1>1. Init => OldestRuleWins
  BY DEF Init, InjectorInit, OldestRuleWins
<1>2. TypeOK /\ HitsInv /\ OldestRuleWins /\ [Next]_vars => OldestRuleWins'
  <2> SUFFICES ASSUME TypeOK, HitsInv, OldestRuleWins, [Next]_vars
               PROVE  OldestRuleWins'
    OBVIOUS
  <2>1. ASSUME NEW t \in Threads, ThreadStep(t)
        PROVE  OldestRuleWins'
    <3>1. UNCHANGED <<registryVars, enabled, specs>>
      BY <2>1, ThreadFrame
    <3>2. Registered' = Registered /\ model' = model
      BY <3>1 DEF Registered, registryVars
    <3>3. CASE Leave(t)
      BY <3>2, <3>3, Leaving, OldestKept
    <3>4. CASE BeforeAdvice(t)
      BY <3>2, <3>4, OldestKept
         DEF BeforeAdvice, HitsInv, CallsInv, TypeOK, InjectorTypeOK
    <3>5. ASSUME NEW i \in Matching(call[t].target, call[t].arg),
                 \A j \in Matching(call[t].target, call[t].arg) : i <= j,
                 cur' = [cur EXCEPT ![t] = i], UNCHANGED call
          PROVE  OldestRuleWins'
      <4>1. cur'[t] = i /\ \A s \in Threads \ {t} : cur'[s] = cur[s]
        BY <3>5 DEF TypeOK, InjectorTypeOK
      <4>2. \A j \in ByTarget(call[t].target) :
              j < i => ~Compare(j, call[t].arg)
        BY <3>5, FirstIsOldest
      <4> QED
        BY <3>2, <3>5, <4>1, <4>2 DEF OldestRuleWins, ByTarget, Compare
    <3>6. CASE UNCHANGED <<call, cur>>
      BY <3>2, <3>6, OldestKept
    <3> QED
      BY <2>1, <3>3, <3>4, <3>5, <3>6, ThreadMoves
  <2>2. ASSUME NEW u \in Uids, NEW m \in Models, Create(u, m)
        PROVE  OldestRuleWins'
    <3>1. PICK n \in Ids :
            /\ Registered' = Registered \cup {n}
            /\ \A i \in Created : i < n /\ model'[i] = model[i]
            /\ \A t \in Threads : cur[t] < n
            /\ UNCHANGED callVars
      BY <2>2, CreateFrame
    <3>2. Registered \subseteq Created
      BY MetricType DEF HitsInv, MetricsInv, Registered, TypeOK
    <3>3. n \in Nat /\ \A t \in Threads : cur[t] \in Nat
      BY DEF TypeOK, InjectorTypeOK, Ids, NoId
    <3> QED
      BY <3>1, <3>2, <3>3 DEF OldestRuleWins, ByTarget, Compare, callVars
  <2>3. ASSUME NEW b \in BOOLEAN, SetEnabled(b)
        PROVE  OldestRuleWins'
    BY <2>3 DEF SetEnabled, registryVars, callVars, OldestRuleWins, ByTarget,
                Registered, Compare
  <2>4. CASE UNCHANGED vars
    BY <2>4 DEF vars, registryVars, callVars, OldestRuleWins, ByTarget,
                Registered, Compare
  <2>5. CASE /\ ~\E t \in Threads : ThreadStep(t)
             /\ ~\E u \in Uids, m \in Models : Create(u, m)
             /\ ~\E b \in BOOLEAN : SetEnabled(b)
             /\ Next
    <3>1. UNCHANGED <<model, callVars>> /\ Registered' \subseteq Registered
      BY <2>5, ControlFrame DEF Next, ThreadNext, SwitchNext
    <3> QED
      BY <3>1, OldestKept DEF callVars
  <2> QED
    BY <2>1, <2>2, <2>3, <2>4, <2>5
<1> QED
  BY <1>1, <1>2, TypeCorrect, HitsCorrect, PTL DEF Spec

-----------------------------------------------------------------------------
(***************************************************************************)
(* FaultPlan.                                                              *)
(***************************************************************************)

(* What a call has seen covers every experiment it can meet.               *)
THEOREM WindowCorrect == Spec => []WindowInv
<1>1. Init => WindowInv
  BY DEF Init, InjectorInit, WindowInv
<1>2. TypeOK /\ HitsInv /\ WindowInv /\ [Next]_vars => WindowInv'
  <2> SUFFICES ASSUME TypeOK, HitsInv, WindowInv, [Next]_vars
               PROVE  WindowInv'
    OBVIOUS
  <2>1. ASSUME NEW t \in Threads, ThreadStep(t)
        PROVE  WindowInv'
    <3>1. UNCHANGED <<registryVars, enabled, specs>>
      BY <2>1, ThreadFrame
    <3>2. Registered' = Registered
      BY <3>1 DEF Registered, registryVars
    <3>3. CASE Leave(t)
      BY <3>1, <3>2, <3>3, Leaving DEF WindowInv
    <3>4. CASE BeforeAdvice(t)
      <4>1. /\ pc'[t] = "advised" /\ cur'[t] = NoId
            /\ window'[t] = [ids |-> Registered, on |-> enabled]
            /\ \A s \in Threads \ {t} :
                 pc'[s] = pc[s] /\ cur'[s] = cur[s] /\ window'[s] = window[s]
        BY <3>4 DEF BeforeAdvice, Goto, HitsInv, CallsInv, TypeOK,
                    InjectorTypeOK
      <4> QED
        BY <3>1, <3>2, <4>1 DEF WindowInv
    <3>5. ASSUME NEW i \in Matching(call[t].target, call[t].arg),
                 pc[t] = "enabled", pc' = [pc EXCEPT ![t] = "matched"],
                 cur' = [cur EXCEPT ![t] = i], UNCHANGED window
          PROVE  WindowInv'
      <4>1. i \in Registered
        BY DEF Matching, Compared, ByTarget
      <4>2. /\ pc'[t] = "matched" /\ cur'[t] = i
            /\ \A s \in Threads \ {t} : pc'[s] = pc[s] /\ cur'[s] = cur[s]
        BY <3>5 DEF TypeOK, InjectorTypeOK
      <4> QED
        BY <3>1, <3>2, <3>5, <4>1, <4>2 DEF WindowInv
    <3>6. ASSUME NEW to \in {"enabled", "counted", "running", "failed"},
                 \/ pc[t] = "advised" /\ enabled
                 \/ pc[t] \notin {"outside", "advised"},
                 pc' = [pc EXCEPT ![t] = to], UNCHANGED <<cur, window>>
          PROVE  WindowInv'
      <4>1. pc'[t] = to /\ \A s \in Threads \ {t} : pc'[s] = pc[s]
        BY <3>6 DEF TypeOK, InjectorTypeOK
      <4> QED
        BY <3>1, <3>2, <3>6, <4>1 DEF WindowInv
    <3> QED
      BY <2>1, <3>3, <3>4, <3>5, <3>6, ThreadMoves
  <2>2. ASSUME NEW u \in Uids, NEW m \in Models, Create(u, m)
        PROVE  WindowInv'
    <3>1. PICK n \in Ids :
            /\ Registered' = Registered \cup {n}
            /\ window' = [t \in Threads |->
                            IF pc[t] = "outside" THEN window[t]
                            ELSE [window[t] EXCEPT !.ids = @ \cup {n}]]
            /\ UNCHANGED <<enabled, callVars>>
      BY <2>2, CreateFrame
    <3>2. \A t \in Threads :
            /\ window'[t].on = window[t].on
            /\ window[t].ids \subseteq window'[t].ids
            /\ pc[t] # "outside" => n \in window'[t].ids
      BY <3>1 DEF TypeOK, InjectorTypeOK, Window
    <3> QED
      BY <3>1, <3>2 DEF WindowInv, callVars
  <2>3. ASSUME NEW b \in BOOLEAN, SetEnabled(b)
        PROVE  WindowInv'
    <3>1. /\ enabled' = b /\ UNCHANGED <<registryVars, callVars>>
          /\ window' = [t \in Threads |->
                [window[t] EXCEPT !.on = @ \/ (b /\ pc[t] # "outside")]]
      BY <2>3 DEF SetEnabled
    <3>2. \A t \in Threads :
            /\ window'[t].ids = window[t].ids
            /\ window[t].on => window'[t].on
            /\ b /\ pc[t] # "outside" => window'[t].on
      BY <3>1 DEF TypeOK, InjectorTypeOK, Window
    <3> QED
      BY <3>1, <3>2 DEF WindowInv, Registered, registryVars, callVars
  <2>4. CASE UNCHANGED vars
    BY <2>4 DEF vars, registryVars, callVars, WindowInv, Registered
  <2>5. CASE /\ ~\E t \in Threads : ThreadStep(t)
             /\ ~\E u \in Uids, m \in Models : Create(u, m)
             /\ ~\E b \in BOOLEAN : SetEnabled(b)
             /\ Next
    <3>1. /\ UNCHANGED <<enabled, callVars, window>>
          /\ Registered' \subseteq Registered
      BY <2>5, ControlFrame DEF Next, ThreadNext, SwitchNext
    <3> QED
      BY <3>1 DEF WindowInv, callVars
  <2> QED
    BY <2>1, <2>2, <2>3, <2>4, <2>5
<1> QED
  BY <1>1, <1>2, TypeCorrect, HitsCorrect, PTL DEF Spec

(* The invariant the agent_rules run checks is what the proofs rest on:    *)
(* accounting, life cycle and windows hold together in every reachable     *)
(* state.                                                                  *)
THEOREM InductiveCorrect == Spec => []Inductive
<1>1. LifeInv => StageInv
  BY DEF LifeInv
<1>2. HitsInv /\ StageInv /\ WindowInv => Inductive
  BY DEF Inductive
<1> QED
  BY <1>1, <1>2, HitsCorrect, LifeCorrect, WindowCorrect, PTL

(* A fault is always within the budget: the hit that pays for it has been  *)
(* counted, and the count is within the limit.                             *)
LEMMA FaultPaidFor ==
  ASSUME TypeOK, HitsInv, NEW t \in Threads, pc[t] = "running"
  PROVE  /\ cur[t] \in Created /\ cur[t] \in Ids
         /\ \/ BudgetOf(model[cur[t]]) = Absent
            \/ effects[cur[t]] < BudgetOf(model[cur[t]])
<1> DEFINE c == cur[t]
<1>1. c \in Created /\ c \in Ids /\ ~Unparsable(model[c])
  BY MetricType DEF HitsInv, CallsInv, TypeOK, InjectorTypeOK, NoId
<1>2. model[c] \in Model
  BY <1>1, ModelsAssumption DEF HitsInv, MetricsInv
<1>3. CASE model[c].effectCount \in Nat
  <2>1. HoldsHit(t, c)
    BY DEF HoldsHit
  <2>2. count[c] >= effects[c] + 1
    BY <1>1, <2>1, HoldsCounted
  <2>3. count[c] <= model[c].effectCount
    BY <1>1, <1>3 DEF HitsInv, LimitRespected
  <2>4. effects[c] < model[c].effectCount
    BY <1>1, <1>3, <2>2, <2>3 DEF TypeOK, RegistryTypeOK, InjectorTypeOK
  <2> QED
    BY <1>1, <2>4 DEF BudgetOf
<1>4. CASE model[c].effectCount = Absent
  BY <1>1, <1>4 DEF BudgetOf
<1> QED
  BY <1>1, <1>2, <1>3, <1>4 DEF Model, Unparsable

(* What FaultPlan sees of the calls, of the experiments and of the switch. *)
PlanCalling == { t \in Threads : pc[t] # "outside" }
PlanSeen == [t \in Threads |-> window[t].ids]
PlanArmed == [t \in Threads |-> window[t].on]
PlanBudget == [i \in Ids |-> IF i <= created THEN BudgetOf(model[i]) ELSE 0]

(* A thread that leaves ends its call in FaultPlan.                        *)
LEMMA LeaveEnds ==
  ASSUME TypeOK, NEW t \in Threads, Leave(t), pc[t] # "outside"
  PROVE  /\ t \in PlanCalling
         /\ PlanCalling' = PlanCalling \ {t}
         /\ PlanSeen' = [PlanSeen EXCEPT ![t] = {}]
         /\ PlanArmed' = [PlanArmed EXCEPT ![t] = FALSE]
<1>1. t \in PlanCalling /\ PlanCalling' = PlanCalling \ {t}
  BY Leaving DEF PlanCalling
<1>2. /\ window'[t] = [ids |-> {}, on |-> FALSE]
      /\ \A s \in Threads \ {t} : window'[s] = window[s]
  BY Leaving
<1>3. \A s \in Threads :
        /\ window'[s].ids = IF s = t THEN {} ELSE window[s].ids
        /\ window'[s].on = IF s = t THEN FALSE ELSE window[s].on
  <2>1. window'[t].ids = {} /\ window'[t].on = FALSE
    BY <1>2
  <2> SUFFICES ASSUME NEW s \in Threads
               PROVE  /\ window'[s].ids = IF s = t THEN {} ELSE window[s].ids
                      /\ window'[s].on = IF s = t THEN FALSE ELSE window[s].on
    OBVIOUS
  <2>2. CASE s = t
    BY <2>1, <2>2
  <2>3. CASE s # t
    BY <1>2, <2>3
  <2> QED
    BY <2>2, <2>3
<1>4. PlanSeen' = [PlanSeen EXCEPT ![t] = {}]
  <2>1. PlanSeen' = [s \in Threads |-> IF s = t THEN {} ELSE window[s].ids]
    BY <1>3 DEF PlanSeen
  <2> QED
    BY <2>1 DEF PlanSeen
<1>5. PlanArmed' = [PlanArmed EXCEPT ![t] = FALSE]
  <2>1. PlanArmed' = [s \in Threads |-> IF s = t THEN FALSE ELSE window[s].on]
    BY <1>3 DEF PlanArmed
  <2> QED
    BY <2>1 DEF PlanArmed
<1> QED
  BY <1>1, <1>4, <1>5

(* A thread step is a step of FaultPlan's caller, or invisible to it.      *)
LEMMA ThreadImplements ==
  ASSUME TypeOK, HitsInv, WindowInv, NEW t \in Threads, ThreadStep(t)
  PROVE  Plan!PlanNext \/ UNCHANGED Plan!planVars
<1> USE DEF PlanCalling, PlanSeen, PlanArmed, PlanBudget
<1>1. UNCHANGED <<registryVars, enabled, specs>>
  BY ThreadFrame
<1>2. /\ Created' = Created /\ Registered' = Registered
      /\ PlanBudget' = PlanBudget /\ enabled' = enabled
  BY <1>1 DEF Created, Registered, registryVars, BudgetOf, Unparsable
<1>3. CASE Leave(t) /\ pc[t] # "outside" /\ effects' = effects
  <2>1. Plan!Unharmed(t)
    BY <1>2, <1>3, LeaveEnds DEF Plan!Unharmed, Plan!End
  <2> QED
    BY <2>1 DEF Plan!PlanNext
<1>4. CASE Execute(t)
  <2>1. pc[t] = "running" /\ Leave(t)
        /\ effects' = [effects EXCEPT ![cur[t]] = @ + 1]
    BY <1>4 DEF Execute
  <2>2. /\ cur[t] \in Ids /\ PlanArmed[t] /\ cur[t] \in PlanSeen[t]
        /\ PlanBudget[cur[t]] = Absent \/ effects[cur[t]] < PlanBudget[cur[t]]
    <3>1. cur[t] # NoId /\ cur[t] <= created
      BY <2>1 DEF HitsInv, CallsInv
    <3> QED
      BY <2>1, <3>1, FaultPaidFor DEF WindowInv
  <2>3. Plan!Fault(t, cur[t])
    BY <1>2, <2>1, <2>2, LeaveEnds DEF Plan!Fault, Plan!End
  <2> QED
    BY <2>2, <2>3 DEF Plan!PlanNext
<1>5. CASE BeforeAdvice(t)
  <2>1. /\ pc[t] = "outside" /\ pc' = [pc EXCEPT ![t] = "advised"]
        /\ window' = [window EXCEPT ![t] = [ids |-> Registered, on |-> enabled]]
        /\ UNCHANGED effects
    BY <1>5 DEF BeforeAdvice, Goto
  <2>2. /\ t \notin PlanCalling
        /\ PlanCalling' = PlanCalling \cup {t}
        /\ PlanSeen' = [PlanSeen EXCEPT ![t] = Registered]
        /\ PlanArmed' = [PlanArmed EXCEPT ![t] = enabled]
    BY <2>1 DEF TypeOK, InjectorTypeOK
  <2>3. Plan!Begin(t)
    BY <1>2, <2>1, <2>2 DEF Plan!Begin
  <2> QED
    BY <2>3 DEF Plan!PlanNext
<1>6. ASSUME NEW to \in PCs \ {"outside"}, pc[t] # "outside",
             pc' = [pc EXCEPT ![t] = to], UNCHANGED <<window, effects>>
      PROVE  UNCHANGED Plan!planVars
  <2>1. PlanCalling' = PlanCalling
    BY <1>6 DEF TypeOK, InjectorTypeOK
  <2> QED
    BY <1>2, <1>6, <2>1 DEF Plan!planVars
<1> QED
  BY <1>3, <1>4, <1>5, <1>6, ThreadMoves DEF PCs

(* A create activates an experiment with the budget of its model.          *)
LEMMA CreateImplements ==
  ASSUME TypeOK, HitsInv, NEW u \in Uids, NEW m \in Models, Create(u, m)
  PROVE  Plan!PlanNext
<1> USE DEF PlanCalling, PlanSeen, PlanArmed, PlanBudget
<1>1. PICK n \in Ids :
        /\ n = created + 1 /\ created' = n
        /\ Registered' = Registered \cup {n}
        /\ model' = [model EXCEPT ![n] = m]
        /\ \A i \in Created : i < n /\ model'[i] = model[i]
        /\ window' = [t \in Threads |->
                        IF pc[t] = "outside" THEN window[t]
                        ELSE [window[t] EXCEPT !.ids = @ \cup {n}]]
        /\ UNCHANGED <<count, enabled, specs, callVars, effects, leaked>>
  BY CreateFrame
<1>2. Created' = Created \cup {n} /\ n \notin Created
  BY <1>1, MetricType DEF Created, TypeOK
<1>3. PlanBudget' = [PlanBudget EXCEPT ![n] = BudgetOf(m)]
  <2>1. model'[n] = m /\ n <= created'
    BY <1>1, MetricType DEF TypeOK, RegistryTypeOK
  <2>2. \A i \in Ids \ {n} : /\ i <= created' <=> i <= created
                             /\ i <= created => model'[i] = model[i]
    BY <1>1, MetricType DEF TypeOK, RegistryTypeOK, Ids
  <2>3. \A i \in Ids : PlanBudget'[i] = [PlanBudget EXCEPT ![n] = BudgetOf(m)][i]
    BY <2>1, <2>2 DEF BudgetOf, Unparsable
  <2> QED
    BY <2>3
<1>4. PlanSeen' = [t \in Threads |-> IF t \in PlanCalling
                                     THEN PlanSeen[t] \cup {n}
                                     ELSE PlanSeen[t]]
  BY <1>1 DEF TypeOK, InjectorTypeOK, Window
<1>5. PlanArmed' = PlanArmed /\ PlanCalling' = PlanCalling
  BY <1>1 DEF TypeOK, InjectorTypeOK, Window, callVars
<1>6. Plan!Activate(n, BudgetOf(m))
  BY <1>1, <1>2, <1>3, <1>4, <1>5 DEF Plan!Activate
<1> QED
  BY <1>6 DEF Plan!PlanNext

(* The agent implements the fault plan: every call suffers at most one     *)
(* fault, from an experiment in force during that call, with the switch    *)
(* on during that call, and no experiment exceeds its budget.              *)
THEOREM Refinement == Spec => ImplementsPlan
<1>1. Init => Plan!PlanInit
  <2> SUFFICES ASSUME Init
               PROVE  Plan!PlanInit
    OBVIOUS
  <2>1. Created = {} /\ Registered = {}
    BY DEF Init, RegistryInit, Created, Registered
  <2>2. \A i \in Ids : ~(i <= created)
    BY DEF Init, RegistryInit, Ids
  <2> QED
    BY <2>1, <2>2 DEF Init, RegistryInit, InjectorInit, Plan!PlanInit
<1>2. TypeOK /\ HitsInv /\ WindowInv /\ [Next]_vars
        => [Plan!PlanNext]_(Plan!planVars)
  <2> SUFFICES ASSUME TypeOK, HitsInv, WindowInv, [Next]_vars
               PROVE  Plan!PlanNext \/ UNCHANGED Plan!planVars
    OBVIOUS
  <2>1. ASSUME NEW t \in Threads, ThreadStep(t)
        PROVE  Plan!PlanNext \/ UNCHANGED Plan!planVars
    BY <2>1, ThreadImplements
  <2>2. ASSUME NEW u \in Uids, NEW m \in Models, Create(u, m)
        PROVE  Plan!PlanNext
    BY <2>2, CreateImplements
  <2>3. ASSUME NEW b \in BOOLEAN, SetEnabled(b)
        PROVE  Plan!PlanNext
    <3>1. /\ enabled' = b /\ UNCHANGED <<registryVars, callVars, effects>>
          /\ window' = [t \in Threads |->
                [window[t] EXCEPT !.on = @ \/ (b /\ pc[t] # "outside")]]
      BY <2>3 DEF SetEnabled
    <3>2. /\ PlanSeen' = PlanSeen
          /\ PlanArmed' = [t \in Threads |->
                              PlanArmed[t] \/ (b /\ t \in PlanCalling)]
          /\ PlanCalling' = PlanCalling
      BY <3>1 DEF PlanSeen, PlanArmed, PlanCalling, TypeOK, InjectorTypeOK,
                  Window, callVars
    <3>3. /\ Created' = Created /\ Registered' = Registered
          /\ PlanBudget' = PlanBudget
      BY <3>1 DEF Created, Registered, PlanBudget, BudgetOf, Unparsable,
                  registryVars
    <3>4. Plan!Turn(b)
      BY <3>1, <3>2, <3>3 DEF Plan!Turn, PlanSeen, PlanArmed, PlanCalling,
                              PlanBudget
    <3> QED
      BY <3>4 DEF Plan!PlanNext
  <2>4. CASE UNCHANGED vars
    BY <2>4 DEF vars, registryVars, callVars, Created, Registered, BudgetOf,
                Unparsable, Plan!planVars
  <2>5. CASE /\ ~\E t \in Threads : ThreadStep(t)
             /\ ~\E u \in Uids, m \in Models : Create(u, m)
             /\ ~\E b \in BOOLEAN : SetEnabled(b)
             /\ Next
    <3>1. /\ UNCHANGED <<created, model, enabled, callVars, effects, window>>
          /\ Registered' \subseteq Registered
      BY <2>5, ControlFrame DEF Next, ThreadNext, SwitchNext
    <3>2. Registered \subseteq Ids
      BY MetricType DEF TypeOK
    <3>3. Registered' = Registered \ (Registered \ Registered')
      BY <3>1
    <3>4. Plan!Deactivate(Registered \ Registered')
      BY <3>1, <3>3 DEF Plan!Deactivate, Created, BudgetOf, Unparsable,
                        callVars
    <3> QED
      BY <3>2, <3>4 DEF Plan!PlanNext
  <2> QED
    BY <2>1, <2>2, <2>3, <2>4, <2>5
<1> QED
  BY <1>1, <1>2, TypeCorrect, HitsCorrect, WindowCorrect, PTL
     DEF Spec, ImplementsPlan, Plan!PlanSpec
=============================================================================
