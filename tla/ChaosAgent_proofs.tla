------------------------- MODULE ChaosAgent_proofs --------------------------
(***************************************************************************)
(* Theorems about ChaosAgent, for any number of threads, uids, targets,    *)
(* models and registrations.                                               *)
(***************************************************************************)
EXTENDS ChaosAgent, FiniteSetTheorems, TLAPS

(***************************************************************************)
(* Counters and metrics.                                                   *)
(***************************************************************************)

(* Incrementing and decrementing a counter keeps a family of counters.     *)
LEMMA CounterType ==
  ASSUME NEW f \in [Ids -> Nat], NEW i
  PROVE  /\ [f EXCEPT ![i] = @ + 1] \in [Ids -> Nat]
         /\ [f EXCEPT ![i] = IF @ > 0 THEN @ - 1 ELSE 0] \in [Ids -> Nat]
<1>1. \A j \in Ids : f[j] \in Nat
  OBVIOUS
<1>2. \A n \in Nat : n + 1 \in Nat /\ (IF n > 0 THEN n - 1 ELSE 0) \in Nat
  OBVIOUS
<1>3. CASE i \in Ids
  BY <1>1, <1>2, <1>3
<1>4. CASE i \notin Ids
  BY <1>4
<1> QED
  BY <1>3, <1>4

(* The registry holds metrics only, and a new one is a metric.             *)
LEMMA MetricType ==
  ASSUME RegistryTypeOK
  PROVE  /\ Registered \subseteq Ids
         /\ created < MaxRegistrations => created + 1 \in Ids
         /\ NoId \notin Ids /\ created \in Nat
         /\ Created \subseteq Ids
         /\ \A i \in Ids : i \in Created <=> i <= created
BY BoundAssumption DEF RegistryTypeOK, Registered, Ids, NoId, Created

(* The part of the type invariant that speaks of the calls in progress.    *)
CallsTypeOK ==
    /\ pc \in [Threads -> PCs]
    /\ call \in [Threads -> Call \cup {NoCall}]
    /\ cur \in [Threads -> Ids \cup {NoId}]
    /\ window \in [Threads -> Window]

(* A call that leaves the agent keeps it.                                  *)
LEMMA LeaveType ==
  ASSUME CallsTypeOK, NEW t \in Threads, Leave(t)
  PROVE  CallsTypeOK'
BY DEF CallsTypeOK, Leave, Goto, PCs, Window

-----------------------------------------------------------------------------
(* Every variable keeps its type, whatever the actors do.                  *)
THEOREM TypeCorrect == Spec => []TypeOK
<1> USE DEF TypeOK, RegistryTypeOK, InjectorTypeOK, AgentTypeOK, Window,
        CallsTypeOK,
        registryVars, callVars, PCs, Stages, Phases
<1>1. Init => TypeOK
  BY DEF NoId, Init, RegistryInit, InjectorInit
<1>2. TypeOK /\ [Next]_vars => TypeOK'
  <2> SUFFICES ASSUME TypeOK, [Next]_vars
               PROVE  TypeOK'
    OBVIOUS
  <2>1. ASSUME NEW t \in Threads, BeforeAdvice(t), UNCHANGED <<main, request, todo>>
         PROVE  TypeOK'
    BY <2>1, MetricType DEF BeforeAdvice, Goto
  <2>2. ASSUME NEW t \in Threads, Bypass(t), UNCHANGED <<main, request, todo>>
         PROVE  TypeOK'
    BY <2>2 DEF Bypass, Leave, Goto
  <2>3. ASSUME NEW t \in Threads, CheckEnabled(t), UNCHANGED <<main, request, todo>>
         PROVE  TypeOK'
    BY <2>3 DEF CheckEnabled, Goto
  <2>4. ASSUME NEW t \in Threads, MatchFirst(t), UNCHANGED <<main, request, todo>>
         PROVE  TypeOK'
    <3>1. Matching(call[t].target, call[t].arg) \subseteq Ids
      BY MetricType DEF Matching, Compared, ByTarget
    <3>2. CallsTypeOK'
      <4>1. CASE Leave(t)
        BY <4>1, LeaveType
      <4>2. ASSUME NEW i \in Ids, cur' = [cur EXCEPT ![t] = i],
                   Goto(t, "matched"), UNCHANGED <<call, window>>
            PROVE  CallsTypeOK'
        BY <4>2 DEF Goto
      <4> QED
        BY <2>4, <3>1, <4>1, <4>2 DEF MatchFirst
    <3> QED
      BY <2>4, <3>2 DEF MatchFirst
  <2>5. ASSUME NEW t \in Threads, Limited(t), UNCHANGED <<main, request, todo>>
         PROVE  TypeOK'
    BY <2>5 DEF Limited, Leave, Goto
  <2>6. ASSUME NEW t \in Threads, LimitAndIncrease(t), UNCHANGED <<main, request, todo>>
         PROVE  TypeOK'
    BY <2>6, CounterType DEF LimitAndIncrease, Goto, IncreaseBelow, Increase
  <2>7. ASSUME NEW t \in Threads, LimitUnparsable(t), UNCHANGED <<main, request, todo>>
         PROVE  TypeOK'
    BY <2>7 DEF LimitUnparsable, Goto
  <2>8. ASSUME NEW t \in Threads, LookupSpec(t), UNCHANGED <<main, request, todo>>
         PROVE  TypeOK'
    <3>1. leaked' \in [Ids -> Nat]
      BY <2>8, CounterType DEF LookupSpec
    <3>2. CallsTypeOK'
      <4>1. CASE Leave(t)
        BY <4>1, LeaveType
      <4>2. CASE Goto(t, "running") /\ UNCHANGED <<call, cur, leaked, window>>
        BY <4>2 DEF Goto
      <4> QED
        BY <2>8, <4>1, <4>2 DEF LookupSpec
    <3> QED
      BY <2>8, <3>1, <3>2 DEF LookupSpec
  <2>9. ASSUME NEW t \in Threads, Execute(t), UNCHANGED <<main, request, todo>>
         PROVE  TypeOK'
    BY <2>9, CounterType DEF Execute, Goto, Leave
  <2>10. ASSUME NEW t \in Threads, ExecuteFails(t), UNCHANGED <<main, request, todo>>
         PROVE  TypeOK'
    BY <2>10 DEF ExecuteFails, Goto
  <2>11. ASSUME NEW t \in Threads, Rollback(t), UNCHANGED <<main, request, todo>>
         PROVE  TypeOK'
    BY <2>11, CounterType DEF Rollback, Goto, Leave, Decrease
  <2>12. ASSUME NEW b \in BOOLEAN, SetEnabled(b), UNCHANGED <<main, request, todo>>
          PROVE  TypeOK'
    BY <2>12 DEF SetEnabled
  <2>13. ASSUME NEW u \in Uids, NEW m \in Models, Create(u, m)
          PROVE  TypeOK'
    BY <2>13, MetricType DEF Create, RegisterExp
  <2>14. ASSUME NEW u \in Uids, DestroyByUid(u)
          PROVE  TypeOK'
    BY <2>14 DEF DestroyByUid, RemoveExp, HandlerOnly
  <2>15. ASSUME NEW target \in Targets, NEW action \in Actions,
                 DestroyByTarget(target, action)
          PROVE  TypeOK'
    BY <2>15 DEF DestroyByTarget, UidsOf, HandlerOnly
  <2>16. CASE Prepare
    BY <2>16 DEF Prepare, HandlerOnly
  <2>17. CASE PrepareFails
    BY <2>17 DEF PrepareFails, HandlerOnly
  <2>18. CASE UndoCreate
    BY <2>18 DEF UndoCreate, RemoveExp, HandlerOnly
  <2>19. CASE SweepOne
    BY <2>19 DEF SweepOne, RemoveExp, HandlerOnly
  <2>20. ASSUME NEW target \in Targets, LoadPlugin(target)
          PROVE  TypeOK'
    BY <2>20 DEF LoadPlugin, MainOnly
  <2>21. CASE Start
    BY <2>21 DEF Start, Advance, MainOnly
  <2>22. CASE Serve
    BY <2>22 DEF Serve, Advance, MainOnly
  <2>23. CASE StartFails
    BY <2>23 DEF StartFails, Advance, MainOnly
  <2>24. CASE Shutdown
    BY <2>24 DEF Shutdown, Advance, MainOnly
  <2>25. CASE Drained
    BY <2>25 DEF Drained, Advance, MainOnly
  <2>26. CASE UnloadStatus
    BY <2>26 DEF UnloadStatus, Advance, MainOnly, ClearExperiments
  <2>27. CASE UnloadSpecs
    BY <2>27 DEF UnloadSpecs, Advance, MainOnly
  <2>28. CASE UNCHANGED vars
    BY <2>28 DEF vars
  <2> QED
    BY <2>1, <2>2, <2>3, <2>4, <2>5, <2>6, <2>7, <2>8, <2>9, <2>10, <2>11, <2>12, <2>13, <2>14, <2>15, <2>16, <2>17, <2>18, <2>19, <2>20, <2>21, <2>22, <2>23, <2>24, <2>25, <2>26, <2>27, <2>28
       DEF Next, ThreadNext, ThreadStep, SwitchNext, HandlerStep, StopStep
<1> QED
  BY <1>1, <1>2, PTL DEF Spec

-----------------------------------------------------------------------------
(***************************************************************************)
(* The accounting of hits.                                                 *)
(***************************************************************************)

(* A step of one thread changes who holds a hit on i by that thread only.  *)
LEMMA HoldersMove ==
  ASSUME NEW t \in Threads, NEW i,
         \A s \in Threads \ {t} : pc'[s] = pc[s] /\ cur'[s] = cur[s],
         model' = model
  PROVE  /\ Cardinality(Holders(i)) \in Nat
         /\ Cardinality(Holders(i)') \in Nat
         /\ (HoldsHit(t, i) <=> HoldsHit(t, i)')
              => Cardinality(Holders(i)') = Cardinality(Holders(i))
         /\ ~HoldsHit(t, i) /\ HoldsHit(t, i)'
              => Cardinality(Holders(i)') = Cardinality(Holders(i)) + 1
         /\ HoldsHit(t, i) /\ ~HoldsHit(t, i)'
              => Cardinality(Holders(i)) = Cardinality(Holders(i)') + 1
<1>1. \A s \in Threads \ {t} : HoldsHit(s, i) <=> HoldsHit(s, i)'
  BY DEF HoldsHit
<1>2. IsFiniteSet(Holders(i)) /\ IsFiniteSet(Holders(i)')
  BY ThreadsAssumption, FS_Subset DEF Holders
<1>3. Cardinality(Holders(i)) \in Nat /\ Cardinality(Holders(i)') \in Nat
  BY <1>2, FS_CardinalityType
<1>4. (HoldsHit(t, i) <=> HoldsHit(t, i)') => Holders(i)' = Holders(i)
  BY <1>1 DEF Holders
<1>5. ASSUME ~HoldsHit(t, i), HoldsHit(t, i)'
      PROVE  Cardinality(Holders(i)') = Cardinality(Holders(i)) + 1
  <2>1. Holders(i)' = Holders(i) \cup {t} /\ t \notin Holders(i)
    BY <1>1, <1>5 DEF Holders
  <2> QED
    BY <2>1, <1>2, FS_AddElement
<1>6. ASSUME HoldsHit(t, i), ~HoldsHit(t, i)'
      PROVE  Cardinality(Holders(i)) = Cardinality(Holders(i)') + 1
  <2>1. Holders(i) = Holders(i)' \cup {t} /\ t \notin Holders(i)'
    BY <1>1, <1>6 DEF Holders
  <2> QED
    BY <2>1, <1>2, FS_AddElement
<1> QED
  BY <1>3, <1>4, <1>5, <1>6

(* A thread that moves without touching a counter or the registry, and     *)
(* holds what it held before.                                              *)
LEMMA QuietMove ==
  ASSUME TypeOK, HitsInv, NEW t \in Threads,
         UNCHANGED <<registryVars, count, effects, leaked>>,
         \A s \in Threads \ {t} : pc'[s] = pc[s] /\ cur'[s] = cur[s],
         cur'[t] # NoId
            <=> pc'[t] \in {"matched", "counted", "running", "failed"},
         cur'[t] <= created,
         pc'[t] \in {"counted", "running"} => ~Unparsable(model[cur'[t]]),
         \A i \in Ids : HoldsHit(t, i) <=> HoldsHit(t, i)'
  PROVE  HitsInv'
<1> USE DEF HitsInv, registryVars
<1>1. CallsInv'
  BY DEF CallsInv, Unparsable
<1>2. MetricsInv'
  BY DEF MetricsInv, Created
<1>3. HitsAccountedFor'
  <2> SUFFICES ASSUME NEW i \in Created
               PROVE  count[i] = effects[i] + leaked[i]
                                    + Cardinality(Holders(i)')
    BY DEF HitsAccountedFor, Created
  <2>1. i \in Ids
    BY MetricType DEF TypeOK
  <2>2. Cardinality(Holders(i)') = Cardinality(Holders(i))
    BY <2>1, HoldersMove
  <2> QED
    BY <2>2 DEF HitsAccountedFor
<1>4. LimitRespected'
  BY DEF LimitRespected, Created
<1> QED
  BY <1>1, <1>2, <1>3, <1>4

(* A thread that moves and touches the counters of its own metric only.    *)
LEMMA CountingMove ==
  ASSUME TypeOK, TypeOK', HitsInv, NEW t \in Threads, NEW c \in Created,
         UNCHANGED registryVars,
         \A s \in Threads \ {t} : pc'[s] = pc[s] /\ cur'[s] = cur[s],
         cur'[t] # NoId
            <=> pc'[t] \in {"matched", "counted", "running", "failed"},
         cur'[t] <= created,
         pc'[t] \in {"counted", "running"} => ~Unparsable(model[cur'[t]]),
         \A j \in Ids \ {c} :
            /\ count'[j] = count[j] /\ effects'[j] = effects[j]
            /\ leaked'[j] = leaked[j]
            /\ HoldsHit(t, j) <=> HoldsHit(t, j)',
         count'[c] = effects'[c] + leaked'[c] + Cardinality(Holders(c)'),
         Unparsable(model[c]) => count'[c] = 0,
         model[c].effectCount \in Nat => count'[c] <= model[c].effectCount
  PROVE  HitsInv'
<1> USE DEF HitsInv, registryVars
<1>1. CallsInv'
  BY DEF CallsInv, Unparsable
<1>2. c \in Ids /\ Created \subseteq Ids /\ c <= created
  BY MetricType DEF TypeOK
<1>3. MetricsInv'
  <2>1. \A i \in Ids : i > created => i # c
    BY <1>2, MetricType, BoundAssumption DEF TypeOK, Ids
  <2>2. \A i \in Ids : i > created => count'[i] = 0 /\ effects'[i] = 0
                                                    /\ leaked'[i] = 0
    BY <2>1 DEF MetricsInv
  <2>3. \A i \in Created : Unparsable(model[i]) => count'[i] = 0
    BY <1>2 DEF MetricsInv
  <2> QED
    BY <2>2, <2>3 DEF MetricsInv, Created, Unparsable
<1>4. HitsAccountedFor'
  <2> SUFFICES ASSUME NEW i \in Created
               PROVE  count'[i] = effects'[i] + leaked'[i]
                                    + Cardinality(Holders(i)')
    BY DEF HitsAccountedFor, Created
  <2>1. CASE i = c
    BY <2>1
  <2>2. CASE i # c
    <3>1. i \in Ids \ {c}
      BY <1>2, <2>2
    <3>2. Cardinality(Holders(i)') = Cardinality(Holders(i))
      BY <3>1, HoldersMove
    <3> QED
      BY <3>1, <3>2 DEF HitsAccountedFor
  <2> QED
    BY <2>1, <2>2
<1>5. LimitRespected'
  BY <1>2 DEF LimitRespected, Created
<1> QED
  BY <1>1, <1>3, <1>4, <1>5

(* A metric some thread holds a hit on has that hit counted.               *)
LEMMA HoldsCounted ==
  ASSUME TypeOK, HitsInv, NEW t \in Threads, NEW c \in Created, HoldsHit(t, c)
  PROVE  /\ count[c] > 0
         /\ count[c] >= effects[c] + 1
<1>1. Cardinality(Holders(c)) \in Nat /\ Cardinality(Holders(c)) # 0
  <2>1. IsFiniteSet(Holders(c)) /\ t \in Holders(c)
    BY ThreadsAssumption, FS_Subset DEF Holders
  <2> QED
    BY <2>1, FS_CardinalityType, FS_EmptySet
<1>2. c \in Ids
  BY MetricType DEF TypeOK
<1>3. count[c] = effects[c] + leaked[c] + Cardinality(Holders(c))
  BY DEF HitsInv, HitsAccountedFor
<1> QED
  BY <1>1, <1>2, <1>3 DEF TypeOK, RegistryTypeOK, InjectorTypeOK

(* One hit fewer is held, and the rest of the account makes up for it: the *)
(* balance of one metric's hits before a step gives the balance after it.  *)
LEMMA HitsBalance ==
  ASSUME NEW e \in Nat, NEW l \in Nat, NEW n \in Nat, NEW h \in Nat,
         NEW e1 \in Nat, NEW l1 \in Nat, NEW n1 \in Nat, NEW h1 \in Nat,
         n = e + l + h, h = h1 + 1, e1 + l1 + n = e + l + n1 + 1
  PROVE  n1 = e1 + l1 + h1
<1>1. e1 + l1 + (e + l + h1 + 1) = e + l + n1 + 1
  OBVIOUS
<1> QED
  BY <1>1

(* A call that leaves and gives up the hit it holds: it has become a       *)
(* fault, a leak, or is no longer counted.                                 *)
LEMMA ReleaseMove ==
  ASSUME TypeOK, TypeOK', HitsInv, NEW t \in Threads, NEW c \in Created,
         Leave(t), HoldsHit(t, c), UNCHANGED registryVars,
         \A j \in Ids \ {c} : /\ count'[j] = count[j]
                              /\ effects'[j] = effects[j]
                              /\ leaked'[j] = leaked[j],
         count'[c] <= count[c],
         effects'[c] + leaked'[c] + count[c]
            = effects[c] + leaked[c] + count'[c] + 1
  PROVE  HitsInv'
<1>1. /\ \A s \in Threads \ {t} : pc'[s] = pc[s] /\ cur'[s] = cur[s]
      /\ pc'[t] = "outside" /\ cur'[t] = NoId
  BY DEF Leave, Goto, TypeOK, InjectorTypeOK
<1>2. NoId <= created /\ c \in Ids
  BY MetricType DEF TypeOK, NoId
<1>3. ~HoldsHit(t, c)' /\ \A j \in Ids \ {c} : ~HoldsHit(t, j)
                                            /\ ~HoldsHit(t, j)'
  BY <1>1 DEF HoldsHit
<1>4. /\ Cardinality(Holders(c)) = Cardinality(Holders(c)') + 1
      /\ Cardinality(Holders(c)') \in Nat
  BY <1>1, <1>3, HoldersMove DEF registryVars
<1>5. /\ count[c] \in Nat /\ effects[c] \in Nat /\ leaked[c] \in Nat
      /\ count'[c] \in Nat /\ effects'[c] \in Nat /\ leaked'[c] \in Nat
  BY <1>2 DEF TypeOK, RegistryTypeOK, InjectorTypeOK
<1>6. count[c] = effects[c] + leaked[c] + Cardinality(Holders(c))
  BY DEF HitsInv, HitsAccountedFor
<1>7. count'[c] = effects'[c] + leaked'[c] + Cardinality(Holders(c)')
  <2>1. Cardinality(Holders(c)) \in Nat
    BY <1>4
  <2> HIDE DEF HoldsHit
  <2> QED
    BY <1>4, <1>5, <1>6, <2>1, HitsBalance
<1>8. ~Unparsable(model[c])
  BY DEF HoldsHit, HitsInv, CallsInv
<1>9. model[c].effectCount \in Nat => count'[c] <= model[c].effectCount
  BY <1>5 DEF HitsInv, LimitRespected
<1> QED
  BY <1>1, <1>2, <1>3, <1>7, <1>8, <1>9, CountingMove DEF NoId

(* A call that leaves the agent holding nothing, and counts nothing.       *)
LEMMA EmptyHanded ==
  ASSUME TypeOK, HitsInv, NEW t \in Threads, Leave(t),
         pc[t] \notin {"counted", "running", "failed"},
         UNCHANGED <<registryVars, count, effects, leaked>>
  PROVE  HitsInv'
<1>1. /\ \A s \in Threads \ {t} : pc'[s] = pc[s] /\ cur'[s] = cur[s]
      /\ pc'[t] = "outside" /\ cur'[t] = NoId
  BY DEF Leave, Goto, TypeOK, InjectorTypeOK
<1>2. \A i \in Ids : ~HoldsHit(t, i) /\ ~HoldsHit(t, i)'
  BY <1>1 DEF HoldsHit
<1>3. NoId <= created
  BY MetricType DEF TypeOK, NoId
<1> QED
  BY <1>1, <1>2, <1>3, QuietMove

(* Steps that move no thread and no counter.                               *)
LEMMA StandStill ==
  ASSUME HitsInv, UNCHANGED <<registryVars, count, effects, leaked, pc, cur>>
  PROVE  HitsInv'
BY DEF HitsInv, registryVars, CallsInv, MetricsInv, HitsAccountedFor,
       LimitRespected, Created, Holders, HoldsHit, Unparsable

(* Taking an experiment out of the registry leaves its metric alone.       *)
LEMMA Removal ==
  ASSUME TypeOK, HitsInv, NEW u, RemoveExp(u),
         UNCHANGED <<effects, leaked, callVars>>
  PROVE  HitsInv'
<1>1. MetricsInv'
  BY MetricType DEF HitsInv, MetricsInv, RemoveExp, Created, TypeOK,
                    RegistryTypeOK, NoId
<1> QED
  BY <1>1 DEF HitsInv, RemoveExp, callVars, CallsInv, HitsAccountedFor,
              LimitRespected, Created, Holders, HoldsHit, Unparsable

(* The accounting is inductive relative to the types.                      *)
LEMMA HitsInductive ==
  ASSUME TypeOK, TypeOK', HitsInv, [Next]_vars
  PROVE  HitsInv'
<1>1. ASSUME NEW t \in Threads, BeforeAdvice(t)
     PROVE  HitsInv'
  BY <1>1, QuietMove DEF BeforeAdvice, Goto, HitsInv, CallsInv, HoldsHit, registryVars,
      TypeOK, RegistryTypeOK, InjectorTypeOK
<1>2. ASSUME NEW t \in Threads, Bypass(t)
     PROVE  HitsInv'
  BY <1>2, EmptyHanded DEF Bypass
<1>3. ASSUME NEW t \in Threads, CheckEnabled(t)
     PROVE  HitsInv'
  BY <1>3, QuietMove DEF CheckEnabled, Goto, HitsInv, CallsInv, HoldsHit, registryVars,
      TypeOK, RegistryTypeOK, InjectorTypeOK
<1>4. ASSUME NEW t \in Threads, MatchFirst(t)
     PROVE  HitsInv'
  <2>1. CASE Leave(t)
    BY <1>4, <2>1, EmptyHanded DEF MatchFirst
  <2>2. ASSUME NEW i \in Matching(call[t].target, call[t].arg),
               cur' = [cur EXCEPT ![t] = i], Goto(t, "matched")
        PROVE  HitsInv'
    <3>1. i \in Ids /\ i <= created
      BY MetricType DEF Matching, Compared, ByTarget, Registered, HitsInv,
                        MetricsInv, TypeOK
    <3> QED
      BY <1>4, <2>2, <3>1, MetricType, QuietMove
         DEF MatchFirst, Goto, HoldsHit, TypeOK, InjectorTypeOK
  <2> QED
    BY <1>4, <2>1, <2>2 DEF MatchFirst
<1>5. ASSUME NEW t \in Threads, Limited(t)
     PROVE  HitsInv'
  BY <1>5, EmptyHanded DEF Limited
<1>6. ASSUME NEW t \in Threads, LimitAndIncrease(t)
     PROVE  HitsInv'
  <2> DEFINE c == cur[t]
  <2>1. pc[t] = "matched" /\ c \in Created /\ c \in Ids
    BY <1>6, MetricType DEF LimitAndIncrease, TypeOK, InjectorTypeOK, HitsInv,
                             CallsInv, NoId
  <2>2. /\ \A s \in Threads \ {t} : pc'[s] = pc[s]
        /\ pc'[t] = "counted" /\ cur' = cur
    BY <1>6 DEF LimitAndIncrease, Goto, TypeOK, InjectorTypeOK
  <2>3. /\ count' = [count EXCEPT ![c] = @ + 1]
        /\ model[c].effectCount \in Nat => count[c] < model[c].effectCount
        /\ UNCHANGED <<registryVars, effects, leaked>>
    BY <1>6, MarkAssumption DEF LimitAndIncrease, IncreaseBelow, Increase
  <2>4. ~Unparsable(model[c])
    BY <1>6, MarkAssumption DEF LimitAndIncrease, Unparsable
  <2>5. ~HoldsHit(t, c) /\ HoldsHit(t, c)'
    BY <2>1, <2>2 DEF HoldsHit
  <2>6. \A j \in Ids \ {c} : ~HoldsHit(t, j) /\ ~HoldsHit(t, j)'
    BY <2>2 DEF HoldsHit
  <2>7. Cardinality(Holders(c)') = Cardinality(Holders(c)) + 1
    BY <2>2, <2>3, <2>5, HoldersMove DEF registryVars
  <2>8. count[c] \in Nat /\ effects[c] \in Nat /\ leaked[c] \in Nat
        /\ Cardinality(Holders(c)) \in Nat
    BY <2>1, <2>2, <2>3, HoldersMove DEF TypeOK, RegistryTypeOK,
                                         InjectorTypeOK, registryVars
  <2>9. count'[c] = effects'[c] + leaked'[c] + Cardinality(Holders(c)')
    BY <2>1, <2>3, <2>7, <2>8 DEF HitsInv, HitsAccountedFor, TypeOK,
                                  RegistryTypeOK
  <2>10. model[c].effectCount \in Nat => count'[c] <= model[c].effectCount
    BY <2>1, <2>3, <2>8 DEF TypeOK, RegistryTypeOK
  <2>11. \A j \in Ids \ {c} : count'[j] = count[j]
    BY <2>3 DEF TypeOK, RegistryTypeOK
  <2> QED
    BY <2>1, <2>2, <2>3, <2>4, <2>6, <2>9, <2>10, <2>11, CountingMove, MetricType
       DEF Created, HitsInv, CallsInv
<1>7. ASSUME NEW t \in Threads, LimitUnparsable(t)
     PROVE  HitsInv'
  BY <1>7, QuietMove DEF LimitUnparsable, Goto, HitsInv, CallsInv, HoldsHit, registryVars,
      TypeOK, RegistryTypeOK, InjectorTypeOK
<1>8. ASSUME NEW t \in Threads, LookupSpec(t)
     PROVE  HitsInv'
  <2> DEFINE c == cur[t]
  <2>1. pc[t] = "counted" /\ c \in Created /\ c \in Ids
    BY <1>8, MetricType DEF LookupSpec, TypeOK, InjectorTypeOK, HitsInv,
                             CallsInv, NoId
  <2>2. CASE Goto(t, "running") /\ UNCHANGED <<call, cur, leaked, window>>
    BY <1>8, <2>1, <2>2, QuietMove
       DEF LookupSpec, Goto, HoldsHit, HitsInv, CallsInv, TypeOK,
           InjectorTypeOK, registryVars
  <2>3. CASE leaked' = [leaked EXCEPT ![c] = @ + 1] /\ Leave(t)
    <3>1. UNCHANGED <<registryVars, count, effects>>
      BY <1>8 DEF LookupSpec
    <3>2. leaked'[c] = leaked[c] + 1
          /\ \A j \in Ids \ {c} : leaked'[j] = leaked[j]
      BY <2>1, <2>3 DEF TypeOK, InjectorTypeOK
    <3>3. HoldsHit(t, c)
      BY <2>1 DEF HoldsHit
    <3>4. effects'[c] + leaked'[c] + count[c]
            = effects[c] + leaked[c] + count'[c] + 1
      BY <2>1, <3>1, <3>2 DEF TypeOK, RegistryTypeOK, InjectorTypeOK
    <3>5. count'[c] <= count[c]
      BY <2>1, <3>1 DEF TypeOK, RegistryTypeOK
    <3> QED
      BY <2>1, <2>3, <3>1, <3>2, <3>3, <3>4, <3>5, ReleaseMove
  <2> QED
    BY <1>8, <2>2, <2>3 DEF LookupSpec
<1>9. ASSUME NEW t \in Threads, Execute(t)
     PROVE  HitsInv'
  <2> DEFINE c == cur[t]
  <2>1. pc[t] = "running" /\ c \in Created /\ c \in Ids
    BY <1>9, MetricType DEF Execute, TypeOK, InjectorTypeOK, HitsInv,
                             CallsInv, NoId
  <2>2. UNCHANGED <<registryVars, count, leaked>> /\ Leave(t)
    BY <1>9 DEF Execute
  <2>3. effects'[c] = effects[c] + 1
        /\ \A j \in Ids \ {c} : effects'[j] = effects[j]
    BY <1>9, <2>1 DEF Execute, TypeOK, InjectorTypeOK
  <2>4. HoldsHit(t, c)
    BY <2>1 DEF HoldsHit
  <2>5. effects'[c] + leaked'[c] + count[c]
          = effects[c] + leaked[c] + count'[c] + 1
    BY <2>1, <2>2, <2>3 DEF TypeOK, RegistryTypeOK, InjectorTypeOK
  <2>6. count'[c] <= count[c]
    BY <2>1, <2>2 DEF TypeOK, RegistryTypeOK
  <2> QED
    BY <2>1, <2>2, <2>3, <2>4, <2>5, <2>6, ReleaseMove
<1>10. ASSUME NEW t \in Threads, ExecuteFails(t)
     PROVE  HitsInv'
  BY <1>10, QuietMove DEF ExecuteFails, Goto, HitsInv, CallsInv, HoldsHit, registryVars,
      TypeOK, RegistryTypeOK, InjectorTypeOK
<1>11. ASSUME NEW t \in Threads, Rollback(t)
     PROVE  HitsInv'
  <2> DEFINE c == cur[t]
  <2>1. pc[t] = "failed" /\ c \in Created /\ c \in Ids
    BY <1>11, MetricType DEF Rollback, TypeOK, InjectorTypeOK, HitsInv,
                             CallsInv, NoId
  <2>2. UNCHANGED <<registryVars, effects, leaked>> /\ Leave(t)
    BY <1>11 DEF Rollback
  <2>3. /\ count'[c] = IF count[c] > 0 THEN count[c] - 1 ELSE 0
        /\ \A j \in Ids \ {c} : count'[j] = count[j]
    BY <1>11, <2>1 DEF Rollback, Decrease, TypeOK, RegistryTypeOK
  <2>4. CASE Unparsable(model[c])
    \* nothing was counted, and nothing is: decrease stops at zero
    <3>1. count' = count
      BY <2>1, <2>3, <2>4 DEF HitsInv, MetricsInv, TypeOK, RegistryTypeOK
    <3>2. \A s \in Threads \ {t} : pc'[s] = pc[s] /\ cur'[s] = cur[s]
      BY <2>2 DEF Leave, Goto, TypeOK, InjectorTypeOK
    <3>3. pc'[t] = "outside" /\ cur'[t] = NoId
      BY <2>2 DEF Leave, Goto, TypeOK, InjectorTypeOK
    <3>4. \A i \in Ids : ~HoldsHit(t, i) /\ ~HoldsHit(t, i)'
      BY <2>1, <2>4, <3>3 DEF HoldsHit
    <3>5. NoId <= created
      BY MetricType DEF TypeOK, NoId
    <3> QED
      BY <2>2, <3>1, <3>2, <3>3, <3>4, <3>5, QuietMove
  <2>5. CASE ~Unparsable(model[c])
    \* the hit it takes back is its own
    <3>1. HoldsHit(t, c)
      BY <2>1, <2>5 DEF HoldsHit
    <3>2. c \in Ids /\ count[c] > 0
      BY <2>1, <3>1, HoldsCounted
    <3>3. /\ effects'[c] + leaked'[c] + count[c]
               = effects[c] + leaked[c] + count'[c] + 1
          /\ count'[c] <= count[c]
      BY <2>1, <2>2, <2>3, <3>2 DEF TypeOK, RegistryTypeOK, InjectorTypeOK
    <3> QED
      BY <2>1, <2>2, <2>3, <3>1, <3>3, ReleaseMove
  <2> QED
    BY <2>4, <2>5
<1>12. ASSUME NEW b \in BOOLEAN, SetEnabled(b)
      PROVE  HitsInv'
  BY <1>12, StandStill DEF SetEnabled, registryVars, callVars
<1>13. ASSUME NEW u \in Uids, NEW m \in Models, Create(u, m)
      PROVE  HitsInv'
  <2> PICK n \in Ids : n = created + 1
    BY <1>13, MetricType DEF Create, RegisterExp, TypeOK
  <2>1. /\ n = created + 1 /\ n \in Ids /\ created \in Nat /\ created' = n
        /\ model' = [model EXCEPT ![n] = m]
        /\ experiments' = [experiments EXCEPT ![u] = n]
        /\ UNCHANGED <<count, enabled, specs, callVars, effects, leaked>>
    BY <1>13, MetricType DEF Create, RegisterExp, TypeOK
  <2>2. /\ Created' = Created \cup {n} /\ n \notin Created
        /\ Created \subseteq Ids
    BY <2>1, MetricType DEF Created, TypeOK
  <2>3. \A i \in Created : model'[i] = model[i]
    BY <2>1, <2>2 DEF TypeOK, RegistryTypeOK
  <2>4. model'[n] = m
    BY <2>1 DEF TypeOK, RegistryTypeOK
  <2>5. \A t \in Threads : cur[t] # NoId => cur[t] \in Created
    BY <2>1, MetricType DEF HitsInv, CallsInv, TypeOK, InjectorTypeOK, Created, NoId, Ids
  <2>6. CallsInv'
    <3> SUFFICES ASSUME NEW t \in Threads
                 PROVE  /\ cur[t] # NoId
                             <=> pc[t] \in {"matched", "counted", "running",
                                            "failed"}
                        /\ cur[t] <= n
                        /\ pc[t] \in {"counted", "running"}
                             => ~Unparsable(model'[cur[t]])
      BY <2>1 DEF CallsInv, callVars, Unparsable
    <3>1. cur[t] \in Nat /\ cur[t] <= created
      BY <2>1 DEF HitsInv, CallsInv, TypeOK, InjectorTypeOK, Ids, NoId
    <3> QED
      BY <2>1, <2>3, <2>5, <3>1 DEF HitsInv, CallsInv
  <2>7. count[n] = 0 /\ effects[n] = 0 /\ leaked[n] = 0
    BY <2>1 DEF HitsInv, MetricsInv
  <2>8. MetricsInv'
    <3>1. \A v \in Uids : experiments'[v] <= n
      BY <2>1 DEF HitsInv, MetricsInv, TypeOK, RegistryTypeOK, Ids, NoId
    <3>2. \A i \in Created' : model'[i] \in Models
      BY <2>2, <2>3, <2>4 DEF HitsInv, MetricsInv
    <3>3. \A i \in Ids : i > n => i > created
      BY <2>1, BoundAssumption DEF Ids
    <3>4. \A i \in Created' : Unparsable(model'[i]) => count[i] = 0
      BY <2>2, <2>3, <2>7 DEF HitsInv, MetricsInv
    <3> QED
      BY <2>1, <3>1, <3>2, <3>3, <3>4 DEF HitsInv, MetricsInv, Unparsable
  <2>9. HitsAccountedFor'
    <3>1. \A i \in Created : Holders(i)' = Holders(i)
      BY <2>1, <2>3 DEF Holders, HoldsHit, callVars, Unparsable
    <3>2. Holders(n)' = {}
      BY <2>1, <2>2, <2>5, MetricType DEF Holders, HoldsHit, callVars, TypeOK
    <3>3. Cardinality(Holders(n)') = 0
      BY <3>2, FS_EmptySet
    <3>4. \A i \in Created : count'[i] = effects'[i] + leaked'[i]
                                           + Cardinality(Holders(i)')
      BY <2>1, <3>1 DEF HitsInv, HitsAccountedFor
    <3>5. count'[n] = effects'[n] + leaked'[n] + Cardinality(Holders(n)')
      BY <2>1, <2>7, <3>3
    <3> QED
      BY <2>2, <3>4, <3>5 DEF HitsAccountedFor
  <2>10. LimitRespected'
    BY <2>1, <2>2, <2>3, <2>4, <2>7 DEF HitsInv, LimitRespected
  <2> QED
    BY <2>6, <2>8, <2>9, <2>10 DEF HitsInv
<1>14. ASSUME NEW u \in Uids, DestroyByUid(u)
      PROVE  HitsInv'
  BY <1>14, Removal DEF DestroyByUid, HandlerOnly
<1>15. ASSUME NEW target \in Targets, NEW action \in Actions,
             DestroyByTarget(target, action)
      PROVE  HitsInv'
  BY <1>15, StandStill DEF DestroyByTarget, HandlerOnly, registryVars, callVars
<1>16. CASE Prepare
  BY <1>16, StandStill DEF Prepare, HandlerOnly, registryVars, callVars
<1>17. CASE PrepareFails
  BY <1>17, StandStill DEF PrepareFails, HandlerOnly, registryVars, callVars
<1>18. CASE UndoCreate
  BY <1>18, Removal DEF UndoCreate, HandlerOnly
<1>19. CASE SweepOne
  BY <1>19, Removal DEF SweepOne, HandlerOnly
<1>20. ASSUME NEW target \in Targets, LoadPlugin(target)
      PROVE  HitsInv'
  BY <1>20, StandStill DEF LoadPlugin, MainOnly, registryVars, callVars
<1>21. CASE Start
  BY <1>21, StandStill DEF Start, MainOnly, registryVars, callVars
<1>22. CASE Serve
  BY <1>22, StandStill DEF Serve, MainOnly, registryVars, callVars
<1>23. CASE StartFails
  BY <1>23, StandStill DEF StartFails, MainOnly, registryVars, callVars
<1>24. CASE Shutdown
  BY <1>24, StandStill DEF Shutdown, MainOnly, registryVars, callVars
<1>25. CASE Drained
  BY <1>25, StandStill DEF Drained, MainOnly, registryVars, callVars
<1>26. CASE UnloadStatus
  <2>1. MetricsInv'
    <3>1. \A u \in Uids : experiments'[u] <= created
      BY <1>26, MetricType DEF UnloadStatus, ClearExperiments, TypeOK, NoId
    <3> QED
      BY <1>26, <3>1 DEF UnloadStatus, ClearExperiments, MainOnly, HitsInv,
                         MetricsInv, Created, Unparsable
  <2> QED
    BY <1>26, <2>1
       DEF UnloadStatus, ClearExperiments, MainOnly, callVars, HitsInv,
           CallsInv, HitsAccountedFor, LimitRespected, Created, Holders,
           HoldsHit, Unparsable
<1>27. CASE UnloadSpecs
  BY <1>27, StandStill DEF UnloadSpecs, MainOnly, registryVars, callVars
<1>28. CASE UNCHANGED vars
  BY <1>28, StandStill DEF vars, registryVars, callVars
<1> QED
  BY <1>1, <1>2, <1>3, <1>4, <1>5, <1>6, <1>7, <1>8, <1>9, <1>10, <1>11, <1>12, <1>13, <1>14, <1>15, <1>16, <1>17, <1>18, <1>19, <1>20, <1>21, <1>22, <1>23, <1>24, <1>25, <1>26, <1>27, <1>28
     DEF Next, ThreadNext, ThreadStep, SwitchNext, HandlerStep, StopStep

(* The books balance in every reachable state: where every hit went, and   *)
(* what effect-count bounds.                                               *)
THEOREM HitsCorrect == Spec => []HitsInv
<1>1. Init => HitsInv
  <2> SUFFICES ASSUME Init
               PROVE  HitsInv
    OBVIOUS
  <2>1. Created = {}
    BY DEF Init, RegistryInit, Created
  <2>2. CallsInv
    BY DEF Init, RegistryInit, InjectorInit, CallsInv, NoId
  <2>3. MetricsInv
    BY <2>1 DEF Init, RegistryInit, InjectorInit, MetricsInv, NoId
  <2> QED
    BY <2>1, <2>2, <2>3 DEF HitsInv, HitsAccountedFor, LimitRespected
<1>2. TypeOK /\ TypeOK' /\ HitsInv /\ [Next]_vars => HitsInv'
  BY HitsInductive
<1> QED
  BY <1>1, <1>2, TypeCorrect, PTL DEF Spec

(* Every hit counted is a fault, belongs to a call in progress, or was     *)
(* dropped with its ModelSpec: rollbacks never mix up experiments.         *)
THEOREM HitsNeverLost == Spec => []HitsAccountedFor
<1>1. HitsInv => HitsAccountedFor
  BY DEF HitsInv
<1> QED
  BY <1>1, HitsCorrect, PTL

(* effect-count is never exceeded, however many threads share the rule.    *)
THEOREM LimitHolds == Spec => []LimitRespected
<1>1. HitsInv => LimitRespected
  BY DEF HitsInv
<1> QED
  BY <1>1, HitsCorrect, PTL

-----------------------------------------------------------------------------
(***************************************************************************)
(* The life cycle of the agent.                                            *)
(***************************************************************************)

LifeInv == StageInv /\ StatusIsExact /\ UndoIsOwn

(* Steps that leave alone whatever LifeInv speaks of.                      *)
LEMMA LifeStandStill ==
  ASSUME LifeInv, UNCHANGED <<experiments, created, model, leaked, specs,
                              main, request, todo>>
  PROVE  LifeInv'
BY DEF LifeInv, StageInv, StatusIsExact, UndoIsOwn, Registered

(* The life cycle is inductive relative to the types and the accounting.   *)
LEMMA LifeInductive ==
  ASSUME TypeOK, HitsInv, LifeInv, [Next]_vars
  PROVE  LifeInv'
<1> USE DEF LifeInv, registryVars
<1>1. ASSUME NEW t \in Threads, ThreadStep(t), ~LookupSpec(t),
             UNCHANGED <<main, request, todo>>
      PROVE  LifeInv'
  BY <1>1, LifeStandStill
     DEF ThreadStep, BeforeAdvice, Bypass, CheckEnabled, MatchFirst, Limited,
         LimitAndIncrease, LimitUnparsable, Execute, ExecuteFails, Rollback
<1>2. ASSUME NEW t \in Threads, LookupSpec(t), UNCHANGED <<main, request, todo>>
      PROVE  LifeInv'
  <2>1. CASE leaked' = leaked
    BY <1>2, <2>1, LifeStandStill DEF LookupSpec
  <2>2. CASE /\ leaked' = [leaked EXCEPT ![cur[t]] = @ + 1]
             /\ ~(/\ model[cur[t]].target \in specs
                  /\ model[cur[t]].action \in SpecActions[model[cur[t]].target])
    \* the metric has left the registry, or its ModelSpec would be there
    <3>1. cur[t] \notin Registered
      BY <2>2 DEF StageInv
    <3>2. \A i \in Registered : leaked'[i] = leaked[i]
      BY <2>2, <3>1, MetricType DEF TypeOK, InjectorTypeOK
    <3> QED
      BY <1>2, <3>2 DEF LookupSpec, StageInv, StatusIsExact, UndoIsOwn,
                        Registered
  <2> QED
    BY <1>2, <2>1, <2>2 DEF LookupSpec
<1>3. ASSUME NEW b \in BOOLEAN, SetEnabled(b), UNCHANGED <<main, request, todo>>
      PROVE  LifeInv'
  BY <1>3, LifeStandStill DEF SetEnabled
<1>4. ASSUME NEW u \in Uids, NEW m \in Models, Create(u, m)
      PROVE  LifeInv'
  <2>1. PICK n \in Ids : n = created + 1
    BY <1>4, MetricType DEF Create, RegisterExp, TypeOK
  <2>2. /\ created' = n /\ model' = [model EXCEPT ![n] = m]
        /\ experiments' = [experiments EXCEPT ![u] = n]
        /\ request' = "registered" /\ todo' = {u} /\ main' = "running"
        /\ main = "running"
        /\ UNCHANGED <<specs, leaked>> /\ Accepts(m)
    BY <1>4, <2>1 DEF Create, RegisterExp, Idle
  <2>3. Registered' \subseteq Registered \cup {n}
    BY <2>2 DEF Registered, TypeOK, RegistryTypeOK
  <2>4. n \notin Registered
    BY <2>1, MetricType DEF HitsInv, MetricsInv, Registered, TypeOK, Ids
  <2>5. \A i \in Registered : model'[i] = model[i]
    BY <2>2, <2>4, MetricType DEF TypeOK, RegistryTypeOK
  <2>6. model'[n] = m
    BY <2>2 DEF TypeOK, RegistryTypeOK
  <2>7. leaked[n] = 0
    BY <2>1, MetricType DEF HitsInv, MetricsInv, TypeOK
  <2>8. StageInv'
    BY <2>2, <2>3, <2>5, <2>6 DEF StageInv, Accepts
  <2>9. StatusIsExact'
    BY <2>2, <2>3, <2>7 DEF StatusIsExact
  <2>10. UndoIsOwn'
    BY <2>2 DEF UndoIsOwn, TypeOK, RegistryTypeOK
  <2> QED
    BY <2>8, <2>9, <2>10
<1>5. ASSUME NEW u \in Uids, DestroyByUid(u)
      PROVE  LifeInv'
  <2>1. Registered' \subseteq Registered
    BY <1>5 DEF DestroyByUid, RemoveExp, Registered, TypeOK, RegistryTypeOK
  <2> QED
    BY <1>5, <2>1 DEF DestroyByUid, RemoveExp, HandlerOnly, Idle, StageInv,
                      StatusIsExact, UndoIsOwn
<1>6. ASSUME NEW target \in Targets, NEW action \in Actions,
             DestroyByTarget(target, action)
      PROVE  LifeInv'
  BY <1>6 DEF DestroyByTarget, HandlerOnly, Idle, StageInv, StatusIsExact,
              UndoIsOwn, Registered
<1>7. CASE Prepare \/ PrepareFails
  BY <1>7 DEF Prepare, PrepareFails, HandlerOnly, StageInv, StatusIsExact,
              UndoIsOwn, Registered
<1>8. CASE UndoCreate \/ SweepOne
  <2>1. Registered' \subseteq Registered
    BY <1>8 DEF UndoCreate, SweepOne, RemoveExp, Registered, TypeOK,
                RegistryTypeOK
  <2> QED
    BY <1>8, <2>1 DEF UndoCreate, SweepOne, RemoveExp, HandlerOnly, StageInv,
                      StatusIsExact, UndoIsOwn
<1>9. ASSUME NEW target \in Targets, LoadPlugin(target)
      PROVE  LifeInv'
  BY <1>9 DEF LoadPlugin, MainOnly, StageInv, StatusIsExact, UndoIsOwn,
              Registered
<1>10. CASE Start \/ Serve \/ StartFails \/ Shutdown \/ Drained
  BY <1>10 DEF Start, Serve, StartFails, Shutdown, Drained, Advance, MainOnly,
               StageInv, StatusIsExact, UndoIsOwn, Registered
<1>11. CASE UnloadStatus
  <2>1. Registered' = {}
    BY <1>11 DEF UnloadStatus, ClearExperiments, Registered, NoId
  <2> QED
    BY <1>11, <2>1 DEF UnloadStatus, ClearExperiments, Advance, MainOnly,
                       StageInv, StatusIsExact, UndoIsOwn
<1>12. CASE UnloadSpecs
  BY <1>12 DEF UnloadSpecs, Advance, MainOnly, StageInv, StatusIsExact,
               UndoIsOwn, Registered
<1>13. CASE UNCHANGED vars
  BY <1>13, LifeStandStill DEF vars
<1> QED
  BY <1>1, <1>2, <1>3, <1>4, <1>5, <1>6, <1>7, <1>8, <1>9, <1>10, <1>11,
     <1>12, <1>13
     DEF Next, ThreadNext, SwitchNext, HandlerStep, StopStep

(* Whatever start, stop and failed creates do, an experiment still in the  *)
(* registry keeps its ModelSpec, its exact hit count, and its uid.         *)
THEOREM LifeCorrect == Spec => []LifeInv
<1>1. Init => LifeInv
  BY DEF Init, RegistryInit, InjectorInit, LifeInv, StageInv, StatusIsExact,
         UndoIsOwn, Registered
<1>2. TypeOK /\ HitsInv /\ LifeInv /\ [Next]_vars => LifeInv'
  BY LifeInductive
<1> QED
  BY <1>1, <1>2, TypeCorrect, HitsCorrect, PTL DEF Spec

(* The hit count of an experiment a client can still see is exact.         *)
THEOREM StatusExact == Spec => []StatusIsExact
<1>1. LifeInv => StatusIsExact
  BY DEF LifeInv
<1> QED
  BY <1>1, LifeCorrect, PTL

(* Undoing a failed create removes the experiment it registered, no other. *)
THEOREM UndoOwn == Spec => []UndoIsOwn
<1>1. LifeInv => UndoIsOwn
  BY DEF LifeInv
<1> QED
  BY <1>1, LifeCorrect, PTL
=============================================================================
