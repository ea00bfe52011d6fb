----------------------- MODULE DirectInjection_proofs -----------------------
(* The theorems about DirectInjection, for any number of uids, workers and *)
(* chunks.                                                                 *)
EXTENDS DirectInjection, FiniteSetTheorems, TLAPS

LEMMA SizeType ==
  ASSUME NEW e \in Burn
  PROVE  e.size \in Nat /\ e \in Experiment /\ e # NoExp /\ e.overlong \in BOOLEAN
  BY NoExpAssumption, SizeAssumption DEF Burn, Experiment

LEMMA FillType ==
  ASSUME NEW e \in Fill
  PROVE  e.size \in Nat /\ e \in Experiment /\ e # NoExp /\ e \notin Burn
  BY NoExpAssumption, SizeAssumption DEF Fill, Burn, Experiment

(* Every variable keeps its type.                                          *)
THEOREM TypeCorrect == Spec => []TypeOK
<1>1. Init => TypeOK
  <2> SUFFICES ASSUME Init PROVE TypeOK
    OBVIOUS
  <2> USE DEF Init
  <2>1. allocated \in 0..Memory
    BY SizeAssumption
  <2>2. /\ experiments \in [Uids -> Experiment \cup {NoExp}]
        /\ owner \in [Workers -> Uids \cup {NoUid}]
        /\ life \in [Workers -> {"unborn", "burning", "ended"}]
    OBVIOUS
  <2> QED
    BY <2>1, <2>2 DEF TypeOK, Phases
<1>2. TypeOK /\ [Next]_vars => TypeOK'
  <2> SUFFICES ASSUME TypeOK, [Next]_vars PROVE TypeOK'
    OBVIOUS
  <2> USE DEF TypeOK, Phases
  <2>1. ASSUME NEW u \in Uids, NEW e \in Burn, CreateBurn(u, e) PROVE TypeOK'
    BY <2>1, SizeType DEF CreateBurn, Idle
  <2>2. ASSUME NEW u \in Uids, NEW e \in Fill, CreateFill(u, e) PROVE TypeOK'
    BY <2>2, FillType DEF CreateFill, Idle, burnVars
  <2>3. ASSUME NEW us \in SUBSET Uids, Destroy(us) PROVE TypeOK'
    BY <2>3 DEF Destroy, Idle, burnVars
  <2>4. CASE StartWorker
    <3> USE <2>4 DEF StartWorker
    <3>1. left' \in Nat
      OBVIOUS
    <3>2. overlong' \in SUBSET Workers
      OBVIOUS
    <3> QED
      BY <3>1, <3>2
  <2>5. CASE Allocate
    BY <2>5, SizeAssumption DEF Allocate, burnVars
  <2>6. CASE AllocateShort
    BY <2>6 DEF AllocateShort, burnVars
  <2>7. CASE CreateDone
    BY <2>7 DEF CreateDone, burnVars
  <2>8. CASE CreateFails
    BY <2>8 DEF CreateFails, burnVars
  <2>9. CASE UndoCreate
    BY <2>9 DEF UndoCreate
  <2>10. CASE StopBurn
    BY <2>10 DEF StopBurn
  <2>11. CASE Join
    BY <2>11 DEF Join, requestVars
  <2>12. CASE JoinTimesOut
    BY <2>12 DEF JoinTimesOut, requestVars
  <2>13. CASE ClearWorkers
    BY <2>13 DEF ClearWorkers
  <2>14. CASE FreeMemory
    BY <2>14, SizeAssumption DEF FreeMemory, burnVars
  <2>15. CASE DestroyDone
    BY <2>15 DEF DestroyDone, burnVars
  <2>16. ASSUME NEW w \in Workers, EndBurn(w) PROVE TypeOK'
    BY <2>16 DEF EndBurn, requestVars
  <2>17. CASE Shutdown
    BY <2>17 DEF Shutdown, requestVars, burnVars
  <2>18. CASE Unload
    BY <2>18 DEF Unload, requestVars
  <2>19. CASE UNCHANGED vars
    BY <2>19 DEF vars, requestVars, burnVars
  <2> QED
    BY <2>1, <2>2, <2>3, <2>4, <2>5, <2>6, <2>7, <2>8, <2>9, <2>10, <2>11,
       <2>12, <2>13, <2>14, <2>15, <2>16, <2>17, <2>18, <2>19
       DEF Next, HandlerStep
<1> QED
  BY <1>1, <1>2, PTL DEF Spec

-----------------------------------------------------------------------------
(* The flag, the list and the workers are changed by few actions.          *)
LEMMA FlagStep ==
  ASSUME TypeOK, FlagInv, [Next]_vars
  PROVE  FlagInv'
<1> USE DEF TypeOK, FlagInv, BurningIsListed, Burning
<1>1. ASSUME NEW u \in Uids, NEW e \in Burn, CreateBurn(u, e) PROVE FlagInv'
  BY <1>1 DEF CreateBurn, Idle
<1>2. ASSUME NEW u \in Uids, NEW e \in Fill, CreateFill(u, e) PROVE FlagInv'
  BY <1>2 DEF CreateFill, Idle, burnVars
<1>3. ASSUME NEW us \in SUBSET Uids, Destroy(us) PROVE FlagInv'
  BY <1>3 DEF Destroy, Idle, burnVars
<1>4. CASE StartWorker
  <2>1. PICK w \in Workers :
          /\ life[w] = "unborn"
          /\ life' = [life EXCEPT ![w] = "burning"]
          /\ workers' = workers \cup {w}
    BY <1>4 DEF StartWorker
  <2>2. phase = "starting" /\ phase' = phase /\ running' = running
        /\ overlong \subseteq overlong' /\ toJoin' = toJoin
    BY <1>4 DEF StartWorker
  <2> QED
    BY <2>1, <2>2
<1>5. CASE Allocate
  BY <1>5 DEF Allocate, burnVars
<1>6. CASE AllocateShort
  BY <1>6 DEF AllocateShort, burnVars
<1>7. CASE CreateDone
  BY <1>7 DEF CreateDone, burnVars
<1>8. CASE CreateFails
  BY <1>8 DEF CreateFails, burnVars
<1>9. CASE UndoCreate
  BY <1>9 DEF UndoCreate
<1>10. CASE StopBurn
  BY <1>10 DEF StopBurn
<1>11. CASE Join
  BY <1>11 DEF Join, requestVars
<1>12. CASE JoinTimesOut
  BY <1>12 DEF JoinTimesOut, requestVars
<1>13. CASE ClearWorkers
  BY <1>13 DEF ClearWorkers
<1>14. CASE FreeMemory
  BY <1>14 DEF FreeMemory, burnVars
<1>15. CASE DestroyDone
  BY <1>15 DEF DestroyDone, burnVars
<1>16. ASSUME NEW w \in Workers, EndBurn(w) PROVE FlagInv'
  BY <1>16 DEF EndBurn, requestVars
<1>17. CASE Shutdown
  BY <1>17 DEF Shutdown, requestVars, burnVars
<1>18. CASE Unload
  BY <1>18 DEF Unload, requestVars
<1>19. CASE UNCHANGED vars
  BY <1>19 DEF vars, requestVars, burnVars
<1> QED
  BY <1>1, <1>2, <1>3, <1>4, <1>5, <1>6, <1>7, <1>8, <1>9, <1>10, <1>11,
     <1>12, <1>13, <1>14, <1>15, <1>16, <1>17, <1>18, <1>19
     DEF Next, HandlerStep

LEMMA InitFlag == Init => FlagInv
  BY DEF Init, FlagInv, BurningIsListed, Burning

(* A step that neither starts workers nor clears the list, nor touches the *)
(* experiments of fresh burns, leaves the count of their workers alone.    *)
LEMMA FreshKept ==
  ASSUME FreshInv, workers' = workers, owner' = owner,
         fresh' \subseteq fresh, running' = running,
         \A u \in fresh' : experiments'[u] = experiments[u],
         phase' \in {"starting", "filling", "undoing"} =>
            /\ uid' = uid /\ phase \in {"starting", "filling", "undoing"}
            /\ phase' \in {"starting", "filling"} =>
                phase' = phase /\ experiments'[uid] = experiments[uid],
         \A u \in fresh' :
            \/ ~(phase \in {"starting", "undoing"} /\ uid = u)
            \/ phase' \in {"starting", "undoing"} /\ uid' = u
            \/ Cardinality(Of(u)) >= experiments[u].size,
         phase' = "starting" => left' = left
  PROVE  FreshInv'
<1>1. \A u \in Uids : Of(u)' = Of(u)
  BY DEF Of
<1>2. \A u \in Uids : experiments'[u] = experiments[u]
                        => (u \in Burns <=> u \in Burns')
  BY DEF Burns
<1>3. (fresh # {} => running)'
  BY DEF FreshInv
<1>4. (phase \in {"starting", "filling", "undoing"} => uid \in Uids)'
  BY DEF FreshInv
<1>5. (phase \in {"starting", "filling"} =>
        /\ experiments[uid] \in Experiment
        /\ phase = "starting" <=> uid \in Burns)'
  BY <1>2 DEF FreshInv
<1>6. ASSUME NEW u \in fresh'
      PROVE  /\ u \in Burns'
             /\ (phase = "starting" /\ uid = u =>
                    Cardinality(Of(u)) + left >= experiments[u].size)'
             /\ (~(phase \in {"starting", "undoing"} /\ uid = u) =>
                    Cardinality(Of(u)) >= experiments[u].size)'
  <2>1. u \in fresh /\ u \in Burns /\ u \in Uids
        /\ experiments'[u] = experiments[u]
    BY <1>6 DEF FreshInv, Burns
  <2>2. Of(u)' = Of(u) /\ u \in Burns'
    BY <1>1, <1>2, <2>1
  <2>3. phase' = "starting" /\ uid' = u => phase = "starting" /\ uid = u
    OBVIOUS
  <2>4. (phase = "starting" /\ uid = u =>
                    Cardinality(Of(u)) + left >= experiments[u].size)'
    BY <2>1, <2>2, <2>3 DEF FreshInv
  <2>5. (~(phase \in {"starting", "undoing"} /\ uid = u) =>
                    Cardinality(Of(u)) >= experiments[u].size)'
    BY <1>6, <2>1, <2>2 DEF FreshInv
  <2> QED
    BY <2>2, <2>4, <2>5
<1> QED
  BY <1>3, <1>4, <1>5, <1>6 DEF FreshInv

LEMMA OfFinite ==
  ASSUME TypeOK, NEW u \in Uids
  PROVE  IsFiniteSet(Of(u)) /\ Cardinality(Of(u)) \in Nat
<1>1. Of(u) \subseteq Workers
  BY DEF Of, TypeOK
<1> QED
  BY <1>1, WorkersAssumption, FS_Subset, FS_CardinalityType

(* A new burn: nothing is fresh but what was, and the new one.             *)
LEMMA FreshCreateBurn ==
  ASSUME TypeOK, FreshInv, NEW u \in Uids, NEW e \in Burn, CreateBurn(u, e)
  PROVE  FreshInv'
<1> USE DEF CreateBurn, Idle
<1>1. /\ experiments'[u] = e /\ u \in Burns' /\ e.size \in Nat
      /\ e \in Experiment
      /\ \A v \in Uids \ {u} : experiments'[v] = experiments[v]
  BY SizeType DEF TypeOK, Burns
<1>2. \A v \in Uids : Of(v)' = Of(v)
  BY DEF Of
<1>3. ASSUME NEW v \in fresh'
      PROVE  /\ v \in Burns'
             /\ (phase = "starting" /\ uid = v =>
                    Cardinality(Of(v)) + left >= experiments[v].size)'
             /\ (~(phase \in {"starting", "undoing"} /\ uid = v) =>
                    Cardinality(Of(v)) >= experiments[v].size)'
  <2>1. CASE v = u
    <3>1. Cardinality(Of(u)') \in Nat
      BY <1>2, OfFinite
    <3> QED
      BY <1>1, <2>1, <3>1
  <2>2. CASE v # u
    <3>1. v \in fresh /\ v \in Burns /\ v \in Uids
      BY <2>2 DEF FreshInv, Burns
    <3>2. experiments'[v] = experiments[v] /\ Of(v)' = Of(v)
      BY <1>1, <1>2, <2>2, <3>1
    <3>3. v \in Burns'
      BY <3>1, <3>2 DEF Burns
    <3> QED
      BY <2>2, <3>1, <3>2, <3>3 DEF FreshInv
  <2> QED
    BY <2>1, <2>2
<1> QED
  BY <1>1, <1>3 DEF FreshInv

(* A new fill is under a uid that no burn has.                             *)
LEMMA FreshCreateFill ==
  ASSUME TypeOK, FreshInv, NEW u \in Uids, NEW e \in Fill, CreateFill(u, e)
  PROVE  FreshInv'
<1> USE DEF CreateFill, Idle, burnVars
<1>1. /\ experiments'[u] = e /\ u \notin Burns' /\ e \in Experiment
      /\ \A v \in Uids \ {u} : experiments'[v] = experiments[v]
  BY FillType DEF TypeOK, Burns
<1>2. \A v \in Uids : Of(v)' = Of(v)
  BY DEF Of
<1>3. ASSUME NEW v \in fresh'
      PROVE  v \in Burns' /\ (Cardinality(Of(v)) >= experiments[v].size)'
  <2>1. v \in fresh /\ v \in Burns /\ v \in Uids
    BY DEF FreshInv, Burns
  <2>2. v # u
    BY <2>1, NoExpAssumption DEF Burns, Experiment
  <2>3. experiments'[v] = experiments[v] /\ Of(v)' = Of(v)
    BY <1>1, <1>2, <2>1, <2>2
  <2> QED
    BY <2>1, <2>3 DEF FreshInv, Burns
<1> QED
  BY <1>1, <1>3 DEF FreshInv

(* A worker more, and one less to start.                                   *)
LEMMA FreshStartWorker ==
  ASSUME TypeOK, FlagInv, FreshInv, StartWorker
  PROVE  FreshInv'
<1>1. PICK w \in Workers :
        /\ life[w] = "unborn"
        /\ owner' = [owner EXCEPT ![w] = uid]
        /\ workers' = workers \cup {w}
  BY DEF StartWorker
<1>2. /\ phase = "starting" /\ phase' = phase /\ uid' = uid /\ uid \in Uids
      /\ left' = left - 1 /\ left \in Nat /\ left > 0 /\ running' = running
      /\ fresh' = fresh /\ experiments' = experiments /\ Burns' = Burns
  BY DEF StartWorker, TypeOK, FreshInv, Burns
<1>3. w \notin workers
  BY <1>1 DEF FlagInv
<1>4. Of(uid)' = Of(uid) \cup {w} /\ w \notin Of(uid)
  BY <1>1, <1>2, <1>3 DEF Of, TypeOK
<1>5. \A u \in Uids \ {uid} : Of(u)' = Of(u)
  BY <1>1, <1>2, <1>3 DEF Of, TypeOK
<1>6. /\ Cardinality(Of(uid)') = Cardinality(Of(uid)) + 1
      /\ Cardinality(Of(uid)) \in Nat
  BY <1>2, <1>4, OfFinite, FS_AddElement
<1>7. ASSUME NEW u \in fresh
      PROVE  /\ u \in Burns'
             /\ (phase = "starting" /\ uid = u =>
                    Cardinality(Of(u)) + left >= experiments[u].size)'
             /\ (~(phase \in {"starting", "undoing"} /\ uid = u) =>
                    Cardinality(Of(u)) >= experiments[u].size)'
  <2>1. u \in Burns /\ u \in Uids /\ experiments[u].size \in Nat
    BY SizeType DEF FreshInv, Burns
  <2>2. CASE u = uid
    <3>1. Cardinality(Of(uid)) + left >= experiments[uid].size
      BY <1>2, <2>2 DEF FreshInv
    <3>2. Cardinality(Of(uid)') + left' >= experiments[uid].size
      BY <1>2, <1>6, <2>1, <2>2, <3>1
    <3> QED
      BY <1>2, <2>1, <2>2, <3>2
  <2>3. CASE u # uid
    BY <1>2, <1>5, <2>1, <2>3 DEF FreshInv
  <2> QED
    BY <2>2, <2>3
<1> QED
  BY <1>2, <1>7 DEF FreshInv

LEMMA FreshStep ==
  ASSUME TypeOK, FlagInv, FreshInv, [Next]_vars
  PROVE  FreshInv'
<1>1. ASSUME NEW us \in SUBSET Uids, Destroy(us) PROVE FreshInv'
  BY <1>1, FreshKept DEF Destroy, Idle, burnVars
<1>2. CASE Allocate \/ AllocateShort
  BY <1>2, FreshKept DEF Allocate, AllocateShort, burnVars
<1>3. CASE CreateDone
  <2>1. \A u \in fresh : phase = "starting" /\ uid = u =>
                            Cardinality(Of(u)) >= experiments[u].size
    <3> SUFFICES ASSUME NEW u \in fresh, phase = "starting", uid = u
                 PROVE  Cardinality(Of(u)) >= experiments[u].size
      OBVIOUS
    <3>1. u \in Uids /\ left = 0
      BY <1>3 DEF CreateDone, FreshInv, Burns
    <3>2. Cardinality(Of(u)) + left >= experiments[u].size
      BY DEF FreshInv
    <3> QED
      BY <3>1, <3>2, OfFinite
  <2> QED
    BY <1>3, <2>1, FreshKept DEF CreateDone, burnVars
<1>4. CASE CreateFails
  BY <1>4, FreshKept DEF CreateFails, burnVars
<1>5. CASE UndoCreate
  BY <1>5, FreshKept DEF UndoCreate, FreshInv, Burns, TypeOK
<1>6. CASE StopBurn
  BY <1>6 DEF StopBurn, FreshInv
<1>7. CASE Join \/ JoinTimesOut
  BY <1>7, FreshKept DEF Join, JoinTimesOut, requestVars
<1>8. CASE ClearWorkers
  BY <1>8 DEF ClearWorkers, FlagInv, FreshInv
<1>9. CASE FreeMemory
  <2>1. \A u \in fresh : experiments'[u] = experiments[u]
    BY <1>9 DEF FreeMemory, FreshInv, TypeOK
  <2> QED
    BY <1>9, <2>1, FreshKept DEF FreeMemory, burnVars
<1>10. CASE DestroyDone
  BY <1>10, FreshKept DEF DestroyDone, burnVars
<1>11. ASSUME NEW w \in Workers, EndBurn(w) PROVE FreshInv'
  BY <1>11, FreshKept DEF EndBurn, requestVars
<1>12. CASE Shutdown
  BY <1>12, FreshKept DEF Shutdown, requestVars, burnVars
<1>13. CASE Unload
  BY <1>13, FreshKept DEF Unload, requestVars
<1>14. CASE UNCHANGED vars
  BY <1>14, FreshKept DEF vars, requestVars, burnVars
<1> QED
  BY <1>1, <1>2, <1>3, <1>4, <1>5, <1>6, <1>7, <1>8, <1>9, <1>10, <1>11,
     <1>12, <1>13, <1>14, FreshCreateBurn, FreshCreateFill, FreshStartWorker
     DEF Next, HandlerStep

(* The flag, the list and the workers agree, and a fresh burn has its      *)
(* workers or has yet to start them.                                       *)
THEOREM InductiveCorrect == Spec => []Inductive
<1>1. Init => Inductive
  <2>1. Init => FreshInv
    BY DEF Init, FreshInv
  <2> QED
    BY <2>1, InitFlag DEF Inductive
<1>2. TypeOK /\ Inductive /\ [Next]_vars => Inductive'
  BY FlagStep, FreshStep DEF Inductive
<1> QED
  BY <1>1, <1>2, TypeCorrect, PTL DEF Spec

(* No burning worker is lost.                                              *)
THEOREM NoWorkerLost == Spec => []BurningIsListed
<1>1. Inductive => BurningIsListed
  BY DEF Inductive, FlagInv
<1> QED
  BY <1>1, InductiveCorrect, PTL

(* After a destroy that has returned, nothing burns that was worth the     *)
(* wait.                                                                   *)
THEOREM QuietAfterDestroy == Spec => []DestroyQuiets
<1>1. Inductive => DestroyQuiets
  BY DEF Inductive, FlagInv, BurningIsListed, DestroyQuiets
<1> QED
  BY <1>1, InductiveCorrect, PTL

(* A burn burns in full until the next destroy of a burn.                  *)
THEOREM FreshBurns == Spec => []FreshBurnIsFull
<1>1. TypeOK /\ Inductive => FreshBurnIsFull
  <2> SUFFICES ASSUME TypeOK, Inductive, phase = "idle", NEW u \in fresh
               PROVE  Cardinality(Of(u) \cap Burning) >= experiments[u].size
    BY DEF FreshBurnIsFull
  <2>1. Of(u) \cap Burning = Of(u)
    BY DEF Inductive, FlagInv, FreshInv, Of
  <2>2. Cardinality(Of(u)) >= experiments[u].size
    BY DEF Inductive, FreshInv
  <2> QED
    BY <2>1, <2>2
<1> QED
  BY <1>1, TypeCorrect, InductiveCorrect, PTL
=============================================================================
