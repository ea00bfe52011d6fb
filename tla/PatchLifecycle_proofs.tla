----------------------- MODULE PatchLifecycle_proofs -----------------------
(***************************************************************************)
(* Proofs about PatchLifecycle for every set of modules and points, any    *)
(* number of imports under way and any number of restarts.                 *)
(***************************************************************************)
EXTENDS PatchLifecycle, TLAPS

(* Every variable keeps its type.                                          *)
THEOREM TypeCorrect == Spec => []TypeOK
<1> USE DEF TypeOK, PatcherTypeOK, HookTypeOK
<1>1. ASSUME Init PROVE TypeOK
  <2>1. PatcherTypeOK BY <1>1 DEF Init, PatcherInit
  <2>2. HookTypeOK BY <1>1 DEF Init, HookInit, ImportPhases
  <2> QED BY <1>1, <2>1, <2>2 DEF Init, Stages
<1>2. ASSUME TypeOK, [Next]_vars PROVE TypeOK'
  <2>1. ASSUME NEW m \in Modules, ImportNext(m) PROVE TypeOK'
    <3> USE ModulesAssumption DEF Advances, agentVars, handlerVars,
                                  ImportPhases, patcherVars
    <3>1. CASE BeginImport(m) BY <1>2, <2>1, <3>1 DEF BeginImport, ImportNext
    <3>2. CASE NotPending(m) BY <1>2, <2>1, <3>2 DEF NotPending, ImportNext
    <3>3. CASE SeePending(m) BY <1>2, <2>1, <3>3 DEF SeePending, ImportNext
    <3>4. CASE StepAside(m) BY <1>2, <2>1, <3>4 DEF StepAside, ImportNext
    <3>5. CASE ImportFails(m) BY <1>2, <2>1, <3>5 DEF ImportFails, ImportNext
    <3>6. CASE WrapLoader(m) BY <1>2, <2>1, <3>6 DEF WrapLoader, ImportNext
    <3>7. CASE EnterModule(m) BY <1>2, <2>1, <3>7 DEF EnterModule, ImportNext
    <3>8. CASE ExecModule(m) BY <1>2, <2>1, <3>8 DEF ExecModule, ImportNext
    <3>9. CASE TakePending(m) BY <1>2, <2>1, <3>9 DEF TakePending, ImportNext
    <3>10. CASE ApplyPending(m)
      BY <1>2, <2>1, <3>10 DEF ApplyPending, ApplyPatch, Refuses, ImportNext
    <3> QED BY <2>1, <3>1, <3>2, <3>3, <3>4, <3>5, <3>6, <3>7, <3>8, <3>9,
               <3>10 DEF ImportNext, ContinueImport
  <2>2. ASSUME NEW target \in Targets, LazyLoad(target) PROVE TypeOK'
    BY <1>2, <2>2 DEF LazyLoad, BeansOf, PointsOf, patcherVars, hookVars,
                      agentVars
  <2>3. CASE AddBean
    BY <1>2, <2>3 DEF AddBean, TryPatch, PointOf, ApplyPatch, Refuses, NextBean,
                      Abort, HookUntouched, patcherVars, agentVars
  <2>4. CASE RegisterPending
    BY <1>2, <2>4 DEF RegisterPending, TryPatch, PointOf, ApplyPatch, Refuses,
                      NextBean, Abort, HookUntouched, patcherVars, agentVars
  <2>5. CASE QueuePending
    BY <1>2, <2>5, ModulesAssumption
       DEF QueuePending, Enqueue, NextBean, PointOf, patcherVars, agentVars
  <2>6. CASE Start BY <1>2, <2>6 DEF Start, Install, Advance, Stages,
                                     patcherVars, hookVars, handlerVars
  <2>7. CASE StartFails \/ Serve \/ Shutdown
    BY <1>2, <2>7 DEF StartFails, Serve, Shutdown, Advance, Stages,
                      patcherVars, hookVars, handlerVars
  <2>8. CASE RemoveNext
    BY <1>2, <2>8 DEF RemoveNext, RemovePatch, hookVars, handlerVars
  <2>9. CASE ListPatches
    BY <1>2, <2>9 DEF ListPatches, Advance, Patched, Stages, patcherVars,
                      hookVars, handlerVars
  <2>10. CASE UninstallHook
    <3>1. onPath' \in Nat
      <4>1. CASE onPath' = onPath - 1 /\ onPath > 0 BY <1>2, <4>1
      <4>2. CASE onPath' = onPath BY <1>2, <4>2
      <4> QED BY <2>10, <4>1, <4>2 DEF UninstallHook, Uninstall
    <3>2. main' \in Stages BY <2>10 DEF UninstallHook, Advance, Stages
    <3> QED BY <1>2, <2>10, <3>1, <3>2
            DEF UninstallHook, Uninstall, patcherVars, handlerVars
  <2>12. CASE Unload
    BY <1>2, <2>12 DEF Unload, Advance, Stages, patcherVars, hookVars
  <2>11. CASE UNCHANGED vars
    BY <1>2, <2>11 DEF vars, patcherVars, hookVars, agentVars, handlerVars
  <2> QED BY <1>2, <2>1, <2>2, <2>3, <2>4, <2>5, <2>6, <2>7, <2>8, <2>9,
             <2>10, <2>11, <2>12 DEF Next, HandlerStep, StopStep
<1> QED BY <1>1, <1>2, PTL DEF Spec

-----------------------------------------------------------------------------
(***************************************************************************)
(* Wrappers and records.  What a step does to an attribute is one of three *)
(* things: nothing, a wrap, or the first definition of it.                 *)
(***************************************************************************)

(* Imports that stay on their side of the execution of the body.           *)
Settled == \A m \in Modules : imports'[m] \in Executed
                                <=> imports[m] \in Executed

LEMMA AttributesKept ==
    ASSUME AttributesInv, Settled, UNCHANGED patcherVars
    PROVE  AttributesInv'
BY ModulesAssumption
   DEF AttributesInv, WrappedOnce, Settled, patcherVars, Executed

LEMMA WrapKept ==
    ASSUME TypeOK, AttributesInv, Settled, NEW p \in Points, ApplyPatch(p)
    PROVE  AttributesInv'
<1>1. attr[p] = 0 /\ patches[p] = NoRecord /\ 0 # NoRecord
  BY AbsenceAssumption DEF ApplyPatch, Refuses, AttributesInv, WrappedOnce
<1>2. attr' = [attr EXCEPT ![p] = 1] /\ patches' = [patches EXCEPT ![p] = 0]
  BY <1>1 DEF ApplyPatch
<1>3. /\ attr \in [Points -> Nat \cup {Missing}]
      /\ patches \in [Points -> Nat \cup {NoRecord}]
  BY DEF TypeOK, PatcherTypeOK
<1>4. ASSUME NEW q \in Points PROVE /\ attr'[q] # Missing <=> attr[q] # Missing
                                    /\ IF patches'[q] = NoRecord
                                       THEN attr'[q] \in {0, Missing}
                                       ELSE patches'[q] = 0 /\ attr'[q] = 1
  <2>1. CASE q = p
    BY <1>1, <1>2, <1>3, <2>1, AbsenceAssumption
  <2>2. CASE q # p
    BY <1>2, <1>3, <2>2 DEF AttributesInv, WrappedOnce
  <2> QED BY <2>1, <2>2
<1> QED BY <1>4, ModulesAssumption
        DEF AttributesInv, WrappedOnce, Settled, Executed

LEMMA RemoveKept ==
    ASSUME TypeOK, AttributesInv, UNCHANGED imports, NEW p \in Points,
           RemovePatch(p)
    PROVE  AttributesInv'
<1>1. /\ attr \in [Points -> Nat \cup {Missing}]
      /\ patches \in [Points -> Nat \cup {NoRecord}]
  BY DEF TypeOK, PatcherTypeOK
<1>2. ASSUME NEW q \in Points PROVE /\ attr'[q] # Missing <=> attr[q] # Missing
                                    /\ IF patches'[q] = NoRecord
                                       THEN attr'[q] \in {0, Missing}
                                       ELSE patches'[q] = 0 /\ attr'[q] = 1
  <2>1. CASE q = p
    BY <1>1, <2>1, AbsenceAssumption
       DEF RemovePatch, AttributesInv, WrappedOnce
  <2>2. CASE q # p
    BY <1>1, <2>2 DEF RemovePatch, AttributesInv, WrappedOnce
  <2> QED BY <2>1, <2>2
<1> QED BY <1>2 DEF AttributesInv, WrappedOnce, Executed

LEMMA ExecKept ==
    ASSUME TypeOK, AttributesInv, NEW m \in Modules, ExecModule(m)
    PROVE  AttributesInv'
<1>1. /\ imports \in [Modules -> ImportPhases]
      /\ imports[m] = "executing"
      /\ imports' = [imports EXCEPT ![m] = IF hooked[m] THEN "executed"
                                                         ELSE "ready"]
      /\ UNCHANGED patches
      /\ attr' = [p \in Points |-> IF p \in PointsIn(m) THEN 0 ELSE attr[p]]
  BY DEF TypeOK, HookTypeOK, ExecModule, Advances
<1>2. ASSUME NEW p \in Points
      PROVE  /\ IF patches'[p] = NoRecord THEN attr'[p] \in {0, Missing}
                ELSE patches'[p] = 0 /\ attr'[p] = 1
             /\ attr'[p] # Missing <=> imports'[ModuleOf[p]] \in Executed
  <2>1. CASE ModuleOf[p] = m
    <3>1. attr[p] = Missing
      BY <1>1, <2>1 DEF AttributesInv, Executed
    <3>2. patches[p] = NoRecord
      BY <3>1, AbsenceAssumption DEF AttributesInv, WrappedOnce
    <3>3. attr'[p] = 0 /\ imports'[m] \in Executed
      BY <1>1, <2>1 DEF PointsIn, Executed
    <3> QED BY <1>1, <2>1, <3>2, <3>3, AbsenceAssumption
  <2>2. CASE ModuleOf[p] # m
    <3>1. attr'[p] = attr[p] /\ imports'[ModuleOf[p]] = imports[ModuleOf[p]]
      BY <1>1, <2>2, ModulesAssumption DEF PointsIn
    <3> QED BY <1>1, <3>1 DEF AttributesInv, WrappedOnce
  <2> QED BY <2>1, <2>2
<1> QED BY <1>2 DEF AttributesInv, WrappedOnce

(* A request's attempt to patch.                                           *)
LEMMA TryKept ==
    ASSUME TypeOK, AttributesInv, UNCHANGED imports, NEW b \in Points \X Nat,
           NEW otherwise, TryPatch(b, otherwise)
    PROVE  AttributesInv'
<1>1. Settled BY DEF Settled
<1>2. ApplyPatch(PointOf(b)) \/ UNCHANGED patcherVars BY DEF TryPatch
<1>3. PointOf(b) \in Points BY DEF PointOf
<1> QED BY <1>1, <1>2, <1>3, WrapKept, AttributesKept

LEMMA AttributesInductive ==
    ASSUME TypeOK, AttributesInv, [Next]_vars
    PROVE  AttributesInv'
<1>1. ASSUME NEW m \in Modules, ImportNext(m) PROVE AttributesInv'
  <2>1. CASE ExecModule(m) BY <2>1, ExecKept
  <2>2. CASE ApplyPending(m)
    <3>1. Settled
      BY <2>2 DEF ApplyPending, Advances, Settled, Executed, TypeOK, HookTypeOK
    <3>2. PICK p \in batch[m] : ApplyPatch(p) \/ UNCHANGED patcherVars
      BY <2>2 DEF ApplyPending
    <3>3. p \in Points BY DEF TypeOK, HookTypeOK
    <3> QED BY <3>1, <3>2, <3>3, WrapKept, AttributesKept
  <2>3. CASE UNCHANGED patcherVars /\ Settled BY <2>3, AttributesKept
  <2> QED
    BY <1>1, <2>1, <2>2, <2>3
       DEF ImportNext, ContinueImport, BeginImport, NotPending, SeePending,
           StepAside, ImportFails, WrapLoader, EnterModule, TakePending,
           Advances, Settled, Executed, TypeOK, HookTypeOK
<1>2. CASE AddBean
  <2>1. PICK b \in beans : TryPatch(b, "registering") BY <1>2 DEF AddBean
  <2> QED BY <1>2, <2>1, TryKept DEF AddBean, HookUntouched, TypeOK
<1>3. CASE RegisterPending
  BY <1>3, TryKept DEF RegisterPending, HookUntouched, TypeOK
<1>4. CASE RemoveNext
  BY <1>4, RemoveKept DEF RemoveNext, hookVars, TypeOK
<1>5. CASE UNCHANGED <<patcherVars, imports>>
  BY <1>5, AttributesKept DEF Settled
<1> QED
  BY <1>1, <1>2, <1>3, <1>4, <1>5
     DEF Next, HandlerStep, StopStep, LazyLoad, QueuePending, Enqueue, Start,
         Install, StartFails, Serve, Shutdown, ListPatches, UninstallHook,
         Uninstall, Unload, vars, hookVars

(* Whatever requests, imports and restarts do, a function is wrapped at    *)
(* most once and remove_patch restores the original.                       *)
THEOREM WrappersCorrect == Spec => []WrappedOnce
<1>1. Init => AttributesInv
  BY ModulesAssumption, AbsenceAssumption
     DEF Init, PatcherInit, HookInit, AttributesInv, WrappedOnce, Executed
<1>2. AttributesInv => WrappedOnce BY DEF AttributesInv
<1> QED BY <1>1, <1>2, TypeCorrect, AttributesInductive, PTL DEF Spec

-----------------------------------------------------------------------------
(***************************************************************************)
(* Requests against the life cycle.                                        *)
(***************************************************************************)

LEMMA HandlerInductive ==
    ASSUME TypeOK, HandlerInv, [Next]_vars
    PROVE  HandlerInv'
<1> USE DEF HandlerInv
<1>1. ASSUME NEW target \in Targets, LazyLoad(target) PROVE HandlerInv'
  BY <1>1 DEF LazyLoad, BeansOf, PointsOf, PointOf, agentVars
<1>2. CASE AddBean
  BY <1>2 DEF AddBean, TryPatch, NextBean, Abort, agentVars
<1>3. CASE RegisterPending
  BY <1>3 DEF RegisterPending, TryPatch, NextBean, Abort, agentVars
<1>4. CASE QueuePending
  BY <1>4 DEF QueuePending, NextBean, agentVars
<1>5. CASE Start
  <2>1. copies' > 0 BY <1>5 DEF Start, TypeOK
  <2> QED BY <1>5, <2>1 DEF Start, Advance, handlerVars
<1>8. CASE StartFails \/ Serve \/ Shutdown
  BY <1>8 DEF StartFails, Serve, Shutdown, Advance, handlerVars
<1>6. CASE ListPatches \/ RemoveNext \/ UninstallHook \/ Unload
  BY <1>6 DEF ListPatches, RemoveNext, UninstallHook, Unload, Advance,
              handlerVars
<1>7. CASE UNCHANGED <<agentVars, handlerVars>>
  BY <1>7 DEF agentVars, handlerVars
<1> QED
  BY <1>1, <1>2, <1>3, <1>4, <1>5, <1>6, <1>7, <1>8
     DEF Next, ImportNext, HandlerStep, StopStep, vars

LEMMA LeftoverInductive ==
    ASSUME TypeOK, HandlerInv, LeftoverInv, [Next]_vars
    PROVE  LeftoverInv'
<1> USE DEF LeftoverInv, LeftoversAreImported
<1>1. ASSUME NEW m \in Modules, ImportNext(m) PROVE LeftoverInv'
  <2>1. CASE ApplyPending(m)
    <3>1. PICK p \in batch[m] : \/ ApplyPatch(p) /\ author' = [author EXCEPT ![p] = "import"]
                                \/ UNCHANGED <<patcherVars, author>>
      BY <2>1 DEF ApplyPending
    <3>2. p \in Points BY DEF TypeOK, HookTypeOK
    <3>3. UNCHANGED agentVars BY <1>1 DEF ImportNext
    <3>4. CASE ApplyPatch(p) /\ author' = [author EXCEPT ![p] = "import"]
      <4>1. Patched' = Patched \cup {p}
        BY <3>2, <3>4, AbsenceAssumption
           DEF ApplyPatch, Refuses, Patched, TypeOK, PatcherTypeOK
      <4>2. author'[p] = "import"
            /\ \A q \in Points : author[q] = "import" => author'[q] = "import"
        BY <3>2, <3>4 DEF TypeOK, HookTypeOK
      <4> QED BY <3>3, <4>1, <4>2 DEF agentVars, Patched
    <3>5. CASE UNCHANGED <<patcherVars, author>>
      BY <3>3, <3>5 DEF agentVars, Patched, patcherVars
    <3> QED BY <3>1, <3>4, <3>5
  <2>2. CASE UNCHANGED <<patches, author, agentVars>>
    BY <2>2 DEF agentVars, Patched
  <2> QED
    BY <1>1, <2>1, <2>2
       DEF ImportNext, ContinueImport, BeginImport, NotPending, SeePending,
           StepAside, ImportFails, WrapLoader, EnterModule, ExecModule,
           TakePending, patcherVars
<1>2. CASE AddBean \/ RegisterPending
  <2>1. main \in {"running", "draining"} /\ UNCHANGED agentVars
    BY <1>2 DEF AddBean, RegisterPending, HandlerInv
  <2> QED BY <2>1 DEF agentVars, Patched
<1>3. CASE ListPatches
  <2>1. Patched' = Patched /\ doomed' = Patched /\ main' = "removing"
    BY <1>3 DEF ListPatches, Advance, Patched, patcherVars
  <2> QED BY <2>1
<1>4. CASE RemoveNext
  <2>1. PICK p \in doomed : RemovePatch(p) /\ doomed' = doomed \ {p}
    BY <1>4 DEF RemoveNext
  <2>2. Patched' = Patched \ {p}
    BY <2>1 DEF RemovePatch, Patched, TypeOK, PatcherTypeOK
  <2> QED BY <1>4, <2>1, <2>2 DEF RemoveNext, hookVars, Patched
<1>5. CASE UninstallHook
  BY <1>5 DEF UninstallHook, Uninstall, Advance, patcherVars, Patched
<1>6. CASE Start \/ StartFails \/ Serve \/ Shutdown \/ Unload
  BY <1>6 DEF Start, Install, StartFails, Serve, Shutdown, Unload, Advance,
              patcherVars, hookVars, Patched
<1>7. CASE UNCHANGED <<patches, author, agentVars>>
  BY <1>7 DEF agentVars, Patched
<1> QED
  BY <1>1, <1>2, <1>3, <1>4, <1>5, <1>6, <1>7
     DEF Next, HandlerStep, StopStep, LazyLoad, QueuePending, Enqueue, vars,
         hookVars, patcherVars

LEMMA LifeInit == Init => HandlerInv /\ LeftoverInv
BY DEF Init, PatcherInit, HookInit, HandlerInv, LeftoverInv,
       LeftoversAreImported, Patched

(* A patch that outlives remove_all is the work of an import, however      *)
(* often the agent is restarted.                                           *)
THEOREM LeftoversCorrect == Spec => []LeftoversAreImported
<1>1. Init => HandlerInv /\ LeftoverInv BY LifeInit
<1>2. LeftoverInv => LeftoversAreImported BY DEF LeftoverInv
<1> QED BY <1>1, <1>2, TypeCorrect, HandlerInductive, LeftoverInductive, PTL
        DEF Spec

-----------------------------------------------------------------------------
(***************************************************************************)
(* Queues, loaders, and what became of a point that was queued.            *)
(***************************************************************************)

LEMMA QueueInductive ==
    ASSUME TypeOK, QueueInv, [Next]_vars
    PROVE  QueueInv'
<1> USE ModulesAssumption DEF QueueInv, PointsIn, TypeOK, HookTypeOK
<1>1. ASSUME NEW m \in Modules, ImportNext(m) PROVE QueueInv'
  <2>1. CASE SeePending(m) BY <2>1 DEF SeePending, Advances
  <2>2. CASE ImportFails(m) BY <2>2 DEF ImportFails, Advances
  <2>3. CASE TakePending(m) BY <2>3 DEF TakePending, Advances
  <2>4. CASE ApplyPending(m) BY <2>4 DEF ApplyPending, Advances
  <2>5. CASE \/ BeginImport(m) \/ NotPending(m) \/ StepAside(m)
             \/ WrapLoader(m) \/ EnterModule(m) \/ ExecModule(m)
    BY <2>5 DEF BeginImport, NotPending, StepAside, WrapLoader, EnterModule,
                ExecModule, Advances
  <2> QED BY <1>1, <2>1, <2>2, <2>3, <2>4, <2>5 DEF ImportNext, ContinueImport
<1>2. CASE QueuePending
  <2>1. PointOf(bean) \in Points BY <1>2 DEF QueuePending, PointOf
  <2> QED BY <1>2, <2>1 DEF QueuePending, Enqueue
<1>3. CASE ListPatches BY <1>3 DEF ListPatches
<1>4. CASE UNCHANGED <<imports, batch, pending, promised>> BY <1>4
<1> QED
  BY <1>1, <1>2, <1>3, <1>4
     DEF Next, HandlerStep, StopStep, LazyLoad, AddBean, RegisterPending,
         HookUntouched, Start, Install, StartFails, Serve, Shutdown,
         RemoveNext, UninstallHook, Uninstall, Unload, vars, hookVars

(* No import of a module is under way, or yet to come, once one of its     *)
(* points is patched.                                                      *)
LEMMA PatchedIsExecuted ==
    ASSUME AttributesInv, NEW p \in Patched
    PROVE  imports[ModuleOf[p]] \in Executed
BY AbsenceAssumption DEF AttributesInv, WrappedOnce, Patched

(* Applying one patch takes it, and it alone, into the patched ones.       *)
LEMMA ApplyPatches ==
    ASSUME TypeOK, NEW p \in Points, ApplyPatch(p)
    PROVE  Patched' = Patched \cup {p}
BY AbsenceAssumption DEF ApplyPatch, Refuses, Patched, TypeOK, PatcherTypeOK

(* After a step of its loader a patch is in place, or can never be.        *)
LEMMA LoaderSettles ==
    ASSUME TypeOK, AttributesInv, QueueInv, NEW m \in Modules, ApplyPending(m)
    PROVE  \E p \in batch[m] :
              /\ batch' = [batch EXCEPT ![m] = @ \ {p}]
              /\ Patched \subseteq Patched'
              /\ p \in Frozen \cup Patched'
<1>1. PICK p \in batch[m] :
        /\ ApplyPatch(p) \/ ((Refuses(p) \/ Raises(p)) /\ UNCHANGED patcherVars)
        /\ batch' = [batch EXCEPT ![m] = @ \ {p}]
  BY DEF ApplyPending
<1>2. p \in Points /\ ModuleOf[p] = m
  BY DEF QueueInv, PointsIn
<1>3. attr[p] # Missing
  BY <1>2 DEF ApplyPending, Advances, AttributesInv, Executed
<1>4. CASE ApplyPatch(p)
  BY <1>1, <1>2, <1>4, ApplyPatches
<1>5. CASE (Refuses(p) \/ Raises(p)) /\ UNCHANGED patcherVars
  BY <1>1, <1>2, <1>3, <1>5 DEF Refuses, Raises, Patched, patcherVars
<1> QED BY <1>1, <1>4, <1>5

LEMMA PromiseInductive ==
    ASSUME TypeOK, AttributesInv, HandlerInv, LeftoverInv, QueueInv,
           PromiseInv, [Next]_vars
    PROVE  PromiseInv'
<1> USE DEF TypeOK, HookTypeOK
<1>1. ASSUME NEW m \in Modules, ImportNext(m) PROVE PromiseInv'
  <2> USE DEF PromiseInv
  <2>1. UNCHANGED doomed BY <1>1 DEF ImportNext, agentVars
  <2>2. CASE SeePending(m)
    <3>1. pending[m] \cap doomed = {}
      BY <2>2, PatchedIsExecuted
         DEF SeePending, Advances, LeftoverInv, QueueInv, PointsIn, Executed
    <3>2. Patched' = Patched BY <2>2 DEF SeePending, Patched, patcherVars
    <3> QED BY <2>1, <2>2, <3>1, <3>2 DEF SeePending, Advances, Hooking
  <2>3. CASE ImportFails(m)
    BY <2>1, <2>3 DEF ImportFails, Advances, Hooking, Patched, patcherVars
  <2>4. CASE TakePending(m)
    BY <2>1, <2>4
       DEF TakePending, Advances, Hooking, Patched, patcherVars, QueueInv
  <2>5. CASE ApplyPending(m)
    <3>1. PICK p \in batch[m] : /\ batch' = [batch EXCEPT ![m] = @ \ {p}]
                                /\ Patched \subseteq Patched'
                                /\ p \in Frozen \cup Patched'
      BY <2>5, LoaderSettles
    <3>2. /\ imports[m] = "applying"
          /\ \E to \in {"ready", "applying"} :
                imports' = [imports EXCEPT ![m] = to]
          /\ UNCHANGED <<hooked, pending, promised>>
      BY <2>5 DEF ApplyPending, Advances
    <3> SUFFICES ASSUME NEW n \in Modules PROVE PromiseInv!(n)'
      OBVIOUS
    <3>3. CASE n = m BY <2>1, <3>1, <3>2, <3>3 DEF Hooking
    <3>4. CASE n # m BY <2>1, <3>1, <3>2, <3>4
    <3> QED BY <3>3, <3>4
  <2>6. CASE ExecModule(m)
    BY <2>1, <2>6 DEF ExecModule, Advances, Hooking, Patched
  <2>7. CASE WrapLoader(m)
    BY <2>1, <2>7 DEF WrapLoader, Advances, Hooking, Patched, patcherVars
  <2>8. CASE BeginImport(m) \/ NotPending(m) \/ StepAside(m) \/ EnterModule(m)
    BY <2>1, <2>8 DEF BeginImport, NotPending, StepAside, EnterModule,
                      Advances, Hooking, Patched, patcherVars
  <2> QED BY <1>1, <2>2, <2>3, <2>4, <2>5, <2>6, <2>7, <2>8
          DEF ImportNext, ContinueImport
<1>2. CASE AddBean \/ RegisterPending
  <2>1. PICK b \in Points \X Nat, otherwise \in {"registering", "queueing"} :
            TryPatch(b, otherwise)
    BY <1>2 DEF AddBean, RegisterPending
  <2>2. Patched \subseteq Patched'
    BY <2>1, ApplyPatches DEF TryPatch, PointOf, Patched, patcherVars
  <2> QED BY <1>2, <2>2
          DEF PromiseInv, AddBean, RegisterPending, HookUntouched, agentVars
<1>3. CASE QueuePending
  BY <1>3 DEF PromiseInv, QueuePending, Enqueue, Patched, patcherVars,
              agentVars
<1>4. CASE ListPatches BY <1>4 DEF PromiseInv, ListPatches
<1>5. CASE RemoveNext
  <2>1. PICK p \in doomed : RemovePatch(p) /\ doomed' = doomed \ {p}
    BY <1>5 DEF RemoveNext
  <2>2. Patched' = Patched \ {p}
    BY <2>1 DEF RemovePatch, Patched, PatcherTypeOK
  <2> QED BY <1>5, <2>1, <2>2 DEF PromiseInv, RemoveNext, hookVars
<1>6. CASE /\ UNCHANGED <<imports, hooked, batch, pending, promised, doomed>>
           /\ UNCHANGED patches
  BY <1>6 DEF PromiseInv, Patched
<1> QED
  BY <1>1, <1>2, <1>3, <1>4, <1>5, <1>6
     DEF Next, HandlerStep, StopStep, LazyLoad, Start, Install, StartFails,
         Serve, Shutdown, UninstallHook, Uninstall, Unload, vars, hookVars,
         patcherVars, agentVars

LEMMA LoadedInductive ==
    ASSUME TypeOK, AttributesInv, HandlerInv, QueueInv, LoadedInv, [Next]_vars
    PROVE  LoadedInv'
<1> USE DEF TypeOK, HookTypeOK, LoadedInv
<1>1. ASSUME NEW m \in Modules, ImportNext(m) PROVE LoadedInv'
  <2>1. UNCHANGED <<main, loaded, beans>>
    BY <1>1 DEF ImportNext, agentVars, handlerVars
  <2>2. CASE TakePending(m)
    BY <2>1, <2>2, ModulesAssumption
       DEF TakePending, Patched, patcherVars, QueueInv, Advances, Loadable
  <2>3. CASE ApplyPending(m)
    <3>1. PICK p \in batch[m] : /\ batch' = [batch EXCEPT ![m] = @ \ {p}]
                                /\ Patched \subseteq Patched'
                                /\ p \in Frozen \cup Patched'
      BY <2>3, LoaderSettles
    <3>2. UNCHANGED pending BY <2>3 DEF ApplyPending
    <3>3. p \in Frozen => ~Loadable(TargetOf[p])
      BY DEF Loadable, PointsOf
    <3> QED BY <2>1, <3>1, <3>2, <3>3, ModulesAssumption DEF Loadable
  <2>4. CASE UNCHANGED <<patches, pending, batch>>
    BY <2>1, <2>4 DEF Patched, Loadable
  <2> QED
    BY <1>1, <2>2, <2>3, <2>4
       DEF ImportNext, ContinueImport, BeginImport, NotPending, SeePending,
           StepAside, ImportFails, WrapLoader, EnterModule, ExecModule,
           patcherVars
<1>2. ASSUME NEW target \in Targets, LazyLoad(target) PROVE LoadedInv'
  <2>1. /\ main = "running" /\ main' = main
        /\ loaded' = loaded \cup {target}
        /\ beans = {} /\ beans' = BeansOf(target)
        /\ UNCHANGED <<patches, pending, batch>>
    BY <1>2 DEF LazyLoad, HandlerInv, patcherVars, hookVars, agentVars
  <2>2. ASSUME NEW p \in Points, TargetOf[p] = target
        PROVE  \E b \in beans' : p = PointOf(b)
    <3>1. 1 \in 1 .. copies /\ <<p, 1>> \in beans'
      BY <2>1, <2>2 DEF HandlerInv, BeansOf, PointsOf
    <3> QED BY <3>1 DEF PointOf
  <2> QED BY <2>1, <2>2 DEF Patched, Loadable
<1>3. ASSUME NEW b \in beans, NEW otherwise, TryPatch(b, otherwise),
             HookUntouched, UNCHANGED agentVars
      PROVE  LoadedInv'
  <2>1. UNCHANGED <<main, loaded, pending, batch>>
    BY <1>3 DEF TryPatch, NextBean, Abort, HookUntouched, agentVars
  <2>2. CASE ApplyPatch(PointOf(b)) /\ NextBean(b)
    <3>1. Patched' = Patched \cup {PointOf(b)}
      BY <2>2, ApplyPatches DEF PointOf
    <3>2. \A c \in beans : c \in beans' \/ PointOf(c) = PointOf(b)
      BY <2>2 DEF NextBean
    <3> QED BY <2>1, <3>1, <3>2 DEF Loadable
  <2>3. CASE Raises(PointOf(b)) /\ Abort /\ UNCHANGED patcherVars
    <3>1. PointOf(b) \in PointsOf(TargetOf[PointOf(b)]) \cap Frozen
      BY <2>3 DEF Raises, PointsOf, PointOf
    <3>2. \A c \in beans : ~Loadable(TargetOf[PointOf(c)])
      BY <3>1 DEF HandlerInv, Loadable
    <3> QED BY <2>1, <2>3, <3>2 DEF Abort, Patched, patcherVars, Loadable
  <2>4. CASE UNCHANGED <<patcherVars, beans>>
    BY <2>1, <2>4 DEF Patched, patcherVars, Loadable
  <2> QED BY <1>3, <2>2, <2>3, <2>4 DEF TryPatch
<1>4. CASE QueuePending
  <2>1. /\ bean \in beans /\ PointOf(bean) \in Points
        /\ beans' = beans \ {bean}
        /\ pending' = [pending EXCEPT ![ModuleOf[PointOf(bean)]] =
                            @ \cup {PointOf(bean)}]
        /\ UNCHANGED <<main, loaded, patches, batch>>
    BY <1>4 DEF QueuePending, Enqueue, NextBean, HandlerInv, PointOf,
                patcherVars, agentVars
  <2>2. \A p \in Points :
            p \in pending[ModuleOf[p]] => p \in pending'[ModuleOf[p]]
    BY <2>1, ModulesAssumption
  <2>3. PointOf(bean) \in pending'[ModuleOf[PointOf(bean)]]
    BY <2>1, ModulesAssumption
  <2>4. \A c \in beans : c \in beans' \/ c = bean BY <2>1
  <2> QED BY <2>1, <2>2, <2>3, <2>4 DEF Patched, Loadable
<1>5. CASE Serve
  BY <1>5 DEF Serve, Advance, HandlerInv, handlerVars
<1>6. CASE main' \notin {"running", "draining"} BY <1>6
<1>7. CASE /\ UNCHANGED <<patches, pending, batch, loaded, beans>>
           /\ main' \in {"running", "draining"}
                 => main \in {"running", "draining"}
  BY <1>7 DEF Patched, Loadable
<1> QED
  BY <1>1, <1>2, <1>3, <1>4, <1>5, <1>6, <1>7
     DEF Next, HandlerStep, StopStep, AddBean, RegisterPending, HandlerInv,
         Start, StartFails, Shutdown, ListPatches, RemoveNext, UninstallHook,
         Unload, Advance, vars, hookVars, patcherVars, agentVars, handlerVars

(* All of it together: the invariant the theorems below rest on.           *)
THEOREM InductiveCorrect == Spec => []Inductive
<1>1. ASSUME Init PROVE Inductive
  <2>1. AttributesInv
    BY <1>1, ModulesAssumption, AbsenceAssumption
       DEF Init, PatcherInit, HookInit, AttributesInv, WrappedOnce, Executed
  <2>2. QueueInv BY <1>1 DEF Init, HookInit, QueueInv
  <2>3. PromiseInv BY <1>1 DEF Init, HookInit, PromiseInv
  <2>4. LoadedInv BY <1>1 DEF Init, LoadedInv
  <2> QED BY <1>1, <2>1, <2>2, <2>3, <2>4, LifeInit DEF Inductive
<1>2. ASSUME TypeOK, Inductive, [Next]_vars PROVE Inductive'
  BY <1>2, AttributesInductive, HandlerInductive, LeftoverInductive,
     QueueInductive, PromiseInductive, LoadedInductive DEF Inductive
<1> QED BY <1>1, <1>2, TypeCorrect, PTL DEF Spec

(* A point queued when the import of its module reached the hook is        *)
(* patched when that import is over.                                       *)
THEOREM PromisesKept == Spec => []PromisedIsPatched
<1>1. ASSUME Inductive PROVE PromisedIsPatched
  <2> SUFFICES ASSUME NEW m \in Modules, imports[m] = "ready",
                      NEW p \in promised[m], p \notin Frozen
               PROVE  p \in Patched
    BY DEF PromisedIsPatched
  <2>1. batch[m] = {} BY <1>1 DEF Inductive, QueueInv
  <2> QED BY <1>1, <2>1 DEF Inductive, PromiseInv, Hooking
<1> QED BY <1>1, InductiveCorrect, PTL

(* No point of a loaded target is forgotten.                               *)
THEOREM NothingForgotten == Spec => []LoadedIsNotForgotten
<1>1. ASSUME Inductive PROVE LoadedIsNotForgotten
  BY <1>1 DEF Inductive, HandlerInv, LoadedInv, LoadedIsNotForgotten, PointsOf
<1> QED BY <1>1, InductiveCorrect, PTL

-----------------------------------------------------------------------------
(***************************************************************************)
(* PatchLifecycle implements PatchPlan.  The lemmas say which step of      *)
(* PatchPlan a step of each of the three parties is.                       *)
(***************************************************************************)
Implemented == Plan!PlanNext \/ UNCHANGED Plan!planVars

(* How the shape of a point reads off its attribute and its author.        *)
LEMMA Shapes ==
    ASSUME TypeOK, AttributesInv, NEW p \in Points
    PROVE  /\ PlanShape[p] = "undefined" <=> attr[p] = Missing
           /\ PlanShape[p] = "original" <=> attr[p] = 0
           /\ PlanShape[p] \in Plan!Wrappers <=> p \in Patched
           /\ PlanShape[p] = "wrapped by request"
                => p \in Patched /\ author[p] = "request"
<1>1. p \in Patched <=> attr[p] = 1
  BY AbsenceAssumption DEF AttributesInv, WrappedOnce, Patched
<1>2. attr[p] \in {0, 1, Missing} /\ Missing # 0 /\ Missing # 1
  BY AbsenceAssumption DEF AttributesInv, WrappedOnce
<1> QED BY <1>1, <1>2 DEF PlanShape, Plan!Wrappers

(* Wrapping an original changes the shape of that function alone.          *)
LEMMA WrapShape ==
    ASSUME TypeOK, AttributesInv, NEW p \in Points, ApplyPatch(p),
           NEW by \in {"request", "import"},
           author' = [author EXCEPT ![p] = by]
    PROVE  /\ PlanShape[p] = "original"
           /\ p \notin Frozen
           /\ PlanShape' = [PlanShape EXCEPT ![p] =
                                IF by = "request" THEN "wrapped by request"
                                                  ELSE "wrapped by import"]
<1>1. attr[p] = 0 /\ 0 # Missing /\ 1 # Missing
  BY AbsenceAssumption DEF ApplyPatch, Refuses, AttributesInv, WrappedOnce
<1>2. attr' = [attr EXCEPT ![p] = 1] /\ p \notin Frozen
  BY <1>1 DEF ApplyPatch
<1>3. DOMAIN attr = Points /\ DOMAIN author = Points
  BY DEF TypeOK, PatcherTypeOK, HookTypeOK
<1>4. attr'[p] = 1 /\ author'[p] = by BY <1>2, <1>3
<1>5. ASSUME NEW q \in Points, q # p PROVE PlanShape'[q] = PlanShape[q]
  BY <1>2, <1>3, <1>5 DEF PlanShape
<1>6. PlanShape'[p] = IF by = "request" THEN "wrapped by request"
                                        ELSE "wrapped by import"
  <2>1. attr'[p] # Missing /\ attr'[p] # 0 BY <1>1, <1>4
  <2>2. PlanShape'[p] = IF author'[p] = "request" THEN "wrapped by request"
                                                  ELSE "wrapped by import"
    BY <2>1 DEF PlanShape
  <2> QED BY <1>4, <2>2
<1>7. PlanShape[p] = "original" BY <1>1 DEF PlanShape
<1>8. PlanShape' = [q \in Points |-> PlanShape'[q]] BY DEF PlanShape
<1>9. PlanShape = [q \in Points |-> PlanShape[q]] BY DEF PlanShape
<1> QED BY <1>2, <1>5, <1>6, <1>7, <1>8, <1>9

(* Most steps disturb neither a shape nor what may be wrapped.             *)
LEMMA Unseen ==
    ASSUME UNCHANGED <<attr, author>>
    PROVE  PlanShape' = PlanShape
BY DEF PlanShape

(* An import defines its functions, wraps them, or gives up on one that    *)
(* is wrapped already or never can be.                                     *)
LEMMA ImportImplements ==
    ASSUME TypeOK, Inductive, NEW m \in Modules, ImportNext(m)
    PROVE  Implemented
<1> USE ModulesAssumption DEF Inductive, TypeOK, HookTypeOK
<1>1. PlanStage' = PlanStage /\ UNCHANGED loaded
  BY DEF ImportNext, agentVars, handlerVars, PlanStage
<1>2. CASE ExecModule(m)
  <2>1. /\ imports[m] = "executing"
        /\ attr' = [p \in Points |-> IF p \in PointsIn(m) THEN 0 ELSE attr[p]]
        /\ UNCHANGED <<author, pending, batch>>
    BY <1>2 DEF ExecModule, Advances
  <2>2. \A p \in PointsIn(m) : PlanShape[p] = "undefined"
    BY <2>1, Shapes DEF AttributesInv, Executed, PointsIn
  <2>3. PlanShape' = [p \in Points |-> IF p \in PointsIn(m) THEN "original"
                                                           ELSE PlanShape[p]]
    <3>1. 0 # Missing BY AbsenceAssumption
    <3>2. ASSUME NEW p \in Points
          PROVE  PlanShape'[p] = IF p \in PointsIn(m) THEN "original"
                                                      ELSE PlanShape[p]
      <4>1. attr'[p] = (IF p \in PointsIn(m) THEN 0 ELSE attr[p])
            /\ author'[p] = author[p]
        BY <2>1
      <4> QED BY <3>1, <4>1 DEF PlanShape
    <3>3. PlanShape' = [p \in Points |-> PlanShape'[p]] BY DEF PlanShape
    <3> QED BY <3>2, <3>3
  <2>4. PlanAsked' = PlanAsked BY <1>1, <2>1 DEF PlanAsked
  <2>5. Plan!Define(PointsIn(m))
    BY <1>1, <2>2, <2>3, <2>4 DEF Plan!Define
  <2> QED BY <2>5 DEF Implemented, Plan!PlanNext, PointsIn
<1>3. CASE TakePending(m)
  <2>1. PlanAsked' = PlanAsked
    BY <1>1, <1>3 DEF TakePending, Advances, PlanAsked, QueueInv
  <2>2. UNCHANGED <<attr, author>> BY <1>3 DEF TakePending, patcherVars
  <2> QED BY <1>1, <2>1, <2>2, Unseen DEF Implemented, Plan!planVars
<1>4. CASE ApplyPending(m)
  <2>1. PICK p \in batch[m] :
          /\ \/ ApplyPatch(p) /\ author' = [author EXCEPT ![p] = "import"]
             \/ (Refuses(p) \/ Raises(p)) /\ UNCHANGED <<patcherVars, author>>
          /\ batch' = [batch EXCEPT ![m] = @ \ {p}]
    BY <1>4 DEF ApplyPending
  <2>2. p \in Points /\ ModuleOf[p] = m /\ attr[p] # Missing
    BY <1>4 DEF ApplyPending, Advances, AttributesInv, QueueInv, PointsIn,
                Executed
  <2>3. p \in PlanAsked /\ PlanAsked' \in {PlanAsked, PlanAsked \ {p}}
    <3>1. UNCHANGED pending BY <1>4 DEF ApplyPending
    <3>2. \A q \in Points : q # p => (q \in PlanAsked' <=> q \in PlanAsked)
      BY <1>1, <2>1, <2>2, <3>1 DEF PlanAsked
    <3>3. p \in PlanAsked BY <2>2 DEF PlanAsked
    <3>4. PlanAsked \subseteq Points /\ PlanAsked' \subseteq Points
      BY DEF PlanAsked
    <3>5. CASE p \in PlanAsked'
      <4>1. \A q \in Points : q \in PlanAsked' <=> q \in PlanAsked
        BY <3>2, <3>3, <3>5
      <4>2. PlanAsked' = PlanAsked BY <3>4, <4>1
      <4> QED BY <3>3, <4>2
    <3>6. CASE p \notin PlanAsked'
      <4>1. PlanAsked' = PlanAsked \ {p} BY <3>2, <3>4, <3>6
      <4> QED BY <3>3, <4>1
    <3> QED BY <3>5, <3>6
  <2>4. CASE ApplyPatch(p) /\ author' = [author EXCEPT ![p] = "import"]
    <3>1. /\ PlanShape[p] = "original" /\ p \notin Frozen
          /\ PlanShape' = [PlanShape EXCEPT ![p] = "wrapped by import"]
      BY <2>2, <2>4, WrapShape
    <3>2. Plan!WrapByImport(p)
      BY <1>1, <2>3, <3>1 DEF Plan!WrapByImport, Plan!Wrap
    <3> QED BY <2>2, <3>2 DEF Implemented, Plan!PlanNext
  <2>5. CASE (Refuses(p) \/ Raises(p)) /\ UNCHANGED <<patcherVars, author>>
    <3>1. PlanShape' = PlanShape BY <2>5, Unseen DEF patcherVars
    <3>2. p \in Frozen \/ PlanShape[p] \in Plan!Wrappers
      BY <2>2, <2>5, Shapes DEF Refuses, Raises, Patched
    <3>3. CASE PlanAsked' = PlanAsked
      BY <1>1, <3>1, <3>3 DEF Implemented, Plan!planVars
    <3>4. CASE PlanAsked' = PlanAsked \ {p}
      <4>1. Plan!GiveUp({p}) BY <1>1, <3>1, <3>2, <3>4 DEF Plan!GiveUp
      <4> QED BY <2>2, <4>1 DEF Implemented, Plan!PlanNext
    <3> QED BY <2>3, <3>3, <3>4
  <2> QED BY <2>1, <2>4, <2>5
<1>5. CASE UNCHANGED <<attr, author, pending, batch>>
  BY <1>1, <1>5, Unseen DEF Implemented, Plan!planVars, PlanAsked
<1> QED
  BY <1>2, <1>3, <1>4, <1>5
     DEF ImportNext, ContinueImport, BeginImport, NotPending, SeePending,
         StepAside, ImportFails, WrapLoader, EnterModule, patcherVars

(* A request asks for the functions of its target, and wraps what it can.  *)
LEMMA RequestImplements ==
    ASSUME TypeOK, Inductive,
           HandlerStep \/ \E target \in Targets : LazyLoad(target)
    PROVE  Implemented
<1> USE DEF Inductive, TypeOK, HookTypeOK
<1>1. PlanStage' = PlanStage
  BY DEF HandlerStep, AddBean, RegisterPending, QueuePending, LazyLoad,
         agentVars, PlanStage
<1>2. ASSUME NEW target \in Targets, LazyLoad(target) PROVE Implemented
  <2>1. PlanShape' = PlanShape
    BY <1>2, Unseen DEF LazyLoad, patcherVars, hookVars
  <2>2. PlanAsked' = PlanAsked \cup PointsOf(target)
    BY <1>2 DEF LazyLoad, hookVars, PlanAsked, PointsOf
  <2>3. Plan!Ask(PointsOf(target))
    BY <1>1, <1>2, <2>1, <2>2 DEF LazyLoad, Plan!Ask, PlanStage
  <2> QED BY <2>3 DEF Implemented, Plan!PlanNext
<1>3. ASSUME NEW b \in beans, NEW otherwise, TryPatch(b, otherwise),
             HookUntouched, handler # "idle"
      PROVE  Implemented
  <2> DEFINE p == PointOf(b)
  <2>0. p \in Points BY DEF PointOf
  <2>1. PlanAsked' = PlanAsked
    BY <1>3 DEF TryPatch, NextBean, Abort, HookUntouched, PlanAsked
  <2>2. CASE ApplyPatch(p) /\ author' = [author EXCEPT ![p] = "request"]
    <3>1. /\ PlanShape[p] = "original" /\ p \notin Frozen
          /\ PlanShape' = [PlanShape EXCEPT ![p] = "wrapped by request"]
      BY <2>0, <2>2, WrapShape
    <3>2. p \in PlanAsked BY <2>0 DEF HandlerInv, PlanAsked
    <3>3. PlanStage \in {"serving", "draining"}
      BY <1>3 DEF HandlerInv, PlanStage
    <3>4. Plan!WrapByRequest(p)
      BY <1>1, <2>1, <3>1, <3>2, <3>3 DEF Plan!WrapByRequest, Plan!Wrap
    <3> QED BY <2>0, <3>4 DEF Implemented, Plan!PlanNext
  <2>3. CASE UNCHANGED <<patcherVars, author>>
    BY <1>1, <2>1, <2>3, Unseen DEF Implemented, Plan!planVars, patcherVars
  <2> QED BY <1>3, <2>2, <2>3 DEF TryPatch
<1>4. CASE AddBean BY <1>3, <1>4 DEF AddBean
<1>5. CASE RegisterPending BY <1>3, <1>5 DEF RegisterPending, HandlerInv
<1>6. CASE QueuePending
  <2> DEFINE p == PointOf(bean)
  <2>1. p \in Points /\ TargetOf[p] \in loaded
    BY <1>6 DEF QueuePending, HandlerInv, PointOf
  <2>2. PlanAsked' = PlanAsked
    BY <1>6, <2>1, ModulesAssumption
       DEF QueuePending, Enqueue, NextBean, PlanAsked
  <2>3. UNCHANGED <<attr, author>>
    BY <1>6 DEF QueuePending, Enqueue, patcherVars
  <2> QED BY <1>1, <2>2, <2>3, Unseen DEF Implemented, Plan!planVars
<1> QED BY <1>2, <1>4, <1>5, <1>6 DEF HandlerStep

(* What stop() takes off is a wrapper, and underneath is the original.     *)
LEMMA RemoveImplements ==
    ASSUME TypeOK, Inductive, RemoveNext
    PROVE  Implemented
<1> USE DEF Inductive, TypeOK, HookTypeOK
<1>1. PICK p \in doomed : RemovePatch(p) BY DEF RemoveNext
<1>2. p \in Patched /\ p \in Points BY DEF LeftoverInv
<1>3. patches[p] = 0 /\ patches[p] # NoRecord
  BY <1>2 DEF AttributesInv, WrappedOnce, Patched
<1>4. attr' = [attr EXCEPT ![p] = 0]
  BY <1>1, <1>3 DEF RemovePatch, PatcherTypeOK
<1>5. PlanShape' = [PlanShape EXCEPT ![p] = "original"]
  <2>1. 0 # Missing BY AbsenceAssumption
  <2>2. author' = author BY DEF RemoveNext, hookVars
  <2>3. attr'[p] = 0 /\ \A q \in Points : q # p => attr'[q] = attr[q]
    BY <1>2, <1>4 DEF PatcherTypeOK
  <2>4. PlanShape'[p] = "original" BY <1>2, <2>1, <2>3 DEF PlanShape
  <2>5. \A q \in Points : q # p => PlanShape'[q] = PlanShape[q]
    BY <2>2, <2>3 DEF PlanShape
  <2>6. /\ PlanShape' = [q \in Points |-> PlanShape'[q]]
        /\ PlanShape = [q \in Points |-> PlanShape[q]]
    BY DEF PlanShape
  <2> QED BY <2>4, <2>5, <2>6
<1>6. PlanShape[p] \in Plan!Wrappers BY <1>2, Shapes
<1>7. /\ PlanStage' = PlanStage /\ PlanStage = "restoring"
      /\ PlanAsked' = PlanAsked
  BY DEF RemoveNext, hookVars, handlerVars, PlanStage, PlanAsked
<1>8. Plan!Restore(p) BY <1>5, <1>6, <1>7 DEF Plan!Restore
<1> QED BY <1>2, <1>8 DEF Implemented, Plan!PlanNext

(* The agent goes up and down; down only when no request's wrapper is left.*)
LEMMA StageImplements ==
    ASSUME TypeOK, Inductive,
           \/ Start \/ StartFails \/ Serve \/ Shutdown
           \/ ListPatches \/ UninstallHook \/ Unload
    PROVE  Implemented
<1> USE DEF Inductive, Implemented, Plan!PlanNext
<1>1. PlanShape' = PlanShape
  BY Unseen DEF Start, Install, StartFails, Serve, Shutdown, ListPatches,
                UninstallHook, Uninstall, Unload, patcherVars, hookVars
<1>2. ~Unload => PlanAsked' = PlanAsked
  BY DEF Start, Install, StartFails, Serve, Shutdown, ListPatches,
         UninstallHook, Uninstall, hookVars, handlerVars, PlanAsked
<1>3. CASE Start \/ StartFails
  <2>1. PlanStage' = PlanStage /\ ~Unload
    BY <1>3 DEF Start, StartFails, Unload, Advance, PlanStage
  <2> QED BY <1>1, <1>2, <2>1 DEF Plan!planVars
<1>4. CASE Serve
  <2>1. PlanStage = "down" /\ PlanStage' = "serving" /\ ~Unload
    BY <1>4 DEF Serve, Unload, Advance, PlanStage
  <2>2. Plan!GoUp BY <1>1, <1>2, <2>1 DEF Plan!GoUp, Plan!Turn
  <2> QED BY <2>2
<1>5. CASE Shutdown
  <2>1. PlanStage = "serving" /\ PlanStage' = "draining" /\ ~Unload
    BY <1>5 DEF Shutdown, Unload, Advance, PlanStage
  <2>2. Plan!Refuse BY <1>1, <1>2, <2>1 DEF Plan!Refuse, Plan!Turn
  <2> QED BY <2>2
<1>6. CASE ListPatches
  <2>1. PlanStage = "draining" /\ PlanStage' = "restoring" /\ ~Unload
    BY <1>6 DEF ListPatches, Unload, Advance, PlanStage
  <2>2. Plan!Drained BY <1>1, <1>2, <2>1 DEF Plan!Drained, Plan!Turn
  <2> QED BY <2>2
<1>7. CASE UninstallHook
  <2>1. PlanStage = "restoring" /\ PlanStage' = "down" /\ ~Unload
    BY <1>7 DEF UninstallHook, Unload, Advance, PlanStage
  <2>2. \A p \in Points : PlanShape[p] # "wrapped by request"
    BY <1>7, Shapes DEF UninstallHook, Advance, LeftoverInv
  <2>3. Plan!GoDown BY <1>1, <1>2, <2>1, <2>2 DEF Plan!GoDown, Plan!Turn
  <2> QED BY <2>3
<1>8. CASE Unload
  <2>1. PlanStage = "down" /\ PlanStage' = PlanStage
    BY <1>8 DEF Unload, Advance, PlanStage
  <2>2. PlanAsked' \subseteq PlanAsked /\ PlanAsked \subseteq Points
    BY <1>8 DEF Unload, hookVars, PlanAsked
  <2>3. Plan!GiveUp(PlanAsked \ PlanAsked')
    BY <1>1, <2>1, <2>2 DEF Plan!GiveUp
  <2>4. PlanAsked \ PlanAsked' \in SUBSET Points BY <2>2
  <2> QED BY <2>3, <2>4
<1> QED BY <1>3, <1>4, <1>5, <1>6, <1>7, <1>8

(* Requests, imports, starts and stops together do what PatchPlan allows   *)
(* and nothing else: a function is wrapped only when asked for, once, and  *)
(* restored by stop() only.                                                *)
THEOREM PatchRefinement == Spec => ImplementsPatchPlan
<1>1. ASSUME Init PROVE Plan!PlanInit
  <2>1. PlanStage = "down" BY <1>1 DEF Init, PlanStage
  <2>2. PlanAsked = {}
    BY <1>1, ModulesAssumption DEF Init, HookInit, PlanAsked
  <2>3. PlanShape = [p \in Points |-> "undefined"]
    BY <1>1 DEF Init, PatcherInit, PlanShape
  <2> QED BY <2>1, <2>2, <2>3 DEF Plan!PlanInit
<1>2. ASSUME TypeOK, Inductive, [Next]_vars
      PROVE  [Plan!PlanNext]_(Plan!planVars)
  <2>1. CASE UNCHANGED vars
    BY <2>1 DEF vars, patcherVars, hookVars, agentVars, handlerVars,
                Plan!planVars, PlanStage, PlanAsked, PlanShape
  <2>2. CASE Next
    <3>1. Implemented
      BY <1>2, <2>2, ImportImplements, RequestImplements, RemoveImplements,
         StageImplements DEF Next, StopStep
    <3> QED BY <3>1 DEF Implemented
  <2> QED BY <1>2, <2>1, <2>2
<1> QED BY <1>1, <1>2, TypeCorrect, InductiveCorrect, PTL
        DEF Spec, ImplementsPatchPlan, Plan!PlanSpec
=============================================================================
