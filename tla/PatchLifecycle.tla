--------------------------- MODULE PatchLifecycle ---------------------------
(***************************************************************************)
(* When the patches of a plugin are installed and removed: the HTTP thread *)
(* lazily loads a plugin on the first create (create_handler.py), through  *)
(* _PatchLifecycleListener.add; the main thread starts and stops the agent *)
(* (agent.py); application threads import the modules to be patched.  All  *)
(* three share the patcher and the import hook.                            *)
(*                                                                         *)
(* Experiments are left out: ChaosAgent has them, for calls that reach a   *)
(* wrapper.                                                                *)
(***************************************************************************)
EXTENDS ImportHook

CONSTANTS
    Targets,      \* plugin targets; one target may have several plugin beans
    TargetOf,     \* point -> target
    NoBean,       \* the listener is at no bean
    MaxStarts     \* bound on the calls of start()

ASSUME TargetsAssumption == TargetOf \in [Points -> Targets]
ASSUME NoBeanAssumption  == NoBean \notin Points \X Nat
ASSUME StartsAssumption  == MaxStarts \in Nat

VARIABLES
    main,      \* the agent's life cycle
    starts,    \* how often start() was called
    copies,    \* how many beans of each point the plugin manager has
    doomed,    \* identifiers remove_all has yet to remove
    loaded,    \* targets whose PluginBeans.loaded is set
    handler,   \* where the create handler is
    beans,     \* the plugin beans it has yet to add: a point and a copy
    bean       \* the one it is adding

agentVars == <<main, starts, copies, doomed>>
handlerVars == <<loaded, handler, beans, bean>>
vars == <<patcherVars, hookVars, agentVars, handlerVars>>

Stages == {"stopped", "loading", "running", "draining", "removing",
           "unloading"}

(* Type correctness of every variable of the patching side.                *)
TypeOK ==
    /\ PatcherTypeOK
    /\ HookTypeOK
    /\ main \in Stages
    /\ starts \in Nat
    /\ copies \in Nat
    /\ doomed \in SUBSET Points
    /\ loaded \in SUBSET Targets
    /\ handler \in {"idle", "adding", "registering", "queueing"}
    /\ beans \in SUBSET (Points \X Nat)
    /\ bean \in (Points \X Nat) \cup {NoBean}
    /\ handler \in {"registering", "queueing"} => bean \in Points \X Nat

Init ==
    /\ PatcherInit
    /\ HookInit
    /\ main = "stopped"
    /\ starts = 0
    /\ copies = 0
    /\ doomed = {}
    /\ loaded = {}
    /\ handler = "idle"
    /\ beans = {}
    /\ bean = NoBean

-----------------------------------------------------------------------------
(* The create handler and the listener.                                    *)

PointsOf(target) == { p \in Points : TargetOf[p] = target }

(* The plugin manager appends the beans of a plugin once per start(), and  *)
(* drops them in unload() only: a start() that failed leaves them behind.  *)
BeansOf(target) == PointsOf(target) \X (1 .. copies)

PointOf(b) == b[1]

(* _lazy_load_plugin marks the target as loaded before it adds its beans.  *)
LazyLoad(target) ==
    /\ main = "running"
    /\ handler = "idle"
    /\ target \notin loaded
    /\ BeansOf(target) # {}
    /\ loaded' = loaded \cup {target}
    /\ beans' = BeansOf(target)
    /\ handler' = "adding"
    /\ UNCHANGED <<patcherVars, hookVars, agentVars, bean>>

(* The bean is done with: on to the next.                                  *)
NextBean(b) ==
    /\ beans' = beans \ {b}
    /\ handler' = IF beans = {b} THEN "idle" ELSE "adding"
    /\ bean' = NoBean
    /\ UNCHANGED loaded

(* A create that goes on with the other beans at the next request.         *)
AbortKeepingBeans ==
    /\ handler' = "idle"
    /\ bean' = NoBean
    /\ UNCHANGED <<loaded, beans>>

(* An exception ends the create; nothing is undone but its experiment.     *)
Abort ==
    /\ beans' = {}
    /\ handler' = "idle"
    /\ bean' = NoBean
    /\ UNCHANGED loaded

(* apply_patch, for a request: what follows when it returns False?         *)
TryPatch(b, otherwise) ==
    \/ /\ ApplyPatch(PointOf(b))
       /\ author' = [author EXCEPT ![PointOf(b)] = "request"]
       /\ NextBean(b)
    \/ /\ Raises(PointOf(b))
       /\ Abort
       /\ UNCHANGED <<patcherVars, author>>
    \/ /\ Refuses(PointOf(b))
       /\ handler' = otherwise
       /\ bean' = b
       /\ UNCHANGED <<patcherVars, author, loaded, beans>>

HookUntouched == UNCHANGED <<imports, hooked, batch, importLock, onPath,
                             pending, installed, promised>>

(* add tries to patch at once...                                           *)
AddBean ==
    /\ handler = "adding"
    /\ \E b \in beans : TryPatch(b, "registering")
    /\ HookUntouched
    /\ UNCHANGED agentVars

(* A register_pending that waits until the module has been imported.       *)
RegisterWhenImported ==
    /\ handler = "registering"
    /\ TryPatch(bean, "registering")
    /\ HookUntouched
    /\ UNCHANGED agentVars

(* ... register_pending tries again...                                     *)
RegisterPending ==
    /\ handler = "registering"
    /\ TryPatch(bean, "queueing")
    /\ HookUntouched
    /\ UNCHANGED agentVars

(* A register_pending that takes the refusal of an imported module for a   *)
(* patch already there.                                                    *)
QueueUnlessImported ==
    /\ handler = "queueing"
    /\ IF imports[ModuleOf[PointOf(bean)]] \in
            {"executing", "executed", "applying", "ready"}
       THEN UNCHANGED hookVars
       ELSE Enqueue(PointOf(bean))
    /\ NextBean(bean)
    /\ UNCHANGED <<patcherVars, agentVars>>

(* ... and queues the patch, whatever has been imported since.             *)
QueuePending ==
    /\ handler = "queueing"
    /\ Enqueue(PointOf(bean))
    /\ NextBean(bean)
    /\ UNCHANGED <<patcherVars, agentVars>>

HandlerStep == AddBean \/ RegisterPending \/ QueuePending

-----------------------------------------------------------------------------
(* start and stop, by the main thread.                                     *)

Advance(from, to) == main = from /\ main' = to

Start ==
    /\ starts < MaxStarts
    /\ Advance("stopped", "loading")
    /\ starts' = starts + 1
    /\ copies' = copies + 1
    /\ Install
    /\ UNCHANGED <<patcherVars, doomed, handlerVars>>

(* The port is taken: start() raises and the hook stays installed.         *)
StartFails ==
    /\ Advance("loading", "stopped")
    /\ UNCHANGED <<patcherVars, hookVars, starts, copies, doomed, handlerVars>>

Serve ==
    /\ Advance("loading", "running")
    /\ UNCHANGED <<patcherVars, hookVars, starts, copies, doomed, handlerVars>>

(* stop: no new request.                                                   *)
Shutdown ==
    /\ Advance("running", "draining")
    /\ UNCHANGED <<patcherVars, hookVars, starts, copies, doomed, handlerVars>>

(* A stop() that does not wait for the request in progress.                *)
ListPatchesAtOnce ==
    /\ Advance("draining", "removing")
    /\ doomed' = Patched
    /\ UNCHANGED <<patcherVars, hookVars, starts, copies, handlerVars>>

(* The server is down when the last request is; remove_all then lists the  *)
(* identifiers it will remove (and what imports were promised is void)...  *)
ListPatches ==
    /\ handler = "idle"
    /\ Advance("draining", "removing")
    /\ doomed' = Patched
    /\ promised' = [m \in Modules |-> {}]
    /\ UNCHANGED <<patcherVars, imports, hooked, batch, importLock, onPath,
                   pending, installed, author, starts, copies, handlerVars>>

(* ... and removes them one at a time.                                     *)
RemoveNext ==
    /\ main = "removing"
    /\ \E p \in doomed :
        /\ RemovePatch(p)
        /\ doomed' = doomed \ {p}
    /\ UNCHANGED <<hookVars, main, starts, copies, handlerVars>>

UninstallHook ==
    /\ doomed = {}
    /\ Advance("removing", "unloading")
    /\ Uninstall
    /\ UNCHANGED <<patcherVars, starts, copies, doomed, handlerVars>>

(* ManagerFactory.unload drops the plugin beans and their loaded flags.    *)
Unload ==
    /\ Advance("unloading", "stopped")
    /\ loaded' = {}
    /\ copies' = 0
    /\ UNCHANGED <<patcherVars, hookVars, starts, doomed, handler, beans,
                   bean>>

StopStep == ListPatches \/ RemoveNext \/ UninstallHook \/ Unload

-----------------------------------------------------------------------------
ImportNext(m) == /\ BeginImport(m) \/ ContinueImport(m)
                 /\ UNCHANGED <<agentVars, handlerVars>>

Next ==
    \/ \E m \in Modules : ImportNext(m)
    \/ \E target \in Targets : LazyLoad(target)
    \/ HandlerStep
    \/ Start \/ StartFails \/ Serve \/ Shutdown \/ StopStep

Spec == Init /\ [][Next]_vars

(* A thread that imports goes on, and so do a request and a stop() that    *)
(* have begun.                                                             *)
FairSpec ==
    /\ Spec
    /\ \A m \in Modules : WF_vars(ContinueImport(m)
                                  /\ UNCHANGED <<agentVars, handlerVars>>)
    /\ WF_vars(HandlerStep)
    /\ WF_vars(StopStep)

-----------------------------------------------------------------------------
Imported(p) == imports[ModuleOf[p]] = "ready"

(* A target with a point on a type that refuses setattr fails to load for  *)
(* good: the first create aborts, and those after it find it loaded.       *)
Loadable(target) == PointsOf(target) \cap Frozen = {}

(* Requests and imports may try the same patch at the same time, again     *)
(* after a restart, and late: whatever they do, a function is wrapped at   *)
(* most once, and every wrapper has the record that undoes exactly it, so  *)
(* that remove_patch always restores the original.                         *)
WrappedOnce ==
    \A p \in Points :
        IF patches[p] = NoRecord THEN attr[p] \in {0, Missing}
        ELSE patches[p] = 0 /\ attr[p] = 1

(* A patch that outlives remove_all was put in place by an import, never   *)
(* by a request: the server is down before the patches are listed.         *)
LeftoversAreImported ==
    main \in {"unloading", "stopped", "loading"} =>
        \A p \in Patched : author[p] = "import"

(* Once a target is loaded, none of its points is forgotten: each is       *)
(* patched, queued, or in the hands of a loader.                           *)
LoadedIsNotForgotten ==
    main = "running" /\ handler = "idle" =>
        \A target \in loaded :
            Loadable(target) =>
                \A p \in PointsOf(target) :
                    \/ p \in Patched
                    \/ p \in pending[ModuleOf[p]]
                    \/ p \in batch[ModuleOf[p]]

(* A patch that was queued when the import of its module reached the hook  *)
(* is in place when the import is over, unless a stop() came in between.   *)
PromisedIsPatched ==
    \A m \in Modules :
        imports[m] = "ready" => promised[m] \ Frozen \subseteq Patched

(***************************************************************************)
(* What makes these inductive.                                             *)
(***************************************************************************)
Executed == {"executed", "applying", "ready"}
Hooking == {"checked", "searching", "found", "executing", "executed"}

(* An attribute exists once the body of its module has run.                *)
AttributesInv ==
    /\ WrappedOnce
    /\ \A p \in Points :
        attr[p] # Missing <=> imports[ModuleOf[p]] \in Executed

(* A request works on beans of one target, while the server is up.         *)
HandlerInv ==
    /\ handler = "idle" => beans = {}
    /\ handler # "idle" => main \in {"running", "draining"}
    /\ handler \in {"registering", "queueing"} => bean \in beans
    /\ \A b, c \in beans : TargetOf[PointOf(b)] = TargetOf[PointOf(c)]
    /\ \A b \in beans : TargetOf[PointOf(b)] \in loaded
    /\ main \in {"stopped", "loading"} => loaded = {}
    /\ main # "stopped" => copies > 0

(* Patches a request has applied are on the list of remove_all.            *)
LeftoverInv ==
    /\ doomed \subseteq Patched
    /\ main = "removing" =>
        \A p \in Patched \ doomed : author[p] = "import"
    /\ main # "removing" => doomed = {}
    /\ LeftoversAreImported

(* A queue holds points of its own module; a loader empties it once.       *)
QueueInv ==
    \A m \in Modules :
        /\ pending[m] \subseteq PointsIn(m)
        /\ batch[m] \subseteq PointsIn(m)
        /\ promised[m] \subseteq PointsIn(m)
        /\ batch[m] # {} => imports[m] = "applying"

(* Where a promised point is.                                              *)
PromiseInv ==
    \A m \in Modules :
        /\ imports[m] \in {"absent", "asked"} => promised[m] = {}
        /\ promised[m] # {} /\ imports[m] \in {"found", "executing"}
              => hooked[m]
        /\ promised[m] \cap doomed = {}
        /\ \A p \in promised[m] :
            \/ p \in Frozen \cup Patched
            \/ imports[m] \in Hooking /\ p \in pending[m]
            \/ p \in batch[m]

(* Where the points of a loaded target are.                                *)
LoadedInv ==
    main \in {"running", "draining"} =>
        \A p \in Points :
            \/ TargetOf[p] \notin loaded
            \/ ~Loadable(TargetOf[p])
            \/ \E b \in beans : p = PointOf(b)
            \/ p \in Patched \cup pending[ModuleOf[p]] \cup batch[ModuleOf[p]]

(* The six together are what the proofs rest on.                           *)
Inductive ==
    /\ AttributesInv /\ HandlerInv /\ LeftoverInv
    /\ QueueInv /\ PromiseInv /\ LoadedInv

(* An import that has come to the hook ends with the module in place: the  *)
(* hook takes itself off the path and puts itself back around every other  *)
(* import, and no import finds it gone, unless a stop() has uninstalled it *)
(* meanwhile.                                                              *)
ImportsEnd ==
    \A m \in Modules :
        imports[m] = "asked" ~> imports[m] = "ready" \/ ~installed

(* Whatever imports and requests are under way, stop() comes to its end.   *)
StopEnds == main = "draining" ~> main = "stopped"

-----------------------------------------------------------------------------
(***************************************************************************)
(* What PatchPlan sees of all this.                                        *)
(***************************************************************************)
PlanStage ==
    CASE main = "running"  -> "serving"
      [] main = "draining" -> "draining"
      [] main = "removing" -> "restoring"
      [] OTHER             -> "down"

(* A point may be wrapped while its target is loaded, and for as long as   *)
(* it is in a queue or in the hands of a loader.                           *)
PlanAsked ==
    { p \in Points : \/ TargetOf[p] \in loaded
                     \/ p \in pending[ModuleOf[p]] \cup batch[ModuleOf[p]] }

PlanShape ==
    [p \in Points |-> IF attr[p] = Missing THEN "undefined"
                      ELSE IF attr[p] = 0 THEN "original"
                      ELSE IF author[p] = "request" THEN "wrapped by request"
                                                    ELSE "wrapped by import"]

Plan == INSTANCE PatchPlan WITH
    Functions   <- Points,
    Groups      <- { PointsOf(target) : target \in Targets },
    Unwrappable <- Frozen,
    stage       <- PlanStage,
    asked       <- PlanAsked,
    shape       <- PlanShape

(* Requests, imports and the life cycle together implement PatchPlan: a    *)
(* function is wrapped only when asked for, once, restored by stop() only, *)
(* and what stop() leaves wrapped is the work of an import.                *)
ImplementsPatchPlan == Plan!PlanSpec

-----------------------------------------------------------------------------
(* What the documentation promises and the code does not keep.             *)

(* "ImportHook automatically applies patches the first time a module is    *)
(* imported" (README.md): once a target is loaded, its points in modules   *)
(* that are imported are patched.                                          *)
ImportAppliesPatches ==
    main = "running" /\ handler = "idle" =>
        \A p \in Points :
            TargetOf[p] \in loaded /\ Imported(p) /\ Loadable(TargetOf[p])
                => p \in Patched

NoImportRuns == \A m \in Modules : imports[m] \in {"absent", "ready"}

(* "MonkeyPatcher.remove_all() - Restore all original methods"             *)
(* (doc/en/design.md): after stop() no wrapper is left.                    *)
StopRestoresAll ==
    main = "stopped" /\ NoImportRuns =>
        \A p \in Points : attr[p] \in {0, Missing}

(* "ImportHook.uninstall() - Remove from sys.meta_path"                    *)
(* (doc/en/design.md): an uninstalled hook is not on the path.             *)
UninstalledIsOffPath ==
    ~installed /\ NoImportRuns => onPath = 0
=============================================================================
