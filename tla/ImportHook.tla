----------------------------- MODULE ImportHook -----------------------------
(***************************************************************************)
(* ImportHook (bootstrap/import_hook.py) inside Python's import system.    *)
(*                                                                         *)
(* Application threads import modules; Python's per-module lock lets one   *)
(* of them import a given module, so the import of each module is one      *)
(* process.  Python walks sys.meta_path without a lock and calls each      *)
(* finder under the global import lock; the hook's own lock guards only    *)
(* _pending.  A module that is not found, or whose body raises, is not     *)
(* modelled, nor is a module taken out of sys.modules again.               *)
(***************************************************************************)
EXTENDS MonkeyPatcher

CONSTANTS
    Modules,     \* the modules the points are in
    ModuleOf,    \* point -> module
    Free         \* nobody holds the global import lock

ASSUME ModulesAssumption == ModuleOf \in [Points -> Modules]
ASSUME FreeAssumption    == Free \notin Modules

VARIABLES
    imports,      \* module -> how far its import is
    hooked,       \* module -> its loader is a _PostImportLoader
    batch,        \* module -> patches its loader has taken and not applied yet
    importLock,   \* the module whose find_spec call holds the import lock
    onPath,       \* how many times the hook is in sys.meta_path
    pending,      \* module -> _pending of the hook
    installed,    \* _installed of the hook
    (* History, read by no action: *)
    promised,     \* module -> points its import found queued
    author        \* point -> who applied its patch last

hookVars == <<imports, hooked, batch, importLock, onPath, pending, installed,
              promised, author>>

ImportPhases == {"absent", "asked", "checked", "searching", "found",
                 "executing", "executed", "applying", "ready"}

PointsIn(m) == { p \in Points : ModuleOf[p] = m }

HookTypeOK ==
    /\ imports \in [Modules -> ImportPhases]
    /\ hooked \in [Modules -> BOOLEAN]
    /\ batch \in [Modules -> SUBSET Points]
    /\ importLock \in Modules \cup {Free}
    /\ onPath \in Nat
    /\ pending \in [Modules -> SUBSET Points]
    /\ installed \in BOOLEAN
    /\ promised \in [Modules -> SUBSET Points]
    /\ author \in [Points -> {"nobody", "request", "import"}]

HookInit ==
    /\ imports = [m \in Modules |-> "absent"]
    /\ hooked = [m \in Modules |-> FALSE]
    /\ batch = [m \in Modules |-> {}]
    /\ importLock = Free
    /\ onPath = 0
    /\ pending = [m \in Modules |-> {}]
    /\ installed = FALSE
    /\ promised = [m \in Modules |-> {}]
    /\ author = [p \in Points |-> "nobody"]

Advances(m, from, to) ==
    imports[m] = from /\ imports' = [imports EXCEPT ![m] = to]

-----------------------------------------------------------------------------
(* The import system begins to walk sys.meta_path.  The hook sits at its   *)
(* head; while another thread's find_spec has taken it off, the walk       *)
(* starts behind it and never comes back to it.                            *)
BeginImport(m) ==
    /\ Advances(m, "absent", IF onPath > 0 THEN "asked" ELSE "found")
    /\ UNCHANGED <<patcherVars, hooked, batch, importLock, onPath, pending,
                   installed, promised, author>>

(* find_spec: nothing is queued for the module.                            *)
NotPending(m) ==
    /\ importLock = Free
    /\ pending[m] = {}
    /\ Advances(m, "asked", "found")
    /\ UNCHANGED <<patcherVars, hooked, batch, importLock, onPath, pending,
                   installed, promised, author>>

(* find_spec: something is; the lock of the hook is released again.        *)
SeePending(m) ==
    /\ importLock = Free
    /\ pending[m] # {}
    /\ Advances(m, "asked", "checked")
    /\ importLock' = m
    /\ promised' = [promised EXCEPT ![m] = pending[m]]
    /\ UNCHANGED <<patcherVars, hooked, batch, onPath, pending, installed,
                   author>>

(* find_spec takes the hook off sys.meta_path.  When it is there twice the *)
(* nested find_spec takes the other off too; the two are one step here.    *)
StepAside(m) ==
    /\ onPath > 0
    /\ Advances(m, "checked", "searching")
    /\ onPath' = 0
    /\ UNCHANGED <<patcherVars, hooked, batch, importLock, pending,
                   installed, promised, author>>

(* find_spec: the hook has been uninstalled meanwhile, list.remove raises  *)
(* ValueError, and the application's import fails with it.                 *)
ImportFails(m) ==
    /\ onPath = 0
    /\ Advances(m, "checked", "absent")
    /\ importLock' = Free
    /\ promised' = [promised EXCEPT ![m] = {}]
    /\ UNCHANGED <<patcherVars, hooked, batch, onPath, pending, installed,
                   author>>

(* A find_spec that does not put the hook back on the path.                *)
WrapLoaderOffPath(m) ==
    /\ Advances(m, "searching", "found")
    /\ hooked' = [hooked EXCEPT ![m] = TRUE]
    /\ importLock' = Free
    /\ UNCHANGED <<patcherVars, batch, onPath, pending, installed, promised,
                   author>>

(* find_spec has the real spec, is back in sys.meta_path unless somebody   *)
(* put it there, and has wrapped the loader.                               *)
WrapLoader(m) ==
    /\ Advances(m, "searching", "found")
    /\ onPath' = IF onPath = 0 THEN 1 ELSE onPath
    /\ hooked' = [hooked EXCEPT ![m] = TRUE]
    /\ importLock' = Free
    /\ UNCHANGED <<patcherVars, batch, pending, installed, promised, author>>

(* The module object is in sys.modules, its body still to run.             *)
EnterModule(m) ==
    /\ Advances(m, "found", "executing")
    /\ UNCHANGED <<patcherVars, hooked, batch, importLock, onPath, pending,
                   installed, promised, author>>

(* The real loader has run the body of the module.                         *)
ExecModule(m) ==
    /\ Advances(m, "executing", IF hooked[m] THEN "executed" ELSE "ready")
    /\ attr' = [p \in Points |-> IF p \in PointsIn(m) THEN 0 ELSE attr[p]]
    /\ UNCHANGED <<patches, hooked, batch, importLock, onPath, pending,
                   installed, promised, author>>

(* A loader that leaves the queue as it is and patches nothing.            *)
TakeNothing(m) ==
    /\ Advances(m, "executed", "ready")
    /\ UNCHANGED <<patcherVars, hooked, batch, importLock, onPath, pending,
                   installed, promised, author>>

(* _apply_pending pops the whole queue of the module...                    *)
TakePending(m) ==
    /\ Advances(m, "executed", "applying")
    /\ batch' = [batch EXCEPT ![m] = pending[m]]
    /\ pending' = [pending EXCEPT ![m] = {}]
    /\ UNCHANGED <<patcherVars, hooked, importLock, onPath, installed,
                   promised, author>>

(* ... and applies one after the other; one that is refused or raises is   *)
(* logged and dropped.                                                     *)
ApplyPending(m) ==
    /\ \E p \in batch[m] :
        /\ \/ /\ ApplyPatch(p)
              /\ author' = [author EXCEPT ![p] = "import"]
           \/ /\ Refuses(p) \/ Raises(p)
              /\ UNCHANGED <<patcherVars, author>>
        /\ batch' = [batch EXCEPT ![m] = @ \ {p}]
        /\ Advances(m, "applying", IF batch[m] = {p} THEN "ready"
                                                     ELSE "applying")
    /\ UNCHANGED <<hooked, importLock, onPath, pending, installed, promised>>

ContinueImport(m) ==
    \/ NotPending(m) \/ SeePending(m) \/ StepAside(m) \/ ImportFails(m)
    \/ WrapLoader(m) \/ EnterModule(m) \/ ExecModule(m) \/ TakePending(m)
    \/ ApplyPending(m)

-----------------------------------------------------------------------------
(* install: does nothing when it has been called before.                   *)
Install ==
    /\ installed' = TRUE
    /\ onPath' = IF installed THEN onPath ELSE onPath + 1
    /\ UNCHANGED <<imports, hooked, batch, importLock, pending, promised,
                   author>>

(* An uninstall that takes for granted that the hook is there.             *)
UninstallBlindly ==
    /\ installed' = FALSE
    /\ onPath' = IF installed THEN onPath - 1 ELSE onPath
    /\ UNCHANGED <<imports, hooked, batch, importLock, pending, promised,
                   author>>

(* uninstall: takes one occurrence off, and does not mind if there is none *)
(* left.  _pending is kept.                                                *)
Uninstall ==
    /\ installed' = FALSE
    /\ onPath' = IF installed /\ onPath > 0 THEN onPath - 1 ELSE onPath
    /\ UNCHANGED <<imports, hooked, batch, importLock, pending, promised,
                   author>>

(* register_pending, its last part: queue the patch.                       *)
Enqueue(p) ==
    /\ pending' = [pending EXCEPT ![ModuleOf[p]] = @ \cup {p}]
    /\ UNCHANGED <<imports, hooked, batch, importLock, onPath, installed,
                   promised, author>>
=============================================================================
