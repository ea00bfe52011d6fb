--------------------------- MODULE DirectInjection ---------------------------
(***************************************************************************)
(* Faults that need no call to meet them (executor/directly_executors.py): *)
(* CpuBurnExecutor and MemoryFillExecutor, as the create and destroy       *)
(* handlers drive them.  One executor serves every experiment of its       *)
(* action: its _running flag, its _workers and its _allocated are shared.  *)
(*                                                                         *)
(* The HTTP thread runs one request at a time; the burning workers run     *)
(* beside it and share _running without a lock.  A stop() is final here:   *)
(* what a later start() loads are other executors.  ProcessKillExecutor    *)
(* keeps no state and undoes nothing; it is left out.                      *)
(***************************************************************************)
EXTENDS Naturals, FiniteSets

CONSTANTS
    Uids,       \* suids of the requests
    Workers,    \* the threads that may ever be started (the bound on them)
    MaxSize,    \* bound on cpu-count, and on the chunks of a memory fill
    Memory,     \* chunks the machine has for _allocated
    NoExp,      \* no experiment is registered under the uid
    NoUid       \* nobody

ASSUME WorkersAssumption == IsFiniteSet(Workers)
ASSUME SizeAssumption == MaxSize \in Nat /\ Memory \in Nat
(* A burn is overlong when one cycle of it, a tenth of a second times      *)
(* cpu-percent / 100, outlasts the two seconds of t.join.                  *)
Burn == [kind : {"burn"}, size : 0..MaxSize, overlong : BOOLEAN]
Fill == [kind : {"fill"}, size : 0..MaxSize]
Experiment == Burn \cup Fill
ASSUME NoExpAssumption == NoExp \notin Experiment
ASSUME NoUidAssumption == NoUid \notin Uids

VARIABLES
    main,          \* the agent's life cycle
    experiments,   \* uid -> what is registered under it
    phase,         \* where the handler of the current request is
    uid,           \* the uid it is at
    left,          \* what create_injection has yet to start or to allocate
    doomed,        \* the uids a destroy has yet to remove
    running,       \* CpuBurnExecutor._running
    workers,       \* CpuBurnExecutor._workers
    toJoin,        \* workers destroy_injection has yet to wait for
    life,          \* worker -> its life
    owner,         \* worker -> the uid in its name
    overlong,      \* workers whose cycle outlasts a join
    allocated,     \* how many chunks MemoryFillExecutor._allocated holds
    fresh          \* history: burns created since _running was last reset

requestVars == <<phase, uid, left, doomed>>
burnVars == <<running, workers, toJoin, life, owner, overlong, fresh>>
vars == <<main, experiments, requestVars, burnVars, allocated>>

Phases == {"idle", "starting", "filling", "undoing", "sweeping", "joining"}

(* Type correctness of every variable.                                     *)
TypeOK ==
    /\ main \in {"running", "draining", "stopped"}
    /\ experiments \in [Uids -> Experiment \cup {NoExp}]
    /\ phase \in Phases
    /\ uid \in Uids \cup {NoUid}
    /\ left \in Nat
    /\ doomed \in SUBSET Uids
    /\ running \in BOOLEAN
    /\ workers \in SUBSET Workers
    /\ toJoin \in SUBSET Workers
    /\ life \in [Workers -> {"unborn", "burning", "ended"}]
    /\ owner \in [Workers -> Uids \cup {NoUid}]
    /\ overlong \in SUBSET Workers
    /\ allocated \in 0..Memory
    /\ fresh \in SUBSET Uids

Init ==
    /\ main = "running"
    /\ experiments = [u \in Uids |-> NoExp]
    /\ phase = "idle"
    /\ uid = NoUid
    /\ left = 0
    /\ doomed = {}
    /\ running = FALSE
    /\ workers = {}
    /\ toJoin = {}
    /\ life = [w \in Workers |-> "unborn"]
    /\ owner = [w \in Workers |-> NoUid]
    /\ overlong = {}
    /\ allocated = 0
    /\ fresh = {}

Burns == { u \in Uids : experiments[u] \in Burn }
Burning == { w \in Workers : life[w] = "burning" }

-----------------------------------------------------------------------------
(* The create handler.                                                     *)

Idle == main = "running" /\ phase = "idle"

(* A create_injection that relies on _running being set already.           *)
CreateBurnUnset(u, e) ==
    /\ Idle
    /\ experiments[u] = NoExp
    /\ experiments' = [experiments EXCEPT ![u] = e]
    /\ phase' = "starting"
    /\ uid' = u
    /\ left' = e.size
    /\ fresh' = fresh \cup {u}
    /\ UNCHANGED <<main, doomed, running, workers, toJoin, life, owner,
                   overlong, allocated>>

(* Register, then CpuBurnExecutor.create_injection sets the flag...        *)
CreateBurn(u, e) ==
    /\ Idle
    /\ experiments[u] = NoExp
    /\ experiments' = [experiments EXCEPT ![u] = e]
    /\ phase' = "starting"
    /\ uid' = u
    /\ left' = e.size
    /\ running' = TRUE
    /\ fresh' = fresh \cup {u}
    /\ UNCHANGED <<main, doomed, workers, toJoin, life, owner, overlong,
                   allocated>>

(* A loop that starts one worker too many.                                 *)
StartOneMore ==
    /\ phase = "starting"
    /\ \E w \in Workers :
        /\ life[w] = "unborn"
        /\ life' = [life EXCEPT ![w] = "burning"]
        /\ owner' = [owner EXCEPT ![w] = uid]
        /\ workers' = workers \cup {w}
        /\ overlong' = IF experiments[uid].overlong THEN overlong \cup {w}
                                                    ELSE overlong
    /\ left' = left - 1
    /\ UNCHANGED <<main, experiments, phase, uid, doomed, running, toJoin,
                   allocated, fresh>>

(* ... and starts the workers one by one.                                  *)
StartWorker ==
    /\ phase = "starting"
    /\ left > 0
    /\ \E w \in Workers :
        /\ life[w] = "unborn"
        /\ life' = [life EXCEPT ![w] = "burning"]
        /\ owner' = [owner EXCEPT ![w] = uid]
        /\ workers' = workers \cup {w}
        /\ overlong' = IF experiments[uid].overlong THEN overlong \cup {w}
                                                    ELSE overlong
    /\ left' = left - 1
    /\ UNCHANGED <<main, experiments, phase, uid, doomed, running, toJoin,
                   allocated, fresh>>

(* Register, then MemoryFillExecutor.create_injection: chunk by chunk.     *)
CreateFill(u, e) ==
    /\ Idle
    /\ experiments[u] = NoExp
    /\ experiments' = [experiments EXCEPT ![u] = e]
    /\ phase' = "filling"
    /\ uid' = u
    /\ left' = e.size
    /\ UNCHANGED <<main, doomed, burnVars, allocated>>

Allocate ==
    /\ phase = "filling"
    /\ left > 0
    /\ allocated < Memory
    /\ allocated' = allocated + 1
    /\ left' = left - 1
    /\ UNCHANGED <<main, experiments, phase, uid, doomed, burnVars>>

(* MemoryError: what has been allocated has to do.                         *)
AllocateShort ==
    /\ phase = "filling"
    /\ left > 0
    /\ allocated = Memory
    /\ left' = 0
    /\ UNCHANGED <<main, experiments, phase, uid, doomed, burnVars, allocated>>

(* create_injection returns and pre_create does not raise.                 *)
CreateDone ==
    /\ phase \in {"starting", "filling"}
    /\ left = 0
    /\ phase' = "idle"
    /\ uid' = NoUid
    /\ UNCHANGED <<main, experiments, left, doomed, burnVars, allocated>>

(* A thread cannot be started, or pre_create raises.                       *)
CreateFails ==
    /\ \/ phase = "starting" /\ left > 0
       \/ phase \in {"starting", "filling"} /\ left = 0
    /\ phase' = "undoing"
    /\ left' = 0
    /\ UNCHANGED <<main, experiments, uid, doomed, burnVars, allocated>>

(* The handler takes the registration back, and nothing else.              *)
UndoCreate ==
    /\ phase = "undoing"
    /\ experiments' = [experiments EXCEPT ![uid] = NoExp]
    /\ phase' = "idle"
    /\ uid' = NoUid
    /\ fresh' = fresh \ {uid}
    /\ UNCHANGED <<main, left, doomed, running, workers, toJoin, life, owner,
                   overlong, allocated>>

-----------------------------------------------------------------------------
(* The destroy handler, by uid or by target and action.                    *)

Destroy(us) ==
    /\ Idle
    /\ us # {}
    /\ \A u \in us : experiments[u] # NoExp
    /\ phase' = "sweeping"
    /\ doomed' = us
    /\ UNCHANGED <<main, experiments, uid, left, burnVars, allocated>>

(* A destroy_injection that leaves the flag alone.                         *)
StopBurnUnset ==
    /\ phase = "sweeping"
    /\ \E u \in doomed \cap Burns :
        /\ experiments' = [experiments EXCEPT ![u] = NoExp]
        /\ doomed' = doomed \ {u}
    /\ toJoin' = workers
    /\ fresh' = {}
    /\ phase' = "joining"
    /\ UNCHANGED <<main, uid, left, running, workers, life, owner, overlong,
                   allocated>>

(* remove_exp, then CpuBurnExecutor.destroy_injection: reset the flag...   *)
StopBurn ==
    /\ phase = "sweeping"
    /\ \E u \in doomed \cap Burns :
        /\ experiments' = [experiments EXCEPT ![u] = NoExp]
        /\ doomed' = doomed \ {u}
    /\ running' = FALSE
    /\ toJoin' = workers
    /\ fresh' = {}
    /\ phase' = "joining"
    /\ UNCHANGED <<main, uid, left, workers, life, owner, overlong, allocated>>

(* ... wait for each worker, whichever experiment started it...            *)
Join ==
    /\ phase = "joining"
    /\ \E w \in toJoin : life[w] = "ended" /\ toJoin' = toJoin \ {w}
    /\ UNCHANGED <<main, experiments, requestVars, running, workers, life,
                   owner, overlong, allocated, fresh>>

(* A join whose time is shorter than the cycle of a worker.                *)
JoinImpatiently ==
    /\ phase = "joining"
    /\ \E w \in toJoin : life[w] = "burning" /\ toJoin' = toJoin \ {w}
    /\ UNCHANGED <<main, experiments, requestVars, running, workers, life,
                   owner, overlong, allocated, fresh>>

(* ... two seconds at the most...                                          *)
JoinTimesOut ==
    /\ phase = "joining"
    /\ \E w \in toJoin \cap overlong :
        life[w] = "burning" /\ toJoin' = toJoin \ {w}
    /\ UNCHANGED <<main, experiments, requestVars, running, workers, life,
                   owner, overlong, allocated, fresh>>

(* A destroy_injection that clears the list without waiting.               *)
ClearAtOnce ==
    /\ phase = "joining"
    /\ workers' = {}
    /\ toJoin' = {}
    /\ phase' = "sweeping"
    /\ UNCHANGED <<main, experiments, uid, left, doomed, running, life,
                   owner, overlong, allocated, fresh>>

(* ... and clear the list.                                                 *)
ClearWorkers ==
    /\ phase = "joining"
    /\ toJoin = {}
    /\ workers' = {}
    /\ phase' = "sweeping"
    /\ UNCHANGED <<main, experiments, uid, left, doomed, running, toJoin, life,
                   owner, overlong, allocated, fresh>>

(* remove_exp, then MemoryFillExecutor.destroy_injection: every chunk.     *)
FreeMemory ==
    /\ phase = "sweeping"
    /\ \E u \in doomed \ Burns :
        /\ experiments' = [experiments EXCEPT ![u] = NoExp]
        /\ doomed' = doomed \ {u}
    /\ allocated' = 0
    /\ UNCHANGED <<main, phase, uid, left, burnVars>>

DestroyDone ==
    /\ phase = "sweeping"
    /\ doomed = {}
    /\ phase' = "idle"
    /\ UNCHANGED <<main, experiments, uid, left, doomed, burnVars, allocated>>

-----------------------------------------------------------------------------
(* A worker that also asks whether it is still on the list.                *)
EndIfListed(w) ==
    /\ life[w] = "burning"
    /\ ~running
    /\ w \in workers
    /\ life' = [life EXCEPT ![w] = "ended"]
    /\ UNCHANGED <<main, experiments, requestVars, running, workers, toJoin,
                   owner, overlong, allocated, fresh>>

(* _burn_cpu, between two cycles, finds the flag reset.  When it finds it  *)
(* set it goes on, whoever set it.                                         *)
EndBurn(w) ==
    /\ life[w] = "burning"
    /\ ~running
    /\ life' = [life EXCEPT ![w] = "ended"]
    /\ UNCHANGED <<main, experiments, requestVars, running, workers, toJoin,
                   owner, overlong, allocated, fresh>>

(* ChaosBladeAgent.stop: no new request...                                 *)
Shutdown ==
    /\ main = "running"
    /\ main' = "draining"
    /\ UNCHANGED <<experiments, requestVars, burnVars, allocated>>

(* ... the current one is waited for, and the registry is unloaded; no     *)
(* destroy_injection is called.                                            *)
Unload ==
    /\ main = "draining"
    /\ phase = "idle"
    /\ main' = "stopped"
    /\ experiments' = [u \in Uids |-> NoExp]
    /\ fresh' = {}
    /\ UNCHANGED <<requestVars, running, workers, toJoin, life, owner,
                   overlong, allocated>>

HandlerStep ==
    \/ StartWorker \/ Allocate \/ AllocateShort
    \/ CreateDone \/ CreateFails \/ UndoCreate
    \/ StopBurn \/ Join \/ JoinTimesOut \/ ClearWorkers
    \/ FreeMemory \/ DestroyDone

Next ==
    \/ \E u \in Uids, e \in Burn : CreateBurn(u, e)
    \/ \E u \in Uids, e \in Fill : CreateFill(u, e)
    \/ \E us \in SUBSET Uids : Destroy(us)
    \/ HandlerStep
    \/ \E w \in Workers : EndBurn(w)
    \/ Shutdown \/ Unload

Spec == Init /\ [][Next]_vars

(* The request under way goes on, and a worker ends its cycle.             *)
FairSpec ==
    /\ Spec
    /\ WF_vars(HandlerStep)
    /\ \A w \in Workers : WF_vars(EndBurn(w))

-----------------------------------------------------------------------------
Of(u) == { w \in workers : owner[w] = u }

(* No burning worker is lost: it is on the list of the executor, so that   *)
(* the next destroy waits for it, or was given up after two seconds.       *)
BurningIsListed == Burning \subseteq workers \cup overlong

(* When a destroy of a burn has returned and none was created since, no    *)
(* worker of any experiment burns, but for those it gave up waiting for.   *)
DestroyQuiets ==
    ~running /\ phase # "joining" => Burning \subseteq overlong

(* A burn that has been created, and not undone, burns with all the        *)
(* workers it asked for until the next destroy of a burn: the flag a       *)
(* worker reads was set before it started, and nobody resets it between.   *)
FreshBurnIsFull ==
    phase = "idle" =>
        \A u \in fresh :
            Cardinality(Of(u) \cap Burning) >= experiments[u].size

(***************************************************************************)
(* What makes these inductive.                                             *)
(***************************************************************************)

(* The flag, the list and the workers.                                     *)
FlagInv ==
    /\ BurningIsListed
    /\ \A w \in workers : life[w] # "unborn"
    /\ running => workers \subseteq Burning
    /\ ~running /\ phase # "joining" => workers = {}
    /\ phase = "starting" => running
    /\ phase = "joining" =>
        /\ ~running
        /\ toJoin \subseteq workers
        /\ (workers \ toJoin) \cap Burning \subseteq overlong

(* The workers of a burn, while they are being started and afterwards.     *)
FreshInv ==
    /\ phase \in {"starting", "filling", "undoing"} => uid \in Uids
    /\ phase \in {"starting", "filling"} =>
        /\ experiments[uid] \in Experiment
        /\ phase = "starting" <=> uid \in Burns
    /\ fresh # {} => running
    /\ \A u \in fresh :
        /\ u \in Burns
        /\ phase = "starting" /\ uid = u =>
                Cardinality(Of(u)) + left >= experiments[u].size
        /\ ~(phase \in {"starting", "undoing"} /\ uid = u) =>
                Cardinality(Of(u)) >= experiments[u].size

(* Both together are what the proofs rest on.                              *)
Inductive == FlagInv /\ FreshInv

(* A request always ends: a destroy does not wait for ever for a worker    *)
(* that is slow to look at the flag.                                       *)
RequestsEnd == phase # "idle" ~> phase = "idle"

(* Once no burn is created any more after a destroy, every worker comes to *)
(* an end, those the destroy gave up on included.                          *)
BurnFadesOut == <>[](~running) => <>[](Burning = {})

-----------------------------------------------------------------------------
(* What the documentation says and the code does not do.                   *)

(* "Destroy a single experiment by uid" (destroy_handler.py): whatever     *)
(* else has been destroyed, a burn that is registered burns.               *)
DestroyIsSpecific ==
    phase = "idle" =>
        \A u \in Burns :
            experiments[u].size > 0 => \E w \in Burning : owner[w] = u
=============================================================================
