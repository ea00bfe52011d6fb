------------------------------- MODULE Shutdown -------------------------------
(***************************************************************************)
(* The end of the process: SIGTERM and atexit run stop() on the main       *)
(* thread (bootstrap/agent.py), on top of whatever that thread is doing,   *)
(* a section under one of the agent's locks or another stop() included.    *)
(*                                                                         *)
(* None of the locks is reentrant.  What requests, imports and patched     *)
(* calls do under them is in the other modules; here they only take and    *)
(* release them.                                                           *)
(***************************************************************************)
EXTENDS Naturals, Sequences, FiniteSets

CONSTANTS
    MaxSignals,   \* bound: SIGTERMs the process gets
    MaxPatches    \* bound: patches that remove_all has to take off

ASSUME ShutdownAssumption == MaxSignals \in Nat /\ MaxPatches \in Nat

(* DefaultStatusManager._lock, StatusMetric._lock, MonkeyPatcher._lock and *)
(* ImportHook._lock.                                                       *)
Locks == {"status", "metric", "patcher", "hook"}
NoLock == "none"

VARIABLES
    section,   \* the lock under which the application's main thread is
    stops,     \* the stop() calls on the main thread, innermost last
    started,   \* ChaosBladeAgent._started
    closing,   \* shutdown() has asked serve_forever to return
    http,      \* where the HTTP thread is
    wanted,    \* locks its request has yet to take
    using,     \* the lock it waits for or holds
    signals,   \* SIGTERMs so far
    process    \* "running" or "exited"

shutdownVars ==
    <<section, stops, started, closing, http, wanted, using, signals, process>>

Steps == {"check", "await", "list", "listing", "remove", "removing",
          "uninstall", "unload", "unloading", "finish", "done"}

(* The lock a stop() holds at a step, and the one it is about to take.     *)
HeldAt(step) ==
    CASE step \in {"listing", "removing"} -> "patcher"
      [] step = "unloading"               -> "status"
      [] OTHER                            -> NoLock
NeededAt(step) ==
    CASE step \in {"list", "remove"} -> "patcher"
      [] step = "unload"             -> "status"
      [] OTHER                       -> NoLock

Innermost == stops[Len(stops)]
HeldByMain ==
    {section} \cup { HeldAt(stops[i].step) : i \in DOMAIN stops }
HeldByHttp == IF http = "locked" THEN {using} ELSE {}
Free(lock) == lock \notin HeldByMain \cup HeldByHttp

ShutdownInit ==
    /\ section = NoLock
    /\ stops = <<>>
    /\ started = TRUE
    /\ closing = FALSE
    /\ http = "waiting"
    /\ wanted = {}
    /\ using = NoLock
    /\ signals = 0
    /\ process = "running"

mainVars == <<section, stops, started, closing, signals, process>>
httpVars == <<http, wanted, using>>

-----------------------------------------------------------------------------
(* The HTTP thread: a request is read, takes its locks one by one and is   *)
(* answered.  The body of a POST is read for as long as the client takes.  *)
Accept ==
    /\ http = "waiting" /\ ~closing /\ process = "running"
    /\ http' \in {"reading", "handling"}
    /\ wanted' \in SUBSET {"status", "patcher", "hook"}
    /\ UNCHANGED <<mainVars, using>>

ClientSends ==
    /\ http = "reading"
    /\ http' = "handling"
    /\ UNCHANGED <<mainVars, wanted, using>>

WantLock ==
    /\ http = "handling"
    /\ \E lock \in wanted : using' = lock /\ wanted' = wanted \ {lock}
    /\ http' = "wanting"
    /\ UNCHANGED mainVars

(* Mutant: the HTTP thread waits for nobody.                               *)
TakeLockBlindly ==
    /\ http = "wanting"
    /\ http' = "locked"
    /\ UNCHANGED <<mainVars, wanted, using>>

TakeLock ==
    /\ http = "wanting" /\ Free(using)
    /\ http' = "locked"
    /\ UNCHANGED <<mainVars, wanted, using>>

ReleaseLock ==
    /\ http = "locked"
    /\ http' = "handling"
    /\ using' = NoLock
    /\ UNCHANGED <<mainVars, wanted>>

Answer ==
    /\ http = "handling" /\ wanted = {}
    /\ http' = "waiting"
    /\ UNCHANGED <<mainVars, wanted, using>>

EndLoop ==
    /\ http = "waiting" /\ closing
    /\ http' = "ended"
    /\ UNCHANGED <<mainVars, wanted, using>>

-----------------------------------------------------------------------------
(* The application on the main thread.                                     *)
EnterSection ==
    /\ stops = <<>> /\ section = NoLock /\ process = "running"
    /\ \E lock \in Locks : Free(lock) /\ section' = lock
    /\ UNCHANGED <<httpVars, stops, started, closing, signals, process>>

LeaveSection ==
    /\ stops = <<>> /\ section # NoLock
    /\ section' = NoLock
    /\ UNCHANGED <<httpVars, stops, started, closing, signals, process>>

(* A handler runs between any two steps of the main thread, also while it  *)
(* waits for a lock or for the server.                                     *)
Begin(left) == stops' = Append(stops, [step |-> "check", left |-> left])

Sigterm ==
    /\ process = "running" /\ signals < MaxSignals
    /\ signals' = signals + 1
    /\ \E left \in 0..MaxPatches : Begin(left)
    /\ UNCHANGED <<httpVars, section, started, closing, process>>

AtExit ==
    /\ process = "running" /\ stops = <<>> /\ section = NoLock
    /\ \E left \in 0..MaxPatches : Begin(left)
    /\ UNCHANGED <<httpVars, section, started, closing, signals, process>>

-----------------------------------------------------------------------------
(* stop(), step by step.                                                   *)
Stopping(step) ==
    process = "running" /\ stops # <<>> /\ Innermost.step = step

GoTo(step) == stops' = [stops EXCEPT ![Len(stops)].step = step]

(* server.shutdown() asks the loop to end ...                              *)
AskServer ==
    /\ Stopping("check") /\ started
    /\ closing' = TRUE
    /\ GoTo("await")
    /\ UNCHANGED <<httpVars, section, started, signals, process>>

(* Mutant: stop() does not wait for the loop.                              *)
ServerAsked ==
    /\ Stopping("await")
    /\ GoTo("list")
    /\ UNCHANGED <<httpVars, section, started, closing, signals, process>>

(* ... and waits until it has.                                             *)
ServerEnded ==
    /\ Stopping("await") /\ http = "ended"
    /\ GoTo("list")
    /\ UNCHANGED <<httpVars, section, started, closing, signals, process>>

Acquire(from, to) ==
    /\ Stopping(from) /\ Free(NeededAt(from))
    /\ GoTo(to)
    /\ UNCHANGED <<httpVars, section, started, closing, signals, process>>

(* remove_all locks the patcher to list the patches and once for each.     *)
ListPatches == Acquire("list", "listing")
RemovePatch == Acquire("remove", "removing")

NextPatch ==
    /\ \/ Stopping("listing") \/ Stopping("removing")
    /\ stops' = [stops EXCEPT ![Len(stops)] =
          IF @.left = 0 THEN [@ EXCEPT !.step = "uninstall"]
          ELSE [step |-> "remove", left |-> @.left - 1]]
    /\ UNCHANGED <<httpVars, section, started, closing, signals, process>>

(* Mutant: uninstall() takes the lock of the hook.                         *)
UninstallHookLocked ==
    /\ Stopping("uninstall") /\ Free("hook")
    /\ GoTo("unload")
    /\ UNCHANGED <<httpVars, section, started, closing, signals, process>>

(* uninstall() takes no lock.                                              *)
UninstallHook ==
    /\ Stopping("uninstall")
    /\ GoTo("unload")
    /\ UNCHANGED <<httpVars, section, started, closing, signals, process>>

UnloadStatus == Acquire("unload", "unloading")

UnloadRest ==
    /\ Stopping("unloading")
    /\ GoTo("finish")
    /\ UNCHANGED <<httpVars, section, started, closing, signals, process>>

Stopped ==
    /\ Stopping("finish")
    /\ started' = FALSE
    /\ GoTo("done")
    /\ UNCHANGED <<httpVars, section, closing, signals, process>>

(* A stop() that is over, or finds the agent stopped.  The handler ends in *)
(* sys.exit(0), which no code of the agent catches: the calls below are    *)
(* unwound and their locks released.                                       *)
Exit ==
    /\ Stopping("done") \/ (Stopping("check") /\ ~started)
    /\ process' = "exited"
    /\ stops' = <<>>
    /\ section' = NoLock
    /\ UNCHANGED <<httpVars, started, closing, signals>>

-----------------------------------------------------------------------------
ServerStep == WantLock \/ TakeLock \/ ReleaseLock \/ Answer \/ EndLoop
StopStep ==
    \/ AskServer \/ ServerEnded
    \/ ListPatches \/ RemovePatch \/ NextPatch
    \/ UninstallHook \/ UnloadStatus \/ UnloadRest \/ Stopped \/ Exit

ShutdownNext ==
    \/ Accept \/ ClientSends \/ ServerStep
    \/ EnterSection \/ LeaveSection
    \/ Sigterm \/ AtExit
    \/ StopStep

(* The two threads run on; a client need not send what it announced.       *)
ShutdownFairness ==
    WF_shutdownVars(ServerStep) /\ WF_shutdownVars(StopStep)

ShutdownSpec == ShutdownInit /\ [][ShutdownNext]_shutdownVars

-----------------------------------------------------------------------------
(* Locks of the main thread that are out of reach: those of what the       *)
(* innermost stop() has interrupted.                                       *)
Interrupted ==
    {section} \cup { HeldAt(stops[i].step) : i \in 1..(Len(stops) - 1) }

(* The innermost stop() waits for good: for a lock the main thread holds   *)
(* further down, or for a request that waits for such a lock or for its    *)
(* client.                                                                 *)
Stuck ==
    /\ stops # <<>>
    /\ \/ /\ NeededAt(Innermost.step) # NoLock
          /\ NeededAt(Innermost.step) \in Interrupted
       \/ /\ Innermost.step = "await"
          /\ \/ http = "reading"
             \/ http = "wanting" /\ using \in Interrupted

(* Type correctness, and no lock has two holders.                          *)
ShutdownTypeOK ==
    /\ section \in Locks \cup {NoLock}
    /\ stops \in Seq([step : Steps, left : Nat])
    /\ started \in BOOLEAN /\ closing \in BOOLEAN
    /\ http \in {"waiting", "reading", "handling", "wanting", "locked", "ended"}
    /\ wanted \in SUBSET Locks
    /\ using \in Locks \cup {NoLock}
    /\ signals \in 0..MaxSignals
    /\ process \in {"running", "exited"}
    /\ http = "locked" => using # NoLock /\ using \notin HeldByMain

(* A request never runs beside the removal of the patches or the unloading *)
(* of the managers, however many signals arrive during stop().             *)
RequestsEndFirst ==
    \A i \in DOMAIN stops :
        stops[i].step \notin {"check", "await"} => http = "ended"

(* Once stop() has begun the process ends, but for the cases the code      *)
(* leaves open: a signal that interrupts the main thread under a lock that *)
(* stop() or a request under way needs, and a client that stalls.  The     *)
(* lock of a hit counter and, when no request wants it, that of the import *)
(* hook are harmless.                                                      *)
StopEndsOrIsStuck == stops # <<>> ~> (process = "exited" \/ []Stuck)
=============================================================================
