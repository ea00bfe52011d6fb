--------------------------- MODULE Shutdown_proofs ---------------------------
(***************************************************************************)
(* Proofs about the end of the process: a lock has one holder, and no      *)
(* request runs beside the removal of the patches, for any number of       *)
(* signals and of patches.                                                 *)
(***************************************************************************)
EXTENDS Shutdown, SequenceTheorems, TLAPS

(* A request that waits for a lock waits for one there is.                 *)
WaitsForLock == http = "wanting" => using # NoLock

Invariant == ShutdownTypeOK /\ WaitsForLock /\ RequestsEndFirst

Frames == [step : Steps, left : Nat]
OneHolder == http = "locked" => using # NoLock /\ using \notin HeldByMain

(* The agent begins outside of all locks and with no stop() under way.     *)
THEOREM InitInvariant == ShutdownInit => Invariant
  <1>. SUFFICES ASSUME ShutdownInit PROVE Invariant
    OBVIOUS
  <1>1. stops \in Seq(Frames) /\ DOMAIN stops = {}
    BY EmptySeq DEF ShutdownInit
  <1>2. signals \in 0..MaxSignals
    BY ShutdownAssumption DEF ShutdownInit
  <1>. QED BY <1>1, <1>2
    DEF ShutdownInit, Invariant, ShutdownTypeOK, WaitsForLock,
        RequestsEndFirst, Locks, NoLock, Frames

-----------------------------------------------------------------------------
(* What stop() has yet to do, as the invariant has it.                     *)
LEMMA InnermostType ==
  ASSUME Invariant, stops # <<>>
  PROVE  /\ stops \in Seq(Frames)
         /\ Len(stops) \in 1..Len(stops)
         /\ DOMAIN stops = 1..Len(stops)
         /\ Innermost \in Frames
  <1>1. stops \in Seq(Frames)
    BY DEF Invariant, ShutdownTypeOK, Frames
  <1>2. Len(stops) \in Nat \ {0} /\ DOMAIN stops = 1..Len(stops)
    BY <1>1, EmptySeq, LenProperties
  <1>3. Len(stops) \in 1..Len(stops)
    BY <1>2
  <1>. QED BY <1>1, <1>2, <1>3, ElementOfSeq DEF Innermost

(* A step of the innermost stop() keeps the types, the one holder of a     *)
(* lock and the order of the end, if what it goes to does.                 *)
LEMMA InnermostMoves ==
  ASSUME Invariant, stops # <<>>,
         NEW frame \in Frames,
         stops' = [stops EXCEPT ![Len(stops)] = frame],
         UNCHANGED <<section, http, using>>,
         frame.step \notin {"check", "await"} => http = "ended",
         HeldAt(frame.step) = NoLock \/ Free(HeldAt(frame.step))
  PROVE  stops' \in Seq(Frames) /\ OneHolder' /\ RequestsEndFirst'
  <1>1. /\ stops \in Seq(Frames) /\ Len(stops) \in 1..Len(stops)
        /\ DOMAIN stops = 1..Len(stops)
    BY InnermostType
  <1>2. /\ stops' \in Seq(Frames) /\ Len(stops') = Len(stops)
        /\ \A j \in 1..Len(stops) :
              stops'[j] = IF j = Len(stops) THEN frame ELSE stops[j]
    BY <1>1, ExceptSeq
  <1>3. DOMAIN stops' = DOMAIN stops
    BY <1>1, <1>2, LenProperties
  <1>4. HeldByMain' \subseteq HeldByMain \cup {HeldAt(frame.step)}
    BY <1>1, <1>2, <1>3 DEF HeldByMain
  <1>5. ASSUME http = "locked"
        PROVE  using # NoLock /\ using \notin HeldByMain \cup {HeldAt(frame.step)}
    BY <1>5 DEF Invariant, ShutdownTypeOK, Free, HeldByHttp
  <1>6. OneHolder'
    BY <1>4, <1>5 DEF OneHolder
  <1>7. RequestsEndFirst'
    BY <1>1, <1>2, <1>3 DEF Invariant, RequestsEndFirst
  <1>. QED BY <1>2, <1>6, <1>7

(* What the steps of stop() leave alone.                                   *)
LEMMA StopKeepsRest ==
  ASSUME Invariant,
         UNCHANGED <<httpVars, section, signals>>,
         stops' \in Seq(Frames), OneHolder', RequestsEndFirst',
         started' \in BOOLEAN, closing' \in BOOLEAN,
         process' \in {"running", "exited"}
  PROVE  Invariant'
  BY DEF Invariant, ShutdownTypeOK, WaitsForLock, OneHolder, Frames, httpVars

(* The step an innermost stop() goes on to.                                *)
LEMMA GoesTo ==
  ASSUME Invariant, stops # <<>>, NEW to \in Steps, GoTo(to),
         UNCHANGED <<section, http, using>>,
         to \notin {"check", "await"} => http = "ended",
         HeldAt(to) = NoLock \/ Free(HeldAt(to))
  PROVE  stops' \in Seq(Frames) /\ OneHolder' /\ RequestsEndFirst'
  <1>. DEFINE frame == [Innermost EXCEPT !.step = to]
  <1>1. frame \in Frames /\ frame.step = to
    BY InnermostType DEF Frames
  <1>2. stops' = [stops EXCEPT ![Len(stops)] = frame]
    BY DEF GoTo, Innermost
  <1>. QED BY <1>1, <1>2, InnermostMoves

(* Past the wait for the server, the server has ended.                     *)
LEMMA ServerIsGone ==
  ASSUME Invariant, stops # <<>>, Innermost.step \notin {"check", "await"}
  PROVE  http = "ended"
  BY InnermostType DEF Invariant, RequestsEndFirst, Innermost

(* A signal or the end of the interpreter begins one more stop().          *)
LEMMA BeginInvariant ==
  ASSUME Invariant, UNCHANGED <<httpVars, section, started, closing, process>>,
         NEW left \in 0..MaxPatches, Begin(left),
         signals' \in 0..MaxSignals
  PROVE  Invariant'
  <1>. DEFINE frame == [step |-> "check", left |-> left]
  <1>1. frame \in Frames
    BY ShutdownAssumption DEF Frames, Steps
  <1>2. stops \in Seq(Frames)
    BY DEF Invariant, ShutdownTypeOK, Frames
  <1>3. /\ stops' \in Seq(Frames) /\ Len(stops') = Len(stops) + 1
        /\ \A j \in 1..Len(stops) : stops'[j] = stops[j]
        /\ stops'[Len(stops) + 1] = frame
    BY <1>1, <1>2, AppendProperties DEF Begin
  <1>4. /\ Len(stops) \in Nat /\ DOMAIN stops = 1..Len(stops)
        /\ DOMAIN stops' = 1..(Len(stops) + 1)
    BY <1>2, <1>3, LenProperties
  <1>5. \A i \in DOMAIN stops' :
           stops'[i] = frame \/ (i \in DOMAIN stops /\ stops'[i] = stops[i])
    BY <1>3, <1>4
  <1>6. HeldByMain' \subseteq HeldByMain \cup {NoLock}
    BY <1>5 DEF HeldByMain, HeldAt
  <1>7. RequestsEndFirst'
    BY <1>5 DEF Invariant, RequestsEndFirst, httpVars
  <1>. QED BY <1>3, <1>6, <1>7
    DEF Invariant, ShutdownTypeOK, WaitsForLock, Frames, httpVars

(* The HTTP thread moves on its own account.                               *)
LEMMA ServerInvariant ==
  ASSUME Invariant, Accept \/ ClientSends \/ ServerStep
  PROVE  Invariant'
  <1>. USE DEF Invariant, ShutdownTypeOK, WaitsForLock, RequestsEndFirst,
               HeldByMain, mainVars, httpVars
  <1>1. CASE Accept
    BY <1>1 DEF Accept, Locks
  <1>2. CASE ClientSends
    BY <1>2 DEF ClientSends
  <1>3. CASE WantLock
    BY <1>3 DEF WantLock, Locks, NoLock
  <1>4. CASE TakeLock
    BY <1>4 DEF TakeLock, Free
  <1>5. CASE ReleaseLock
    BY <1>5 DEF ReleaseLock
  <1>6. CASE Answer
    BY <1>6 DEF Answer
  <1>7. CASE EndLoop
    BY <1>7 DEF EndLoop
  <1>. QED BY <1>1, <1>2, <1>3, <1>4, <1>5, <1>6, <1>7 DEF ServerStep

-----------------------------------------------------------------------------
(* Every step keeps the invariant.                                         *)
THEOREM NextInvariant == Invariant /\ [ShutdownNext]_shutdownVars => Invariant'
  <1>. SUFFICES ASSUME Invariant, [ShutdownNext]_shutdownVars PROVE Invariant'
    OBVIOUS
  <1>1. CASE Accept \/ ClientSends \/ ServerStep
    BY <1>1, ServerInvariant
  <1>2. CASE EnterSection \/ LeaveSection
    BY <1>2 DEF EnterSection, LeaveSection, Invariant, ShutdownTypeOK,
                WaitsForLock, RequestsEndFirst, Free, HeldByMain, HeldByHttp,
                NoLock, httpVars
  <1>3. CASE Sigterm
    <2>1. signals' \in 0..MaxSignals
      BY <1>3, ShutdownAssumption DEF Sigterm, Invariant, ShutdownTypeOK
    <2>. QED BY <1>3, <2>1, BeginInvariant DEF Sigterm
  <1>4. CASE AtExit
    BY <1>4, BeginInvariant DEF AtExit, Invariant, ShutdownTypeOK
  <1>5. CASE AskServer
    <2>1. stops' \in Seq(Frames) /\ OneHolder' /\ RequestsEndFirst'
      BY <1>5, GoesTo DEF AskServer, Stopping, Steps, HeldAt, NoLock, httpVars
    <2>. QED BY <1>5, <2>1, StopKeepsRest
      DEF AskServer, Invariant, ShutdownTypeOK
  <1>6. CASE ServerEnded
    <2>1. stops' \in Seq(Frames) /\ OneHolder' /\ RequestsEndFirst'
      BY <1>6, GoesTo DEF ServerEnded, Stopping, Steps, HeldAt, NoLock, httpVars
    <2>. QED BY <1>6, <2>1, StopKeepsRest
      DEF ServerEnded, Invariant, ShutdownTypeOK
  <1>7. ASSUME NEW from, NEW to, Acquire(from, to),
               \/ from = "list" /\ to = "listing"
               \/ from = "remove" /\ to = "removing"
               \/ from = "unload" /\ to = "unloading"
        PROVE  Invariant'
    <2>1. http = "ended"
      BY <1>7, ServerIsGone DEF Acquire, Stopping
    <2>2. HeldAt(to) = NeededAt(from) /\ to \in Steps
      BY <1>7 DEF HeldAt, NeededAt, Steps
    <2>3. stops' \in Seq(Frames) /\ OneHolder' /\ RequestsEndFirst'
      BY <1>7, <2>1, <2>2, GoesTo DEF Acquire, Stopping, httpVars
    <2>. QED BY <1>7, <2>3, StopKeepsRest
      DEF Acquire, Invariant, ShutdownTypeOK
  <1>8. CASE NextPatch
    <2>. DEFINE frame ==
           IF Innermost.left = 0 THEN [Innermost EXCEPT !.step = "uninstall"]
           ELSE [step |-> "remove", left |-> Innermost.left - 1]
    <2>1. stops # <<>> /\ Innermost.step \in {"listing", "removing"}
      BY <1>8 DEF NextPatch, Stopping
    <2>2. /\ stops' = [stops EXCEPT ![Len(stops)] = frame]
          /\ UNCHANGED <<section, http, using>>
      BY <1>8 DEF NextPatch, Innermost, httpVars
    <2>3. frame \in Frames /\ frame.step \in {"uninstall", "remove"}
      BY <2>1, InnermostType DEF Frames, Steps
    <2>4. http = "ended"
      BY <2>1, ServerIsGone
    <2>5. HeldAt(frame.step) = NoLock
      BY <2>3 DEF HeldAt
    <2>6. stops' \in Seq(Frames) /\ OneHolder' /\ RequestsEndFirst'
      BY <2>1, <2>2, <2>3, <2>4, <2>5, InnermostMoves
    <2>. QED BY <1>8, <2>6, StopKeepsRest
      DEF NextPatch, Invariant, ShutdownTypeOK
  <1>9. ASSUME NEW from, NEW to, Stopping(from), GoTo(to),
               UNCHANGED <<httpVars, section, closing, signals, process>>,
               started' \in BOOLEAN,
               from \in {"uninstall", "unloading", "finish"},
               to \in {"unload", "finish", "done"}
        PROVE  Invariant'
    <2>1. http = "ended"
      BY <1>9, ServerIsGone DEF Stopping
    <2>2. HeldAt(to) = NoLock /\ to \in Steps
      BY <1>9 DEF HeldAt, Steps
    <2>3. stops' \in Seq(Frames) /\ OneHolder' /\ RequestsEndFirst'
      BY <1>9, <2>1, <2>2, GoesTo DEF Stopping, httpVars
    <2>. QED BY <1>9, <2>3, StopKeepsRest DEF Invariant, ShutdownTypeOK
  <1>10. CASE UninstallHook \/ UnloadRest \/ Stopped
    BY <1>9, <1>10
    DEF UninstallHook, UnloadRest, Stopped, Invariant, ShutdownTypeOK
  <1>11. CASE Exit
    <2>1. stops' \in Seq(Frames) /\ DOMAIN stops' = {} /\ section' = NoLock
      BY <1>11, EmptySeq DEF Exit
    <2>. QED BY <1>11, <2>1
      DEF Exit, Invariant, ShutdownTypeOK, WaitsForLock, RequestsEndFirst,
          HeldByMain, Frames, httpVars
  <1>12. CASE UNCHANGED shutdownVars
    BY <1>12 DEF shutdownVars, Invariant, ShutdownTypeOK, WaitsForLock,
                 RequestsEndFirst, HeldByMain
  <1>. QED BY <1>1, <1>2, <1>3, <1>4, <1>5, <1>6, <1>7, <1>8, <1>10, <1>11, <1>12
    DEF ShutdownNext, StopStep, ListPatches, RemovePatch, UnloadStatus

(* A lock has one holder, and everything keeps its type, for any number of *)
(* signals and of patches.                                                 *)
THEOREM TypeCorrect == ShutdownSpec => []ShutdownTypeOK
  <1>1. Invariant => ShutdownTypeOK
    BY DEF Invariant
  <1>. QED BY <1>1, InitInvariant, NextInvariant, PTL DEF ShutdownSpec

(* No request runs beside the end of the agent, however often its stop()   *)
(* is interrupted by another.                                              *)
THEOREM RequestsEnd == ShutdownSpec => []RequestsEndFirst
  <1>1. Invariant => RequestsEndFirst
    BY DEF Invariant
  <1>. QED BY <1>1, InitInvariant, NextInvariant, PTL DEF ShutdownSpec
=============================================================================
