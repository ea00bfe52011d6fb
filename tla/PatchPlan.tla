----------------------------- MODULE PatchPlan ------------------------------
(***************************************************************************)
(* What patching promises, with no record, queue, import lock or loader in *)
(* sight:                                                                  *)
(*                                                                         *)
(*   - a function is wrapped only for a plugin that a create has asked     *)
(*     for, at most once, and while it serves by a request or at any time  *)
(*     by the import of its module;                                        *)
(*   - a wrapper is taken off by a stop() only, which restores the         *)
(*     original, and the definition of a function never hits a wrapper;    *)
(*   - when a stop() is over, nothing is left of what requests have        *)
(*     wrapped: what is, an import has wrapped.                            *)
(***************************************************************************)
CONSTANTS
    Functions,      \* what can be patched
    Groups,         \* sets of functions that are asked for together
    Unwrappable     \* functions that can never be wrapped

VARIABLES
    stage,     \* where the agent is between start() and stop()
    asked,     \* functions that may be wrapped
    shape      \* function -> what a caller of it meets

planVars == <<stage, asked, shape>>

Wrappers == {"wrapped by request", "wrapped by import"}

PlanInit ==
    /\ stage = "down"
    /\ asked = {}
    /\ shape = [f \in Functions |-> "undefined"]

Turn(from, to) ==
    /\ stage = from
    /\ stage' = to
    /\ UNCHANGED shape

GoUp == Turn("down", "serving") /\ UNCHANGED asked
Refuse == Turn("serving", "draining") /\ UNCHANGED asked
Drained == Turn("draining", "restoring") /\ UNCHANGED asked
GoDown ==
    /\ \A f \in Functions : shape[f] # "wrapped by request"
    /\ Turn("restoring", "down")
    /\ UNCHANGED asked

Ask(fs) ==
    /\ stage = "serving"
    /\ asked' = asked \cup fs
    /\ UNCHANGED <<stage, shape>>

(* What is asked for is not forgotten while the agent is up, unless there  *)
(* is nothing left to do, or never was.                                    *)
GiveUp(fs) ==
    /\ \A f \in fs : \/ stage = "down"
                      \/ f \in Unwrappable
                      \/ shape[f] \in Wrappers
    /\ asked' = asked \ fs
    /\ UNCHANGED <<stage, shape>>

Define(fs) ==
    /\ \A f \in fs : shape[f] = "undefined"
    /\ shape' = [f \in Functions |-> IF f \in fs THEN "original" ELSE shape[f]]
    /\ UNCHANGED <<stage, asked>>

Wrap(f, how) ==
    /\ f \in asked \ Unwrappable
    /\ shape[f] = "original"
    /\ shape' = [shape EXCEPT ![f] = how]
    /\ UNCHANGED stage

WrapByRequest(f) ==
    /\ stage \in {"serving", "draining"}
    /\ Wrap(f, "wrapped by request")
    /\ UNCHANGED asked

(* The import has done its duty with it.                                   *)
WrapByImport(f) ==
    /\ Wrap(f, "wrapped by import")
    /\ asked' \in {asked, asked \ {f}}

Restore(f) ==
    /\ stage = "restoring"
    /\ shape[f] \in Wrappers
    /\ shape' = [shape EXCEPT ![f] = "original"]
    /\ UNCHANGED <<stage, asked>>

PlanNext ==
    \/ GoUp \/ Refuse \/ Drained \/ GoDown
    \/ \E fs \in Groups : Ask(fs)
    \/ \E fs \in SUBSET Functions : GiveUp(fs) \/ Define(fs)
    \/ \E f \in Functions : WrapByRequest(f) \/ WrapByImport(f) \/ Restore(f)

PlanSpec == PlanInit /\ [][PlanNext]_planVars
=============================================================================
