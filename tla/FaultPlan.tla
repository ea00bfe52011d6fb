----------------------------- MODULE FaultPlan ------------------------------
(***************************************************************************)
(* What the injection engine promises, with no registry, hit counter,      *)
(* program counter or rollback in sight:                                   *)
(*                                                                         *)
(*   - an experiment is activated once, with a budget, and deactivated     *)
(*     for good;                                                           *)
(*   - a call of a patched function suffers at most one fault, from an     *)
(*     experiment that was active at some moment of that call, and only    *)
(*     if the global switch was on at some moment of it;                   *)
(*   - an experiment never causes more faults than its budget allows.      *)
(***************************************************************************)
EXTENDS Naturals

CONSTANTS
    Callers,     \* application threads
    Plans,       \* experiments that can ever be activated
    Budgets,     \* the budgets an experiment may be given
    Unlimited    \* the budget that is never used up

VARIABLES
    used,      \* experiments activated so far
    active,    \* experiments in force
    budget,    \* experiment -> faults it may cause
    faults,    \* experiment -> faults it has caused
    switch,    \* the global switch
    calling,   \* callers inside a patched call
    seen,      \* caller -> experiments in force at some moment of its call
    armed      \* caller -> the switch was on at some moment of its call

planVars == <<used, active, budget, faults, switch, calling, seen, armed>>

PlanInit ==
    /\ used = {}
    /\ active = {}
    /\ budget = [p \in Plans |-> 0]
    /\ faults = [p \in Plans |-> 0]
    /\ switch = TRUE
    /\ calling = {}
    /\ seen = [c \in Callers |-> {}]
    /\ armed = [c \in Callers |-> FALSE]

(* Every call in progress sees a newly activated experiment.               *)
Activate(p, b) ==
    /\ p \notin used
    /\ used' = used \cup {p}
    /\ active' = active \cup {p}
    /\ budget' = [budget EXCEPT ![p] = b]
    /\ seen' = [c \in Callers |->
                    IF c \in calling THEN seen[c] \cup {p} ELSE seen[c]]
    /\ UNCHANGED <<faults, switch, calling, armed>>

Deactivate(gone) ==
    /\ active' = active \ gone
    /\ UNCHANGED <<used, budget, faults, switch, calling, seen, armed>>

Turn(b) ==
    /\ switch' = b
    /\ armed' = [c \in Callers |-> armed[c] \/ (b /\ c \in calling)]
    /\ UNCHANGED <<used, active, budget, faults, calling, seen>>

Begin(c) ==
    /\ c \notin calling
    /\ calling' = calling \cup {c}
    /\ seen' = [seen EXCEPT ![c] = active]
    /\ armed' = [armed EXCEPT ![c] = switch]
    /\ UNCHANGED <<used, active, budget, faults, switch>>

End(c) ==
    /\ c \in calling
    /\ calling' = calling \ {c}
    /\ seen' = [seen EXCEPT ![c] = {}]
    /\ armed' = [armed EXCEPT ![c] = FALSE]
    /\ UNCHANGED <<used, active, budget, switch>>

Unharmed(c) == End(c) /\ UNCHANGED faults

(* The one step in which a fault happens, and it ends the call.            *)
Fault(c, p) ==
    /\ armed[c]
    /\ p \in seen[c]
    /\ budget[p] = Unlimited \/ faults[p] < budget[p]
    /\ faults' = [faults EXCEPT ![p] = @ + 1]
    /\ End(c)

PlanNext ==
    \/ \E p \in Plans, b \in Budgets : Activate(p, b)
    \/ \E gone \in SUBSET Plans : Deactivate(gone)
    \/ \E b \in BOOLEAN : Turn(b)
    \/ \E c \in Callers : \/ Begin(c) \/ Unharmed(c)
                          \/ \E p \in Plans : Fault(c, p)

PlanSpec == PlanInit /\ [][PlanNext]_planVars
=============================================================================
