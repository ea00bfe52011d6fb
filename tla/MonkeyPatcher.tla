--------------------------- MODULE MonkeyPatcher ---------------------------
(***************************************************************************)
(* MonkeyPatcher (bootstrap/patcher.py): wraps a function of a module or a *)
(* method of one of its classes, and restores it.  Both operations run     *)
(* under the patcher's lock, so each is one step.                          *)
(*                                                                         *)
(* A point is the point cut of one plugin bean.  Its patch identifier is   *)
(* "target-module-function"; in the plugins the project ships no two       *)
(* points share an identifier or an attribute, so a point stands for both. *)
(***************************************************************************)
EXTENDS Naturals, FiniteSets

CONSTANTS
    Points,     \* the point cuts of the registered plugins
    Frozen,     \* points on a type that refuses setattr
    Missing,    \* the attribute does not exist: module absent or unfinished
    NoRecord    \* the patcher holds no record

ASSUME PointsAssumption == IsFiniteSet(Points) /\ Frozen \subseteq Points
ASSUME AbsenceAssumption == Missing \notin Nat /\ NoRecord \notin Nat

VARIABLES
    attr,      \* point -> how many wrappers are around the original function
    patches    \* point -> what PatchRecord.original holds

patcherVars == <<attr, patches>>

PatcherTypeOK ==
    /\ attr \in [Points -> Nat \cup {Missing}]
    /\ patches \in [Points -> Nat \cup {NoRecord}]

PatcherInit ==
    /\ attr = [p \in Points |-> Missing]
    /\ patches = [p \in Points |-> NoRecord]

Patched == { p \in Points : patches[p] # NoRecord }

-----------------------------------------------------------------------------
(* A patcher that does not ask whether the identifier is in use.           *)
RefusesMissing(p) == attr[p] = Missing

(* apply_patch returns False: the identifier is in use, or the module, the *)
(* class or the attribute is not there.                                    *)
Refuses(p) == patches[p] # NoRecord \/ attr[p] = Missing

(* apply_patch lets the TypeError of setattr out.                          *)
Raises(p) == ~Refuses(p) /\ p \in Frozen

(* apply_patch wraps the attribute and keeps what was there before.        *)
ApplyPatch(p) ==
    /\ ~Refuses(p)
    /\ p \notin Frozen
    /\ attr' = [attr EXCEPT ![p] = @ + 1]
    /\ patches' = [patches EXCEPT ![p] = attr[p]]

(* A remove_patch that drops the record and leaves the wrapper in place.   *)
RemoveRecord(p) ==
    /\ patches' = [patches EXCEPT ![p] = NoRecord]
    /\ UNCHANGED attr

(* remove_patch puts back what the record holds.                           *)
RemovePatch(p) ==
    /\ patches' = [patches EXCEPT ![p] = NoRecord]
    /\ attr' = [attr EXCEPT ![p] =
                    IF patches[p] = NoRecord THEN @ ELSE patches[p]]
=============================================================================
