---------------------------- MODULE MCChaosAgent ----------------------------
(* Small instances of ChaosAgent for TLC.                                  *)
EXTENDS ChaosAgent, TLC
CONSTANTS t1, t2, t3, u1, u2, redis, delay, throw, arg

Rule(action, args, effectCount, effectPercent) ==
    [target |-> redis, action |-> action, args |-> args,
     effectCount |-> effectCount, effectPercent |-> effectPercent,
     flagsValid |-> TRUE]

(* One fault at most; half of the calls, without a limit.                  *)
Once == Rule(delay, {arg}, 1, Absent)
Half == Rule(throw, {arg}, Absent, 50)
(* A rule that matches another argument, and one int() chokes on.          *)
Other == Rule(delay, {}, 1, Absent)
Broken == Rule(delay, {arg}, Absent, Malformed)

(* Two faults at most.                                                     *)
Twice == Rule(throw, {arg}, 2, Absent)

MCSpecActions == [target \in {redis} |-> {delay, throw}]

(* agent_rules: rules of every kind, two threads.                          *)
RuleModels == { Once, Half, Other, Broken }
TwoThreads == {t1, t2}
TwoUids == {u1, u2}
RuleSymmetry == Permutations(TwoThreads) \cup Permutations(TwoUids)

(* agent_contention: three threads after the two hits of one rule.         *)
ContentionModels == { Twice }
ThreeThreads == {t1, t2, t3}
OneUid == {u1}
ContentionSymmetry == Permutations(ThreeThreads)

(* agent_liveness                                                          *)
LivenessModels == { Once, Half }
=============================================================================
