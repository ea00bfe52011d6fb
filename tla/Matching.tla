------------------------------- MODULE Matching -------------------------------
(***************************************************************************)
(* From the parameters of a create request to a Model, and from a Model    *)
(* to the calls it matches (CreateHandler._parse_model, BaseModelSpec,     *)
(* Injector._compare).                                                     *)
(*                                                                         *)
(* Texts are strings that are only compared; what Python's own functions   *)
(* make of them is given as constants.                                     *)
(***************************************************************************)
EXTENDS Plugins

CONSTANTS
    Folded,       \* text -> text.lower(), for the texts it changes
    IntOf,        \* text -> int(text), for the texts int() accepts
    FullMatches,  \* the <<pattern, text>> that re.fullmatch accepts
    RegexKeys     \* the keys that end in -regex

ASSUME MatchingAssumption ==
    /\ IntOf \in [DOMAIN IntOf -> Int]
    /\ RegexKeys \cap ({"method"} \cup UNION { p.matchers : p \in Plugins }) = {}

Fold(text) == IF text \in DOMAIN Folded THEN Folded[text] ELSE text

(* A parameter of the request that is neither missing nor empty.           *)
Has(params, key) == key \in DOMAIN params /\ params[key] # ""

ReservedKeys == {"suid", "target", "action", "debug"}
ControlMatchers == {"effect-count", "effect-percent"}

Without(f, keys) == [k \in DOMAIN f \ keys |-> f[k]]

-----------------------------------------------------------------------------
(* The name under which an action is registered: its own, or the one an    *)
(* alias stands for.                                                       *)
Canonical(target, action) ==
    LET actions == PluginFor(target).actions
    IN  IF action \in DOMAIN actions THEN {action}
        ELSE { a \in DOMAIN actions : action \in actions[a].aliases }

GetActionSpec(target, action) ==
    { PluginFor(target).actions[a] : a \in Canonical(target, action) }

(* Mutant: only what the ModelSpec declares is a matcher.                  *)
ParseDeclared(params, spec) ==
    [target   |-> params.target,
     action   |-> params.action,
     flags    |-> Without(params, ReservedKeys),
     matchers |-> Without(params, DOMAIN params
                     \ (PluginFor(params.target).matchers \cup ControlMatchers))]

(* Mutant: the limits are kept among the flags.                            *)
ParseLimitsAsFlags(params, spec) ==
    [target   |-> params.target,
     action   |-> params.action,
     flags    |-> Without(params, ReservedKeys),
     matchers |-> Without(params, ReservedKeys \cup ControlMatchers
                                               \cup spec.flags)]

(* Every parameter is a flag of the action; what the action does not know  *)
(* is a matcher too.  The action keeps the name the request gives it.      *)
ParseModel(params, spec) ==
    [target   |-> params.target,
     action   |-> params.action,
     flags    |-> Without(params, ReservedKeys),
     matchers |-> Without(params, ReservedKeys \cup spec.flags)]

Predicate(model, spec) ==
    /\ spec.required \subseteq DOMAIN model.flags
    /\ PluginFor(model.target).requiredMatchers \subseteq DOMAIN model.matchers

-----------------------------------------------------------------------------
(* Whether the matchers of an experiment accept those of a call.  No       *)
(* enhancer of the project registers a CustomMatcher.                      *)
MatchesKey(key, rule, actual) ==
    /\ key \in DOMAIN actual
    /\ \/ Fold(actual[key]) = Fold(rule[key])
       \/ /\ key \in RegexKeys
          /\ <<rule[key], actual[key]>> \in FullMatches

Compare(rule, actual) ==
    \A key \in DOMAIN rule \ ControlMatchers : MatchesKey(key, rule, actual)
=============================================================================
