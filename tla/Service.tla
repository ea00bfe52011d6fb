------------------------------- MODULE Service -------------------------------
(***************************************************************************)
(* What a client and an application see of the agent: requests from HTTP   *)
(* to the handlers and their answers, and patched calls from the arguments *)
(* to what the caller gets back, also where one patched function calls     *)
(* another.                                                                *)
(*                                                                         *)
(* The agent runs and all plugins are found.  A request and the advice of  *)
(* a call are one step each: how several threads interleave inside them    *)
(* is the subject of ChaosAgent, how patches are applied of PatchLifecycle.*)
(***************************************************************************)
EXTENDS ActionExecutors, Functions

CONSTANTS
    Applications,  \* records: calls, what calls what; requests, the client's
    Frozen,        \* points on a type that refuses setattr
    MaxHits        \* bound: no call begins once a count reaches it

(* An application calls functions that the plugins patch, one at least.    *)
ASSUME ServiceAssumption ==
    /\ MaxHits \in Nat
    /\ Frozen \subseteq Points
    /\ \A a \in Applications :
          /\ a.calls \in Seq(Range(a.calls)) \ {<<>>}
          /\ \A c \in Range(a.calls) : c.point \in Points /\ Truthful(c)

VARIABLES
    app,          \* the application the agent is attached to
    experiments,  \* DefaultStatusManager._experiments, in order
    level,        \* level of the logger "chaosblade"
    loaded,       \* targets whose PluginBeans are marked as loaded
    imported,     \* points whose module the application has imported
    wrapper,      \* point -> the wrapper on it
    pending,      \* point -> the wrapper ImportHook keeps for it
    stack,        \* the patched calls the application is in, outermost first
    seen,         \* the last answer or the outcome of the last call
    (* History: *)
    trace,        \* what the advice of each call of the stack has done
    own,          \* how the original of each has ended by itself, if it has
    late          \* points patched by the import of their module

agentVars == <<experiments, level, loaded>>
patchVars == <<imported, wrapper, pending, late>>
historyVars == <<trace, own>>
vars == <<app, agentVars, patchVars, stack, seen, historyVars>>

NoEffect == Effect("none", "", "")
Nothing == [kind |-> "nothing"]
(* An answer: its code, the number in it and the experiments it lists.     *)
Answer(code, number, uids) ==
    [kind |-> "reply", code |-> code, number |-> number, uids |-> uids]
Reply(code) == Answer(code, 0, {})
Outcome(result) == [kind |-> "call", result |-> result]

AppPoints == { app.calls[i].point : i \in DOMAIN app.calls }

Init ==
    /\ app \in Applications
    /\ experiments = <<>>
    /\ level = "unset"
    /\ loaded = {}
    /\ imported = {}
    /\ wrapper = [p \in Points |-> "none"]
    /\ pending = [p \in Points |-> "none"]
    /\ stack = <<>>
    /\ seen = Nothing
    /\ trace = <<>>
    /\ own = <<>>
    /\ late = {}

-----------------------------------------------------------------------------
(* Requests.  A value of the body is a record of its JSON type and its     *)
(* text; what is not a text goes through str().                            *)

Str(v) ==
    CASE v.json = "null"  -> "None"
      [] v.json = "true"  -> "True"
      [] v.json = "false" -> "False"
      [] OTHER            -> v.text

(* A body that is no JSON object counts for nothing.                       *)
Params(request) ==
    [k \in DOMAIN request.body |-> Str(request.body[k])] ++ request.query

Uid(e) == e.uid
Registered == { Uid(experiments[i]) : i \in DOMAIN experiments }
Metric(uid) == experiments[CHOOSE i \in DOMAIN experiments :
                               experiments[i].uid = uid]

Remove(uids) ==
    LET left[n \in 0..Len(experiments)] ==
          IF n = 0 THEN <<>>
          ELSE IF experiments[n].uid \in uids THEN left[n - 1]
          ELSE Append(left[n - 1], experiments[n])
    IN  left[Len(experiments)]

(* Mutant: an alias counts as the name it stands for.                      *)
ListUidsByCanonical(target, action) ==
    { e.uid : e \in { x \in Range(experiments) :
                        /\ x.model.target = target
                        /\ action \in {x.model.action}
                              \cup Canonical(target, x.model.action) } }

(* The status manager compares the action with the name as it was given.   *)
ListUids(target, action) ==
    { e.uid : e \in { x \in Range(experiments) :
                        /\ x.model.target = target
                        /\ x.model.action = action } }

(* Mutant: every wrapper is synchronous.                                   *)
ChooseSyncWrapper(point) == "sync"

(* The wrapper a point cut gets: asynchronous only for a coroutine         *)
(* function that can be seen.                                              *)
ChooseWrapper(point) ==
    IF point \in imported /\ IsCoroutine(point) THEN "async" ELSE "sync"

(* The points a create of the target has to patch, and those among them    *)
(* that make it fail: the class is there, and setattr raises.              *)
Unpatched(target) == IF target \in loaded THEN {} ELSE PointsFor(target)
Breaking(target) == Unpatched(target) \cap imported \cap Frozen

(* The target counts as loaded whatever happens to its beans; those that   *)
(* are added are patched, or wait for their module.                        *)
LazyLoadPlugin(target, added) ==
    /\ loaded' = loaded \cup {target}
    /\ wrapper' = [p \in Points |->
                      IF p \in added \cap imported THEN ChooseWrapper(p)
                      ELSE wrapper[p]]
    /\ pending' = [p \in Points |->
                      IF p \in added \ imported THEN ChooseWrapper(p)
                      ELSE pending[p]]

(* Mutant: a uid may be registered twice.                                  *)
CreateCodeOfNew(p) ==
    IF \E k \in {"suid", "target", "action"} : ~Has(p, k) THEN 405
    ELSE IF p.target \notin Targets THEN 404
    ELSE IF GetActionSpec(p.target, p.action) = {} THEN 404
    ELSE IF \A spec \in GetActionSpec(p.target, p.action) :
                ~Predicate(ParseModel(p, spec), spec) THEN 405
    ELSE 200

(* The checks of a create, in their order.                                 *)
CreateCode(p) ==
    IF \E k \in {"suid", "target", "action"} : ~Has(p, k) THEN 405
    ELSE IF p.target \notin Targets THEN 404
    ELSE IF GetActionSpec(p.target, p.action) = {} THEN 404
    ELSE IF \A spec \in GetActionSpec(p.target, p.action) :
                ~Predicate(ParseModel(p, spec), spec) THEN 405
    ELSE IF p.suid \in Registered THEN 406
    ELSE 200

SetLevel(p) ==
    level' = IF \E k \in {"suid", "target", "action"} : ~Has(p, k) THEN level
             ELSE IF Has(p, "debug") /\ Fold(p.debug) = "true" THEN "DEBUG"
             ELSE "INFO"

Register(p, spec) ==
    experiments' = Append(experiments,
        [uid |-> p.suid, model |-> ParseModel(p, spec), hits |-> 0,
         asked |-> p, faults |-> 0, idle |-> 0])

(* Mutant: a create that fails keeps its registration.                     *)
FailKeepingRule(p) ==
    /\ Breaking(p.target) # {}
    /\ \E added \in SUBSET (Unpatched(p.target) \ Breaking(p.target)) :
          LazyLoadPlugin(p.target, added)
    /\ seen' = Reply(500)
    /\ \E spec \in GetActionSpec(p.target, p.action) : Register(p, spec)

(* SERVER_ERROR: a bean could not be added.  The registration is undone,   *)
(* the target stays loaded and the beans before that one stay added.       *)
Fail(p) ==
    /\ Breaking(p.target) # {}
    /\ \E added \in SUBSET (Unpatched(p.target) \ Breaking(p.target)) :
          LazyLoadPlugin(p.target, added)
    /\ seen' = Reply(500)
    /\ UNCHANGED experiments

Succeed(p) ==
    /\ Breaking(p.target) = {}
    /\ LazyLoadPlugin(p.target, Unpatched(p.target))
    /\ seen' = Reply(200)
    /\ \E spec \in GetActionSpec(p.target, p.action) : Register(p, spec)

Refuse(p) ==
    /\ seen' = Reply(CreateCode(p))
    /\ UNCHANGED <<experiments, loaded, wrapper, pending>>

(* No plugin of the project has an executor that injects directly, nor a   *)
(* pre_create, so of a create they are left out.                           *)
Create(p) ==
    /\ SetLevel(p)
    /\ IF CreateCode(p) = 200 THEN Succeed(p) \/ Fail(p) ELSE Refuse(p)

(* By uid where there is one, else by target and action.                   *)
Doomed(p) ==
    IF Has(p, "suid") THEN {p.suid} \cap Registered
    ELSE IF Has(p, "target") /\ Has(p, "action")
         THEN ListUids(p.target, p.action) ELSE {}

DestroyCode(p) ==
    IF ~Has(p, "suid") /\ ~(Has(p, "target") /\ Has(p, "action")) THEN 405
    ELSE IF Doomed(p) = {} THEN 404 ELSE 200

Destroy(p) ==
    /\ experiments' = IF Doomed(p) = {} THEN experiments ELSE Remove(Doomed(p))
    /\ seen' = Answer(DestroyCode(p), Cardinality(Doomed(p)), {})
    /\ UNCHANGED <<level, loaded, wrapper, pending>>

Status(p) ==
    seen' = IF ~Has(p, "suid") THEN Reply(405)
            ELSE IF p.suid \notin Registered THEN Reply(404)
            ELSE Answer(200, Metric(p.suid).hits, {})

(* An entry also shows target, action, matchers and count.                 *)
Listed(p) ==
    { e.uid : e \in { x \in Range(experiments) :
                  /\ Has(p, "target") => x.model.target = p.target
                  /\ Has(p, "action") => x.model.action = p.action } }

List(p) == seen' = Answer(200, Cardinality(Listed(p)), Listed(p))

Health == seen' = Answer(200, Len(experiments), {})

(* One request, from the socket to the answer; OPTIONS changes nothing.    *)
Dispatch(request) ==
    LET p == Params(request)
    IN  CASE request.command = "create"  -> Create(p)
          [] request.command = "destroy" -> Destroy(p)
          [] OTHER ->
              /\ CASE request.command = "status" -> Status(p)
                   [] request.command = "list"   -> List(p)
                   [] request.command = "health" -> Health
                   [] OTHER                      -> seen' = Reply(404)
              /\ UNCHANGED <<experiments, level, loaded, wrapper, pending>>

Serve(request) ==
    /\ Dispatch(request)
    /\ UNCHANGED <<app, imported, late, stack, historyVars>>

-----------------------------------------------------------------------------
(* The injector: what it may do to a call, as records of the place of the  *)
(* experiment, the change of its count, and the effect.                    *)
Hit(i, step, effect) == [at |-> i, step |-> step, effect |-> effect]
NoHit == Hit(0, 0, NoEffect)

First(target, actual) ==
    { i \in DOMAIN experiments :
        /\ experiments[i].model.target = target
        /\ Compare(experiments[i].model.matchers, actual)
        /\ \A j \in 1..(i - 1) :
              experiments[j].model.target = target
              => ~Compare(experiments[j].model.matchers, actual) }

(* Whether the limit of an experiment lets a call pass, may do either, or  *)
(* is no number.  effect-count is looked at first, and alone.              *)
Verdicts(e) ==
    LET m == e.model.matchers
        key == IF Has(m, "effect-count") THEN "effect-count"
               ELSE "effect-percent"
    IN  IF ~Has(m, key) THEN {"pass"}
        ELSE IF m[key] \notin DOMAIN IntOf THEN {"error"}
        ELSE IF key = "effect-count"
             THEN {IF e.hits < IntOf[m[key]] THEN "pass" ELSE "miss"}
        ELSE { IF r > IntOf[m[key]] THEN "miss" ELSE "pass" : r \in {1, 100} }

(* A failure on the way takes one hit back, whether it was counted or not. *)
Back(e) == IF e.hits > 0 THEN -1 ELSE 0

(* Mutant: the hit of an execution that fails stays counted.               *)
ExecutionKeepingHit(i, e, effect) == Hit(i, 1, effect)

Execution(i, e, effect) ==
    Hit(i, IF effect.kind = "fails" THEN 0 ELSE 1, effect)

HitsBy(i) ==
    LET e == experiments[i]
    IN  UNION { CASE v = "miss"  -> {NoHit}
                  [] v = "error" -> {Hit(i, Back(e), Fails)}
                  [] v = "pass"  ->
                       { Execution(i, e, effect) :
                           effect \in UNION { Run(a, e.model.flags) : a \in
                             Canonical(e.model.target, e.model.action) } }
                : v \in Verdicts(e) }

Inject(c) ==
    LET first == First(TargetOf(c.point), DoBeforeAdvice(c))
    IN  IF first = {} THEN {NoHit} ELSE UNION { HitsBy(i) : i \in first }

Counted(e, hit) ==
    [e EXCEPT !.hits = @ + hit.step,
              !.faults = @ + IF hit.effect.kind \in
                                {"held", "return", "throw"} THEN 1 ELSE 0,
              !.idle = @ + IF hit.effect.kind = "idle" THEN 1 ELSE 0]

-----------------------------------------------------------------------------
(* Calls.  A frame is a patched call: the wrapper it entered by, where it  *)
(* is, and how its body has ended.                                         *)
Frame(c) ==
    [wrapper |-> wrapper[c.point],
     at      |-> IF wrapper[c.point] = "none" THEN "original" ELSE "advice",
     result  |-> NoEffect, effect |-> NoEffect, asked |-> <<>>]

Top == stack[Len(stack)]
TopCall == app.calls[Len(stack)]
ReplaceTop(frame) == [stack EXCEPT ![Len(stack)] = frame]

(* What the import of its module applies to a point.                       *)
Applied(point) == IF point \in Frozen THEN "none" ELSE pending[point]

(* The module of a point is imported: what waits for it is applied, or is  *)
(* dropped with a line in the log.                                         *)
Import(point) ==
    /\ stack = <<>>
    /\ point \notin imported
    /\ imported' = imported \cup {point}
    /\ wrapper' = [wrapper EXCEPT ![point] = Applied(point)]
    /\ pending' = [pending EXCEPT ![point] = "none"]
    /\ late' = IF Applied(point) = "none" THEN late ELSE late \cup {point}
    /\ seen' = Nothing
    /\ UNCHANGED <<app, agentVars, stack, historyVars>>

Call ==
    /\ stack = <<>>
    /\ app.calls[1].point \in imported
    /\ \A i \in DOMAIN experiments : experiments[i].hits < MaxHits
    /\ stack' = <<Frame(app.calls[1])>>
    /\ trace' = <<NoEffect>>
    /\ own' = <<NoEffect>>
    /\ seen' = Nothing
    /\ UNCHANGED <<app, agentVars, patchVars>>

(* before_advice: the call is interrupted, or its original is next.        *)
Interrupted(effect) == effect.kind \in {"return", "throw"}

Advise ==
    /\ stack # <<>> /\ Top.at = "advice"
    /\ \E hit \in Inject(TopCall) :
          LET e == hit.effect
          IN  /\ experiments' = IF hit.at = 0 THEN experiments
                  ELSE [experiments EXCEPT ![hit.at] =
                            Counted(@, hit)]
              /\ stack' = ReplaceTop([Top EXCEPT
                    !.at = IF Interrupted(e) THEN "ended" ELSE "original",
                    !.result = IF Interrupted(e) THEN e ELSE NoEffect,
                    !.effect = e,
                    !.asked = IF hit.at = 0 THEN <<>>
                              ELSE experiments[hit.at].asked])
              /\ trace' = [trace EXCEPT ![Len(stack)] = e]
    /\ seen' = Nothing
    /\ UNCHANGED <<app, level, loaded, patchVars, own>>

(* The original calls the next function of the application.                *)
CallInner ==
    /\ stack # <<>> /\ Top.at = "original"
    /\ Len(stack) < Len(app.calls)
    /\ app.calls[Len(stack) + 1].point \in imported
    /\ stack' = Append(ReplaceTop([Top EXCEPT !.at = "calling"]),
                       Frame(app.calls[Len(stack) + 1]))
    /\ trace' = Append(trace, NoEffect)
    /\ own' = Append(own, NoEffect)
    /\ seen' = Nothing
    /\ UNCHANGED <<app, agentVars, patchVars>>

(* The original ends by itself, with a value or an error of its own: it    *)
(* has called no patched function, or caught what such a call raised, or   *)
(* made something else of what it returned.                                *)
EndByItself ==
    /\ \E kind \in {"value", "error"} :
          LET ending == Effect(kind, "own", "")
          IN  /\ stack' = ReplaceTop([Top EXCEPT !.at = "ended",
                                                 !.result = ending])
              /\ own' = [own EXCEPT ![Len(stack)] = ending]
    /\ seen' = Nothing
    /\ UNCHANGED <<app, agentVars, patchVars, trace>>

RunOriginal ==
    /\ stack # <<>> /\ Top.at = "original"
    /\ EndByItself

(* The original has what its call of a patched function gave it.           *)
ResumeOriginal ==
    /\ stack # <<>> /\ Top.at = "resumed"
    /\ EndByItself

(* It does not catch the exception the inner call raised.                  *)
LetThrough ==
    /\ stack # <<>> /\ Top.at = "resumed"
    /\ Top.result.kind \in {"throw", "error"}
    /\ stack' = ReplaceTop([Top EXCEPT !.at = "ended"])
    /\ seen' = Nothing
    /\ UNCHANGED <<app, agentVars, patchVars, historyVars>>

(* What the caller of the patched function gets.  A patch on a coroutine   *)
(* function awaits what the wrapper returns: the original's coroutine, or  *)
(* a value that cannot be awaited.                                         *)
Awaited(frame, point) ==
    IF IsCoroutine(point) /\ frame.wrapper = "sync" /\ frame.effect.kind = "return"
    THEN Effect("throw", "class", "TypeError") ELSE frame.result

(* The wrapper is left: its caller is the client, or an original that goes *)
(* on with what it got.                                                    *)
PassOn(result) ==
    LET outer == Len(stack) - 1
    IN  IF outer = 0
        THEN stack' = <<>> /\ seen' = Outcome(result)
        ELSE /\ stack' = [SubSeq(stack, 1, outer) EXCEPT
                            ![outer] = [@ EXCEPT !.at = "resumed",
                                                 !.result = result]]
             /\ seen' = Nothing

(* Mutant: the original is called inside the try of the advice, whose      *)
(* "except Exception" logs what it raises.                                 *)
LeaveCatching ==
    /\ stack # <<>> /\ Top.at = "ended"
    /\ PassOn(IF ~Interrupted(Top.effect) /\ Top.result.kind \in {"throw", "error"}
              THEN Effect("value", "none", "")
              ELSE Awaited(Top, TopCall.point))
    /\ UNCHANGED <<app, agentVars, patchVars, historyVars>>

Leave ==
    /\ stack # <<>> /\ Top.at = "ended"
    /\ PassOn(Awaited(Top, TopCall.point))
    /\ UNCHANGED <<app, agentVars, patchVars, historyVars>>

Next ==
    \/ \E request \in app.requests : Serve(request)
    \/ \E point \in AppPoints : Import(point)
    \/ Call
    \/ Advise
    \/ CallInner
    \/ RunOriginal
    \/ ResumeOriginal
    \/ LetThrough
    \/ Leave

Spec == Init /\ [][Next]_vars

-----------------------------------------------------------------------------
(* Type correctness: what is registered, patched and in progress.          *)
TypeOK ==
    /\ \A i, j \in DOMAIN experiments :
          Uid(experiments[i]) = Uid(experiments[j]) => i = j
    /\ \A e \in Range(experiments) :
          /\ e.hits \in 0..MaxHits + Len(app.calls)
          /\ e.model.target \in loaded
    /\ level \in {"unset", "INFO", "DEBUG"}
    /\ loaded \subseteq Targets
    /\ imported \subseteq AppPoints /\ late \subseteq imported
    /\ \A p \in Points : /\ wrapper[p] \in {"none", "sync", "async"}
                         /\ pending[p] \in {"none", "sync"}
                         /\ wrapper[p] # "none" => p \in imported
                         /\ pending[p] # "none" => p \notin imported
    /\ Len(stack) <= Len(app.calls)
    /\ \A i \in DOMAIN stack : stack[i].at = "calling" <=> i < Len(stack)

(* What a create asks for beside the flags of its action and its limits.   *)
Conditions(asked) ==
    UNION { DOMAIN asked \ (ReservedKeys \cup ControlMatchers \cup spec.flags) :
              spec \in GetActionSpec(asked.target, asked.action) }

(* A call that meets a fault is one the client described: each parameter   *)
(* of the create that is no flag and no limit is, up to case, true of the  *)
(* call, whatever the extractors made of its arguments.                    *)
FaultsAsAsked ==
    \A i \in DOMAIN stack :
        stack[i].effect.kind \in {"held", "return", "throw"} =>
            LET asked == stack[i].asked
                facts == app.calls[i].facts
            IN  \A key \in Conditions(asked) :
                    /\ key \in DOMAIN facts
                    /\ \E text \in facts[key] : Fold(text) = Fold(asked[key])

(* A create with effect-count=n causes no more than n faults, by whatever  *)
(* way the text n got from the request to the injector.                    *)
LimitKept ==
    \A e \in Range(experiments) :
        (/\ Has(e.asked, "effect-count")
         /\ e.asked["effect-count"] \in DOMAIN IntOf
         /\ e.faults > 0)
        => e.faults + e.idle <= IntOf[e.asked["effect-count"]]

(* The count a client reads is the number of faults, but for delays that   *)
(* are accepted and do not wait: a time of zero, below, or no number.      *)
HitsAreFaults ==
    \A e \in Range(experiments) :
        /\ e.hits = e.faults + e.idle
        /\ e.idle > 0 => /\ e.asked.action = "delay"
                         /\ Milliseconds(e.asked, "time") <= 0

(* A call is decided by a fault, or by an original that ends by itself.    *)
Decisive(i) == Interrupted(trace[i]) \/ own[i] # NoEffect

(* Of nested calls the outermost decided one settles what their caller     *)
(* gets.                                                                   *)
DecidedFrom(k, d) ==
    /\ d \in k..Len(trace)
    /\ Decisive(d)
    /\ \A i \in k..(d - 1) : ~Decisive(i)

Delivered(d, result) ==
    IF own[d] # NoEffect THEN result = own[d]
    ELSE \/ result = trace[d]
         \/ /\ trace[d].kind = "return"
            /\ result = Effect("throw", "class", "TypeError")
            /\ app.calls[d].point \in late
            /\ IsCoroutine(app.calls[d].point)

(* No wrapper on the way changes what reaches the caller of nested patched *)
(* functions: it is the value or error some original ended with by itself, *)
(* or the fault injected into a call that every original around it let     *)
(* through, whatever errors of the agent those wrappers swallow.  Only a   *)
(* value injected into a coroutine function fails, with a TypeError, and   *)
(* only if the experiment was created before the module was imported.      *)
CallerSeesFault ==
    seen.kind = "call" =>
        \E d \in DOMAIN trace : /\ DecidedFrom(1, d)
                                 /\ Delivered(d, seen.result)

(* A request that is answered with an error leaves every experiment as it  *)
(* was, and every patch, but for the one way a create can fail after its   *)
(* checks: then its target is loaded for good, and only points of this     *)
(* target may be patched or queued.                                        *)
RefusedLeavesNoRule ==
    [][(seen'.kind = "reply" /\ seen'.code # 200) =>
          /\ UNCHANGED experiments
          /\ \/ UNCHANGED <<loaded, wrapper, pending>>
             \/ /\ seen'.code = 500
                /\ \E target \in Targets \ loaded :
                      /\ loaded' = loaded \cup {target}
                      /\ \A point \in Points \ PointsFor(target) :
                            /\ wrapper'[point] = wrapper[point]
                            /\ pending'[point] = pending[point]]_vars

(* Experiments leave by a destroy that names their uid, or their target    *)
(* and their action in the very words of their create, be it the name or   *)
(* the alias; those it names are all gone when it is answered.             *)
DestroyIsByName ==
    [][\A request \in app.requests :
          LET p == Params(request)
              named == { e.uid : e \in { x \in Range(experiments) :
                           IF Has(p, "suid") THEN x.asked.suid = p.suid
                           ELSE /\ Has(p, "target") /\ Has(p, "action")
                                /\ x.asked.target = p.target
                                /\ x.asked.action = p.action } }
          IN  (request.command = "destroy" /\ Serve(request)) =>
              { e.uid : e \in Range(experiments') } = Registered \ named]_vars
=============================================================================
