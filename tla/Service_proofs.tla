---------------------------- MODULE Service_proofs ----------------------------
(***************************************************************************)
(* Proofs about what a client and a caller see, whatever the applications, *)
(* their requests and the meaning of their texts: no wrapper on the way    *)
(* changes what reaches the caller of nested patched calls; a request that *)
(* is answered with an error changes no experiment, and a patch only where *)
(* a create fails half way; counts and limits of an experiment agree with  *)
(* its faults; a destroy removes what it names and no more; and a fault    *)
(* meets only calls that its create described.                             *)
(***************************************************************************)
EXTENDS Service, SequenceLemmas, TLAPS

IsFrame(f) ==
    f \in [wrapper : {f.wrapper}, at : {f.at}, result : {f.result},
           effect : {f.effect}, asked : {f.asked}]

(* A coroutine function has a synchronous wrapper only if it was patched   *)
(* by the import of its module.                                            *)
PatchesOK ==
    /\ app \in Applications
    /\ imported \subseteq Points
    /\ wrapper = [p \in Points |-> wrapper[p]]
    /\ \A p \in Points :
          IsCoroutine(p) /\ wrapper[p] = "sync" => p \in late

(* The calls that are in progress: the history has the effect of each, and *)
(* none but the innermost is decided.                                      *)
StackOK ==
    /\ IsSequence(stack) /\ IsSequence(trace) /\ IsSequence(own)
    /\ Len(stack) <= Len(trace) /\ Len(own) = Len(trace)
    /\ \A i \in 1..Len(stack) :
          /\ IsFrame(stack[i])
          /\ trace[i] = stack[i].effect
          /\ IsCoroutine(app.calls[i].point) /\ stack[i].wrapper = "sync"
             => app.calls[i].point \in late
          /\ i < Len(stack) => ~Decisive(i)

(* Of the calls from the n-th on, the first decided one has this result.   *)
EndsAs(n, result) == \E d : DecidedFrom(n, d) /\ Delivered(d, result)

(* The innermost call is not decided before it ends; what it got from the  *)
(* call it made, or ends with, is what the calls from there on decided.    *)
TopOK ==
    stack # <<>> =>
        /\ Top.at \notin {"ended", "resumed"} =>
              Len(trace) = Len(stack) /\ ~Decisive(Len(stack))
        /\ Top.at = "resumed" =>
              ~Decisive(Len(stack)) /\ EndsAs(Len(stack) + 1, Top.result)
        /\ Top.at = "ended" =>
              IF Interrupted(Top.effect)
              THEN Top.result = Top.effect /\ own[Len(stack)] = NoEffect
              ELSE EndsAs(Len(stack), Top.result)

CallerInvariant == PatchesOK /\ StackOK /\ TopOK /\ CallerSeesFault

-----------------------------------------------------------------------------
(* No call and no patch to begin with.                                     *)
LEMMA InitCaller == Init => CallerInvariant
  <1>. SUFFICES ASSUME Init PROVE CallerInvariant
    OBVIOUS
  <1>1. IsSequence(<<>>) /\ Len(<<>>) = 0
    BY EmptySeq, SequenceOf
  <1>. QED BY <1>1
    DEF Init, CallerInvariant, PatchesOK, StackOK, TopOK, CallerSeesFault,
        Nothing

(* What calls ended as, they have ended as when more patches are late.     *)
LEMMA EndsAsStays ==
  ASSUME late \subseteq late', UNCHANGED <<app, trace, own>>,
         NEW n, NEW result, EndsAs(n, result)
  PROVE  EndsAs(n, result)'
  <1>1. PICK d : DecidedFrom(n, d) /\ Delivered(d, result)
    BY DEF EndsAs
  <1>2. DecidedFrom(n, d)' /\ Delivered(d, result)'
    BY <1>1 DEF DecidedFrom, Delivered, Decisive
  <1>. QED BY <1>2 DEF EndsAs

(* Where calls and their history stay as they are, all that was said of    *)
(* them remains.                                                           *)
LEMMA CallsStay ==
  ASSUME CallerInvariant, PatchesOK', late \subseteq late',
         UNCHANGED <<app, stack, trace, own>>, seen' = seen \/ seen'.kind # "call"
  PROVE  CallerInvariant'
  <1>1. StackOK'
    BY DEF CallerInvariant, StackOK, Decisive
  <1>2. TopOK'
    <2>1. PICK n, r : n = Len(stack) /\ r = Top.result
      OBVIOUS
    <2>2. /\ Len(stack') = n /\ Top'.result = r /\ Top' = Top
          /\ Decisive(n)' <=> Decisive(n)
      BY <2>1 DEF Top, Decisive
    <2>3. EndsAs(n, r) => EndsAs(n, r)'
      BY EndsAsStays
    <2>4. EndsAs(n + 1, r) => EndsAs(n + 1, r)'
      BY EndsAsStays
    <2>. QED BY <2>1, <2>2, <2>3, <2>4 DEF CallerInvariant, TopOK
  <1>3. CallerSeesFault'
    BY DEF CallerInvariant, CallerSeesFault, DecidedFrom, Delivered, Decisive
  <1>. QED BY <1>1, <1>2, <1>3 DEF CallerInvariant

(* The plugin of a target is loaded once its module is there, or patched   *)
(* when it is imported.                                                    *)
LEMMA LoadKeepsPatches ==
  ASSUME PatchesOK, NEW target, NEW added, LazyLoadPlugin(target, added),
         UNCHANGED <<app, imported, late>>
  PROVE  PatchesOK'
  BY DEF PatchesOK, LazyLoadPlugin, ChooseWrapper

(* A create that changes a patch loads the plugin of its target.           *)
LEMMA CreateEffects ==
  ASSUME NEW p, Create(p)
  PROVE  /\ seen'.kind = "reply"
         /\ wrapper' = wrapper \/ \E target, added : LazyLoadPlugin(target, added)
  <1>1. CASE Succeed(p)
    BY <1>1 DEF Succeed, Reply, Answer
  <1>2. CASE Fail(p)
    BY <1>2 DEF Fail, Reply, Answer
  <1>3. CASE Refuse(p)
    BY <1>3 DEF Refuse, Reply, Answer
  <1>. QED BY <1>1, <1>2, <1>3 DEF Create

(* A request is answered, and patches points of one target or none.        *)
LEMMA RequestEffects ==
  ASSUME NEW request, Serve(request)
  PROVE  /\ seen'.kind = "reply"
         /\ wrapper' = wrapper \/ \E target, added : LazyLoadPlugin(target, added)
         /\ UNCHANGED <<app, imported, late, stack, trace, own>>
  <1>. DEFINE p == Params(request)
  <1>1. CASE Create(p)
    BY <1>1, CreateEffects DEF Serve, historyVars
  <1>2. CASE Destroy(p)
    BY <1>2 DEF Destroy, Answer, Serve, historyVars
  <1>3. ASSUME \/ Status(p) \/ List(p) \/ Health \/ seen' = Reply(404),
               UNCHANGED wrapper
        PROVE  seen'.kind = "reply"
    BY <1>3 DEF Status, List, Health, Reply, Answer
  <1>. QED BY <1>1, <1>2, <1>3 DEF Serve, Dispatch, historyVars

(* The innermost frame is replaced, or another one is put on it.           *)
LEMMA ReplacedTop ==
  ASSUME IsSequence(stack), stack # <<>>, NEW frame, stack' = ReplaceTop(frame)
  PROVE  /\ IsSequence(stack') /\ stack' # <<>>
         /\ Len(stack') = Len(stack) /\ Len(stack) \in 1..Len(stack)
         /\ Len(stack) \in Nat
         /\ \A j \in 1..Len(stack) :
               stack'[j] = IF j = Len(stack) THEN frame ELSE stack[j]
         /\ Top' = frame
  <1>1. Len(stack) \in Nat /\ Len(stack) \in 1..Len(stack)
    BY SequenceLength
  <1>2. /\ IsSequence(stack') /\ Len(stack') = Len(stack)
        /\ \A j \in 1..Len(stack) :
              stack'[j] = IF j = Len(stack) THEN frame ELSE stack[j]
    <2>1. stack' = Changed(stack, Len(stack), frame)
      BY DEF ReplaceTop, Changed
    <2>. QED BY <1>1, <2>1, SequenceExcept
  <1>3. stack' # <<>>
    BY <1>1, <1>2, EmptySeq
  <1>. QED BY <1>1, <1>2, <1>3 DEF Top

(* A frame that takes the place of the innermost one and kept its wrapper, *)
(* while the history has its effect and how its original ended.            *)
LEMMA TopChanges ==
  ASSUME StackOK, stack # <<>>, UNCHANGED <<app, late>>,
         NEW frame, stack' = ReplaceTop(frame),
         IsFrame(frame), frame.wrapper = Top.wrapper,
         IsSequence(trace'), Len(trace') = Len(trace),
         IsSequence(own'), Len(own') = Len(own),
         \A i \in 1..Len(stack) :
             /\ trace'[i] = IF i = Len(stack) THEN frame.effect ELSE trace[i]
             /\ i < Len(stack) => own'[i] = own[i]
  PROVE  /\ StackOK' /\ stack' # <<>> /\ Top' = frame
         /\ Len(stack') = Len(stack)
  <1>1. /\ IsSequence(stack') /\ stack' # <<>>
        /\ Len(stack') = Len(stack) /\ Len(stack) \in 1..Len(stack)
        /\ \A j \in 1..Len(stack) :
              stack'[j] = IF j = Len(stack) THEN frame ELSE stack[j]
        /\ Top' = frame
    BY ReplacedTop DEF StackOK
  <1>2. ASSUME NEW i \in 1..Len(stack)
        PROVE  /\ IsFrame(stack'[i]) /\ trace'[i] = stack'[i].effect
               /\ stack'[i].wrapper = stack[i].wrapper
               /\ i < Len(stack) => ~Decisive(i)'
    BY <1>1 DEF StackOK, Top, Decisive
  <1>3. \A i \in 1..Len(stack') :
          /\ IsFrame(stack'[i]) /\ trace'[i] = stack'[i].effect
          /\ IsCoroutine(app'.calls[i].point) /\ stack'[i].wrapper = "sync"
             => app'.calls[i].point \in late'
          /\ i < Len(stack') => ~Decisive(i)'
    BY <1>1, <1>2 DEF StackOK
  <1>. QED BY <1>1, <1>3 DEF StackOK

(* A synchronous wrapper on a coroutine function is one of a late patch.   *)
LEMMA LateFrame ==
  ASSUME PatchesOK, NEW c, c.point \in imported
  PROVE  /\ IsFrame(Frame(c)) /\ Frame(c).effect = NoEffect
         /\ Frame(c).at \notin {"ended", "resumed"}
         /\ IsCoroutine(c.point) /\ Frame(c).wrapper = "sync"
            => c.point \in late
  BY DEF PatchesOK, Frame, IsFrame

(* A call that nothing hit and whose original has not ended is undecided.  *)
LEMMA NoEffectProceeds == ~Interrupted(NoEffect)
  BY DEF Interrupted, NoEffect, Effect

-----------------------------------------------------------------------------
(* The module of a point is imported: a patch that waited for it is late.  *)
LEMMA ImportCaller ==
  ASSUME CallerInvariant, NEW point \in AppPoints, Import(point)
  PROVE  CallerInvariant'
  <1>1. point \in Points
    BY ServiceAssumption DEF CallerInvariant, PatchesOK, AppPoints
  <1>2. /\ late \subseteq late' /\ seen'.kind # "call"
        /\ UNCHANGED <<app, stack, trace, own>>
    BY DEF Import, Nothing, historyVars
  <1>3. PatchesOK'
    BY <1>1 DEF Import, CallerInvariant, PatchesOK
  <1>. QED BY <1>2, <1>3, CallsStay

(* The application calls its first function.                               *)
LEMMA CallCaller ==
  ASSUME CallerInvariant, Call
  PROVE  CallerInvariant'
  <1>. DEFINE c == app.calls[1]
  <1>1. /\ IsSequence(<<Frame(c)>>) /\ Len(<<Frame(c)>>) = 1
        /\ IsSequence(<<NoEffect>>) /\ Len(<<NoEffect>>) = 1
    <2>1. <<Frame(c)>> \in Seq({Frame(c)}) /\ <<NoEffect>> \in Seq({NoEffect})
      OBVIOUS
    <2>. QED BY <2>1, SequenceOf
  <1>2. /\ stack' = <<Frame(c)>> /\ trace' = <<NoEffect>> /\ own' = <<NoEffect>>
        /\ seen'.kind # "call"
    BY DEF Call, Nothing
  <1>3. /\ IsFrame(Frame(c)) /\ Frame(c).effect = NoEffect
        /\ Frame(c).at \notin {"ended", "resumed"}
        /\ IsCoroutine(c.point) /\ Frame(c).wrapper = "sync" => c.point \in late
    BY LateFrame DEF CallerInvariant, Call
  <1>4. PatchesOK' /\ UNCHANGED <<app, late>>
    BY DEF Call, CallerInvariant, PatchesOK, patchVars
  <1>5. StackOK'
    BY <1>1, <1>2, <1>3, <1>4 DEF StackOK
  <1>6. TopOK'
    BY <1>1, <1>2, <1>3, NoEffectProceeds DEF TopOK, Top, Decisive
  <1>. QED BY <1>2, <1>4, <1>5, <1>6 DEF CallerInvariant, CallerSeesFault

(* A frame is a record: what is set in it, and what stays.                 *)
Advised(f, at, result, effect, asked) ==
    [f EXCEPT !.at = at, !.result = result, !.effect = effect, !.asked = asked]
WithResult(f, at, result) == [f EXCEPT !.at = at, !.result = result]
Moved(f, at) == [f EXCEPT !.at = at]

(* The fields of a frame after its advice.                                 *)
LEMMA AdvisedFrame ==
  ASSUME NEW f, IsFrame(f), NEW at, NEW result, NEW effect, NEW asked
  PROVE  LET g == Advised(f, at, result, effect, asked)
         IN  /\ IsFrame(g) /\ g.wrapper = f.wrapper /\ g.at = at
             /\ g.result = result /\ g.effect = effect /\ g.asked = asked
  <1>. DEFINE g == Advised(f, at, result, effect, asked)
              Both == [wrapper : {f.wrapper}, at : {f.at, at},
                       result : {f.result, result}, effect : {f.effect, effect},
                       asked : {f.asked, asked}]
  <1>1. f \in Both
    BY DEF IsFrame
  <1>2. /\ g \in Both /\ g.wrapper = f.wrapper /\ g.at = at
        /\ g.result = result /\ g.effect = effect /\ g.asked = asked
    BY <1>1 DEF Advised
  <1>. QED BY <1>2 DEF IsFrame

(* The fields of a frame that got a result, of its own or from inside.     *)
LEMMA ResultFrame ==
  ASSUME NEW f, IsFrame(f), NEW at, NEW result
  PROVE  LET g == WithResult(f, at, result)
         IN  /\ IsFrame(g) /\ g.wrapper = f.wrapper /\ g.at = at
             /\ g.result = result /\ g.effect = f.effect
             /\ g.asked = f.asked
  <1>. DEFINE g == WithResult(f, at, result)
              Both == [wrapper : {f.wrapper}, at : {f.at, at},
                       result : {f.result, result}, effect : {f.effect},
                       asked : {f.asked}]
  <1>1. f \in Both
    BY DEF IsFrame
  <1>2. /\ g \in Both /\ g.wrapper = f.wrapper /\ g.at = at
        /\ g.result = result /\ g.effect = f.effect /\ g.asked = f.asked
    BY <1>1 DEF WithResult
  <1>. QED BY <1>2 DEF IsFrame

(* The fields of a frame that goes on as it is.                            *)
LEMMA MovedFrame ==
  ASSUME NEW f, IsFrame(f), NEW at
  PROVE  LET g == Moved(f, at)
         IN  /\ IsFrame(g) /\ g.wrapper = f.wrapper /\ g.at = at
             /\ g.result = f.result /\ g.effect = f.effect /\ g.asked = f.asked
  <1>. DEFINE g == Moved(f, at)
              Both == [wrapper : {f.wrapper}, at : {f.at, at},
                       result : {f.result}, effect : {f.effect},
                       asked : {f.asked}]
  <1>1. f \in Both
    BY DEF IsFrame
  <1>2. /\ g \in Both /\ g.wrapper = f.wrapper /\ g.at = at
        /\ g.result = f.result /\ g.effect = f.effect /\ g.asked = f.asked
    BY <1>1 DEF Moved
  <1>. QED BY <1>2 DEF IsFrame

(* The advice interrupts the call or lets it proceed.                      *)
LEMMA AdvisedCaller ==
  ASSUME CallerInvariant, stack # <<>>, Top.at \notin {"ended", "resumed"},
         NEW e, NEW at, NEW result, NEW asked,
         at = IF Interrupted(e) THEN "ended" ELSE "original",
         result = IF Interrupted(e) THEN e ELSE NoEffect,
         stack' = ReplaceTop(Advised(Top, at, result, e, asked)),
         trace' = Changed(trace, Len(stack), e), own' = own,
         seen'.kind # "call", UNCHANGED <<app, imported, wrapper, late>>
  PROVE  CallerInvariant'
  <1>. DEFINE frame == Advised(Top, at, result, e, asked)
  <1>1. /\ StackOK /\ Len(trace) = Len(stack) /\ PatchesOK
        /\ own[Len(stack)] = NoEffect
        /\ Len(stack) \in Nat /\ Len(stack) \in 1..Len(stack)
    BY SequenceLength DEF CallerInvariant, TopOK, StackOK, Decisive
  <1>2. IsFrame(Top)
    BY <1>1 DEF StackOK, Top
  <1>3. /\ IsFrame(frame) /\ frame.wrapper = Top.wrapper /\ frame.at = at
        /\ frame.result = result /\ frame.effect = e
    BY <1>2, AdvisedFrame
  <1>. HIDE DEF frame
  <1>4. /\ IsSequence(trace') /\ Len(trace') = Len(trace)
        /\ \A i \in 1..Len(stack) :
              trace'[i] = IF i = Len(stack) THEN e ELSE trace[i]
        /\ IsSequence(own') /\ Len(own') = Len(own)
    BY <1>1, SequenceExcept DEF StackOK
  <1>5. /\ StackOK' /\ stack' # <<>> /\ Top' = frame
        /\ Len(stack') = Len(stack)
    BY <1>1, <1>3, <1>4, TopChanges DEF frame
  <1>6. TopOK'
    BY <1>1, <1>3, <1>4, <1>5 DEF TopOK, Decisive
  <1>7. PatchesOK'
    BY <1>1 DEF PatchesOK
  <1>. QED BY <1>5, <1>6, <1>7 DEF CallerInvariant, CallerSeesFault

(* An advice keeps what callers see.                                       *)
LEMMA AdviseCaller ==
  ASSUME CallerInvariant, Advise
  PROVE  CallerInvariant'
  <1>1. PICK hit \in Inject(TopCall) :
          LET e == hit.effect
          IN  /\ stack' = ReplaceTop([Top EXCEPT
                    !.at = IF Interrupted(e) THEN "ended" ELSE "original",
                    !.result = IF Interrupted(e) THEN e ELSE NoEffect,
                    !.effect = e,
                    !.asked = IF hit.at = 0 THEN <<>>
                              ELSE experiments[hit.at].asked])
              /\ trace' = [trace EXCEPT ![Len(stack)] = e]
    BY DEF Advise
  <1>. DEFINE e == hit.effect
              at == IF Interrupted(e) THEN "ended" ELSE "original"
              result == IF Interrupted(e) THEN e ELSE NoEffect
              asked == IF hit.at = 0 THEN <<>> ELSE experiments[hit.at].asked
  <1>2. /\ stack' = ReplaceTop(Advised(Top, at, result, e, asked))
        /\ trace' = Changed(trace, Len(stack), e)
        /\ at = IF Interrupted(e) THEN "ended" ELSE "original"
        /\ result = IF Interrupted(e) THEN e ELSE NoEffect
    BY <1>1 DEF Advised, Changed
  <1>3. /\ stack # <<>> /\ Top.at \notin {"ended", "resumed"}
        /\ seen'.kind # "call"
        /\ UNCHANGED <<app, imported, wrapper, late, own>>
    BY DEF Advise, Nothing, patchVars
  <1>. HIDE DEF e, at, result, asked
  <1>. QED BY <1>2, <1>3, AdvisedCaller

(* The original ends by itself, called or resumed: that decides the call.  *)
LEMMA EndedCaller ==
  ASSUME CallerInvariant, stack # <<>>, Top.at \in {"original", "resumed"},
         EndByItself
  PROVE  CallerInvariant'
  <1>. DEFINE n == Len(stack)
  <1>1. PICK ending : /\ ending # NoEffect
                      /\ stack' = ReplaceTop(WithResult(Top, "ended", ending))
                      /\ own' = Changed(own, n, ending)
    <2>1. PICK kind \in {"value", "error"} :
            LET ending == Effect(kind, "own", "")
            IN  /\ stack' = ReplaceTop([Top EXCEPT !.at = "ended",
                                                   !.result = ending])
                /\ own' = [own EXCEPT ![Len(stack)] = ending]
      BY DEF EndByItself
    <2>2. Effect(kind, "own", "") # NoEffect
      BY DEF Effect, NoEffect
    <2>. QED BY <2>1, <2>2 DEF WithResult, Changed
  <1>2. seen'.kind # "call" /\ UNCHANGED <<app, imported, wrapper, late, trace>>
    BY DEF EndByItself, Nothing, patchVars
  <1>. DEFINE frame == WithResult(Top, "ended", ending)
  <1>3. /\ StackOK /\ PatchesOK /\ ~Decisive(n)
        /\ n \in Nat /\ n \in 1..n /\ n \in 1..Len(trace) /\ Len(trace) \in Nat
    BY SequenceLength DEF CallerInvariant, TopOK, StackOK
  <1>4. IsFrame(Top) /\ trace[n] = Top.effect /\ ~Interrupted(Top.effect)
    BY <1>3 DEF StackOK, Top, Decisive
  <1>5. /\ IsFrame(frame) /\ frame.wrapper = Top.wrapper
        /\ frame.at = "ended" /\ frame.effect = Top.effect
        /\ frame.result = ending
    BY <1>4, ResultFrame
  <1>. HIDE DEF frame
  <1>6. /\ IsSequence(own') /\ Len(own') = Len(own)
        /\ \A i \in 1..Len(own) : own'[i] = IF i = n THEN ending ELSE own[i]
        /\ Len(own) = Len(trace)
    BY <1>1, <1>3, SequenceExcept DEF StackOK
  <1>7. /\ StackOK' /\ stack' # <<>> /\ Top' = frame
        /\ Len(stack') = n
    <2>1. /\ IsSequence(trace') /\ Len(trace') = Len(trace)
          /\ \A i \in 1..n :
                /\ trace'[i] = IF i = n THEN frame.effect ELSE trace[i]
                /\ i < n => own'[i] = own[i]
      BY <1>2, <1>3, <1>4, <1>5, <1>6 DEF StackOK
    <2>. QED BY <1>1, <1>2, <1>3, <1>5, <1>6, <2>1, TopChanges DEF frame
  <1>8. PICK k : k = n
    OBVIOUS
  <1>9. EndsAs(k, ending)'
    <2>1. own'[k] = ending /\ k \in k..Len(trace') /\ k \in Nat
      BY <1>2, <1>3, <1>6, <1>8
    <2>2. \A i \in k..(k - 1) : FALSE
      BY <2>1
    <2>. QED BY <1>1, <2>1, <2>2 DEF EndsAs, DecidedFrom, Delivered, Decisive
  <1>10. TopOK'
    BY <1>2, <1>4, <1>5, <1>7, <1>8, <1>9 DEF TopOK
  <1>11. PatchesOK'
    BY <1>2, <1>3 DEF PatchesOK
  <1>. QED BY <1>2, <1>7, <1>10, <1>11 DEF CallerInvariant, CallerSeesFault

(* The original ends with the exception that the call it made has raised.  *)
LEMMA LetThroughCaller ==
  ASSUME CallerInvariant, LetThrough
  PROVE  CallerInvariant'
  <1>. DEFINE n == Len(stack)
              frame == Moved(Top, "ended")
  <1>1. /\ stack # <<>> /\ Top.at = "resumed"
        /\ stack' = ReplaceTop(frame)
        /\ seen'.kind # "call"
        /\ UNCHANGED <<app, imported, wrapper, late, trace, own>>
    BY DEF LetThrough, Nothing, patchVars, historyVars, Moved
  <1>2. /\ StackOK /\ PatchesOK /\ ~Decisive(n) /\ EndsAs(n + 1, Top.result)
        /\ n \in Nat /\ n \in 1..n /\ Len(trace) \in Nat
    BY <1>1, SequenceLength DEF CallerInvariant, TopOK, StackOK
  <1>3. IsFrame(Top) /\ trace[n] = Top.effect /\ ~Interrupted(Top.effect)
    BY <1>2 DEF StackOK, Top, Decisive
  <1>4. /\ IsFrame(frame) /\ frame.wrapper = Top.wrapper
        /\ frame.at = "ended" /\ frame.effect = Top.effect
        /\ frame.result = Top.result
    BY <1>3, MovedFrame
  <1>. HIDE DEF frame
  <1>5. /\ StackOK' /\ stack' # <<>> /\ Top' = frame
        /\ Len(stack') = n
    <2>1. /\ IsSequence(trace') /\ Len(trace') = Len(trace)
          /\ IsSequence(own') /\ Len(own') = Len(own)
          /\ \A i \in 1..n :
                /\ trace'[i] = IF i = n THEN frame.effect ELSE trace[i]
                /\ i < n => own'[i] = own[i]
      BY <1>1, <1>2, <1>3, <1>4 DEF StackOK
    <2>. QED BY <1>1, <1>2, <1>4, <2>1, TopChanges
  <1>6. EndsAs(n, Top.result)
    <2>1. PICK d : DecidedFrom(n + 1, d) /\ Delivered(d, Top.result)
      BY <1>2 DEF EndsAs
    <2>2. d \in n..Len(trace)
      BY <1>2, <2>1 DEF DecidedFrom
    <2>3. \A i \in n..(d - 1) : i = n \/ i \in (n + 1)..(d - 1)
      BY <1>2, <2>2
    <2>. QED BY <1>2, <2>1, <2>2, <2>3 DEF EndsAs, DecidedFrom
  <1>7. PICK k, r : k = n /\ r = Top.result
    OBVIOUS
  <1>8. EndsAs(k, r)'
    BY <1>1, <1>6, <1>7, EndsAsStays
  <1>9. TopOK'
    BY <1>3, <1>4, <1>5, <1>7, <1>8 DEF TopOK
  <1>10. PatchesOK'
    BY <1>1, <1>2 DEF PatchesOK
  <1>. QED BY <1>1, <1>5, <1>9, <1>10 DEF CallerInvariant, CallerSeesFault

(* The original calls the next function.                                   *)
LEMMA CallInnerCaller ==
  ASSUME CallerInvariant, CallInner
  PROVE  CallerInvariant'
  <1>. DEFINE n == Len(stack)
              c == app.calls[n + 1]
              inner == Frame(c)
              outer == ReplaceTop(Moved(Top, "calling"))
  <1>1. /\ stack # <<>> /\ Top.at \notin {"ended", "resumed"}
        /\ seen'.kind # "call" /\ c.point \in imported
        /\ stack' = Append(outer, inner) /\ trace' = Append(trace, NoEffect)
        /\ own' = Append(own, NoEffect)
        /\ UNCHANGED <<app, imported, wrapper, late>>
    BY DEF CallInner, Nothing, patchVars, Moved
  <1>2. /\ StackOK /\ Len(trace) = n /\ Len(own) = n /\ PatchesOK /\ ~Decisive(n)
        /\ n \in Nat /\ n \in 1..n
    BY <1>1, SequenceLength DEF CallerInvariant, TopOK, StackOK
  <1>3. IsFrame(Top) /\ trace[n] = Top.effect
    BY <1>2 DEF StackOK, Top
  <1>4. /\ IsFrame(Moved(Top, "calling"))
        /\ Moved(Top, "calling").wrapper = Top.wrapper
        /\ Moved(Top, "calling").effect = Top.effect
    BY <1>3, MovedFrame
  <1>5. /\ IsFrame(inner) /\ inner.effect = NoEffect
        /\ inner.at \notin {"ended", "resumed"}
        /\ IsCoroutine(c.point) /\ inner.wrapper = "sync" => c.point \in late
    BY <1>1, <1>2, LateFrame
  <1>6. /\ IsSequence(outer) /\ Len(outer) = n
        /\ \A j \in 1..n : outer[j] = IF j = n THEN Moved(Top, "calling") ELSE stack[j]
    <2>1. outer = Changed(stack, Len(stack), Moved(Top, "calling"))
      BY DEF ReplaceTop, Changed
    <2>. QED BY <1>2, <2>1, SequenceExcept DEF StackOK
  <1>. HIDE DEF inner, outer
  <1>7. /\ IsSequence(stack') /\ stack' # <<>> /\ Len(stack') = n + 1
        /\ \A i \in 1..n : stack'[i] = outer[i]
        /\ stack'[n + 1] = inner
    BY <1>1, <1>6, SequenceAppend
  <1>8. /\ IsSequence(trace') /\ Len(trace') = n + 1
        /\ \A i \in 1..n : trace'[i] = trace[i]
        /\ trace'[n + 1] = NoEffect
        /\ IsSequence(own') /\ Len(own') = n + 1
        /\ \A i \in 1..n : own'[i] = own[i]
        /\ own'[n + 1] = NoEffect
    BY <1>1, <1>2, SequenceAppend DEF StackOK
  <1>9. ASSUME NEW i \in 1..(n + 1)
        PROVE  /\ IsFrame(stack'[i]) /\ trace'[i] = stack'[i].effect
               /\ IsCoroutine(app'.calls[i].point) /\ stack'[i].wrapper = "sync"
                  => app'.calls[i].point \in late'
               /\ i < n + 1 => ~Decisive(i)'
    <2>1. CASE i \in 1..(n - 1)
      BY <1>1, <1>2, <1>6, <1>7, <1>8, <2>1 DEF StackOK, Decisive
    <2>2. CASE i = n
      <3>1. stack'[n] = Moved(Top, "calling") /\ trace'[n] = Top.effect
        BY <1>2, <1>3, <1>6, <1>7, <1>8
      <3>2. IsCoroutine(app.calls[n].point) /\ Top.wrapper = "sync"
            => app.calls[n].point \in late
        BY <1>2 DEF StackOK, Top
      <3>3. ~Decisive(i)'
        BY <1>2, <1>8, <2>2 DEF Decisive
      <3>. QED BY <1>1, <1>2, <1>4, <2>2, <3>1, <3>2, <3>3
    <2>3. CASE i = n + 1
      BY <1>1, <1>2, <1>5, <1>7, <1>8, <2>3
    <2>. QED BY <1>2, <2>1, <2>2, <2>3
  <1>10. StackOK'
    BY <1>2, <1>7, <1>8, <1>9 DEF StackOK
  <1>11. TopOK'
    BY <1>5, <1>7, <1>8, NoEffectProceeds DEF TopOK, Top, Decisive
  <1>12. PatchesOK'
    BY <1>1, <1>2 DEF PatchesOK
  <1>. QED BY <1>1, <1>10, <1>11, <1>12 DEF CallerInvariant, CallerSeesFault

(* The wrapper is left: its call and those below it have ended as this.    *)
LEMMA LeftDelivers ==
  ASSUME CallerInvariant, stack # <<>>, Top.at = "ended"
  PROVE  EndsAs(Len(stack), Awaited(Top, TopCall.point))
  <1>. DEFINE n == Len(stack)
              result == Awaited(Top, TopCall.point)
  <1>1. n \in Nat \ {0} /\ n \in 1..n /\ Len(trace) \in Nat /\ n \in n..Len(trace)
    BY SequenceLength DEF CallerInvariant, StackOK
  <1>2. /\ trace[n] = Top.effect
        /\ IsCoroutine(TopCall.point) /\ Top.wrapper = "sync"
           => TopCall.point \in late
    BY <1>1 DEF CallerInvariant, StackOK, Top, TopCall
  <1>3. CASE Interrupted(Top.effect)
    <2>1. Top.result = Top.effect /\ own[n] = NoEffect
      BY <1>3 DEF CallerInvariant, TopOK
    <2>2. Delivered(n, result)
      BY <1>2, <2>1 DEF Delivered, Awaited, TopCall
    <2>3. DecidedFrom(n, n)
      BY <1>1, <1>2, <1>3 DEF DecidedFrom, Decisive
    <2>. QED BY <2>2, <2>3 DEF EndsAs
  <1>4. CASE ~Interrupted(Top.effect)
    <2>1. EndsAs(n, Top.result)
      BY <1>4 DEF CallerInvariant, TopOK
    <2>2. result = Top.result
      BY <1>4 DEF Awaited, Interrupted
    <2>. QED BY <2>1, <2>2
  <1>. QED BY <1>3, <1>4

(* An outer original goes on with what the inner call ended as.            *)
LEMMA LeftOuter ==
  ASSUME CallerInvariant, stack # <<>>, NEW m \in Nat \ {0}, m = Len(stack) - 1,
         NEW result, EndsAs(Len(stack), result),
         stack' = Changed(SubSeq(stack, 1, m), m,
                          WithResult(SubSeq(stack, 1, m)[m], "resumed", result)),
         seen'.kind # "call",
         UNCHANGED <<app, imported, wrapper, late, trace, own>>
  PROVE  CallerInvariant'
  <1>. DEFINE rest == SubSeq(stack, 1, m)
              frame == WithResult(stack[m], "resumed", result)
  <1>1. /\ StackOK /\ PatchesOK /\ Len(stack) \in Nat /\ Len(trace) \in Nat
    BY SequenceLength DEF CallerInvariant, StackOK
  <1>2. m \in 1..Len(stack) /\ m \in 1..m /\ Len(stack) = m + 1 /\ m < Len(stack)
    BY <1>1
  <1>3. /\ IsSequence(rest) /\ Len(rest) = m
        /\ \A i \in 1..m : rest[i] = stack[i]
    BY <1>1, <1>2, SequencePrefix DEF StackOK
  <1>4. stack' = Changed(rest, m, frame)
    BY <1>2, <1>3
  <1>5. IsFrame(stack[m]) /\ ~Decisive(m)
    BY <1>1, <1>2 DEF StackOK
  <1>6. /\ IsFrame(frame) /\ frame.wrapper = stack[m].wrapper
        /\ frame.at = "resumed" /\ frame.result = result
        /\ frame.effect = stack[m].effect
    BY <1>5, ResultFrame
  <1>. HIDE DEF rest, frame
  <1>7. /\ IsSequence(stack') /\ Len(stack') = m
        /\ \A i \in 1..m : stack'[i] = IF i = m THEN frame ELSE rest[i]
    BY <1>2, <1>3, <1>4, SequenceExcept
  <1>8. stack' # <<>> /\ Top' = frame
    BY <1>2, <1>7, EmptySeq DEF Top
  <1>9. ASSUME NEW i \in 1..m
        PROVE  /\ IsFrame(stack'[i]) /\ trace'[i] = stack'[i].effect
               /\ IsCoroutine(app'.calls[i].point) /\ stack'[i].wrapper = "sync"
                  => app'.calls[i].point \in late'
               /\ i < m => ~Decisive(i)'
    <2>1. i \in 1..Len(stack) /\ stack'[i].effect = stack[i].effect
          /\ stack'[i].wrapper = stack[i].wrapper /\ IsFrame(stack'[i])
      BY <1>1, <1>2, <1>3, <1>6, <1>7 DEF StackOK
    <2>2. i < m => i < Len(stack)
      BY <1>2
    <2>. QED BY <1>1, <2>1, <2>2 DEF StackOK, Decisive
  <1>10. StackOK'
    <2>1. trace' = trace /\ Len(stack) <= Len(trace) /\ IsSequence(trace)
          /\ own' = own /\ IsSequence(own) /\ Len(own) = Len(trace)
      BY <1>1 DEF StackOK
    <2>2. m <= Len(trace)
      BY <1>1, <1>2, <2>1
    <2>. QED BY <1>7, <1>9, <2>1, <2>2 DEF StackOK
  <1>11. EndsAs(m + 1, result)'
    BY <1>2, EndsAsStays
  <1>12. ~Decisive(m)'
    BY <1>5 DEF Decisive
  <1>13. TopOK'
    BY <1>6, <1>7, <1>8, <1>11, <1>12 DEF TopOK
  <1>14. PatchesOK'
    BY <1>1 DEF PatchesOK
  <1>. QED BY <1>10, <1>13, <1>14 DEF CallerInvariant, CallerSeesFault

(* The outermost call ends: its caller has the result.                     *)
LEMMA LeftOutermost ==
  ASSUME CallerInvariant, stack # <<>>, Len(stack) = 1, NEW result,
         EndsAs(1, result),
         stack' = <<>>, seen' = Outcome(result),
         UNCHANGED <<app, imported, wrapper, late, trace, own>>
  PROVE  CallerInvariant'
  <1>1. IsSequence(<<>>) /\ Len(<<>>) = 0
    BY EmptySeq, SequenceOf
  <1>2. /\ Len(trace) \in Nat /\ DOMAIN trace = 1..Len(trace)
        /\ IsSequence(trace) /\ IsSequence(own) /\ Len(own) = Len(trace)
    BY SequenceLength DEF CallerInvariant, StackOK
  <1>3. StackOK' /\ TopOK'
    BY <1>1, <1>2 DEF StackOK, TopOK
  <1>4. seen'.result = result
    BY DEF Outcome
  <1>5. CallerSeesFault'
    <2>1. PICK d : DecidedFrom(1, d)' /\ Delivered(d, result)'
      BY EndsAsStays DEF EndsAs
    <2>2. d \in DOMAIN trace'
      BY <1>2, <2>1 DEF DecidedFrom
    <2>3. Delivered(d, seen.result)'
      BY <1>4, <2>1 DEF Delivered
    <2>. QED BY <2>1, <2>2, <2>3 DEF CallerSeesFault
  <1>6. PatchesOK'
    BY DEF CallerInvariant, PatchesOK
  <1>. QED BY <1>3, <1>5, <1>6 DEF CallerInvariant

(* What PassOn does with the stack.                                        *)
LEMMA PassedOn ==
  ASSUME NEW result, PassOn(result), NEW m, m = Len(stack) - 1
  PROVE  \/ m = 0 /\ stack' = <<>> /\ seen' = Outcome(result)
         \/ /\ m # 0
            /\ stack' = Changed(SubSeq(stack, 1, m), m,
                          WithResult(SubSeq(stack, 1, m)[m], "resumed", result))
            /\ seen' = Nothing
  BY DEF PassOn, Changed, WithResult

(* The end of a call keeps it: the result reaches the frame outside.       *)
LEMMA LeaveCaller ==
  ASSUME CallerInvariant, Leave
  PROVE  CallerInvariant'
  <1>1. PICK result, m : result = Awaited(Top, TopCall.point) /\ m = Len(stack) - 1
    OBVIOUS
  <1>2. /\ stack # <<>> /\ Top.at = "ended" /\ PassOn(result)
        /\ UNCHANGED <<app, imported, wrapper, late, trace, own>>
    BY <1>1 DEF Leave, patchVars, historyVars
  <1>3. Len(stack) \in Nat \ {0}
    BY <1>2, SequenceLength DEF CallerInvariant, StackOK
  <1>4. EndsAs(Len(stack), result)
    BY <1>1, <1>2, LeftDelivers
  <1>5. CASE m = 0 /\ stack' = <<>> /\ seen' = Outcome(result)
    <2>1. Len(stack) = 1
      BY <1>1, <1>3, <1>5
    <2>. QED BY <1>2, <1>4, <1>5, <2>1, LeftOutermost
  <1>6. CASE /\ m # 0
             /\ stack' = Changed(SubSeq(stack, 1, m), m,
                           WithResult(SubSeq(stack, 1, m)[m], "resumed", result))
             /\ seen' = Nothing
    <2>1. m \in Nat \ {0}
      BY <1>1, <1>3, <1>6
    <2>2. seen'.kind # "call"
      BY <1>6 DEF Nothing
    <2>. QED BY <1>1, <1>2, <1>4, <1>6, <2>1, <2>2, LeftOuter
  <1>7. \/ m = 0 /\ stack' = <<>> /\ seen' = Outcome(result)
        \/ /\ m # 0
           /\ stack' = Changed(SubSeq(stack, 1, m), m,
                         WithResult(SubSeq(stack, 1, m)[m], "resumed", result))
           /\ seen' = Nothing
    BY <1>1, <1>2, PassedOn
  <1>. QED BY <1>5, <1>6, <1>7

-----------------------------------------------------------------------------
(* A request keeps it: patches come with imports or into loaded modules.   *)
LEMMA ServeCaller ==
  ASSUME CallerInvariant, NEW request, Serve(request)
  PROVE  CallerInvariant'
  <1>1. /\ seen'.kind = "reply"
        /\ wrapper' = wrapper \/ \E target, added : LazyLoadPlugin(target, added)
        /\ UNCHANGED <<app, imported, late, stack, trace, own>>
    BY RequestEffects
  <1>2. CASE wrapper' = wrapper
    BY <1>1, <1>2, CallsStay DEF CallerInvariant, PatchesOK
  <1>3. CASE \E target, added : LazyLoadPlugin(target, added)
    <2>1. PICK target, added : LazyLoadPlugin(target, added)
      BY <1>3
    <2>2. PatchesOK'
      BY <1>1, <2>1, LoadKeepsPatches DEF CallerInvariant
    <2>. QED BY <1>1, <2>2, CallsStay
  <1>. QED BY <1>1, <1>2, <1>3

(* Every step keeps what leads the faults to the caller.                   *)
THEOREM NextCaller == CallerInvariant /\ [Next]_vars => CallerInvariant'
  <1>. SUFFICES ASSUME CallerInvariant, [Next]_vars PROVE CallerInvariant'
    OBVIOUS
  <1>1. CASE \E request \in app.requests : Serve(request)
    BY <1>1, ServeCaller
  <1>2. CASE \E point \in AppPoints : Import(point)
    BY <1>2, ImportCaller
  <1>3. CASE Call
    BY <1>3, CallCaller
  <1>4. CASE Advise
    BY <1>4, AdviseCaller
  <1>5. CASE CallInner
    BY <1>5, CallInnerCaller
  <1>6. CASE RunOriginal \/ ResumeOriginal
    BY <1>6, EndedCaller DEF RunOriginal, ResumeOriginal
  <1>7. CASE LetThrough
    BY <1>7, LetThroughCaller
  <1>8. CASE Leave
    BY <1>8, LeaveCaller
  <1>9. CASE UNCHANGED vars
    BY <1>9, CallsStay
    DEF vars, agentVars, patchVars, historyVars, CallerInvariant, PatchesOK
  <1>. QED BY <1>1, <1>2, <1>3, <1>4, <1>5, <1>6, <1>7, <1>8, <1>9 DEF Next

(* What the caller of nested patched functions gets is what the outermost  *)
(* decided call among them ended with, a fault or the end of an original   *)
(* (the wrappers of EnhancerFactory): whatever an original makes of the    *)
(* calls it makes, for calls nested to any depth and any requests in       *)
(* between.                                                                *)
THEOREM FaultsReachCaller == Spec => []CallerSeesFault
  <1>1. CallerInvariant => CallerSeesFault
    BY DEF CallerInvariant
  <1>. QED BY <1>1, InitCaller, NextCaller, PTL DEF Spec

-----------------------------------------------------------------------------
(* What a request that is answered with an error may change: nothing of    *)
(* the experiments, and of the patches those of one target, which is       *)
(* loaded from then on.                                                    *)
LoadsOnly(target) ==
    /\ loaded' = loaded \cup {target}
    /\ \A point \in Points \ PointsFor(target) :
          /\ wrapper'[point] = wrapper[point]
          /\ pending'[point] = pending[point]

(* A create whose plugin fails half way adds no experiment, and touches    *)
(* points of its target only, which was not loaded before.                 *)
LEMMA FailedCreate ==
  ASSUME NEW p, Fail(p), p.target \in Targets
  PROVE  /\ UNCHANGED experiments /\ seen'.code = 500
         /\ \E target \in Targets \ loaded : LoadsOnly(target)
  <1>1. PICK added \in SUBSET (Unpatched(p.target) \ Breaking(p.target)) :
          LazyLoadPlugin(p.target, added)
    BY DEF Fail
  <1>2. Unpatched(p.target) # {}
    BY DEF Fail, Breaking
  <1>3. p.target \notin loaded /\ added \subseteq PointsFor(p.target)
    BY <1>1, <1>2 DEF Unpatched
  <1>4. LoadsOnly(p.target)
    BY <1>1, <1>3 DEF LoadsOnly, LazyLoadPlugin
  <1>. QED BY <1>3, <1>4 DEF Fail, Reply, Answer

(* Where a request is answered with an error, that is all it did.          *)
LEMMA RefusedServe ==
  ASSUME NEW request, Serve(request), seen'.code # 200
  PROVE  /\ UNCHANGED experiments
         /\ \/ UNCHANGED <<loaded, wrapper, pending>>
            \/ /\ seen'.code = 500
               /\ \E target \in Targets \ loaded : LoadsOnly(target)
  <1>. DEFINE p == Params(request)
  <1>. HIDE DEF p
  <1>1. CASE Create(p)
    <2>1. CASE CreateCode(p) = 200
      <3>1. Fail(p)
        BY <1>1, <2>1 DEF Create, Succeed, Reply, Answer
      <3>2. p.target \in Targets
        BY <2>1 DEF CreateCode
      <3>. QED BY <3>1, <3>2, FailedCreate
    <2>2. CASE CreateCode(p) # 200
      BY <1>1, <2>2 DEF Create, Refuse
    <2>. QED BY <2>1, <2>2
  <1>2. CASE Destroy(p)
    <2>1. seen'.code = DestroyCode(p)
      BY <1>2 DEF Destroy, Answer
    <2>2. Doomed(p) = {}
      BY <2>1 DEF DestroyCode, Doomed
    <2>. QED BY <1>2, <2>2 DEF Destroy
  <1>3. CASE UNCHANGED <<experiments, level, loaded, wrapper, pending>>
    BY <1>3
  <1>. QED BY <1>1, <1>2, <1>3 DEF Serve, Dispatch, p

(* A request that is answered with an error leaves no rule behind, for any *)
(* request: the handlers check everything before they change anything, and *)
(* a create that fails after its checks takes its registration back. What  *)
(* that one leaves is a target that counts as loaded, with some of its     *)
(* points patched.                                                         *)
THEOREM RefusalsAreClean == Spec => RefusedLeavesNoRule
  <1>. DEFINE Clean == (seen'.kind = "reply" /\ seen'.code # 200) =>
          /\ UNCHANGED experiments
          /\ \/ UNCHANGED <<loaded, wrapper, pending>>
             \/ /\ seen'.code = 500
                /\ \E target \in Targets \ loaded :
                      /\ loaded' = loaded \cup {target}
                      /\ \A point \in Points \ PointsFor(target) :
                            /\ wrapper'[point] = wrapper[point]
                            /\ pending'[point] = pending[point]
  <1>1. [Next]_vars => [Clean]_vars
    <2>. SUFFICES ASSUME Next, seen'.kind = "reply", seen'.code # 200
                  PROVE  Clean
      OBVIOUS
    <2>1. CASE \E request \in app.requests : Serve(request)
      BY <2>1, RefusedServe DEF LoadsOnly
    <2>2. seen' # Nothing /\ \A result : seen' # Outcome(result)
      BY DEF Nothing, Outcome
    <2>3. ~Call /\ ~Advise /\ ~CallInner /\ ~RunOriginal /\ ~ResumeOriginal
          /\ ~LetThrough /\ ~Leave /\ ~\E point \in AppPoints : Import(point)
      BY <2>2 DEF Call, Advise, CallInner, RunOriginal, ResumeOriginal,
                  LetThrough, EndByItself, Leave, PassOn, Import
    <2>. QED BY <2>1, <2>3 DEF Next
  <1>2. Spec => [][Clean]_vars
    BY <1>1, PTL DEF Spec
  <1>. QED BY <1>2 DEF RefusedLeavesNoRule
-----------------------------------------------------------------------------
(* No two experiments have the same uid.                                   *)
Distinct(s) == \A i, j \in DOMAIN s : Uid(s[i]) = Uid(s[j]) => i = j

(* The loop of Remove, as the equation of its recursive function.          *)
Leaving(uids, left) ==
    [n \in 0..Len(experiments) |->
        IF n = 0 THEN <<>>
        ELSE IF experiments[n].uid \in uids THEN left[n - 1]
        ELSE Append(left[n - 1], experiments[n])]

(* The loop of remove_exp computes what its equation says.                 *)
LEMMA RemoveLoop ==
  ASSUME IsSequence(experiments), NEW uids
  PROVE  \E left : /\ left = Leaving(uids, left)
                   /\ Remove(uids) = left[Len(experiments)]
  <1>. DEFINE N == Len(experiments)
              S == Seq(Range(experiments))
              F == [x \in S \X (1..N) |->
                       IF experiments[x[2]].uid \in uids THEN x[1]
                       ELSE Append(x[1], experiments[x[2]])]
  <1>1. N \in Nat /\ \A i \in 1..N : experiments[i] \in Range(experiments)
    BY SequenceLength DEF Range
  <1>2. <<>> \in S
    OBVIOUS
  <1>3. F \in [S \X (1..N) -> S]
    <2>1. ASSUME NEW x \in S \X (1..N)
          PROVE  Append(x[1], experiments[x[2]]) \in S
      BY <1>1, AppendProperties
    <2>. QED BY <2>1
  <1>. HIDE DEF F, S, N
  <1>4. PICK left \in [0..N -> S] : IsLoop(left, N, <<>>, F)
    BY <1>1, <1>2, <1>3, LoopExists
  <1>5. left = Leaving(uids, left)
    <2>1. ASSUME NEW i \in 0..N
          PROVE  left[i] = Leaving(uids, left)[i]
      <3>1. left[i] = IF i = 0 THEN <<>> ELSE F[<<left[i - 1], i>>]
        BY <1>4 DEF IsLoop, N
      <3>2. CASE i = 0
        BY <3>1, <3>2 DEF Leaving, N
      <3>3. CASE i # 0
        <4>1. left[i - 1] \in S /\ i \in 1..N
          BY <1>1, <3>3
        <4>2. F[<<left[i - 1], i>>] = IF experiments[i].uid \in uids THEN left[i - 1]
                                      ELSE Append(left[i - 1], experiments[i])
          BY <4>1 DEF F
        <4>. QED BY <3>1, <3>3, <4>2 DEF Leaving, N
      <3>. QED BY <3>2, <3>3
    <2>. QED BY <1>4, <2>1 DEF Leaving, N, IsLoop
  <1>6. (CHOOSE h : h = Leaving(uids, h)) = Leaving(uids, CHOOSE h : h = Leaving(uids, h))
    BY <1>5
  <1>7. Remove(uids) = (CHOOSE h : h = Leaving(uids, h))[N]
    BY DEF Remove, Leaving, N
  <1>. QED BY <1>6, <1>7 DEF N

(* One round keeps what is known of the experiments that stay.             *)
RemainsUpTo(uids, n, s) ==
    /\ IsSequence(s) /\ Distinct(s)
    /\ Range(s) = { experiments[i] : i \in
                       { j \in 1..n : experiments[j].uid \notin uids } }

(* An experiment with a new uid is added to experiments without two of one *)
(* uid.                                                                    *)
LEMMA DistinctAppend ==
  ASSUME NEW s, IsSequence(s), Distinct(s), NEW e,
         \A x \in Range(s) : Uid(x) # Uid(e)
  PROVE  Distinct(Append(s, e))
  <1>1. /\ Len(s) \in Nat /\ DOMAIN s = 1..Len(s)
        /\ DOMAIN Append(s, e) = 1..(Len(s) + 1)
        /\ \A i \in 1..Len(s) : Append(s, e)[i] = s[i]
        /\ Append(s, e)[Len(s) + 1] = e
    BY SequenceLength, SequenceAppend
  <1>2. \A i \in 1..Len(s) : Uid(s[i]) # Uid(e)
    BY <1>1 DEF Range
  <1>. QED BY <1>1, <1>2 DEF Distinct

(* What Remove leaves: the experiments it was not asked for, once each.    *)
LEMMA RemoveKeeps ==
  ASSUME IsSequence(experiments), Distinct(experiments), NEW uids
  PROVE  /\ IsSequence(Remove(uids)) /\ Distinct(Remove(uids))
         /\ Range(Remove(uids)) =
               { e \in Range(experiments) : e.uid \notin uids }
  <1>. DEFINE N == Len(experiments)
  <1>1. N \in Nat /\ DOMAIN experiments = 1..N
    BY SequenceLength
  <1>2. PICK left : left = Leaving(uids, left) /\ Remove(uids) = left[N]
    BY RemoveLoop
  <1>3. /\ left[0] = <<>>
        /\ \A n \in 1..N :
              left[n] = IF experiments[n].uid \in uids THEN left[n - 1]
                        ELSE Append(left[n - 1], experiments[n])
    <2>1. ASSUME NEW n \in 0..N
          PROVE  Leaving(uids, left)[n] =
                    IF n = 0 THEN <<>>
                    ELSE IF experiments[n].uid \in uids THEN left[n - 1]
                    ELSE Append(left[n - 1], experiments[n])
      BY DEF Leaving
    <2>2. \A n \in 0..N : left[n] = Leaving(uids, left)[n]
      BY <1>2
    <2>. QED BY <1>1, <2>1, <2>2
  <1>. DEFINE Fine == { n \in 0..N : RemainsUpTo(uids, n, left[n]) }
  <1>4. 0 \in Fine
    <2>1. 0 \in 0..N /\ 1..0 = {}
      BY <1>1
    <2>. QED BY <1>3, <2>1, EmptySequence DEF RemainsUpTo, Distinct
  <1>5. ASSUME NEW n \in 1..N, n - 1 \in Fine
        PROVE  n \in Fine
    <2>. DEFINE s == left[n - 1]
                e == experiments[n]
    <2>1. RemainsUpTo(uids, n - 1, s)
      BY <1>5
    <2>2. left[n] = IF e.uid \in uids THEN s ELSE Append(s, e)
      BY <1>3
    <2>3. \A j \in 1..n : j \in 1..(n - 1) \/ j = n
      BY <1>1
    <2>4. 1..(n - 1) \subseteq 1..n /\ n \in 1..n
      BY <1>1
    <2>. HIDE DEF s
    <2>5. CASE e.uid \in uids
      BY <1>1, <2>1, <2>2, <2>3, <2>4, <2>5 DEF RemainsUpTo
    <2>6. CASE e.uid \notin uids
      <3>1. \A x \in Range(s) : Uid(x) # Uid(e)
        BY <1>1, <2>1 DEF RemainsUpTo, Distinct, Uid
      <3>2. IsSequence(Append(s, e)) /\ Distinct(Append(s, e))
        BY <2>1, <3>1, SequenceAppend, DistinctAppend DEF RemainsUpTo
      <3>3. Range(Append(s, e)) = Range(s) \cup {e}
        BY <2>1, RangeAppend DEF RemainsUpTo
      <3>4. Range(Append(s, e)) = { experiments[i] : i \in
                       { j \in 1..n : experiments[j].uid \notin uids } }
        BY <2>1, <2>3, <2>4, <2>6, <3>3 DEF RemainsUpTo
      <3>5. RemainsUpTo(uids, n, left[n])
        BY <2>2, <2>6, <3>2, <3>4 DEF RemainsUpTo
      <3>6. n \in 0..N
        BY <1>1
      <3>. QED BY <3>5, <3>6
    <2>. QED BY <2>5, <2>6
  <1>6. N \in Fine
    <2>. HIDE DEF Fine
    <2>1. 0..N \subseteq Fine
      BY <1>1, <1>4, <1>5, InductionUpTo
    <2>. QED BY <1>1, <2>1
  <1>. QED BY <1>1, <1>2, <1>6 DEF RemainsUpTo, Range
-----------------------------------------------------------------------------
(* What the plugins declare: the same three actions, each of them under    *)
(* one name and one alias at most, and no limit among their flags.         *)
LEMMA StandardPlugins ==
  ASSUME NEW target \in Targets
  PROVE  /\ PluginFor(target) \in Plugins
         /\ PluginFor(target).target = target
         /\ PluginFor(target).actions = StandardActions
  <1>1. \E p \in Plugins : p.target = target
    BY DEF Targets
  <1>2. PluginFor(target) \in Plugins /\ PluginFor(target).target = target
    BY <1>1 DEF PluginFor
  <1>3. \A p \in Plugins : p.actions = StandardActions
    BY DEF Plugins, RedisPlugin, HttpPlugin, HttpxPlugin, KafkaPlugin,
           MysqlPlugin, SqlalchemyPlugin, GrpcPlugin, Plugin
  <1>. QED BY <1>2, <1>3

(* An action has one canonical name at most, and only delay is named       *)
(* delay.                                                                  *)
LEMMA Names ==
  ASSUME NEW target \in Targets, NEW action
  PROVE  /\ Canonical(target, action)
               \subseteq {"delay", "throwCustomException", "returnValue"}
         /\ \A a, b \in Canonical(target, action) : a = b
         /\ "delay" \in Canonical(target, action) => action = "delay"
  <1>1. PluginFor(target).actions = StandardActions
    BY StandardPlugins
  <1>2. DOMAIN StandardActions = {"delay", "throwCustomException", "returnValue"}
    BY DEF StandardActions
  <1>3. /\ StandardActions["delay"].aliases = {}
        /\ StandardActions["throwCustomException"].aliases = {"exception"}
        /\ StandardActions["returnValue"].aliases = {"return"}
    BY DEF StandardActions
  <1>. QED BY <1>1, <1>2, <1>3 DEF Canonical

(* An action has one spec at most, and no limit is among its flags.        *)
LEMMA Specs ==
  ASSUME NEW target \in Targets, NEW action
  PROVE  /\ \A s, t \in GetActionSpec(target, action) : s = t
         /\ \A s \in GetActionSpec(target, action) :
               s.flags \cap ControlMatchers = {}
  <1>1. PluginFor(target).actions = StandardActions
    BY StandardPlugins
  <1>2. /\ StandardActions["delay"].flags = {"time", "offset"}
        /\ StandardActions["throwCustomException"].flags
              = {"exception", "exception-message"}
        /\ StandardActions["returnValue"].flags = {"return-value"}
    BY DEF StandardActions
  <1>3. ASSUME NEW s \in GetActionSpec(target, action)
        PROVE  \E a \in Canonical(target, action) : s = StandardActions[a]
    BY <1>1 DEF GetActionSpec
  <1>. QED BY <1>2, <1>3, Names DEF ControlMatchers

-----------------------------------------------------------------------------
(* A registered experiment: what became of the create that asked for it,   *)
(* and the counts of its executions.                                       *)
IsExperiment(e) ==
    e \in [uid : {e.uid}, model : {e.model}, hits : {e.hits},
           asked : {e.asked}, faults : {e.faults}, idle : {e.idle}]

(* The model of an experiment is what its create parsed into one.          *)
Described(e) ==
    \E spec \in GetActionSpec(e.asked.target, e.asked.action) :
        e.model = ParseModel(e.asked, spec)

(* The limit that counts is no number: no execution is ever allowed.       *)
Unreadable(asked) ==
    IF Has(asked, "effect-count")
    THEN asked["effect-count"] \notin DOMAIN IntOf
    ELSE Has(asked, "effect-percent") /\ asked["effect-percent"] \notin DOMAIN IntOf

(* The limit on the number of executions, and whether there is one.        *)
Limit(asked) == IntOf[asked["effect-count"]]
(* The number of executions has a limit that is a number.                  *)
Limited(asked) == Has(asked, "effect-count") /\ ~Unreadable(asked)

(* The create asked for a delay of no time: an execution that does not     *)
(* wait.                                                                   *)
NoTime(asked) == asked.action = "delay" /\ Milliseconds(asked, "time") <= 0

(* What holds of each registered experiment at all times.                  *)
ExperimentOK(e) ==
    /\ IsExperiment(e) /\ Described(e)
    /\ e.uid = e.asked.suid /\ e.asked.target \in Targets
    /\ e.faults \in Nat /\ e.idle \in Nat /\ e.hits = e.faults + e.idle
    /\ Unreadable(e.asked) => e.hits = 0
    /\ Limited(e.asked) => e.hits = 0 \/ e.hits <= Limit(e.asked)
    /\ e.idle > 0 => NoTime(e.asked)

(* A model keeps target, action and flags of the create.                   *)
LEMMA DescribedNames ==
  ASSUME NEW e, Described(e)
  PROVE  /\ e.model.target = e.asked.target /\ e.model.action = e.asked.action
         /\ e.model.flags = Without(e.asked, ReservedKeys)
  BY DEF Described, ParseModel

(* The limits reach the matchers of the model as they were asked for.      *)
LEMMA LimitsReachModel ==
  ASSUME NEW e, Described(e), e.asked.target \in Targets,
         NEW key \in ControlMatchers
  PROVE  /\ Has(e.model.matchers, key) <=> Has(e.asked, key)
         /\ Has(e.asked, key) => e.model.matchers[key] = e.asked[key]
  <1>1. PICK spec \in GetActionSpec(e.asked.target, e.asked.action) :
          e.model = ParseModel(e.asked, spec)
    BY DEF Described
  <1>2. key \notin ReservedKeys \cup spec.flags
    BY <1>1, Specs DEF ControlMatchers, ReservedKeys
  <1>3. e.model.matchers = Without(e.asked, ReservedKeys \cup spec.flags)
    BY <1>1 DEF ParseModel
  <1>. QED BY <1>2, <1>3 DEF Without, Has

(* The kinds of effect an executor may have, and when a delay is none.     *)
LEMMA RunKinds ==
  ASSUME NEW e, Described(e), e.asked.target \in Targets,
         NEW a \in Canonical(e.model.target, e.model.action),
         NEW effect \in Run(a, e.model.flags)
  PROVE  /\ effect.kind \in {"idle", "held", "return", "throw", "fails"}
         /\ effect.kind = "idle" => NoTime(e.asked)
  <1>. DEFINE flags == e.model.flags
  <1>1. /\ e.model.target = e.asked.target /\ e.model.action = e.asked.action
        /\ flags = Without(e.asked, ReservedKeys)
        /\ effect \in Run(a, flags)
    BY DescribedNames
  <1>2. /\ a \in {"delay", "throwCustomException", "returnValue"}
        /\ a = "delay" => e.asked.action = "delay"
    BY <1>1, Names
  <1>3. CASE a = "delay"
    <2>1. /\ \A key : Milliseconds(flags, key) \in Int
          /\ Milliseconds(flags, "time") = Milliseconds(e.asked, "time")
      BY <1>1, MatchingAssumption DEF Milliseconds, Without, ReservedKeys
    <2>2. PICK j \in Nat : effect = Sleep(Milliseconds(flags, "time") + j)
      BY <1>3, <2>1 DEF Run, Delay
    <2>. HIDE DEF flags
    <2>3. /\ effect.kind \in {"idle", "held", "fails"}
          /\ effect.kind = "idle" => Milliseconds(flags, "time") + j <= 0
      BY <2>2 DEF Sleep, Effect, Fails
    <2>. QED BY <1>2, <1>3, <2>1, <2>3 DEF NoTime
  <1>4. CASE a = "returnValue"
    <2>1. \A raw : ParseValue(raw).kind = "return"
      <3>1. \A type, of : Effect("return", type, of).kind = "return"
        BY DEF Effect
      <3>. QED BY <3>1 DEF ParseValue
    <2>2. Run(a, flags) = ReturnValue(flags)
      BY <1>4 DEF Run
    <2>. HIDE DEF flags
    <2>3. effect.kind = "return"
      <3>1. CASE "return-value" \in DOMAIN flags
        BY <1>1, <2>1, <2>2, <3>1 DEF ReturnValue
      <3>2. CASE "return-value" \notin DOMAIN flags
        <4>1. effect = Effect("return", "none", "")
          BY <1>1, <2>2, <3>2 DEF ReturnValue
        <4>. QED BY <4>1 DEF Effect
      <3>. QED BY <3>1, <3>2
    <2>. QED BY <2>3
  <1>5. CASE a = "throwCustomException"
    <2>1. effect = Fails \/ \E of : effect = Effect("throw", "class", of)
      BY <1>5 DEF Run, ThrowException
    <2>2. Fails.kind = "fails" /\ \A of : Effect("throw", "class", of).kind = "throw"
      BY DEF Fails, Effect
    <2>3. effect.kind \in {"fails", "throw"}
      BY <2>1, <2>2
    <2>. QED BY <2>3
  <1>. QED BY <1>2, <1>3, <1>4, <1>5
-----------------------------------------------------------------------------
(* What the injector may do to the count of an experiment: nothing, as     *)
(* after a failed execution, or one hit that its limit allows.             *)
FaultKinds == {"held", "return", "throw"}

(* The hits an experiment allows.                                          *)
HitOK(e, hit) ==
    \/ hit.step = 0 /\ hit.effect.kind = "fails"
    \/ /\ hit.step = 1 /\ hit.effect.kind \in FaultKinds \cup {"idle"}
       /\ ~Unreadable(e.asked)
       /\ Limited(e.asked) => e.hits < Limit(e.asked)
       /\ hit.effect.kind = "idle" => NoTime(e.asked)

(* A call that matches an experiment hits it only as its limits allow.     *)
LEMMA HitsAreAllowed ==
  ASSUME NEW i, ExperimentOK(experiments[i]), NEW hit \in HitsBy(i)
  PROVE  hit = NoHit \/ (hit.at = i /\ HitOK(experiments[i], hit))
  <1>. DEFINE e == experiments[i]
              m == e.model.matchers
              key == IF Has(m, "effect-count") THEN "effect-count"
                     ELSE "effect-percent"
              Does(v) == CASE v = "miss"  -> {NoHit}
                           [] v = "error" -> {Hit(i, Back(e), Fails)}
                           [] v = "pass"  ->
                                { Execution(i, e, effect) :
                                    effect \in UNION { Run(a, e.model.flags) : a \in
                                      Canonical(e.model.target, e.model.action) } }
  <1>1. Described(e) /\ e.asked.target \in Targets
    BY DEF ExperimentOK
  <1>2. /\ Has(m, "effect-count") <=> Has(e.asked, "effect-count")
        /\ Has(e.asked, "effect-count") => m["effect-count"] = e.asked["effect-count"]
        /\ Has(m, "effect-percent") <=> Has(e.asked, "effect-percent")
        /\ Has(e.asked, "effect-percent") =>
              m["effect-percent"] = e.asked["effect-percent"]
    BY <1>1, LimitsReachModel DEF ControlMatchers
  <1>3. PICK v \in Verdicts(e) : hit \in Does(v)
    BY DEF HitsBy
  <1>4. /\ v \in {"pass", "miss", "error"}
        /\ v = "error" => Unreadable(e.asked)
        /\ v = "pass" => /\ ~Unreadable(e.asked)
                         /\ Limited(e.asked) => e.hits < Limit(e.asked)
    <2>1. CASE ~Has(m, key)
      BY <1>2, <1>3, <2>1 DEF Verdicts, Unreadable, Limited
    <2>2. CASE Has(m, key) /\ m[key] \notin DOMAIN IntOf
      BY <1>2, <1>3, <2>2 DEF Verdicts, Unreadable, Limited
    <2>3. CASE /\ Has(m, key) /\ m[key] \in DOMAIN IntOf
               /\ Has(m, "effect-count")
      BY <1>2, <1>3, <2>3 DEF Verdicts, Unreadable, Limited, Limit
    <2>4. CASE /\ Has(m, key) /\ m[key] \in DOMAIN IntOf
               /\ ~Has(m, "effect-count")
      BY <1>2, <1>3, <2>4 DEF Verdicts, Unreadable, Limited
    <2>. QED BY <2>1, <2>2, <2>3, <2>4
  <1>. HIDE DEF m, key
  <1>5. CASE v = "miss"
    BY <1>3, <1>5
  <1>6. CASE v = "error"
    <2>1. hit = Hit(i, Back(e), Fails)
      BY <1>3, <1>6
    <2>2. Back(e) = 0
      BY <1>4, <1>6 DEF Back, ExperimentOK
    <2>. QED BY <2>1, <2>2 DEF Hit, HitOK, Fails, Effect
  <1>7. CASE v = "pass"
    <2>1. PICK a \in Canonical(e.model.target, e.model.action) :
            \E effect \in Run(a, e.model.flags) : hit = Execution(i, e, effect)
      BY <1>3, <1>7
    <2>2. PICK effect \in Run(a, e.model.flags) : hit = Execution(i, e, effect)
      BY <2>1
    <2>3. /\ effect.kind \in {"idle", "held", "return", "throw", "fails"}
          /\ effect.kind = "idle" => NoTime(e.asked)
      BY <1>1, RunKinds
    <2>4. /\ hit.at = i /\ hit.effect = effect
          /\ hit.step = IF effect.kind = "fails" THEN 0 ELSE 1
      BY <2>2 DEF Execution, Hit
    <2>. QED BY <1>4, <1>7, <2>3, <2>4 DEF HitOK, FaultKinds
  <1>. QED BY <1>4, <1>5, <1>6, <1>7

(* A hit is counted in the experiment and changes nothing else of it.      *)
LEMMA CountedFields ==
  ASSUME NEW e, IsExperiment(e), NEW hit
  PROVE  LET x == Counted(e, hit)
         IN  /\ IsExperiment(x)
             /\ x.uid = e.uid /\ x.model = e.model /\ x.asked = e.asked
             /\ x.hits = e.hits + hit.step
             /\ x.faults = e.faults + IF hit.effect.kind \in FaultKinds THEN 1 ELSE 0
             /\ x.idle = e.idle + IF hit.effect.kind = "idle" THEN 1 ELSE 0
  <1>. DEFINE hits == e.hits + hit.step
              faults == e.faults + IF hit.effect.kind \in FaultKinds THEN 1 ELSE 0
              idle == e.idle + IF hit.effect.kind = "idle" THEN 1 ELSE 0
              Both == [uid : {e.uid}, model : {e.model}, hits : {e.hits, hits},
                       asked : {e.asked}, faults : {e.faults, faults},
                       idle : {e.idle, idle}]
              x == [e EXCEPT !.hits = hits, !.faults = faults, !.idle = idle]
  <1>1. e \in Both
    BY DEF IsExperiment
  <1>2. Counted(e, hit) = x
    BY DEF Counted, FaultKinds
  <1>. HIDE DEF hits, faults, idle
  <1>3. /\ x \in Both /\ x.uid = e.uid /\ x.model = e.model
        /\ x.asked = e.asked
        /\ x.hits = hits /\ x.faults = faults /\ x.idle = idle
    BY <1>1
  <1>. QED BY <1>2, <1>3 DEF IsExperiment, hits, faults, idle

(* An experiment stays in order when a hit that it allows is counted.      *)
LEMMA CountedOK ==
  ASSUME NEW e, ExperimentOK(e), NEW hit, HitOK(e, hit)
  PROVE  ExperimentOK(Counted(e, hit))
  <1>. DEFINE x == Counted(e, hit)
  <1>1. /\ IsExperiment(x)
        /\ x.uid = e.uid /\ x.model = e.model /\ x.asked = e.asked
        /\ x.hits = e.hits + hit.step
        /\ x.faults = e.faults + IF hit.effect.kind \in FaultKinds THEN 1 ELSE 0
        /\ x.idle = e.idle + IF hit.effect.kind = "idle" THEN 1 ELSE 0
    BY CountedFields DEF ExperimentOK
  <1>. SUFFICES ExperimentOK(x)
    OBVIOUS
  <1>. HIDE DEF x
  <1>2. /\ e.faults \in Nat /\ e.idle \in Nat /\ e.hits = e.faults + e.idle
        /\ Described(x) /\ x.uid = x.asked.suid /\ x.asked.target \in Targets
    BY <1>1 DEF ExperimentOK, Described
  <1>3. CASE hit.step = 0 /\ hit.effect.kind = "fails"
    <2>1. x.hits = e.hits /\ x.faults = e.faults /\ x.idle = e.idle
      BY <1>1, <1>2, <1>3 DEF FaultKinds
    <2>. QED BY <1>1, <1>2, <2>1 DEF ExperimentOK
  <1>4. CASE /\ hit.step = 1 /\ hit.effect.kind \in FaultKinds \cup {"idle"}
             /\ ~Unreadable(e.asked)
             /\ Limited(e.asked) => e.hits < Limit(e.asked)
             /\ hit.effect.kind = "idle" => NoTime(e.asked)
    <2>1. /\ x.hits = e.hits + 1 /\ x.hits = x.faults + x.idle
          /\ x.faults \in Nat /\ x.idle \in Nat
          /\ x.idle > 0 => NoTime(x.asked)
      BY <1>1, <1>2, <1>4 DEF FaultKinds, ExperimentOK
    <2>2. Limited(x.asked) => Limit(x.asked) \in Int
      BY MatchingAssumption DEF Limited, Limit, Unreadable
    <2>. QED BY <1>1, <1>2, <1>4, <2>1, <2>2 DEF ExperimentOK
  <1>. QED BY <1>3, <1>4 DEF HitOK
-----------------------------------------------------------------------------
(* What is registered.                                                     *)
RegisterOK ==
    /\ IsSequence(experiments) /\ Distinct(experiments)
    /\ \A e \in Range(experiments) : ExperimentOK(e) /\ e.asked.target \in loaded
    /\ loaded \subseteq Targets

(* A create adds an experiment without hits.                               *)
LEMMA CreatedIsNew ==
  ASSUME RegisterOK, NEW p, CreateCode(p) = 200,
         NEW spec \in GetActionSpec(p.target, p.action), Register(p, spec),
         NEW added, LazyLoadPlugin(p.target, added)
  PROVE  /\ RegisterOK'
         /\ \A e \in Range(experiments') : e \in Range(experiments) \/ e.hits = 0
  <1>. DEFINE e == [uid |-> p.suid, model |-> ParseModel(p, spec), hits |-> 0,
                    asked |-> p, faults |-> 0, idle |-> 0]
  <1>1. /\ p.target \in Targets /\ p.suid \notin Registered
        /\ loaded' = loaded \cup {p.target}
    BY DEF CreateCode, LazyLoadPlugin
  <1>2. experiments' = Append(experiments, e)
    BY DEF Register
  <1>3. ExperimentOK(e) /\ e.asked = p /\ e.uid = p.suid /\ e.hits = 0
    BY <1>1 DEF ExperimentOK, IsExperiment, Described
  <1>. HIDE DEF e
  <1>4. IsSequence(experiments) /\ Distinct(experiments)
    BY DEF RegisterOK
  <1>5. \A x \in Range(experiments) : Uid(x) # Uid(e)
    BY <1>1, <1>3 DEF Registered, Range, Uid
  <1>6. /\ IsSequence(experiments') /\ Distinct(experiments')
        /\ Range(experiments') = Range(experiments) \cup {e}
    BY <1>2, <1>4, <1>5, SequenceAppend, DistinctAppend, RangeAppend
  <1>. QED BY <1>1, <1>3, <1>6 DEF RegisterOK

(* A remove leaves the register in order, and none but experiments it had. *)
LEMMA RemovedIsGone ==
  ASSUME RegisterOK, NEW uids, experiments' = Remove(uids), UNCHANGED loaded
  PROVE  RegisterOK' /\ Range(experiments') \subseteq Range(experiments)
  <1>1. /\ IsSequence(experiments') /\ Distinct(experiments')
        /\ Range(experiments') = { e \in Range(experiments) : e.uid \notin uids }
    BY RemoveKeeps DEF RegisterOK
  <1>. QED BY <1>1 DEF RegisterOK

(* A request keeps the experiments in order.                               *)
LEMMA ServeRegister ==
  ASSUME RegisterOK, NEW request, Serve(request)
  PROVE  /\ RegisterOK'
         /\ \A e \in Range(experiments') : e \in Range(experiments) \/ e.hits = 0
  <1>. DEFINE p == Params(request)
  <1>. HIDE DEF p
  <1>1. CASE UNCHANGED <<experiments, loaded>>
    BY <1>1 DEF RegisterOK
  <1>2. CASE Create(p)
    <2>1. CASE Refuse(p)
      BY <1>1, <2>1 DEF Refuse
    <2>2. CASE CreateCode(p) = 200 /\ Succeed(p)
      <3>1. PICK spec \in GetActionSpec(p.target, p.action) :
              Register(p, spec) /\ LazyLoadPlugin(p.target, Unpatched(p.target))
        BY <2>2 DEF Succeed
      <3>. QED BY <2>2, <3>1, CreatedIsNew
    <2>3. CASE CreateCode(p) = 200 /\ Fail(p)
      <3>1. /\ UNCHANGED experiments /\ loaded' = loaded \cup {p.target}
            /\ p.target \in Targets
        BY <2>3 DEF Fail, LazyLoadPlugin, CreateCode
      <3>. QED BY <3>1 DEF RegisterOK, Distinct, ExperimentOK
    <2>. QED BY <1>2, <2>1, <2>2, <2>3 DEF Create
  <1>3. CASE Destroy(p)
    <2>1. CASE Doomed(p) = {}
      BY <1>1, <1>3, <2>1 DEF Destroy
    <2>2. CASE Doomed(p) # {}
      BY <1>3, <2>2, RemovedIsGone DEF Destroy
    <2>. QED BY <2>1, <2>2
  <1>. QED BY <1>1, <1>2, <1>3 DEF Serve, Dispatch, p

(* The experiment a call meets is the first of the register that matches.  *)
LEMMA AdviseRegister ==
  ASSUME RegisterOK, NEW hit \in Inject(TopCall),
         experiments' = IF hit.at = 0 THEN experiments
                        ELSE Changed(experiments, hit.at,
                                     Counted(experiments[hit.at], hit)),
         UNCHANGED loaded
  PROVE  /\ RegisterOK'
         /\ \A x \in Range(experiments') : \E e \in Range(experiments) :
               x.hits \in {e.hits, e.hits + 1}
         /\ hit = NoHit \/
            \E i \in First(TargetOf(TopCall.point), DoBeforeAdvice(TopCall)) :
                hit.at = i /\ HitOK(experiments[i], hit)
  <1>. DEFINE first == First(TargetOf(TopCall.point), DoBeforeAdvice(TopCall))
  <1>1. IsSequence(experiments) /\ DOMAIN experiments = 1..Len(experiments)
        /\ Len(experiments) \in Nat
    BY SequenceLength DEF RegisterOK
  <1>2. first \subseteq 1..Len(experiments)
    BY <1>1 DEF First
  <1>3. hit = NoHit \/ \E i \in first : hit \in HitsBy(i)
    BY DEF Inject
  <1>. HIDE DEF first
  <1>4. CASE hit = NoHit
    BY <1>4 DEF NoHit, Hit, RegisterOK
  <1>5. ASSUME NEW i \in first, hit \in HitsBy(i), hit # NoHit
        PROVE  /\ RegisterOK' /\ hit.at = i /\ HitOK(experiments[i], hit)
               /\ \A x \in Range(experiments') : \E e \in Range(experiments) :
                     x.hits \in {e.hits, e.hits + 1}
    <2>. DEFINE e == experiments[i]
                x == Counted(e, hit)
    <2>1. e \in Range(experiments) /\ ExperimentOK(e) /\ i \in 1..Len(experiments)
          /\ e.asked.target \in loaded
      BY <1>1, <1>2 DEF Range, RegisterOK
    <2>2. hit.at = i /\ HitOK(e, hit)
      BY <1>5, <2>1, HitsAreAllowed
    <2>3. experiments' = Changed(experiments, i, x)
      BY <1>2, <2>1, <2>2
    <2>4. ExperimentOK(x) /\ x.uid = e.uid /\ x.asked = e.asked
          /\ x.hits = e.hits + hit.step
      <3>1. ExperimentOK(x)
        BY <2>1, <2>2, CountedOK
      <3>. QED BY <2>1, <3>1, CountedFields DEF ExperimentOK
    <2>. HIDE DEF x
    <2>5. /\ IsSequence(experiments') /\ Len(experiments') = Len(experiments)
          /\ \A j \in 1..Len(experiments) :
                experiments'[j] = IF j = i THEN x ELSE experiments[j]
      BY <1>1, <2>1, <2>3, SequenceExcept
    <2>6. DOMAIN experiments' = 1..Len(experiments)
      BY <2>5, SequenceLength
    <2>7. Distinct(experiments')
      BY <1>1, <2>1, <2>4, <2>5, <2>6 DEF Distinct, RegisterOK, Uid
    <2>8. \A y \in Range(experiments') : y = x \/ y \in Range(experiments)
      BY <1>1, <2>5, <2>6 DEF Range
    <2>9. RegisterOK'
      BY <2>1, <2>4, <2>5, <2>7, <2>8 DEF RegisterOK
    <2>10. hit.step \in {0, 1} /\ e.hits \in Int
      BY <2>1, <2>2 DEF HitOK, ExperimentOK
    <2>11. ASSUME NEW y \in Range(experiments')
           PROVE  \E z \in Range(experiments) : y.hits \in {z.hits, z.hits + 1}
      <3>1. CASE y = x
        <4>1. y.hits \in {e.hits, e.hits + 1}
          BY <2>4, <2>10, <3>1
        <4>. QED BY <2>1, <4>1
      <3>. QED BY <2>8, <3>1
    <2>. QED BY <2>2, <2>9, <2>11
  <1>. QED BY <1>3, <1>4, <1>5 DEF first
-----------------------------------------------------------------------------
(* The calls in progress: the ones outside wait for the innermost.         *)
CallingOK == \A i \in 1..Len(stack) : stack[i].at = "calling" <=> i < Len(stack)

(* The innermost call may yet be hit, if its advice is to come.            *)
Waiting == IF stack # <<>> /\ Top.at = "advice" THEN 1 ELSE 0

(* A step keeps what a frame knows of the experiment that hit its call,    *)
(* and a new frame knows none.                                             *)
KeepsFrames ==
    \A i \in 1..Len(stack') :
        \/ stack'[i].effect = NoEffect
        \/ /\ i \in 1..Len(stack)
           /\ stack'[i].effect = stack[i].effect
           /\ stack'[i].asked = stack[i].asked

(* The lengths of stack and history, and the shape of the frames.          *)
LEMMA StackLengths ==
  ASSUME CallerInvariant
  PROVE  /\ IsSequence(stack) /\ IsSequence(trace)
         /\ Len(stack) \in Nat /\ Len(trace) \in Nat
         /\ DOMAIN stack = 1..Len(stack) /\ DOMAIN trace = 1..Len(trace)
         /\ Len(stack) <= Len(trace)
         /\ \A i \in 1..Len(stack) : IsFrame(stack[i])
         /\ stack # <<>> => Len(stack) \in 1..Len(stack) /\ IsFrame(Top)
         /\ stack # <<>> /\ Top.at \notin {"ended", "resumed"} =>
               Len(trace) = Len(stack)
  BY SequenceLength DEF CallerInvariant, StackOK, TopOK, Top

(* A call is in its original or waits for its advice at first.             *)
LEMMA FrameBegins ==
  ASSUME NEW c
  PROVE  Frame(c).effect = NoEffect /\ Frame(c).at \in {"original", "advice"}
  BY DEF Frame

(* The application's outermost call begins with an empty history.          *)
LEMMA CallFrames ==
  ASSUME Call
  PROVE  /\ CallingOK' /\ KeepsFrames /\ Len(stack') = 1 /\ Len(trace') = 1
         /\ UNCHANGED <<app, agentVars, patchVars>>
  <1>. DEFINE f == Frame(app.calls[1])
  <1>1. stack' = <<f>> /\ trace' = <<NoEffect>> /\ UNCHANGED <<app, agentVars, patchVars>>
    BY DEF Call
  <1>2. f.effect = NoEffect /\ f.at \in {"original", "advice"}
    BY FrameBegins
  <1>. HIDE DEF f
  <1>. QED BY <1>1, <1>2 DEF CallingOK, KeepsFrames

(* The innermost frame is replaced.                                        *)
LEMMA TopFrames ==
  ASSUME CallerInvariant, CallingOK, stack # <<>>, NEW frame,
         stack' = ReplaceTop(frame), frame.at # "calling"
  PROVE  /\ CallingOK' /\ Len(stack') = Len(stack) /\ stack' # <<>>
         /\ Top' = frame
         /\ \A i \in 1..Len(stack) : i < Len(stack) => stack'[i] = stack[i]
         /\ stack'[Len(stack)] = frame
  <1>1. IsSequence(stack) /\ Len(stack) \in Nat
    BY StackLengths
  <1>2. /\ IsSequence(stack') /\ stack' # <<>> /\ Len(stack') = Len(stack)
        /\ Len(stack) \in 1..Len(stack) /\ Top' = frame
        /\ \A j \in 1..Len(stack) :
              stack'[j] = IF j = Len(stack) THEN frame ELSE stack[j]
    BY <1>1, ReplacedTop
  <1>. QED BY <1>1, <1>2 DEF CallingOK

(* The advice puts into the innermost frame what the injector answered.    *)
LEMMA AdviseFrames ==
  ASSUME CallerInvariant, CallingOK, Advise
  PROVE  \E hit \in Inject(TopCall) :
            /\ CallingOK' /\ Len(stack') = Len(stack) /\ Len(trace') = Len(trace)
            /\ stack # <<>> /\ Waiting = 1 /\ Waiting' = 0
            /\ \A i \in 1..Len(stack) : i < Len(stack) => stack'[i] = stack[i]
            /\ stack'[Len(stack)].effect = hit.effect
            /\ stack'[Len(stack)].asked =
                  IF hit.at = 0 THEN <<>> ELSE experiments[hit.at].asked
            /\ experiments' = IF hit.at = 0 THEN experiments
                              ELSE Changed(experiments, hit.at,
                                           Counted(experiments[hit.at], hit))
            /\ UNCHANGED <<app, level, loaded, patchVars>>
  <1>1. PICK hit \in Inject(TopCall) :
          LET e == hit.effect
          IN  /\ experiments' = IF hit.at = 0 THEN experiments
                  ELSE [experiments EXCEPT ![hit.at] =
                            Counted(@, hit)]
              /\ stack' = ReplaceTop([Top EXCEPT
                    !.at = IF Interrupted(e) THEN "ended" ELSE "original",
                    !.result = IF Interrupted(e) THEN e ELSE NoEffect,
                    !.effect = e,
                    !.asked = IF hit.at = 0 THEN <<>>
                              ELSE experiments[hit.at].asked])
              /\ trace' = [trace EXCEPT ![Len(stack)] = e]
    BY DEF Advise
  <1>. DEFINE e == hit.effect
              at == IF Interrupted(e) THEN "ended" ELSE "original"
              result == IF Interrupted(e) THEN e ELSE NoEffect
              asked == IF hit.at = 0 THEN <<>> ELSE experiments[hit.at].asked
              frame == Advised(Top, at, result, e, asked)
  <1>2. /\ stack' = ReplaceTop(frame) /\ trace' = Changed(trace, Len(stack), e)
        /\ experiments' = IF hit.at = 0 THEN experiments
                          ELSE Changed(experiments, hit.at,
                                       Counted(experiments[hit.at], hit))
    BY <1>1 DEF Advised, Changed
  <1>3. /\ stack # <<>> /\ Top.at = "advice"
        /\ UNCHANGED <<app, level, loaded, patchVars>>
    BY DEF Advise
  <1>4. at \in {"ended", "original"}
    OBVIOUS
  <1>. HIDE DEF at, result
  <1>5. /\ frame.at \in {"ended", "original"} /\ frame.effect = e
        /\ frame.asked = asked
    <2>1. IsFrame(Top)
      BY <1>3, StackLengths
    <2>. HIDE DEF e, asked
    <2>. QED BY <1>4, <2>1, AdvisedFrame
  <1>. HIDE DEF frame
  <1>6. /\ CallingOK' /\ Len(stack') = Len(stack) /\ stack' # <<>>
        /\ Top' = frame
        /\ \A i \in 1..Len(stack) : i < Len(stack) => stack'[i] = stack[i]
        /\ stack'[Len(stack)] = frame
    BY <1>2, <1>3, <1>5, TopFrames
  <1>7. Len(trace') = Len(trace)
    <2>1. IsSequence(trace) /\ Len(stack) \in 1..Len(trace)
      BY <1>3, StackLengths
    <2>. QED BY <1>2, <2>1, SequenceExcept
  <1>8. Waiting = 1 /\ Waiting' = 0
    BY <1>3, <1>5, <1>6 DEF Waiting
  <1>. QED BY <1>2, <1>3, <1>5, <1>6, <1>7, <1>8

(* The original of the innermost call ends, and nobody else notices.       *)
LEMMA EndedFrames ==
  ASSUME CallerInvariant, CallingOK, stack # <<>>,
         Top.at \in {"original", "resumed"}, EndByItself \/ LetThrough
  PROVE  /\ CallingOK' /\ KeepsFrames /\ Len(stack') = Len(stack)
         /\ Waiting = 0 /\ Waiting' = 0
         /\ UNCHANGED <<app, agentVars, patchVars, trace>>
  <1>1. /\ IsFrame(Top) /\ Len(stack) \in Nat /\ Len(stack) \in 1..Len(stack)
    BY StackLengths
  <1>2. PICK frame : /\ stack' = ReplaceTop(frame) /\ frame.at = "ended"
                     /\ frame.effect = Top.effect /\ frame.asked = Top.asked
    <2>1. CASE EndByItself
      <3>1. \E ending : stack' = ReplaceTop(WithResult(Top, "ended", ending))
        BY <2>1 DEF EndByItself, WithResult
      <3>. QED BY <1>1, <3>1, ResultFrame
    <2>2. CASE LetThrough
      <3>1. stack' = ReplaceTop(Moved(Top, "ended"))
        BY <2>2 DEF LetThrough, Moved
      <3>. QED BY <1>1, <3>1, MovedFrame
    <2>. QED BY <2>1, <2>2
  <1>3. UNCHANGED <<app, agentVars, patchVars, trace>>
    BY DEF EndByItself, LetThrough, historyVars
  <1>4. /\ CallingOK' /\ Len(stack') = Len(stack) /\ stack' # <<>>
        /\ Top' = frame
        /\ \A i \in 1..Len(stack) : i < Len(stack) => stack'[i] = stack[i]
        /\ stack'[Len(stack)] = frame
    BY <1>2, TopFrames
  <1>5. KeepsFrames
    BY <1>1, <1>2, <1>4 DEF KeepsFrames, Top
  <1>. QED BY <1>2, <1>3, <1>4, <1>5 DEF Waiting

(* A nested call is one more frame, within the calls of the application.   *)
LEMMA CallInnerFrames ==
  ASSUME CallerInvariant, CallingOK, CallInner
  PROVE  /\ CallingOK' /\ KeepsFrames
         /\ Len(stack') = Len(stack) + 1 /\ Len(trace') = Len(trace) + 1
         /\ Len(trace') <= Len(app.calls) \/ Len(app.calls) \notin Int
         /\ Waiting = 0
         /\ UNCHANGED <<app, agentVars, patchVars>>
  <1>. DEFINE n == Len(stack)
              inner == Frame(app.calls[n + 1])
              called == Moved(Top, "calling")
              outer == ReplaceTop(called)
  <1>1. /\ stack # <<>> /\ Top.at = "original" /\ n < Len(app.calls)
        /\ stack' = Append(outer, inner) /\ trace' = Append(trace, NoEffect)
        /\ UNCHANGED <<app, agentVars, patchVars>>
    BY DEF CallInner, Moved
  <1>2. /\ IsFrame(Top) /\ n \in Nat /\ n \in 1..n /\ Len(trace) = n
        /\ IsSequence(stack) /\ IsSequence(trace)
    BY <1>1, StackLengths
  <1>3. called.at = "calling" /\ called.effect = Top.effect /\ called.asked = Top.asked
    BY <1>2, MovedFrame
  <1>4. inner.effect = NoEffect /\ inner.at \in {"original", "advice"}
    BY FrameBegins
  <1>. HIDE DEF called, inner
  <1>5. /\ IsSequence(outer) /\ Len(outer) = n
        /\ \A j \in 1..n : outer[j] = IF j = n THEN called ELSE stack[j]
    <2>1. outer = Changed(stack, Len(stack), called)
      BY DEF ReplaceTop, Changed
    <2>. QED BY <1>2, <2>1, SequenceExcept
  <1>. HIDE DEF outer
  <1>6. /\ Len(stack') = n + 1 /\ stack'[n + 1] = inner
        /\ \A i \in 1..n : stack'[i] = IF i = n THEN called ELSE stack[i]
    BY <1>1, <1>5, SequenceAppend
  <1>7. Len(trace') = n + 1
    BY <1>1, <1>2, SequenceAppend
  <1>. HIDE DEF n
  <1>8. CallingOK'
    BY <1>2, <1>3, <1>4, <1>6 DEF CallingOK, n
  <1>9. KeepsFrames
    BY <1>2, <1>3, <1>4, <1>6 DEF KeepsFrames, Top, n
  <1>. QED BY <1>1, <1>2, <1>6, <1>7, <1>8, <1>9 DEF Waiting, n

(* A call that ends hands its result to the frame outside it.              *)
LEMMA LeaveFrames ==
  ASSUME CallerInvariant, CallingOK, Leave
  PROVE  /\ CallingOK' /\ KeepsFrames
         /\ Waiting = 0 /\ Waiting' = 0
         /\ UNCHANGED <<app, agentVars, patchVars, trace>>
  <1>. DEFINE result == Awaited(Top, TopCall.point)
              m == Len(stack) - 1
              rest == SubSeq(stack, 1, m)
              frame == WithResult(rest[m], "resumed", result)
  <1>1. /\ stack # <<>> /\ Top.at = "ended" /\ PassOn(result)
        /\ UNCHANGED <<app, agentVars, patchVars, trace>>
    BY DEF Leave, historyVars
  <1>2. /\ Len(stack) \in Nat \ {0} /\ IsSequence(stack)
        /\ \A i \in 1..Len(stack) : IsFrame(stack[i])
    BY <1>1, StackLengths
  <1>3. \/ m = 0 /\ stack' = <<>>
        \/ m # 0 /\ stack' = Changed(rest, m, frame)
    BY <1>1 DEF PassOn, Changed, WithResult
  <1>4. Waiting = 0
    BY <1>1 DEF Waiting
  <1>. HIDE DEF result
  <1>5. CASE m = 0 /\ stack' = <<>>
    BY <1>1, <1>4, <1>5, EmptySequence DEF CallingOK, KeepsFrames, Waiting
  <1>6. CASE m # 0 /\ stack' = Changed(rest, m, frame)
    <2>0. m # 0
      BY <1>6
    <2>1. m \in 1..Len(stack) /\ m \in 1..m /\ Len(stack) = m + 1 /\ m \in Nat
      <3>1. \A k \in Nat \ {0} : k - 1 # 0 =>
              k - 1 \in 1..k /\ k - 1 \in 1..(k - 1) /\ k = k - 1 + 1 /\ k - 1 \in Nat
        OBVIOUS
      <3>2. Len(stack) \in Nat \ {0}
        BY <1>2
      <3>. QED BY <2>0, <3>1, <3>2
    <2>2. /\ IsSequence(rest) /\ Len(rest) = m
          /\ \A i \in 1..m : rest[i] = stack[i]
      BY <1>2, <2>1, SequencePrefix
    <2>3. /\ frame.at = "resumed" /\ frame.effect = stack[m].effect
          /\ frame.asked = stack[m].asked
      BY <1>2, <2>1, <2>2, ResultFrame
    <2>. HIDE DEF rest, frame, m
    <2>4. /\ IsSequence(stack') /\ Len(stack') = m
          /\ \A i \in 1..m : stack'[i] = IF i = m THEN frame ELSE rest[i]
      <3>1. stack' = Changed(rest, m, frame)
        BY <1>6 DEF rest, frame, m
      <3>2. /\ IsSequence(Changed(rest, m, frame))
            /\ Len(Changed(rest, m, frame)) = m
            /\ \A i \in 1..m :
                  Changed(rest, m, frame)[i] = IF i = m THEN frame ELSE rest[i]
        BY <2>1, <2>2, SequenceExcept
      <3>. QED BY <3>1, <3>2
    <2>5. CallingOK'
      BY <2>1, <2>2, <2>3, <2>4 DEF CallingOK
    <2>6. KeepsFrames
      BY <2>1, <2>2, <2>3, <2>4 DEF KeepsFrames
    <2>7. Waiting' = 0
      BY <2>1, <2>3, <2>4 DEF Waiting, Top
    <2>. QED BY <1>1, <1>4, <2>5, <2>6, <2>7
  <1>. QED BY <1>3, <1>5, <1>6
-----------------------------------------------------------------------------
(* Which plugins are loaded, and which points are patched or will be.      *)
PatchTypes ==
    /\ level \in {"unset", "INFO", "DEBUG"}
    /\ imported \subseteq AppPoints /\ late \subseteq imported
    /\ pending = [p \in Points |-> pending[p]]
    /\ \A p \in Points : /\ wrapper[p] \in {"none", "sync", "async"}
                         /\ pending[p] \in {"none", "sync"}
                         /\ wrapper[p] # "none" => p \in imported
                         /\ pending[p] # "none" => p \notin imported

(* Loading a plugin keeps the patches in order.                            *)
LEMMA LoadPatches ==
  ASSUME PatchTypes, NEW target, NEW added, LazyLoadPlugin(target, added),
         UNCHANGED <<app, imported, late>>, level' \in {"unset", "INFO", "DEBUG"}
  PROVE  PatchTypes'
  <1>1. /\ wrapper' = [p \in Points |->
                          IF p \in added \cap imported THEN ChooseWrapper(p)
                          ELSE wrapper[p]]
        /\ pending' = [p \in Points |->
                          IF p \in added \ imported THEN ChooseWrapper(p)
                          ELSE pending[p]]
    BY DEF LazyLoadPlugin
  <1>2. \A p : /\ ChooseWrapper(p) \in {"sync", "async"}
               /\ p \notin imported => ChooseWrapper(p) = "sync"
    BY DEF ChooseWrapper
  <1>3. pending' = [p \in Points |-> pending'[p]]
    BY <1>1
  <1>4. AppPoints' = AppPoints
    BY DEF AppPoints
  <1>. QED BY <1>1, <1>2, <1>3, <1>4 DEF PatchTypes

(* A request keeps the patches in order.                                   *)
LEMMA ServePatches ==
  ASSUME PatchTypes, NEW request, Serve(request)
  PROVE  PatchTypes'
  <1>. DEFINE p == Params(request)
  <1>. HIDE DEF p
  <1>1. UNCHANGED <<app, imported, late>>
    BY DEF Serve
  <1>2. CASE UNCHANGED <<wrapper, pending>> /\ level' \in {"unset", "INFO", "DEBUG"}
    BY <1>1, <1>2 DEF PatchTypes, AppPoints
  <1>3. CASE Create(p)
    <2>1. level' \in {"unset", "INFO", "DEBUG"}
      BY <1>3 DEF Create, SetLevel, PatchTypes
    <2>2. CASE \E added : LazyLoadPlugin(p.target, added)
      BY <1>1, <2>1, <2>2, LoadPatches
    <2>3. CASE Refuse(p)
      BY <1>2, <2>1, <2>3 DEF Refuse
    <2>. QED BY <1>3, <2>2, <2>3 DEF Create, Succeed, Fail
  <1>4. CASE UNCHANGED <<level, wrapper, pending>>
    BY <1>2, <1>4 DEF PatchTypes
  <1>5. CASE Destroy(p)
    BY <1>4, <1>5 DEF Destroy
  <1>. QED BY <1>3, <1>4, <1>5 DEF Serve, Dispatch, p

(* The import of a module installs the patch that waited for it.           *)
LEMMA ImportPatches ==
  ASSUME PatchTypes, PatchesOK, NEW point \in AppPoints, Import(point)
  PROVE  PatchTypes'
  <1>1. point \in Points
    BY ServiceAssumption DEF PatchesOK, AppPoints
  <1>2. /\ imported' = imported \cup {point} /\ point \notin imported
        /\ wrapper' = Changed(wrapper, point, Applied(point))
        /\ pending' = Changed(pending, point, "none")
        /\ late' = late \/ late' = late \cup {point}
        /\ Applied(point) \in {"none", pending[point]}
        /\ UNCHANGED <<app, level>>
    BY DEF Import, agentVars, Changed, Applied
  <1>3. /\ \A p \in Points : wrapper'[p] = IF p = point THEN Applied(point) ELSE wrapper[p]
        /\ \A p \in Points : pending'[p] = IF p = point THEN "none" ELSE pending[p]
        /\ pending' = [p \in Points |-> pending'[p]]
    <2>1. wrapper = [p \in Points |-> wrapper[p]] /\ pending = [p \in Points |-> pending[p]]
      BY DEF PatchesOK, PatchTypes
    <2>. QED BY <1>1, <1>2, <2>1 DEF Changed
  <1>4. AppPoints' = AppPoints
    BY <1>2 DEF AppPoints
  <1>. QED BY <1>2, <1>3, <1>4 DEF PatchTypes

-----------------------------------------------------------------------------
(* A count grows with the calls since the application began its last one:  *)
(* each of them, but the one whose advice is to come, hit it at most once. *)
HitsBounded ==
    \A e \in Range(experiments) : e.hits <= MaxHits + Len(trace) - Waiting

(* The inductive invariant of the types: the parts above, and the call     *)
(* depth.                                                                  *)
TypeInvariant ==
    /\ CallerInvariant /\ RegisterOK /\ PatchTypes /\ CallingOK /\ HitsBounded
    /\ Len(trace) <= Len(app.calls)

(* An application calls something.                                         *)
LEMMA CallsLength ==
  ASSUME CallerInvariant
  PROVE  Len(app.calls) \in Nat \ {0}
  <1>1. app.calls \in Seq(Range(app.calls)) /\ app.calls # <<>>
    BY ServiceAssumption DEF CallerInvariant, PatchesOK
  <1>. QED BY <1>1, LenProperties, EmptySeq

(* The inductive invariant holds at first.                                 *)
LEMMA InitTypes == Init => TypeInvariant
  <1>. SUFFICES ASSUME Init PROVE TypeInvariant
    OBVIOUS
  <1>1. CallerInvariant
    BY InitCaller
  <1>2. RegisterOK
    BY EmptySequence DEF Init, RegisterOK, Distinct
  <1>3. PatchTypes
    BY DEF Init, PatchTypes
  <1>4. CallingOK /\ HitsBounded
    BY EmptySequence DEF Init, CallingOK, HitsBounded
  <1>5. Len(trace) <= Len(app.calls)
    BY <1>1, CallsLength, EmptySequence DEF Init
  <1>. QED BY <1>1, <1>2, <1>3, <1>4, <1>5 DEF TypeInvariant

(* The counts are numbers.                                                 *)
LEMMA HitsAreNumbers ==
  ASSUME RegisterOK
  PROVE  \A e \in Range(experiments) : e.hits \in Nat
  BY DEF RegisterOK, ExperimentOK

(* A request keeps it.                                                     *)
LEMMA ServeTypes ==
  ASSUME TypeInvariant, NEW request, Serve(request)
  PROVE  TypeInvariant'
  <1>1. UNCHANGED <<app, imported, late, stack, trace>>
    BY DEF Serve, historyVars
  <1>2. /\ RegisterOK'
        /\ \A e \in Range(experiments') : e \in Range(experiments) \/ e.hits = 0
    BY ServeRegister DEF TypeInvariant
  <1>3. CallerInvariant' /\ PatchTypes'
    BY ServeCaller, ServePatches DEF TypeInvariant
  <1>4. CallingOK' /\ Len(trace') <= Len(app'.calls)
    BY <1>1 DEF TypeInvariant, CallingOK
  <1>5. HitsBounded'
    <2>1. Waiting' = Waiting /\ Waiting \in {0, 1} /\ (Waiting = 1 => Len(trace) >= 1)
      <3>1. Waiting' = Waiting /\ Waiting \in {0, 1} /\ (Waiting = 1 => stack # <<>>)
        BY <1>1 DEF Waiting, Top
      <3>2. stack # <<>> => Len(trace) >= 1
        <4>1. /\ Len(stack) \in Nat /\ Len(trace) \in Nat /\ Len(stack) <= Len(trace)
              /\ stack # <<>> => Len(stack) \in 1..Len(stack)
          BY StackLengths DEF TypeInvariant
        <4>. QED BY <4>1
      <3>. QED BY <3>1, <3>2
    <2>2. Len(trace) \in Nat /\ MaxHits \in Nat
      BY StackLengths, ServiceAssumption DEF TypeInvariant
    <2>3. \A e \in Range(experiments) : e.hits <= MaxHits + Len(trace) - Waiting
      BY DEF TypeInvariant, HitsBounded
    <2>4. 0 <= MaxHits + Len(trace) - Waiting
      BY <2>1, <2>2
    <2>. QED BY <1>1, <1>2, <2>1, <2>3, <2>4 DEF HitsBounded
  <1>. QED BY <1>2, <1>3, <1>4, <1>5 DEF TypeInvariant

(* Where experiments, plugins and patches stay as they are.                *)
LEMMA RegisterStays ==
  ASSUME RegisterOK, PatchTypes, UNCHANGED <<app, agentVars, patchVars>>
  PROVE  RegisterOK' /\ PatchTypes'
  BY DEF RegisterOK, PatchTypes, AppPoints, agentVars, patchVars, Distinct,
         ExperimentOK

(* An import keeps it.                                                     *)
LEMMA ImportTypes ==
  ASSUME TypeInvariant, NEW point \in AppPoints, Import(point)
  PROVE  TypeInvariant'
  <1>1. UNCHANGED <<app, agentVars, stack, trace>>
    BY DEF Import, historyVars
  <1>2. CallerInvariant' /\ PatchTypes'
    BY ImportCaller, ImportPatches DEF TypeInvariant, CallerInvariant
  <1>3. RegisterOK'
    BY <1>1 DEF TypeInvariant, RegisterOK, agentVars, Distinct, ExperimentOK
  <1>4. CallingOK' /\ HitsBounded' /\ Len(trace') <= Len(app'.calls)
    BY <1>1 DEF TypeInvariant, CallingOK, HitsBounded, Waiting, Top, agentVars
  <1>. QED BY <1>2, <1>3, <1>4 DEF TypeInvariant

(* A call from outside keeps it.                                           *)
LEMMA CallTypes ==
  ASSUME TypeInvariant, Call
  PROVE  TypeInvariant'
  <1>1. /\ CallingOK' /\ Len(trace') = 1
        /\ UNCHANGED <<app, agentVars, patchVars>>
    BY CallFrames
  <1>2. CallerInvariant' /\ RegisterOK' /\ PatchTypes'
    BY <1>1, CallCaller, RegisterStays DEF TypeInvariant
  <1>3. \A e \in Range(experiments) : e.hits < MaxHits
    BY DEF Call, Range
  <1>4. HitsBounded'
    <2>1. Waiting' \in {0, 1}
      BY DEF Waiting
    <2>2. \A e \in Range(experiments) : e.hits \in Nat
      BY HitsAreNumbers DEF TypeInvariant
    <2>. QED BY <1>1, <1>3, <2>1, <2>2, ServiceAssumption DEF HitsBounded, agentVars
  <1>5. Len(trace') <= Len(app'.calls)
    BY <1>1, CallsLength DEF TypeInvariant
  <1>. QED BY <1>1, <1>2, <1>4, <1>5 DEF TypeInvariant

(* An advice keeps it: the count it adds is of the call it no longer waits *)
(* for.                                                                    *)
LEMMA AdviseTypes ==
  ASSUME TypeInvariant, Advise
  PROVE  TypeInvariant'
  <1>1. PICK hit \in Inject(TopCall) :
            /\ CallingOK' /\ Len(stack') = Len(stack) /\ Len(trace') = Len(trace)
            /\ stack # <<>> /\ Waiting = 1 /\ Waiting' = 0
            /\ experiments' = IF hit.at = 0 THEN experiments
                              ELSE Changed(experiments, hit.at,
                                           Counted(experiments[hit.at], hit))
            /\ UNCHANGED <<app, level, loaded, patchVars>>
    BY AdviseFrames DEF TypeInvariant
  <1>2. /\ RegisterOK'
        /\ \A x \in Range(experiments') : \E e \in Range(experiments) :
               x.hits \in {e.hits, e.hits + 1}
    BY <1>1, AdviseRegister DEF TypeInvariant
  <1>3. CallerInvariant'
    BY AdviseCaller DEF TypeInvariant
  <1>4. PatchTypes'
    BY <1>1 DEF TypeInvariant, PatchTypes, AppPoints, patchVars
  <1>5. HitsBounded'
    <2>1. \A e \in Range(experiments) : e.hits \in Nat
      BY HitsAreNumbers DEF TypeInvariant
    <2>2. \A e \in Range(experiments) : e.hits <= MaxHits + Len(trace) - 1
      BY <1>1 DEF TypeInvariant, HitsBounded
    <2>3. Len(trace) \in Nat /\ MaxHits \in Nat
      BY StackLengths, ServiceAssumption DEF TypeInvariant
    <2>4. ASSUME NEW x \in Range(experiments')
          PROVE  x.hits <= MaxHits + Len(trace)
      BY <1>2, <2>1, <2>2, <2>3
    <2>. QED BY <1>1, <2>3, <2>4 DEF HitsBounded
  <1>. QED BY <1>1, <1>2, <1>3, <1>4, <1>5 DEF TypeInvariant

(* A nested call keeps it.                                                 *)
LEMMA CallInnerTypes ==
  ASSUME TypeInvariant, CallInner
  PROVE  TypeInvariant'
  <1>1. /\ CallingOK' /\ Len(trace') = Len(trace) + 1 /\ Waiting = 0
        /\ Len(trace') <= Len(app.calls) \/ Len(app.calls) \notin Int
        /\ UNCHANGED <<app, agentVars, patchVars>>
    BY CallInnerFrames DEF TypeInvariant
  <1>2. CallerInvariant' /\ RegisterOK' /\ PatchTypes'
    BY <1>1, CallInnerCaller, RegisterStays DEF TypeInvariant
  <1>3. HitsBounded'
    <2>1. \A e \in Range(experiments) : e.hits \in Nat
      BY HitsAreNumbers DEF TypeInvariant
    <2>2. Len(trace) \in Nat /\ MaxHits \in Nat /\ Waiting' \in {0, 1}
      BY StackLengths, ServiceAssumption DEF TypeInvariant, Waiting
    <2>. QED BY <1>1, <2>1, <2>2 DEF TypeInvariant, HitsBounded, agentVars
  <1>4. Len(trace') <= Len(app'.calls)
    BY <1>1, CallsLength DEF TypeInvariant
  <1>. QED BY <1>1, <1>2, <1>3, <1>4 DEF TypeInvariant

(* Where a call ends by itself or is left, no count and no history changes. *)
LEMMA EndTypes ==
  ASSUME TypeInvariant, CallerInvariant', CallingOK', Waiting = 0, Waiting' = 0,
         UNCHANGED <<app, agentVars, patchVars, trace>>
  PROVE  TypeInvariant'
  <1>1. RegisterOK' /\ PatchTypes'
    BY RegisterStays DEF TypeInvariant
  <1>2. HitsBounded' /\ Len(trace') <= Len(app'.calls)
    BY DEF TypeInvariant, HitsBounded, agentVars
  <1>. QED BY <1>1, <1>2 DEF TypeInvariant

(* Every step keeps the types of the state.                                *)
THEOREM NextTypes == TypeInvariant /\ [Next]_vars => TypeInvariant'
  <1>. SUFFICES ASSUME TypeInvariant, [Next]_vars PROVE TypeInvariant'
    OBVIOUS
  <1>0. CallerInvariant /\ CallingOK /\ CallerInvariant'
    BY NextCaller DEF TypeInvariant
  <1>1. CASE \E request \in app.requests : Serve(request)
    BY <1>1, ServeTypes
  <1>2. CASE \E point \in AppPoints : Import(point)
    BY <1>2, ImportTypes
  <1>3. CASE Call
    BY <1>3, CallTypes
  <1>4. CASE Advise
    BY <1>4, AdviseTypes
  <1>5. CASE CallInner
    BY <1>5, CallInnerTypes
  <1>6. CASE RunOriginal \/ ResumeOriginal \/ LetThrough
    BY <1>0, <1>6, EndedFrames, EndTypes
    DEF RunOriginal, ResumeOriginal, LetThrough
  <1>7. CASE Leave
    BY <1>0, <1>7, LeaveFrames, EndTypes
  <1>8. CASE UNCHANGED vars
    <2>1. UNCHANGED <<app, agentVars, patchVars, stack, trace>>
      BY <1>8 DEF vars, historyVars
    <2>2. RegisterOK' /\ PatchTypes'
      BY <2>1, RegisterStays DEF TypeInvariant
    <2>3. CallingOK' /\ HitsBounded' /\ Len(trace') <= Len(app'.calls)
      BY <2>1 DEF TypeInvariant, CallingOK, HitsBounded, Waiting, Top, agentVars
    <2>. QED BY <1>0, <2>2, <2>3 DEF TypeInvariant
  <1>. QED BY <1>1, <1>2, <1>3, <1>4, <1>5, <1>6, <1>7, <1>8 DEF Next

(* It implies the type invariant.                                          *)
LEMMA InvariantTypes == TypeInvariant => TypeOK
  <1>. SUFFICES ASSUME TypeInvariant PROVE TypeOK
    OBVIOUS
  <1>1. /\ DOMAIN stack = 1..Len(stack) /\ Len(stack) <= Len(trace)
        /\ Len(stack) \in Nat /\ Len(trace) \in Nat
        /\ Len(app.calls) \in Nat
    BY StackLengths, CallsLength DEF TypeInvariant
  <1>2. Len(stack) <= Len(app.calls)
    BY <1>1 DEF TypeInvariant
  <1>3. ASSUME NEW e \in Range(experiments)
        PROVE  e.hits \in 0..MaxHits + Len(app.calls) /\ e.model.target \in loaded
    <2>1. e.hits \in Nat /\ e.hits <= MaxHits + Len(trace) - Waiting
          /\ Waiting \in {0, 1}
      BY HitsAreNumbers DEF TypeInvariant, HitsBounded, Waiting
    <2>2. e.model.target = e.asked.target /\ e.asked.target \in loaded
      <3>1. Described(e) /\ e.asked.target \in loaded
        BY DEF TypeInvariant, RegisterOK, ExperimentOK
      <3>. QED BY <3>1, DescribedNames
    <2>. QED BY <1>1, <2>1, <2>2, ServiceAssumption DEF TypeInvariant
  <1>. QED BY <1>1, <1>2, <1>3
       DEF TypeOK, TypeInvariant, RegisterOK, Distinct, PatchTypes, CallingOK

(* What is registered, patched and in progress is well formed: one         *)
(* experiment per uid (DefaultStatusManager.register_exp), of loaded       *)
(* plugins, and patches only where a module is imported.                   *)
THEOREM ServiceTypes == Spec => []TypeOK
  <1>. QED BY InitTypes, NextTypes, InvariantTypes, PTL DEF Spec
-----------------------------------------------------------------------------
(* A create with effect-count=n causes no more than n faults               *)
(* (Injector._limit_and_increase), whatever text n is, whatever else is    *)
(* registered and destroyed in between.                                    *)
THEOREM LimitsAreKept == Spec => []LimitKept
  <1>1. TypeInvariant => LimitKept
    <2>. SUFFICES ASSUME TypeInvariant, NEW e \in Range(experiments),
                         Has(e.asked, "effect-count"),
                         e.asked["effect-count"] \in DOMAIN IntOf, e.faults > 0
                  PROVE  e.faults + e.idle <= IntOf[e.asked["effect-count"]]
      BY DEF LimitKept
    <2>1. ExperimentOK(e)
      BY DEF TypeInvariant, RegisterOK
    <2>2. Limited(e.asked) /\ Limit(e.asked) = IntOf[e.asked["effect-count"]]
      BY DEF Limited, Unreadable, Limit
    <2>3. /\ e.faults \in Nat /\ e.idle \in Nat /\ e.hits = e.faults + e.idle
          /\ e.hits = 0 \/ e.hits <= Limit(e.asked)
      BY <2>1, <2>2 DEF ExperimentOK
    <2>. QED BY <2>2, <2>3
  <1>. QED BY <1>1, InitTypes, NextTypes, PTL DEF Spec

(* The count a client reads with status is the number of faults, but for   *)
(* delays that do not wait: a failed execution is taken back at once       *)
(* (Injector.inject), and an experiment whose limit is no number counts    *)
(* none.                                                                   *)
THEOREM HitsAreCounted == Spec => []HitsAreFaults
  <1>1. TypeInvariant => HitsAreFaults
    BY DEF TypeInvariant, RegisterOK, ExperimentOK, HitsAreFaults, NoTime
  <1>. QED BY <1>1, InitTypes, NextTypes, PTL DEF Spec

-----------------------------------------------------------------------------
(* What a destroy names are the experiments whose creates named it so.     *)
LEMMA DoomedAreNamed ==
  ASSUME RegisterOK, NEW p
  PROVE  Doomed(p) = { e.uid : e \in { x \in Range(experiments) :
             IF Has(p, "suid") THEN x.asked.suid = p.suid
             ELSE /\ Has(p, "target") /\ Has(p, "action")
                  /\ x.asked.target = p.target /\ x.asked.action = p.action } }
  <1>1. \A e \in Range(experiments) :
          /\ e.uid = e.asked.suid
          /\ e.model.target = e.asked.target /\ e.model.action = e.asked.action
    BY DescribedNames DEF RegisterOK, ExperimentOK
  <1>2. Registered = { e.uid : e \in Range(experiments) }
    BY DEF Registered, Uid, Range
  <1>3. CASE Has(p, "suid")
    <2>1. Doomed(p) = {p.suid} \cap Registered
      BY <1>3 DEF Doomed
    <2>. QED BY <1>1, <1>2, <1>3, <2>1
  <1>4. CASE ~Has(p, "suid") /\ Has(p, "target") /\ Has(p, "action")
    <2>1. Doomed(p) = ListUids(p.target, p.action)
      BY <1>4 DEF Doomed
    <2>. QED BY <1>1, <1>4, <2>1 DEF ListUids
  <1>5. CASE ~Has(p, "suid") /\ ~(Has(p, "target") /\ Has(p, "action"))
    <2>1. Doomed(p) = {}
      BY <1>5 DEF Doomed
    <2>. QED BY <1>5, <2>1
  <1>. QED BY <1>3, <1>4, <1>5

(* A destroy unregisters the experiments it names and no other.            *)
LEMMA DestroyRemoves ==
  ASSUME RegisterOK, NEW p, Destroy(p)
  PROVE  { e.uid : e \in Range(experiments') } = Registered \ Doomed(p)
  <1>1. Registered = { e.uid : e \in Range(experiments) }
    BY DEF Registered, Uid, Range
  <1>2. CASE Doomed(p) = {}
    BY <1>1, <1>2 DEF Destroy
  <1>3. CASE Doomed(p) # {}
    <2>1. experiments' = Remove(Doomed(p))
      BY <1>3 DEF Destroy
    <2>2. Range(experiments') = { e \in Range(experiments) : e.uid \notin Doomed(p) }
      BY <2>1, RemoveKeeps DEF RegisterOK
    <2>. QED BY <1>1, <2>2
  <1>. QED BY <1>2, <1>3

(* A destroy removes the experiments whose create named the same uid, or   *)
(* the same target and action in the same words, all of them and no other  *)
(* (DestroyHandler, DefaultStatusManager.list_uids and remove_exp).        *)
THEOREM DestroysAreByName == Spec => DestroyIsByName
  <1>. DEFINE Named(p) == { e.uid : e \in { x \in Range(experiments) :
                 IF Has(p, "suid") THEN x.asked.suid = p.suid
                 ELSE /\ Has(p, "target") /\ Has(p, "action")
                      /\ x.asked.target = p.target
                      /\ x.asked.action = p.action } }
              ByName == \A request \in app.requests :
                 (request.command = "destroy" /\ Serve(request)) =>
                    { e.uid : e \in Range(experiments') }
                       = Registered \ Named(Params(request))
  <1>1. TypeInvariant /\ [Next]_vars => [ByName]_vars
    <2>. SUFFICES ASSUME TypeInvariant, NEW request \in app.requests,
                         request.command = "destroy", Serve(request)
                  PROVE  { e.uid : e \in Range(experiments') }
                            = Registered \ Named(Params(request))
      OBVIOUS
    <2>1. RegisterOK
      BY DEF TypeInvariant
    <2>2. Destroy(Params(request))
      BY DEF Serve, Dispatch
    <2>3. { e.uid : e \in Range(experiments') }
             = Registered \ Doomed(Params(request))
      BY <2>1, <2>2, DestroyRemoves
    <2>. QED BY <2>1, <2>3, DoomedAreNamed
  <1>2. Spec => []TypeInvariant
    BY InitTypes, NextTypes, PTL DEF Spec
  <1>. QED BY <1>1, <1>2, PTL DEF Spec, DestroyIsByName
-----------------------------------------------------------------------------
(* Matchers that tell nothing but facts of a call.                         *)
True(c, m) == \A key \in DOMAIN m : Says(c, key, m[key])

(* No matchers tell nothing false.                                         *)
LEMMA TrueNone == ASSUME NEW c PROVE True(c, <<>>)
  BY EmptySequence DEF True

(* One matcher that tells a fact.                                          *)
LEMMA TrueOne ==
  ASSUME NEW c, NEW key, NEW text, Says(c, key, text)
  PROVE  True(c, Entry(key, text))
  BY DEF True, Entry

(* A matcher that is told only if there is something to tell.              *)
LEMMA TrueGiven ==
  ASSUME NEW c, NEW key, NEW text, text # "" => Says(c, key, text)
  PROVE  True(c, Given(key, text))
  BY TrueNone, TrueOne DEF Given

(* Two sets of matchers, the first of which prevails.                      *)
LEMMA TrueBoth ==
  ASSUME NEW c, NEW m, NEW n, True(c, m), True(c, n)
  PROVE  True(c, m ++ n)
  BY DEF True, ++

(* The points of each plugin.                                              *)
LEMMA PointNames ==
  /\ RedisPlugin.points = {"Redis.execute_command"}
  /\ HttpPlugin.points = {"HTTPAdapter.send"}
  /\ HttpxPlugin.points = {"AsyncClient.send"}
  /\ KafkaPlugin.points = {"KafkaProducer.send", "KafkaConsumer.poll"}
  /\ MysqlPlugin.points = {"MySQLCursor.execute", "Cursor.execute"}
  /\ SqlalchemyPlugin.points = {"Connection.execute"}
  /\ GrpcPlugin.points = {"_UnaryUnaryMultiCallable.__call__"}
  BY DEF RedisPlugin, HttpPlugin, HttpxPlugin, KafkaPlugin, MysqlPlugin,
         SqlalchemyPlugin, GrpcPlugin, Plugin

(* Every point is one of them.                                             *)
LEMMA PointCases ==
  ASSUME NEW point \in Points
  PROVE  \/ point = "Redis.execute_command"
         \/ point = "HTTPAdapter.send"
         \/ point = "AsyncClient.send"
         \/ point = "KafkaProducer.send"
         \/ point = "KafkaConsumer.poll"
         \/ point \in {"MySQLCursor.execute", "Cursor.execute"}
         \/ point = "Connection.execute"
         \/ point = "_UnaryUnaryMultiCallable.__call__"
  BY PointNames DEF Points, Plugins

(* The extractors tell facts of a call, whatever its arguments are.        *)
LEMMA ExtractedIsTrue ==
  ASSUME NEW c, c.point \in Points, Truthful(c)
  PROVE  True(c, Extracted(c))
  <1>1. CASE c.point = "Redis.execute_command"
    <2>1. Extracted(c) = RedisMatchers(c)
      BY <1>1, PointNames DEF Extracted
    <2>2. /\ Len(c.args) >= 1 => Says(c, "cmd", c.args[1])
          /\ Len(c.args) >= 2 => Says(c, "key", c.args[2])
      BY <1>1 DEF Truthful
    <2>3. /\ True(c, IF Len(c.args) >= 1 THEN Entry("cmd", c.args[1]) ELSE <<>>)
          /\ True(c, IF Len(c.args) >= 2 THEN Entry("key", c.args[2]) ELSE <<>>)
      BY <2>2, TrueOne, TrueNone
    <2>. QED BY <2>1, <2>3, TrueBoth DEF RedisMatchers
  <1>2. CASE c.point = "HTTPAdapter.send"
    <2>1. Extracted(c) = HttpMatchers(c)
      BY <1>2, PointNames DEF Extracted
    <2>2. CASE c.args = <<>>
      BY <2>1, <2>2, TrueNone DEF HttpMatchers
    <2>3. CASE c.args # <<>>
      <3>. DEFINE r == c.args[1]
      <3>1. Shows(c, r, {"url", "host", "method"})
        BY <1>2, <2>3, PointNames DEF Truthful
      <3>2. /\ True(c, Given("host", r.host)) /\ True(c, Given("url", r.url))
            /\ True(c, Given("method", r.method))
        BY <3>1, TrueGiven DEF Shows
      <3>3. True(c, IF r.url = "" THEN <<>> ELSE Given("host", r.host))
        BY <3>2, TrueNone
      <3>4. HttpMatchers(c) = ((IF r.url = "" THEN <<>> ELSE Given("host", r.host))
               ++ Given("url", r.url)) ++ Given("method", r.method)
        BY <2>3 DEF HttpMatchers
      <3>. QED BY <2>1, <3>2, <3>3, <3>4, TrueBoth
    <2>. QED BY <2>2, <2>3
  <1>3. CASE c.point = "AsyncClient.send"
    <2>1. Extracted(c) = HttpxMatchers(c)
      BY <1>3, PointNames DEF Extracted
    <2>2. CASE c.args = <<>>
      BY <2>1, <2>2, TrueNone DEF HttpxMatchers
    <2>3. CASE c.args # <<>>
      <3>. DEFINE r == c.args[1]
      <3>1. Shows(c, r, {"url", "host", "method"}) /\ Shows(c, r, {"path"})
        BY <1>3, <2>3, PointNames DEF Truthful
      <3>2. /\ True(c, Given("host", r.host)) /\ True(c, Given("url", r.url))
            /\ True(c, Given("method", r.method)) /\ True(c, Given("path", r.path))
        BY <3>1, TrueGiven DEF Shows
      <3>3. True(c, IF r.url = "" THEN <<>>
                    ELSE Given("host", r.host) ++ Given("path", r.path))
        BY <3>2, TrueNone, TrueBoth
      <3>4. HttpxMatchers(c) =
               ((IF r.url = "" THEN <<>>
                 ELSE Given("host", r.host) ++ Given("path", r.path))
                ++ Given("url", r.url)) ++ Given("method", r.method)
        BY <2>3 DEF HttpxMatchers
      <3>. QED BY <2>1, <3>2, <3>3, <3>4, TrueBoth
    <2>. QED BY <2>2, <2>3
  <1>4. CASE c.point = "KafkaProducer.send"
    <2>1. Extracted(c) = KafkaProducerMatchers(c)
      BY <1>4, PointNames DEF Extracted
    <2>2. /\ Says(c, "operation", "produce")
          /\ c.args # <<>> => Says(c, "topic", c.args[1])
          /\ "topic" \in DOMAIN c.kw => Says(c, "topic", c.kw.topic)
      BY <1>4 DEF Truthful
    <2>3. /\ True(c, Entry("operation", "produce"))
          /\ True(c, IF c.args # <<>> THEN Entry("topic", c.args[1])
                     ELSE IF "topic" \in DOMAIN c.kw THEN Entry("topic", c.kw.topic)
                     ELSE <<>>)
      BY <2>2, TrueOne, TrueNone
    <2>. QED BY <2>1, <2>3, TrueBoth DEF KafkaProducerMatchers
  <1>5. CASE c.point = "KafkaConsumer.poll"
    <2>1. Extracted(c) = KafkaConsumerMatchers(c)
      BY <1>5, PointNames DEF Extracted
    <2>2. /\ Says(c, "operation", "consume")
          /\ "topics" \in DOMAIN c.obj /\ c.obj.topics # {} =>
                Says(c, "topic", Joined(c.obj.topics))
      BY <1>5 DEF Truthful
    <2>3. /\ True(c, Entry("operation", "consume"))
          /\ True(c, IF "topics" \in DOMAIN c.obj /\ c.obj.topics # {}
                     THEN Entry("topic", Joined(c.obj.topics)) ELSE <<>>)
      BY <2>2, TrueOne, TrueNone
    <2>. QED BY <2>1, <2>3, TrueBoth DEF KafkaConsumerMatchers
  <1>6. CASE c.point \in MysqlPlugin.points \cup SqlalchemyPlugin.points
    <2>1. Extracted(c) = StatementMatchers(c) ++ DatabaseMatcher(c)
      BY <1>6, PointNames DEF Extracted, MysqlMatchers, SqlalchemyMatchers
    <2>2. /\ c.args # <<>> => /\ Says(c, "sql", c.args[1].text)
                              /\ c.args[1].word # "" =>
                                    Says(c, "sqltype", c.args[1].word)
          /\ "database" \in DOMAIN c.obj => Shows(c, c.obj, {"database"})
      BY <1>6 DEF Truthful
    <2>3. True(c, StatementMatchers(c))
      <3>1. CASE c.args = <<>>
        BY <3>1, TrueNone DEF StatementMatchers
      <3>2. CASE c.args # <<>>
        <4>1. /\ True(c, Entry("sql", c.args[1].text))
              /\ True(c, Given("sqltype", c.args[1].word))
          BY <2>2, <3>2, TrueOne, TrueGiven
        <4>. QED BY <3>2, <4>1, TrueBoth DEF StatementMatchers
      <3>. QED BY <3>1, <3>2
    <2>4. True(c, DatabaseMatcher(c))
      <3>1. CASE "database" \notin DOMAIN c.obj
        BY <3>1, TrueNone DEF DatabaseMatcher
      <3>2. CASE "database" \in DOMAIN c.obj
        <4>1. c.obj.database # "" => Says(c, "database", c.obj.database)
          BY <2>2, <3>2 DEF Shows
        <4>. QED BY <3>2, <4>1, TrueGiven DEF DatabaseMatcher
      <3>. QED BY <3>1, <3>2
    <2>. QED BY <2>1, <2>3, <2>4, TrueBoth
  <1>7. CASE c.point = "_UnaryUnaryMultiCallable.__call__"
    <2>1. Extracted(c) = GrpcMatchers(c)
      BY <1>7, PointNames DEF Extracted
    <2>2. CASE "path" \notin DOMAIN c.obj
      BY <2>1, <2>2, TrueNone DEF GrpcMatchers
    <2>3. CASE "path" \in DOMAIN c.obj
      <3>1. Says(c, "method", c.obj.path) /\ Says(c, "service", c.obj.service)
        BY <1>7, <2>3, PointNames DEF Truthful
      <3>2. True(c, Entry("method", c.obj.path)) /\ True(c, Entry("service", c.obj.service))
        BY <3>1, TrueOne
      <3>. QED BY <2>1, <2>3, <3>2, TrueBoth DEF GrpcMatchers
    <2>. QED BY <2>2, <2>3
  <1>. QED BY <1>1, <1>2, <1>3, <1>4, <1>5, <1>6, <1>7, PointCases, PointNames
-----------------------------------------------------------------------------
(* An extractor tells the method of a call that shows one.                 *)
LEMMA MethodIsExtracted ==
  ASSUME NEW c, c.point \in Points, HasMethod(c)
  PROVE  "method" \in DOMAIN Extracted(c)
  <1>1. \A m, text : "method" \in DOMAIN (m ++ Entry("method", text))
    BY DEF ++, Entry
  <1>2. CASE c.point \in GrpcPlugin.points /\ "path" \in DOMAIN c.obj
    <2>1. Extracted(c) = Entry("method", c.obj.path) ++ Entry("service", c.obj.service)
      BY <1>2, PointNames DEF Extracted, GrpcMatchers
    <2>. QED BY <2>1 DEF ++, Entry
  <1>3. CASE /\ c.point \in HttpPlugin.points \cup HttpxPlugin.points
             /\ c.args # <<>> /\ c.args[1].method # ""
    <2>1. Extracted(c) \in {HttpMatchers(c), HttpxMatchers(c)}
      BY <1>3, PointNames DEF Extracted
    <2>2. \A m : "method" \in DOMAIN (m ++ Given("method", c.args[1].method))
      BY <1>1, <1>3 DEF Given
    <2>. QED BY <1>3, <2>1, <2>2 DEF HttpMatchers, HttpxMatchers
  <1>. QED BY <1>2, <1>3, PointNames DEF HasMethod

(* The name of the function stands in where an extractor tells no method.  *)
LEMMA AdviceIsTrue ==
  ASSUME NEW c, c.point \in Points, Truthful(c)
  PROVE  True(c, DoBeforeAdvice(c))
  <1>. DEFINE m == IF c.opaque THEN <<>> ELSE Extracted(c)
              n == Entry("method", FunctionName[c.point])
  <1>1. True(c, m)
    BY ExtractedIsTrue, TrueNone
  <1>2. "method" \notin DOMAIN m => Says(c, "method", FunctionName[c.point])
    BY EmptySequence, MethodIsExtracted DEF Truthful
  <1>3. DoBeforeAdvice(c) = m ++ n
    BY DEF DoBeforeAdvice
  <1>4. DOMAIN n = {"method"} /\ n["method"] = FunctionName[c.point]
    BY DEF Entry
  <1>. HIDE DEF m, n
  <1>. QED BY <1>1, <1>2, <1>3, <1>4 DEF True, ++

(* What a create asks for is among the matchers of its experiment.         *)
LEMMA ConditionsAreMatchers ==
  ASSUME NEW e, ExperimentOK(e), NEW key \in Conditions(e.asked)
  PROVE  /\ key \in DOMAIN e.model.matchers \ ControlMatchers
         /\ e.model.matchers[key] = e.asked[key]
  <1>1. PICK spec \in GetActionSpec(e.asked.target, e.asked.action) :
          key \in DOMAIN e.asked \ (ReservedKeys \cup ControlMatchers \cup spec.flags)
    BY DEF Conditions
  <1>2. PICK s \in GetActionSpec(e.asked.target, e.asked.action) :
          e.model = ParseModel(e.asked, s)
    BY DEF ExperimentOK, Described
  <1>3. s = spec
    BY <1>1, <1>2, Specs DEF ExperimentOK
  <1>4. e.model.matchers = Without(e.asked, ReservedKeys \cup spec.flags)
    BY <1>2, <1>3 DEF ParseModel
  <1>. QED BY <1>1, <1>4 DEF Without

(* So a call that matches an experiment is as its create asked.            *)
LEMMA MatchIsAsAsked ==
  ASSUME NEW c, c.point \in Points, Truthful(c),
         NEW e, ExperimentOK(e), Compare(e.model.matchers, DoBeforeAdvice(c)),
         NEW key \in Conditions(e.asked)
  PROVE  /\ key \in DOMAIN c.facts
         /\ \E text \in c.facts[key] : Fold(text) = Fold(e.asked[key])
  <1>. DEFINE actual == DoBeforeAdvice(c)
  <1>1. MatchesKey(key, e.model.matchers, actual)
        /\ e.model.matchers[key] = e.asked[key]
    BY ConditionsAreMatchers DEF Compare
  <1>2. key \in DOMAIN actual /\ True(c, actual)
    BY <1>1, AdviceIsTrue DEF MatchesKey
  <1>. HIDE DEF actual
  <1>3. key \in DOMAIN c.facts /\ actual[key] \in c.facts[key]
    BY <1>2 DEF True, Says
  <1>4. key \notin RegexKeys
    BY <1>3, MatchingAssumption DEF Truthful
  <1>5. Fold(actual[key]) = Fold(e.asked[key])
    BY <1>1, <1>4 DEF MatchesKey
  <1>. QED BY <1>3, <1>5

-----------------------------------------------------------------------------
(* A frame whose call met a fault is one the create of the fault described. *)
AsAsked(effect, asked, facts) ==
    effect.kind \in FaultKinds =>
        \A key \in Conditions(asked) :
            /\ key \in DOMAIN facts
            /\ \E text \in facts[key] : Fold(text) = Fold(asked[key])

(* The faults of all calls in progress were asked for, each by its create. *)
FramesAsAsked ==
    \A i \in 1..Len(stack) :
        AsAsked(stack[i].effect, stack[i].asked, app.calls[i].facts)

(* A call without a fault is as any create asked.                          *)
LEMMA NoFault ==
  ASSUME NEW asked, NEW facts
  PROVE  AsAsked(NoEffect, asked, facts)
  BY DEF AsAsked, NoEffect, Effect, FaultKinds

(* A step that keeps the effects of the frames keeps that they were asked  *)
(* for.                                                                    *)
LEMMA KeptFrames ==
  ASSUME FramesAsAsked, KeepsFrames, UNCHANGED app
  PROVE  FramesAsAsked'
  BY NoFault DEF FramesAsAsked, KeepsFrames

(* The fault of an advice was asked for by the create of the first match.  *)
LEMMA AdviseAsAsked ==
  ASSUME TypeInvariant, FramesAsAsked, Advise
  PROVE  FramesAsAsked'
  <1>. DEFINE n == Len(stack)
              c == TopCall
  <1>1. PICK hit \in Inject(TopCall) :
            /\ Len(stack') = Len(stack) /\ stack # <<>>
            /\ \A i \in 1..Len(stack) : i < Len(stack) => stack'[i] = stack[i]
            /\ stack'[Len(stack)].effect = hit.effect
            /\ stack'[Len(stack)].asked =
                  IF hit.at = 0 THEN <<>> ELSE experiments[hit.at].asked
            /\ experiments' = IF hit.at = 0 THEN experiments
                              ELSE Changed(experiments, hit.at,
                                           Counted(experiments[hit.at], hit))
            /\ UNCHANGED <<app, level, loaded, patchVars>>
    BY AdviseFrames DEF TypeInvariant
  <1>2. hit = NoHit \/
            \E i \in First(TargetOf(TopCall.point), DoBeforeAdvice(TopCall)) :
                hit.at = i /\ HitOK(experiments[i], hit)
    BY <1>1, AdviseRegister DEF TypeInvariant
  <1>3. c.point \in Points /\ Truthful(c)
    <2>1. /\ n \in 1..n /\ n \in Nat /\ n <= Len(trace) /\ Len(trace) \in Nat
          /\ Len(trace) <= Len(app.calls)
      BY <1>1, StackLengths DEF TypeInvariant
    <2>2. app \in Applications /\ DOMAIN app.calls = 1..Len(app.calls)
          /\ Len(app.calls) \in Nat
      BY ServiceAssumption, LenProperties DEF TypeInvariant, CallerInvariant, PatchesOK
    <2>3. n \in DOMAIN app.calls
      BY <2>1, <2>2
    <2>. QED BY <2>2, <2>3, ServiceAssumption DEF TopCall, Range
  <1>4. AsAsked(hit.effect,
                IF hit.at = 0 THEN <<>> ELSE experiments[hit.at].asked, c.facts)
    <2>1. CASE hit = NoHit
      BY <2>1, NoFault DEF NoHit, Hit
    <2>2. ASSUME NEW i \in First(TargetOf(c.point), DoBeforeAdvice(c)), hit.at = i
          PROVE  AsAsked(hit.effect,
                IF hit.at = 0 THEN <<>> ELSE experiments[hit.at].asked, c.facts)
      <3>. DEFINE e == experiments[i]
      <3>1. /\ i \in DOMAIN experiments
            /\ Compare(e.model.matchers, DoBeforeAdvice(c))
        BY DEF First
      <3>2. ExperimentOK(e) /\ i # 0
        BY <3>1, SequenceLength DEF TypeInvariant, RegisterOK, Range
      <3>3. \A key \in Conditions(e.asked) :
              /\ key \in DOMAIN c.facts
              /\ \E text \in c.facts[key] : Fold(text) = Fold(e.asked[key])
        BY <1>3, <3>1, <3>2, MatchIsAsAsked
      <3>. QED BY <2>2, <3>2, <3>3 DEF AsAsked
    <2>. QED BY <1>2, <2>1, <2>2
  <1>5. ASSUME NEW i \in 1..n
        PROVE  AsAsked(stack'[i].effect, stack'[i].asked, app'.calls[i].facts)
    <2>1. n \in Nat
      BY StackLengths DEF TypeInvariant
    <2>2. CASE i < n
      BY <1>1, <2>2 DEF FramesAsAsked
    <2>3. CASE i = n
      BY <1>1, <1>4, <2>3 DEF TopCall
    <2>. QED BY <2>1, <2>2, <2>3
  <1>. QED BY <1>1, <1>5 DEF FramesAsAsked

(* Every step keeps that the faults were asked for.                        *)
THEOREM NextAsAsked ==
  TypeInvariant /\ FramesAsAsked /\ [Next]_vars => FramesAsAsked'
  <1>. SUFFICES ASSUME TypeInvariant, FramesAsAsked, [Next]_vars
                PROVE  FramesAsAsked'
    OBVIOUS
  <1>0. CallerInvariant /\ CallingOK
    BY DEF TypeInvariant
  <1>1. CASE UNCHANGED <<app, stack>>
    BY <1>1 DEF FramesAsAsked
  <1>2. CASE \E request \in app.requests : Serve(request)
    BY <1>1, <1>2 DEF Serve
  <1>3. CASE \E point \in AppPoints : Import(point)
    BY <1>1, <1>3 DEF Import
  <1>4. CASE Call
    BY <1>4, CallFrames, KeptFrames
  <1>5. CASE Advise
    BY <1>5, AdviseAsAsked
  <1>6. CASE CallInner
    BY <1>0, <1>6, CallInnerFrames, KeptFrames
  <1>7. CASE RunOriginal \/ ResumeOriginal \/ LetThrough
    BY <1>0, <1>7, EndedFrames, KeptFrames
    DEF RunOriginal, ResumeOriginal, LetThrough
  <1>8. CASE Leave
    BY <1>0, <1>8, LeaveFrames, KeptFrames
  <1>9. CASE UNCHANGED vars
    BY <1>1, <1>9 DEF vars
  <1>. QED BY <1>2, <1>3, <1>4, <1>5, <1>6, <1>7, <1>8, <1>9 DEF Next

(* A fault only meets calls its create described (parse_model, the         *)
(* extractors of the plugins, Injector._compare): each parameter that is   *)
(* no flag and no limit is, up to case, a fact of the call.                *)
THEOREM FaultsAreAsAsked == Spec => []FaultsAsAsked
  <1>1. Init => FramesAsAsked
    BY EmptySequence DEF Init, FramesAsAsked
  <1>2. TypeInvariant /\ FramesAsAsked => FaultsAsAsked
    <2>. SUFFICES ASSUME TypeInvariant, FramesAsAsked, NEW i \in DOMAIN stack,
                         stack[i].effect.kind \in {"held", "return", "throw"}
                  PROVE  \A key \in Conditions(stack[i].asked) :
                    /\ key \in DOMAIN app.calls[i].facts
                    /\ \E text \in app.calls[i].facts[key] :
                          Fold(text) = Fold(stack[i].asked[key])
      BY DEF FaultsAsAsked
    <2>1. i \in 1..Len(stack)
      BY StackLengths DEF TypeInvariant
    <2>. QED BY <2>1 DEF FramesAsAsked, AsAsked, FaultKinds
  <1>. QED BY <1>1, <1>2, InitTypes, NextTypes, NextAsAsked, PTL DEF Spec
=============================================================================
