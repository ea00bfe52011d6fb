----------------------------- MODULE Host_proofs -----------------------------
(***************************************************************************)
(* Proofs about two parts around the agent, for any number of commands,    *)
(* lines, files and variables: attach and detach lose no line of the       *)
(* user's that they could know of and leave no part of a hook behind, as   *)
(* long as none writes over another, whenever a command dies; and each     *)
(* setting has the value of its most important source that can be read.    *)
(***************************************************************************)
EXTENDS SiteCustomize, Configuration, SequenceLemmas, TLAPS

(* The loop of detach, as the equation of its recursive function.          *)
Keeping(lines, kept) ==
    [n \in 0..Len(lines) |->
        IF n = 0 THEN [skip |-> FALSE, lines |-> <<>>]
        ELSE Keep(kept[n - 1], lines[n])]

(* What one round makes of a record.                                       *)
LEMMA KeepFields ==
  ASSUME NEW S, NEW kept \in [skip : BOOLEAN, lines : Seq(S)], NEW line \in S
  PROVE  /\ Keep(kept, line) \in [skip : BOOLEAN, lines : Seq(S)]
         /\ Keep(kept, line).skip =
               (line = "marker" \/ (kept.skip /\ line # "del"))
         /\ Keep(kept, line).lines =
               IF line = "marker" \/ kept.skip THEN kept.lines
               ELSE Append(kept.lines, line)
  <1>. DEFINE R == [skip : BOOLEAN, lines : Seq(S)]
  <1>1. Append(kept.lines, line) \in Seq(S)
    BY AppendProperties
  <1>2. \A b \in BOOLEAN :
           LET x == [kept EXCEPT !.skip = b]
           IN  x \in R /\ x.skip = b /\ x.lines = kept.lines
    OBVIOUS
  <1>3. LET x == [kept EXCEPT !.lines = Append(kept.lines, line)]
        IN  /\ x \in R /\ x.skip = kept.skip
            /\ x.lines = Append(kept.lines, line)
    BY <1>1
  <1>4. CASE line = "marker"
    BY <1>2, <1>4 DEF Keep
  <1>5. CASE line # "marker" /\ kept.skip
    BY <1>2, <1>5 DEF Keep
  <1>6. CASE line # "marker" /\ ~kept.skip
    BY <1>3, <1>6 DEF Keep
  <1>. QED BY <1>4, <1>5, <1>6

(* The loop computes what its equation says.                               *)
LEMMA KeptLoop ==
  ASSUME NEW lines, IsSequence(lines)
  PROVE  \E kept \in [0..Len(lines) -> [skip : BOOLEAN, lines : Seq(Range(lines))]] :
            /\ kept = Keeping(lines, kept)
            /\ Kept(lines) = kept[Len(lines)].lines
  <1>. DEFINE N == Len(lines)
              S == [skip : BOOLEAN, lines : Seq(Range(lines))]
              b == [skip |-> FALSE, lines |-> <<>>]
              F == [x \in S \X (1..N) |-> Keep(x[1], lines[x[2]])]
  <1>1. N \in Nat /\ \A i \in 1..N : lines[i] \in Range(lines)
    BY SequenceLength DEF Range
  <1>2. b \in S
    OBVIOUS
  <1>3. F \in [S \X (1..N) -> S]
    <2>1. ASSUME NEW x \in S \X (1..N)
          PROVE  Keep(x[1], lines[x[2]]) \in S
      <3>1. x[1] \in S /\ lines[x[2]] \in Range(lines)
        BY <1>1
      <3>. QED BY <3>1, KeepFields
    <2>. QED BY <2>1
  <1>. HIDE DEF F, S, N, b
  <1>4. PICK kept \in [0..N -> S] : IsLoop(kept, N, b, F)
    BY <1>1, <1>2, <1>3, LoopExists
  <1>5. kept = Keeping(lines, kept)
    <2>1. ASSUME NEW i \in 0..N
          PROVE  kept[i] = Keeping(lines, kept)[i]
      <3>1. kept[i] = IF i = 0 THEN b ELSE F[<<kept[i - 1], i>>]
        BY <1>4 DEF IsLoop, N
      <3>2. CASE i = 0
        BY <3>1, <3>2 DEF Keeping, N, b
      <3>3. CASE i # 0
        <4>1. kept[i - 1] \in S /\ i \in 1..N
          BY <1>1, <3>3
        <4>2. F[<<kept[i - 1], i>>] = Keep(kept[i - 1], lines[i])
          BY <4>1 DEF F
        <4>. QED BY <3>1, <3>3, <4>2 DEF Keeping, N
      <3>. QED BY <3>2, <3>3
    <2>. QED BY <1>4, <2>1 DEF Keeping, N, IsLoop
  <1>6. ASSUME NEW g, NEW h, g = Keeping(lines, g), h = Keeping(lines, h)
        PROVE  g = h
    <2>1. /\ g = [n \in 0..N |-> g[n]] /\ h = [n \in 0..N |-> h[n]]
          /\ \A n \in 0..N : /\ g[n] = IF n = 0 THEN b ELSE Keep(g[n - 1], lines[n])
                             /\ h[n] = IF n = 0 THEN b ELSE Keep(h[n - 1], lines[n])
      <3>1. ASSUME NEW f, f = Keeping(lines, f)
            PROVE  /\ f = [n \in 0..N |-> f[n]]
                   /\ \A n \in 0..N :
                        f[n] = IF n = 0 THEN b ELSE Keep(f[n - 1], lines[n])
        <4>1. \A n \in 0..N : Keeping(lines, f)[n] =
                 IF n = 0 THEN b ELSE Keep(f[n - 1], lines[n])
          BY DEF Keeping, N, b
        <4>2. Keeping(lines, f) = [n \in 0..N |-> Keeping(lines, f)[n]]
          BY DEF Keeping, N
        <4>. QED BY <3>1, <4>1, <4>2
      <3>. QED BY <1>6, <3>1
    <2>. DEFINE Same == { n \in 0..N : g[n] = h[n] }
    <2>2. 0 \in Same
      BY <1>1, <2>1
    <2>3. ASSUME NEW n \in 1..N, n - 1 \in Same
          PROVE  n \in Same
      <3>1. n \in 0..N /\ n # 0 /\ g[n - 1] = h[n - 1]
        BY <1>1, <2>3
      <3>. QED BY <2>1, <3>1
    <2>. HIDE DEF Same
    <2>4. 0..N \subseteq Same
      BY <1>1, <2>2, <2>3, InductionUpTo
    <2>5. \A n \in 0..N : g[n] = h[n]
      BY <2>4 DEF Same
    <2>. QED BY <2>1, <2>5
  <1>7. (CHOOSE h : h = Keeping(lines, h)) = kept
    BY <1>5, <1>6
  <1>8. Kept(lines) = (CHOOSE h : h = Keeping(lines, h))[N].lines
    BY DEF Kept, Keeping, N
  <1>. QED BY <1>4, <1>5, <1>7, <1>8 DEF N, S

-----------------------------------------------------------------------------
(* The n-th line and those before it end in a hook that is not complete.   *)
TornAt(lines, n) ==
    \E i \in 1..n : /\ lines[i] = "marker"
                    /\ \A j \in i..n : lines[j] # "del"

(* The lines that belong to no hook.                                       *)
OutsideUpTo(lines, n) ==
    { lines[i] : i \in { m \in 1..n :
        lines[m] # "marker" /\ ~TornAt(lines, m - 1) } }
Outside(lines) == OutsideUpTo(lines, Len(lines))

(* A hook begins with its marker and ends after its last line.             *)
LEMMA TornStep ==
  ASSUME NEW lines, NEW n \in Nat \ {0}
  PROVE  TornAt(lines, n) <=>
            lines[n] = "marker" \/ (TornAt(lines, n - 1) /\ lines[n] # "del")
  <1>1. ASSUME TornAt(lines, n), lines[n] # "marker"
        PROVE  TornAt(lines, n - 1) /\ lines[n] # "del"
    <2>1. PICK i \in 1..n : /\ lines[i] = "marker"
                            /\ \A j \in i..n : lines[j] # "del"
      BY <1>1 DEF TornAt
    <2>2. i \in 1..(n - 1) /\ n \in i..n /\ \A j \in i..(n - 1) : j \in i..n
      BY <1>1, <2>1
    <2>. QED BY <2>1, <2>2 DEF TornAt
  <1>2. ASSUME lines[n] = "marker"
        PROVE  TornAt(lines, n)
    <2>1. n \in 1..n /\ \A j \in n..n : lines[j] = "marker"
      BY <1>2
    <2>. QED BY <2>1 DEF TornAt
  <1>3. ASSUME TornAt(lines, n - 1), lines[n] # "del"
        PROVE  TornAt(lines, n)
    <2>1. PICK i \in 1..(n - 1) : /\ lines[i] = "marker"
                                  /\ \A j \in i..(n - 1) : lines[j] # "del"
      BY <1>3 DEF TornAt
    <2>2. i \in 1..n /\ \A j \in i..n : j \in i..(n - 1) \/ j = n
      OBVIOUS
    <2>. QED BY <1>3, <2>1, <2>2 DEF TornAt
  <1>. QED BY <1>1, <1>2, <1>3

(* What detach keeps: the lines that belong to no hook.                    *)
LEMMA KeptIsOutside ==
  ASSUME NEW lines, IsSequence(lines)
  PROVE  IsSequence(Kept(lines)) /\ Range(Kept(lines)) = Outside(lines)
  <1>. DEFINE N == Len(lines)
              S == Range(lines)
  <1>1. N \in Nat /\ \A i \in 1..N : lines[i] \in S
    BY SequenceLength DEF Range
  <1>2. PICK kept \in [0..N -> [skip : BOOLEAN, lines : Seq(S)]] :
           kept = Keeping(lines, kept) /\ Kept(lines) = kept[N].lines
    BY KeptLoop
  <1>. DEFINE Right(n) == /\ kept[n].skip = TornAt(lines, n)
                          /\ Range(kept[n].lines) = OutsideUpTo(lines, n)
              Good == { n \in 0..N : Right(n) }
  <1>3. 0 \in Good
    <2>1. kept[0] = [skip |-> FALSE, lines |-> <<>>]
      <3>1. 0 \in 0..N /\ Keeping(lines, kept)[0] = [skip |-> FALSE, lines |-> <<>>]
        BY <1>1 DEF Keeping
      <3>. QED BY <1>2, <3>1
    <2>2. 1..0 = {} /\ 0 \in 0..N
      BY <1>1
    <2>3. ~TornAt(lines, 0) /\ OutsideUpTo(lines, 0) = {}
      BY <2>2 DEF TornAt, OutsideUpTo
    <2>4. kept[0].skip = FALSE /\ kept[0].lines = <<>>
      BY <2>1
    <2>. QED BY <2>2, <2>3, <2>4, EmptySequence
  <1>4. ASSUME NEW n \in 1..N, n - 1 \in Good
        PROVE  n \in Good
    <2>. DEFINE x == kept[n - 1]
                y == kept[n]
    <2>1. /\ n \in 0..N /\ n # 0 /\ n \in Nat \ {0} /\ lines[n] \in S
          /\ x \in [skip : BOOLEAN, lines : Seq(S)]
      BY <1>1, <1>2
    <2>2. y = Keep(x, lines[n])
      <3>1. Keeping(lines, kept)[n] = Keep(x, lines[n])
        BY <2>1 DEF Keeping
      <3>. QED BY <1>2, <3>1
    <2>3. /\ x.skip = TornAt(lines, n - 1)
          /\ Range(x.lines) = OutsideUpTo(lines, n - 1)
      BY <1>4
    <2>. HIDE DEF x
    <2>4. /\ y.skip = (lines[n] = "marker" \/ (x.skip /\ lines[n] # "del"))
          /\ y.lines = IF lines[n] = "marker" \/ x.skip THEN x.lines
                       ELSE Append(x.lines, lines[n])
      BY <2>1, <2>2, KeepFields
    <2>. HIDE DEF y
    <2>5. y.skip = TornAt(lines, n)
      <3>1. TornAt(lines, n) \in BOOLEAN
        BY DEF TornAt
      <3>2. TornAt(lines, n) <=>
              (lines[n] = "marker" \/ (TornAt(lines, n - 1) /\ lines[n] # "del"))
        BY <2>1, TornStep
      <3>. QED BY <2>3, <2>4, <3>1, <3>2
    <2>6. OutsideUpTo(lines, n) = OutsideUpTo(lines, n - 1) \cup
             IF lines[n] # "marker" /\ ~TornAt(lines, n - 1) THEN {lines[n]} ELSE {}
      <3>1. 1..n = 1..(n - 1) \cup {n}
        BY <1>1
      <3>. QED BY <3>1 DEF OutsideUpTo
    <2>7. IsSequence(x.lines)
      BY <2>1, SequenceOf
    <2>8. Range(y.lines) = OutsideUpTo(lines, n)
      <3>1. CASE lines[n] = "marker" \/ x.skip
        BY <2>3, <2>4, <2>6, <3>1
      <3>2. CASE lines[n] # "marker" /\ ~x.skip
        BY <2>3, <2>4, <2>6, <2>7, <3>2, RangeAppend
      <3>. QED BY <3>1, <3>2
    <2>. QED BY <2>1, <2>5, <2>8 DEF y
  <1>5. N \in Good
    <2>. HIDE DEF Good
    <2>1. 0..N \subseteq Good
      BY <1>1, <1>3, <1>4, InductionUpTo
    <2>. QED BY <1>1, <2>1
  <1>6. Kept(lines) \in Seq(S)
    BY <1>1, <1>2
  <1>. QED BY <1>2, <1>5, <1>6, SequenceOf DEF Outside

-----------------------------------------------------------------------------
(* What can stand in a file, and a file where nothing of a hook stands     *)
(* outside one.                                                            *)
IsText(lines) ==
    /\ IsSequence(lines)
    /\ Range(lines) \subseteq UserLines \cup {"marker", "body", "del"}

WholeHooks(lines) ==
    \A i \in 1..Len(lines) :
        lines[i] \in {"body", "del"} => TornAt(lines, i - 1)

WellFormed(lines) == IsText(lines) /\ WholeHooks(lines)

(* The end of lines that are the same up to n.                             *)
LEMMA SameUpTo ==
  ASSUME NEW lines, NEW more, NEW n \in Nat,
         \A i \in 1..n : more[i] = lines[i]
  PROVE  /\ TornAt(more, n) = TornAt(lines, n)
         /\ OutsideUpTo(more, n) = OutsideUpTo(lines, n)
  <1>1. ASSUME NEW m \in 0..n
        PROVE  TornAt(more, m) <=> TornAt(lines, m)
    <2>1. \A i \in 1..m : more[i] = lines[i] /\ \A j \in i..m : more[j] = lines[j]
      OBVIOUS
    <2>. QED BY <2>1 DEF TornAt
  <1>2. TornAt(more, n) \in BOOLEAN /\ TornAt(lines, n) \in BOOLEAN /\ n \in 0..n
    BY DEF TornAt
  <1>3. \A m \in 1..n : m - 1 \in 0..n
    OBVIOUS
  <1>4. { m \in 1..n : more[m] # "marker" /\ ~TornAt(more, m - 1) }
          = { m \in 1..n : lines[m] # "marker" /\ ~TornAt(lines, m - 1) }
    BY <1>1, <1>3
  <1>. QED BY <1>1, <1>2, <1>4 DEF OutsideUpTo

(* Writing out a part of a text leaves one, of a well formed one too.      *)
LEMMA PartIsText ==
  ASSUME NEW lines, IsText(lines), NEW part \in Written(lines)
  PROVE  /\ IsText(part) /\ Range(part) \subseteq Range(lines)
         /\ WholeHooks(lines) => WholeHooks(part)
  <1>1. IsSequence(lines) /\ Len(lines) \in Nat
    BY SequenceLength DEF IsText
  <1>2. PICK n \in 0..Len(lines) : part = SubSeq(lines, 1, n)
    BY DEF Written
  <1>3. IsSequence(part) /\ Len(part) = n /\ \A i \in 1..n : part[i] = lines[i]
    <2>1. CASE n = 0
      <3>1. part = <<>> /\ 1..0 = {}
        BY <1>1, <1>2, <2>1, SubSeqEmpty
      <3>. QED BY <2>1, <3>1, EmptySequence
    <2>2. CASE n # 0
      <3>1. n \in 1..Len(lines)
        BY <1>1, <2>2
      <3>. QED BY <1>1, <1>2, <3>1, SequencePrefix
    <2>. QED BY <2>1, <2>2
  <1>4. /\ Range(part) = { part[i] : i \in 1..n }
        /\ Range(lines) = { lines[i] : i \in 1..Len(lines) }
    BY <1>1, <1>3, RangeOf
  <1>5. 1..n \subseteq 1..Len(lines) /\ n \in Nat
    BY <1>1
  <1>6. ASSUME WholeHooks(lines), NEW i \in 1..n, part[i] \in {"body", "del"}
        PROVE  TornAt(part, i - 1)
    <2>1. TornAt(lines, i - 1)
      BY <1>3, <1>5, <1>6 DEF WholeHooks
    <2>2. i - 1 \in Nat /\ \A j \in 1..(i - 1) : part[j] = lines[j]
      BY <1>3, <1>5
    <2>. QED BY <2>1, <2>2, SameUpTo
  <1>7. WholeHooks(lines) => WholeHooks(part)
    BY <1>3, <1>6 DEF WholeHooks
  <1>8. Range(part) \subseteq Range(lines)
    BY <1>3, <1>4, <1>5
  <1>. QED BY <1>3, <1>7, <1>8 DEF IsText

(* So is what is left of a text behind what was written over it.           *)
LEMMA RestIsText ==
  ASSUME NEW lines, IsText(lines), NEW k \in 1..(Len(lines) + 1)
  PROVE  IsText(SubSeq(lines, k, Len(lines)))
  <1>. DEFINE S == Range(lines)
              rest_ == SubSeq(lines, k, Len(lines))
  <1>1. lines \in Seq(S) /\ Len(lines) \in Nat
    BY SequenceLength DEF IsText, IsSequence
  <1>. HIDE DEF S
  <1>2. rest_ \in Seq(S)
    BY <1>1, SubSeqProperties
  <1>. HIDE DEF rest_
  <1>3. IsSequence(rest_)
    BY <1>2, SequenceOf
  <1>4. \A i \in 1..Len(rest_) : rest_[i] \in S
    BY <1>2
  <1>5. Range(rest_) \subseteq S
    BY <1>3, <1>4, RangeOf
  <1>. QED BY <1>3, <1>5 DEF IsText, S, rest_

-----------------------------------------------------------------------------
(* Lines behind those of a file, as attach and users add them.             *)
LEMMA JoinedIsText ==
  ASSUME NEW lines, IsText(lines), NEW more, IsText(more)
  PROVE  /\ IsText(lines \o more)
         /\ WholeHooks(lines) /\ WholeHooks(more) => WholeHooks(lines \o more)
         /\ Outside(lines) \subseteq Outside(lines \o more)
         /\ ~TornAt(lines, Len(lines)) => Outside(more) \subseteq Outside(lines \o more)
  <1>. DEFINE S == Range(lines) \cup Range(more)
              n == Len(lines)
              k == Len(more)
              all == lines \o more
  <1>1. /\ lines \in Seq(S) /\ more \in Seq(S)
        /\ n \in Nat /\ k \in Nat
    BY SequenceLength, SeqMonotonic DEF IsText, IsSequence
  <1>. HIDE DEF S
  <1>2. /\ IsSequence(all) /\ Len(all) = n + k
        /\ \A i \in 1..n : all[i] = lines[i]
        /\ \A i \in 1..k : all[n + i] = more[i]
    <2>1. /\ all \in Seq(S) /\ Len(all) = n + k
          /\ \A i \in 1..(n + k) : all[i] = IF i <= n THEN lines[i] ELSE more[i - n]
      BY <1>1, ConcatProperties
    <2>2. ASSUME NEW i \in 1..k
          PROVE  all[n + i] = more[i]
      <3>1. n + i \in 1..(n + k) /\ ~(n + i <= n) /\ n + i - n = i
        BY <1>1
      <3>. QED BY <2>1, <3>1
    <2>3. \A i \in 1..n : i \in 1..(n + k) /\ i <= n
      BY <1>1
    <2>. HIDE DEF all
    <2>4. IsSequence(all) /\ \A i \in 1..n : all[i] = lines[i]
      BY <2>1, <2>3, SequenceOf
    <2>. QED BY <2>1, <2>2, <2>4
  <1>. HIDE DEF n, k, all
  <1>3. \A i \in 1..(n + k) : i \in 1..n \/ \E j \in 1..k : i = n + j
    <2>1. ASSUME NEW i \in 1..(n + k), i \notin 1..n
          PROVE  i - n \in 1..k /\ i = n + (i - n)
      BY <1>1, <2>1
    <2>. QED BY <2>1
  <1>4. ASSUME NEW i \in 0..k, TornAt(more, i)
        PROVE  TornAt(all, n + i)
    <2>1. PICK h \in 1..i : more[h] = "marker" /\ \A j \in h..i : more[j] # "del"
      BY <1>4 DEF TornAt
    <2>2. n + h \in 1..(n + i) /\ all[n + h] = "marker"
      BY <1>1, <1>2, <2>1
    <2>3. ASSUME NEW j \in (n + h)..(n + i)
          PROVE  all[j] # "del"
      <3>1. j - n \in h..i /\ j - n \in 1..k /\ j = n + (j - n)
        BY <1>1
      <3>. QED BY <1>2, <2>1, <3>1
    <2>. QED BY <2>2, <2>3 DEF TornAt
  <1>5. IsText(all)
    <2>1. Range(all) = { all[i] : i \in 1..(n + k) }
      BY <1>2, RangeOf
    <2>2. /\ \A i \in 1..n : lines[i] \in Range(lines)
          /\ \A i \in 1..k : more[i] \in Range(more)
      BY SequenceLength DEF IsText, Range, n, k
    <2>. QED BY <1>2, <1>3, <2>1, <2>2 DEF IsText
  <1>8. ASSUME WholeHooks(lines), WholeHooks(more)
        PROVE  WholeHooks(all)
    <2>1. ASSUME NEW i \in 1..n, all[i] \in {"body", "del"}
          PROVE  TornAt(all, i - 1)
      <3>1. TornAt(lines, i - 1)
        BY <1>2, <1>8, <2>1 DEF WholeHooks, n
      <3>2. i - 1 \in Nat /\ \A j \in 1..(i - 1) : all[j] = lines[j]
        BY <1>1, <1>2
      <3>. QED BY <3>1, <3>2, SameUpTo
    <2>2. ASSUME NEW j \in 1..k, all[n + j] \in {"body", "del"}
          PROVE  TornAt(all, n + j - 1)
      <3>1. TornAt(more, j - 1)
        BY <1>2, <1>8, <2>2 DEF WholeHooks, k
      <3>2. j - 1 \in 0..k /\ n + j - 1 = n + (j - 1)
        BY <1>1
      <3>. QED BY <1>4, <3>1, <3>2
    <2>3. ASSUME NEW i \in 1..(n + k), all[i] \in {"body", "del"}
          PROVE  TornAt(all, i - 1)
      <3>1. CASE i \in 1..n
        BY <2>1, <2>3, <3>1
      <3>2. CASE i \notin 1..n
        <4>1. PICK j \in 1..k : i = n + j
          BY <1>3, <3>2
        <4>2. i - 1 = n + j - 1
          BY <1>1, <4>1
        <4>. QED BY <2>2, <2>3, <4>1, <4>2
      <3>. QED BY <3>1, <3>2
    <2>. QED BY <1>2, <2>3 DEF WholeHooks
  <1>6. Outside(lines) \subseteq Outside(all)
    <2>1. OutsideUpTo(all, n) = Outside(lines)
      BY <1>1, <1>2, SameUpTo DEF Outside, n
    <2>2. 1..n \subseteq 1..(n + k)
      BY <1>1
    <2>3. OutsideUpTo(all, n) \subseteq OutsideUpTo(all, n + k)
      BY <2>2 DEF OutsideUpTo
    <2>. QED BY <1>2, <2>1, <2>3 DEF Outside
  <1>7. ASSUME ~TornAt(lines, n)
        PROVE  Outside(more) \subseteq Outside(all)
    <2>0. ~TornAt(all, n)
      BY <1>1, <1>2, <1>7, SameUpTo
    <2>1. ASSUME NEW i \in 0..k, TornAt(all, n + i)
          PROVE  TornAt(more, i)
      <3>1. PICK h \in 1..(n + i) : all[h] = "marker" /\ \A j \in h..(n + i) : all[j] # "del"
        BY <2>1 DEF TornAt
      <3>2. h \notin 1..n
        <4>1. n \in h..(n + i) \/ n < h
          BY <1>1
        <4>2. h \in 1..n => \A j \in h..n : j \in h..(n + i)
          BY <1>1
        <4>. QED BY <2>0, <3>1, <4>2 DEF TornAt
      <3>3. h - n \in 1..i /\ h = n + (h - n) /\ h - n \in 1..k
        BY <1>1, <3>2
      <3>4. ASSUME NEW j \in (h - n)..i
            PROVE  more[j] # "del"
        <4>1. n + j \in h..(n + i) /\ j \in 1..k
          BY <1>1, <3>3
        <4>. QED BY <1>2, <3>1, <4>1
      <3>5. more[h - n] = "marker"
        BY <1>2, <3>1, <3>3
      <3>. QED BY <3>3, <3>4, <3>5 DEF TornAt
    <2>2. ASSUME NEW i \in 1..k, more[i] # "marker", ~TornAt(more, i - 1)
          PROVE  more[i] \in Outside(all)
      <3>1. n + i \in 1..(n + k) /\ i - 1 \in 0..k /\ n + i - 1 = n + (i - 1)
        BY <1>1
      <3>2. all[n + i] = more[i] /\ ~TornAt(all, n + i - 1)
        BY <1>2, <2>1, <2>2, <3>1
      <3>. DEFINE m == n + i
      <3>3. m \in 1..(n + k) /\ all[m] = more[i] /\ all[m] # "marker"
        BY <2>2, <3>1, <3>2
      <3>4. ~TornAt(all, m - 1)
        BY <1>1, <3>1, <3>2
      <3>. HIDE DEF m
      <3>. QED BY <1>2, <3>3, <3>4 DEF Outside, OutsideUpTo
    <2>. QED BY <2>2 DEF Outside, OutsideUpTo, k
  <1>. QED BY <1>5, <1>6, <1>7, <1>8 DEF all, n

(* Where there is no marker there is no hook, and detach keeps everything. *)
LEMMA AllIsOutside ==
  ASSUME NEW lines, IsSequence(lines), "marker" \notin Range(lines)
  PROVE  Outside(lines) = Range(lines)
  <1>1. Range(lines) = { lines[i] : i \in 1..Len(lines) } /\ Len(lines) \in Nat
    BY RangeOf, SequenceLength
  <1>2. \A i \in 1..Len(lines) : lines[i] # "marker"
    BY <1>1
  <1>3. \A i \in 1..Len(lines) : ~TornAt(lines, i - 1)
    <2>1. \A i \in 1..Len(lines) : 1..(i - 1) \subseteq 1..Len(lines)
      BY <1>1
    <2>. QED BY <1>2, <2>1 DEF TornAt
  <1>4. { m \in 1..Len(lines) : lines[m] # "marker" /\ ~TornAt(lines, m - 1) }
           = 1..Len(lines)
    BY <1>2, <1>3
  <1>. QED BY <1>1, <1>4 DEF Outside, OutsideUpTo

(* What detach keeps of a text: a text without a marker, and lines of      *)
(* users alone where nothing of a hook stands outside one.                 *)
LEMMA KeptIsText ==
  ASSUME NEW lines, IsText(lines)
  PROVE  /\ IsText(Kept(lines)) /\ Range(Kept(lines)) = Outside(lines)
         /\ "marker" \notin Range(Kept(lines))
         /\ WholeHooks(lines) => WholeHooks(Kept(lines))
  <1>1. IsSequence(Kept(lines)) /\ Range(Kept(lines)) = Outside(lines)
    BY KeptIsOutside DEF IsText
  <1>2. \A i \in 1..Len(lines) : lines[i] \in Range(lines)
    BY SequenceLength DEF IsText, Range
  <1>3. Outside(lines) \subseteq Range(lines) \ {"marker"}
    BY <1>2 DEF Outside, OutsideUpTo
  <1>4. IsText(Kept(lines)) /\ "marker" \notin Range(Kept(lines))
    BY <1>1, <1>3 DEF IsText
  <1>5. ASSUME WholeHooks(lines)
        PROVE  WholeHooks(Kept(lines))
    <2>1. Range(Kept(lines)) \cap {"body", "del"} = {}
      BY <1>1, <1>5 DEF WholeHooks, Outside, OutsideUpTo
    <2>2. \A i \in 1..Len(Kept(lines)) : Kept(lines)[i] \in Range(Kept(lines))
      BY <1>1, SequenceLength DEF Range
    <2>. QED BY <2>1, <2>2 DEF WholeHooks
  <1>. QED BY <1>1, <1>4, <1>5

(* The hook, a line and no line at all are well formed.                    *)
LEMMA HookIsWellFormed == WellFormed(Hook)
  <1>1. /\ Hook \in Seq({"marker", "body", "del"}) /\ Len(Hook) = 3
        /\ Hook[1] = "marker" /\ Hook[2] = "body" /\ Hook[3] = "del"
    BY DEF Hook
  <1>2. IsSequence(Hook) /\ Range(Hook) \subseteq {"marker", "body", "del"}
    BY <1>1, SequenceOf, RangeOf
  <1>3. TornAt(Hook, 1) /\ TornAt(Hook, 2)
    <2>1. /\ 1 \in 1..1 /\ 1 \in 1..2
          /\ \A j \in 1..1 : j = 1
          /\ \A j \in 1..2 : j = 1 \/ j = 2
      OBVIOUS
    <2>. QED BY <1>1, <2>1 DEF TornAt
  <1>4. \A i \in 1..3 : i = 1 \/ i = 2 \/ i = 3
    OBVIOUS
  <1>5. ASSUME NEW i \in 1..3, Hook[i] \in {"body", "del"}
        PROVE  TornAt(Hook, i - 1)
    <2>1. i # 1
      BY <1>1, <1>5
    <2>. QED BY <1>3, <1>4, <2>1
  <1>. QED BY <1>1, <1>2, <1>5 DEF WellFormed, IsText, WholeHooks

(* No lines at all are well formed, and so is one of a user.               *)
LEMMA FewLinesAreWellFormed ==
  /\ WellFormed(<<>>)
  /\ ~TornAt(<<>>, Len(<<>>)) /\ Outside(<<>>) = {}
  /\ \A line \in UserLines : /\ WellFormed(<<line>>)
                               /\ Outside(<<line>>) = {line}
  <1>1. WellFormed(<<>>) /\ ~TornAt(<<>>, Len(<<>>)) /\ Outside(<<>>) = {}
    <2>1. 1..0 = {}
      OBVIOUS
    <2>. QED BY <2>1, EmptySequence
         DEF WellFormed, IsText, WholeHooks, TornAt, Outside, OutsideUpTo
  <1>2. ASSUME NEW line \in UserLines
        PROVE  WellFormed(<<line>>) /\ Outside(<<line>>) = {line}
    <2>. DEFINE s == <<line>>
    <2>1. s \in Seq({line}) /\ Len(s) = 1 /\ s[1] = line
      OBVIOUS
    <2>. HIDE DEF s
    <2>2. IsSequence(s)
      BY <2>1, SequenceOf
    <2>3. Range(s) = { s[i] : i \in 1..1 } /\ \A i \in 1..1 : i = 1
      BY <2>1, <2>2, RangeOf
    <2>4. Range(s) = {line} /\ line \notin {"marker", "body", "del"}
      <3>1. 1 \in 1..1 /\ \A e : e \in Range(s) <=> \E i \in 1..1 : e = s[i]
        BY <2>3
      <3>2. \A e : e \in Range(s) <=> e = line
        BY <2>1, <2>3, <3>1
      <3>3. line \notin {"marker", "body", "del"}
        BY SiteAssumption
      <3>. QED BY <3>2, <3>3
    <2>5. Outside(s) = {line}
      BY <2>2, <2>4, AllIsOutside
    <2>. QED BY <2>1, <2>2, <2>3, <2>4, <2>5
         DEF WellFormed, IsText, WholeHooks, s
  <1>. QED BY <1>1, <1>2

(* No file is not a file.                                                  *)
LEMMA NoFileIsNone ==
  ASSUME NEW lines, IsText(lines)
  PROVE  lines # NoFile
  <1>1. \A line : Len(<<line>>) = 1 /\ <<line>>[1] = line
    OBVIOUS
  <1>2. Len(NoFile) = 1 /\ NoFile[1] = "no file"
    BY <1>1 DEF NoFile
  <1>3. ASSUME Len(lines) = 1
        PROVE  lines[1] \in UserLines \cup {"marker", "body", "del"}
    BY <1>3, RangeOf DEF IsText
  <1>. QED BY <1>2, <1>3, SiteAssumption

(* The file as the property names it.                                      *)
LEMMA TornIsTornAt ==
  ASSUME NEW lines, IsSequence(lines)
  PROVE  /\ Torn(lines) <=> TornAt(lines, Len(lines))
         /\ \A n \in 0..Len(lines) : Torn(SubSeq(lines, 1, n)) <=> TornAt(lines, n)
  <1>1. ASSUME NEW s, IsSequence(s)
        PROVE  Torn(s) <=> TornAt(s, Len(s))
    BY <1>1, SequenceLength DEF Torn, TornAt
  <1>2. ASSUME NEW n \in 0..Len(lines)
        PROVE  Torn(SubSeq(lines, 1, n)) <=> TornAt(lines, n)
    <2>. DEFINE part == SubSeq(lines, 1, n)
    <2>1. CASE n = 0
      <3>1. part = <<>> /\ 1..0 = {}
        BY <2>1, SubSeqEmpty, SequenceLength DEF IsSequence
      <3>2. ~Torn(<<>>) /\ ~TornAt(lines, 0)
        BY <3>1, EmptySequence DEF Torn, TornAt
      <3>. QED BY <2>1, <3>1, <3>2
    <2>2. CASE n # 0
      <3>1. n \in 1..Len(lines) /\ n \in Nat
        BY <2>2, SequenceLength
      <3>2. /\ IsSequence(part) /\ Len(part) = n
            /\ \A i \in 1..n : part[i] = lines[i]
        BY <3>1, SequencePrefix
      <3>. HIDE DEF part
      <3>3. TornAt(part, n) = TornAt(lines, n)
        BY <3>1, <3>2, SameUpTo
      <3>4. Torn(part) <=> TornAt(lines, n)
        BY <1>1, <3>2, <3>3
      <3>. QED BY <3>4 DEF part
    <2>. QED BY <2>1, <2>2
  <1>. QED BY <1>1, <1>2

-----------------------------------------------------------------------------
(* Detach would keep every line of the user's that is not given up.        *)
Safe(lines) == written \ exposed \subseteq Outside(lines)

(* A command that has emptied the file and has yet to write it.            *)
Emptied(c, does) == command[c].does = does /\ command[c].at = "emptied"

(* A command holds nothing that could not stand in the file, writes a new  *)
(* one only where there was nothing to lose, and a detach has yet to write *)
(* back all that must survive, before it empties the file and after.       *)
CommandOK(c) ==
    /\ IsText(content[c])
    /\ overlapped \/ WholeHooks(content[c])
    /\ \/ command[c].at = "create"
       \/ command[c].at = "emptied" /\ command[c].does # "detach"
       => written \subseteq exposed
    /\ command[c].does = "detach" /\ command[c].at \in {"write", "emptied"}
       => Safe(content[c])

(* What must survive stands in the file, or in the hand of a detach that   *)
(* has emptied it.                                                         *)
FileOK ==
    IF file = NoFile
    THEN /\ written \subseteq exposed
         /\ \A c \in Commands : command[c].at # "emptied"
    ELSE /\ IsText(file)
         /\ overlapped \/ WholeHooks(file)
         /\ Safe(file) \/ \E c \in Commands : Emptied(c, "detach")

StepNames ==
    {"look", "read", "create", "write", "emptied", "removed", "done"}
Steps == [does : {"nothing", "attach", "detach"}, at : StepNames]

(* The inductive invariant of the file and the commands.                   *)
SiteInvariant ==
    /\ command \in [Commands -> Steps]
    /\ content = [c \in Commands |-> content[c]]
    /\ written \subseteq UserLines
    /\ overlapped \in BOOLEAN
    /\ FileOK
    /\ \A c \in Commands : CommandOK(c)

(* What a command does and how far it is, field by field.                  *)
LEMMA DoingFields ==
  ASSUME command \in [Commands -> Steps], NEW c \in Commands, NEW does, NEW at
  PROVE  Doing(c, does, at) <=> command[c].does = does /\ command[c].at = at
  BY DEF Doing, Steps

(* It holds at first.                                                      *)
LEMMA InitSite == SiteInit => SiteInvariant
  <1>. SUFFICES ASSUME SiteInit PROVE SiteInvariant
    OBVIOUS
  <1>1. IsText(<<>>) /\ WholeHooks(<<>>)
    BY FewLinesAreWellFormed DEF WellFormed
  <1>2. Idle \in Steps /\ Idle.at = "done"
    BY DEF Idle, Steps, StepNames
  <1>3. ASSUME NEW c \in Commands
        PROVE  CommandOK(c) /\ command[c].at # "emptied"
    <2>1. content[c] = <<>> /\ command[c] = Idle
      BY DEF SiteInit
    <2>. QED BY <1>1, <1>2, <2>1 DEF CommandOK
  <1>. QED BY <1>2, <1>3 DEF SiteInit, SiteInvariant, FileOK

(* A command goes one step further.                                        *)
LEMMA ProceedFields ==
  ASSUME command \in [Commands -> Steps], NEW c \in Commands,
         NEW at \in StepNames, Proceed(c, at)
  PROVE  /\ command' \in [Commands -> Steps]
         /\ command'[c].at = at /\ command'[c].does = command[c].does
         /\ \A d \in Commands \ {c} : command'[d] = command[d]
  <1>. DEFINE e == [command[c] EXCEPT !.at = at]
  <1>1. e \in Steps /\ e.at = at /\ e.does = command[c].does
    BY DEF Steps
  <1>2. command' = [command EXCEPT ![c] = e]
    BY DEF Proceed
  <1>. HIDE DEF e
  <1>. QED BY <1>1, <1>2

(* What the other commands hold stays good while no line is added to those *)
(* that must survive, also when the file is removed from under them.       *)
LEMMA OthersStayOK ==
  ASSUME NEW c, CommandOK(c), content'[c] = content[c],
         command'[c] = command[c] \/ command'[c].at = "removed",
         overlapped \in BOOLEAN, overlapped' \in BOOLEAN, overlapped => overlapped',
         written' \ exposed' \subseteq written \ exposed
  PROVE  CommandOK(c)'
  <1>1. written \subseteq exposed => written' \subseteq exposed'
    OBVIOUS
  <1>2. Safe(content[c]) => Safe(content[c])'
    BY DEF Safe
  <1>3. IsText(content'[c]) /\ (overlapped' \/ WholeHooks(content'[c]))
    BY DEF CommandOK
  <1>. QED BY <1>1, <1>2, <1>3 DEF CommandOK

(* A step of a command.                                                    *)
LEMMA CommandStep ==
  ASSUME SiteInvariant, NEW c \in Commands,
         NEW at \in StepNames, Proceed(c, at),
         UNCHANGED written, written' \ exposed' \subseteq written \ exposed,
         overlapped' \in BOOLEAN, overlapped => overlapped',
         content' = [d \in Commands |-> content'[d]],
         \A d \in Commands \ {c} : content'[d] = content[d],
         FileOK', CommandOK(c)'
  PROVE  SiteInvariant'
  <1>1. /\ command' \in [Commands -> Steps]
        /\ \A d \in Commands \ {c} : command'[d] = command[d]
    BY ProceedFields DEF SiteInvariant
  <1>2. ASSUME NEW d \in Commands \ {c}
        PROVE  CommandOK(d)'
    BY <1>1, OthersStayOK DEF SiteInvariant
  <1>. QED BY <1>1, <1>2 DEF SiteInvariant

(* A step that leaves the file alone and is not about emptying it.         *)
LEMMA FileStaysOK ==
  ASSUME FileOK, NEW c \in Commands,
         command[c].at # "emptied", command'[c].at # "emptied",
         \A d \in Commands \ {c} : command'[d] = command[d],
         UNCHANGED <<file, overlapped>>,
         written' \ exposed' \subseteq written \ exposed
  PROVE  FileOK'
  <1>1. \A d \in Commands : command'[d].at = "emptied" => command[d].at = "emptied"
    OBVIOUS
  <1>2. ASSUME NEW d \in Commands, Emptied(d, "detach")
        PROVE  Emptied(d, "detach")'
    BY <1>2 DEF Emptied
  <1>3. CASE file = NoFile
    BY <1>1, <1>3 DEF FileOK
  <1>4. CASE file # NoFile
    <2>1. Safe(file) => Safe(file)'
      BY DEF Safe
    <2>2. IsText(file') /\ (overlapped' \/ WholeHooks(file'))
      BY <1>4 DEF FileOK
    <2>3. Safe(file)' \/ \E d \in Commands : Emptied(d, "detach")'
      BY <1>2, <1>4, <2>1 DEF FileOK
    <2>. QED BY <1>4, <2>2, <2>3 DEF FileOK
  <1>. QED BY <1>3, <1>4

(* The last step of a command.                                             *)
LEMMA EndsKeeps ==
  ASSUME SiteInvariant, NEW c \in Commands, Proceed(c, "done"),
         UNCHANGED <<content, written>>,
         overlapped' \in BOOLEAN, overlapped => overlapped',
         written' \ exposed' \subseteq written \ exposed, FileOK'
  PROVE  SiteInvariant'
  <1>1. command'[c].at = "done" /\ "done" \in StepNames
    BY ProceedFields DEF SiteInvariant, StepNames
  <1>2. /\ content' = [d \in Commands |-> content'[d]]
        /\ \A d \in Commands \ {c} : content'[d] = content[d]
    BY DEF SiteInvariant
  <1>3. IsText(content'[c]) /\ (overlapped' \/ WholeHooks(content'[c]))
    BY DEF SiteInvariant, CommandOK
  <1>4. CommandOK(c)'
    BY <1>1, <1>3 DEF CommandOK
  <1>. QED BY <1>1, <1>2, <1>4, CommandStep

-----------------------------------------------------------------------------
(* A command is started.                                                   *)
LEMMA InvokeKeeps ==
  ASSUME SiteInvariant, NEW c \in Commands, NEW does \in {"attach", "detach"},
         Invoke(c, does)
  PROVE  SiteInvariant'
  <1>. DEFINE e == [does |-> does, at |-> "look"]
  <1>1. e \in Steps /\ e.at = "look"
    BY DEF Steps, StepNames
  <1>2. /\ command' = [command EXCEPT ![c] = e] /\ command[c].at = "done"
        /\ UNCHANGED <<file, content, written, exposed, overlapped>>
    BY DEF Invoke, siteHistory, Idle
  <1>. HIDE DEF e
  <1>3. /\ command' \in [Commands -> Steps] /\ command'[c] = e
        /\ \A d \in Commands \ {c} : command'[d] = command[d]
    BY <1>1, <1>2 DEF SiteInvariant
  <1>4. ASSUME NEW d \in Commands \ {c}
        PROVE  CommandOK(d)'
    BY <1>2, <1>3, OthersStayOK DEF SiteInvariant
  <1>5. CommandOK(c)'
    BY <1>1, <1>2, <1>3 DEF SiteInvariant, CommandOK
  <1>6. FileOK'
    BY <1>1, <1>2, <1>3, FileStaysOK DEF SiteInvariant
  <1>. QED BY <1>2, <1>3, <1>4, <1>5, <1>6 DEF SiteInvariant

(* It looks for the file.                                                  *)
LEMMA LookKeeps ==
  ASSUME SiteInvariant, NEW c \in Commands, Look(c)
  PROVE  SiteInvariant'
  <1>. DEFINE at == IF file # NoFile THEN "read"
                    ELSE IF command[c].does = "attach" THEN "create" ELSE "done"
  <1>1. /\ Proceed(c, at) /\ command[c].at = "look"
        /\ UNCHANGED <<file, content, written, exposed, overlapped>>
    BY DEF Look, siteHistory
  <1>2. at \in StepNames /\ at \notin {"write", "emptied"}
    BY DEF StepNames
  <1>3. at = "create" => written \subseteq exposed
    BY DEF SiteInvariant, FileOK
  <1>. HIDE DEF at
  <1>4. /\ command'[c].at = at
        /\ \A d \in Commands \ {c} : command'[d] = command[d]
    BY <1>1, <1>2, ProceedFields DEF SiteInvariant
  <1>5. IsText(content'[c]) /\ (overlapped' \/ WholeHooks(content'[c]))
    BY <1>1 DEF SiteInvariant, CommandOK
  <1>6. CommandOK(c)'
    BY <1>1, <1>2, <1>3, <1>4, <1>5 DEF CommandOK
  <1>7. FileOK'
    BY <1>1, <1>2, <1>4, FileStaysOK DEF SiteInvariant
  <1>8. content' = [d \in Commands |-> content'[d]]
    BY <1>1 DEF SiteInvariant
  <1>. QED BY <1>1, <1>2, <1>6, <1>7, <1>8, CommandStep DEF SiteInvariant

(* What a detach that has emptied the file has in hand.                    *)
LEMMA InHandOfDetach ==
  ASSUME SiteInvariant, NEW c \in Commands, Emptied(c, "detach")
  PROVE  written \ exposed \subseteq Range(InHand(c))
  <1>1. IsText(content[c]) /\ Safe(content[c])
    BY DEF SiteInvariant, CommandOK, Emptied
  <1>2. InHand(c) = Kept(content[c])
    BY DEF InHand, Emptied
  <1>3. PICK lines : lines = content[c]
    OBVIOUS
  <1>4. Range(Kept(lines)) = Outside(lines)
    BY <1>1, <1>3, KeptIsText
  <1>. QED BY <1>1, <1>2, <1>3, <1>4 DEF Safe

(* It reads the file.                                                      *)
LEMMA ReadKeeps ==
  ASSUME SiteInvariant, NEW c \in Commands, Read(c)
  PROVE  SiteInvariant'
  <1>. DEFINE ends == file = NoFile \/ (HasMarker(file) <=> command[c].does = "attach")
              at == IF ends THEN "done" ELSE "write"
  <1>1. /\ command[c].at = "read" /\ Proceed(c, at)
        /\ UNCHANGED <<file, written, overlapped>>
        /\ written' \ exposed' \subseteq written \ exposed
        /\ ~ends /\ command[c].does = "detach" =>
              exposed' = exposed \cup (InHands \ Range(Kept(file)))
    BY DEF Read
  <1>2. at \in StepNames /\ at \notin {"create", "emptied"} /\ (at = "write" => ~ends)
    BY DEF StepNames
  <1>3. PICK lines : lines = IF file = NoFile THEN <<>> ELSE file
    OBVIOUS
  <1>4. IsText(lines) /\ (overlapped \/ WholeHooks(lines))
    BY <1>3, FewLinesAreWellFormed DEF WellFormed, SiteInvariant, FileOK
  <1>5. content' = [content EXCEPT ![c] = lines]
    BY <1>3 DEF Read
  <1>6. /\ content' = [d \in Commands |-> content'[d]]
        /\ content'[c] = lines
        /\ \A d \in Commands \ {c} : content'[d] = content[d]
    BY <1>5 DEF SiteInvariant
  <1>7. ASSUME ~ends, command[c].does = "detach"
        PROVE  written' \ exposed' \subseteq Outside(lines)
    <2>1. file # NoFile /\ lines = file
      BY <1>3, <1>7
    <2>2. Range(Kept(lines)) = Outside(lines)
      BY <1>4, KeptIsText
    <2>3. CASE Safe(file)
      BY <1>1, <2>1, <2>3 DEF Safe
    <2>4. CASE \E d \in Commands : Emptied(d, "detach")
      <3>1. PICK d \in Commands : Emptied(d, "detach")
        BY <2>4
      <3>2. written \ exposed \subseteq Range(InHand(d))
        BY <3>1, InHandOfDetach
      <3>3. Doing(d, "detach", "emptied")
        BY <3>1, DoingFields DEF Emptied, SiteInvariant
      <3>4. Range(InHand(d)) \subseteq InHands
        BY <3>3 DEF InHands
      <3>. HIDE DEF ends
      <3>. QED BY <1>1, <1>7, <2>1, <2>2, <3>2, <3>4
    <2>. QED BY <2>1, <2>3, <2>4 DEF SiteInvariant, FileOK
  <1>. HIDE DEF at, ends
  <1>8. /\ command'[c].at = at /\ command'[c].does = command[c].does
        /\ \A d \in Commands \ {c} : command'[d] = command[d]
    BY <1>1, <1>2, ProceedFields DEF SiteInvariant
  <1>9. CommandOK(c)'
    <2>1. at = "write" /\ command'[c].does = "detach" => Safe(content[c])'
      BY <1>2, <1>6, <1>7, <1>8 DEF Safe
    <2>. QED BY <1>1, <1>2, <1>4, <1>6, <1>8, <2>1 DEF CommandOK
  <1>10. FileOK'
    BY <1>1, <1>2, <1>8, FileStaysOK DEF SiteInvariant
  <1>. QED BY <1>1, <1>2, <1>6, <1>9, <1>10, CommandStep DEF SiteInvariant

(* It empties the file: all that must survive is in the hand of a detach.  *)
LEMMA EmptyFileKeeps ==
  ASSUME SiteInvariant, NEW c \in Commands, EmptyFile(c)
  PROVE  SiteInvariant'
  <1>1. /\ file' = <<>> /\ Proceed(c, "emptied") /\ "emptied" \in StepNames
        /\ UNCHANGED <<content, written, exposed, overlapped>>
    BY DEF EmptyFile, siteHistory, StepNames
  <1>2. \/ command[c].does = "attach" /\ command[c].at = "create"
        \/ command[c].does = "detach" /\ command[c].at = "write"
    BY DoingFields DEF EmptyFile, SiteInvariant
  <1>3. command'[c].at = "emptied" /\ command'[c].does = command[c].does
    BY <1>1, ProceedFields DEF SiteInvariant
  <1>4. CASE command[c].does = "attach"
    <2>1. written' \subseteq exposed' /\ written' \ exposed' = {}
      BY <1>1, <1>2, <1>4 DEF SiteInvariant, CommandOK
    <2>2. IsText(content'[c]) /\ (overlapped' \/ WholeHooks(content'[c]))
      BY <1>1 DEF SiteInvariant, CommandOK
    <2>3. CommandOK(c)'
      BY <1>3, <1>4, <2>1, <2>2 DEF CommandOK
    <2>4. Safe(file)'
      BY <2>1 DEF Safe
    <2>5. FileOK'
      BY <1>1, <2>4, FewLinesAreWellFormed, NoFileIsNone DEF FileOK, WellFormed
    <2>. QED BY <1>1, <2>3, <2>5, CommandStep DEF SiteInvariant
  <1>5. CASE command[c].does = "detach"
    <2>1. Safe(content[c])'
      BY <1>1, <1>2, <1>5 DEF SiteInvariant, CommandOK, Safe
    <2>2. IsText(content'[c]) /\ (overlapped' \/ WholeHooks(content'[c]))
      BY <1>1 DEF SiteInvariant, CommandOK
    <2>3. CommandOK(c)'
      BY <1>3, <1>5, <2>1, <2>2 DEF CommandOK
    <2>4. Emptied(c, "detach")'
      BY <1>3, <1>5 DEF Emptied
    <2>5. FileOK'
      BY <1>1, <2>4, FewLinesAreWellFormed, NoFileIsNone DEF FileOK, WellFormed
    <2>. QED BY <1>1, <2>3, <2>5, CommandStep DEF SiteInvariant
  <1>. QED BY <1>2, <1>4, <1>5

(* It writes what it has in hand, or as much as it can before it dies.     *)
LEMMA CloseFileKeeps ==
  ASSUME SiteInvariant, NEW c \in Commands, CloseFile(c)
  PROVE  SiteInvariant'
  <1>1. /\ command[c].at = "emptied" /\ Proceed(c, "done")
        /\ UNCHANGED <<content, written>>
        /\ overlapped' = (overlapped \/ file # <<>>)
    BY DEF CloseFile
  <1>2. PICK hand : hand = InHand(c)
    OBVIOUS
  <1>3. PICK lines \in Written(hand) :
           /\ file' \in IF lines = <<>> THEN {file} ELSE Over(lines, file)
           /\ exposed' = exposed \cup (Range(hand) \ Range(lines))
    BY <1>2 DEF CloseFile
  <1>4. /\ overlapped' \in BOOLEAN /\ (overlapped => overlapped')
        /\ (~overlapped' => ~overlapped /\ file = <<>>)
        /\ written' \ exposed' \subseteq written \ exposed
    BY <1>1, <1>3 DEF SiteInvariant
  <1>5. /\ IsText(file) /\ file # NoFile
        /\ overlapped \/ WholeHooks(file)
    BY <1>1 DEF SiteInvariant, FileOK
  <1>7. IsText(hand) /\ (overlapped \/ WholeHooks(hand))
    <2>1. PICK text : text = content[c]
      OBVIOUS
    <2>2. IsText(Kept(text)) /\ (overlapped \/ WholeHooks(Kept(text)))
      BY <2>1, KeptIsText DEF SiteInvariant, CommandOK
    <2>. QED BY <1>2, <2>1, <2>2, HookIsWellFormed DEF InHand, WellFormed
  <1>8. /\ IsText(lines) /\ Range(lines) \subseteq Range(hand)
        /\ (overlapped \/ WholeHooks(lines))
    BY <1>7, PartIsText
  <1>9. written' \ exposed' \subseteq Range(lines) /\
        (written' \ exposed' # {} => "marker" \notin Range(hand))
    <2>1. CASE command[c].does = "detach"
      <3>1. written \ exposed \subseteq Range(hand)
        BY <1>1, <1>2, <2>1, InHandOfDetach DEF Emptied
      <3>2. PICK text : text = content[c]
        OBVIOUS
      <3>3. "marker" \notin Range(hand)
        BY <1>2, <2>1, <3>2, KeptIsText DEF InHand, SiteInvariant, CommandOK
      <3>. QED BY <1>1, <1>3, <3>1, <3>3
    <2>2. CASE command[c].does # "detach"
      <3>1. written \subseteq exposed
        BY <1>1, <2>2 DEF SiteInvariant, CommandOK
      <3>. QED BY <1>4, <3>1
    <2>. QED BY <2>1, <2>2
  <1>10. FileOK'
    <2>1. CASE lines = <<>>
      <3>1. file' = file
        BY <1>3, <2>1
      <3>2. written' \ exposed' = {}
        BY <1>9, <2>1, EmptySequence
      <3>3. Safe(file)'
        BY <3>2 DEF Safe
      <3>4. overlapped' \/ WholeHooks(file')
        BY <1>4, <1>5, <3>1
      <3>. QED BY <1>5, <3>1, <3>3, <3>4 DEF FileOK
    <2>2. CASE lines # <<>>
      <3>0. PICK under : under = file
        OBVIOUS
      <3>1. PICK k \in 1..(Len(under) + 1) :
               file' = lines \o SubSeq(under, k, Len(under))
        BY <1>3, <2>2, <3>0 DEF Over
      <3>2. PICK tail : tail = SubSeq(under, k, Len(under))
        OBVIOUS
      <3>3. IsText(tail)
        BY <1>5, <3>0, <3>2, RestIsText
      <3>4. /\ IsText(lines \o tail)
            /\ WholeHooks(lines) /\ WholeHooks(tail) => WholeHooks(lines \o tail)
            /\ Outside(lines) \subseteq Outside(lines \o tail)
        BY <1>8, <3>3, JoinedIsText
      <3>5. overlapped' \/ WholeHooks(file')
        <4>1. under = <<>> => tail = <<>>
          <5>1. under = <<>> => Len(under) = 0 /\ k = 1
            BY EmptySequence
          <5>. QED BY <3>2, <5>1, SubSeqEmpty, EmptySequence
        <4>2. WholeHooks(<<>>)
          BY FewLinesAreWellFormed DEF WellFormed
        <4>. QED BY <1>4, <1>8, <3>0, <3>1, <3>2, <3>4, <4>1, <4>2
      <3>6. Safe(file)'
        <4>1. CASE written' \ exposed' = {}
          BY <4>1 DEF Safe
        <4>2. CASE written' \ exposed' # {}
          <5>1. "marker" \notin Range(lines)
            BY <1>8, <1>9, <4>2
          <5>2. Outside(lines) = Range(lines)
            BY <1>8, <5>1, AllIsOutside DEF IsText
          <5>. QED BY <1>9, <3>1, <3>2, <3>4, <5>2 DEF Safe
        <4>. QED BY <4>1, <4>2
      <3>7. file' # NoFile /\ IsText(file')
        BY <3>1, <3>2, <3>4, NoFileIsNone
      <3>. QED BY <3>5, <3>6, <3>7 DEF FileOK
    <2>. QED BY <2>1, <2>2
  <1>. QED BY <1>1, <1>4, <1>10, EndsKeeps

(* Its file was removed.                                                   *)
LEMMA CloseRemovedKeeps ==
  ASSUME SiteInvariant, NEW c \in Commands, CloseRemoved(c)
  PROVE  SiteInvariant'
  <1>1. /\ command[c].at = "removed" /\ Proceed(c, "done") /\ "done" \in StepNames
        /\ UNCHANGED <<file, content, written, exposed, overlapped>>
    BY DEF CloseRemoved, siteHistory, StepNames
  <1>2. /\ command'[c].at = "done"
        /\ \A d \in Commands \ {c} : command'[d] = command[d]
    BY <1>1, ProceedFields DEF SiteInvariant
  <1>3. FileOK'
    BY <1>1, <1>2, FileStaysOK DEF SiteInvariant
  <1>. QED BY <1>1, <1>3, EndsKeeps DEF SiteInvariant

(* Lines are added to the file, outside every hook or given up; a detach   *)
(* that has emptied the file still has the others in hand.                 *)
LEMMA AddedIsOK ==
  ASSUME SiteInvariant,
         NEW old, old = IF file = NoFile THEN <<>> ELSE file,
         NEW lines, WellFormed(lines), file' = old \o lines,
         UNCHANGED overlapped,
         written' \ exposed' \subseteq (written \ exposed) \cup Outside(file'),
         \A d \in Commands : Emptied(d, "detach") =>
            Emptied(d, "detach")' /\ written' \ exposed' \subseteq written \ exposed
  PROVE  FileOK'
  <1>1. IsText(old) /\ (overlapped \/ WholeHooks(old))
    BY FewLinesAreWellFormed DEF WellFormed, SiteInvariant, FileOK
  <1>2. /\ IsText(file') /\ (overlapped' \/ WholeHooks(file'))
        /\ Outside(old) \subseteq Outside(file')
    BY <1>1, JoinedIsText DEF WellFormed
  <1>3. file' # NoFile
    BY <1>2, NoFileIsNone
  <1>4. Safe(file)' \/ \E d \in Commands : Emptied(d, "detach")'
    <2>1. CASE written \ exposed \subseteq Outside(old)
      <3>1. written' \ exposed' \subseteq Outside(file')
        BY <1>2, <2>1
      <3>. QED BY <3>1 DEF Safe
    <2>2. CASE \E d \in Commands : Emptied(d, "detach")
      BY <2>2
    <2>3. file = NoFile => written \ exposed = {}
      BY DEF SiteInvariant, FileOK
    <2>. QED BY <2>1, <2>2, <2>3 DEF SiteInvariant, FileOK, Safe
  <1>. QED BY <1>2, <1>3, <1>4 DEF FileOK

(* attach adds its hook at the end.                                        *)
LEMMA AppendHookKeeps ==
  ASSUME SiteInvariant, NEW c \in Commands, AppendHook(c)
  PROVE  SiteInvariant'
  <1>1. PICK old : old = IF file = NoFile THEN <<>> ELSE file
    OBVIOUS
  <1>2. PICK lines \in Written(Hook) : file' = old \o lines
    BY <1>1 DEF AppendHook
  <1>3. /\ Proceed(c, "done") /\ "done" \in StepNames
        /\ UNCHANGED <<content, written, exposed, overlapped>>
    BY DEF AppendHook, siteHistory, StepNames
  <1>4. command[c].at = "write"
    BY DoingFields DEF AppendHook, SiteInvariant
  <1>5. WellFormed(lines)
    BY HookIsWellFormed, PartIsText DEF WellFormed
  <1>6. \A d \in Commands \ {c} : command'[d] = command[d]
    BY <1>3, ProceedFields DEF SiteInvariant
  <1>7. ASSUME NEW d \in Commands, Emptied(d, "detach")
        PROVE  Emptied(d, "detach")'
    BY <1>4, <1>6, <1>7 DEF Emptied
  <1>8. FileOK'
    BY <1>1, <1>2, <1>3, <1>5, <1>7, AddedIsOK
  <1>. QED BY <1>3, <1>8, EndsKeeps DEF SiteInvariant

(* detach removes a file of which it keeps nothing.                        *)
LEMMA UnlinkKeeps ==
  ASSUME SiteInvariant, NEW c \in Commands, Unlink(c)
  PROVE  SiteInvariant'
  <1>1. /\ Kept(content[c]) = <<>> /\ file' = NoFile
        /\ UNCHANGED <<content, written, exposed, overlapped>>
        /\ command' = [d \in Commands |->
              [command[d] EXCEPT !.at = IF d = c THEN "done"
                                        ELSE IF @ = "emptied" THEN "removed" ELSE @]]
    BY DEF Unlink, siteHistory
  <1>2. command[c].does = "detach" /\ command[c].at = "write"
    BY DoingFields DEF Unlink, SiteInvariant
  <1>3. written \subseteq exposed
    <2>1. PICK text : text = content[c]
      OBVIOUS
    <2>2. Outside(text) = {}
      BY <1>1, <2>1, KeptIsText, EmptySequence DEF SiteInvariant, CommandOK
    <2>3. written \ exposed \subseteq Outside(text)
      BY <1>2, <2>1 DEF SiteInvariant, CommandOK, Safe
    <2>. QED BY <2>2, <2>3
  <1>4. ASSUME NEW d \in Commands
        PROVE  /\ command'[d] \in Steps /\ command'[d].at # "emptied"
               /\ \/ command'[d] = command[d] \/ command'[d].at = "removed"
                  \/ d = c /\ command'[d].at = "done"
    <2>1. command[d] \in Steps
      BY DEF SiteInvariant
    <2>2. \A at \in StepNames :
             LET e == [command[d] EXCEPT !.at = at]
             IN  e \in Steps /\ e.at = at /\ (at = command[d].at => e = command[d])
      BY <2>1 DEF Steps
    <2>3. /\ "done" \in StepNames /\ "removed" \in StepNames
          /\ command[d].at \in StepNames
      BY <2>1 DEF Steps, StepNames
    <2>4. CASE d = c
      <3>1. command'[d] = [command[d] EXCEPT !.at = "done"]
        BY <1>1, <2>4
      <3>. QED BY <2>2, <2>3, <2>4, <3>1
    <2>5. CASE d # c /\ command[d].at = "emptied"
      <3>1. command'[d] = [command[d] EXCEPT !.at = "removed"]
        BY <1>1, <2>5
      <3>. QED BY <2>2, <2>3, <3>1
    <2>6. CASE d # c /\ command[d].at # "emptied"
      <3>1. command'[d] = [command[d] EXCEPT !.at = command[d].at]
        BY <1>1, <2>6
      <3>. QED BY <2>2, <2>3, <2>6, <3>1
    <2>. QED BY <2>4, <2>5, <2>6
  <1>5. command' \in [Commands -> Steps]
    BY <1>1, <1>4
  <1>6. ASSUME NEW d \in Commands
        PROVE  CommandOK(d)'
    <2>1. CASE command'[d] = command[d] \/ command'[d].at = "removed"
      BY <1>1, <2>1, OthersStayOK DEF SiteInvariant
    <2>2. CASE command'[d].at = "done"
      BY <1>1, <2>2 DEF SiteInvariant, CommandOK
    <2>. QED BY <1>4, <2>1, <2>2
  <1>7. FileOK'
    BY <1>1, <1>3, <1>4 DEF FileOK
  <1>. QED BY <1>1, <1>5, <1>6, <1>7 DEF SiteInvariant

(* A user adds a line: it must survive if it stands outside every hook and *)
(* no command is under way.                                                *)
LEMMA EditKeeps ==
  ASSUME SiteInvariant, NEW line \in UserLines, Edit(line)
  PROVE  SiteInvariant'
  <1>. DEFINE given == Busy # {} \/ (file # NoFile /\ Torn(file))
  <1>0. PICK old : old = IF file = NoFile THEN <<>> ELSE file
    OBVIOUS
  <1>1. /\ file' = Append(old, line) /\ written' = written \cup {line}
        /\ exposed' = IF given THEN exposed \cup {line} ELSE exposed
        /\ UNCHANGED <<command, content, overlapped>>
    BY <1>0 DEF Edit
  <1>2. IsText(old) /\ IsSequence(old)
    BY <1>0, FewLinesAreWellFormed DEF WellFormed, IsText, SiteInvariant, FileOK
  <1>3. ~given => ~TornAt(old, Len(old))
    <2>1. CASE file = NoFile
      BY <1>0, <2>1, FewLinesAreWellFormed
    <2>2. CASE file # NoFile
      BY <1>0, <1>2, <2>2, TornIsTornAt
    <2>. QED BY <2>1, <2>2
  <1>4. ~given => \A c \in Commands : command[c].at = "done"
    BY DEF Busy
  <1>. HIDE DEF given
  <1>5. PICK lines : lines = <<line>>
    OBVIOUS
  <1>6. file' = old \o lines
    BY <1>1, <1>2, <1>5, AppendIsConcat, SeqMonotonic DEF IsSequence
  <1>7. WellFormed(lines) /\ Outside(lines) = {line}
    BY <1>5, FewLinesAreWellFormed
  <1>8. ~given => line \in Outside(file')
    BY <1>2, <1>3, <1>6, <1>7, JoinedIsText DEF WellFormed
  <1>9. ASSUME NEW c \in Commands, Emptied(c, "detach")
        PROVE  /\ Emptied(c, "detach")' /\ given
               /\ written' \ exposed' \subseteq written \ exposed
    <2>1. given
      BY <1>4, <1>9 DEF Emptied
    <2>. QED BY <1>1, <1>9, <2>1 DEF Emptied
  <1>10. written' \ exposed' \subseteq (written \ exposed) \cup Outside(file')
    BY <1>1, <1>8
  <1>11. FileOK'
    BY <1>0, <1>1, <1>6, <1>7, <1>9, <1>10, AddedIsOK
  <1>12. ASSUME NEW c \in Commands
        PROVE  CommandOK(c)'
    <2>1. CASE given
      <3>1. written' \ exposed' \subseteq written \ exposed
        BY <1>1, <2>1
      <3>. QED BY <1>1, <3>1, OthersStayOK DEF SiteInvariant
    <2>2. CASE ~given
      BY <1>1, <1>4, <2>2 DEF SiteInvariant, CommandOK
    <2>. QED BY <2>1, <2>2
  <1>. QED BY <1>1, <1>11, <1>12 DEF SiteInvariant

(* Every step of attach, of detach and of a user (cli.py) keeps the        *)
(* invariant of the file, whichever of them are under way.                 *)
THEOREM NextSite == SiteInvariant /\ [SiteNext]_siteVars => SiteInvariant'
  <1>. SUFFICES ASSUME SiteInvariant, [SiteNext]_siteVars PROVE SiteInvariant'
    OBVIOUS
  <1>1. ASSUME NEW c \in Commands, NEW does \in {"attach", "detach"}, Invoke(c, does)
        PROVE  SiteInvariant'
    BY <1>1, InvokeKeeps
  <1>2. ASSUME NEW c \in Commands, Look(c) PROVE SiteInvariant'
    BY <1>2, LookKeeps
  <1>3. ASSUME NEW c \in Commands, Read(c) PROVE SiteInvariant'
    BY <1>3, ReadKeeps
  <1>4. ASSUME NEW c \in Commands, EmptyFile(c) PROVE SiteInvariant'
    BY <1>4, EmptyFileKeeps
  <1>5. ASSUME NEW c \in Commands, CloseFile(c) PROVE SiteInvariant'
    BY <1>5, CloseFileKeeps
  <1>6. ASSUME NEW c \in Commands, CloseRemoved(c) PROVE SiteInvariant'
    BY <1>6, CloseRemovedKeeps
  <1>7. ASSUME NEW c \in Commands, AppendHook(c) PROVE SiteInvariant'
    BY <1>7, AppendHookKeeps
  <1>8. ASSUME NEW c \in Commands, Unlink(c) PROVE SiteInvariant'
    BY <1>8, UnlinkKeeps
  <1>9. ASSUME NEW line \in UserLines, Edit(line) PROVE SiteInvariant'
    BY <1>9, EditKeeps
  <1>10. CASE UNCHANGED siteVars
    <2>1. UNCHANGED <<file, command, content, written, exposed, overlapped>>
      BY <1>10 DEF siteVars, siteHistory
    <2>2. \A c \in Commands : CommandOK(c)'
      BY <2>1, OthersStayOK DEF SiteInvariant
    <2>3. FileOK'
      BY <2>1 DEF SiteInvariant, FileOK, Safe, Emptied
    <2>. QED BY <2>1, <2>2, <2>3 DEF SiteInvariant
  <1>. QED BY <1>1, <1>2, <1>3, <1>4, <1>5, <1>6, <1>7, <1>8, <1>9, <1>10
       DEF SiteNext

(* attach and detach (cli.py) lose no line of the user's but those written *)
(* while a command was running or behind a torn hook, those a detach had   *)
(* yet to write back when it died, and those another detach had in hand    *)
(* when one read the file: however many commands there are, and although   *)
(* write_text empties the file before it writes it.                        *)
THEOREM UserLinesAreKept == SiteSpec => []UserLinesSurvive
  <1>1. SiteInvariant => UserLinesSurvive
    <2>. SUFFICES ASSUME SiteInvariant PROVE UserLinesSurvive
      OBVIOUS
    <2>1. CASE file = NoFile
      BY <2>1 DEF SiteInvariant, FileOK, UserLinesSurvive
    <2>2. CASE file # NoFile /\ Safe(file)
      <3>1. IsSequence(file)
        BY <2>2 DEF SiteInvariant, FileOK, IsText
      <3>2. Outside(file) \subseteq Range(file)
        BY <3>1, RangeOf DEF Outside, OutsideUpTo
      <3>. QED BY <2>2, <3>2 DEF Safe, UserLinesSurvive
    <2>3. CASE \E c \in Commands : Emptied(c, "detach")
      <3>1. PICK c \in Commands : Emptied(c, "detach")
        BY <2>3
      <3>2. written \ exposed \subseteq Range(InHand(c))
        BY <3>1, InHandOfDetach
      <3>3. Doing(c, "detach", "emptied")
        BY <3>1, DoingFields DEF Emptied, SiteInvariant
      <3>4. Range(InHand(c)) \subseteq InHands
        BY <3>3 DEF InHands
      <3>. QED BY <3>2, <3>4 DEF UserLinesSurvive
    <2>. QED BY <2>1, <2>2, <2>3 DEF SiteInvariant, FileOK
  <1>. QED BY <1>1, InitSite, NextSite, PTL DEF SiteSpec

(* Nothing of a hook stands in the file without its marker before it, so   *)
(* that the next detach finds all of it (cmd_detach), whichever commands   *)
(* run at once and die, unless one of them has written over what another   *)
(* had put into the file it had emptied (cli.py, write_text).              *)
THEOREM HooksStayWhole == SiteSpec => []HooksAreWhole
  <1>1. SiteInvariant => HooksAreWhole
    <2>. SUFFICES ASSUME SiteInvariant, file # NoFile, ~overlapped,
                         NEW i \in DOMAIN file, file[i] \in {"body", "del"}
                  PROVE  Torn(SubSeq(file, 1, i - 1))
      BY DEF HooksAreWhole
    <2>1. WholeHooks(file) /\ IsSequence(file)
      BY DEF SiteInvariant, FileOK, IsText
    <2>2. i \in 1..Len(file) /\ i - 1 \in 0..Len(file)
      BY <2>1, SequenceLength
    <2>3. TornAt(file, i - 1)
      BY <2>1, <2>2 DEF WholeHooks
    <2>. QED BY <2>1, <2>2, <2>3, TornIsTornAt
  <1>. QED BY <1>1, InitSite, NextSite, PTL DEF SiteSpec

-----------------------------------------------------------------------------
(* What the first k items say of a setting: the value of the last of them  *)
(* that names it.                                                          *)
Said(items, k, s) ==
    { items[i][2] : i \in { n \in 1..k :
        /\ Attribute(items[n][1]) = s
        /\ \A m \in (n + 1)..k : Attribute(items[m][1]) # s } }

(* The first k items are applied: none of them raises, and the rest is     *)
(* what follows them, or nothing behind an item that raises.               *)
Applied(items, k) ==
    /\ \A i \in 1..k : ~Raises(items[i][1])
    /\ IF rest = <<>> THEN k < Len(items) => Raises(items[k + 1][1])
       ELSE /\ Len(rest) = Len(items) - k
            /\ \A j \in 1..Len(rest) : rest[j] = items[k + j]
    /\ \A s \in Settings :
          {config[s]} = IF Said(items, k, s) # {} THEN Said(items, k, s)
                        ELSE {Defaults[s]}

(* The inductive invariant of load().                                      *)
ConfigInvariant ==
    /\ config = [s \in Settings |-> config[s]]
    /\ loading = "called" => config = Defaults
    /\ loading = "file" =>
          /\ \E n \in Nat : sources.files \in [1..n -> Contents]
          /\ IsSequence(rest)
          /\ \E k \in 0..Len(Parsed(sources.files)) :
                Applied(Parsed(sources.files), k)
    /\ PrecedenceHolds

(* The items of a file that can be read.                                   *)
LEMMA ItemsAreSequence ==
  ASSUME NEW f \in Contents \ {Absent, Unreadable}
  PROVE  IsSequence(Items(f))
  <1>1. IsSequence(f.items)
    BY ConfigurationAssumption DEF IsSequence
  <1>2. DOMAIN f.items = 1..Len(f.items) /\ Len(f.items) \in Nat
    BY <1>1, SequenceLength
  <1>3. CASE f.kind # "yaml"
    BY <1>1, <1>3 DEF Items
  <1>4. CASE f.kind = "yaml"
    <2>. DEFINE e(i) == <<f.items[i][1], YamlValue(f.items[i][2])>>
                s == [i \in 1..Len(f.items) |-> e(i)]
                S == { e(i) : i \in 1..Len(f.items) }
    <2>1. Items(f) = s
      BY <1>2, <1>4 DEF Items
    <2>. HIDE DEF e
    <2>2. s \in [1..Len(f.items) -> S]
      OBVIOUS
    <2>. HIDE DEF s, S
    <2>3. s \in Seq(S)
      BY <1>2, <2>2, SeqDef
    <2>. QED BY <2>1, <2>3, SequenceOf
  <1>. QED BY <1>3, <1>4

(* The first file there is, or none.                                       *)
LEMMA ParsedIsFirst ==
  ASSUME NEW n \in Nat, NEW files \in [1..n -> Contents], NEW s
  PROVE  LET first == { files[i] : i \in
                          { h \in DOMAIN files :
                              \A m \in 1..h : m = h \/ files[m] = Absent } }
                           \ {Absent, Unreadable}
         IN  /\ IsSequence(Parsed(files))
             /\ SaidBy(Parsed(files), s) = UNION { SaidBy(Items(f), s) : f \in first }
  <1>. DEFINE first == { files[i] : i \in
                          { h \in DOMAIN files :
                              \A m \in 1..h : m = h \/ files[m] = Absent } }
                           \ {Absent, Unreadable}
  <1>1. ASSUME NEW f \in first
        PROVE  \E i \in Used(files) : files[i] = f /\ f \notin {Absent, Unreadable}
    <2>1. PICK h \in DOMAIN files :
             /\ files[h] = f
             /\ \A m \in 1..h : m = h \/ files[m] = Absent
      OBVIOUS
    <2>2. \A m \in 1..(h - 1) : m \in 1..h /\ m # h
      OBVIOUS
    <2>3. h \in Used(files)
      BY <2>1, <2>2 DEF Used
    <2>. QED BY <2>1, <2>3
  <1>2. SaidBy(<<>>, s) = {} /\ IsSequence(<<>>)
    BY EmptySequence DEF SaidBy
  <1>3. CASE \A i \in Used(files) : files[i] = Unreadable
    <2>1. first = {}
      <3>. HIDE DEF first
      <3>. QED BY <1>1, <1>3
    <2>2. Parsed(files) = <<>>
      BY <1>3 DEF Parsed
    <2>. HIDE DEF first
    <2>. QED BY <1>2, <2>1, <2>2 DEF first
  <1>4. ASSUME NEW i \in Used(files), files[i] # Unreadable
        PROVE  IsSequence(Parsed(files)) /\
               SaidBy(Parsed(files), s) = UNION { SaidBy(Items(f), s) : f \in first }
    <2>1. /\ i \in 1..n /\ files[i] # Absent /\ files[i] \in Contents
          /\ \A j \in 1..(i - 1) : files[j] = Absent
      BY DEF Used
    <2>2. \A j \in Used(files) : j = i
      <3>1. ASSUME NEW j \in Used(files) PROVE j = i
        <4>1. /\ j \in 1..n /\ files[j] # Absent
              /\ \A m \in 1..(j - 1) : files[m] = Absent
          BY DEF Used
        <4>2. j < i => j \in 1..(i - 1)
          BY <2>1, <4>1
        <4>3. i < j => i \in 1..(j - 1)
          BY <2>1, <4>1
        <4>. QED BY <2>1, <4>1, <4>2, <4>3
      <3>. QED BY <3>1
    <2>3. Parsed(files) = Items(files[i])
      <3>1. (CHOOSE j \in Used(files) : TRUE) = i
        BY <2>2
      <3>. QED BY <1>4, <3>1 DEF Parsed
    <2>4. files[i] \in first
      <3>1. \A m \in 1..i : m = i \/ m \in 1..(i - 1)
        BY <2>1
      <3>2. \A m \in 1..i : m = i \/ files[m] = Absent
        BY <2>1, <3>1
      <3>. QED BY <1>4, <2>1, <3>2
    <2>. HIDE DEF first
    <2>5. first = {files[i]}
      BY <1>1, <2>2, <2>4
    <2>6. IsSequence(Items(files[i]))
      BY <1>4, <2>1, ItemsAreSequence
    <2>. QED BY <2>3, <2>5, <2>6
  <1>. QED BY <1>3, <1>4

(* What is said once no more items are applied is what the file says.      *)
LEMMA SaidIsSaidBy ==
  ASSUME NEW items, IsSequence(items), NEW k \in 0..Len(items), NEW s,
         \A i \in 1..k : ~Raises(items[i][1]),
         k < Len(items) => Raises(items[k + 1][1])
  PROVE  SaidBy(items, s) = Said(items, k, s)
  <1>. DEFINE Last(n) == \A m \in (n + 1)..k : Attribute(items[m][1]) # s
              Stays(n) == \A m \in (n + 1)..Len(items) :
                             Attribute(items[m][1]) = s =>
                             \E h \in n..m : Raises(items[h][1])
              Runs(n) == \A m \in 1..n : ~Raises(items[m][1])
  <1>1. DOMAIN items = 1..Len(items) /\ Len(items) \in Nat /\ k \in Nat
    BY SequenceLength
  <1>2. ASSUME NEW n \in 1..Len(items), Runs(n)
        PROVE  n \in 1..k
    <2>1. n > k => k + 1 \in 1..n /\ k < Len(items)
      BY <1>1
    <2>. QED BY <1>1, <1>2, <2>1
  <1>3. ASSUME NEW n \in 1..k
        PROVE  n \in 1..Len(items) /\ Runs(n)
    BY <1>1
  <1>4. ASSUME NEW n \in 1..k, Stays(n)
        PROVE  Last(n)
    <2>1. ASSUME NEW m \in (n + 1)..k
          PROVE  Attribute(items[m][1]) # s
      <3>1. m \in (n + 1)..Len(items) /\ \A h \in n..m : h \in 1..k
        BY <1>1
      <3>. QED BY <1>4, <3>1
    <2>. QED BY <2>1
  <1>5. ASSUME NEW n \in 1..k, Last(n)
        PROVE  Stays(n)
    <2>1. ASSUME NEW m \in (n + 1)..Len(items), Attribute(items[m][1]) = s
          PROVE  \E h \in n..m : Raises(items[h][1])
      <3>1. m \notin (n + 1)..k
        BY <1>5, <2>1
      <3>2. k + 1 \in n..m /\ k < Len(items)
        BY <1>1, <3>1
      <3>. QED BY <3>2
    <2>. QED BY <2>1
  <1>. DEFINE All == { n \in DOMAIN items :
                          Attribute(items[n][1]) = s /\ Runs(n) /\ Stays(n) }
              Some == { n \in 1..k : Attribute(items[n][1]) = s /\ Last(n) }
  <1>6. SaidBy(items, s) = { items[i][2] : i \in All }
    BY DEF SaidBy
  <1>7. Said(items, k, s) = { items[i][2] : i \in Some }
    BY DEF Said
  <1>8. All = Some
    <2>. HIDE DEF Runs, Stays, Last
    <2>. QED BY <1>1, <1>2, <1>3, <1>4, <1>5
  <1>. QED BY <1>6, <1>7, <1>8

(* One more item takes the place of what is said of the setting it names.  *)
LEMMA SaidNext ==
  ASSUME NEW items, NEW k \in Nat, NEW s
  PROVE  Said(items, k + 1, s) =
            IF Attribute(items[k + 1][1]) = s THEN {items[k + 1][2]}
            ELSE Said(items, k, s)
  <1>1. /\ 1..(k + 1) = 1..k \cup {k + 1} /\ k + 1 \notin 1..k
        /\ \A n \in 1..k : (n + 1)..(k + 1) = ((n + 1)..k) \cup {k + 1}
        /\ (k + 2)..(k + 1) = {} /\ k + 1 + 1 = k + 2
    OBVIOUS
  <1>. DEFINE Last(n, l) == /\ Attribute(items[n][1]) = s
                            /\ \A m \in (n + 1)..l : Attribute(items[m][1]) # s
  <1>2. \A n \in 1..k : Last(n, k + 1) <=>
                           Last(n, k) /\ Attribute(items[k + 1][1]) # s
    BY <1>1
  <1>3. Last(k + 1, k + 1) <=> Attribute(items[k + 1][1]) = s
    BY <1>1
  <1>4. /\ Said(items, k + 1, s) = { items[i][2] : i \in { n \in 1..(k + 1) : Last(n, k + 1) } }
        /\ Said(items, k, s) = { items[i][2] : i \in { n \in 1..k : Last(n, k) } }
    BY DEF Said
  <1>. HIDE DEF Last
  <1>5. { n \in 1..(k + 1) : Last(n, k + 1) } =
           IF Attribute(items[k + 1][1]) = s THEN {k + 1}
           ELSE { n \in 1..k : Last(n, k) }
    BY <1>1, <1>2, <1>3
  <1>. QED BY <1>4, <1>5

(* It holds at first.                                                      *)
LEMMA InitConfig == ConfigInit => ConfigInvariant
  <1>. SUFFICES ASSUME ConfigInit PROVE ConfigInvariant
    OBVIOUS
  <1>1. Defaults = [s \in Settings |-> Defaults[s]]
    BY DEF Settings, Defaults
  <1>. QED BY <1>1 DEF ConfigInit, ConfigInvariant, PrecedenceHolds

(* load() opens the first file there is.                                   *)
LEMMA OpenFileKeeps ==
  ASSUME ConfigInvariant, OpenFile
  PROVE  ConfigInvariant'
  <1>0. PICK n \in {1, DefaultPaths} :
           \E files \in [1..n -> Contents] : \E env \in Environments :
              /\ sources' = [files |-> files, env |-> env]
              /\ rest' = Parsed(files)
    BY DEF OpenFile
  <1>1. PICK files \in [1..n -> Contents] : \E env \in Environments :
           /\ sources' = [files |-> files, env |-> env]
           /\ rest' = Parsed(files)
    BY <1>0
  <1>2. sources'.files = files /\ rest' = Parsed(files)
    BY <1>1
  <1>3. loading = "called" /\ loading' = "file" /\ config' = config /\ n \in Nat
    BY ConfigurationAssumption DEF OpenFile
  <1>4. IsSequence(rest') /\ Len(rest') \in Nat
    BY <1>2, <1>3, ParsedIsFirst, SequenceLength
  <1>. DEFINE items == Parsed(files)
  <1>. HIDE DEF items
  <1>5. Applied(items, 0)'
    <2>1. 1..0 = {} /\ rest' = items
      BY <1>2 DEF items
    <2>2. ASSUME NEW s \in Settings
          PROVE  Said(items, 0, s) = {} /\ config'[s] = Defaults[s]
      BY <1>3, <2>1 DEF Said, ConfigInvariant
    <2>3. IF rest' = <<>> THEN 0 < Len(items) => Raises(items[1][1])
          ELSE /\ Len(rest') = Len(items) - 0
               /\ \A j \in 1..Len(rest') : rest'[j] = items[0 + j]
      BY <1>4, <2>1, EmptySequence
    <2>. QED BY <2>1, <2>2, <2>3 DEF Applied
  <1>6. 0 \in 0..Len(items)
    BY <1>2, <1>4 DEF items
  <1>7. config' = [s \in Settings |-> config'[s]]
    BY <1>3 DEF ConfigInvariant
  <1>. QED BY <1>2, <1>3, <1>4, <1>5, <1>6, <1>7
       DEF ConfigInvariant, PrecedenceHolds, items

(* One item is applied, or ends the file.                                  *)
LEMMA ApplyItemKeeps ==
  ASSUME ConfigInvariant, ApplyItem
  PROVE  ConfigInvariant'
  <1>0. PICK items : items = Parsed(sources.files)
    OBVIOUS
  <1>. DEFINE item == Head(rest)
  <1>1. PICK n \in Nat : sources.files \in [1..n -> Contents]
    BY DEF ConfigInvariant, ApplyItem
  <1>2. IsSequence(items) /\ Len(items) \in Nat
    BY <1>0, <1>1, ParsedIsFirst, SequenceLength
  <1>3. PICK k \in 0..Len(items) : Applied(items, k)
    BY <1>0 DEF ConfigInvariant, ApplyItem
  <1>4. /\ loading = "file" /\ rest # <<>> /\ UNCHANGED <<loading, sources>>
        /\ rest' = IF Raises(item[1]) THEN <<>> ELSE Tail(rest)
        /\ config' = IF Attribute(item[1]) \in Settings
                     THEN [config EXCEPT ![Attribute(item[1])] = item[2]]
                     ELSE config
    BY DEF ApplyItem
  <1>5. /\ IsSequence(rest) /\ config = [s \in Settings |-> config[s]]
        /\ PrecedenceHolds
    BY <1>4 DEF ConfigInvariant
  <1>6. /\ Len(rest) \in Nat /\ Len(rest) > 0 /\ item = rest[1]
        /\ Len(Tail(rest)) = Len(rest) - 1 /\ IsSequence(Tail(rest))
        /\ \A j \in 1..Len(Tail(rest)) : Tail(rest)[j] = rest[j + 1]
    <2>1. rest \in Seq(Range(rest)) /\ rest # <<>>
      BY <1>4, <1>5 DEF IsSequence
    <2>2. /\ item = rest[1] /\ Tail(rest) \in Seq(Range(rest))
          /\ Len(Tail(rest)) = Len(rest) - 1
          /\ \A j \in 1..Len(Tail(rest)) : Tail(rest)[j] = rest[j + 1]
      BY <2>1, HeadTailProperties
    <2>3. Len(rest) \in 1..Len(rest)
      BY <1>5, <2>1, SequenceLength
    <2>4. IsSequence(Tail(rest))
      BY <2>2, SequenceOf
    <2>5. Len(rest) \in Nat /\ Len(rest) > 0
      BY <1>5, <2>3, SequenceLength
    <2>. QED BY <2>2, <2>4, <2>5
  <1>7. /\ \A i \in 1..k : ~Raises(items[i][1])
        /\ Len(rest) = Len(items) - k
        /\ \A j \in 1..Len(rest) : rest[j] = items[k + j]
        /\ \A s \in Settings :
              {config[s]} = IF Said(items, k, s) # {} THEN Said(items, k, s)
                            ELSE {Defaults[s]}
    BY <1>3, <1>4 DEF Applied
  <1>8. item = items[k + 1] /\ k \in Nat /\ k < Len(items)
    BY <1>2, <1>6, <1>7
  <1>9. /\ config' = [s \in Settings |-> config'[s]]
        /\ \A s \in Settings : config'[s] =
              IF Attribute(item[1]) = s THEN item[2] ELSE config[s]
    BY <1>4, <1>5
  <1>. HIDE DEF item
  <1>. SUFFICES IsSequence(rest') /\ \E h \in 0..Len(items) : Applied(items, h)'
    BY <1>0, <1>1, <1>4, <1>9 DEF ConfigInvariant, PrecedenceHolds
  <1>10. CASE Raises(item[1])
    <2>1. rest' = <<>> /\ Raises(items[k + 1][1])
      BY <1>4, <1>8, <1>10
    <2>2. \A s \in Settings : config'[s] = config[s]
      BY <1>9, <1>10 DEF Raises, Settings, Defaults
    <2>3. Applied(items, k)'
      BY <1>7, <2>1, <2>2 DEF Applied
    <2>. QED BY <2>1, <2>3, EmptySequence
  <1>11. CASE ~Raises(item[1])
    <2>1. rest' = Tail(rest)
      BY <1>4, <1>11
    <2>2. \A i \in 1..(k + 1) : ~Raises(items[i][1])
      <3>1. \A i \in 1..(k + 1) : i \in 1..k \/ i = k + 1
        BY <1>8
      <3>. QED BY <1>7, <1>8, <1>11, <3>1
    <2>3. IF rest' = <<>> THEN k + 1 < Len(items) => Raises(items[k + 1 + 1][1])
          ELSE /\ Len(rest') = Len(items) - (k + 1)
               /\ \A j \in 1..Len(rest') : rest'[j] = items[k + 1 + j]
      <3>1. Len(rest') = Len(items) - (k + 1)
        BY <1>2, <1>6, <1>7, <1>8, <2>1
      <3>2. rest' = <<>> => ~(k + 1 < Len(items))
        BY <1>2, <1>8, <3>1, EmptySequence
      <3>3. ASSUME NEW j \in 1..Len(rest')
            PROVE  rest'[j] = items[k + 1 + j]
        <4>1. j + 1 \in 1..Len(rest) /\ k + (j + 1) = k + 1 + j
          BY <1>6, <1>8, <2>1
        <4>2. rest'[j] = rest[j + 1]
          BY <1>6, <2>1
        <4>3. rest[j + 1] = items[k + (j + 1)]
          BY <1>7, <4>1
        <4>. QED BY <4>1, <4>2, <4>3
      <3>. QED BY <3>1, <3>2, <3>3
    <2>4. ASSUME NEW s \in Settings
          PROVE  {config'[s]} = IF Said(items, k + 1, s) # {} THEN Said(items, k + 1, s)
                                ELSE {Defaults[s]}
      <3>1. Said(items, k + 1, s) =
               IF Attribute(item[1]) = s THEN {item[2]} ELSE Said(items, k, s)
        BY <1>8, SaidNext
      <3>2. config'[s] = IF Attribute(item[1]) = s THEN item[2] ELSE config[s]
        BY <1>9
      <3>. QED BY <1>7, <3>1, <3>2
    <2>5. Applied(items, k + 1)'
      BY <2>2, <2>3, <2>4 DEF Applied
    <2>6. k + 1 \in 0..Len(items)
      BY <1>2, <1>8
    <2>. QED BY <1>6, <2>1, <2>5, <2>6
  <1>. QED BY <1>10, <1>11

-----------------------------------------------------------------------------
(* A variable gives a setting one value, or none.                          *)
LEMMA GivesOneValue ==
  ASSUME NEW s \in Settings, NEW text
  PROVE  \A v, w \in FromEnvironment(s, text) : v = w
  <1>1. Defaults[s].type \in {"bool", "int", "str"}
    BY DEF Settings, Defaults, Value
  <1>. QED BY <1>1 DEF FromEnvironment

(* What the environment says of a setting, and what the first file there   *)
(* is says of it.                                                          *)
SaidByEnvironment(src, s) ==
    IF s \in DOMAIN src.env THEN FromEnvironment(s, src.env[s]) ELSE {}

SaidByFile(src, s) ==
    UNION { SaidBy(Items(f), s) : f \in
        { src.files[i] : i \in
            { n \in DOMAIN src.files :
                \A m \in 1..n : m = n \/ src.files[m] = Absent } }
          \ {Absent, Unreadable} }

Precedent(src, s) ==
    IF SaidByEnvironment(src, s) # {} THEN SaidByEnvironment(src, s)
    ELSE IF SaidByFile(src, s) # {} THEN SaidByFile(src, s) ELSE {Defaults[s]}

(* The environment has the last word.                                      *)
LEMMA LoadFromEnvKeeps ==
  ASSUME ConfigInvariant, LoadFromEnv
  PROVE  ConfigInvariant'
  <1>0. PICK items : items = Parsed(sources.files)
    OBVIOUS
  <1>1. PICK n \in Nat : sources.files \in [1..n -> Contents]
    BY DEF ConfigInvariant, LoadFromEnv
  <1>2. PICK k \in 0..Len(items) : Applied(items, k)
    BY <1>0 DEF ConfigInvariant, LoadFromEnv
  <1>3. /\ rest = <<>> /\ loading' = "done" /\ UNCHANGED <<sources, rest>>
        /\ config' = [s \in Settings |->
              IF s \in DOMAIN sources.env /\ FromEnvironment(s, sources.env[s]) # {}
              THEN CHOOSE v \in FromEnvironment(s, sources.env[s]) : TRUE
              ELSE config[s]]
    BY DEF LoadFromEnv
  <1>4. ASSUME NEW s \in Settings
        PROVE  SaidByFile(sources, s) = Said(items, k, s)
    <2>1. IsSequence(items) /\ SaidBy(items, s) = SaidByFile(sources, s)
      BY <1>0, <1>1, ParsedIsFirst DEF SaidByFile
    <2>2. /\ \A i \in 1..k : ~Raises(items[i][1])
          /\ k < Len(items) => Raises(items[k + 1][1])
      BY <1>2, <1>3 DEF Applied
    <2>. QED BY <2>1, <2>2, SaidIsSaidBy
  <1>5. ASSUME NEW s \in Settings
        PROVE  {config'[s]} = Precedent(sources, s)
    <2>. DEFINE env == SaidByEnvironment(sources, s)
    <2>1. config'[s] =
             IF s \in DOMAIN sources.env /\ FromEnvironment(s, sources.env[s]) # {}
             THEN CHOOSE v \in FromEnvironment(s, sources.env[s]) : TRUE
             ELSE config[s]
      BY <1>3
    <2>2. {config[s]} = IF SaidByFile(sources, s) # {} THEN SaidByFile(sources, s)
                        ELSE {Defaults[s]}
      BY <1>2, <1>4 DEF Applied
    <2>3. CASE env # {}
      <3>1. s \in DOMAIN sources.env /\ env = FromEnvironment(s, sources.env[s])
        BY <2>3 DEF SaidByEnvironment
      <3>2. config'[s] = CHOOSE v \in env : TRUE
        BY <2>1, <2>3, <3>1
      <3>3. \A v, w \in env : v = w
        BY <3>1, GivesOneValue
      <3>. HIDE DEF env
      <3>4. (CHOOSE v \in env : TRUE) \in env
        BY <2>3
      <3>5. {config'[s]} = env
        BY <3>2, <3>3, <3>4
      <3>. QED BY <2>3, <3>5 DEF Precedent, env
    <2>4. CASE env = {}
      <3>1. config'[s] = config[s]
        BY <2>1, <2>4 DEF SaidByEnvironment
      <3>. QED BY <2>2, <2>4, <3>1 DEF Precedent
    <2>. QED BY <2>3, <2>4
  <1>6. PrecedenceHolds'
    <2>1. sources' = sources
      BY <1>3
    <2>2. PrecedenceHolds' <=>
            (loading' = "done" =>
               \A s \in Settings : {config'[s]} = Precedent(sources', s))
      BY DEF PrecedenceHolds, Precedent, SaidByEnvironment, SaidByFile
    <2>. QED BY <1>5, <2>1, <2>2
  <1>7. config' = [s \in Settings |-> config'[s]]
    BY <1>3
  <1>. QED BY <1>3, <1>6, <1>7 DEF ConfigInvariant

(* AgentConfig.load (config.py): environment over file over default, each  *)
(* setting by itself, whatever the files and the variables hold.           *)
THEOREM PrecedenceIsKept == ConfigSpec => []PrecedenceHolds
  <1>1. ConfigInvariant /\ [ConfigNext]_configVars => ConfigInvariant'
    <2>. SUFFICES ASSUME ConfigInvariant, [ConfigNext]_configVars
                  PROVE  ConfigInvariant'
      OBVIOUS
    <2>1. CASE UNCHANGED configVars
      <3>1. UNCHANGED <<config, loading, sources, rest>>
        BY <2>1 DEF configVars
      <3>2. PrecedenceHolds'
        BY <3>1 DEF ConfigInvariant, PrecedenceHolds
      <3>3. CASE loading # "file"
        BY <3>1, <3>2, <3>3 DEF ConfigInvariant
      <3>4. CASE loading = "file"
        <4>1. PICK items : items = Parsed(sources.files)
          OBVIOUS
        <4>2. PICK k \in 0..Len(items) : Applied(items, k)
          BY <3>4, <4>1 DEF ConfigInvariant
        <4>3. Applied(items, k)'
          BY <3>1, <4>2 DEF Applied
        <4>. QED BY <3>1, <3>2, <3>4, <4>1, <4>3 DEF ConfigInvariant
      <3>. QED BY <3>3, <3>4
    <2>. QED BY <2>1, OpenFileKeeps, ApplyItemKeeps, LoadFromEnvKeeps DEF ConfigNext
  <1>2. ConfigInvariant => PrecedenceHolds
    BY DEF ConfigInvariant
  <1>. QED BY <1>1, <1>2, InitConfig, PTL DEF ConfigSpec
=============================================================================
