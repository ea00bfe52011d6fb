---------------------------- MODULE SequenceLemmas ----------------------------
(***************************************************************************)
(* What the proofs need of sequences and of recursion: sequences of        *)
(* whatever elements, induction over the naturals and over a range of      *)
(* them, and that a loop over a sequence, written as a recursive function, *)
(* is the function its equation describes.                                 *)
(***************************************************************************)
EXTENDS Integers, Functions, SequenceTheorems, WellFoundedInduction, TLAPS

IsSequence(s) == s \in Seq(Range(s))

Changed(s, i, e) == [s EXCEPT ![i] = e]

(* Every sequence is one of its own elements.                              *)
LEMMA SequenceOf ==
  ASSUME NEW S, NEW s \in Seq(S)
  PROVE  IsSequence(s)
  <1>1. Len(s) \in Nat /\ s \in [1..Len(s) -> S] /\ DOMAIN s = 1..Len(s)
    BY LenProperties
  <1>2. s \in [1..Len(s) -> Range(s)]
    BY <1>1 DEF Range
  <1>. QED BY <1>1, <1>2, SeqDef DEF IsSequence

(* The empty sequence.                                                     *)
LEMMA EmptySequence ==
  IsSequence(<<>>) /\ Len(<<>>) = 0 /\ DOMAIN <<>> = {} /\ Range(<<>>) = {}
  <1>1. <<>> \in Seq({}) /\ Len(<<>>) = 0
    BY EmptySeq
  <1>2. DOMAIN <<>> = 1..0 /\ 1..0 = {}
    BY <1>1, LenProperties
  <1>. QED BY <1>1, <1>2, SequenceOf DEF Range

(* The length of a sequence and its domain.                                *)
LEMMA SequenceLength ==
  ASSUME NEW s, IsSequence(s)
  PROVE  /\ Len(s) \in Nat /\ DOMAIN s = 1..Len(s)
         /\ s # <<>> => Len(s) \in 1..Len(s)
  BY LenProperties, EmptySeq DEF IsSequence

(* What Append returns.                                                    *)
LEMMA SequenceAppend ==
  ASSUME NEW s, IsSequence(s), NEW e
  PROVE  /\ IsSequence(Append(s, e))
         /\ Append(s, e) # <<>>
         /\ Len(Append(s, e)) = Len(s) + 1
         /\ \A i \in 1..Len(s) : Append(s, e)[i] = s[i]
         /\ Append(s, e)[Len(s) + 1] = e
  <1>. DEFINE S == Range(s) \cup {e}
  <1>1. s \in Seq(S) /\ e \in S
    BY SeqMonotonic DEF IsSequence
  <1>. HIDE DEF S
  <1>2. /\ Append(s, e) \in Seq(S)
        /\ Append(s, e) # <<>>
        /\ Len(Append(s, e)) = Len(s) + 1
        /\ \A i \in 1..Len(s) : Append(s, e)[i] = s[i]
        /\ Append(s, e)[Len(s) + 1] = e
    BY <1>1, AppendProperties
  <1>3. IsSequence(Append(s, e))
    BY <1>2, SequenceOf
  <1>. QED BY <1>2, <1>3

(* A sequence with one element replaced.                                   *)
LEMMA SequenceExcept ==
  ASSUME NEW s, IsSequence(s), NEW i \in 1..Len(s), NEW e
  PROVE  /\ IsSequence(Changed(s, i, e))
         /\ Len(Changed(s, i, e)) = Len(s)
         /\ \A j \in 1..Len(s) :
               Changed(s, i, e)[j] = IF j = i THEN e ELSE s[j]
  <1>. DEFINE S == Range(s) \cup {e}
              t == [s EXCEPT ![i] = e]
  <1>1. s \in Seq(S) /\ e \in S
    BY SeqMonotonic DEF IsSequence
  <1>. HIDE DEF S
  <1>2. /\ t \in Seq(S)
        /\ Len(t) = Len(s)
        /\ \A j \in 1..Len(s) : t[j] = IF j = i THEN e ELSE s[j]
    BY <1>1, ExceptSeq
  <1>. HIDE DEF t
  <1>3. IsSequence(t)
    BY <1>2, SequenceOf
  <1>. QED BY <1>2, <1>3 DEF t, Changed

(* The first elements of a sequence.                                       *)
LEMMA SequencePrefix ==
  ASSUME NEW s, IsSequence(s), NEW n \in 1..Len(s)
  PROVE  /\ IsSequence(SubSeq(s, 1, n))
         /\ Len(SubSeq(s, 1, n)) = n
         /\ \A i \in 1..n : SubSeq(s, 1, n)[i] = s[i]
  <1>1. Len(s) \in Nat /\ \A i \in 1..n : s[i] \in Range(s)
    BY SequenceLength DEF Range
  <1>2. /\ SubSeq(s, 1, n) \in Seq(Range(s))
        /\ Len(SubSeq(s, 1, n)) = IF 1 <= n THEN n - 1 + 1 ELSE 0
        /\ \A i \in 1..(n - 1 + 1) : SubSeq(s, 1, n)[i] = s[1 + i - 1]
    BY <1>1, SubSeqProperties
  <1>3. IsSequence(SubSeq(s, 1, n))
    BY <1>2, SequenceOf
  <1>. QED BY <1>1, <1>2, <1>3

(* The elements of a sequence, and of a longer one.                        *)
LEMMA RangeOf ==
  ASSUME NEW s, IsSequence(s)
  PROVE  Range(s) = { s[i] : i \in 1..Len(s) }
  BY SequenceLength DEF Range

(* The elements after an Append.                                           *)
LEMMA RangeAppend ==
  ASSUME NEW s, IsSequence(s), NEW e
  PROVE  Range(Append(s, e)) = Range(s) \cup {e}
  <1>1. /\ Len(s) \in Nat
        /\ IsSequence(Append(s, e)) /\ Len(Append(s, e)) = Len(s) + 1
        /\ \A i \in 1..Len(s) : Append(s, e)[i] = s[i]
        /\ Append(s, e)[Len(s) + 1] = e
    BY SequenceLength, SequenceAppend
  <1>2. /\ Range(s) = { s[i] : i \in 1..Len(s) }
        /\ Range(Append(s, e)) = { Append(s, e)[i] : i \in 1..(Len(s) + 1) }
    BY <1>1, RangeOf
  <1>. QED BY <1>1, <1>2

-----------------------------------------------------------------------------
(* A set of naturals has a least element, for their order is well-founded. *)
LEMMA Minimal ==
  ASSUME NEW T \in SUBSET Nat, T # {}
  PROVE  \E n \in T : \A k \in T : n <= k
  <1>1. PICK n \in T : \A k \in T : <<k, n>> \notin OpToRel(<, Nat)
    BY WFMin, NatLessThanWellFounded, Zenon
  <1>2. \A k \in T : ~(k < n)
    BY <1>1 DEF OpToRel
  <1>. QED BY <1>2

(* Induction up to N, for what a set holds of.                             *)
LEMMA InductionUpTo ==
  ASSUME NEW N \in Nat, NEW S, 0 \in S,
         \A n \in 1..N : n - 1 \in S => n \in S
  PROVE  0..N \subseteq S
  <1>. DEFINE T == { n \in 0..N : n \notin S }
  <1>1. CASE T = {}
    BY <1>1
  <1>2. CASE T # {}
    <2>1. T \in SUBSET Nat
      OBVIOUS
    <2>2. PICK n \in T : \A k \in T : n <= k
      BY <1>2, <2>1, Minimal
    <2>. QED BY <2>2
  <1>. QED BY <1>1, <1>2

(* A loop of N rounds, from b, where the i-th round makes F[<<x, i>>] of x.    *)
IsLoop(g, N, b, F) ==
    g = [i \in 0..N |-> IF i = 0 THEN b ELSE F[<<g[i - 1], i>>]]

(* There is a function that goes through the rounds.                       *)
LEMMA LoopExists ==
  ASSUME NEW N \in Nat, NEW S, NEW b \in S, NEW F \in [S \X (1..N) -> S]
  PROVE  \E g \in [0..N -> S] : IsLoop(g, N, b, F)
  <1>. DEFINE Done == { n \in 0..N : \E g \in [0..n -> S] :
                          /\ g[0] = b
                          /\ \A i \in 1..n : g[i] = F[<<g[i - 1], i>>] }
  <1>1. 0 \in Done
    <2>. DEFINE g == [i \in 0..0 |-> b]
    <2>1. g \in [0..0 -> S] /\ g[0] = b
      OBVIOUS
    <2>2. 0 \in 0..N /\ 1..0 = {}
      OBVIOUS
    <2>. HIDE DEF g
    <2>. QED BY <2>1, <2>2
  <1>2. ASSUME NEW n \in 1..N, n - 1 \in Done
        PROVE  n \in Done
    <2>1. PICK g \in [0..(n - 1) -> S] :
            /\ g[0] = b
            /\ \A i \in 1..(n - 1) : g[i] = F[<<g[i - 1], i>>]
      BY <1>2
    <2>. DEFINE h == [i \in 0..n |-> IF i = n THEN F[<<g[n - 1], n>>] ELSE g[i]]
    <2>2. F[<<g[n - 1], n>>] \in S
      BY <2>1
    <2>3. h \in [0..n -> S] /\ h[0] = b
      BY <2>1, <2>2
    <2>4. ASSUME NEW i \in 1..n
          PROVE  h[i] = F[<<h[i - 1], i>>]
      <3>1. h[i - 1] = g[i - 1] /\ i - 1 # n
        OBVIOUS
      <3>2. h[i] = IF i = n THEN F[<<g[n - 1], n>>] ELSE g[i]
        OBVIOUS
      <3>3. CASE i = n
        BY <3>1, <3>2, <3>3
      <3>4. CASE i # n
        <4>1. g[i] = F[<<g[i - 1], i>>]
          BY <2>1, <3>4
        <4>. QED BY <3>1, <3>2, <3>4, <4>1
      <3>. QED BY <3>3, <3>4
    <2>. HIDE DEF h
    <2>. QED BY <2>3, <2>4
  <1>3. 0..N \subseteq Done
    <2>. HIDE DEF Done
    <2>. QED BY <1>1, <1>2, InductionUpTo
  <1>4. PICK g \in [0..N -> S] : /\ g[0] = b
                                 /\ \A i \in 1..N : g[i] = F[<<g[i - 1], i>>]
    BY <1>3
  <1>5. IsLoop(g, N, b, F)
    BY <1>4 DEF IsLoop
  <1>. QED BY <1>5
===============================================================================
