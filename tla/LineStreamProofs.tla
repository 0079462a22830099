-------------------------- MODULE LineStreamProofs --------------------------
(***************************************************************************)
(* Proofs about LineStream, for any lines, any size of the buffer and any  *)
(* division of the stream into chunks.                                     *)
(*                                                                         *)
(* bcirc_escape_buf and the log's formatting are loops over their input.   *)
(* What they compute is shown by a shortest counterexample: a loop's first *)
(* turn leaves a shorter text, for which the claim holds.                  *)
(***************************************************************************)
EXTENDS LineStream, SequenceTheorems, WellFoundedInduction, TLAPS

\* A set of naturals has a least member.
LEMMA LeastOf ==
    ASSUME NEW T, T \subseteq Nat, T # {}
    PROVE  \E x \in T : \A y \in T : x <= y
<1>1. IsWellFoundedOn(OpToRel(<, Nat), Nat)
  BY NatLessThanWellFounded
<1>2. PICK x \in T : \A y \in T : ~ (<<y, x>> \in OpToRel(<, Nat))
  BY <1>1, WFMin
<1>3. \A y \in T : ~ (y < x)
  BY <1>2 DEF OpToRel
<1> QED
  BY <1>3

\* The loop's function, and what its next places are.
Forward(n, next) == \A i \in 1..n : next[i] \in (i + 1)..(n + 1)

Solves(F, n, out, next) ==
    F = [i \in 1..(n + 1) |-> IF i > n THEN <<>> ELSE out[i] \o F[next[i]]]

From(n, out, next) == CHOOSE F : Solves(F, n, out, next)

\* The model's loop starts the function From.
LEMMA LoopIs ==
    ASSUME NEW n, NEW out, NEW next
    PROVE  Loop(n, out, next) = From(n, out, next)[1]
  BY DEF Loop, From, Solves

\* From the end on backwards, the loop has a function.
SolvesFrom(F, j, n, out, next) ==
    /\ F = [i \in 1..(n + 1) |-> F[i]]
    /\ \A i \in j..(n + 1) : F[i] = IF i > n THEN <<>> ELSE out[i] \o F[next[i]]

\* A loop that only goes forward has a solution.
LEMMA SolutionExists ==
    ASSUME NEW n \in Nat, NEW out, NEW next, Forward(n, next)
    PROVE  \E F : Solves(F, n, out, next)
<1> DEFINE T == {k \in 0..n : ~ \E F : SolvesFrom(F, n + 1 - k, n, out, next)}
<1>1. T = {}
<2> SUFFICES ASSUME T # {} PROVE FALSE
  OBVIOUS
<2>1. PICK k \in T : \A y \in T : k <= y
<3>1. T \subseteq Nat
  OBVIOUS
<3> HIDE DEF T
<3> QED
  BY <3>1, LeastOf
<2>2. k \in 0..n /\ ~ \E F : SolvesFrom(F, n + 1 - k, n, out, next)
  BY <2>1
<2>3. k # 0
<3>1. SolvesFrom([i \in 1..(n + 1) |-> <<>>], n + 1, n, out, next)
  BY DEF SolvesFrom
<3> SUFFICES ASSUME k = 0 PROVE FALSE
  OBVIOUS
<3>2. n + 1 - k = n + 1
  OBVIOUS
<3> QED
  BY <2>2, <3>1, <3>2
<2>4. PICK F : SolvesFrom(F, n + 1 - (k - 1), n, out, next)
<3>1. k - 1 \notin T /\ k - 1 \in 0..n
  BY <2>1, <2>2, <2>3
<3> QED
  BY <3>1
<2> DEFINE j == n + 1 - k
           G == [i \in 1..(n + 1) |-> IF i = j THEN out[j] \o F[next[j]] ELSE F[i]]
<2>5. j \in 1..n /\ n + 1 - (k - 1) = j + 1
  BY <2>2, <2>3
<2>6. \A i \in j..(n + 1) : G[i] = IF i > n THEN <<>> ELSE out[i] \o G[next[i]]
<3> SUFFICES ASSUME NEW i \in j..(n + 1)
             PROVE  G[i] = IF i > n THEN <<>> ELSE out[i] \o G[next[i]]
  OBVIOUS
<3>1. i \in 1..n => next[i] \in (i + 1)..(n + 1)
  BY DEF Forward
<3>2. i \in 1..n => G[next[i]] = F[next[i]]
  BY <2>5, <3>1
<3>3. CASE i = j
<4>1. i \in 1..(n + 1) /\ i \in 1..n /\ ~(i > n)
  BY <2>5, <3>3
<4>2. G[i] = out[j] \o F[next[j]]
  BY <3>3, <4>1
<4>3. G[i] = out[i] \o F[next[i]]
  BY <3>3, <4>2
<4> HIDE DEF G, j
<4> QED
  BY <3>2, <4>1, <4>3
<3>4. CASE i # j
<4>1. i \in (j + 1)..(n + 1)
  BY <2>5, <3>4
<4>2. F[i] = IF i > n THEN <<>> ELSE out[i] \o F[next[i]]
  BY <2>4, <2>5, <4>1 DEF SolvesFrom
<4>3. G[i] = F[i] /\ (~(i > n) => i \in 1..n)
  BY <2>5, <3>4, <4>1
<4> QED
  BY <3>2, <4>2, <4>3
<3> QED
  BY <3>3, <3>4
<2>7. SolvesFrom(G, j, n, out, next)
  BY <2>6 DEF SolvesFrom
<2> QED
  BY <2>2, <2>7
<1>2. PICK F : SolvesFrom(F, n + 1 - n, n, out, next)
  BY <1>1
<1>3. n + 1 - n = 1
  OBVIOUS
<1>4. Solves(F, n, out, next)
  BY <1>2, <1>3 DEF SolvesFrom, Solves
<1> QED
  BY <1>4

\* So From is one.
LEMMA FromSolves ==
    ASSUME NEW n \in Nat, NEW out, NEW next, Forward(n, next)
    PROVE  Solves(From(n, out, next), n, out, next)
  BY SolutionExists DEF From

\* A loop over the places after the k-th of another one.
Continues(m, k, out, next, rest, then) ==
    \A i \in 1..m : rest[i] = out[i + k] /\ then[i] = next[i + k] - k

\* A loop over what is left after k places goes as the whole loop does from there.
LEMMA Shifted ==
    ASSUME NEW m \in Nat, NEW k \in Nat, NEW out, NEW next, NEW rest, NEW then,
           Forward(m + k, next), Continues(m, k, out, next, rest, then)
    PROVE  /\ Forward(m, then)
           /\ Loop(m, rest, then) = From(m + k, out, next)[k + 1]
<1> DEFINE F == From(m + k, out, next)
           G == From(m, rest, then)
<1>1. \A i \in 1..m : i + k \in 1..(m + k) /\ then[i] \in (i + 1)..(m + 1)
                      /\ then[i] + k = next[i + k]
  <2> SUFFICES ASSUME NEW i \in 1..m
               PROVE  i + k \in 1..(m + k) /\ then[i] \in (i + 1)..(m + 1)
                      /\ then[i] + k = next[i + k]
    OBVIOUS
  <2>1. i + k \in 1..(m + k)
    OBVIOUS
  <2>2. next[i + k] \in (i + k + 1)..(m + k + 1) /\ then[i] = next[i + k] - k
    BY <2>1 DEF Forward, Continues
  <2> QED
    BY <2>1, <2>2
<1>2. Forward(m, then)
  BY <1>1 DEF Forward
<1>3. Solves(F, m + k, out, next) /\ Solves(G, m, rest, then)
  BY <1>2, FromSolves
<1> HIDE DEF F, G
<1>4. /\ \A i \in 1..(m + k + 1) : F[i] = IF i > m + k THEN <<>> ELSE out[i] \o F[next[i]]
      /\ \A i \in 1..(m + 1) : G[i] = IF i > m THEN <<>> ELSE rest[i] \o G[then[i]]
  BY <1>3 DEF Solves
<1> DEFINE T == {q \in 0..m : G[m + 1 - q] # F[m + 1 - q + k]}
<1>5. T = {}
  <2> SUFFICES ASSUME T # {} PROVE FALSE
    OBVIOUS
  <2>1. PICK q \in T : \A y \in T : q <= y
    <3>1. T \subseteq Nat
      OBVIOUS
    <3> HIDE DEF T
    <3> QED
      BY <3>1, LeastOf
  <2>2. q \in 0..m /\ G[m + 1 - q] # F[m + 1 - q + k]
    BY <2>1
  <2> DEFINE i == m + 1 - q
  <2>3. i \in 1..(m + 1) /\ i + k \in 1..(m + k + 1)
    BY <2>2
  <2>4. q = m + 1 - i
    BY <2>2
  <2>5. G[i] # F[i + k]
    BY <2>2
  <2> HIDE DEF i
  <2>6. i \in 1..m
    <3> SUFFICES ASSUME i \notin 1..m PROVE FALSE
      OBVIOUS
    <3>1. i > m /\ i + k > m + k
      BY <2>3
    <3> QED
      BY <1>4, <2>3, <2>5, <3>1
  <2>7. m + 1 - then[i] \in 0..m /\ m + 1 - then[i] < q
        /\ m + 1 - (m + 1 - then[i]) = then[i]
    BY <1>1, <2>4, <2>6
  <2>8. m + 1 - then[i] \notin T
    <3>1. m + 1 - then[i] \in T => q <= m + 1 - then[i]
      BY <2>1
    <3>2. then[i] \in Int /\ q \in Int
      BY <1>1, <2>2, <2>6
    <3> HIDE DEF T
    <3> QED
      BY <2>7, <3>1, <3>2
  <2>9. G[then[i]] = F[then[i] + k]
    BY <2>7, <2>8
  <2>10. G[i] = rest[i] \o G[then[i]] /\ F[i + k] = out[i + k] \o F[next[i + k]]
    <3>1. ~(i > m) /\ ~(i + k > m + k)
      BY <2>6
    <3> QED
      BY <1>4, <2>3, <3>1
  <2> QED
    BY <1>1, <2>5, <2>6, <2>9, <2>10 DEF Continues
<1>6. m \notin T
  BY <1>5
<1>7. G[1] = F[1 + k]
  BY <1>6
<1> QED
  BY <1>2, <1>7, LoopIs DEF F, G

\* What a loop does at its first place, and that it looks at no place beyond.
LEMMA LoopEmpty ==
    ASSUME NEW out, NEW next PROVE Loop(0, out, next) = <<>>
<1>1. Forward(0, next)
  BY DEF Forward
<1>2. Solves(From(0, out, next), 0, out, next)
  BY <1>1, FromSolves
<1> QED
  BY <1>2, LoopIs DEF Solves

\* The first turn of a loop.
LEMMA LoopHead ==
    ASSUME NEW n \in Nat, n > 0, NEW out, NEW next, Forward(n, next)
    PROVE  Loop(n, out, next) = out[1] \o From(n, out, next)[next[1]]
<1> DEFINE F == From(n, out, next)
<1>0. Solves(From(n, out, next), n, out, next)
  BY FromSolves
<1>1. F = [i \in 1..(n + 1) |-> IF i > n THEN <<>> ELSE out[i] \o F[next[i]]]
  BY <1>0 DEF Solves
<1>2. 1 \in 1..(n + 1) /\ ~(1 > n)
  OBVIOUS
<1>3. Loop(n, out, next) = F[1]
  BY LoopIs
<1> HIDE DEF F
<1>4. F[1] = out[1] \o F[next[1]]
  BY <1>1, <1>2
<1> QED
  BY <1>3, <1>4 DEF F

\* The first turn of a loop, and a loop over what it leaves.
LEMMA LoopStep ==
    ASSUME NEW m \in Nat, NEW k \in Nat, k > 0,
           NEW out, NEW next, NEW rest, NEW then,
           Forward(m + k, next), next[1] = k + 1,
           Continues(m, k, out, next, rest, then)
    PROVE  Loop(m + k, out, next) = out[1] \o Loop(m, rest, then)
<1>1. Loop(m + k, out, next) = out[1] \o From(m + k, out, next)[next[1]]
  <2>1. m + k \in Nat /\ m + k > 0
    OBVIOUS
  <2> QED
    BY <2>1, LoopHead
<1>2. Loop(m, rest, then) = From(m + k, out, next)[k + 1]
  BY Shifted
<1> QED
  BY <1>1, <1>2

-----------------------------------------------------------------------------
(* Sequences without their first k entries, and shortest counterexamples. *)

Drop(s, k) == SubSeq(s, k + 1, Len(s))

\* The entries of what is left.
LEMMA DropIs ==
    ASSUME NEW S, NEW s \in Seq(S), NEW k \in 0..Len(s)
    PROVE  /\ Drop(s, k) \in Seq(S)
           /\ Len(Drop(s, k)) = Len(s) - k
           /\ \A i \in 1..(Len(s) - k) : Drop(s, k)[i] = s[i + k]
<1>1. Len(s) \in Nat /\ k + 1 \in Int /\ Len(s) \in Int
  BY LenProperties
<1>2. \A i \in (k + 1)..Len(s) : s[i] \in S
  BY <1>1, ElementOfSeq
<1>3. /\ Drop(s, k) \in Seq(S)
      /\ Len(Drop(s, k)) = IF k + 1 <= Len(s) THEN Len(s) - (k + 1) + 1 ELSE 0
      /\ \A i \in 1..(Len(s) - (k + 1) + 1) : Drop(s, k)[i] = s[k + 1 + i - 1]
  BY <1>1, <1>2, SubSeqProperties DEF Drop
<1>4. Len(s) - (k + 1) + 1 = Len(s) - k
  BY <1>1
<1>5. \A i \in 1..(Len(s) - k) : k + 1 + i - 1 = i + k
  BY <1>1
<1>6. Len(Drop(s, k)) = Len(s) - k
  BY <1>1, <1>3
<1> QED
  BY <1>3, <1>4, <1>5, <1>6

\* Of the sequences of a set, one is shortest.
LEMMA Shortest ==
    ASSUME NEW S, NEW Bad, Bad \subseteq Seq(S), Bad # {}
    PROVE  \E s \in Bad : \A t \in Bad : Len(s) <= Len(t)
<1> DEFINE T == {Len(s) : s \in Bad}
<1>1. T \subseteq Nat /\ T # {}
  BY LenProperties
<1>2. PICK n \in T : \A y \in T : n <= y
<2> HIDE DEF T
<2> QED
  BY <1>1, LeastOf
<1> QED
  BY <1>2

-----------------------------------------------------------------------------
(* Doubled and Formatted, for any set P of percent signs. *)

Is(s, i, P) == i \in DOMAIN s /\ s[i] \in P

DblOut(s, P) ==
    [i \in DOMAIN s |-> IF Is(s, i, P) THEN <<s[i], s[i]>> ELSE <<s[i]>>]
DblNext(s, P) ==
    [i \in DOMAIN s |-> IF Is(s, i, P) /\ Is(s, i + 1, P) THEN i + 2 ELSE i + 1]
Dbl(s, P) == Loop(Len(s), DblOut(s, P), DblNext(s, P))

FmtOut(s, P) ==
    [i \in DOMAIN s |-> IF Is(s, i, P) /\ ~Is(s, i + 1, P)
                        THEN <<Garbled>> ELSE <<s[i]>>]
FmtNext(s, P) ==
    [i \in DOMAIN s |-> IF ~Is(s, i, P) THEN i + 1
                        ELSE IF Is(s, i + 1, P) THEN i + 2 ELSE Len(s) + 1]
Fmt(s, P) == Loop(Len(s), FmtOut(s, P), FmtNext(s, P))

SglOut(s) == [i \in DOMAIN s |-> <<s[i]>>]
Sgl(s, P) == Loop(Len(s), SglOut(s), DblNext(s, P))

\* How many characters of s the first turn of a loop takes.
Taken(s, P) == IF Is(s, 1, P) /\ Is(s, 2, P) THEN 2 ELSE 1

\* Percent signs are where they were.
LEMMA DropPercents ==
    ASSUME NEW S, NEW s \in Seq(S), NEW k \in 0..Len(s), NEW P,
           NEW i \in 1..(Len(s) - k)
    PROVE  /\ Drop(s, k)[i] = s[i + k]
           /\ Is(Drop(s, k), i, P) <=> Is(s, i + k, P)
           /\ Is(Drop(s, k), i + 1, P) <=> Is(s, i + 1 + k, P)
<1>1. /\ Len(s) \in Nat /\ DOMAIN s = 1..Len(s)
      /\ DOMAIN Drop(s, k) = 1..(Len(s) - k)
      /\ \A j \in 1..(Len(s) - k) : Drop(s, k)[j] = s[j + k]
  BY DropIs, LenProperties
<1>2. i + k \in 1..Len(s) /\ i + 1 \in Nat
  BY <1>1
<1>3. i + 1 \in 1..(Len(s) - k) <=> i + 1 + k \in 1..Len(s)
  BY <1>1
<1> QED
  BY <1>1, <1>2, <1>3 DEF Is

\* One turn of bcirc_escape_buf's loop.
LEMMA DblEmpty == ASSUME NEW P PROVE Dbl(<<>>, P) = <<>>
<1>1. Len(<<>>) = 0
  OBVIOUS
<1> QED
  BY <1>1, LoopEmpty DEF Dbl

\* One or two characters are taken, and what is left is doubled likewise.
LEMMA DblStep ==
    ASSUME NEW S, NEW s \in Seq(S), s # <<>>, NEW P
    PROVE  /\ Taken(s, P) \in 1..Len(s)
           /\ Dbl(s, P) = (IF s[1] \in P THEN <<s[1], s[1]>> ELSE <<s[1]>>)
                              \o Dbl(Drop(s, Taken(s, P)), P)
<1>1. Len(s) \in Nat /\ Len(s) > 0 /\ DOMAIN s = 1..Len(s) /\ 1 \in 1..Len(s)
  BY EmptySeq, LenProperties
<1>2. Forward(Len(s), DblNext(s, P))
  BY <1>1 DEF Forward, DblNext, Is
<1> DEFINE k == Taken(s, P)
           t == Drop(s, k)
<1>3. k \in 1..Len(s) /\ DblNext(s, P)[1] = k + 1
  BY <1>1 DEF Taken, DblNext, Is
<1> HIDE DEF k
<1>4. k \in 0..Len(s)
  BY <1>1, <1>3
<1>5. Len(t) = Len(s) - k /\ Len(t) \in Nat /\ DOMAIN t = 1..Len(t)
<2>1. t \in Seq(S) /\ Len(t) = Len(s) - k
  BY <1>4, DropIs
<2> HIDE DEF t
<2> QED
  BY <2>1, LenProperties
<1>6. \A i \in 1..Len(t) : /\ DblOut(t, P)[i] = DblOut(s, P)[i + k]
                           /\ DblNext(t, P)[i] = DblNext(s, P)[i + k] - k
  <2> SUFFICES ASSUME NEW i \in 1..Len(t)
               PROVE  /\ DblOut(t, P)[i] = DblOut(s, P)[i + k]
                      /\ DblNext(t, P)[i] = DblNext(s, P)[i + k] - k
    OBVIOUS
  <2>1. /\ t[i] = s[i + k]
        /\ Is(t, i, P) <=> Is(s, i + k, P)
        /\ Is(t, i + 1, P) <=> Is(s, i + 1 + k, P)
    BY <1>4, <1>5, DropPercents
  <2>2. i \in Nat /\ k \in Nat /\ i \in DOMAIN t /\ i + k \in DOMAIN s /\ i + 1 + k = i + k + 1
        /\ i + 2 = i + k + 2 - k /\ i + 1 = i + k + 1 - k
    BY <1>1, <1>3, <1>5
  <2> HIDE DEF t
  <2>3. DblOut(t, P)[i] = DblOut(s, P)[i + k]
    BY <2>1, <2>2 DEF DblOut
  <2>4. /\ DblNext(t, P)[i] = IF Is(t, i, P) /\ Is(t, i + 1, P) THEN i + 2 ELSE i + 1
        /\ DblNext(s, P)[i + k] = IF Is(s, i + k, P) /\ Is(s, i + k + 1, P)
                                   THEN i + k + 2 ELSE i + k + 1
    BY <2>2 DEF DblNext
  <2>5. DblNext(t, P)[i] = DblNext(s, P)[i + k] - k
    <3>0. Is(s, i + k, P) /\ Is(s, i + k + 1, P) <=> Is(t, i, P) /\ Is(t, i + 1, P)
      BY <2>1, <2>2
    <3>1. CASE Is(t, i, P) /\ Is(t, i + 1, P)
      BY <2>2, <2>4, <3>0, <3>1
    <3>2. CASE ~(Is(t, i, P) /\ Is(t, i + 1, P))
      BY <2>2, <2>4, <3>0, <3>2
    <3> QED
      BY <3>1, <3>2
  <2> QED
    BY <2>3, <2>5
<1>7. DblOut(s, P)[1] = IF s[1] \in P THEN <<s[1], s[1]>> ELSE <<s[1]>>
  BY <1>1 DEF DblOut, Is
<1>8. Continues(Len(t), k, DblOut(s, P), DblNext(s, P), DblOut(t, P), DblNext(t, P))
  BY <1>6 DEF Continues
<1>9. Loop(Len(s), DblOut(s, P), DblNext(s, P))
         = DblOut(s, P)[1] \o Loop(Len(t), DblOut(t, P), DblNext(t, P))
  <2> HIDE DEF t
  <2>1. Len(t) \in Nat /\ k \in Nat /\ k > 0 /\ Len(s) = Len(t) + k
    BY <1>1, <1>3, <1>5
  <2>2. Forward(Len(t) + k, DblNext(s, P))
    BY <1>2, <2>1
  <2> QED
    BY <1>3, <1>8, <2>1, <2>2, LoopStep
<1> QED
  BY <1>3, <1>7, <1>9 DEF Dbl, k

\* One turn of the format's loop.
LEMMA FmtEmpty == ASSUME NEW P PROVE Fmt(<<>>, P) = <<>>
<1>1. Len(<<>>) = 0
  OBVIOUS
<1> QED
  BY <1>1, LoopEmpty DEF Fmt

FmtTaken(s, P) ==
    IF ~Is(s, 1, P) THEN 1 ELSE IF Is(s, 2, P) THEN 2 ELSE Len(s)

\* A lone percent sign is garbled and ends it, all else is written as one character.
LEMMA FmtStep ==
    ASSUME NEW S, NEW s \in Seq(S), s # <<>>, NEW P
    PROVE  /\ FmtTaken(s, P) \in 1..Len(s)
           /\ Fmt(s, P) = (IF Is(s, 1, P) /\ ~Is(s, 2, P) THEN <<Garbled>> ELSE <<s[1]>>)
                              \o Fmt(Drop(s, FmtTaken(s, P)), P)
<1>1. Len(s) \in Nat /\ Len(s) > 0 /\ DOMAIN s = 1..Len(s) /\ 1 \in 1..Len(s)
  BY EmptySeq, LenProperties
<1>2. Forward(Len(s), FmtNext(s, P))
  BY <1>1 DEF Forward, FmtNext, Is
<1> DEFINE k == FmtTaken(s, P)
           t == Drop(s, k)
<1>3. k \in 1..Len(s) /\ FmtNext(s, P)[1] = k + 1
  BY <1>1 DEF FmtTaken, FmtNext, Is
<1> HIDE DEF k
<1>4. k \in 0..Len(s)
  BY <1>1, <1>3
<1>5. Len(t) = Len(s) - k /\ Len(t) \in Nat /\ DOMAIN t = 1..Len(t)
<2>1. t \in Seq(S) /\ Len(t) = Len(s) - k
  BY <1>4, DropIs
<2> HIDE DEF t
<2> QED
  BY <2>1, LenProperties
<1>6. \A i \in 1..Len(t) : /\ FmtOut(t, P)[i] = FmtOut(s, P)[i + k]
                           /\ FmtNext(t, P)[i] = FmtNext(s, P)[i + k] - k
  <2> SUFFICES ASSUME NEW i \in 1..Len(t)
               PROVE  /\ FmtOut(t, P)[i] = FmtOut(s, P)[i + k]
                      /\ FmtNext(t, P)[i] = FmtNext(s, P)[i + k] - k
    OBVIOUS
  <2>1. /\ t[i] = s[i + k]
        /\ Is(t, i, P) <=> Is(s, i + k, P)
        /\ Is(t, i + 1, P) <=> Is(s, i + 1 + k, P)
    BY <1>4, <1>5, DropPercents
  <2>2. /\ i \in Nat /\ k \in Nat /\ i \in DOMAIN t /\ i + k \in DOMAIN s
        /\ i + 1 + k = i + k + 1
        /\ i + 2 = i + k + 2 - k /\ i + 1 = i + k + 1 - k
        /\ Len(t) + 1 = Len(s) + 1 - k
    BY <1>1, <1>3, <1>5
  <2> HIDE DEF t
  <2>0. Is(s, i + 1 + k, P) <=> Is(s, i + k + 1, P)
    BY <2>2
  <2>3. FmtOut(t, P)[i] = FmtOut(s, P)[i + k]
    BY <2>0, <2>1, <2>2 DEF FmtOut
  <2>4. /\ FmtNext(t, P)[i] = IF ~Is(t, i, P) THEN i + 1
                              ELSE IF Is(t, i + 1, P) THEN i + 2 ELSE Len(t) + 1
        /\ FmtNext(s, P)[i + k] = IF ~Is(s, i + k, P) THEN i + k + 1
                                  ELSE IF Is(s, i + k + 1, P) THEN i + k + 2
                                  ELSE Len(s) + 1
    BY <2>2 DEF FmtNext
  <2>5. FmtNext(t, P)[i] = FmtNext(s, P)[i + k] - k
    <3>1. CASE ~Is(t, i, P)
      BY <2>1, <2>2, <2>4, <3>1
    <3>2. CASE Is(t, i, P) /\ Is(t, i + 1, P)
      BY <2>0, <2>1, <2>2, <2>4, <3>2
    <3>3. CASE Is(t, i, P) /\ ~Is(t, i + 1, P)
      BY <2>0, <2>1, <2>2, <2>4, <3>3
    <3> QED
      BY <3>1, <3>2, <3>3
  <2> QED
    BY <2>3, <2>5
<1>7. FmtOut(s, P)[1] = IF Is(s, 1, P) /\ ~Is(s, 2, P) THEN <<Garbled>> ELSE <<s[1]>>
  BY <1>1 DEF FmtOut
<1>8. Continues(Len(t), k, FmtOut(s, P), FmtNext(s, P), FmtOut(t, P), FmtNext(t, P))
  BY <1>6 DEF Continues
<1>9. Loop(Len(s), FmtOut(s, P), FmtNext(s, P))
         = FmtOut(s, P)[1] \o Loop(Len(t), FmtOut(t, P), FmtNext(t, P))
  <2> HIDE DEF t
  <2>1. Len(t) \in Nat /\ k \in Nat /\ k > 0 /\ Len(s) = Len(t) + k
    BY <1>1, <1>3, <1>5
  <2>2. Forward(Len(t) + k, FmtNext(s, P))
    BY <1>2, <2>1
  <2> QED
    BY <1>3, <1>8, <2>1, <2>2, LoopStep
<1> QED
  BY <1>3, <1>7, <1>9 DEF Fmt, k

\* One turn of the loop that leaves out the second of two percent signs.
LEMMA SglEmpty == ASSUME NEW P PROVE Sgl(<<>>, P) = <<>>
<1>1. Len(<<>>) = 0
  OBVIOUS
<1> QED
  BY <1>1, LoopEmpty DEF Sgl

\* As many characters are taken as where they are doubled, and one is kept.
LEMMA SglStep ==
    ASSUME NEW S, NEW s \in Seq(S), s # <<>>, NEW P
    PROVE  Sgl(s, P) = <<s[1]>> \o Sgl(Drop(s, Taken(s, P)), P)
<1>1. Len(s) \in Nat /\ Len(s) > 0 /\ DOMAIN s = 1..Len(s) /\ 1 \in 1..Len(s)
  BY EmptySeq, LenProperties
<1>2. Forward(Len(s), DblNext(s, P))
  BY <1>1 DEF Forward, DblNext, Is
<1> DEFINE k == Taken(s, P)
           t == Drop(s, k)
<1>3. k \in 1..Len(s) /\ DblNext(s, P)[1] = k + 1
  BY <1>1 DEF Taken, DblNext, Is
<1> HIDE DEF k
<1>4. k \in 0..Len(s)
  BY <1>1, <1>3
<1>5. Len(t) = Len(s) - k /\ Len(t) \in Nat /\ DOMAIN t = 1..Len(t)
<2>1. t \in Seq(S) /\ Len(t) = Len(s) - k
  BY <1>4, DropIs
<2> HIDE DEF t
<2> QED
  BY <2>1, LenProperties
<1>6. \A i \in 1..Len(t) : /\ SglOut(t)[i] = SglOut(s)[i + k]
                           /\ DblNext(t, P)[i] = DblNext(s, P)[i + k] - k
  <2> SUFFICES ASSUME NEW i \in 1..Len(t)
               PROVE  /\ SglOut(t)[i] = SglOut(s)[i + k]
                      /\ DblNext(t, P)[i] = DblNext(s, P)[i + k] - k
    OBVIOUS
  <2>1. /\ t[i] = s[i + k]
        /\ Is(t, i, P) <=> Is(s, i + k, P)
        /\ Is(t, i + 1, P) <=> Is(s, i + 1 + k, P)
    BY <1>4, <1>5, DropPercents
  <2>2. i \in Nat /\ k \in Nat /\ i \in DOMAIN t /\ i + k \in DOMAIN s /\ i + 1 + k = i + k + 1
        /\ i + 2 = i + k + 2 - k /\ i + 1 = i + k + 1 - k
    BY <1>1, <1>3, <1>5
  <2> HIDE DEF t
  <2>3. SglOut(t)[i] = SglOut(s)[i + k]
    BY <2>1, <2>2 DEF SglOut
  <2>4. /\ DblNext(t, P)[i] = IF Is(t, i, P) /\ Is(t, i + 1, P) THEN i + 2 ELSE i + 1
        /\ DblNext(s, P)[i + k] = IF Is(s, i + k, P) /\ Is(s, i + k + 1, P)
                                   THEN i + k + 2 ELSE i + k + 1
    BY <2>2 DEF DblNext
  <2>5. DblNext(t, P)[i] = DblNext(s, P)[i + k] - k
    <3>0. Is(s, i + k, P) /\ Is(s, i + k + 1, P) <=> Is(t, i, P) /\ Is(t, i + 1, P)
      BY <2>1, <2>2
    <3>1. CASE Is(t, i, P) /\ Is(t, i + 1, P)
      BY <2>2, <2>4, <3>0, <3>1
    <3>2. CASE ~(Is(t, i, P) /\ Is(t, i + 1, P))
      BY <2>2, <2>4, <3>0, <3>2
    <3> QED
      BY <3>1, <3>2
  <2> QED
    BY <2>3, <2>5
<1>7. SglOut(s)[1] = <<s[1]>>
  BY <1>1 DEF SglOut
<1>8. Continues(Len(t), k, SglOut(s), DblNext(s, P), SglOut(t), DblNext(t, P))
  BY <1>6 DEF Continues
<1>9. Loop(Len(s), SglOut(s), DblNext(s, P))
         = SglOut(s)[1] \o Loop(Len(t), SglOut(t), DblNext(t, P))
  <2> HIDE DEF t
  <2>1. Len(t) \in Nat /\ k \in Nat /\ k > 0 /\ Len(s) = Len(t) + k
    BY <1>1, <1>3, <1>5
  <2>2. Forward(Len(t) + k, DblNext(s, P))
    BY <1>2, <2>1
  <2> QED
    BY <1>3, <1>8, <2>1, <2>2, LoopStep
<1> QED
  BY <1>7, <1>9 DEF Sgl, k

-----------------------------------------------------------------------------
(* Sequences put together and taken apart. *)

LEMMA Single ==
    ASSUME NEW S, NEW c \in S
    PROVE  <<c>> \in Seq(S) /\ Len(<<c>>) = 1 /\ <<c>>[1] = c /\ <<c>> # <<>>
  OBVIOUS

CatLeft(u, v, w) == (u \o v) \o w
CatRight(u, v, w) == u \o (v \o w)

\* Concatenation is associative; the operators name its two sides.
LEMMA Associative ==
    ASSUME NEW S, NEW u \in Seq(S), NEW v \in Seq(S), NEW w \in Seq(S)
    PROVE  CatLeft(u, v, w) = CatRight(u, v, w)
  BY DEF CatLeft, CatRight

\* Only the empty sequence has no length.
LEMMA NonEmpty ==
    ASSUME NEW S, NEW s \in Seq(S)
    PROVE  s # <<>> <=> Len(s) > 0
  BY EmptySeq, LenProperties

\* What holds something is not empty.
LEMMA ConcatNonEmpty ==
    ASSUME NEW S, NEW u \in Seq(S), NEW v \in Seq(S), u # <<>> \/ v # <<>>
    PROVE  u \o v # <<>>
  BY ConcatEqualIffEmpty

\* Nothing and everything is dropped.
LEMMA DropAll ==
    ASSUME NEW S, NEW s \in Seq(S)
    PROVE  Drop(s, 0) = s /\ Drop(s, Len(s)) = <<>>
<1>1. Len(s) \in Nat
  BY LenProperties
<1>2. 0 \in 0..Len(s) /\ Len(s) \in 0..Len(s)
  BY <1>1
<1>3. /\ Drop(s, 0) \in Seq(S) /\ Len(Drop(s, 0)) = Len(s) - 0
      /\ \A i \in 1..(Len(s) - 0) : Drop(s, 0)[i] = s[i + 0]
      /\ Drop(s, Len(s)) \in Seq(S) /\ Len(Drop(s, Len(s))) = Len(s) - Len(s)
  BY <1>2, DropIs
<1>4. Len(Drop(s, 0)) = Len(s) /\ \A i \in 1..Len(s) : Drop(s, 0)[i] = s[i]
  BY <1>1, <1>3
<1>5. Drop(s, 0) = s
  <2> HIDE DEF Drop
  <2> QED
    BY <1>3, <1>4, SeqEqual
<1>6. ~(Len(Drop(s, Len(s))) > 0)
  BY <1>1, <1>3
<1> QED
  BY <1>3, <1>5, <1>6, NonEmpty

\* Only the first of two is dropped from.
LEMMA DropConcat ==
    ASSUME NEW S, NEW u \in Seq(S), NEW v \in Seq(S), NEW k \in 0..Len(u)
    PROVE  Drop(u \o v, k) = Drop(u, k) \o v
<1>1. Len(u) \in Nat /\ Len(v) \in Nat
  BY LenProperties
<1>2. /\ u \o v \in Seq(S) /\ Len(u \o v) = Len(u) + Len(v)
      /\ \A i \in 1..Len(u) + Len(v) :
            (u \o v)[i] = IF i <= Len(u) THEN u[i] ELSE v[i - Len(u)]
  BY ConcatProperties
<1>3. k \in 0..Len(u \o v)
  BY <1>1, <1>2
<1>4. /\ Drop(u \o v, k) \in Seq(S) /\ Len(Drop(u \o v, k)) = Len(u \o v) - k
      /\ \A i \in 1..(Len(u \o v) - k) : Drop(u \o v, k)[i] = (u \o v)[i + k]
  BY <1>2, <1>3, DropIs
<1>5. /\ Drop(u, k) \in Seq(S) /\ Len(Drop(u, k)) = Len(u) - k
      /\ \A i \in 1..(Len(u) - k) : Drop(u, k)[i] = u[i + k]
  BY DropIs
<1>6. /\ Drop(u, k) \o v \in Seq(S)
      /\ Len(Drop(u, k) \o v) = Len(Drop(u, k)) + Len(v)
      /\ \A i \in 1..Len(Drop(u, k)) + Len(v) :
            (Drop(u, k) \o v)[i] =
                IF i <= Len(Drop(u, k)) THEN Drop(u, k)[i] ELSE v[i - Len(Drop(u, k))]
  BY <1>5, ConcatProperties
<1> HIDE DEF Drop
<1>7. Len(Drop(u \o v, k)) = Len(Drop(u, k) \o v)
  BY <1>1, <1>2, <1>4, <1>5, <1>6
<1>8. \A i \in 1..Len(Drop(u \o v, k)) : Drop(u \o v, k)[i] = (Drop(u, k) \o v)[i]
  <2> SUFFICES ASSUME NEW i \in 1..Len(Drop(u \o v, k))
               PROVE  Drop(u \o v, k)[i] = (Drop(u, k) \o v)[i]
    OBVIOUS
  <2>1. i \in Nat /\ i > 0 /\ i + k <= Len(u) + Len(v)
    BY <1>1, <1>2, <1>4
  <2>2. Drop(u \o v, k)[i] = (u \o v)[i + k] /\ i + k \in 1..Len(u) + Len(v)
    BY <1>1, <1>2, <1>4, <2>1
  <2>3. i \in 1..Len(Drop(u, k)) + Len(v)
    BY <1>1, <1>5, <2>1
  <2>4. CASE i + k <= Len(u)
    <3>1. i \in 1..(Len(u) - k) /\ i <= Len(Drop(u, k))
      BY <1>1, <1>5, <2>1, <2>4
    <3>2. (u \o v)[i + k] = u[i + k]
      BY <1>2, <2>2, <2>4
    <3>3. (Drop(u, k) \o v)[i] = Drop(u, k)[i]
      BY <1>6, <2>3, <3>1
    <3> QED
      BY <1>5, <2>2, <3>1, <3>2, <3>3
  <2>5. CASE ~(i + k <= Len(u))
    <3>1. ~(i <= Len(Drop(u, k))) /\ i - Len(Drop(u, k)) = i + k - Len(u)
      BY <1>1, <1>5, <2>1, <2>5
    <3>2. (u \o v)[i + k] = v[i + k - Len(u)]
      BY <1>2, <2>2, <2>5
    <3>3. (Drop(u, k) \o v)[i] = v[i - Len(Drop(u, k))]
      BY <1>6, <2>3, <3>1
    <3> QED
      BY <2>2, <3>1, <3>2, <3>3
  <2> QED
    BY <2>4, <2>5
<1> QED
  BY <1>4, <1>6, <1>7, <1>8, SeqEqual

\* The first of two is dropped.
LEMMA DropFirst ==
    ASSUME NEW S, NEW u \in Seq(S), NEW v \in Seq(S)
    PROVE  Drop(u \o v, Len(u)) = v
<1>1. Len(u) \in 0..Len(u)
  BY LenProperties
<1>2. Drop(u \o v, Len(u)) = Drop(u, Len(u)) \o v
  BY <1>1, DropConcat
<1> QED
  BY <1>2, DropAll, ConcatEmptySeq

\* A sequence is its first k entries and the others.
LEMMA SplitAt ==
    ASSUME NEW S, NEW s \in Seq(S), NEW k \in 0..Len(s)
    PROVE  /\ SubSeq(s, 1, k) \in Seq(S)
           /\ Len(SubSeq(s, 1, k)) = k
           /\ \A i \in 1..k : SubSeq(s, 1, k)[i] = s[i]
           /\ s = SubSeq(s, 1, k) \o Drop(s, k)
<1>1. Len(s) \in Nat
  BY LenProperties
<1>2. 1 \in Int /\ k \in Int /\ \A i \in 1..k : s[i] \in S
  BY <1>1, ElementOfSeq
<1>3. /\ SubSeq(s, 1, k) \in Seq(S)
      /\ Len(SubSeq(s, 1, k)) = IF 1 <= k THEN k - 1 + 1 ELSE 0
      /\ \A i \in 1..(k - 1 + 1) : SubSeq(s, 1, k)[i] = s[1 + i - 1]
  BY <1>2, SubSeqProperties
<1>4. Len(SubSeq(s, 1, k)) = k /\ \A i \in 1..k : SubSeq(s, 1, k)[i] = s[i]
  BY <1>1, <1>3
<1>5. SubSeq(s, 1, k) \o SubSeq(s, k + 1, Len(s)) = SubSeq(s, 1, Len(s))
  <2>1. 1 \in 1..(Len(s) + 1) /\ k \in (1 - 1)..Len(s) /\ Len(s) \in k..Len(s)
    BY <1>1
  <2> QED
    BY <2>1, ConcatAdjacentSubSeq
<1>6. SubSeq(s, 1, Len(s)) = s
  BY SubSeqFull
<1> QED
  BY <1>3, <1>4, <1>5, <1>6 DEF Drop

\* All entries but the last.
LEMMA FrontIs ==
    ASSUME NEW S, NEW s \in Seq(S), s # <<>>
    PROVE  /\ Front(s) \in Seq(S)
           /\ Len(Front(s)) = Len(s) - 1
           /\ \A i \in 1..(Len(s) - 1) : Front(s)[i] = s[i]
           /\ Last(s) \in S
<1>1. Len(s) - 1 \in 0..Len(s) /\ Len(s) \in 1..Len(s)
  BY NonEmpty, LenProperties
<1> QED
  BY <1>1, SplitAt, ElementOfSeq DEF Front, Last

\* The last entry of two sequences is that of the second.
LEMMA FrontConcat ==
    ASSUME NEW S, NEW u \in Seq(S), NEW v \in Seq(S), v # <<>>
    PROVE  /\ Front(u \o v) = u \o Front(v)
           /\ Last(u \o v) = Last(v)
<1>1. Len(u) \in Nat /\ Len(v) \in Nat /\ Len(v) > 0
  BY NonEmpty, LenProperties
<1>2. /\ u \o v \in Seq(S) /\ Len(u \o v) = Len(u) + Len(v)
      /\ \A i \in 1..Len(u) + Len(v) :
            (u \o v)[i] = IF i <= Len(u) THEN u[i] ELSE v[i - Len(u)]
  BY ConcatProperties
<1>3. u \o v # <<>>
  BY ConcatNonEmpty
<1>4. /\ Front(u \o v) \in Seq(S) /\ Len(Front(u \o v)) = Len(u \o v) - 1
      /\ \A i \in 1..(Len(u \o v) - 1) : Front(u \o v)[i] = (u \o v)[i]
  BY <1>2, <1>3, FrontIs
<1>5. /\ Front(v) \in Seq(S) /\ Len(Front(v)) = Len(v) - 1
      /\ \A i \in 1..(Len(v) - 1) : Front(v)[i] = v[i]
  BY FrontIs
<1>6. /\ u \o Front(v) \in Seq(S) /\ Len(u \o Front(v)) = Len(u) + Len(Front(v))
      /\ \A i \in 1..Len(u) + Len(Front(v)) :
            (u \o Front(v))[i] = IF i <= Len(u) THEN u[i] ELSE Front(v)[i - Len(u)]
  BY <1>5, ConcatProperties
<1> HIDE DEF Front
<1>7. Len(Front(u \o v)) = Len(u \o Front(v))
  BY <1>1, <1>2, <1>4, <1>5, <1>6
<1>8. \A i \in 1..Len(Front(u \o v)) : Front(u \o v)[i] = (u \o Front(v))[i]
  <2> SUFFICES ASSUME NEW i \in 1..Len(Front(u \o v))
               PROVE  Front(u \o v)[i] = (u \o Front(v))[i]
    OBVIOUS
  <2>1. i \in Nat /\ i > 0 /\ i <= Len(u) + Len(v) - 1
    BY <1>1, <1>2, <1>4
  <2>2. Front(u \o v)[i] = IF i <= Len(u) THEN u[i] ELSE v[i - Len(u)]
    BY <1>1, <1>2, <1>4, <2>1, SMTT(40)
  <2>3. (u \o Front(v))[i] = IF i <= Len(u) THEN u[i] ELSE Front(v)[i - Len(u)]
    BY <1>1, <1>5, <1>6, <2>1
  <2>4. ~(i <= Len(u)) => i - Len(u) \in 1..(Len(v) - 1)
    BY <1>1, <2>1
  <2> QED
    BY <1>5, <2>2, <2>3, <2>4
<1>9. Last(u \o v) = Last(v)
  <2>1. Len(u) + Len(v) \in 1..Len(u) + Len(v) /\ ~(Len(u) + Len(v) <= Len(u))
        /\ Len(u) + Len(v) - Len(u) = Len(v)
    BY <1>1
  <2> QED
    BY <1>2, <2>1 DEF Last
<1> QED
  BY <1>4, <1>6, <1>7, <1>8, <1>9, SeqEqual

\* One entry is the last.
LEMMA FrontSingle == ASSUME NEW c PROVE Front(<<c>>) = <<>>
<1>1. <<c>> \in Seq({c}) /\ Len(<<c>>) = 1
  BY Single
<1> QED
  BY <1>1, SubSeqEmpty DEF Front

-----------------------------------------------------------------------------
(* What is doubled. *)

Copy(c, P) == IF c \in P THEN <<c, c>> ELSE <<c>>

\* One character becomes one or two.
LEMMA CopyIs ==
    ASSUME NEW S, NEW c \in S, NEW P
    PROVE  /\ Copy(c, P) \in Seq(S) /\ Copy(c, P) # <<>>
           /\ Len(Copy(c, P)) \in Nat /\ Len(Copy(c, P)) > 0
           /\ Len(Copy(c, P)) <= 2 /\ Copy(c, P)[1] = c
<1>1. <<c>> \in Seq(S) /\ <<c, c>> \in Seq(S)
  OBVIOUS
<1>2. Len(<<c>>) = 1 /\ Len(<<c, c>>) = 2 /\ <<c>>[1] = c /\ <<c, c>>[1] = c
  OBVIOUS
<1>3. <<c>> # <<>> /\ <<c, c>> # <<>>
  BY <1>1, <1>2, NonEmpty
<1> QED
  BY <1>1, <1>2, <1>3 DEF Copy

\* The first turn of the loop in bcirc_escape_buf, and what it leaves.
Rest(u, P) == Drop(u, Taken(u, P))

\* The first turn, by what it copies and what it leaves.
LEMMA DblHead ==
    ASSUME NEW S, NEW u \in Seq(S), u # <<>>, NEW P
    PROVE  /\ u[1] \in S
           /\ Rest(u, P) \in Seq(S)
           /\ Taken(u, P) \in 1..Len(u)
           /\ Len(Rest(u, P)) = Len(u) - Taken(u, P)
           /\ Len(Rest(u, P)) < Len(u)
           /\ \A i \in 1..Len(Rest(u, P)) : Rest(u, P)[i] = u[i + Taken(u, P)]
           /\ Dbl(u, P) = Copy(u[1], P) \o Dbl(Rest(u, P), P)
<1> DEFINE k == Taken(u, P)
<1>1. Len(u) \in Nat /\ Len(u) > 0
  BY LenProperties, NonEmpty
<1>2. k \in 1..Len(u) /\ Dbl(u, P) = Copy(u[1], P) \o Dbl(Drop(u, k), P)
  BY DblStep DEF Copy
<1> HIDE DEF k
<1>3. k \in 0..Len(u) /\ 1 \in 1..Len(u)
  BY <1>1, <1>2
<1>4. /\ Drop(u, k) \in Seq(S) /\ Len(Drop(u, k)) = Len(u) - k
      /\ \A i \in 1..(Len(u) - k) : Drop(u, k)[i] = u[i + k]
  BY <1>3, DropIs
<1>5. Len(u) - k < Len(u)
  BY <1>1, <1>2
<1> QED
  BY <1>2, <1>3, <1>4, <1>5, ElementOfSeq DEF Rest, k

\* The same turn where the second of two percent signs is left out.
LEMMA SglHead ==
    ASSUME NEW S, NEW u \in Seq(S), u # <<>>, NEW P
    PROVE  Sgl(u, P) = <<u[1]>> \o Sgl(Rest(u, P), P)
  BY SglStep DEF Rest

\* What is left of a text is made of its characters, the first among them.
LEMMA SglTyped ==
    ASSUME NEW S, NEW s \in Seq(S), NEW P
    PROVE  Sgl(s, P) \in Seq(S) /\ (s # <<>> => Sgl(s, P) # <<>>)
<1> DEFINE Bad == {u \in Seq(S) : Sgl(u, P) \notin Seq(S)}
<1>1. Bad = {}
  <2> SUFFICES ASSUME Bad # {} PROVE FALSE
    OBVIOUS
  <2>1. PICK u \in Bad : \A v \in Bad : Len(u) <= Len(v)
    <3>1. Bad \subseteq Seq(S)
      OBVIOUS
    <3> HIDE DEF Bad
    <3> QED
      BY <3>1, Shortest
  <2>2. u \in Seq(S) /\ Sgl(u, P) \notin Seq(S)
    BY <2>1
  <2>3. u # <<>>
    <3> SUFFICES ASSUME u = <<>> PROVE FALSE
      OBVIOUS
    <3> QED
      BY <2>2, SglEmpty, EmptySeq
  <2> DEFINE r == Rest(u, P)
  <2>4. u[1] \in S /\ r \in Seq(S) /\ Len(r) < Len(u) /\ Sgl(u, P) = <<u[1]>> \o Sgl(r, P)
    BY <2>2, <2>3, DblHead, SglHead
  <2>5. r \notin Bad
    <3>1. Len(r) \in Nat /\ Len(u) \in Nat
      BY <2>2, <2>4, LenProperties
    <3> HIDE DEF Bad, r
    <3> QED
      BY <2>1, <2>4, <3>1
  <2>6. Sgl(r, P) \in Seq(S) /\ <<u[1]>> \in Seq(S)
    BY <2>4, <2>5, Single
  <2> HIDE DEF Bad, r
  <2>7. <<u[1]>> \o Sgl(r, P) \in Seq(S)
    BY <2>6, ConcatProperties
  <2> QED
    BY <2>2, <2>4, <2>7
<1>2. Sgl(s, P) \in Seq(S)
  BY <1>1
<1>3. ASSUME s # <<>> PROVE Sgl(s, P) # <<>>
  <2> DEFINE r == Rest(s, P)
  <2>1. s[1] \in S /\ r \in Seq(S) /\ Sgl(s, P) = <<s[1]>> \o Sgl(r, P)
    BY <1>3, DblHead, SglHead
  <2>2. Sgl(r, P) \in Seq(S) /\ <<s[1]>> \in Seq(S) /\ <<s[1]>> # <<>>
    BY <1>1, <2>1, Single
  <2> HIDE DEF r
  <2> QED
    BY <2>1, <2>2, ConcatNonEmpty
<1> QED
  BY <1>2, <1>3

\* The copy holds nothing new and is at most twice as long.
LEMMA DblTyped ==
    ASSUME NEW S, NEW s \in Seq(S), NEW P
    PROVE  Dbl(s, P) \in Seq(S) /\ Len(Dbl(s, P)) <= 2 * Len(s)
<1> DEFINE Bad == {u \in Seq(S) : ~(Dbl(u, P) \in Seq(S) /\ Len(Dbl(u, P)) <= 2 * Len(u))}
<1>1. SUFFICES ASSUME Bad # {} PROVE FALSE
  OBVIOUS
<1>2. PICK u \in Bad : \A v \in Bad : Len(u) <= Len(v)
  <2>1. Bad \subseteq Seq(S)
    OBVIOUS
  <2> HIDE DEF Bad
  <2> QED
    BY <1>1, <2>1, Shortest
<1>3. u \in Seq(S) /\ ~(Dbl(u, P) \in Seq(S) /\ Len(Dbl(u, P)) <= 2 * Len(u))
  BY <1>2
<1>4. CASE u = <<>>
  <2>1. Dbl(u, P) = <<>> /\ Len(u) = 0
    BY <1>4, DblEmpty, EmptySeq
  <2>2. Dbl(u, P) \in Seq(S) /\ Len(Dbl(u, P)) = 0
    BY <2>1, EmptySeq
  <2> QED
    BY <1>3, <2>1, <2>2
<1>5. CASE u # <<>>
  <2> DEFINE r == Rest(u, P)
             d == Dbl(r, P)
             c == Copy(u[1], P)
  <2>1. /\ u[1] \in S /\ r \in Seq(S) /\ Len(r) < Len(u)
        /\ Taken(u, P) \in 1..Len(u) /\ Len(r) = Len(u) - Taken(u, P)
        /\ Dbl(u, P) = c \o d
    BY <1>3, <1>5, DblHead
  <2>2. c \in Seq(S) /\ Len(c) \in Nat /\ Len(c) <= 2
    BY <2>1, CopyIs
  <2>3. r \notin Bad
    <3>1. Len(r) \in Nat /\ Len(u) \in Nat
      BY <1>3, <2>1, LenProperties
    <3> HIDE DEF Bad, r
    <3> QED
      BY <1>2, <2>1, <3>1
  <2>4. d \in Seq(S) /\ Len(d) <= 2 * Len(r)
    BY <2>1, <2>3
  <2> HIDE DEF Bad, r, d, c
  <2>5. Len(u) \in Nat /\ Len(r) \in Nat /\ Len(d) \in Nat
    BY <1>3, <2>1, <2>4, LenProperties
  <2>6. c \o d \in Seq(S) /\ Len(c \o d) = Len(c) + Len(d)
    BY <2>2, <2>4, ConcatProperties
  <2>7. Len(c) + Len(d) <= 2 * Len(u)
    <3>1. Len(r) <= Len(u) - 1
      BY <2>1, <2>5
    <3>2. \A i, j, k, l \in Nat : i <= j - 1 /\ k <= 2 /\ l <= 2 * i => k + l <= 2 * j
      OBVIOUS
    <3> QED
      BY <2>2, <2>4, <2>5, <3>1, <3>2
  <2> QED
    BY <1>3, <2>1, <2>6, <2>7
<1> QED
  BY <1>4, <1>5

\* The copy begins as the text does.
LEMMA DblBegins ==
    ASSUME NEW S, NEW s \in Seq(S), s # <<>>, NEW P
    PROVE  Dbl(s, P) # <<>> /\ Dbl(s, P)[1] = s[1] /\ s[1] \in S
<1> DEFINE r == Rest(s, P)
           d == Dbl(r, P)
           c == Copy(s[1], P)
<1>1. s[1] \in S /\ r \in Seq(S) /\ Dbl(s, P) = c \o d
  BY DblHead
<1>2. d \in Seq(S)
  BY <1>1, DblTyped
<1>3. c \in Seq(S) /\ c # <<>> /\ Len(c) \in Nat /\ Len(c) > 0 /\ c[1] = s[1]
  BY <1>1, CopyIs
<1> HIDE DEF r, d, c
<1>4. Len(d) \in Nat
  BY <1>2, LenProperties
<1>5. c \o d # <<>>
  BY <1>2, <1>3, ConcatNonEmpty
<1>6. \A i \in 1..Len(c) + Len(d) : (c \o d)[i] = IF i <= Len(c) THEN c[i] ELSE d[i - Len(c)]
  BY <1>2, <1>3, ConcatProperties
<1>7. 1 \in 1..Len(c) + Len(d) /\ 1 <= Len(c)
  BY <1>3, <1>4
<1> QED
  BY <1>1, <1>3, <1>5, <1>6, <1>7

\* Nothing that is no percent sign is doubled.
LEMMA DblPlain ==
    ASSUME NEW S, NEW P, S \cap P = {}, NEW s \in Seq(S)
    PROVE  Dbl(s, P) = s
<1> DEFINE Bad == {u \in Seq(S) : Dbl(u, P) # u}
<1>1. SUFFICES ASSUME Bad # {} PROVE FALSE
  OBVIOUS
<1>2. PICK u \in Bad : \A v \in Bad : Len(u) <= Len(v)
  <2>1. Bad \subseteq Seq(S)
    OBVIOUS
  <2> HIDE DEF Bad
  <2> QED
    BY <1>1, <2>1, Shortest
<1>3. u \in Seq(S) /\ Dbl(u, P) # u
  BY <1>2
<1>4. u # <<>>
  BY <1>3, DblEmpty
<1> DEFINE r == Rest(u, P)
<1>5. /\ u[1] \in S /\ r \in Seq(S) /\ Len(r) < Len(u)
      /\ Dbl(u, P) = Copy(u[1], P) \o Dbl(r, P)
  BY <1>3, <1>4, DblHead
<1>6. Dbl(r, P) = r
  <2>1. r \notin Bad
    <3>1. Len(r) \in Nat /\ Len(u) \in Nat
      BY <1>3, <1>5, LenProperties
    <3> HIDE DEF Bad, r
    <3> QED
      BY <1>2, <1>5, <3>1
  <2> QED
    BY <1>5, <2>1
<1>7. Copy(u[1], P) = <<u[1]>> /\ r = Drop(u, 1)
  <2>1. u[1] \notin P
    BY <1>5
  <2> QED
    BY <2>1 DEF Copy, Rest, Taken, Is
<1>8. u = <<u[1]>> \o Drop(u, 1)
  <2>1. Len(u) \in Nat /\ Len(u) > 0
    BY <1>3, <1>4, LenProperties, NonEmpty
  <2>2. 1 \in 0..Len(u) /\ 1 \in 1..Len(u)
    BY <2>1
  <2>3. /\ SubSeq(u, 1, 1) \in Seq(S) /\ Len(SubSeq(u, 1, 1)) = 1
        /\ \A i \in 1..1 : SubSeq(u, 1, 1)[i] = u[i]
        /\ u = SubSeq(u, 1, 1) \o Drop(u, 1)
    BY <1>3, <2>2, SplitAt
  <2>4. <<u[1]>> \in Seq(S) /\ Len(<<u[1]>>) = 1 /\ <<u[1]>>[1] = u[1]
    BY <1>5, Single
  <2>5. SubSeq(u, 1, 1) = <<u[1]>>
    <3>1. \A i \in 1..1 : SubSeq(u, 1, 1)[i] = <<u[1]>>[i]
      BY <2>3, <2>4
    <3> QED
      BY <2>3, <2>4, <3>1, SeqEqual
  <2> QED
    BY <2>3, <2>5
<1> QED
  BY <1>3, <1>5, <1>6, <1>7, <1>8

\* No percent sign of u is followed by one of v.
Apart(u, v, P) == u = <<>> \/ v = <<>> \/ Last(u) \notin P \/ v[1] \notin P

\* Texts that do not meet in two percent signs are copied one by one.
LEMMA DblConcat ==
    ASSUME NEW S, NEW s \in Seq(S), NEW v \in Seq(S), NEW P, Apart(s, v, P)
    PROVE  Dbl(s \o v, P) = Dbl(s, P) \o Dbl(v, P)
<1> DEFINE Bad == {u \in Seq(S) : /\ Apart(u, v, P)
                                  /\ Dbl(u \o v, P) # Dbl(u, P) \o Dbl(v, P)}
<1>1. SUFFICES ASSUME Bad # {} PROVE FALSE
  OBVIOUS
<1>2. PICK u \in Bad : \A x \in Bad : Len(u) <= Len(x)
  <2>1. Bad \subseteq Seq(S)
    OBVIOUS
  <2> HIDE DEF Bad
  <2> QED
    BY <1>1, <2>1, Shortest
<1>3. /\ u \in Seq(S) /\ Apart(u, v, P)
      /\ Dbl(u \o v, P) # Dbl(u, P) \o Dbl(v, P)
  BY <1>2
<1>4. Dbl(v, P) \in Seq(S)
  BY DblTyped
<1>5. u # <<>>
  <2> SUFFICES ASSUME u = <<>> PROVE FALSE
    OBVIOUS
  <2>1. u \o v = v /\ Dbl(u, P) \o Dbl(v, P) = Dbl(v, P)
    BY <1>4, DblEmpty, ConcatEmptySeq
  <2> QED
    BY <1>3, <2>1
<1> DEFINE w == u \o v
           r == Rest(u, P)
           k == Taken(u, P)
<1>6. /\ u[1] \in S /\ r \in Seq(S) /\ Len(r) < Len(u)
      /\ k \in 1..Len(u) /\ Len(r) = Len(u) - k
      /\ \A i \in 1..Len(r) : r[i] = u[i + k]
      /\ Dbl(u, P) = Copy(u[1], P) \o Dbl(r, P)
  BY <1>3, <1>5, DblHead
<1>7. /\ Len(u) \in Nat /\ Len(u) > 0 /\ Len(v) \in Nat /\ Len(r) \in Nat
      /\ DOMAIN u = 1..Len(u) /\ DOMAIN v = 1..Len(v)
  BY <1>3, <1>5, <1>6, LenProperties, NonEmpty
<1>8. /\ w \in Seq(S) /\ Len(w) = Len(u) + Len(v)
      /\ \A i \in 1..Len(u) + Len(v) :
            w[i] = IF i <= Len(u) THEN u[i] ELSE v[i - Len(u)]
  BY <1>3, ConcatProperties
<1>9. w # <<>> /\ DOMAIN w = 1..(Len(u) + Len(v))
  BY <1>3, <1>5, <1>8, ConcatNonEmpty, LenProperties
<1>10. w[1] = u[1]
  BY <1>7, <1>8
<1>11. Taken(w, P) = k
  <2> HIDE DEF w
  <2>1. Is(w, 1, P) <=> Is(u, 1, P)
    BY <1>7, <1>9, <1>10 DEF Is
  <2>2. CASE Len(u) > 1
    <3>1. w[2] = u[2] /\ 2 \in DOMAIN u /\ 2 \in DOMAIN w
      BY <1>7, <1>8, <1>9, <2>2
    <3> QED
      BY <2>1, <3>1 DEF Taken, Is
  <2>3. CASE ~(Len(u) > 1)
    <3>1. Len(u) = 1 /\ 2 \notin DOMAIN u /\ Last(u) = u[1]
      BY <1>7, <2>3 DEF Last
    <3>2. Is(w, 2, P) => v # <<>> /\ v[1] \in P
      <4> SUFFICES ASSUME Is(w, 2, P) PROVE v # <<>> /\ v[1] \in P
        OBVIOUS
      <4>1. 2 \in 1..(Len(u) + Len(v)) /\ w[2] \in P
        BY <1>9 DEF Is
      <4>2. w[2] = v[1] /\ Len(v) > 0
        BY <1>7, <1>8, <3>1, <4>1
      <4> QED
        BY <4>1, <4>2, NonEmpty
    <3>3. ~(Is(w, 1, P) /\ Is(w, 2, P))
      <4>1. Is(w, 1, P) => Last(u) \in P
        BY <1>10, <3>1 DEF Is
      <4> QED
        BY <1>3, <1>5, <3>2, <4>1 DEF Apart
    <3>4. ~(Is(u, 1, P) /\ Is(u, 2, P))
      BY <3>1 DEF Is
    <3> QED
      BY <3>3, <3>4 DEF Taken
  <2> QED
    BY <2>2, <2>3
<1>12. Rest(w, P) = r \o v
  <2>1. k \in 0..Len(u)
    BY <1>6
  <2>2. Drop(u \o v, k) = Drop(u, k) \o v
    <3> HIDE DEF k
    <3> QED
      BY <1>3, <2>1, DropConcat
  <2> QED
    BY <1>11, <2>2 DEF Rest
<1>13. Apart(r, v, P)
  <2> SUFFICES ASSUME r # <<>> PROVE Last(r) = Last(u)
    BY <1>3, <1>5 DEF Apart
  <2> HIDE DEF r, k
  <2>1. Len(r) > 0
    BY <1>6, NonEmpty
  <2>2. Len(r) \in 1..Len(r) /\ Len(r) + k = Len(u)
    BY <1>6, <1>7, <2>1
  <2> QED
    BY <1>6, <2>2 DEF Last
<1>14. Dbl(r \o v, P) = Dbl(r, P) \o Dbl(v, P)
  <2>1. r \notin Bad
    <3> HIDE DEF Bad, r
    <3> QED
      BY <1>2, <1>6, <1>7
  <2> QED
    BY <1>6, <1>13, <2>1
<1>15. Dbl(w, P) = Copy(u[1], P) \o Dbl(Rest(w, P), P)
  <2> HIDE DEF w
  <2> QED
    BY <1>8, <1>9, <1>10, DblHead
<1>16. Copy(u[1], P) \in Seq(S) /\ Dbl(r, P) \in Seq(S)
  BY <1>6, CopyIs, DblTyped
<1>17. Copy(u[1], P) \o (Dbl(r, P) \o Dbl(v, P)) = (Copy(u[1], P) \o Dbl(r, P)) \o Dbl(v, P)
  <2> HIDE DEF r
  <2>1. CatLeft(Copy(u[1], P), Dbl(r, P), Dbl(v, P))
           = CatRight(Copy(u[1], P), Dbl(r, P), Dbl(v, P))
    BY <1>4, <1>16, Associative
  <2> QED
    BY <2>1 DEF CatLeft, CatRight
<1> QED
  BY <1>3, <1>6, <1>12, <1>14, <1>15, <1>17

\* Only the percent signs among the characters of s matter.
LEMMA DblSame ==
    ASSUME NEW S, NEW s \in Seq(S), NEW P, NEW Q, P \cap S = Q \cap S
    PROVE  Dbl(s, P) = Dbl(s, Q) /\ Sgl(s, P) = Sgl(s, Q)
<1>1. \A i : Is(s, i, P) <=> Is(s, i, Q)
  <2> SUFFICES ASSUME NEW i, i \in DOMAIN s PROVE s[i] \in P <=> s[i] \in Q
    BY DEF Is
  <2>1. s[i] \in S
    BY LenProperties, ElementOfSeq
  <2> QED
    BY <2>1
<1>2. DblOut(s, P) = DblOut(s, Q)
  BY <1>1 DEF DblOut
<1>3. DblNext(s, P) = DblNext(s, Q)
  BY <1>1 DEF DblNext
<1> QED
  BY <1>2, <1>3 DEF Dbl, Sgl

-----------------------------------------------------------------------------
(* What the log makes of it. *)

LEMMA FmtCopy ==
    ASSUME NEW S, NEW c \in S, NEW w \in Seq(S), NEW P
    PROVE  Fmt(Copy(c, P) \o w, P) = <<c>> \o Fmt(w, P)
<1> DEFINE s == Copy(c, P) \o w
<1>1. /\ Copy(c, P) \in Seq(S) /\ Copy(c, P) # <<>>
      /\ Copy(c, P)[1] = c /\ Len(Copy(c, P)) \in Nat /\ Len(Copy(c, P)) > 0
  BY CopyIs
<1>2. Len(w) \in Nat
  BY LenProperties
<1>3. /\ s \in Seq(S) /\ s # <<>>
      /\ Len(s) = Len(Copy(c, P)) + Len(w)
      /\ \A i \in 1..Len(Copy(c, P)) + Len(w) :
            s[i] = IF i <= Len(Copy(c, P)) THEN Copy(c, P)[i] ELSE w[i - Len(Copy(c, P))]
  BY <1>1, ConcatProperties, ConcatNonEmpty
<1>4. DOMAIN s = 1..(Len(Copy(c, P)) + Len(w)) /\ s[1] = c /\ 1 \in DOMAIN s
  <2>1. DOMAIN s = 1..Len(s)
    BY <1>3, LenProperties
  <2> HIDE DEF s
  <2> QED
    BY <1>1, <1>2, <1>3, <2>1
<1>5. /\ FmtTaken(s, P) = Len(Copy(c, P))
      /\ ~(Is(s, 1, P) /\ ~Is(s, 2, P))
  <2> HIDE DEF s
  <2>1. CASE c \in P
    <3>1. Copy(c, P) = <<c, c>>
      BY <2>1 DEF Copy
    <3>2. Len(Copy(c, P)) = 2 /\ Copy(c, P)[2] = c
      BY <3>1
    <3>3. 2 \in DOMAIN s /\ s[2] = c
      BY <1>2, <1>3, <1>4, <3>2
    <3>4. Is(s, 1, P) /\ Is(s, 2, P)
      BY <1>4, <2>1, <3>3 DEF Is
    <3> QED
      BY <3>2, <3>4 DEF FmtTaken
  <2>2. CASE c \notin P
    <3>1. Copy(c, P) = <<c>>
      BY <2>2 DEF Copy
    <3>2. Len(Copy(c, P)) = 1
      BY <3>1
    <3>3. ~Is(s, 1, P)
      BY <1>4, <2>2 DEF Is
    <3> QED
      BY <3>2, <3>3 DEF FmtTaken
  <2> QED
    BY <2>1, <2>2
<1>6. Drop(s, Len(Copy(c, P))) = w
  BY <1>1, DropFirst
<1>7. Fmt(s, P) = <<s[1]>> \o Fmt(Drop(s, FmtTaken(s, P)), P)
  <2> HIDE DEF s
  <2>1. Fmt(s, P) = (IF Is(s, 1, P) /\ ~Is(s, 2, P) THEN <<Garbled>> ELSE <<s[1]>>)
                        \o Fmt(Drop(s, FmtTaken(s, P)), P)
    BY <1>3, FmtStep
  <2> QED
    BY <1>5, <2>1
<1> QED
  BY <1>4, <1>5, <1>6, <1>7

\* A lone percent sign is garbled.
LEMMA FmtLone ==
    ASSUME NEW c, NEW P, c \in P
    PROVE  Fmt(<<c>>, P) = <<Garbled>>
<1> DEFINE s == <<c>>
<1>1. s \in Seq({c}) /\ Len(s) = 1 /\ s[1] = c /\ s # <<>>
  BY Single
<1>2. DOMAIN s = 1..1
  BY <1>1, LenProperties
<1>3. Is(s, 1, P) /\ ~Is(s, 2, P)
  BY <1>1, <1>2 DEF Is
<1>4. FmtTaken(s, P) = Len(s) /\ Drop(s, Len(s)) = <<>>
  BY <1>1, <1>3, DropAll DEF FmtTaken
<1> HIDE DEF s
<1>5. Fmt(s, P) = <<Garbled>> \o Fmt(<<>>, P)
  <2>1. Fmt(s, P) = (IF Is(s, 1, P) /\ ~Is(s, 2, P) THEN <<Garbled>> ELSE <<s[1]>>)
                        \o Fmt(Drop(s, FmtTaken(s, P)), P)
    BY <1>1, FmtStep
  <2> QED
    BY <1>3, <1>4, <2>1
<1>6. <<Garbled>> \o <<>> = <<Garbled>>
  <2>1. <<Garbled>> \in Seq({Garbled})
    BY Single
  <2> QED
    BY <2>1, ConcatEmptySeq
<1> QED
  BY <1>5, <1>6, FmtEmpty DEF s

\* The cells of s, in the order in which they were sent.
Ascending(s) == \A i, j \in 1..Len(s) : i < j => Before(s[i], s[j])

\* What was doubled is logged as it was, but for the second of two percent
\* signs, which is not doubled.
LEMMA FmtOfDbl ==
    ASSUME NEW S, NEW s \in Seq(S), NEW P
    PROVE  Fmt(Dbl(s, P), P) = Sgl(s, P)
<1> DEFINE Good(u) == Fmt(Dbl(u, P), P) = Sgl(u, P)
           Bad == {u \in Seq(S) : ~Good(u)}
<1>1. SUFFICES ASSUME Bad # {} PROVE FALSE
  OBVIOUS
<1>2. PICK u \in Bad : \A v \in Bad : Len(u) <= Len(v)
  <2>1. Bad \subseteq Seq(S)
    OBVIOUS
  <2> HIDE DEF Bad
  <2> QED
    BY <1>1, <2>1, Shortest
<1>3. u \in Seq(S) /\ ~Good(u)
  BY <1>2
<1>4. u # <<>>
  <2> SUFFICES ASSUME u = <<>> PROVE FALSE
    OBVIOUS
  <2>1. Fmt(Dbl(u, P), P) = <<>> /\ Sgl(u, P) = <<>>
    BY DblEmpty, FmtEmpty, SglEmpty
  <2> QED
    BY <1>3, <2>1
<1> DEFINE r == Rest(u, P)
<1>5. /\ u[1] \in S /\ r \in Seq(S) /\ Len(r) < Len(u)
      /\ Dbl(u, P) = Copy(u[1], P) \o Dbl(r, P)
      /\ Sgl(u, P) = <<u[1]>> \o Sgl(r, P)
  BY <1>3, <1>4, DblHead, SglHead
<1>6. Fmt(Dbl(r, P), P) = Sgl(r, P)
  <2>1. Len(r) \in Nat /\ Len(u) \in Nat
    BY <1>3, <1>5, LenProperties
  <2>2. r \notin Bad
    <3> HIDE DEF Bad, r
    <3> QED
      BY <1>2, <1>5, <2>1
  <2> QED
    BY <1>5, <2>2
<1>7. Dbl(r, P) \in Seq(S)
  BY <1>5, DblTyped
<1>8. Fmt(Dbl(u, P), P) = <<u[1]>> \o Fmt(Dbl(r, P), P)
  BY <1>5, <1>7, FmtCopy
<1> QED
  BY <1>3, <1>5, <1>6, <1>8

\* A percent sign whose second copy was cut off is garbled, any other
\* character that was cut off is not logged.
End(c, P) == IF c \in P THEN <<Garbled>> ELSE <<>>

\* The copy of one character without its last character.
LEMMA FmtOfLast ==
    ASSUME NEW c, NEW P
    PROVE  Fmt(Front(Copy(c, P)), P) = End(c, P)
<1>1. CASE c \in P
  <2>1. <<c>> \in Seq({c}) /\ <<c>> # <<>>
    BY Single
  <2>2. <<c, c>> = <<c>> \o <<c>>
    OBVIOUS
  <2>3. Front(<<c>> \o <<c>>) = <<c>> \o Front(<<c>>)
    BY <2>1, FrontConcat
  <2>4. <<c>> \o <<>> = <<c>>
    BY <2>1, ConcatEmptySeq
  <2>5. Front(Copy(c, P)) = <<c>>
    BY <1>1, <2>2, <2>3, <2>4, FrontSingle DEF Copy
  <2> QED
    BY <1>1, <2>5, FmtLone DEF End
<1>2. CASE c \notin P
  <2>1. Front(Copy(c, P)) = <<>>
    BY <1>2, FrontSingle DEF Copy
  <2> QED
    BY <1>2, <2>1, FmtEmpty DEF End
<1> QED
  BY <1>1, <1>2

\* Without the last character, the copy reads as the text up to there.
FrontReads(u, P) ==
    Fmt(Front(Dbl(u, P)), P) = Front(Sgl(u, P)) \o End(Last(Sgl(u, P)), P)

LEMMA FmtOfFront ==
    ASSUME NEW S, NEW s \in Seq(S), s # <<>>, NEW P
    PROVE  FrontReads(s, P)
<1> DEFINE Bad == {u \in Seq(S) : u # <<>> /\ ~FrontReads(u, P)}
<1>1. SUFFICES ASSUME Bad # {} PROVE FALSE
  OBVIOUS
<1>2. PICK u \in Bad : \A v \in Bad : Len(u) <= Len(v)
  <2>1. Bad \subseteq Seq(S)
    OBVIOUS
  <2> HIDE DEF Bad
  <2> QED
    BY <1>1, <2>1, Shortest
<1>3. u \in Seq(S) /\ u # <<>> /\ ~FrontReads(u, P)
  BY <1>2
<1>4. PICK r, c, d : r = Rest(u, P) /\ c = Copy(u[1], P) /\ d = Dbl(r, P)
  OBVIOUS
<1>5. PICK w, e : w = Sgl(r, P) /\ e = End(Last(w), P)
  OBVIOUS
<1>6. /\ u[1] \in S /\ r \in Seq(S) /\ Len(r) < Len(u)
      /\ Dbl(u, P) = c \o d
      /\ Sgl(u, P) = <<u[1]>> \o w
  BY <1>3, <1>4, <1>5, DblHead, SglHead
<1>7. <<u[1]>> \in Seq(S) /\ c \in Seq(S)
  BY <1>4, <1>6, Single, CopyIs
<1>8. CASE r = <<>>
  <2>1. Dbl(u, P) = c
    <3>1. d = <<>> /\ c \o <<>> = c
      BY <1>4, <1>7, <1>8, DblEmpty, ConcatEmptySeq
    <3> QED
      BY <1>6, <3>1
  <2>2. Sgl(u, P) = <<u[1]>>
    <3>1. w = <<>> /\ <<u[1]>> \o <<>> = <<u[1]>>
      BY <1>5, <1>7, <1>8, SglEmpty, ConcatEmptySeq
    <3> QED
      BY <1>6, <3>1
  <2>3. Front(<<u[1]>>) = <<>> /\ Last(<<u[1]>>) = u[1]
    BY <1>6, FrontSingle, Single DEF Last
  <2>4. <<>> \o End(u[1], P) = End(u[1], P)
    BY DEF End
  <2>5. Fmt(Front(Copy(u[1], P)), P) = End(u[1], P)
    BY FmtOfLast
  <2> QED
    BY <1>3, <1>4, <2>1, <2>2, <2>3, <2>4, <2>5 DEF FrontReads
<1>9. CASE r # <<>>
  <2>1. d # <<>> /\ d \in Seq(S) /\ w # <<>> /\ w \in Seq(S)
    BY <1>4, <1>5, <1>6, <1>9, DblBegins, DblTyped, SglTyped
  <2>2. Front(d) \in Seq(S) /\ Front(w) \in Seq(S)
    BY <2>1, FrontIs
  <2>3. Front(Dbl(u, P)) = c \o Front(d)
    BY <1>6, <1>7, <2>1, FrontConcat
  <2>4. Front(Sgl(u, P)) = <<u[1]>> \o Front(w) /\ Last(Sgl(u, P)) = Last(w)
    <3>1. /\ Front(<<u[1]>> \o w) = <<u[1]>> \o Front(w)
          /\ Last(<<u[1]>> \o w) = Last(w)
      BY <1>7, <2>1, FrontConcat
    <3> QED
      BY <1>6, <3>1
  <2>5. Fmt(Front(Dbl(u, P)), P) = <<u[1]>> \o Fmt(Front(d), P)
    <3>1. Fmt(Copy(u[1], P) \o Front(d), P) = <<u[1]>> \o Fmt(Front(d), P)
      BY <1>6, <2>2, FmtCopy, SMTT(40)
    <3> QED
      BY <1>4, <2>3, <3>1
  <2>6. Fmt(Front(d), P) = Front(w) \o e
    <3>1. r \notin Bad
      <4>1. Len(r) \in Nat /\ Len(u) \in Nat
        BY <1>3, <1>6, LenProperties
      <4> HIDE DEF Bad
      <4> QED
        BY <1>2, <1>6, <4>1
    <3>2. FrontReads(r, P)
      BY <1>6, <1>9, <3>1
    <3> QED
      BY <1>4, <1>5, <3>2 DEF FrontReads
  <2>7. CatLeft(<<u[1]>>, Front(w), e) = CatRight(<<u[1]>>, Front(w), e)
    <3> DEFINE A == S \cup {Garbled}
    <3>1. S \subseteq A /\ Garbled \in A
      OBVIOUS
    <3> HIDE DEF A
    <3>2. <<u[1]>> \in Seq(A) /\ Front(w) \in Seq(A)
      BY <1>7, <2>2, <3>1, SeqMonotonic
    <3>3. e \in Seq(A)
      BY <1>5, <3>1, Single, EmptySeq DEF End
    <3> QED
      BY <3>2, <3>3, Associative
  <2>8. FrontReads(u, P)
    BY <1>5, <2>4, <2>5, <2>6, <2>7 DEF FrontReads, CatLeft, CatRight
  <2> QED
    BY <1>3, <2>8
<1> QED
  BY <1>8, <1>9

-----------------------------------------------------------------------------
(* How strtok_r cuts a buffer. *)

LEMMA SeqIn ==
    ASSUME NEW S, NEW s \in Seq(S), NEW T, \A i \in 1..Len(s) : s[i] \in T
    PROVE  s \in Seq(T)
<1>1. Len(s) \in Nat /\ s \in [1..Len(s) -> S]
  BY LenProperties
<1>2. s \in [1..Len(s) -> T]
  BY <1>1
<1> QED
  BY <1>1, <1>2, SeqDef

\* A sequence begins with characters of D, or with none.
LEMMA SplitOff ==
    ASSUME NEW S, NEW s \in Seq(S), NEW D
    PROVE  \E v \in Seq(S \cap D), w \in Seq(S) :
              s = v \o w /\ (w = <<>> \/ w[1] \notin D)
<1> DEFINE T == {i \in 1..Len(s) : s[i] \notin D}
<1>0. Len(s) \in Nat
  BY LenProperties
<1>1. CASE T = {}
  <2>1. \A i \in 1..Len(s) : s[i] \in S \cap D
    BY <1>1, ElementOfSeq
  <2>2. s \in Seq(S \cap D)
    BY <2>1, SeqIn
  <2>3. s = s \o <<>> /\ <<>> \in Seq(S)
    BY ConcatEmptySeq, EmptySeq
  <2> QED
    BY <2>2, <2>3
<1>2. CASE T # {}
  <2>1. PICK m \in T : \A y \in T : m <= y
    <3>1. T \subseteq Nat
      OBVIOUS
    <3> HIDE DEF T
    <3> QED
      BY <1>2, <3>1, LeastOf
  <2>2. m \in 1..Len(s) /\ s[m] \notin D
    BY <2>1
  <2> DEFINE k == m - 1
  <2>3. k \in 0..Len(s) /\ k \in Nat /\ m = k + 1 /\ Len(s) - k > 0
    BY <1>0, <2>2
  <2>4. \A i \in 1..k : s[i] \in S \cap D
    <3> SUFFICES ASSUME NEW i \in 1..k PROVE s[i] \in S \cap D
      OBVIOUS
    <3>1. i \in 1..Len(s) /\ ~(m <= i)
      BY <1>0, <2>2
    <3>2. i \notin T
      BY <2>1, <3>1
    <3>3. s[i] \in S
      BY <3>1, ElementOfSeq
    <3> QED
      BY <3>1, <3>2, <3>3
  <2> HIDE DEF k
  <2>5. /\ SubSeq(s, 1, k) \in Seq(S) /\ Len(SubSeq(s, 1, k)) = k
        /\ \A i \in 1..k : SubSeq(s, 1, k)[i] = s[i]
        /\ s = SubSeq(s, 1, k) \o Drop(s, k)
    BY <2>3, SplitAt
  <2>6. \A i \in 1..Len(SubSeq(s, 1, k)) : SubSeq(s, 1, k)[i] \in S \cap D
    BY <2>4, <2>5
  <2>7. SubSeq(s, 1, k) \in Seq(S \cap D)
    BY <2>5, <2>6, SeqIn
  <2>8. Drop(s, k) \in Seq(S) /\ \A i \in 1..(Len(s) - k) : Drop(s, k)[i] = s[i + k]
    BY <2>3, DropIs
  <2>9. Drop(s, k)[1] \notin D
    <3>1. 1 \in 1..(Len(s) - k) /\ 1 + k = m
      BY <1>0, <2>3
    <3> QED
      BY <2>2, <2>8, <3>1
  <2> QED
    BY <2>5, <2>7, <2>8, <2>9
<1> QED
  BY <1>1, <1>2

\* The least place.
LEMMA FirstIs ==
    ASSUME NEW T, T \subseteq Nat, NEW m \in T, \A i \in T : m <= i
    PROVE  Min(T) = m
<1>1. Min(T) \in T /\ \A i \in T : Min(T) <= i
  BY DEF Min
<1>2. Min(T) <= m /\ m <= Min(T) /\ Min(T) \in Nat /\ m \in Nat
  BY <1>1
<1> QED
  BY <1>2

\* The places of the delimiters D, by which SelectInSeq finds the pieces.
Places(s, D) == {i \in 1..Len(s) : s[i] \in D}
Others(s, D) == {i \in 1..Len(s) : s[i] \notin D}
EndOf(s, first, D) ==
    LET found == Places(SubSeq(s, first, Len(s)), D)
    IN IF found = {} THEN Len(s) + 1 ELSE first + Min(found) - 1

\* The first delimiter after characters that are none.
LEMMA FirstAfter ==
    ASSUME NEW S, NEW D, NEW u \in Seq(S), NEW w \in Seq(S),
           \A i \in 1..Len(u) : u[i] \notin D
    PROVE  /\ w = <<>> => Places(u \o w, D) = {}
           /\ w # <<>> /\ w[1] \in D =>
                 Places(u \o w, D) # {} /\ Min(Places(u \o w, D)) = Len(u) + 1
<1>1. /\ Len(u) \in Nat /\ Len(w) \in Nat
      /\ u \o w \in Seq(S) /\ Len(u \o w) = Len(u) + Len(w)
      /\ \A i \in 1..Len(u) + Len(w) :
            (u \o w)[i] = IF i <= Len(u) THEN u[i] ELSE w[i - Len(u)]
  BY LenProperties, ConcatProperties
<1> DEFINE s == u \o w
<1> HIDE DEF s
<1>2. \A i \in Places(s, D) : i \in Nat /\ i > Len(u) /\ i <= Len(u) + Len(w)
  <2> SUFFICES ASSUME NEW i \in Places(s, D)
               PROVE  i \in Nat /\ i > Len(u) /\ i <= Len(u) + Len(w)
    OBVIOUS
  <2>1. i \in 1..Len(u) + Len(w) /\ s[i] \in D
    BY <1>1 DEF Places, s
  <2>2. i <= Len(u) => i \in 1..Len(u) /\ s[i] = u[i]
    BY <1>1, <2>1 DEF s
  <2>3. ~(i <= Len(u))
    BY <2>1, <2>2
  <2> QED
    BY <1>1, <2>1, <2>3
<1>3. w = <<>> => Places(s, D) = {}
  <2> SUFFICES ASSUME w = <<>>, NEW i \in Places(s, D) PROVE FALSE
    OBVIOUS
  <2>1. Len(w) = 0
    BY EmptySeq
  <2> QED
    BY <1>1, <1>2, <2>1
<1>4. ASSUME w # <<>>, w[1] \in D
      PROVE  Places(s, D) # {} /\ Min(Places(s, D)) = Len(u) + 1
  <2>1. Len(w) > 0
    BY <1>4, NonEmpty
  <2>2. Len(u) + 1 \in Places(s, D)
    <3>1. Len(u) + 1 \in 1..Len(u) + Len(w) /\ ~(Len(u) + 1 <= Len(u)) /\ Len(u) + 1 - Len(u) = 1
      BY <1>1, <2>1
    <3>2. s[Len(u) + 1] = w[1]
      BY <1>1, <3>1 DEF s
    <3> QED
      BY <1>1, <1>4, <3>1, <3>2 DEF Places, s
  <2>3. Places(s, D) \subseteq Nat /\ \A i \in Places(s, D) : Len(u) + 1 <= i
    BY <1>1, <1>2
  <2> QED
    BY <2>2, <2>3, FirstIs
<1> QED
  BY <1>3, <1>4 DEF s

\* A buffer of delimiters, a piece and what follows it, if anything does.
Buffer(v, l, rest) == v \o (l \o rest)

Token(d, v, l, rest, D) ==
    /\ Others(d, D) # {} /\ Min(Others(d, D)) = Len(v) + 1
    /\ EndOf(d, Len(v) + 1, D) = Len(v) + Len(l) + 1
    /\ SubSeq(d, Len(v) + 1, Len(v) + Len(l) + 1 - 1) = l
    /\ SubSeq(d, Len(v) + Len(l) + 1 + 1, Len(d)) =
           IF rest = <<>> THEN <<>> ELSE Drop(rest, 1)

\* strtok_r skips the delimiters and cuts at the next one.
LEMMA TokenIs ==
    ASSUME NEW S, NEW D, NEW v \in Seq(S \cap D), NEW l \in Seq(S \ D), l # <<>>,
           NEW rest \in Seq(S), rest = <<>> \/ rest[1] \in D, NEW d,
           d = Buffer(v, l, rest)
    PROVE  Token(d, v, l, rest, D)
<1>1. v \in Seq(S) /\ l \in Seq(S)
  <2>1. S \cap D \subseteq S /\ S \ D \subseteq S
    OBVIOUS
  <2> QED
    BY <2>1, SeqMonotonic
<1>2. /\ Len(v) \in Nat /\ Len(l) \in Nat /\ Len(l) > 0 /\ Len(rest) \in Nat
  BY <1>1, LenProperties, NonEmpty
<1>3. \A i \in 1..Len(v) : v[i] \in S \cap D
  BY ElementOfSeq
<1>4. \A i \in 1..Len(l) : l[i] \in S \ D
  BY ElementOfSeq
<1>5. /\ l \o rest \in Seq(S) /\ Len(l \o rest) = Len(l) + Len(rest)
      /\ \A i \in 1..Len(l) + Len(rest) :
            (l \o rest)[i] = IF i <= Len(l) THEN l[i] ELSE rest[i - Len(l)]
  BY <1>1, ConcatProperties
<1>6. l \o rest # <<>> /\ (l \o rest)[1] = l[1] /\ l[1] \notin D
  <2>1. 1 \in 1..Len(l) /\ 1 \in 1..Len(l) + Len(rest) /\ 1 <= Len(l)
    BY <1>2
  <2> QED
    BY <1>1, <1>4, <1>5, <2>1, ConcatNonEmpty
<1>7. d \in Seq(S) /\ Len(d) = Len(v) + (Len(l) + Len(rest))
  BY <1>1, <1>5, ConcatProperties DEF Buffer
<1>8. Others(d, D) # {} /\ Min(Others(d, D)) = Len(v) + 1
  <2> DEFINE E == S \ D
  <2>1. \A i \in 1..Len(v) : v[i] \notin E
    BY <1>3
  <2>2. (l \o rest)[1] \in E
    <3>1. (l \o rest)[1] \in S
      BY <1>2, <1>5, <1>6, ElementOfSeq
    <3> QED
      BY <1>6, <3>1
  <2>3. Places(d, E) # {} /\ Min(Places(d, E)) = Len(v) + 1
    <3> HIDE DEF E
    <3> QED
      BY <1>1, <1>5, <1>6, <2>1, <2>2, FirstAfter, ZenonT(60) DEF Buffer
  <2>4. Places(d, E) = Others(d, D)
    <3>1. \A i \in 1..Len(d) : d[i] \in S
      BY <1>7, ElementOfSeq
    <3> QED
      BY <3>1 DEF Places, Others
  <2> QED
    BY <2>3, <2>4
<1>9. SubSeq(d, Len(v) + 1, Len(d)) = l \o rest
  BY <1>1, <1>5, DropFirst DEF Drop, Buffer
<1>10. EndOf(d, Len(v) + 1, D) = Len(v) + Len(l) + 1
  <2>1. \A i \in 1..Len(l) : l[i] \notin D
    BY <1>4
  <2>2. CASE rest = <<>>
    <3>1. Places(l \o rest, D) = {}
      BY <1>1, <2>1, <2>2, FirstAfter
    <3>2. Len(rest) = 0
      BY <2>2, EmptySeq
    <3>3. Len(d) + 1 = Len(v) + Len(l) + 1
      BY <1>2, <1>7, <3>2
    <3> QED
      BY <1>9, <3>1, <3>3 DEF EndOf
  <2>3. CASE rest # <<>>
    <3>1. Places(l \o rest, D) # {} /\ Min(Places(l \o rest, D)) = Len(l) + 1
      BY <1>1, <2>1, <2>3, FirstAfter
    <3>2. Len(v) + 1 + (Len(l) + 1) - 1 = Len(v) + Len(l) + 1
      BY <1>2
    <3> QED
      BY <1>9, <3>1, <3>2 DEF EndOf
  <2> QED
    BY <2>2, <2>3
<1>11. SubSeq(d, Len(v) + 1, Len(v) + Len(l) + 1 - 1) = l
  <2>1. Len(l) \in 1..Len(l) /\ 1 \in 1..Len(l)
    BY <1>2
  <2>2. SubSeq(v \o (l \o rest), Len(v) + 1, Len(v) + Len(l))
           = SubSeq(l \o rest, Len(v) + 1 - Len(v), Len(v) + Len(l) - Len(v))
    <3>1. Len(v) + 1 \in (Len(v) + 1)..(Len(v) + Len(l \o rest))
      BY <1>2, <1>5
    <3>2. Len(v) + Len(l) \in (Len(v) + 1)..(Len(v) + Len(l \o rest))
      BY <1>2, <1>5
    <3> QED
      BY <1>1, <1>5, <3>1, <3>2, SubSeqOfConcat2
  <2>3. SubSeq(l \o rest, 1, Len(l)) = SubSeq(l, 1, Len(l))
    BY <1>1, <2>1, SubSeqOfConcat1
  <2>4. SubSeq(l, 1, Len(l)) = l
    BY SubSeqFull
  <2>5. /\ Len(v) + 1 - Len(v) = 1 /\ Len(v) + Len(l) - Len(v) = Len(l)
        /\ Len(v) + Len(l) + 1 - 1 = Len(v) + Len(l)
    BY <1>2
  <2> QED
    BY <2>2, <2>3, <2>4, <2>5 DEF Buffer
<1>12. SubSeq(d, Len(v) + Len(l) + 1 + 1, Len(d)) = IF rest = <<>> THEN <<>> ELSE Drop(rest, 1)
  <2>1. CASE rest = <<>>
    <3>1. Len(rest) = 0
      BY <2>1, EmptySeq
    <3>2. Len(d) < Len(v) + Len(l) + 1 + 1 /\ Len(d) \in Int /\ Len(v) + Len(l) + 1 + 1 \in Int
      BY <1>2, <1>7, <3>1
    <3> QED
      BY <2>1, <3>2, SubSeqEmpty
  <2>2. CASE rest # <<>>
    <3>1. Len(rest) > 0
      BY <2>2, NonEmpty
    <3> DEFINE k == Len(v) + Len(l) + 1
    <3>2. k \in 0..Len(d) /\ k = Len(v) + (Len(l) + 1)
      BY <1>2, <1>7, <3>1
    <3>3. d = CatLeft(v, l, rest)
      <4>1. CatLeft(v, l, rest) = CatRight(v, l, rest)
        BY <1>1, Associative
      <4> QED
        BY <4>1 DEF CatRight, Buffer
    <3> DEFINE c == SubSeq(rest, 1, 1)
               t == Drop(rest, 1)
    <3>4. c \in Seq(S) /\ Len(c) = 1 /\ rest = c \o t /\ t \in Seq(S)
      <4>1. 1 \in 0..Len(rest)
        BY <1>2, <3>1
      <4> QED
        BY <4>1, SplitAt, DropIs
    <3> DEFINE a == v \o l
    <3> HIDE DEF c, t, a
    <3>5. a \in Seq(S) /\ Len(a) = Len(v) + Len(l)
      BY <1>1, ConcatProperties DEF a
    <3>6. a \o c \in Seq(S) /\ Len(a \o c) = Len(a) + Len(c)
      BY <3>4, <3>5, ConcatProperties
    <3>7. d = (a \o c) \o t
      <4>1. CatLeft(a, c, t) = CatRight(a, c, t)
        BY <3>4, <3>5, Associative
      <4> QED
        BY <3>3, <3>4, <4>1 DEF CatLeft, CatRight, a
    <3>8. Len(a \o c) = k
      BY <3>4, <3>5, <3>6
    <3>9. Drop(d, k) = t
      <4>1. Drop((a \o c) \o t, Len(a \o c)) = t
        BY <3>4, <3>6, DropFirst
      <4> QED
        BY <3>7, <3>8, <4>1
    <3> QED
      BY <2>2, <3>9 DEF Drop, t
  <2> QED
    BY <2>1, <2>2
<1> QED
  BY <1>8, <1>10, <1>11, <1>12 DEF Token

\* The copy of a chunk, cut at its first piece: the characters u of the piece
\* follow some delimiters v, and x follows them.
PieceOf(v, u, x, l, rest, P) ==
    \/ x = <<>> /\ l = Front(Dbl(u, P)) /\ rest = <<>>
    \/ x # <<>> /\ l = Dbl(u, P) /\ Len(x) = 1 /\ rest = <<>>
    \/ /\ x # <<>> /\ l = Dbl(u, P) /\ Drop(x, 1) # <<>>
       /\ rest = <<x[1]>> \o Front(Dbl(Drop(x, 1), P))

\* A delimiter is copied as it is.
LEMMA DelimiterFirst ==
    ASSUME NEW S, NEW P, NEW x \in Seq(S), x # <<>>, x[1] \notin P
    PROVE  /\ x[1] \in S /\ Drop(x, 1) \in Seq(S) /\ Len(Drop(x, 1)) = Len(x) - 1
           /\ Dbl(x, P) = <<x[1]>> \o Dbl(Drop(x, 1), P)
<1>1. ~Is(x, 1, P)
  BY DEF Is
<1>2. Taken(x, P) = 1 /\ Copy(x[1], P) = <<x[1]>>
  BY <1>1 DEF Taken, Copy
<1>3. Rest(x, P) = Drop(x, 1)
  BY <1>2 DEF Rest
<1>4. /\ x[1] \in S /\ Rest(x, P) \in Seq(S)
      /\ Len(Rest(x, P)) = Len(x) - Taken(x, P)
      /\ Dbl(x, P) = Copy(x[1], P) \o Dbl(Rest(x, P), P)
  BY DblHead
<1> QED
  BY <1>2, <1>3, <1>4

HasPiece(d, D) == \E i \in 1..Len(d) : d[i] \notin D
Splits(S, chunk, P, D) ==
    \E v \in Seq(S \cap D), u \in Seq(S \ D), x \in Seq(S),
       l \in Seq(S \ D), rest \in Seq(S) :
       /\ chunk = Buffer(v, u, x) /\ u # <<>>
       /\ x = <<>> \/ x[1] \in D
       /\ l # <<>> /\ PieceOf(v, u, x, l, rest, P)
       /\ Front(Dbl(chunk, P)) = Buffer(v, l, rest)
       /\ rest = <<>> \/ rest[1] \in D

\* The copy of a chunk with a piece, taken apart at the piece.
LEMMA ChunkSplits ==
    ASSUME NEW S, NEW chunk \in Seq(S), chunk # <<>>, NEW P, NEW D, P \cap D = {},
           HasPiece(Front(Dbl(chunk, P)), D)
    PROVE  Splits(S, chunk, P, D)
<1>0. PICK i \in 1..Len(Front(Dbl(chunk, P))) : Front(Dbl(chunk, P))[i] \notin D
  BY DEF HasPiece
<1> SUFFICES \E v \in Seq(S \cap D), u \in Seq(S \ D), x \in Seq(S),
                l \in Seq(S \ D), rest \in Seq(S) :
                /\ chunk = Buffer(v, u, x) /\ u # <<>>
                /\ x = <<>> \/ x[1] \in D
                /\ l # <<>> /\ PieceOf(v, u, x, l, rest, P)
                /\ Front(Dbl(chunk, P)) = Buffer(v, l, rest)
                /\ rest = <<>> \/ rest[1] \in D
  BY DEF Splits
<1>1. PICK v \in Seq(S \cap D), y \in Seq(S) :
          chunk = v \o y /\ (y = <<>> \/ y[1] \notin D)
  BY SplitOff
<1>2. PICK u \in Seq(S \cap (S \ D)), x \in Seq(S) :
          y = u \o x /\ (x = <<>> \/ x[1] \notin S \ D)
  BY SplitOff, ZenonT(60)
<1>3. u \in Seq(S \ D) /\ u \in Seq(S) /\ v \in Seq(S)
  <2>1. S \cap (S \ D) \subseteq S \ D /\ S \cap (S \ D) \subseteq S /\ S \cap D \subseteq S
    OBVIOUS
  <2> QED
    BY <2>1, SeqMonotonic
<1>4. x = <<>> \/ (x # <<>> /\ x[1] \in D /\ x[1] \in S)
  <2> SUFFICES ASSUME x # <<>> PROVE x[1] \in D /\ x[1] \in S
    OBVIOUS
  <2>1. Len(x) \in Nat /\ Len(x) > 0
    BY NonEmpty, LenProperties
  <2>2. 1 \in 1..Len(x)
    BY <2>1
  <2>3. x[1] \in S
    BY <2>2, ElementOfSeq
  <2> QED
    BY <1>2, <2>3
<1>5. Dbl(v, P) = v
  <2>1. (S \cap D) \cap P = {}
    OBVIOUS
  <2> QED
    BY <2>1, DblPlain
<1>6. Dbl(u, P) \in Seq(S) /\ Dbl(u, P) \in Seq(S \ D) /\ Dbl(x, P) \in Seq(S)
      /\ Dbl(y, P) \in Seq(S)
  BY <1>3, DblTyped
\* There is a piece.
<1>7. u # <<>>
  <2> SUFFICES ASSUME u = <<>> PROVE FALSE
    OBVIOUS
  <2>1. y = x
    BY <1>2, ConcatEmptySeq
  <2>2. y = <<>>
    BY <1>1, <1>4, <2>1
  <2>3. chunk = v
    BY <1>1, <1>3, <2>2, ConcatEmptySeq
  <2>4. Dbl(chunk, P) = v /\ v # <<>>
    BY <1>5, <2>3
  <2>5. Front(v) \in Seq(S \cap D)
    BY <2>4, FrontIs
  <2>6. Front(v)[i] \in S \cap D
    BY <1>0, <2>4, <2>5, ElementOfSeq
  <2> QED
    BY <1>0, <2>4, <2>6
<1>8. Dbl(y, P) = Dbl(u, P) \o Dbl(x, P)
  <2>1. Apart(u, x, P)
    BY <1>4 DEF Apart
  <2> QED
    BY <1>2, <1>3, <2>1, DblConcat
<1>9. Dbl(chunk, P) = v \o Dbl(y, P)
  <2>1. Apart(v, y, P)
    <3> SUFFICES ASSUME v # <<>> PROVE Last(v) \notin P
      BY DEF Apart
    <3>1. Last(v) \in S \cap D
      BY FrontIs
    <3> QED
      BY <3>1
  <2>2. Dbl(v \o y, P) = Dbl(v, P) \o Dbl(y, P)
    BY <1>3, <2>1, DblConcat
  <2> QED
    BY <1>1, <1>5, <2>2
<1>10. Dbl(u, P) # <<>>
  BY <1>3, <1>7, DblBegins
<1>11. chunk = Buffer(v, u, x)
  BY <1>1, <1>2 DEF Buffer
<1>12. CASE x = <<>>
  <2> DEFINE l == Front(Dbl(u, P))
  <2>1. l \in Seq(S \ D) /\ l \in Seq(S)
    BY <1>6, <1>10, FrontIs
  <2>2. Dbl(chunk, P) = v \o Dbl(u, P)
    <3>1. Dbl(u, P) \o <<>> = Dbl(u, P)
      BY <1>6, ConcatEmptySeq
    <3> QED
      BY <1>8, <1>9, <1>12, <3>1, DblEmpty
  <2>3. Front(v \o Dbl(u, P)) = v \o l
    BY <1>3, <1>6, <1>10, FrontConcat
  <2>4. l # <<>>
    <3> SUFFICES ASSUME l = <<>> PROVE FALSE
      OBVIOUS
    <3>1. Front(Dbl(chunk, P)) = v
      BY <1>3, <2>2, <2>3, ConcatEmptySeq
    <3>2. v[i] \in S \cap D
      BY <1>0, <3>1, ElementOfSeq
    <3> QED
      BY <1>0, <3>1, <3>2
  <2>5. l \o <<>> = l /\ <<>> \in Seq(S)
    BY <2>1, ConcatEmptySeq, EmptySeq
  <2>6. Front(Dbl(chunk, P)) = Buffer(v, l, <<>>)
    BY <2>2, <2>3, <2>5 DEF Buffer
  <2>7. PieceOf(v, u, x, l, <<>>, P)
    BY <1>12 DEF PieceOf
  <2> HIDE DEF l
  <2> QED
    BY <1>3, <1>4, <1>7, <1>11, <2>1, <2>4, <2>5, <2>6, <2>7
<1>13. CASE x # <<>>
  <2> DEFINE l == Dbl(u, P)
             t == Drop(x, 1)
             e == Dbl(t, P)
  <2>1. /\ x[1] \in S /\ t \in Seq(S) /\ Len(t) = Len(x) - 1
        /\ Dbl(x, P) = <<x[1]>> \o e
    <3>1. x[1] \notin P
      BY <1>4, <1>13
    <3> QED
      BY <1>13, <3>1, DelimiterFirst
  <2>2. Dbl(x, P) # <<>>
    BY <1>13, DblBegins
  <2>3. Front(Dbl(chunk, P)) = v \o (l \o Front(Dbl(x, P)))
    <3>1. Front(l \o Dbl(x, P)) = l \o Front(Dbl(x, P))
      BY <1>6, <2>2, FrontConcat
    <3>2. l \o Dbl(x, P) \in Seq(S) /\ l \o Dbl(x, P) # <<>>
      BY <1>6, <2>2, ConcatProperties, ConcatNonEmpty
    <3>3. Front(v \o (l \o Dbl(x, P))) = v \o Front(l \o Dbl(x, P))
      BY <1>3, <3>2, FrontConcat
    <3> QED
      BY <1>8, <1>9, <3>1, <3>3
  <2>4. e \in Seq(S) /\ <<x[1]>> \in Seq(S)
    BY <2>1, DblTyped, Single
  <2>5. CASE t = <<>>
    <3>1. Dbl(x, P) = <<x[1]>>
      BY <2>1, <2>4, <2>5, DblEmpty, ConcatEmptySeq, ZenonT(60)
    <3>2. Front(Dbl(x, P)) = <<>> /\ <<>> \in Seq(S)
      BY <3>1, FrontSingle, EmptySeq
    <3>3. Front(Dbl(chunk, P)) = Buffer(v, l, <<>>)
      BY <2>3, <3>2 DEF Buffer
    <3>4. Len(x) = 1
      <4>1. Len(t) = 0 /\ Len(x) \in Nat
        BY <2>5, EmptySeq, LenProperties
      <4> QED
        BY <2>1, <4>1
    <3>5. PieceOf(v, u, x, l, <<>>, P)
      BY <1>13, <3>4 DEF PieceOf
    <3> HIDE DEF l
    <3>6. l \in Seq(S \ D) /\ l # <<>>
      BY <1>6, <1>10 DEF l
    <3> QED
      BY <1>3, <1>4, <1>7, <1>11, <3>2, <3>3, <3>5, <3>6
  <2>6. CASE t # <<>>
    <3> DEFINE rest == <<x[1]>> \o Front(e)
    <3>1. e # <<>>
      BY <2>1, <2>6, DblBegins
    <3>2. Front(e) \in Seq(S)
      BY <2>4, <3>1, FrontIs
    <3>3. Front(Dbl(x, P)) = rest
      <4>1. Front(<<x[1]>> \o e) = <<x[1]>> \o Front(e)
        BY <2>4, <3>1, FrontConcat
      <4> QED
        BY <2>1, <4>1
    <3>4. rest \in Seq(S) /\ rest[1] = x[1]
      <4>1. Len(<<x[1]>>) = 1 /\ <<x[1]>>[1] = x[1] /\ Len(Front(e)) \in Nat
        BY <2>1, <3>2, Single, LenProperties
      <4>2. 1 \in 1..Len(<<x[1]>>) + Len(Front(e)) /\ 1 <= Len(<<x[1]>>)
        BY <4>1
      <4> HIDE DEF e
      <4> QED
        BY <2>4, <3>2, <4>1, <4>2, ConcatProperties
    <3>5. Front(Dbl(chunk, P)) = Buffer(v, l, rest)
      BY <2>3, <3>3 DEF Buffer
    <3>6. PieceOf(v, u, x, l, rest, P)
      BY <1>13, <2>6 DEF PieceOf
    <3> HIDE DEF l, rest
    <3>7. l \in Seq(S \ D) /\ l # <<>>
      BY <1>6, <1>10 DEF l
    <3> QED
      BY <1>3, <1>4, <1>7, <1>11, <1>13, <3>4, <3>5, <3>6, <3>7
  <2> QED
    BY <2>5, <2>6
<1> QED
  BY <1>12, <1>13

-----------------------------------------------------------------------------
(* The inductive invariant. *)

\* The cells of some lines, and which of them are percent signs or delimiters.
CellsIn(lines) == UNION {Range(Line(n, lines[n])) : n \in DOMAIN lines}
PercentsIn(lines) ==
    {c \in CellsIn(lines) : c[2] <= Len(lines[c[1]]) /\ lines[c[1]][c[2]] = "%"}
DelimitersIn(lines) == {c \in CellsIn(lines) : c[2] > Len(lines[c[1]])}

\* Cells one after another, as they were sent on one connection.
LastOfLine(c, lines) == c[2] = Len(lines[c[1]]) + 2
Follows(c, d, lines) ==
    d = <<c[1], c[2] + 1>> \/ (LastOfLine(c, lines) /\ Before(c, d))
Run(s, lines) ==
    /\ s \in Seq(CellsIn(lines))
    /\ Ascending(s)
    /\ \A i \in 1..(Len(s) - 1) : Follows(s[i], s[i + 1], lines)

AllBefore(s, t) == \A i \in 1..Len(s), j \in 1..Len(t) : Before(s[i], t[j])

Types ==
    /\ sent \in Seq(Texts) /\ Len(sent) <= MaxLines
    /\ losses \in 0..MaxLosses
    /\ cut \subseteq CellsIn(sent)
    /\ handled \in Seq(Seq(CellsIn(sent)))
    /\ \A k \in 1..Len(handled) : handled[k] # <<>>
    /\ log \in Seq(Seq(CellsIn(sent) \cup {Garbled})) /\ Len(log) = Len(handled)

\* What the socket holds are whole lines, but for the beginning of the first,
\* and what was handled was sent before it.
StreamInv ==
    /\ Run(stream, sent)
    /\ stream # <<>> => LastOfLine(Last(stream), sent)
    /\ \A k \in 1..Len(handled) : AllBefore(handled[k], stream)

\* What strtok_r has not cut yet is the copy of the rest of a chunk.
Chunk(s) ==
    /\ s # <<>> /\ Len(s) <= BufSize /\ Run(s, sent)
    /\ Last(s) \in cut
    /\ buf = Front(Dbl(s, PercentsIn(sent)))
    /\ AllBefore(s, stream)
    /\ \A k \in 1..Len(handled) : AllBefore(handled[k], s)
BufInv == buf = <<>> \/ \E s : Chunk(s)

\* The cells from a to b of line n, and what is made of them.
InLine(n, a, b, lines) ==
    /\ n \in 1..Len(lines) /\ a \in Nat /\ b \in Nat
    /\ 1 <= a /\ a <= b /\ b <= Len(lines[n])
Between(n, a, b, lines) == SubSeq(Line(n, lines[n]), a, b)
Made(u, end, piece, entry, P, ends) ==
    \/ piece = Dbl(u, P) /\ entry = Sgl(u, P)
    \/ /\ piece = Front(Dbl(u, P)) /\ end \in ends
       /\ entry = Front(Sgl(u, P)) \o End(Last(Sgl(u, P)), P)
LastPiece(n, a, b) ==
    /\ InLine(n, a, b, sent)
    /\ \A k \in 1..(Len(handled) - 1) : AllBefore(handled[k], Between(n, a, b, sent))
    /\ Made(Between(n, a, b, sent), <<n, b>>, Last(handled), Last(log),
            PercentsIn(sent), cut)
PieceInv == handled # <<>> => \E n, a, b : LastPiece(n, a, b)

IInv == Types /\ StreamInv /\ BufInv /\ PieceInv

\* What a line is made of.
Numbered(s, n, length) == DOMAIN s = 1..length /\ \A i \in 1..length : s[i] = <<n, i>>

\* Its text, then CR and LF; cells are numbered.
LEMMA LineIs ==
    ASSUME NEW text \in Texts, NEW n
    PROVE  /\ Len(text) \in Nat /\ DOMAIN text = 1..Len(text)
           /\ \A i \in 1..Len(text) : text[i] \in {"%", "c"}
           /\ DOMAIN Wire(text) = 1..(Len(text) + 2)
           /\ \A i \in 1..Len(text) : Wire(text)[i] = text[i]
           /\ \A i \in 1..(Len(text) + 2) : i > Len(text) => Wire(text)[i] \in {"CR", "LF"}
           /\ DOMAIN Line(n, text) = 1..(Len(text) + 2)
           /\ \A i \in 1..(Len(text) + 2) : Line(n, text)[i] = <<n, i>>
           /\ Line(n, text) \in Seq({n} \X Nat)
           /\ Len(Line(n, text)) = Len(text) + 2
           /\ Numbered(Line(n, text), n, Len(text) + 2)
<1> DEFINE C == {"%", "c", "CR", "LF"}
<1>1. text \in Seq({"%", "c"})
  BY TextsAssumption
<1>2. /\ Len(text) \in Nat /\ DOMAIN text = 1..Len(text)
      /\ \A i \in 1..Len(text) : text[i] \in {"%", "c"}
  BY <1>1, LenProperties, ElementOfSeq
<1>3. text \in Seq(C) /\ <<"CR", "LF">> \in Seq(C)
  <2>1. {"%", "c"} \subseteq C
    OBVIOUS
  <2>2. text \in Seq(C)
    BY <1>1, <2>1, SeqMonotonic
  <2> QED
    BY <2>2
<1>4. Len(<<"CR", "LF">>) = 2 /\ <<"CR", "LF">>[1] = "CR" /\ <<"CR", "LF">>[2] = "LF"
  OBVIOUS
<1> HIDE DEF C
<1>5. /\ Wire(text) \in Seq(C) /\ Len(Wire(text)) = Len(text) + 2
      /\ \A i \in 1..Len(text) + 2 :
            Wire(text)[i] = IF i <= Len(text) THEN text[i] ELSE <<"CR", "LF">>[i - Len(text)]
  BY <1>3, <1>4, ConcatProperties DEF Wire
<1>6. DOMAIN Wire(text) = 1..(Len(text) + 2)
  BY <1>5, LenProperties
<1>7. \A i \in 1..Len(text) : Wire(text)[i] = text[i]
  BY <1>2, <1>5
<1>8. \A i \in 1..(Len(text) + 2) : i > Len(text) => Wire(text)[i] \in {"CR", "LF"}
  <2> SUFFICES ASSUME NEW i \in 1..(Len(text) + 2), i > Len(text)
               PROVE  Wire(text)[i] \in {"CR", "LF"}
    OBVIOUS
  <2>1. ~(i <= Len(text)) /\ i - Len(text) \in {1, 2}
    BY <1>2
  <2>2. Wire(text)[i] = <<"CR", "LF">>[i - Len(text)]
    BY <1>5, <2>1
  <2> QED
    BY <1>4, <2>1, <2>2
<1>9. Line(n, text) = [i \in 1..(Len(text) + 2) |-> <<n, i>>]
  BY <1>6 DEF Line
<1>10. Len(text) + 2 \in Nat
  BY <1>2
<1>11. [i \in 1..(Len(text) + 2) |-> <<n, i>>] \in Seq({n} \X Nat)
  <2>1. [i \in 1..(Len(text) + 2) |-> <<n, i>>] \in [1..(Len(text) + 2) -> {n} \X Nat]
    OBVIOUS
  <2> QED
    BY <1>10, <2>1, SeqDef
<1>12. Len(Line(n, text)) = Len(text) + 2
  BY <1>9, <1>10, <1>11, LenProperties
<1>13. /\ DOMAIN Line(n, text) = 1..(Len(text) + 2)
       /\ \A i \in 1..(Len(text) + 2) : Line(n, text)[i] = <<n, i>>
  BY <1>9
<1>14. Numbered(Line(n, text), n, Len(text) + 2)
  BY <1>13 DEF Numbered
<1> QED
  BY <1>2, <1>6, <1>7, <1>8, <1>9, <1>11, <1>12, <1>13, <1>14

\* The same of the cells alone.
LEMMA LineCells ==
    ASSUME NEW text \in Texts, NEW n
    PROVE  Numbered(Line(n, text), n, Len(text) + 2)
  BY LineIs

\* Texts are finite.
LEMMA TextLength == \A text \in Texts : Len(text) \in Nat
  BY TextsAssumption, LenProperties

\* A cell is a line's number and a place in the line as it is sent.
LEMMA CellIs ==
    ASSUME NEW lines \in Seq(Texts), NEW c
    PROVE  /\ Len(lines) \in Nat
           /\ c \in CellsIn(lines) <=>
                 \E n \in 1..Len(lines) : \E i \in 1..(Len(lines[n]) + 2) : c = <<n, i>>
           /\ c \in CellsIn(lines) =>
                 /\ c = <<c[1], c[2]>>
                 /\ c[1] \in 1..Len(lines) /\ c[1] \in Nat
                 /\ lines[c[1]] \in Texts /\ Len(lines[c[1]]) \in Nat
                 /\ c[2] \in 1..(Len(lines[c[1]]) + 2) /\ c[2] \in Nat
                 /\ c \in Nat \X Nat
<1>1. Len(lines) \in Nat /\ DOMAIN lines = 1..Len(lines)
  BY LenProperties
<1>2. \A n \in 1..Len(lines) : lines[n] \in Texts
  BY ElementOfSeq
<1>3. \A n \in 1..Len(lines) :
          /\ Len(lines[n]) \in Nat
          /\ Range(Line(n, lines[n])) = {<<n, i>> : i \in 1..(Len(lines[n]) + 2)}
  <2> SUFFICES ASSUME NEW n \in 1..Len(lines)
               PROVE  /\ Len(lines[n]) \in Nat
                      /\ Range(Line(n, lines[n])) = {<<n, i>> : i \in 1..(Len(lines[n]) + 2)}
    OBVIOUS
  <2>1. lines[n] \in Texts
    BY <1>2
  <2>2. Len(lines[n]) \in Nat
    BY <2>1, TextLength
  <2>3. /\ DOMAIN Line(n, lines[n]) = 1..(Len(lines[n]) + 2)
        /\ \A i \in 1..(Len(lines[n]) + 2) : Line(n, lines[n])[i] = <<n, i>>
    <3>1. Numbered(Line(n, lines[n]), n, Len(lines[n]) + 2)
      BY <2>1, LineCells
    <3> QED
      BY <3>1 DEF Numbered
  <2> QED
    BY <2>2, <2>3 DEF Range
<1>4. c \in CellsIn(lines) <=>
          \E n \in 1..Len(lines) : \E i \in 1..(Len(lines[n]) + 2) : c = <<n, i>>
  BY <1>1, <1>3 DEF CellsIn
<1>5. ASSUME c \in CellsIn(lines)
      PROVE  /\ c = <<c[1], c[2]>>
             /\ c[1] \in 1..Len(lines) /\ c[1] \in Nat
             /\ lines[c[1]] \in Texts /\ Len(lines[c[1]]) \in Nat
             /\ c[2] \in 1..(Len(lines[c[1]]) + 2) /\ c[2] \in Nat
             /\ c \in Nat \X Nat
  <2>0. PICK n \in 1..Len(lines) : \E i \in 1..(Len(lines[n]) + 2) : c = <<n, i>>
    BY <1>4, <1>5
  <2>1. PICK i \in 1..(Len(lines[n]) + 2) : c = <<n, i>>
    BY <2>0
  <2>2. c[1] = n /\ c[2] = i
    BY <2>1
  <2>3. n \in Nat /\ i \in Nat
    BY <1>1, <1>3
  <2> QED
    BY <1>2, <1>3, <2>1, <2>2, <2>3
<1> QED
  BY <1>1, <1>4, <1>5

\* Percent signs and delimiters, told by the character or by the cell.
LEMMA CharIs ==
    ASSUME sent \in Seq(Texts), NEW c \in CellsIn(sent)
    PROVE  /\ Char(c) = "%" <=> c \in PercentsIn(sent)
           /\ IsDelimiter(c) <=> c \in DelimitersIn(sent)
<1> DEFINE n == c[1]
           i == c[2]
<1>1. /\ sent[n] \in Texts /\ Len(sent[n]) \in Nat
      /\ i \in 1..(Len(sent[n]) + 2) /\ i \in Nat
  BY CellIs
<1> HIDE DEF n, i
<1>2. /\ \A j \in 1..Len(sent[n]) : sent[n][j] \in {"%", "c"} /\ Wire(sent[n])[j] = sent[n][j]
      /\ \A j \in 1..(Len(sent[n]) + 2) : j > Len(sent[n]) => Wire(sent[n])[j] \in {"CR", "LF"}
  BY <1>1, LineIs, ZenonT(60)
<1>3. CASE i <= Len(sent[n])
  <2>1. i \in 1..Len(sent[n]) /\ ~(i > Len(sent[n]))
    BY <1>1, <1>3
  <2>2. Wire(sent[n])[i] = sent[n][i] /\ sent[n][i] \in {"%", "c"}
    BY <1>2, <2>1
  <2> QED
    BY <1>3, <2>1, <2>2 DEF Char, IsDelimiter, PercentsIn, DelimitersIn, n, i
<1>4. CASE ~(i <= Len(sent[n]))
  <2>1. i > Len(sent[n])
    BY <1>1, <1>4
  <2>2. Wire(sent[n])[i] \in {"CR", "LF"}
    BY <1>1, <1>2, <2>1
  <2> QED
    BY <1>4, <2>1, <2>2 DEF Char, IsDelimiter, PercentsIn, DelimitersIn, n, i
<1> QED
  BY <1>3, <1>4

\* No percent sign is a delimiter.
LEMMA Kinds ==
    ASSUME NEW lines \in Seq(Texts)
    PROVE  /\ PercentsIn(lines) \cap DelimitersIn(lines) = {}
           /\ PercentsIn(lines) \subseteq CellsIn(lines)
           /\ DelimitersIn(lines) \subseteq CellsIn(lines)
<1>1. \A c \in CellsIn(lines) : c[2] \in Nat /\ Len(lines[c[1]]) \in Nat
  BY CellIs
<1>2. \A c \in CellsIn(lines) : ~(c[2] <= Len(lines[c[1]]) /\ c[2] > Len(lines[c[1]]))
  BY <1>1
<1> QED
  BY <1>2 DEF PercentsIn, DelimitersIn

\* The loops of the model are those of the lemmas above.
LEMMA PercentIs ==
    ASSUME sent \in Seq(Texts), NEW s \in Seq(CellsIn(sent)), NEW i
    PROVE  Percent(s, i) <=> Is(s, i, PercentsIn(sent))
<1>1. ASSUME i \in DOMAIN s PROVE Char(s[i]) = "%" <=> s[i] \in PercentsIn(sent)
  <2>1. s[i] \in CellsIn(sent)
    BY <1>1, LenProperties, ElementOfSeq
  <2> QED
    BY <2>1, CharIs
<1> QED
  BY <1>1 DEF Percent, Is

\* The operators of the model are those of the lemmas.
LEMMA DoubledIs ==
    ASSUME sent \in Seq(Texts), NEW s \in Seq(CellsIn(sent))
    PROVE  /\ Doubled(s) = Dbl(s, PercentsIn(sent))
           /\ Formatted(s) = Fmt(s, PercentsIn(sent))
           /\ Singled(s) = Sgl(s, PercentsIn(sent))
<1>1. \A i : Percent(s, i) <=> Is(s, i, PercentsIn(sent))
  BY PercentIs
<1>2. [i \in DOMAIN s |-> IF Percent(s, i) THEN <<s[i], s[i]>> ELSE <<s[i]>>]
         = DblOut(s, PercentsIn(sent))
  BY <1>1 DEF DblOut
<1>3. [i \in DOMAIN s |->
          IF Percent(s, i) /\ Percent(s, i + 1) THEN i + 2 ELSE i + 1]
         = DblNext(s, PercentsIn(sent))
  BY <1>1 DEF DblNext
<1>4. [i \in DOMAIN s |-> IF Percent(s, i) /\ ~Percent(s, i + 1)
                          THEN <<Garbled>> ELSE <<s[i]>>]
         = FmtOut(s, PercentsIn(sent))
  BY <1>1 DEF FmtOut
<1>5. [i \in DOMAIN s |-> IF ~Percent(s, i) THEN i + 1
                          ELSE IF Percent(s, i + 1) THEN i + 2
                          ELSE Len(s) + 1]
         = FmtNext(s, PercentsIn(sent))
  BY <1>1 DEF FmtNext
<1>6. Doubled(s) = Dbl(s, PercentsIn(sent))
  BY <1>2, <1>3 DEF Doubled, Dbl
<1>7. Formatted(s) = Fmt(s, PercentsIn(sent))
  BY <1>4, <1>5 DEF Formatted, Fmt
<1>8. Singled(s) = Sgl(s, PercentsIn(sent))
  BY <1>3 DEF Singled, Sgl, SglOut
<1> QED
  BY <1>6, <1>7, <1>8

\* The cells of a part of a line.
LEMMA BetweenIs ==
    ASSUME NEW lines \in Seq(Texts), NEW n, NEW a, NEW b, InLine(n, a, b, lines)
    PROVE  /\ Between(n, a, b, lines) \in Seq(CellsIn(lines))
           /\ Len(Between(n, a, b, lines)) = b - a + 1
           /\ \A i \in 1..(b - a + 1) : Between(n, a, b, lines)[i] = <<n, a + i - 1>>
           /\ Ascending(Between(n, a, b, lines))
           /\ Between(n, a, b, lines) # <<>>
<1>1. n \in 1..Len(lines) /\ a \in Nat /\ b \in Nat /\ 1 <= a /\ a <= b /\ b <= Len(lines[n])
  BY DEF InLine
<1>2. lines[n] \in Texts /\ Len(lines[n]) \in Nat
  BY <1>1, ElementOfSeq, TextLength
<1>3. /\ DOMAIN Line(n, lines[n]) = 1..(Len(lines[n]) + 2)
      /\ \A i \in 1..(Len(lines[n]) + 2) : Line(n, lines[n])[i] = <<n, i>>
  <2>1. Numbered(Line(n, lines[n]), n, Len(lines[n]) + 2)
    BY <1>2, LineCells
  <2> QED
    BY <2>1 DEF Numbered
<1>4. Line(n, lines[n]) \in Seq(CellsIn(lines)) /\ Len(Line(n, lines[n])) = Len(lines[n]) + 2
  <2>1. \A i \in 1..(Len(lines[n]) + 2) : <<n, i>> \in CellsIn(lines)
    BY <1>1, CellIs
  <2>2. Line(n, lines[n]) \in Seq({n} \X Nat) /\ Len(Line(n, lines[n])) = Len(lines[n]) + 2
    BY <1>2, LineIs
  <2>3. \A i \in 1..Len(Line(n, lines[n])) : Line(n, lines[n])[i] \in CellsIn(lines)
    BY <1>3, <2>1, <2>2
  <2> QED
    BY <2>2, <2>3, SeqIn
<1> DEFINE L == Line(n, lines[n])
           s == SubSeq(L, a, b)
<1> HIDE DEF L
<1>5. a \in 1..Len(L) + 1 /\ b \in a - 1..Len(L)
  BY <1>1, <1>2, <1>4 DEF L
<1>6. /\ s \in Seq(CellsIn(lines))
      /\ Len(s) = b - a + 1
      /\ \A i \in 1..(b - a + 1) : s[i] = L[a + i - 1]
  <2>1. IF a <= b THEN b - a + 1 = b - a + 1 ELSE TRUE
    OBVIOUS
  <2> QED
    BY <1>1, <1>4, <1>5, SubSeqProperties DEF L
<1>7. \A i \in 1..(b - a + 1) : s[i] = <<n, a + i - 1>>
  <2>1. \A i \in 1..(b - a + 1) : a + i - 1 \in 1..(Len(lines[n]) + 2)
    BY <1>1, <1>2
  <2> QED
    BY <1>3, <1>6, <2>1 DEF L
<1>8. Ascending(s)
  <2> SUFFICES ASSUME NEW i \in 1..Len(s), NEW j \in 1..Len(s), i < j
               PROVE  Before(s[i], s[j])
    BY DEF Ascending
  <2>1. i \in 1..(b - a + 1) /\ j \in 1..(b - a + 1)
    BY <1>6
  <2>2. s[i] = <<n, a + i - 1>> /\ s[j] = <<n, a + j - 1>>
    BY <1>7, <2>1
  <2>3. a + i - 1 < a + j - 1
    BY <1>1, <2>1
  <2> QED
    BY <2>2, <2>3 DEF Before
<1>9. s # <<>>
  <2>1. Len(s) > 0
    BY <1>1, <1>6
  <2> HIDE DEF s
  <2> QED
    BY <1>6, <2>1, NonEmpty
<1> QED
  BY <1>6, <1>7, <1>8, <1>9 DEF Between, L

\* A run without delimiters is a part of one line.
LEMMA OneLine ==
    ASSUME NEW lines \in Seq(Texts), NEW u, Run(u, lines), u # <<>>,
           \A i \in 1..Len(u) : u[i] \notin DelimitersIn(lines)
    PROVE  \E n, a, b : InLine(n, a, b, lines) /\ u = Between(n, a, b, lines)
<1>1. /\ u \in Seq(CellsIn(lines)) /\ Len(u) \in Nat /\ Len(u) > 0
      /\ \A i \in 1..Len(u) : u[i] \in CellsIn(lines)
  BY NonEmpty, LenProperties, ElementOfSeq DEF Run
<1> DEFINE n == u[1][1]
           a == u[1][2]
           b == a + Len(u) - 1
<1>2. u[1] \in CellsIn(lines)
  BY <1>1
<1>3. /\ u[1] = <<n, a>> /\ n \in 1..Len(lines) /\ a \in Nat /\ 1 <= a
      /\ lines[n] \in Texts /\ Len(lines[n]) \in Nat
  BY <1>2, CellIs
<1> HIDE DEF n, a
<1>4. \A i \in 1..Len(u) : u[i] = <<n, a + i - 1>>
  <2> DEFINE T == {i \in 1..Len(u) : u[i] # <<n, a + i - 1>>}
  <2> SUFFICES ASSUME T # {} PROVE FALSE
    OBVIOUS
  <2>1. PICK m \in T : \A i \in T : m <= i
    <3>1. T \subseteq Nat
      BY <1>1
    <3> HIDE DEF T
    <3> QED
      BY <3>1, LeastOf
  <2>2. m \in 1..Len(u) /\ m \in Nat /\ m # 1
    BY <1>1, <1>3, <2>1
  <2>3. m - 1 \in 1..Len(u) /\ m - 1 \in 1..(Len(u) - 1) /\ m - 1 + 1 = m /\ ~(m <= m - 1)
    BY <1>1, <2>2
  <2>4. u[m - 1] = <<n, a + (m - 1) - 1>>
    BY <2>1, <2>3
  <2>5. Follows(u[m - 1], u[m], lines)
    BY <2>3 DEF Run
  <2>6. ~LastOfLine(u[m - 1], lines)
    <3>1. u[m - 1] \in CellsIn(lines) /\ u[m - 1] \notin DelimitersIn(lines)
      BY <1>1, <2>3
    <3>2. u[m - 1][1] = n
      BY <2>4
    <3>3. ~(u[m - 1][2] > Len(lines[n]))
      BY <3>1, <3>2 DEF DelimitersIn
    <3> QED
      BY <1>3, <3>2, <3>3 DEF LastOfLine
  <2>7. u[m] = <<u[m - 1][1], u[m - 1][2] + 1>>
    BY <2>5, <2>6 DEF Follows
  <2>8. a + (m - 1) - 1 + 1 = a + m - 1
    BY <1>3, <2>2
  <2> QED
    BY <2>1, <2>4, <2>7, <2>8
<1>5. b \in Nat /\ a <= b /\ b - a + 1 = Len(u)
  BY <1>1, <1>3
<1>6. b <= Len(lines[n])
  <2>1. Len(u) \in 1..Len(u)
    BY <1>1
  <2>2. u[Len(u)] = <<n, b>> /\ u[Len(u)] \in CellsIn(lines) /\ u[Len(u)] \notin DelimitersIn(lines)
    BY <1>1, <1>4, <2>1
  <2>3. ~(b > Len(lines[n]))
    BY <2>2 DEF DelimitersIn
  <2> QED
    BY <1>3, <1>5, <2>3
<1>7. InLine(n, a, b, lines)
  BY <1>3, <1>5, <1>6 DEF InLine
<1>8. u = Between(n, a, b, lines)
  <2> HIDE DEF b
  <2> DEFINE w == Between(n, a, b, lines)
  <2>1. w \in Seq(CellsIn(lines)) /\ Len(w) = Len(u) /\ \A i \in 1..Len(u) : w[i] = <<n, a + i - 1>>
    BY <1>5, <1>7, BetweenIs
  <2> HIDE DEF w
  <2>2. \A i \in 1..Len(u) : u[i] = w[i]
    BY <1>4, <2>1
  <2>3. u = w
    BY <1>1, <2>1, <2>2, SeqEqual
  <2> QED
    BY <2>3 DEF w
<1> QED
  BY <1>7, <1>8

\* The part t of s that begins after its first k.
Within(t, s, k) ==
    k \in Nat /\ Len(t) + k <= Len(s) /\ \A i \in 1..Len(t) : t[i] = s[i + k]

\* The two parts of a concatenation.
LEMMA ConcatParts ==
    ASSUME NEW S, NEW u \in Seq(S), NEW v \in Seq(S)
    PROVE  Within(u, u \o v, 0) /\ Within(v, u \o v, Len(u))
<1>1. /\ Len(u) \in Nat /\ Len(v) \in Nat /\ Len(u \o v) = Len(u) + Len(v)
      /\ \A i \in 1..Len(u) + Len(v) :
            (u \o v)[i] = IF i <= Len(u) THEN u[i] ELSE v[i - Len(u)]
  BY LenProperties, ConcatProperties
<1>2. Within(u, u \o v, 0)
  <2>1. \A i \in 1..Len(u) : i \in 1..Len(u) + Len(v) /\ i <= Len(u) /\ i + 0 = i
    BY <1>1
  <2> QED
    BY <1>1, <2>1 DEF Within
<1>3. Within(v, u \o v, Len(u))
  <2>1. \A i \in 1..Len(v) :
            /\ i + Len(u) \in 1..Len(u) + Len(v) /\ ~(i + Len(u) <= Len(u))
            /\ i + Len(u) - Len(u) = i
    BY <1>1
  <2> QED
    BY <1>1, <2>1 DEF Within
<1> QED
  BY <1>2, <1>3

\* A part of a part.
LEMMA PartOfPart ==
    ASSUME NEW S, NEW t \in Seq(S), NEW s \in Seq(S), NEW r \in Seq(S), NEW k, NEW j,
           Within(t, s, k), Within(s, r, j)
    PROVE  Within(t, r, k + j)
<1>1. k \in Nat /\ j \in Nat /\ Len(t) \in Nat /\ Len(s) \in Nat /\ Len(r) \in Nat
  BY LenProperties DEF Within
<1>2. \A i \in 1..Len(t) : i + k \in 1..Len(s) /\ i + (k + j) = i + k + j
  BY <1>1 DEF Within
<1>3. \A i \in 1..Len(t) : t[i] = r[i + (k + j)]
  BY <1>2 DEF Within
<1> QED
  BY <1>1, <1>3 DEF Within

\* A part of a run is a run.
LEMMA PartOfRun ==
    ASSUME NEW lines, NEW s, Run(s, lines), NEW t \in Seq(CellsIn(lines)), NEW k,
           Within(t, s, k)
    PROVE  Run(t, lines)
<1>1. k \in Nat /\ Len(t) \in Nat /\ Len(s) \in Nat /\ Len(t) + k <= Len(s)
  BY LenProperties DEF Within, Run
<1>2. \A i \in 1..Len(t) : t[i] = s[i + k]
  BY DEF Within
<1>3. Ascending(t)
  <2>1. \A i \in 1..Len(t) : i + k \in 1..Len(s)
    BY <1>1
  <2>2. \A i, j \in 1..Len(t) : i < j => i + k < j + k
    BY <1>1
  <2>3. \A i, j \in 1..Len(s) : i < j => Before(s[i], s[j])
    BY DEF Run, Ascending
  <2> QED
    BY <1>2, <2>1, <2>2, <2>3 DEF Ascending
<1>4. \A i \in 1..(Len(t) - 1) : Follows(t[i], t[i + 1], lines)
  <2>1. \A i \in 1..(Len(t) - 1) :
            /\ i + k \in 1..(Len(s) - 1) /\ i + 1 + k = i + k + 1
            /\ i \in 1..Len(t) /\ i + 1 \in 1..Len(t)
    BY <1>1
  <2>2. \A i \in 1..(Len(s) - 1) : Follows(s[i], s[i + 1], lines)
    BY DEF Run
  <2> QED
    BY <1>2, <2>1, <2>2
<1> QED
  BY <1>3, <1>4 DEF Run

\* What comes before what.
LEMMA PartBefore ==
    ASSUME NEW S, NEW t \in Seq(S), NEW s \in Seq(S), NEW k, Within(t, s, k), NEW p
    PROVE  /\ AllBefore(p, s) => AllBefore(p, t)
           /\ AllBefore(s, p) => AllBefore(t, p)
<1>1. k \in Nat /\ Len(t) \in Nat /\ Len(s) \in Nat /\ Len(t) + k <= Len(s)
  BY LenProperties DEF Within
<1>2. \A i \in 1..Len(t) : i + k \in 1..Len(s) /\ t[i] = s[i + k]
  BY <1>1 DEF Within
<1> QED
  BY <1>2 DEF AllBefore

\* Of two parts of an ascending sequence the first comes before the second.
LEMMA PartsBefore ==
    ASSUME NEW S, NEW s \in Seq(S), Ascending(s), NEW t \in Seq(S), NEW w \in Seq(S),
           NEW k, NEW j, Within(t, s, k), Within(w, s, j), Len(t) + k <= j
    PROVE  AllBefore(t, w)
<1>1. /\ k \in Nat /\ Len(t) \in Nat /\ Len(s) \in Nat /\ Len(t) + k <= Len(s)
      /\ j \in Nat /\ Len(w) \in Nat /\ Len(w) + j <= Len(s)
  BY LenProperties DEF Within
<1>2. \A i \in 1..Len(t) : i + k \in 1..Len(s) /\ i + k <= j /\ t[i] = s[i + k]
  BY <1>1 DEF Within
<1>3. \A i \in 1..Len(w) : i + j \in 1..Len(s) /\ j < i + j /\ w[i] = s[i + j]
  BY <1>1 DEF Within
<1>4. \A i \in 1..Len(t), l \in 1..Len(w) : i + k < l + j
  BY <1>1, <1>2, <1>3
<1>5. \A i, l \in 1..Len(s) : i < l => Before(s[i], s[l])
  BY DEF Ascending
<1> QED
  BY <1>2, <1>3, <1>4, <1>5 DEF AllBefore

\* What holds only cells of u stands where u does.
LEMMA MadeBefore ==
    ASSUME NEW u, NEW l \in Seq(Range(u)), DOMAIN u = 1..Len(u), NEW p
    PROVE  /\ AllBefore(u, p) => AllBefore(l, p)
           /\ AllBefore(p, u) => AllBefore(p, l)
<1>1. \A i \in 1..Len(l) : l[i] \in Range(u)
  BY ElementOfSeq
<1>2. \A i \in 1..Len(l) : \E j \in 1..Len(u) : l[i] = u[j]
  BY <1>1 DEF Range
<1> QED
  BY <1>2 DEF AllBefore

\* One more line leaves what is known of the lines before it as it was.
LEMMA Extends ==
    ASSUME NEW lines \in Seq(Texts), NEW text \in Texts, NEW more,
           more = Append(lines, text)
    PROVE  /\ more \in Seq(Texts) /\ Len(more) = Len(lines) + 1
           /\ more[Len(lines) + 1] = text
           /\ \A n \in 1..Len(lines) : more[n] = lines[n]
           /\ CellsIn(lines) \subseteq CellsIn(more)
           /\ PercentsIn(more) \cap CellsIn(lines) = PercentsIn(lines) \cap CellsIn(lines)
<1>1. /\ more \in Seq(Texts) /\ Len(more) = Len(lines) + 1
      /\ more[Len(lines) + 1] = text
      /\ \A n \in 1..Len(lines) : more[n] = lines[n]
      /\ Len(lines) \in Nat
  BY AppendProperties, LenProperties
<1>2. \A c \in CellsIn(lines) : c \in CellsIn(more)
  <2> SUFFICES ASSUME NEW c \in CellsIn(lines) PROVE c \in CellsIn(more)
    OBVIOUS
  <2>1. PICK n \in 1..Len(lines) : \E i \in 1..(Len(lines[n]) + 2) : c = <<n, i>>
    BY CellIs
  <2>2. n \in 1..Len(more) /\ more[n] = lines[n]
    BY <1>1
  <2>3. \E i \in 1..(Len(more[n]) + 2) : c = <<n, i>>
    BY <2>1, <2>2
  <2> QED
    BY <1>1, <2>2, <2>3, CellIs
<1>3. \A c \in CellsIn(lines) : more[c[1]] = lines[c[1]]
  BY <1>1, CellIs
<1> QED
  BY <1>1, <1>2, <1>3 DEF PercentsIn

\* The same of runs and of parts of lines.
LEMMA ExtendsParts ==
    ASSUME NEW lines \in Seq(Texts), NEW text \in Texts, NEW more,
           more = Append(lines, text)
    PROVE  /\ \A s : Run(s, lines) => Run(s, more)
           /\ \A c \in CellsIn(lines) : LastOfLine(c, lines) => LastOfLine(c, more)
           /\ \A n, a, b : InLine(n, a, b, lines) =>
                  InLine(n, a, b, more) /\ Between(n, a, b, more) = Between(n, a, b, lines)
<1>1. /\ Len(more) = Len(lines) + 1 /\ Len(lines) \in Nat
      /\ \A n \in 1..Len(lines) : more[n] = lines[n]
      /\ CellsIn(lines) \subseteq CellsIn(more)
  <2>1. Len(lines) \in Nat
    BY LenProperties
  <2>2. Len(more) = Len(lines) + 1 /\ CellsIn(lines) \subseteq CellsIn(more)
    BY Extends
  <2>3. \A n \in 1..Len(lines) : more[n] = lines[n]
    BY Extends, AppendProperties
  <2> QED
    BY <2>1, <2>2, <2>3
<1>2. \A c \in CellsIn(lines) : more[c[1]] = lines[c[1]]
  BY <1>1, CellIs
<1>3. \A c \in CellsIn(lines) : LastOfLine(c, lines) => LastOfLine(c, more)
  BY <1>2 DEF LastOfLine
<1>4. ASSUME NEW s, Run(s, lines) PROVE Run(s, more)
  <2>1. s \in Seq(CellsIn(more)) /\ Len(s) \in Nat
    BY <1>1, <1>4, SeqMonotonic, LenProperties DEF Run
  <2>2. \A i \in 1..Len(s) : s[i] \in CellsIn(lines)
    BY <1>4, ElementOfSeq DEF Run
  <2>3. \A i \in 1..(Len(s) - 1) : i \in 1..Len(s)
    BY <2>1
  <2>4. \A i \in 1..(Len(s) - 1) : Follows(s[i], s[i + 1], lines)
    BY <1>4 DEF Run
  <2>5. \A i \in 1..(Len(s) - 1) : Follows(s[i], s[i + 1], more)
    BY <1>3, <2>2, <2>3, <2>4 DEF Follows
  <2> QED
    BY <1>4, <2>1, <2>5 DEF Run
<1>5. \A n, a, b : InLine(n, a, b, lines) =>
          InLine(n, a, b, more) /\ Between(n, a, b, more) = Between(n, a, b, lines)
  BY <1>1 DEF InLine, Between
<1> QED
  BY <1>3, <1>4, <1>5

\* What is sent goes on from what was sent.
LEMMA SentOn ==
    ASSUME NEW lines \in Seq(Texts), NEW text \in Texts, NEW more,
           more = Append(lines, text), NEW s, Run(s, lines),
           s # <<>> => LastOfLine(Last(s), lines),
           NEW w, w = Line(Len(lines) + 1, text)
    PROVE  /\ Run(s \o w, more) /\ s \o w # <<>> /\ LastOfLine(Last(s \o w), more)
           /\ \A p \in Seq(CellsIn(lines)) : AllBefore(p, s) => AllBefore(p, s \o w)
<1> DEFINE n == Len(lines) + 1
           m == Len(text) + 2
<1>1. /\ more \in Seq(Texts) /\ Len(more) = n /\ more[n] = text
      /\ n \in Nat /\ n \in 1..Len(more)
      /\ CellsIn(lines) \subseteq CellsIn(more)
  <2>1. Len(lines) \in Nat
    BY LenProperties
  <2>2. /\ more \in Seq(Texts) /\ Len(more) = Len(lines) + 1
        /\ more[Len(lines) + 1] = text
        /\ CellsIn(lines) \subseteq CellsIn(more)
    BY Extends
  <2> QED
    BY <2>1, <2>2
<1>2. m \in Nat /\ m > 1
  BY TextLength
<1>3. Numbered(w, n, m) /\ Len(w) = m
  BY LineCells, LineIs
<1>4. \A i \in 1..m : w[i] = <<n, i>>
  BY <1>3 DEF Numbered
<1>5. \A c \in CellsIn(lines) : c[1] < n
  <2>1. \A c \in CellsIn(lines) : c[1] \in 1..Len(lines) /\ Len(lines) \in Nat
    BY CellIs
  <2> QED
    BY <2>1
<1>6. w \in Seq(CellsIn(more))
  <2>1. \A i \in 1..m : w[i] \in CellsIn(more)
    <3>1. \A i \in 1..(Len(more[n]) + 2) : <<n, i>> \in CellsIn(more)
      BY <1>1, CellIs
    <3> QED
      BY <1>1, <1>4, <3>1
  <2>2. w \in Seq({n} \X Nat)
    BY LineIs
  <2> QED
    BY <1>3, <2>1, <2>2, SeqIn
<1>7. Run(s, more) /\ s \in Seq(CellsIn(more)) /\ s \in Seq(CellsIn(lines)) /\ Len(s) \in Nat
  <2>1. Run(s, more)
    BY ExtendsParts
  <2> QED
    BY <2>1, LenProperties DEF Run
<1>8. \A i \in 1..Len(s) : s[i] \in CellsIn(lines)
  BY <1>7, ElementOfSeq
<1> HIDE DEF n, m
<1> DEFINE r == s \o w
<1>9. /\ r \in Seq(CellsIn(more)) /\ Len(r) = Len(s) + m
      /\ \A i \in 1..Len(s) + m : r[i] = IF i <= Len(s) THEN s[i] ELSE w[i - Len(s)]
  BY <1>3, <1>6, <1>7, ConcatProperties
<1> HIDE DEF r
<1>10. \A i \in 1..Len(s) : r[i] = s[i]
  <2>1. \A i \in 1..Len(s) : i \in 1..Len(s) + m /\ i <= Len(s)
    BY <1>2, <1>7
  <2> QED
    BY <1>9, <2>1
<1>11. \A i \in (Len(s) + 1)..(Len(s) + m) : r[i] = <<n, i - Len(s)>>
  <2>1. \A i \in (Len(s) + 1)..(Len(s) + m) :
            i \in 1..Len(s) + m /\ ~(i <= Len(s)) /\ i - Len(s) \in 1..m
    BY <1>2, <1>7
  <2> QED
    BY <1>4, <1>9, <2>1
<1>12. \A p \in Seq(CellsIn(lines)) : AllBefore(p, s) => AllBefore(p, r)
  <2> SUFFICES ASSUME NEW p \in Seq(CellsIn(lines)), AllBefore(p, s),
                      NEW i \in 1..Len(p), NEW j \in 1..Len(r)
               PROVE  Before(p[i], r[j])
    BY DEF AllBefore
  <2>1. CASE j <= Len(s)
    <3>1. j \in 1..Len(s)
      BY <1>9, <2>1
    <3> QED
      BY <1>10, <3>1 DEF AllBefore
  <2>2. CASE ~(j <= Len(s))
    <3>1. j \in (Len(s) + 1)..(Len(s) + m)
      BY <1>2, <1>7, <1>9, <2>2
    <3>2. r[j][1] = n /\ p[i][1] < n
      BY <1>5, <1>11, <3>1, ElementOfSeq
    <3> QED
      BY <3>2 DEF Before
  <2> QED
    BY <2>1, <2>2
<1>13. Ascending(r)
  <2> SUFFICES ASSUME NEW i \in 1..Len(r), NEW j \in 1..Len(r), i < j
               PROVE  Before(r[i], r[j])
    BY DEF Ascending
  <2>1. CASE j <= Len(s)
    <3>1. i \in 1..Len(s) /\ j \in 1..Len(s)
      BY <1>7, <1>9, <2>1
    <3>2. r[i] = s[i] /\ r[j] = s[j]
      BY <1>10, <3>1
    <3>3. Before(s[i], s[j])
      BY <3>1 DEF Run, Ascending
    <3> QED
      BY <3>2, <3>3
  <2>2. CASE ~(j <= Len(s)) /\ i <= Len(s)
    <3>1. i \in 1..Len(s) /\ j \in (Len(s) + 1)..(Len(s) + m)
      BY <1>2, <1>7, <1>9, <2>2
    <3>2. r[i][1] < n /\ r[j][1] = n
      BY <1>5, <1>8, <1>10, <1>11, <3>1
    <3> QED
      BY <3>2 DEF Before
  <2>3. CASE ~(i <= Len(s))
    <3>1. /\ i \in (Len(s) + 1)..(Len(s) + m) /\ j \in (Len(s) + 1)..(Len(s) + m)
          /\ i - Len(s) < j - Len(s)
      BY <1>2, <1>7, <1>9, <2>3
    <3>2. r[i] = <<n, i - Len(s)>> /\ r[j] = <<n, j - Len(s)>>
      BY <1>11, <3>1
    <3> QED
      BY <3>1, <3>2 DEF Before
  <2> QED
    BY <2>1, <2>2, <2>3
<1>14. \A i \in 1..(Len(r) - 1) : Follows(r[i], r[i + 1], more)
  <2> SUFFICES ASSUME NEW i \in 1..(Len(r) - 1) PROVE Follows(r[i], r[i + 1], more)
    OBVIOUS
  <2>1. CASE i < Len(s)
    <3>1. i \in 1..(Len(s) - 1) /\ i \in 1..Len(s) /\ i + 1 \in 1..Len(s)
      BY <1>7, <1>9, <2>1
    <3>2. Follows(s[i], s[i + 1], more)
      BY <1>7, <3>1 DEF Run
    <3> QED
      BY <1>10, <3>1, <3>2
  <2>2. CASE i = Len(s)
    <3>1. i \in 1..Len(s) /\ i + 1 \in (Len(s) + 1)..(Len(s) + m) /\ Len(s) > 0
      BY <1>2, <1>7, <1>9, <2>2
    <3>2. s # <<>>
      BY <1>7, <3>1, NonEmpty
    <3>3. r[i] = Last(s) /\ r[i] \in CellsIn(lines)
      BY <1>8, <1>10, <2>2, <3>1 DEF Last
    <3>4. LastOfLine(r[i], more)
      BY <3>2, <3>3, ExtendsParts
    <3>5. r[i + 1][1] = n /\ r[i][1] < n
      BY <1>5, <1>11, <3>1, <3>3
    <3> QED
      BY <3>4, <3>5 DEF Follows, Before
  <2>3. CASE i > Len(s)
    <3>1. /\ i \in (Len(s) + 1)..(Len(s) + m) /\ i + 1 \in (Len(s) + 1)..(Len(s) + m)
          /\ i + 1 - Len(s) = i - Len(s) + 1
      BY <1>2, <1>7, <1>9, <2>3
    <3>2. r[i] = <<n, i - Len(s)>> /\ r[i + 1] = <<n, i - Len(s) + 1>>
      BY <1>11, <3>1
    <3> QED
      BY <3>2 DEF Follows
  <2>4. i \in Nat
    BY <1>2, <1>7, <1>9
  <2> QED
    BY <1>7, <2>1, <2>2, <2>3, <2>4
<1>15. r # <<>> /\ LastOfLine(Last(r), more)
  <2>1. Len(r) > 0 /\ Len(r) \in (Len(s) + 1)..(Len(s) + m) /\ Len(r) - Len(s) = m
    BY <1>2, <1>7, <1>9
  <2>2. r # <<>>
    BY <1>9, <2>1, NonEmpty
  <2>3. Last(r) = <<n, m>>
    BY <1>11, <2>1 DEF Last
  <2> QED
    BY <1>1, <2>2, <2>3 DEF LastOfLine, m
<1> QED
  BY <1>9, <1>12, <1>13, <1>14, <1>15 DEF Run, r

\* SelectInSeq finds the places of the lemmas above.
LEMMA MoreIs ==
    ASSUME sent \in Seq(Texts), buf \in Seq(CellsIn(sent))
    PROVE  /\ More <=> \E i \in 1..Len(buf) : buf[i] \notin DelimitersIn(sent)
           /\ Others(buf, DelimitersIn(sent)) # {} =>
                 PieceStart = Min(Others(buf, DelimitersIn(sent)))
<1>1. DOMAIN buf = 1..Len(buf) /\ \A i \in 1..Len(buf) : buf[i] \in CellsIn(sent)
  BY LenProperties, ElementOfSeq
<1>2. \A i \in 1..Len(buf) : IsDelimiter(buf[i]) <=> buf[i] \in DelimitersIn(sent)
  BY <1>1, CharIs
<1>3. More <=> \E i \in 1..Len(buf) : buf[i] \notin DelimitersIn(sent)
  BY <1>1, <1>2 DEF More
<1>4. {i \in 1..Len(buf) : ~IsDelimiter(buf[i])} = Others(buf, DelimitersIn(sent))
  BY <1>2 DEF Others
<1>5. PieceStart = IF Others(buf, DelimitersIn(sent)) = {} THEN 0
                   ELSE Min(Others(buf, DelimitersIn(sent)))
  BY <1>4 DEF PieceStart, SelectInSeq
<1> QED
  BY <1>3, <1>5

\* PieceEnd is the place TokenIs speaks of.
LEMMA PieceEndIs ==
    ASSUME sent \in Seq(Texts), buf \in Seq(CellsIn(sent)), NEW first \in 1..Len(buf)
    PROVE  PieceEnd(first) = EndOf(buf, first, DelimitersIn(sent))
<1> DEFINE rest == SubSeq(buf, first, Len(buf))
<1>1. rest \in Seq(CellsIn(sent))
  <2>1. Len(buf) \in Nat /\ first \in 1..Len(buf) + 1 /\ Len(buf) \in first - 1..Len(buf)
    BY LenProperties
  <2> QED
    BY <2>1, SubSeqProperties
<1> HIDE DEF rest
<1>2. \A i \in 1..Len(rest) : rest[i] \in CellsIn(sent)
  BY <1>1, ElementOfSeq
<1>3. \A i \in 1..Len(rest) : IsDelimiter(rest[i]) <=> rest[i] \in DelimitersIn(sent)
  BY <1>2, CharIs
<1>4. {i \in 1..Len(rest) : IsDelimiter(rest[i])} = Places(rest, DelimitersIn(sent))
  BY <1>3 DEF Places
<1>5. SelectInSeq(rest, IsDelimiter)
         = IF Places(rest, DelimitersIn(sent)) = {} THEN 0
           ELSE Min(Places(rest, DelimitersIn(sent)))
  BY <1>4 DEF SelectInSeq
<1>6. Places(rest, DelimitersIn(sent)) # {} => Min(Places(rest, DelimitersIn(sent))) # 0
  <2> SUFFICES ASSUME Places(rest, DelimitersIn(sent)) # {}
               PROVE  Min(Places(rest, DelimitersIn(sent))) # 0
    OBVIOUS
  <2> DEFINE T == Places(rest, DelimitersIn(sent))
  <2>1. T \subseteq Nat /\ \A i \in T : i # 0
    <3>1. Len(rest) \in Nat
      BY <1>1, LenProperties
    <3> QED
      BY <3>1 DEF Places
  <2> HIDE DEF T
  <2>2. PICK m \in T : \A i \in T : m <= i
    BY <2>1, LeastOf DEF T
  <2>3. Min(T) = m
    BY <2>1, <2>2, FirstIs
  <2> QED
    BY <2>1, <2>2, <2>3 DEF T
<1>7. PieceEnd(first) = LET i == SelectInSeq(rest, IsDelimiter)
                        IN IF i = 0 THEN Len(buf) + 1 ELSE first + i - 1
  BY DEF PieceEnd, rest
<1>8. EndOf(buf, first, DelimitersIn(sent))
         = IF Places(rest, DelimitersIn(sent)) = {} THEN Len(buf) + 1
           ELSE first + Min(Places(rest, DelimitersIn(sent))) - 1
  BY DEF EndOf, rest
<1> QED
  BY <1>5, <1>6, <1>7, <1>8

-----------------------------------------------------------------------------
(* The invariant is inductive. *)

LEMMA InitIInv == Init => IInv
<1> SUFFICES ASSUME Init PROVE IInv
  OBVIOUS
<1>1. /\ sent = <<>> /\ stream = <<>> /\ buf = <<>> /\ handled = <<>> /\ log = <<>>
      /\ cut = {} /\ losses = 0
  BY DEF Init
<1>2. \A S : <<>> \in Seq(S) /\ Len(<<>>) = 0
  BY EmptySeq
<1>3. MaxLines \in Nat /\ MaxLosses \in Nat
  BY BoundsAssumption
<1>4. Types
  BY <1>1, <1>2, <1>3 DEF Types
<1>5. StreamInv
  <2>1. Run(<<>>, sent)
    BY <1>2 DEF Run, Ascending
  <2> QED
    BY <1>1, <1>2, <2>1 DEF StreamInv
<1>6. BufInv /\ PieceInv
  BY <1>1 DEF BufInv, PieceInv
<1> QED
  BY <1>4, <1>5, <1>6 DEF IInv

\* What was made of a piece stays so when lines are added and cells are cut.
LEMMA MadeStays ==
    ASSUME NEW S, NEW u \in Seq(S), u # <<>>, NEW end, NEW piece, NEW entry,
           NEW P, NEW Q, P \cap S = Q \cap S, NEW ends, NEW more, ends \subseteq more,
           Made(u, end, piece, entry, P, ends)
    PROVE  Made(u, end, piece, entry, Q, more)
<1>1. Dbl(u, P) = Dbl(u, Q) /\ Sgl(u, P) = Sgl(u, Q)
  BY DblSame
<1>2. Last(Sgl(u, P)) \in S
  <2>1. Sgl(u, P) \in Seq(S) /\ Sgl(u, P) # <<>>
    BY SglTyped
  <2> QED
    BY <2>1, FrontIs
<1>3. End(Last(Sgl(u, P)), P) = End(Last(Sgl(u, P)), Q)
  BY <1>2 DEF End
<1> QED
  BY <1>1, <1>3 DEF Made

\* The server sends a line: the runs and the pieces are among the older ones.
LEMMA SendLineIInv == IInv /\ SendLine => IInv'
<1> SUFFICES ASSUME IInv, SendLine PROVE IInv'
  OBVIOUS
<1>1. PICK text \in Texts :
          sent' = Append(sent, text) /\ stream' = stream \o Line(Len(sent) + 1, text)
  BY DEF SendLine
<1>2. /\ Len(sent) < MaxLines /\ buf' = buf /\ handled' = handled /\ log' = log
      /\ cut' = cut /\ losses' = losses
  BY DEF SendLine
<1>3. sent \in Seq(Texts) /\ Len(sent) \in Nat
  <2>1. sent \in Seq(Texts)
    BY DEF IInv, Types
  <2> QED
    BY <2>1, LenProperties
<1>4. /\ sent' \in Seq(Texts) /\ Len(sent') = Len(sent) + 1
      /\ CellsIn(sent) \subseteq CellsIn(sent')
      /\ PercentsIn(sent') \cap CellsIn(sent) = PercentsIn(sent) \cap CellsIn(sent)
  BY <1>1, <1>3, Extends
<1>5. /\ \A s : Run(s, sent) => Run(s, sent')
      /\ \A n, a, b : InLine(n, a, b, sent) =>
             InLine(n, a, b, sent') /\ Between(n, a, b, sent') = Between(n, a, b, sent)
  <2>1. \A s : Run(s, sent) => Run(s, sent')
    BY <1>1, <1>3, ExtendsParts
  <2>2. \A n, a, b : InLine(n, a, b, sent) =>
            InLine(n, a, b, sent') /\ Between(n, a, b, sent') = Between(n, a, b, sent)
    <3>1. \A n \in 1..Len(sent) : sent'[n] = sent[n]
      BY <1>1, <1>3, AppendProperties
    <3> QED
      BY <1>3, <1>4, <3>1 DEF InLine, Between
  <2> QED
    BY <2>1, <2>2
<1>6. Types'
  <2>1. MaxLines \in Nat
    BY BoundsAssumption
  <2>2. Len(sent') <= MaxLines
    BY <1>2, <1>3, <1>4, <2>1
  <2>3. /\ losses \in 0..MaxLosses /\ cut \subseteq CellsIn(sent)
        /\ handled \in Seq(Seq(CellsIn(sent)))
        /\ \A k \in 1..Len(handled) : handled[k] # <<>>
        /\ log \in Seq(Seq(CellsIn(sent) \cup {Garbled})) /\ Len(log) = Len(handled)
    BY DEF IInv, Types
  <2>4. handled \in Seq(Seq(CellsIn(sent')))
    <3>1. Seq(CellsIn(sent)) \subseteq Seq(CellsIn(sent'))
      BY <1>4, SeqMonotonic
    <3> QED
      BY <2>3, <3>1, SeqMonotonic
  <2>5. log \in Seq(Seq(CellsIn(sent') \cup {Garbled}))
    <3>1. CellsIn(sent) \cup {Garbled} \subseteq CellsIn(sent') \cup {Garbled}
      BY <1>4
    <3>2. Seq(CellsIn(sent) \cup {Garbled}) \subseteq Seq(CellsIn(sent') \cup {Garbled})
      BY <3>1, SeqMonotonic
    <3> QED
      BY <2>3, <3>2, SeqMonotonic
  <2> QED
    BY <1>2, <1>4, <2>2, <2>3, <2>4, <2>5 DEF Types
<1>7. StreamInv'
  <2>1. /\ Run(stream, sent)
        /\ stream # <<>> => LastOfLine(Last(stream), sent)
        /\ \A k \in 1..Len(handled) : AllBefore(handled[k], stream)
    BY DEF IInv, StreamInv
  <2>2. /\ Run(stream', sent') /\ LastOfLine(Last(stream'), sent')
        /\ \A p \in Seq(CellsIn(sent)) : AllBefore(p, stream) => AllBefore(p, stream')
    <3> DEFINE w == Line(Len(sent) + 1, text)
    <3>1. /\ Run(stream \o w, sent') /\ LastOfLine(Last(stream \o w), sent')
          /\ \A p \in Seq(CellsIn(sent)) : AllBefore(p, stream) => AllBefore(p, stream \o w)
      BY <1>1, <1>3, <2>1, SentOn
    <3> QED
      BY <1>1, <3>1
  <2>3. \A k \in 1..Len(handled) : handled[k] \in Seq(CellsIn(sent))
    <3>1. handled \in Seq(Seq(CellsIn(sent)))
      BY DEF IInv, Types
    <3> QED
      BY <3>1, ElementOfSeq
  <2> QED
    BY <1>2, <2>1, <2>2, <2>3 DEF StreamInv
<1>8. BufInv'
  <2>1. CASE buf = <<>>
    BY <1>2, <2>1 DEF BufInv
  <2>2. CASE buf # <<>>
    <3>1. PICK s : Chunk(s)
      BY <2>2 DEF IInv, BufInv
    <3>2. /\ s # <<>> /\ Len(s) <= BufSize /\ Run(s, sent) /\ Last(s) \in cut
          /\ buf = Front(Dbl(s, PercentsIn(sent)))
          /\ AllBefore(s, stream)
          /\ \A k \in 1..Len(handled) : AllBefore(handled[k], s)
      BY <3>1 DEF Chunk
    <3>3. s \in Seq(CellsIn(sent))
      BY <3>2 DEF Run
    <3>4. Dbl(s, PercentsIn(sent)) = Dbl(s, PercentsIn(sent'))
      BY <1>4, <3>3, DblSame
    <3>5. AllBefore(s, stream')
      <4> DEFINE w == Line(Len(sent) + 1, text)
      <4>1. Run(stream, sent) /\ (stream # <<>> => LastOfLine(Last(stream), sent))
        BY DEF IInv, StreamInv
      <4>2. \A p \in Seq(CellsIn(sent)) : AllBefore(p, stream) => AllBefore(p, stream \o w)
        BY <1>1, <1>3, <4>1, SentOn
      <4> QED
        BY <1>1, <3>2, <3>3, <4>2
    <3>6. Run(s, sent')
      BY <1>5, <3>2
    <3>7. Chunk(s)'
      BY <1>2, <3>2, <3>4, <3>5, <3>6 DEF Chunk
    <3> QED
      BY <3>7 DEF BufInv
  <2> QED
    BY <2>1, <2>2
<1>9. PieceInv'
  <2> SUFFICES ASSUME handled # <<>> PROVE \E n, a, b : LastPiece(n, a, b)'
    BY <1>2 DEF PieceInv
  <2>1. PICK n, a, b : LastPiece(n, a, b)
    BY DEF IInv, PieceInv
  <2> DEFINE u == Between(n, a, b, sent)
  <2>2. /\ InLine(n, a, b, sent)
        /\ \A k \in 1..(Len(handled) - 1) : AllBefore(handled[k], u)
        /\ Made(u, <<n, b>>, Last(handled), Last(log), PercentsIn(sent), cut)
    BY <2>1 DEF LastPiece
  <2>3. u \in Seq(CellsIn(sent)) /\ u # <<>>
    BY <1>3, <2>2, BetweenIs
  <2>4. InLine(n, a, b, sent') /\ Between(n, a, b, sent') = u
    BY <1>5, <2>2
  <2> HIDE DEF u
  <2>5. Made(u, <<n, b>>, Last(handled), Last(log), PercentsIn(sent'), cut)
    BY <1>4, <2>2, <2>3, MadeStays
  <2>6. LastPiece(n, a, b)'
    BY <1>2, <2>2, <2>4, <2>5 DEF LastPiece
  <2> QED
    BY <2>6
<1> QED
  BY <1>6, <1>7, <1>8, <1>9 DEF IInv

\* The bytes of a chunk come off the stream and are escaped into the buffer.
LEMMA ReceiveIInv == IInv /\ Receive => IInv'
<1> SUFFICES ASSUME IInv, Receive PROVE IInv'
  OBVIOUS
<1>1. PICK n \in 1..BufSize :
          /\ n <= Len(stream)
          /\ buf' = Escaped(SubSeq(stream, 1, n))
          /\ stream' = SubSeq(stream, n + 1, Len(stream))
          /\ cut' = cut \cup {stream[n]}
  BY DEF Receive
<1>2. /\ sent' = sent /\ handled' = handled /\ log' = log /\ losses' = losses
  BY DEF Receive
<1>3. PICK chunk : chunk = SubSeq(stream, 1, n)
  OBVIOUS
<1>4. PICK before : before = stream
  OBVIOUS
<1>5. /\ sent \in Seq(Texts) /\ Run(before, sent) /\ before \in Seq(CellsIn(sent))
      /\ before # <<>> => LastOfLine(Last(before), sent)
      /\ \A k \in 1..Len(handled) : AllBefore(handled[k], before)
  BY <1>4 DEF IInv, Types, StreamInv, Run
<1>6. /\ n \in Nat /\ n > 0 /\ n <= BufSize /\ Len(before) \in Nat
      /\ n \in 0..Len(before) /\ n \in 1..Len(before)
  <2>1. Len(before) \in Nat
    BY <1>5, LenProperties
  <2> QED
    BY <1>1, <1>4, <2>1, BoundsAssumption
<1>7. /\ chunk \in Seq(CellsIn(sent)) /\ Len(chunk) = n
      /\ \A i \in 1..n : chunk[i] = before[i]
      /\ before = chunk \o Drop(before, n)
  BY <1>3, <1>4, <1>5, <1>6, SplitAt, ZenonT(60)
<1>8. PICK after : after = Drop(before, n)
  OBVIOUS
<1>9. stream' = after
  BY <1>1, <1>4, <1>8 DEF Drop
<1>10. after \in Seq(CellsIn(sent)) /\ Len(after) = Len(before) - n
  BY <1>5, <1>6, <1>8, DropIs
<1>11. Within(chunk, before, 0) /\ Within(after, before, n)
  BY <1>7, <1>8, <1>10, ConcatParts
<1>12. chunk # <<>>
  BY <1>6, <1>7, NonEmpty
<1>13. cut' = cut \cup {Last(chunk)} /\ Last(chunk) \in CellsIn(sent)
  <2>1. Last(chunk) = before[n]
    BY <1>6, <1>7 DEF Last
  <2>2. Last(chunk) \in CellsIn(sent)
    BY <1>7, <1>12, FrontIs
  <2> QED
    BY <1>1, <1>4, <2>1, <2>2
<1>14. buf' = Front(Dbl(chunk, PercentsIn(sent)))
  <2>1. Doubled(chunk) = Dbl(chunk, PercentsIn(sent))
    BY <1>5, <1>7, DoubledIs
  <2> QED
    BY <1>1, <1>3, <2>1 DEF Escaped
<1>15. Types'
  BY <1>2, <1>13 DEF IInv, Types
<1>16. StreamInv'
  <2>1. Run(after, sent)
    BY <1>5, <1>10, <1>11, PartOfRun
  <2>2. after # <<>> => LastOfLine(Last(after), sent)
    <3> SUFFICES ASSUME after # <<>> PROVE LastOfLine(Last(after), sent)
      OBVIOUS
    <3>1. Last(chunk \o after) = Last(after)
      BY <1>7, <1>10, FrontConcat
    <3>2. before # <<>>
      BY <1>5, <1>6, NonEmpty
    <3> QED
      BY <1>5, <1>7, <1>8, <3>1, <3>2
  <2>3. \A k \in 1..Len(handled) : AllBefore(handled[k], after)
    BY <1>5, <1>10, <1>11, PartBefore
  <2> QED
    BY <1>2, <1>9, <2>1, <2>2, <2>3 DEF StreamInv
<1>17. BufInv'
  <2>1. Run(chunk, sent)
    BY <1>5, <1>7, <1>11, PartOfRun
  <2>2. \A k \in 1..Len(handled) : AllBefore(handled[k], chunk)
    BY <1>5, <1>7, <1>11, PartBefore
  <2>3. AllBefore(chunk, after)
    <3>1. Ascending(before)
      BY <1>5 DEF Run
    <3>2. Len(chunk) + 0 <= n
      BY <1>6, <1>7
    <3> QED
      BY <1>5, <1>7, <1>10, <1>11, <3>1, <3>2, PartsBefore
  <2>4. Len(chunk) <= BufSize
    BY <1>6, <1>7
  <2>5. Chunk(chunk)'
    BY <1>2, <1>9, <1>12, <1>13, <1>14, <2>1, <2>2, <2>3, <2>4 DEF Chunk
  <2> QED
    BY <2>5 DEF BufInv
<1>18. PieceInv'
  <2> SUFFICES ASSUME handled # <<>> PROVE \E m, a, b : LastPiece(m, a, b)'
    BY <1>2 DEF PieceInv
  <2>1. PICK m, a, b : LastPiece(m, a, b)
    BY DEF IInv, PieceInv
  <2> DEFINE u == Between(m, a, b, sent)
  <2>2. /\ InLine(m, a, b, sent)
        /\ \A k \in 1..(Len(handled) - 1) : AllBefore(handled[k], u)
        /\ Made(u, <<m, b>>, Last(handled), Last(log), PercentsIn(sent), cut)
    BY <2>1 DEF LastPiece
  <2>3. u \in Seq(CellsIn(sent)) /\ u # <<>>
    BY <1>5, <2>2, BetweenIs
  <2> HIDE DEF u
  <2>4. Made(u, <<m, b>>, Last(handled), Last(log), PercentsIn(sent), cut')
    <3>1. cut \subseteq cut'
      BY <1>13
    <3> QED
      BY <2>2, <2>3, <3>1, MadeStays
  <2>5. LastPiece(m, a, b)'
    BY <1>2, <2>2, <2>4 DEF LastPiece, u
  <2> QED
    BY <2>5
<1> QED
  BY <1>15, <1>16, <1>17, <1>18 DEF IInv

\* What was not received is cut off.
LEMMA LoseConnectionIInv == IInv /\ LoseConnection => IInv'
<1> SUFFICES ASSUME IInv, LoseConnection PROVE IInv'
  OBVIOUS
<1>1. /\ losses < MaxLosses /\ losses' = losses + 1
      /\ stream' = <<>> /\ cut' = cut \cup Range(stream)
      /\ sent' = sent /\ buf' = buf /\ handled' = handled /\ log' = log
  BY DEF LoseConnection
<1>2. sent \in Seq(Texts)
  BY DEF IInv, Types
<1>3. cut \subseteq CellsIn(sent) /\ cut' \subseteq CellsIn(sent)
  <2>1. stream \in Seq(CellsIn(sent))
    BY DEF IInv, StreamInv, Run
  <2>2. DOMAIN stream = 1..Len(stream) /\ \A i \in 1..Len(stream) : stream[i] \in CellsIn(sent)
    BY <2>1, LenProperties, ElementOfSeq
  <2>3. Range(stream) \subseteq CellsIn(sent)
    BY <2>2 DEF Range
  <2> QED
    BY <1>1, <2>3 DEF IInv, Types
<1>4. losses' \in 0..MaxLosses
  <2>1. losses \in 0..MaxLosses /\ MaxLosses \in Nat
    BY BoundsAssumption DEF IInv, Types
  <2> QED
    BY <1>1, <2>1
<1>5. Types'
  BY <1>1, <1>3, <1>4 DEF IInv, Types
<1>6. \A s : AllBefore(s, <<>>)
  BY EmptySeq DEF AllBefore
<1>7. StreamInv'
  <2>1. <<>> \in Seq(CellsIn(sent)) /\ Len(<<>>) = 0
    BY EmptySeq
  <2>2. Run(<<>>, sent)
    BY <2>1 DEF Run, Ascending
  <2> QED
    BY <1>1, <1>6, <2>2 DEF StreamInv
<1>8. BufInv'
  <2>1. CASE buf = <<>>
    BY <1>1, <2>1 DEF BufInv
  <2>2. CASE buf # <<>>
    <3>1. PICK s : Chunk(s)
      BY <2>2 DEF IInv, BufInv
    <3>2. Chunk(s)'
      BY <1>1, <1>6, <3>1 DEF Chunk
    <3> QED
      BY <3>2 DEF BufInv
  <2> QED
    BY <2>1, <2>2
<1>9. PieceInv'
  <2> SUFFICES ASSUME handled # <<>> PROVE \E m, a, b : LastPiece(m, a, b)'
    BY <1>1 DEF PieceInv
  <2>1. PICK m, a, b : LastPiece(m, a, b)
    BY DEF IInv, PieceInv
  <2> DEFINE u == Between(m, a, b, sent)
  <2>2. /\ InLine(m, a, b, sent)
        /\ \A k \in 1..(Len(handled) - 1) : AllBefore(handled[k], u)
        /\ Made(u, <<m, b>>, Last(handled), Last(log), PercentsIn(sent), cut)
    BY <2>1 DEF LastPiece
  <2>3. u \in Seq(CellsIn(sent)) /\ u # <<>>
    BY <1>2, <2>2, BetweenIs
  <2> HIDE DEF u
  <2>4. Made(u, <<m, b>>, Last(handled), Last(log), PercentsIn(sent), cut')
    <3>1. cut \subseteq cut'
      BY <1>1
    <3> QED
      BY <2>2, <2>3, <3>1, MadeStays
  <2>5. LastPiece(m, a, b)'
    BY <1>1, <2>2, <2>4 DEF LastPiece, u
  <2> QED
    BY <2>5
<1> QED
  BY <1>5, <1>7, <1>8, <1>9 DEF IInv

\* strtok_r cuts the next piece out of the copy of a chunk.
LEMMA Cut ==
    ASSUME IInv, More, NEW s, Chunk(s)
    PROVE  \E u \in Seq(CellsIn(sent)), x \in Seq(CellsIn(sent)),
              l \in Seq(CellsIn(sent)), v \in Seq(CellsIn(sent)) : \E rest :
              /\ s = Buffer(v, u, x) /\ u # <<>> /\ l # <<>>
              /\ \A i \in 1..Len(u) : u[i] \notin DelimitersIn(sent)
              /\ PieceOf(v, u, x, l, rest, PercentsIn(sent))
              /\ SubSeq(buf, PieceStart, PieceEnd(PieceStart) - 1) = l
              /\ SubSeq(buf, PieceEnd(PieceStart) + 1, Len(buf))
                    = IF rest = <<>> THEN <<>> ELSE Drop(rest, 1)
<1> DEFINE S == CellsIn(sent)
           D == DelimitersIn(sent)
           P == PercentsIn(sent)
<1>1. sent \in Seq(Texts)
  BY DEF IInv, Types
<1>2. s \in Seq(S) /\ s # <<>> /\ buf = Front(Dbl(s, P))
  BY DEF Chunk, Run
<1>3. P \cap D = {}
  BY <1>1, Kinds
<1>4. buf \in Seq(S)
  <2>1. Dbl(s, P) \in Seq(S) /\ Dbl(s, P) # <<>>
    BY <1>2, DblTyped, DblBegins
  <2> QED
    BY <1>2, <2>1, FrontIs
<1>5. PICK i \in 1..Len(buf) : buf[i] \notin D
  BY <1>1, <1>4, MoreIs
<1> HIDE DEF S, D, P
<1>6. PICK v \in Seq(S \cap D), u \in Seq(S \ D), x \in Seq(S),
           l \in Seq(S \ D), rest \in Seq(S) :
          /\ s = Buffer(v, u, x) /\ u # <<>>
          /\ x = <<>> \/ x[1] \in D
          /\ l # <<>> /\ PieceOf(v, u, x, l, rest, P)
          /\ Front(Dbl(s, P)) = Buffer(v, l, rest)
          /\ rest = <<>> \/ rest[1] \in D
  <2>1. HasPiece(Front(Dbl(s, P)), D)
    BY <1>2, <1>5 DEF HasPiece
  <2>2. Splits(S, s, P, D)
    BY <1>2, <1>3, <2>1, ChunkSplits
  <2> QED
    BY <2>2 DEF Splits
<1>7. /\ v \in Seq(S) /\ u \in Seq(S) /\ l \in Seq(S)
      /\ \A j \in 1..Len(u) : u[j] \notin D
  <2>1. S \cap D \subseteq S /\ S \ D \subseteq S
    OBVIOUS
  <2>2. \A j \in 1..Len(u) : u[j] \in S \ D
    BY ElementOfSeq
  <2> QED
    BY <2>1, <2>2, SeqMonotonic
<1>8. buf = Buffer(v, l, rest)
  BY <1>2, <1>6
<1>9. /\ Others(buf, D) # {} /\ Min(Others(buf, D)) = Len(v) + 1
      /\ EndOf(buf, Len(v) + 1, D) = Len(v) + Len(l) + 1
      /\ SubSeq(buf, Len(v) + 1, Len(v) + Len(l) + 1 - 1) = l
      /\ SubSeq(buf, Len(v) + Len(l) + 1 + 1, Len(buf)) = IF rest = <<>> THEN <<>> ELSE Drop(rest, 1)
  <2>1. Token(buf, v, l, rest, D)
    BY <1>6, <1>8, TokenIs
  <2> QED
    BY <2>1 DEF Token
<1>10. PieceStart = Len(v) + 1
  BY <1>1, <1>4, <1>9, MoreIs DEF S, D
<1>11. PieceEnd(PieceStart) = Len(v) + Len(l) + 1
  <2>1. Len(v) + 1 \in 1..Len(buf)
    <3>1. Len(v) \in Nat /\ Len(l) \in Nat /\ Len(l) > 0 /\ Len(rest) \in Nat
      BY <1>6, <1>7, LenProperties, NonEmpty
    <3>2. Len(buf) = Len(v) + (Len(l) + Len(rest))
      <4>1. l \o rest \in Seq(S) /\ Len(l \o rest) = Len(l) + Len(rest)
        BY <1>6, <1>7, ConcatProperties
      <4> QED
        BY <1>7, <1>8, <4>1, ConcatProperties DEF Buffer
    <3> QED
      BY <3>1, <3>2
  <2>2. PieceEnd(Len(v) + 1) = EndOf(buf, Len(v) + 1, D)
    BY <1>1, <1>4, <2>1, PieceEndIs DEF S, D
  <2> QED
    BY <1>9, <1>10, <2>2
<1>12. /\ SubSeq(buf, PieceStart, PieceEnd(PieceStart) - 1) = l
       /\ SubSeq(buf, PieceEnd(PieceStart) + 1, Len(buf)) = IF rest = <<>> THEN <<>> ELSE Drop(rest, 1)
  <2>1. SubSeq(buf, PieceStart, PieceEnd(PieceStart) - 1) = l
    BY <1>9, <1>10, <1>11, SMTT(40)
  <2>2. SubSeq(buf, PieceEnd(PieceStart) + 1, Len(buf)) = IF rest = <<>> THEN <<>> ELSE Drop(rest, 1)
    BY <1>9, <1>10, <1>11
  <2> QED
    BY <2>1, <2>2
<1> QED
  BY <1>6, <1>7, <1>12 DEF S, D, P

\* Where the piece and what follows it stand in the chunk.
LEMMA PiecePlace ==
    ASSUME NEW S, NEW v \in Seq(S), NEW u \in Seq(S), NEW x \in Seq(S), NEW s,
           s = Buffer(v, u, x)
    PROVE  /\ Within(u, s, Len(v))
           /\ x # <<>> =>
                 /\ Drop(x, 1) \in Seq(S)
                 /\ Within(Drop(x, 1), s, Len(v) + (Len(u) + 1))
<1>1. /\ u \o x \in Seq(S) /\ s \in Seq(S)
      /\ Len(v) \in Nat /\ Len(u) \in Nat /\ Len(x) \in Nat
  BY ConcatProperties, LenProperties DEF Buffer
<1>2. Within(u \o x, s, Len(v))
  BY <1>1, ConcatParts DEF Buffer
<1>3. Within(u, u \o x, 0) /\ Within(x, u \o x, Len(u))
  BY ConcatParts
<1>4. Within(u, s, Len(v))
  <2>1. Within(u, s, 0 + Len(v))
    BY <1>1, <1>2, <1>3, PartOfPart
  <2>2. 0 + Len(v) = Len(v)
    BY <1>1
  <2> QED
    BY <2>1, <2>2
<1>5. ASSUME x # <<>>
      PROVE  /\ Drop(x, 1) \in Seq(S)
             /\ Within(Drop(x, 1), s, Len(v) + (Len(u) + 1))
  <2>1. 1 \in 0..Len(x)
    BY <1>1, <1>5, NonEmpty
  <2> DEFINE t == Drop(x, 1)
             c == SubSeq(x, 1, 1)
  <2>2. t \in Seq(S) /\ c \in Seq(S) /\ Len(c) = 1 /\ x = c \o t
    BY <2>1, SplitAt, DropIs
  <2> HIDE DEF t, c
  <2>3. Within(t, x, 1)
    BY <2>2, ConcatParts
  <2>4. Within(t, u \o x, 1 + Len(u))
    BY <1>1, <1>3, <2>2, <2>3, PartOfPart
  <2>5. Within(t, s, 1 + Len(u) + Len(v))
    BY <1>1, <1>2, <2>2, <2>4, PartOfPart
  <2>6. 1 + Len(u) + Len(v) = Len(v) + (Len(u) + 1)
    BY <1>1
  <2>7. Within(t, s, Len(v) + (Len(u) + 1))
    BY <2>5, <2>6
  <2> QED
    BY <2>2, <2>7 DEF t
<1> QED
  BY <1>4, <1>5

\* What is made of a piece: it is handled, and logged.
LEMMA PieceMade ==
    ASSUME NEW S, NEW v \in Seq(S), NEW u \in Seq(S), NEW x \in Seq(S), NEW l \in Seq(S),
           NEW rest, NEW P, NEW ends, u # <<>>, PieceOf(v, u, x, l, rest, P),
           Last(Buffer(v, u, x)) \in ends
    PROVE  /\ Made(u, Last(u), l, Fmt(l, P), P, ends)
           /\ l \in Seq(Range(u)) /\ Range(u) \subseteq S
           /\ Fmt(l, P) \in Seq(S \cup {Garbled})
<1>1. /\ Len(u) \in Nat /\ DOMAIN u = 1..Len(u)
      /\ \A i \in 1..Len(u) : u[i] \in S
  BY LenProperties, ElementOfSeq
<1>2. u \in Seq(Range(u)) /\ Range(u) \subseteq S
  <2>1. \A i \in 1..Len(u) : u[i] \in Range(u)
    BY <1>1 DEF Range
  <2>2. u \in Seq(Range(u))
    BY <2>1, SeqIn
  <2> QED
    BY <1>1, <2>2 DEF Range
<1>3. Dbl(u, P) \in Seq(Range(u)) /\ Dbl(u, P) # <<>>
  BY <1>2, DblTyped, DblBegins
<1>4. PICK A : A = S \cup {Garbled}
  OBVIOUS
<1>5. Sgl(u, P) \in Seq(S) /\ Sgl(u, P) # <<>> /\ S \subseteq A /\ Garbled \in A
  BY <1>4, SglTyped
<1>6. CASE x = <<>> /\ l = Front(Dbl(u, P))
  <2>1. Fmt(l, P) = Front(Sgl(u, P)) \o End(Last(Sgl(u, P)), P)
    BY <1>6, FmtOfFront DEF FrontReads
  <2>2. Last(u) \in ends
    <3>1. u \o x = u
      BY <1>6, ConcatEmptySeq
    <3>2. Last(v \o u) = Last(u)
      BY FrontConcat
    <3> QED
      BY <3>1, <3>2 DEF Buffer
  <2>3. Made(u, Last(u), l, Fmt(l, P), P, ends)
    BY <1>6, <2>1, <2>2 DEF Made
  <2>4. l \in Seq(Range(u))
    BY <1>3, <1>6, FrontIs
  <2>5. Front(Sgl(u, P)) \in Seq(A)
    <3>1. Front(Sgl(u, P)) \in Seq(S)
      BY <1>5, FrontIs
    <3> QED
      BY <1>5, <3>1, SeqMonotonic
  <2>6. End(Last(Sgl(u, P)), P) \in Seq(A)
    BY <1>5, Single, EmptySeq DEF End
  <2>7. Fmt(l, P) \in Seq(A)
    BY <2>1, <2>5, <2>6, ConcatProperties
  <2> QED
    BY <1>2, <1>4, <2>3, <2>4, <2>7
<1>7. CASE l = Dbl(u, P)
  <2>1. Fmt(l, P) = Sgl(u, P)
    BY <1>7, FmtOfDbl
  <2>2. Made(u, Last(u), l, Fmt(l, P), P, ends)
    BY <1>7, <2>1 DEF Made
  <2>3. Fmt(l, P) \in Seq(A)
    BY <1>5, <2>1, SeqMonotonic
  <2> QED
    BY <1>2, <1>3, <1>4, <1>7, <2>2, <2>3
<1> QED
  BY <1>6, <1>7 DEF PieceOf

\* strtok_r's piece is handled, and the buffer goes on behind it.
LEMMA HandleLineIInv == IInv /\ HandleLine => IInv'
<1> SUFFICES ASSUME IInv, HandleLine PROVE IInv'
  OBVIOUS
<1>1. PICK S, P, D : S = CellsIn(sent) /\ P = PercentsIn(sent) /\ D = DelimitersIn(sent)
  OBVIOUS
<1>2. /\ More /\ sent' = sent /\ stream' = stream /\ cut' = cut /\ losses' = losses
  BY DEF HandleLine
<1>3. /\ sent \in Seq(Texts) /\ Len(sent) <= MaxLines /\ losses \in 0..MaxLosses
      /\ cut \subseteq S
      /\ handled \in Seq(Seq(S)) /\ \A k \in 1..Len(handled) : handled[k] # <<>>
      /\ log \in Seq(Seq(S \cup {Garbled})) /\ Len(log) = Len(handled)
  BY <1>1 DEF IInv, Types
<1>4. PICK s : Chunk(s)
  <2>1. buf # <<>>
    <3> SUFFICES ASSUME buf = <<>> PROVE FALSE
      OBVIOUS
    <3>1. DOMAIN buf = {}
      BY EmptySeq
    <3> QED
      BY <1>2, <3>1 DEF More
  <2> QED
    BY <2>1 DEF IInv, BufInv
<1>0. PICK u \in Seq(S), x \in Seq(S), l \in Seq(S), v \in Seq(S) : \E rest :
          /\ s = Buffer(v, u, x) /\ u # <<>> /\ l # <<>>
          /\ \A i \in 1..Len(u) : u[i] \notin D
          /\ PieceOf(v, u, x, l, rest, P)
          /\ SubSeq(buf, PieceStart, PieceEnd(PieceStart) - 1) = l
          /\ SubSeq(buf, PieceEnd(PieceStart) + 1, Len(buf))
                = IF rest = <<>> THEN <<>> ELSE Drop(rest, 1)
  BY <1>1, <1>2, <1>4, Cut
<1>5. PICK rest :
          /\ s = Buffer(v, u, x) /\ u # <<>> /\ l # <<>>
          /\ \A i \in 1..Len(u) : u[i] \notin D
          /\ PieceOf(v, u, x, l, rest, P)
          /\ SubSeq(buf, PieceStart, PieceEnd(PieceStart) - 1) = l
          /\ SubSeq(buf, PieceEnd(PieceStart) + 1, Len(buf))
                = IF rest = <<>> THEN <<>> ELSE Drop(rest, 1)
  BY <1>0
<1>6. PICK entry : entry = Fmt(l, P)
  OBVIOUS
<1>7. /\ handled' = Append(handled, l) /\ log' = Append(log, entry)
      /\ buf' = IF rest = <<>> THEN <<>> ELSE Drop(rest, 1)
  <2>1. Formatted(l) = entry
    BY <1>1, <1>3, <1>6, DoubledIs
  <2>2. /\ handled' = Append(handled, SubSeq(buf, PieceStart, PieceEnd(PieceStart) - 1))
        /\ log' = Append(log, Formatted(SubSeq(buf, PieceStart, PieceEnd(PieceStart) - 1)))
        /\ buf' = SubSeq(buf, PieceEnd(PieceStart) + 1, Len(buf))
    BY DEF HandleLine, OnRecv, Logged
  <2> QED
    BY <1>5, <2>1, <2>2
<1>8. /\ s \in Seq(S) /\ Len(s) <= BufSize /\ Run(s, sent) /\ Ascending(s)
      /\ Last(s) \in cut /\ AllBefore(s, stream)
      /\ \A k \in 1..Len(handled) : AllBefore(handled[k], s)
  BY <1>1, <1>4 DEF Chunk, Run
<1>9. Within(u, s, Len(v))
  BY <1>5, PiecePlace
<1>10. Run(u, sent) /\ Ascending(u)
  <2>1. Run(u, sent)
    BY <1>1, <1>8, <1>9, PartOfRun
  <2> QED
    BY <2>1 DEF Run
<1>11. PICK n, a, b : InLine(n, a, b, sent) /\ u = Between(n, a, b, sent)
  BY <1>1, <1>3, <1>5, <1>10, OneLine
<1>12. Last(u) = <<n, b>>
  <2>1. Len(u) = b - a + 1 /\ \A i \in 1..(b - a + 1) : u[i] = <<n, a + i - 1>>
    BY <1>3, <1>11, BetweenIs, SMTT(40)
  <2>2. a \in Nat /\ b \in Nat /\ a <= b
    BY <1>11 DEF InLine
  <2>3. b - a + 1 \in 1..(b - a + 1) /\ a + (b - a + 1) - 1 = b
    BY <2>2
  <2> QED
    BY <2>1, <2>3 DEF Last
<1>13. /\ Made(u, <<n, b>>, l, entry, P, cut)
       /\ l \in Seq(Range(u)) /\ Range(u) \subseteq S
       /\ entry \in Seq(S \cup {Garbled})
  <2>1. Last(Buffer(v, u, x)) \in cut
    BY <1>5, <1>8
  <2>2. /\ Made(u, Last(u), l, Fmt(l, P), P, cut)
        /\ l \in Seq(Range(u)) /\ Range(u) \subseteq S
        /\ Fmt(l, P) \in Seq(S \cup {Garbled})
    <3>1. u # <<>> /\ PieceOf(v, u, x, l, rest, P)
      BY <1>5
    <3> QED
      BY <2>1, <3>1, PieceMade
  <2> QED
    BY <1>6, <1>12, <2>2
<1>14. /\ Len(handled) \in Nat /\ Len(log) \in Nat
       /\ handled' \in Seq(Seq(S)) /\ Len(handled') = Len(handled) + 1
       /\ \A k \in 1..Len(handled) : handled'[k] = handled[k]
       /\ handled'[Len(handled) + 1] = l
  BY <1>3, <1>7, AppendProperties, LenProperties
<1>15. /\ log' \in Seq(Seq(S \cup {Garbled})) /\ Len(log') = Len(log) + 1
       /\ log'[Len(log) + 1] = entry
  BY <1>3, <1>7, <1>13, AppendProperties
<1>16. Types'
  <2>1. \A k \in 1..Len(handled') : handled'[k] # <<>>
    <3> SUFFICES ASSUME NEW k \in 1..Len(handled') PROVE handled'[k] # <<>>
      OBVIOUS
    <3>1. k \in 1..Len(handled) \/ k = Len(handled) + 1
      BY <1>14
    <3> QED
      BY <1>3, <1>5, <1>14, <3>1
  <2>2. Len(log') = Len(handled')
    BY <1>3, <1>14, <1>15
  <2> QED
    BY <1>1, <1>2, <1>3, <1>14, <1>15, <2>1, <2>2 DEF Types
<1>17. DOMAIN u = 1..Len(u)
  BY LenProperties
<1>18. StreamInv'
  <2>1. AllBefore(l, stream)
    <3>1. AllBefore(u, stream)
      BY <1>8, <1>9, PartBefore
    <3> QED
      BY <1>13, <1>17, <3>1, MadeBefore
  <2>2. \A k \in 1..Len(handled') : AllBefore(handled'[k], stream)
    <3> SUFFICES ASSUME NEW k \in 1..Len(handled') PROVE AllBefore(handled'[k], stream)
      OBVIOUS
    <3>1. k \in 1..Len(handled) \/ k = Len(handled) + 1
      BY <1>14
    <3>2. \A j \in 1..Len(handled) : AllBefore(handled[j], stream)
      BY DEF IInv, StreamInv
    <3> QED
      BY <1>14, <2>1, <3>1, <3>2
  <2>3. Run(stream, sent) /\ (stream # <<>> => LastOfLine(Last(stream), sent))
    BY DEF IInv, StreamInv
  <2> QED
    BY <1>2, <2>2, <2>3 DEF StreamInv
<1>19. BufInv'
  <2>1. CASE rest = <<>>
    BY <1>7, <2>1 DEF BufInv
  <2>2. CASE rest # <<>>
    <3>1. PICK t : t = Drop(x, 1)
      OBVIOUS
    <3>2. /\ x # <<>> /\ t # <<>> /\ rest = <<x[1]>> \o Front(Dbl(t, P))
      BY <1>5, <2>2, <3>1 DEF PieceOf
    <3>3. t \in Seq(S) /\ Within(t, s, Len(v) + (Len(u) + 1))
      BY <1>5, <3>1, <3>2, PiecePlace
    <3>4. Dbl(t, P) \in Seq(S) /\ Front(Dbl(t, P)) \in Seq(S)
      <4>1. Dbl(t, P) \in Seq(S) /\ Dbl(t, P) # <<>>
        BY <3>2, <3>3, DblTyped, DblBegins
      <4> QED
        BY <4>1, FrontIs
    <3>5. buf' = Front(Dbl(t, P))
      <4>1. x[1] \in S
        BY <3>2, DblBegins
      <4>2. <<x[1]>> \in Seq(S) /\ Len(<<x[1]>>) = 1
        BY <4>1, Single
      <4>3. Drop(<<x[1]>> \o Front(Dbl(t, P)), 1) = Front(Dbl(t, P))
        <5>1. Drop(<<x[1]>> \o Front(Dbl(t, P)), Len(<<x[1]>>)) = Front(Dbl(t, P))
          BY <3>4, <4>2, DropFirst
        <5> QED
          BY <4>2, <5>1
      <4> QED
        BY <1>7, <2>2, <3>2, <4>3
    <3>6. Run(t, sent)
      BY <1>1, <1>8, <3>3, PartOfRun
    <3>7. Len(t) <= BufSize
      <4>1. Len(t) \in Nat /\ Len(s) \in Nat /\ Len(v) + (Len(u) + 1) \in Nat
        BY <1>8, <3>3, LenProperties
      <4>2. Len(t) + (Len(v) + (Len(u) + 1)) <= Len(s)
        BY <3>3 DEF Within
      <4> QED
        BY <1>8, <4>1, <4>2, BoundsAssumption
    <3>8. Last(t) \in cut
      <4>1. s = (v \o (u \o SubSeq(x, 1, 1))) \o t
        <5>1. x = SubSeq(x, 1, 1) \o t /\ SubSeq(x, 1, 1) \in Seq(S)
          <6>1. Len(x) \in Nat /\ Len(x) > 0
            BY <3>2, LenProperties, NonEmpty
          <6>2. 1 \in 0..Len(x)
            BY <6>1
          <6>3. SubSeq(x, 1, 1) \in Seq(S)
            BY <6>2, SplitAt
          <6>4. x = SubSeq(x, 1, 1) \o Drop(x, 1)
            BY <6>2, SplitAt
          <6> QED
            BY <3>1, <6>3, <6>4
        <5> DEFINE c == SubSeq(x, 1, 1)
        <5> HIDE DEF c
        <5>2. c \in Seq(S) /\ x = c \o t
          BY <5>1 DEF c
        <5>3. u \o c \in Seq(S)
          BY <5>2, ConcatProperties
        <5>4. CatLeft(u, c, t) = CatRight(u, c, t)
          BY <3>3, <5>2, Associative
        <5>5. CatLeft(v, u \o c, t) = CatRight(v, u \o c, t)
          BY <3>3, <5>3, Associative, ZenonT(60)
        <5>6. s = v \o ((u \o c) \o t)
          BY <1>5, <5>2, <5>4 DEF Buffer, CatLeft, CatRight
        <5>7. s = (v \o (u \o c)) \o t
          BY <5>5, <5>6 DEF CatLeft, CatRight
        <5> QED
          BY <5>7 DEF c
      <4>2. v \o (u \o SubSeq(x, 1, 1)) \in Seq(S)
        <5>1. 1 \in 0..Len(x)
          <6>1. Len(x) \in Nat /\ Len(x) > 0
            BY <3>2, LenProperties, NonEmpty
          <6> QED
            BY <6>1
        <5>2. SubSeq(x, 1, 1) \in Seq(S)
          BY <5>1, SplitAt
        <5>3. u \o SubSeq(x, 1, 1) \in Seq(S)
          BY <5>2, ConcatProperties
        <5> QED
          BY <5>3, ConcatProperties
      <4>3. Last(s) = Last(t)
        BY <3>2, <3>3, <4>1, <4>2, FrontConcat
      <4> QED
        BY <1>8, <4>3
    <3>9. AllBefore(t, stream)
      BY <1>8, <3>3, PartBefore
    <3>10. \A k \in 1..Len(handled') : AllBefore(handled'[k], t)
      <4> SUFFICES ASSUME NEW k \in 1..Len(handled') PROVE AllBefore(handled'[k], t)
        OBVIOUS
      <4>1. k \in 1..Len(handled) \/ k = Len(handled) + 1
        BY <1>14
      <4>2. \A j \in 1..Len(handled) : AllBefore(handled[j], t)
        BY <1>8, <3>3, PartBefore
      <4>3. AllBefore(l, t)
        <5>1. AllBefore(u, t)
          <6>1. Len(u) + Len(v) <= Len(v) + (Len(u) + 1)
            <7>1. Len(u) \in Nat /\ Len(v) \in Nat
              BY LenProperties
            <7> QED
              BY <7>1
          <6> QED
            BY <1>8, <1>9, <3>3, <6>1, PartsBefore
        <5> QED
          BY <1>13, <1>17, <5>1, MadeBefore
      <4> QED
        BY <1>14, <4>1, <4>2, <4>3
    <3>11. Chunk(t)'
      BY <1>1, <1>2, <3>2, <3>5, <3>6, <3>7, <3>8, <3>9, <3>10 DEF Chunk
    <3> QED
      BY <3>11 DEF BufInv
  <2> QED
    BY <2>1, <2>2
<1>20. PieceInv'
  <2>1. Last(handled') = l /\ Last(log') = entry
    BY <1>3, <1>14, <1>15 DEF Last
  <2>2. \A k \in 1..(Len(handled') - 1) : AllBefore(handled'[k], u)
    <3> SUFFICES ASSUME NEW k \in 1..(Len(handled') - 1) PROVE AllBefore(handled'[k], u)
      OBVIOUS
    <3>1. k \in 1..Len(handled)
      BY <1>14
    <3>2. AllBefore(handled[k], u)
      BY <1>8, <1>9, <3>1, PartBefore
    <3> QED
      BY <1>14, <3>1, <3>2
  <2>3. LastPiece(n, a, b)'
    BY <1>1, <1>2, <1>11, <1>13, <2>1, <2>2 DEF LastPiece
  <2> QED
    BY <2>3 DEF PieceInv
<1> QED
  BY <1>16, <1>18, <1>19, <1>20 DEF IInv

\* Nothing happens.
LEMMA StutterIInv == IInv /\ UNCHANGED vars => IInv'
<1> SUFFICES ASSUME IInv, UNCHANGED vars PROVE IInv'
  OBVIOUS
<1>1. /\ sent' = sent /\ stream' = stream /\ buf' = buf /\ handled' = handled
      /\ log' = log /\ cut' = cut /\ losses' = losses
  BY DEF vars
<1>2. Types' /\ StreamInv'
  BY <1>1 DEF IInv, Types, StreamInv
<1>3. BufInv'
  BY <1>1 DEF IInv, BufInv, Chunk
<1>4. PieceInv'
  BY <1>1 DEF IInv, PieceInv, LastPiece
<1> QED
  BY <1>2, <1>3, <1>4 DEF IInv

(***************************************************************************)
(* Every reachable state satisfies the invariant.                          *)
(***************************************************************************)
THEOREM Invariance == Spec => []IInv
<1>1. IInv /\ [Next]_vars => IInv'
  BY SendLineIInv, ReceiveIInv, HandleLineIInv, LoseConnectionIInv, StutterIInv DEF Next
<1> QED
  BY InitIInv, <1>1, PTL DEF Spec

-----------------------------------------------------------------------------
(* What the invariant says of the properties. *)

LEMMA RangeIs ==
    ASSUME NEW S, NEW s \in Seq(S)
    PROVE  Range(s) = {s[i] : i \in 1..Len(s)} /\ Range(s) \subseteq S
<1>1. DOMAIN s = 1..Len(s) /\ \A i \in 1..Len(s) : s[i] \in S
  BY LenProperties, ElementOfSeq
<1> QED
  BY <1>1 DEF Range

\* The types, and the room in the buffer.
LEMMA IInvTypeOK == IInv => TypeOK
<1> SUFFICES ASSUME IInv PROVE TypeOK
  OBVIOUS
<1> DEFINE S == CellsIn(sent)
<1>1. Cells = S
  BY DEF Cells, CellsOf, CellsIn
<1>2. /\ sent \in Seq(Texts) /\ Len(sent) <= MaxLines /\ losses \in 0..MaxLosses
      /\ cut \subseteq S
      /\ handled \in Seq(Seq(S)) /\ \A k \in 1..Len(handled) : handled[k] # <<>>
      /\ Len(log) = Len(handled)
  BY DEF IInv, Types
<1> HIDE DEF S
<1>3. Range(stream) \subseteq S
  <2>1. stream \in Seq(S)
    BY DEF IInv, StreamInv, Run, S
  <2> QED
    BY <2>1, RangeIs
<1>4. Range(buf) \subseteq S /\ Len(buf) < 2 * BufSize
  <2>1. CASE buf = <<>>
    <3>1. buf \in Seq(S) /\ Len(buf) = 0
      BY <2>1, EmptySeq
    <3>2. Len(buf) < 2 * BufSize
      BY <3>1, BoundsAssumption
    <3> QED
      BY <3>1, <3>2, RangeIs
  <2>2. CASE buf # <<>>
    <3>1. PICK s : Chunk(s)
      BY <2>2 DEF IInv, BufInv
    <3> DEFINE d == Dbl(s, PercentsIn(sent))
    <3>2. s \in Seq(S) /\ s # <<>> /\ Len(s) <= BufSize /\ buf = Front(d)
      BY <3>1 DEF Chunk, Run, S
    <3>3. d \in Seq(S) /\ Len(d) <= 2 * Len(s) /\ d # <<>>
      BY <3>2, DblTyped, DblBegins
    <3> HIDE DEF d
    <3>4. buf \in Seq(S) /\ Len(buf) = Len(d) - 1
      BY <3>2, <3>3, FrontIs
    <3>5. Len(s) \in Nat /\ Len(d) \in Nat
      BY <3>2, <3>3, LenProperties
    <3>6. Len(buf) < 2 * BufSize
      BY <3>2, <3>3, <3>4, <3>5, BoundsAssumption
    <3> QED
      BY <3>4, <3>6, RangeIs
  <2> QED
    BY <2>1, <2>2
<1>5. \A i \in DOMAIN handled : handled[i] # <<>> /\ Range(handled[i]) \subseteq S
  <2> SUFFICES ASSUME NEW i \in DOMAIN handled
               PROVE  handled[i] # <<>> /\ Range(handled[i]) \subseteq S
    OBVIOUS
  <2>1. i \in 1..Len(handled)
    BY <1>2, LenProperties
  <2>2. handled[i] \in Seq(S)
    BY <1>2, <2>1, ElementOfSeq
  <2> QED
    BY <1>2, <2>1, <2>2, RangeIs
<1> QED
  BY <1>1, <1>2, <1>3, <1>4, <1>5 DEF TypeOK

\* The last piece, by the part of a line it is made of.
LEMMA LastPieceIs ==
    ASSUME IInv, handled # <<>>, NEW n, NEW a, NEW b, LastPiece(n, a, b), NEW u,
           u = Between(n, a, b, sent)
    PROVE  /\ sent \in Seq(Texts) /\ n \in 1..Len(sent)
           /\ a \in Nat /\ b \in Nat /\ b \in a..Len(sent[n])
           /\ u \in Seq(CellsIn(sent)) /\ Len(u) = b - a + 1 /\ u # <<>>
           /\ u[1] = <<n, a>> /\ u[Len(u)] = <<n, b>>
           /\ Part(n, a, b) = Dbl(u, PercentsIn(sent))
           /\ SubSeq(CellsOf(n), a, b) = u /\ Singled(u) = Sgl(u, PercentsIn(sent))
           /\ Last(handled) # <<>> /\ Last(handled)[1] = <<n, a>>
<1>1. InLine(n, a, b, sent)
  BY DEF LastPiece
<1>2. sent \in Seq(Texts) /\ handled \in Seq(Seq(CellsIn(sent)))
      /\ \A k \in 1..Len(handled) : handled[k] # <<>>
  BY DEF IInv, Types
<1>3. /\ n \in 1..Len(sent) /\ a \in Nat /\ b \in Nat /\ a <= b /\ b <= Len(sent[n])
  BY <1>1 DEF InLine
<1>4. b \in a..Len(sent[n])
  <2>1. sent[n] \in Texts
    BY <1>2, <1>3, ElementOfSeq
  <2>2. Len(sent[n]) \in Nat
    BY <2>1, TextLength
  <2> QED
    BY <1>3, <2>2
<1>5. /\ u \in Seq(CellsIn(sent)) /\ Len(u) = b - a + 1
      /\ \A i \in 1..(b - a + 1) : u[i] = <<n, a + i - 1>>
  BY <1>1, <1>2, BetweenIs
<1>6. 1 \in 1..(b - a + 1) /\ b - a + 1 \in 1..(b - a + 1)
      /\ a + 1 - 1 = a /\ a + (b - a + 1) - 1 = b
  BY <1>3
<1>7. u[1] = <<n, a>> /\ u[Len(u)] = <<n, b>>
  BY <1>5, <1>6
<1>9. u # <<>>
  <2>1. Len(u) > 0
    BY <1>3, <1>5
  <2> QED
    BY <1>5, <2>1, NonEmpty
<1>10. /\ Part(n, a, b) = Dbl(u, PercentsIn(sent))
       /\ SubSeq(CellsOf(n), a, b) = u /\ Singled(u) = Sgl(u, PercentsIn(sent))
  <2>1. /\ Doubled(u) = Dbl(u, PercentsIn(sent))
        /\ Singled(u) = Sgl(u, PercentsIn(sent))
    BY <1>2, <1>5, DoubledIs
  <2> QED
    BY <2>1 DEF Part, CellsOf, Between
<1>11. PICK piece, d : piece = Last(handled) /\ d = Dbl(u, PercentsIn(sent))
  OBVIOUS
<1>12. piece # <<>>
  <2>1. Len(handled) \in Nat /\ Len(handled) > 0
    BY <1>2, LenProperties, NonEmpty
  <2> QED
    BY <1>2, <1>11, <2>1 DEF Last
<1>13. piece = d \/ piece = Front(d)
  BY <1>11 DEF LastPiece, Made
<1>14. d \in Seq(CellsIn(sent)) /\ d # <<>> /\ d[1] = <<n, a>>
  BY <1>5, <1>7, <1>9, <1>11, DblTyped, DblBegins
<1>15. piece[1] = <<n, a>>
  <2>1. CASE piece = d
    BY <1>14, <2>1
  <2>2. CASE piece = Front(d)
    <3>1. /\ Front(d) \in Seq(CellsIn(sent)) /\ Len(Front(d)) = Len(d) - 1
          /\ \A i \in 1..(Len(d) - 1) : Front(d)[i] = d[i]
      BY <1>14, FrontIs
    <3>2. Len(d) \in Nat /\ Len(d) - 1 > 0
      BY <1>12, <1>14, <2>2, <3>1, NonEmpty, LenProperties
    <3>3. 1 \in 1..(Len(d) - 1)
      BY <3>2
    <3> QED
      BY <1>14, <2>2, <3>1, <3>3
  <2> QED
    BY <1>13, <2>1, <2>2
<1> QED
  BY <1>2, <1>3, <1>4, <1>5, <1>7, <1>9, <1>10, <1>11, <1>12, <1>15

\* The piece is the copy of a part of a line.
LEMMA IInvPart == IInv => PartOfOneLine
<1> SUFFICES ASSUME IInv, handled # <<>>
             PROVE  LET piece == Last(handled)
                        n == piece[1][1]
                        a == piece[1][2]
                    IN \E b \in a..Len(sent[n]) :
                          \/ piece = Part(n, a, b)
                          \/ <<n, b>> \in cut /\ piece = Front(Part(n, a, b))
  BY DEF PartOfOneLine
<1>1. PICK n, a, b : LastPiece(n, a, b)
  BY DEF IInv, PieceInv
<1>2. PICK u, piece, d : /\ u = Between(n, a, b, sent) /\ piece = Last(handled)
                         /\ d = Dbl(u, PercentsIn(sent))
  OBVIOUS
<1>3. /\ b \in a..Len(sent[n]) /\ Part(n, a, b) = d /\ piece[1] = <<n, a>>
  BY <1>1, <1>2, LastPieceIs
<1>4. Made(u, <<n, b>>, piece, Last(log), PercentsIn(sent), cut)
  BY <1>1, <1>2 DEF LastPiece
<1>5. piece = d \/ (piece = Front(d) /\ <<n, b>> \in cut)
  BY <1>2, <1>4 DEF Made
<1>6. piece[1][1] = n /\ piece[1][2] = a
  BY <1>3
<1>7. piece = Part(n, a, b) \/ (<<n, b>> \in cut /\ piece = Front(Part(n, a, b)))
  BY <1>3, <1>5
<1> QED
  BY <1>2, <1>3, <1>6, <1>7

\* The entry shows that part.
Reads(n, a, b) ==
    LET text == Singled(SubSeq(CellsOf(n), a, b))
    IN \/ Last(handled) = Part(n, a, b) /\ Last(log) = text
       \/ /\ <<n, b>> \in cut /\ Last(handled) = Front(Part(n, a, b))
          /\ Last(log) = Front(text) \o Ending(Last(text))

LEMMA IInvLog == IInv => LogReadsAsSent
<1> SUFFICES ASSUME IInv, log # <<>>
             PROVE  LET piece == Last(handled)
                        n == piece[1][1]
                        a == piece[1][2]
                    IN /\ \E b \in a..Len(sent[n]) : Reads(n, a, b)
                       /\ \A k \in 1..(Len(log) - 1) :
                             \A c \in Range(handled[k]) : Before(c, piece[1])
  BY DEF LogReadsAsSent, Reads
<1>1. PICK S, P : S = CellsIn(sent) /\ P = PercentsIn(sent)
  OBVIOUS
<1>2. /\ handled \in Seq(Seq(S)) /\ Len(log) = Len(handled) /\ sent \in Seq(Texts)
      /\ log \in Seq(Seq(S \cup {Garbled}))
  BY <1>1 DEF IInv, Types
<1>3. handled # <<>> /\ Len(log) \in Nat /\ Len(handled) \in Nat
  BY <1>2, NonEmpty, LenProperties
<1>4. PICK n, a, b : LastPiece(n, a, b)
  BY <1>3 DEF IInv, PieceInv
<1>5. PICK u, piece, entry : /\ u = Between(n, a, b, sent) /\ piece = Last(handled)
                             /\ entry = Last(log)
  OBVIOUS
<1>6. /\ u \in Seq(S) /\ u # <<>> /\ u[1] = <<n, a>> /\ b \in a..Len(sent[n])
      /\ piece[1] = <<n, a>> /\ Part(n, a, b) = Dbl(u, P)
      /\ SubSeq(CellsOf(n), a, b) = u /\ Singled(u) = Sgl(u, P)
  BY <1>1, <1>3, <1>4, <1>5, LastPieceIs
<1>7. /\ Made(u, <<n, b>>, piece, entry, P, cut)
      /\ \A k \in 1..(Len(handled) - 1) : AllBefore(handled[k], u)
  BY <1>1, <1>4, <1>5 DEF LastPiece
<1>8. Reads(n, a, b)
  <2>1. Sgl(u, P) \in Seq(S) /\ Sgl(u, P) # <<>>
    BY <1>6, SglTyped
  <2>2. Last(Sgl(u, P)) \in S
    BY <2>1, FrontIs
  <2>3. Ending(Last(Sgl(u, P))) = End(Last(Sgl(u, P)), P)
    BY <1>1, <1>2, <2>2, CharIs DEF Ending, End
  <2> QED
    BY <1>5, <1>6, <1>7, <2>3 DEF Made, Reads
<1>9. ASSUME NEW k \in 1..(Len(log) - 1), NEW c \in Range(handled[k])
      PROVE  Before(c, <<n, a>>)
  <2>1. k \in 1..Len(handled) /\ AllBefore(handled[k], u)
    BY <1>2, <1>3, <1>7
  <2>2. handled[k] \in Seq(S)
    BY <1>2, <2>1, ElementOfSeq
  <2>3. PICK i \in 1..Len(handled[k]) : c = handled[k][i]
    BY <2>2, RangeIs
  <2>4. 1 \in 1..Len(u)
    BY <1>6, NonEmpty, LenProperties
  <2> QED
    BY <1>6, <2>1, <2>3, <2>4 DEF AllBefore
<1>10. piece[1][1] = n /\ piece[1][2] = a
  BY <1>6
<1> QED
  BY <1>5, <1>6, <1>8, <1>9, <1>10

(***************************************************************************)
(* Everything in the buffers, the pieces and the log is a byte the server  *)
(* sent, the escaped chunk never outgrows bcirc_escape_buf's buffer, and   *)
(* strtok_r yields no empty piece.                                         *)
(***************************************************************************)
THEOREM LinesTyped == Spec => []TypeOK
  BY Invariance, IInvTypeOK, PTL

(***************************************************************************)
(* What server_recv raises as a line is a part of one line the server      *)
(* sent, however recv() divides the stream and whenever the connection is  *)
(* lost; only the last character of a chunk may be missing at its end.     *)
(***************************************************************************)
THEOREM OneLinePieces == Spec => []PartOfOneLine
  BY Invariance, IInvPart, PTL

(***************************************************************************)
(* The log's last entry is the text that was sent, character by character, *)
(* with the second of two % in a row left out: what bcirc_escape_buf       *)
(* doubles bcirc_log's format halves again.  At the end of a chunk the     *)
(* last character is not logged, and a % there garbles the entry's end.    *)
(***************************************************************************)
THEOREM LogAlwaysReads == Spec => []LogReadsAsSent
  BY Invariance, IInvLog, PTL
=============================================================================
