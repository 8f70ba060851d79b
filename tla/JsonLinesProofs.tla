---------------------------- MODULE JsonLinesProofs ----------------------------
(***************************************************************************)
(* What reading a JSONL file amounts to, for files of any length.  Kept is *)
(* recursive, so the facts about it are inductions over the lines; each is *)
(* carried out on the set of the numbers for which the fact holds.         *)
(***************************************************************************)
EXTENDS JsonLines, SequencesExt, SequenceTheorems, WellFoundedInduction, TLAPS

--------------------------------------------------------------------------------
\* A set of numbers with 0 and with the successor of each of its members is Nat:
\* otherwise the least number outside would have a predecessor inside.
LEMMA Induction ==
  ASSUME NEW N, 0 \in N, \A n \in Nat : n \in N => n + 1 \in N
  PROVE  \A n \in Nat : n \in N
<1> DEFINE Out == Nat \ N
           R == OpToRel(<, Nat)
<1> SUFFICES ASSUME Out # {} PROVE FALSE
  OBVIOUS
<1>1. IsWellFoundedOn(R, Nat)
  BY NatLessThanWellFounded
<1>2. Out \subseteq Nat
  OBVIOUS
<1> HIDE DEF Out, R
<1>3. PICK m \in Out : \A n \in Out : ~ (<<n, m>> \in R)
  BY <1>1, <1>2, WFMin
<1> USE DEF Out
<1>4. m \in Nat \ {0} /\ m - 1 \in Nat /\ m - 1 < m
  BY <1>3
<1>5. m - 1 \in Out
  BY <1>3, <1>4
<1>6. <<m - 1, m>> \in R
  BY <1>4 DEF R, OpToRel
<1> QED
  BY <1>3, <1>5, <1>6

\* The same for the numbers up to a bound.
LEMMA InductionUpTo ==
  ASSUME NEW m \in Nat, NEW N, 0 \in N, \A n \in 0 .. m - 1 : n \in N => n + 1 \in N
  PROVE  \A n \in 0 .. m : n \in N
<1> DEFINE M == N \cup {n \in Nat : n > m}
<1>1. 0 \in M
  OBVIOUS
<1>2. \A n \in Nat : n \in M => n + 1 \in M
  <2> TAKE n \in Nat
  <2>1. CASE n < m
    BY <2>1
  <2>2. CASE n >= m
    BY <2>2
  <2> QED
    BY <2>1, <2>2
<1> HIDE DEF M
<1>3. \A n \in Nat : n \in M
  BY <1>1, <1>2, Induction
<1> QED
  BY <1>3 DEF M

--------------------------------------------------------------------------------
\* The equation by which KeptUpTo is defined, for the first m lines.
Keeps(kept, ls, positions, m) ==
  kept = [n \in 0 .. m |-> IF n = 0 THEN <<>>
                           ELSE IF n \in positions THEN Append(kept[n - 1], ls[n])
                           ELSE kept[n - 1]]

LEMMA KeptExists ==
  ASSUME NEW ls, NEW positions, NEW m \in Nat
  PROVE  \E kept : Keeps(kept, ls, positions, m)
<1> DEFINE N == {n \in Nat : \E kept : Keeps(kept, ls, positions, n)}
<1>1. 0 \in N
  <2>1. Keeps([n \in 0 .. 0 |-> <<>>], ls, positions, 0)
    BY DEF Keeps
  <2> QED
    BY <2>1
<1>2. ASSUME NEW n \in Nat, n \in N PROVE n + 1 \in N
  <2>1. PICK kept : Keeps(kept, ls, positions, n)
    BY <1>2
  <2> DEFINE next == IF n + 1 \in positions THEN Append(kept[n], ls[n + 1]) ELSE kept[n]
             longer == [i \in 0 .. n + 1 |-> IF i = n + 1 THEN next ELSE kept[i]]
  <2>2. \A i \in 0 .. n : kept[i] = IF i = 0 THEN <<>>
                                    ELSE IF i \in positions THEN Append(kept[i - 1], ls[i])
                                    ELSE kept[i - 1]
    BY <2>1 DEF Keeps
  <2>3. \A i \in 0 .. n : longer[i] = kept[i]
    OBVIOUS
  <2>4. longer[n + 1] = next
    OBVIOUS
  <2>5. \A i \in 0 .. n + 1 :
          longer[i] = IF i = 0 THEN <<>>
                      ELSE IF i \in positions THEN Append(longer[i - 1], ls[i])
                      ELSE longer[i - 1]
    <3> TAKE i \in 0 .. n + 1
    <3>1. CASE i = n + 1
      <4>1. i # 0 /\ i - 1 = n /\ longer[i - 1] = kept[n]
        BY <3>1, <2>3
      <4> QED
        BY <4>1, <3>1, <2>4
    <3>2. CASE i \in 0 .. n
      <4>1. i # 0 => i - 1 \in 0 .. n
        BY <3>2
      <4>2. longer[i] = kept[i] /\ (i # 0 => longer[i - 1] = kept[i - 1])
        BY <4>1, <3>2, <2>3
      <4> HIDE DEF longer
      <4> QED
        BY <4>2, <3>2, <2>2
    <3> QED
      BY <3>1, <3>2
  <2>6. Keeps(longer, ls, positions, n + 1)
    <3>1. longer = [i \in 0 .. n + 1 |-> longer[i]]
      OBVIOUS
    <3> HIDE DEF longer
    <3> QED
      BY <3>1, <2>5 DEF Keeps
  <2> QED
    BY <2>6
<1> HIDE DEF N
<1>3. m \in N
  BY <1>1, <1>2, Induction
<1> QED
  BY <1>3 DEF N

\* KeptUpTo satisfies its defining equation.
Unfolds(kept, ls, positions) ==
  \A n \in 0 .. Len(ls) :
    kept[n] = IF n = 0 THEN <<>>
              ELSE IF n \in positions THEN Append(kept[n - 1], ls[n])
              ELSE kept[n - 1]

LEMMA KeptUpToDef ==
  ASSUME NEW ls, Len(ls) \in Nat, NEW positions
  PROVE  Unfolds(KeptUpTo(ls, positions), ls, positions)
<1>1. KeptUpTo(ls, positions) = CHOOSE kept : Keeps(kept, ls, positions, Len(ls))
  BY DEF KeptUpTo, Keeps
<1>2. \E kept : Keeps(kept, ls, positions, Len(ls))
  BY KeptExists
<1>3. Keeps(KeptUpTo(ls, positions), ls, positions, Len(ls))
  BY <1>1, <1>2
<1>4. ASSUME NEW kept, Keeps(kept, ls, positions, Len(ls)) PROVE Unfolds(kept, ls, positions)
  BY <1>4 DEF Keeps, Unfolds
<1> QED
  BY <1>3, <1>4

\* What is kept of the first n lines is a sequence of such lines as are kept.
LEMMA KeptUpToType ==
  ASSUME NEW S, NEW ls \in Seq(S), NEW positions, NEW T,
         \A n \in 1 .. Len(ls) : n \in positions => ls[n] \in T
  PROVE  \A n \in 0 .. Len(ls) : KeptUpTo(ls, positions)[n] \in Seq(T)
<1>0. Len(ls) \in Nat
  OBVIOUS
<1> DEFINE K == KeptUpTo(ls, positions)
           N == {n \in Nat : K[n] \in Seq(T)}
<1>a. Unfolds(K, ls, positions)
  BY <1>0, KeptUpToDef
<1>1. \A n \in 0 .. Len(ls) : K[n] = IF n = 0 THEN <<>>
                                     ELSE IF n \in positions THEN Append(K[n - 1], ls[n])
                                     ELSE K[n - 1]
  BY <1>a DEF Unfolds
<1> HIDE DEF K
<1>2. 0 \in N
  <2>1. K[0] = <<>> /\ <<>> \in Seq(T)
    BY <1>1, EmptySeq
  <2> QED
    BY <2>1, Zenon
<1>3. ASSUME NEW n \in 0 .. Len(ls) - 1, n \in N PROVE n + 1 \in N
  <2>1. n + 1 \in 1 .. Len(ls) /\ (n + 1) - 1 = n
    OBVIOUS
  <2>2. K[n + 1] = IF n + 1 \in positions THEN Append(K[n], ls[n + 1]) ELSE K[n]
    BY <2>1, <1>1
  <2>3. K[n] \in Seq(T)
    BY <1>3
  <2>4. K[n + 1] \in Seq(T)
    <3>1. CASE n + 1 \in positions
      <4>1. ls[n + 1] \in T
        BY <2>1, <3>1
      <4> QED
        BY <2>2, <2>3, <3>1, <4>1, AppendProperties
    <3>2. CASE n + 1 \notin positions
      BY <2>2, <2>3, <3>2
    <3> QED
      BY <3>1, <3>2
  <2> QED
    BY <2>1, <2>4
<1>4. Len(ls) \in Nat
  OBVIOUS
<1> HIDE DEF N
<1>5. \A n \in 0 .. Len(ls) : n \in N
  BY <1>2, <1>3, <1>4, InductionUpTo
<1> QED
  BY <1>5 DEF N, K

\* It depends on the first n lines and positions alone.
SameUpTo(s, P, t, Q, m) ==
  /\ m <= Len(s) /\ m <= Len(t)
  /\ \A n \in 1 .. m : s[n] = t[n] /\ (n \in P <=> n \in Q)

LEMMA KeptUpToSame ==
  ASSUME NEW S, NEW s \in Seq(S), NEW t \in Seq(S), NEW P, NEW Q,
         NEW m \in Nat, SameUpTo(s, P, t, Q, m)
  PROVE  KeptUpTo(s, P)[m] = KeptUpTo(t, Q)[m]
<1> USE DEF SameUpTo
<1>0. Len(s) \in Nat /\ Len(t) \in Nat
  OBVIOUS
<1> DEFINE K == KeptUpTo(s, P)
           L == KeptUpTo(t, Q)
           N == {n \in Nat : K[n] = L[n]}
<1>a. Unfolds(K, s, P) /\ Unfolds(L, t, Q)
  BY <1>0, KeptUpToDef
<1>1. \A n \in 0 .. Len(s) : K[n] = IF n = 0 THEN <<>>
                                    ELSE IF n \in P THEN Append(K[n - 1], s[n]) ELSE K[n - 1]
  BY <1>a DEF Unfolds
<1>2. \A n \in 0 .. Len(t) : L[n] = IF n = 0 THEN <<>>
                                    ELSE IF n \in Q THEN Append(L[n - 1], t[n]) ELSE L[n - 1]
  BY <1>a DEF Unfolds
<1> HIDE DEF K, L
<1>3. 0 \in N
  <2>1. K[0] = <<>> /\ L[0] = <<>>
    BY <1>0, <1>1, <1>2
  <2> QED
    BY <2>1
<1>4. ASSUME NEW n \in 0 .. m - 1, n \in N PROVE n + 1 \in N
  <2>1. n + 1 \in 1 .. m /\ n + 1 \in 0 .. Len(s) /\ n + 1 \in 0 .. Len(t) /\ (n + 1) - 1 = n
    OBVIOUS
  <2>2. K[n + 1] = IF n + 1 \in P THEN Append(K[n], s[n + 1]) ELSE K[n]
    BY <2>1, <1>1
  <2>3. L[n + 1] = IF n + 1 \in Q THEN Append(L[n], t[n + 1]) ELSE L[n]
    BY <2>1, <1>2
  <2>4. K[n] = L[n] /\ s[n + 1] = t[n + 1] /\ (n + 1 \in P <=> n + 1 \in Q)
    BY <2>1, <1>4
  <2> QED
    BY <2>1, <2>2, <2>3, <2>4
<1> HIDE DEF N
<1>5. \A n \in 0 .. m : n \in N
  BY <1>3, <1>4, InductionUpTo
<1> QED
  BY <1>5 DEF N, K, L

LEMMA KeptType ==
  ASSUME NEW S, NEW ls \in Seq(S), NEW positions, NEW T,
         \A n \in 1 .. Len(ls) : n \in positions => ls[n] \in T
  PROVE  Kept(ls, positions) \in Seq(T)
<1>1. Len(ls) \in 0 .. Len(ls)
  OBVIOUS
<1>2. \A n \in 0 .. Len(ls) : KeptUpTo(ls, positions)[n] \in Seq(T)
  BY KeptUpToType
<1> QED
  BY <1>1, <1>2 DEF Kept

LEMMA KeptEmpty == ASSUME NEW positions PROVE Kept(<<>>, positions) = <<>>
<1>1. PICK kept : Keeps(kept, <<>>, positions, 0)
  BY KeptExists
<1>2. KeptUpTo(<<>>, positions) = CHOOSE k : Keeps(k, <<>>, positions, Len(<<>>))
  BY DEF KeptUpTo, Keeps
<1>3. Len(<<>>) = 0
  OBVIOUS
<1>4. Keeps(KeptUpTo(<<>>, positions), <<>>, positions, 0)
  BY <1>1, <1>2, <1>3
<1>5. KeptUpTo(<<>>, positions)[0] = <<>>
  BY <1>4 DEF Keeps
<1> QED
  BY <1>3, <1>5 DEF Kept

\* One line more is kept or not, and changes nothing else.
LEMMA KeptAppend ==
  ASSUME NEW S, NEW ls \in Seq(S), NEW l \in S, NEW P, NEW Q,
         \A n \in 1 .. Len(ls) : n \in P <=> n \in Q
  PROVE  Kept(Append(ls, l), Q) = IF Len(ls) + 1 \in Q THEN Append(Kept(ls, P), l)
                                  ELSE Kept(ls, P)
<1> DEFINE longer == Append(ls, l)
           m == Len(ls)
<1>1. /\ longer \in Seq(S) /\ Len(longer) = m + 1 /\ longer[m + 1] = l
      /\ \A n \in 1 .. m : longer[n] = ls[n]
      /\ m \in Nat
  OBVIOUS
<1> HIDE DEF longer, m
<1>2. \A n \in 1 .. m : longer[n] = ls[n] /\ (n \in Q <=> n \in P)
  BY <1>1 DEF m
<1>3. KeptUpTo(longer, Q)[m] = KeptUpTo(ls, P)[m]
  <2>1. SameUpTo(longer, Q, ls, P, m)
    BY <1>1, <1>2 DEF m, SameUpTo
  <2> QED
    BY <2>1, <1>1, KeptUpToSame
<1>4. KeptUpTo(longer, Q)[m + 1] = IF m + 1 \in Q THEN Append(KeptUpTo(longer, Q)[m], l)
                                   ELSE KeptUpTo(longer, Q)[m]
  <2>1. /\ Len(longer) \in Nat /\ m + 1 \in 0 .. Len(longer)
        /\ m + 1 # 0 /\ (m + 1) - 1 = m
    BY <1>1
  <2>2. Unfolds(KeptUpTo(longer, Q), longer, Q)
    BY <2>1, KeptUpToDef
  <2>3. KeptUpTo(longer, Q)[m + 1] =
          IF m + 1 = 0 THEN <<>>
          ELSE IF m + 1 \in Q THEN Append(KeptUpTo(longer, Q)[(m + 1) - 1], longer[m + 1])
          ELSE KeptUpTo(longer, Q)[(m + 1) - 1]
    BY <2>1, <2>2 DEF Unfolds
  <2> QED
    BY <2>1, <2>3, <1>1
<1>5. Kept(longer, Q) = KeptUpTo(longer, Q)[m + 1] /\ Kept(ls, P) = KeptUpTo(ls, P)[m]
  BY <1>1 DEF Kept, m
<1> QED
  BY <1>3, <1>4, <1>5 DEF longer, m

\* Of a file all of whose lines are kept nothing is missing.
LEMMA KeptAll ==
  ASSUME NEW S, NEW ls \in Seq(S), NEW positions, 1 .. Len(ls) \subseteq positions
  PROVE  Kept(ls, positions) = ls
<1>0. Len(ls) \in Nat
  OBVIOUS
<1> DEFINE K == KeptUpTo(ls, positions)
           Same(n) == Len(K[n]) = n /\ \A i \in 1 .. n : K[n][i] = ls[i]
           N == {n \in Nat : Same(n)}
<1>a. Unfolds(K, ls, positions)
  BY <1>0, KeptUpToDef
<1>1. \A n \in 0 .. Len(ls) : K[n] = IF n = 0 THEN <<>>
                                     ELSE IF n \in positions THEN Append(K[n - 1], ls[n])
                                     ELSE K[n - 1]
  BY <1>a DEF Unfolds
<1>2. \A n \in 0 .. Len(ls) : K[n] \in Seq(S)
  <2>1. \A n \in 1 .. Len(ls) : n \in positions => ls[n] \in S
    OBVIOUS
  <2> QED
    BY <2>1, KeptUpToType
<1> HIDE DEF K
<1>3. 0 \in N
  <2>1. K[0] = <<>>
    BY <1>1
  <2> QED
    BY <2>1
<1>4. ASSUME NEW n \in 0 .. Len(ls) - 1, n \in N PROVE n + 1 \in N
  <2>1. n \in 0 .. Len(ls) /\ n + 1 \in 1 .. Len(ls) /\ (n + 1) - 1 = n /\ ls[n + 1] \in S
    OBVIOUS
  <2>2. K[n + 1] = IF n + 1 \in positions THEN Append(K[n], ls[n + 1]) ELSE K[n]
    BY <2>1, <1>1
  <2>4. n + 1 \in positions /\ K[n] \in Seq(S)
    BY <2>1, <1>2
  <2>3. Len(K[n]) = n /\ \A i \in 1 .. n : K[n][i] = ls[i]
    BY <1>4
  <2>5. K[n + 1] = Append(K[n], ls[n + 1])
    BY <2>2, <2>4
  <2>6. Len(K[n + 1]) = n + 1 /\ \A i \in 1 .. n : K[n + 1][i] = K[n][i]
    BY <2>1, <2>3, <2>4, <2>5, AppendProperties
  <2>7. K[n + 1][n + 1] = ls[n + 1]
    BY <2>1, <2>3, <2>4, <2>5, AppendProperties
  <2>8. Same(n + 1)
    BY <2>3, <2>6, <2>7
  <2> QED
    BY <2>1, <2>8
<1>5. Len(ls) \in Nat
  OBVIOUS
<1> HIDE DEF N
<1>6. \A n \in 0 .. Len(ls) : n \in N
  BY <1>3, <1>4, <1>5, InductionUpTo
<1>7. Same(Len(ls)) /\ K[Len(ls)] \in Seq(S)
  BY <1>2, <1>5, <1>6 DEF N
<1>8. Kept(ls, positions) = K[Len(ls)]
  BY DEF Kept, K
<1> QED
  BY <1>7, <1>8, SeqEqual

--------------------------------------------------------------------------------
\* What is read is lines, none of them bad.
LEMMA ParseType ==
  ASSUME NEW S, NEW ls \in Seq(S), NEW bad
  PROVE  Parse(ls, bad) \in Seq(S \ {bad})
<1> DEFINE P == {n \in 1 .. Len(ls) : ls[n] # bad}
<1>1. \A n \in 1 .. Len(ls) : n \in P => ls[n] \in S \ {bad}
  OBVIOUS
<1> HIDE DEF P
<1>2. Kept(ls, P) \in Seq(S \ {bad})
  BY <1>1, KeptType
<1> QED
  BY <1>2 DEF Parse, P

\* Reading what one line was added to.
LEMMA ParseAppend ==
  ASSUME NEW S, NEW ls \in Seq(S), NEW l \in S, NEW bad
  PROVE  Parse(Append(ls, l), bad) = IF l = bad THEN Parse(ls, bad) ELSE Append(Parse(ls, bad), l)
<1> DEFINE longer == Append(ls, l)
           P == {n \in 1 .. Len(ls) : ls[n] # bad}
           Q == {n \in 1 .. Len(longer) : longer[n] # bad}
<1>1. /\ Len(longer) = Len(ls) + 1 /\ longer[Len(ls) + 1] = l
      /\ \A n \in 1 .. Len(ls) : longer[n] = ls[n]
      /\ Len(ls) \in Nat
  OBVIOUS
<1> HIDE DEF longer
<1>2. \A n \in 1 .. Len(ls) : n \in P <=> n \in Q
  BY <1>1
<1>3. Len(ls) + 1 \in Q <=> l # bad
  BY <1>1
<1> HIDE DEF P, Q
<1>4. Kept(longer, Q) = IF Len(ls) + 1 \in Q THEN Append(Kept(ls, P), l) ELSE Kept(ls, P)
  BY <1>2, KeptAppend DEF longer
<1> QED
  BY <1>3, <1>4 DEF Parse, P, Q, longer

LEMMA ParseEmpty == ASSUME NEW bad PROVE Parse(<<>>, bad) = <<>>
BY KeptEmpty DEF Parse

LEMMA ParseWhole ==
  ASSUME NEW S, NEW ls \in Seq(S), NEW bad, \A n \in 1 .. Len(ls) : ls[n] # bad
  PROVE  Parse(ls, bad) = ls
<1>1. 1 .. Len(ls) \subseteq {n \in 1 .. Len(ls) : ls[n] # bad}
  OBVIOUS
<1> QED
  BY <1>1, KeptAll DEF Parse

LEMMA FunctionIsSeq ==
  ASSUME NEW S, NEW n \in Nat, NEW f \in [1 .. n -> S]
  PROVE  f \in Seq(S) /\ Len(f) = n
<1>1. f \in Seq(S)
  BY SeqDef
<1>2. Len(f) \in Nat /\ DOMAIN f = 1 .. Len(f) /\ DOMAIN f = 1 .. n
  BY <1>1, LenProperties
<1> QED
  BY <1>1, <1>2

\* The last line of a file and what comes before it.
LEMMA LastLine ==
  ASSUME NEW S, NEW ls \in Seq(S), ls # <<>>
  PROVE  /\ Front(ls) \in Seq(S) /\ Last(ls) \in S
         /\ Last(ls) = ls[Len(ls)]
         /\ ls = Append(Front(ls), Last(ls))
         /\ Len(Front(ls)) = Len(ls) - 1
         /\ \A l : [ls EXCEPT ![Len(ls)] = l] = Append(Front(ls), l)
<1>1. Len(ls) \in Nat \ {0} /\ ls \in [1 .. Len(ls) -> S]
  OBVIOUS
<1>2. /\ Front(ls) \in Seq(S) /\ Len(Front(ls)) = Len(ls) - 1
      /\ \A i \in 1 .. Len(ls) - 1 : Front(ls)[i] = ls[i]
  BY <1>1 DEF Front
<1>3. Last(ls) = ls[Len(ls)] /\ Last(ls) \in S
  BY <1>1 DEF Last
<1>4. ASSUME NEW l PROVE [ls EXCEPT ![Len(ls)] = l] = Append(Front(ls), l)
  <2> DEFINE T == S \cup {l}
             e == [ls EXCEPT ![Len(ls)] = l]
             a == Append(Front(ls), l)
  <2>1. ls \in Seq(T) /\ Len(ls) \in 1 .. Len(ls) /\ l \in T
    BY <1>1
  <2>2. e \in Seq(T) /\ Len(e) = Len(ls) /\ \A j \in 1 .. Len(ls) : e[j] = IF j = Len(ls) THEN l ELSE ls[j]
    BY <2>1, ExceptSeq
  <2>3. PICK front \in Seq(T) : front = Front(ls)
    BY <1>2
  <2>4. /\ Append(front, l) \in Seq(T)
        /\ Len(Append(front, l)) = Len(front) + 1
        /\ \A j \in 1 .. Len(front) : Append(front, l)[j] = front[j]
        /\ Append(front, l)[Len(front) + 1] = l
    BY <2>1, AppendProperties
  <2>5. Len(front) = Len(ls) - 1 /\ \A j \in 1 .. Len(ls) - 1 : front[j] = ls[j]
    BY <2>3, <1>2
  <2>6. a \in Seq(T) /\ Len(a) = Len(ls) /\ \A j \in 1 .. Len(ls) : e[j] = a[j]
    <3> HIDE DEF e, T
    <3>1. a = Append(front, l)
      BY <2>3
    <3> HIDE DEF a
    <3>2. a \in Seq(T) /\ Len(a) = Len(ls) /\ a[Len(ls)] = l
      BY <3>1, <1>1, <2>4, <2>5
    <3>3. \A j \in 1 .. Len(ls) - 1 : a[j] = ls[j]
      BY <3>1, <2>4, <2>5
    <3>4. ASSUME NEW j \in 1 .. Len(ls) PROVE e[j] = a[j]
      <4>1. Len(ls) \in Nat
        BY <1>1
      <4>2. j = Len(ls) \/ j \in 1 .. Len(ls) - 1
        BY <4>1
      <4> QED
        BY <4>2, <3>2, <3>3, <2>2
    <3> QED
      BY <3>2, <3>4
  <2> HIDE DEF e, a
  <2>7. e = a
    BY <2>2, <2>6, SeqEqual
  <2> QED
    BY <2>7 DEF e, a
<1>5. ls = Append(Front(ls), Last(ls))
  <2>1. [ls EXCEPT ![Len(ls)] = Last(ls)] = ls
    BY <1>1, <1>3
  <2> QED
    BY <2>1, <1>4
<1> QED
  BY <1>1, <1>2, <1>3, <1>4, <1>5

LEMMA AddedLine ==
  ASSUME NEW S, NEW ls \in Seq(S), NEW l \in S
  PROVE  /\ Append(ls, l) \in Seq(S) /\ Append(ls, l) # <<>>
         /\ Front(Append(ls, l)) = ls /\ Last(Append(ls, l)) = l
<1> DEFINE longer == Append(ls, l)
<1>1. /\ longer \in Seq(S) /\ longer # <<>> /\ Len(longer) = Len(ls) + 1
      /\ \A i \in 1 .. Len(ls) : longer[i] = ls[i]
      /\ longer[Len(ls) + 1] = l
      /\ Len(ls) \in Nat
  BY AppendProperties
<1> HIDE DEF longer
<1>2. Last(longer) = l
  BY <1>1 DEF Last
<1>3. /\ Front(longer) \in Seq(S) /\ Len(Front(longer)) = Len(ls)
      /\ \A i \in 1 .. Len(ls) : Front(longer)[i] = longer[i]
  BY <1>1 DEF Front
<1>4. Front(longer) = ls
  BY <1>1, <1>3, SeqEqual
<1> QED
  BY <1>1, <1>2, <1>4 DEF longer
================================================================================
