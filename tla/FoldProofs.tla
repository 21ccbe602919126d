------------------------------ MODULE FoldProofs ------------------------------
(***************************************************************************)
(* Induction over positions, and what FoldLeft computes, for a loop whose  *)
(* one turn is the operator Step.  A proof that needs these facts about a  *)
(* loop of the code instantiates the module with that loop's turn.         *)
(***************************************************************************)
EXTENDS Naturals, Sequences, Folds, NaturalsInduction, WellFoundedInduction, TLAPS

CONSTANT Step(_, _)

\* FoldLeft(Step, base, s) of SequencesExt, by its definition: with Folds alone an instance
\* stays small.
Highest(S) == CHOOSE x \in S : \A y \in S : x >= y
Fold(base, s) ==
    MapThenFoldSet(LAMBDA x, y : Step(y, x), base, LAMBDA i : s[i], LAMBDA S : Highest(S), DOMAIN s)

\* Induction up to n, for a set that stands for the property.
LEMMA PositionInduction ==
  ASSUME NEW n \in Nat, NEW S, 0 \in S,
         \A k \in 0 .. n : k < n /\ k \in S => k + 1 \in S
  PROVE  \A k \in 0 .. n : k \in S
<1> DEFINE T == {k \in 0 .. n : k \notin S}
<1>1. SUFFICES ASSUME T # {} PROVE FALSE
  OBVIOUS
<1>2. T \subseteq Nat
  OBVIOUS
<1>3. PICK x \in T : \A y \in T : ~(<<y, x>> \in OpToRel(<, Nat))
  BY <1>1, <1>2, NatLessThanWellFounded, WFMin
<1>4. \A y \in T : ~(y < x)
  BY <1>2, <1>3 DEF OpToRel
<1>5. x # 0 /\ x \in 0 .. n /\ x \notin S
  OBVIOUS
<1>6. x - 1 \in 0 .. n /\ x - 1 < n /\ x - 1 < x /\ (x - 1) + 1 = x
  BY <1>5
<1>7. x - 1 \notin T
  BY <1>4, <1>6
<1>8. x - 1 \in S
  BY <1>6, <1>7
<1>9. QED
  BY <1>5, <1>6, <1>8

\* A non-empty set of positions has a largest one, and Highest returns it.
LEMMA MaxPosition ==
  ASSUME NEW n \in Nat, NEW S \in SUBSET (1 .. n), S # {}
  PROVE  Highest(S) \in S /\ \A j \in S : j <= Highest(S)
<1> DEFINE T == {n - i : i \in S}
<1>1. T \subseteq Nat /\ T # {}
  <2>1. \A i \in S : n - i \in Nat
    OBVIOUS
  <2>2. PICK i \in S : TRUE
    OBVIOUS
  <2>3. n - i \in T
    OBVIOUS
  <2>4. QED
    BY <2>1, <2>3
<1>2. PICK x \in T : \A y \in T : ~(<<y, x>> \in OpToRel(<, Nat))
  BY <1>1, NatLessThanWellFounded, WFMin
<1>3. \A y \in T : ~(y < x)
  BY <1>1, <1>2 DEF OpToRel
<1>4. PICK i \in S : x = n - i
  OBVIOUS
<1>5. \A j \in S : n - j \in T
  OBVIOUS
<1>6. \A j \in S : j <= i
  BY <1>3, <1>4, <1>5
<1>7. \E m \in S : \A j \in S : m >= j
  BY <1>6
<1>8. QED
  BY <1>7 DEF Highest

\* The largest of the first k positions is k.
LEMMA MaxInterval ==
  ASSUME NEW k \in Nat, k # 0
  PROVE  Highest(1 .. k) = k /\ (1 .. k) \ {k} = 1 .. (k - 1)
<1>0. 1 .. k \in SUBSET (1 .. k) /\ 1 \in 1 .. k
  OBVIOUS
<1>1. Highest(1 .. k) \in 1 .. k /\ \A j \in 1 .. k : j <= Highest(1 .. k)
  BY <1>0, MaxPosition
<1>2. Highest(1 .. k) = k
  BY <1>1
<1>3. QED
  BY <1>2

-------------------------------------------------------------------------------
(* FoldLeft is defined by a recursive function on sets of positions. *)

Turn(base, s, g, x) == IF x = {} THEN base ELSE Step(g[x \ {Highest(x)}], s[Highest(x)])
Follows(base, s, n, g) == g = [x \in SUBSET (1 .. n) |-> Turn(base, s, g, x)]

\* There is such a function.
LEMMA FollowsExists ==
  ASSUME NEW base, NEW s, NEW n \in Nat
  PROVE  \E g : Follows(base, s, n, g)
<1> DEFINE S == {k \in Nat : \E g : Follows(base, s, k, g)}
<1>1. 0 \in S
  <2> DEFINE g == [x \in SUBSET (1 .. 0) |-> base]
  <2>1. \A x \in SUBSET (1 .. 0) : x = {}
    OBVIOUS
  <2>2. Follows(base, s, 0, g)
    BY <2>1 DEF Follows, Turn
  <2>3. QED
    BY <2>2
<1>2. ASSUME NEW k \in 0 .. n, k < n, k \in S PROVE k + 1 \in S
  <2>1. PICK g : Follows(base, s, k, g)
    BY <1>2
  <2> DEFINE h == [x \in SUBSET (1 .. k + 1) |->
                     IF k + 1 \in x THEN Step(g[x \ {k + 1}], s[k + 1]) ELSE g[x]]
  <2>k. k \in Nat /\ k + 1 \in Nat
    OBVIOUS
  <2>2. ASSUME NEW x \in SUBSET (1 .. k + 1) PROVE h[x] = Turn(base, s, h, x)
    <3>1. CASE k + 1 \in x
      <4>1. Highest(x) \in x /\ \A j \in x : j <= Highest(x)
        <5> HIDE DEF h
        <5>1. x # {}
          BY <3>1
        <5>2. QED
          BY <2>k, <5>1, MaxPosition
      <4>a. Highest(x) \in 1 .. k + 1 /\ k + 1 <= Highest(x)
        BY <4>1, <3>1, <2>2
      <4>2. Highest(x) = k + 1
        BY <4>a
      <4>3. x \ {k + 1} \in SUBSET (1 .. k + 1) /\ k + 1 \notin x \ {k + 1}
        OBVIOUS
      <4>4. h[x \ {k + 1}] = g[x \ {k + 1}]
        BY <4>3
      <4>5. QED
        BY <3>1, <4>2, <4>4 DEF Turn
    <3>2. CASE k + 1 \notin x
      <4>1. x \in SUBSET (1 .. k)
        BY <3>2
      <4>2. h[x] = Turn(base, s, g, x)
        BY <2>1, <3>2, <4>1 DEF Follows
      <4>3. CASE x = {}
        BY <4>2, <4>3 DEF Turn
      <4>4. CASE x # {}
        <5>1. Highest(x) \in x
          <6> HIDE DEF h
          <6>1. QED
            BY <2>k, <4>1, <4>4, MaxPosition
        <5>2. x \ {Highest(x)} \in SUBSET (1 .. k + 1) /\ k + 1 \notin x \ {Highest(x)}
          BY <3>2, <2>2, Zenon
        <5>3. h[x \ {Highest(x)}] = g[x \ {Highest(x)}]
          BY <5>2
        <5>4. QED
          BY <4>2, <4>4, <5>3 DEF Turn
      <4>5. QED
        BY <4>3, <4>4
    <3>3. QED
      BY <3>1, <3>2
  <2>3. Follows(base, s, k + 1, h)
    <3> HIDE DEF Turn
    <3>1. h = [x \in SUBSET (1 .. k + 1) |-> h[x]]
      OBVIOUS
    <3> HIDE DEF h
    <3>2. QED
      BY <2>2, <3>1 DEF Follows
  <2>4. k + 1 \in Nat
    OBVIOUS
  <2> HIDE DEF h
  <2>5. QED
    BY <2>3, <2>4
<1> HIDE DEF S
<1>3. \A k \in 0 .. n : k < n /\ k \in S => k + 1 \in S
  BY <1>2
<1>4. n \in S
  BY <1>1, <1>3, PositionInduction
<1>5. QED
  BY <1>4 DEF S

\* FoldLeft is the value of such a function.
LEMMA FoldFollows ==
  ASSUME NEW base, NEW s, Len(s) \in Nat, DOMAIN s = 1 .. Len(s)
  PROVE  \E g : Follows(base, s, Len(s), g) /\ Fold(base, s) = g[1 .. Len(s)]
<1> DEFINE g == CHOOSE g : Follows(base, s, Len(s), g)
<1>1. Follows(base, s, Len(s), g)
  BY FollowsExists
<1>2. Fold(base, s) = g[1 .. Len(s)]
  BY DEF Fold, MapThenFoldSet, Follows, Turn
<1>3. QED
  BY <1>1, <1>2

\* Functions for two sequences agree where the sequences do.
LEMMA FollowsAgree ==
  ASSUME NEW base, NEW s, NEW t, NEW m \in Nat, NEW n \in Nat, NEW g, NEW h,
         Follows(base, s, m, g), Follows(base, t, n, h),
         NEW k \in Nat, k <= m, k <= n, \A i \in 1 .. k : s[i] = t[i]
  PROVE  g[1 .. k] = h[1 .. k]
<1> DEFINE S == {i \in 0 .. k : g[1 .. i] = h[1 .. i]}
<1>1. 0 \in S
  <2>1. 1 .. 0 = {} /\ 1 .. 0 \in SUBSET (1 .. m) /\ 1 .. 0 \in SUBSET (1 .. n)
    OBVIOUS
  <2>2. g[1 .. 0] = base /\ h[1 .. 0] = base
    BY <2>1 DEF Follows, Turn
  <2>3. QED
    BY <2>2
<1>2. ASSUME NEW i \in 0 .. k, i < k, i \in S PROVE i + 1 \in S
  <2>1. Highest(1 .. i + 1) = i + 1 /\ (1 .. i + 1) \ {i + 1} = 1 .. i
    <3>1. i + 1 \in Nat /\ i + 1 # 0 /\ (i + 1) - 1 = i
      OBVIOUS
    <3>2. QED
      BY <3>1, MaxInterval
  <2>2. 1 .. i + 1 \in SUBSET (1 .. m) /\ 1 .. i + 1 \in SUBSET (1 .. n) /\ 1 .. i + 1 # {}
    <3>1. 1 \in 1 .. i + 1
      OBVIOUS
    <3>2. QED
      BY <3>1, <1>2
  <2>3. g[1 .. i + 1] = Step(g[1 .. i], s[i + 1])
    <3>1. g[1 .. i + 1] = Turn(base, s, g, 1 .. i + 1)
      BY <2>2 DEF Follows
    <3>2. QED
      BY <2>1, <2>2, <3>1 DEF Turn
  <2>4. h[1 .. i + 1] = Step(h[1 .. i], t[i + 1])
    <3>1. h[1 .. i + 1] = Turn(base, t, h, 1 .. i + 1)
      BY <2>2 DEF Follows
    <3>2. QED
      BY <2>1, <2>2, <3>1 DEF Turn
  <2>5. s[i + 1] = t[i + 1] /\ g[1 .. i] = h[1 .. i] /\ i + 1 \in 0 .. k
    BY <1>2
  <2>6. QED
    BY <2>3, <2>4, <2>5
<1> HIDE DEF S
<1>3. \A i \in 0 .. k : i < k /\ i \in S => i + 1 \in S
  BY <1>2
<1>4. k \in S
  BY <1>1, <1>3, PositionInduction
<1>5. QED
  BY <1>4 DEF S

-------------------------------------------------------------------------------
(* What a loop over a sequence does. *)

\* No turn leaves the value it started with.
THEOREM FoldEmpty ==
  ASSUME NEW base
  PROVE  Fold(base, <<>>) = base
<1>1. Len(<<>>) = 0 /\ DOMAIN <<>> = 1 .. 0
  OBVIOUS
<1>2. PICK g : Follows(base, <<>>, 0, g) /\ Fold(base, <<>>) = g[1 .. 0]
  BY <1>1, FoldFollows
<1>3. 1 .. 0 = {} /\ 1 .. 0 \in SUBSET (1 .. 0)
  OBVIOUS
<1>4. QED
  BY <1>2, <1>3 DEF Follows, Turn

\* One more element is one more turn at the end.
THEOREM FoldAppend ==
  ASSUME NEW T, NEW s \in Seq(T), NEW e \in T, NEW base
  PROVE  Fold(base, Append(s, e)) = Step(Fold(base, s), e)
<1> DEFINE n == Len(s)
           t == Append(s, e)
<1>1. /\ n \in Nat /\ DOMAIN s = 1 .. n
      /\ Len(t) = n + 1 /\ DOMAIN t = 1 .. (n + 1)
      /\ t[n + 1] = e /\ \A i \in 1 .. n : t[i] = s[i]
  OBVIOUS
<1> HIDE DEF n, t
<1>2. PICK g : Follows(base, s, n, g) /\ Fold(base, s) = g[1 .. n]
  BY <1>1, FoldFollows DEF n
<1>3. Len(t) \in Nat /\ DOMAIN t = 1 .. Len(t)
  BY <1>1
<1>4. PICK h : Follows(base, t, n + 1, h) /\ Fold(base, t) = h[1 .. n + 1]
  BY <1>1, <1>3, FoldFollows
<1>5. Highest(1 .. n + 1) = n + 1 /\ (1 .. n + 1) \ {n + 1} = 1 .. n
  <2>1. n + 1 \in Nat /\ n + 1 # 0 /\ (n + 1) - 1 = n
    BY <1>1
  <2>2. QED
    BY <2>1, MaxInterval
<1>6. 1 .. n + 1 \in SUBSET (1 .. n + 1) /\ 1 .. n + 1 # {}
  <2>1. 1 \in 1 .. n + 1
    BY <1>1
  <2>2. QED
    BY <2>1
<1>7. h[1 .. n + 1] = Step(h[1 .. n], e)
  BY <1>1, <1>4, <1>5, <1>6 DEF Follows, Turn
<1>8. h[1 .. n] = g[1 .. n]
  <2>1. n + 1 \in Nat /\ n <= n /\ n <= n + 1
    BY <1>1
  <2>2. /\ Follows(base, s, n, g)
        /\ Follows(base, t, n + 1, h)
        /\ \A i \in 1 .. n : s[i] = t[i]
    BY <1>1, <1>2, <1>4
  <2> HIDE DEF Follows
  <2>3. g[1 .. n] = h[1 .. n]
    BY <1>1, <2>1, <2>2, FollowsAgree
  <2>4. QED
    BY <2>3
<1>9. QED
  BY <1>2, <1>4, <1>7, <1>8 DEF t

\* One element is one turn.
THEOREM FoldOne ==
  ASSUME NEW base, NEW e
  PROVE  Fold(base, <<e>>) = Step(base, e)
<1>1. <<>> \in Seq({e}) /\ e \in {e} /\ Append(<<>>, e) = <<e>>
  OBVIOUS
<1>2. Fold(base, Append(<<>>, e)) = Step(Fold(base, <<>>), e)
  BY <1>1, FoldAppend
<1>3. QED
  BY <1>1, <1>2, FoldEmpty

\* A prefix grows by one element at a time.
LEMMA PrefixGrows ==
  ASSUME NEW T, NEW s \in Seq(T), NEW t \in Seq(T), NEW k \in 0 .. Len(t), k < Len(t)
  PROVE  /\ SubSeq(t, 1, k) \in Seq(T) /\ t[k + 1] \in T
         /\ SubSeq(t, 1, k + 1) = Append(SubSeq(t, 1, k), t[k + 1])
         /\ s \o SubSeq(t, 1, k) \in Seq(T)
         /\ s \o SubSeq(t, 1, k + 1) = Append(s \o SubSeq(t, 1, k), t[k + 1])
<1>1. SubSeq(t, 1, k) \in Seq(T) /\ t[k + 1] \in T
  OBVIOUS
<1>2. SubSeq(t, 1, k + 1) = Append(SubSeq(t, 1, k), t[k + 1])
  OBVIOUS
<1>3. s \o SubSeq(t, 1, k) \in Seq(T)
  BY <1>1
<1>4. s \o Append(SubSeq(t, 1, k), t[k + 1]) = Append(s \o SubSeq(t, 1, k), t[k + 1])
  BY <1>1
<1>5. QED
  BY <1>1, <1>2, <1>3, <1>4

\* Two loops one after the other are the loop over both sequences.
THEOREM FoldConcat ==
  ASSUME NEW T, NEW s \in Seq(T), NEW t \in Seq(T), NEW base
  PROVE  Fold(base, s \o t) = Fold(Fold(base, s), t)
<1> DEFINE P(k) == Fold(base, s \o SubSeq(t, 1, k)) = Fold(Fold(base, s), SubSeq(t, 1, k))
           S == {k \in 0 .. Len(t) : P(k)}
<1>1. Len(t) \in Nat
  OBVIOUS
<1>2. 0 \in S
  <2>1. SubSeq(t, 1, 0) = <<>> /\ s \o <<>> = s
    OBVIOUS
  <2>2. P(0)
    BY <2>1, FoldEmpty
  <2>3. 0 \in 0 .. Len(t)
    BY <1>1
  <2> HIDE DEF P
  <2>4. QED
    BY <2>2, <2>3
<1>3. ASSUME NEW k \in 0 .. Len(t), k < Len(t), k \in S PROVE k + 1 \in S
  <2>1. /\ SubSeq(t, 1, k) \in Seq(T) /\ t[k + 1] \in T
        /\ SubSeq(t, 1, k + 1) = Append(SubSeq(t, 1, k), t[k + 1])
        /\ s \o SubSeq(t, 1, k) \in Seq(T)
        /\ s \o SubSeq(t, 1, k + 1) = Append(s \o SubSeq(t, 1, k), t[k + 1])
    BY <1>3, PrefixGrows
  <2>2. Fold(base, s \o SubSeq(t, 1, k + 1)) = Step(Fold(base, s \o SubSeq(t, 1, k)), t[k + 1])
    BY <2>1, FoldAppend
  <2>3. Fold(Fold(base, s), SubSeq(t, 1, k + 1)) = Step(Fold(Fold(base, s), SubSeq(t, 1, k)), t[k + 1])
    BY <2>1, FoldAppend
  <2>4. P(k)
    BY <1>3
  <2>5. P(k + 1)
    BY <2>2, <2>3, <2>4
  <2>6. k + 1 \in 0 .. Len(t)
    BY <1>1, <1>3
  <2> HIDE DEF P
  <2>7. QED
    BY <2>5, <2>6
<1> HIDE DEF P
<1>4. Len(t) \in S
  <2> HIDE DEF S
  <2>1. \A k \in 0 .. Len(t) : k < Len(t) /\ k \in S => k + 1 \in S
    BY <1>3
  <2>2. \A k \in 0 .. Len(t) : k \in S
    BY <1>1, <1>2, <2>1, PositionInduction
  <2>3. Len(t) \in 0 .. Len(t)
    BY <1>1
  <2>4. QED
    BY <2>2, <2>3
<1>5. SubSeq(t, 1, Len(t)) = t
  OBVIOUS
<1>6. QED
  BY <1>4, <1>5 DEF P

\* What every turn preserves, the loop preserves.
THEOREM FoldPreserves ==
  ASSUME NEW T, NEW t \in Seq(T), NEW V, NEW base \in V,
         \A v \in V, e \in T : Step(v, e) \in V
  PROVE  Fold(base, t) \in V
<1> DEFINE S == {k \in 0 .. Len(t) : Fold(base, SubSeq(t, 1, k)) \in V}
<1>1. Len(t) \in Nat
  OBVIOUS
<1>2. 0 \in S
  <2>1. SubSeq(t, 1, 0) = <<>>
    OBVIOUS
  <2>2. Fold(base, SubSeq(t, 1, 0)) \in V
    BY <2>1, FoldEmpty
  <2>3. 0 \in 0 .. Len(t)
    BY <1>1
  <2>4. QED
    BY <2>2, <2>3
<1>3. ASSUME NEW k \in 0 .. Len(t), k < Len(t), k \in S PROVE k + 1 \in S
  <2>1. /\ SubSeq(t, 1, k) \in Seq(T) /\ t[k + 1] \in T
        /\ SubSeq(t, 1, k + 1) = Append(SubSeq(t, 1, k), t[k + 1])
    BY <1>3, PrefixGrows
  <2>2. Fold(base, SubSeq(t, 1, k + 1)) = Step(Fold(base, SubSeq(t, 1, k)), t[k + 1])
    BY <2>1, FoldAppend
  <2>3. Fold(base, SubSeq(t, 1, k)) \in V
    BY <1>3
  <2>4. k + 1 \in 0 .. Len(t)
    BY <1>1, <1>3
  <2>5. QED
    BY <2>1, <2>2, <2>3, <2>4
<1>4. Len(t) \in S
  <2> HIDE DEF S
  <2>1. \A k \in 0 .. Len(t) : k < Len(t) /\ k \in S => k + 1 \in S
    BY <1>3
  <2>2. \A k \in 0 .. Len(t) : k \in S
    BY <1>1, <1>2, <2>1, PositionInduction
  <2>3. Len(t) \in 0 .. Len(t)
    BY <1>1
  <2>4. QED
    BY <2>2, <2>3
<1>5. SubSeq(t, 1, Len(t)) = t
  OBVIOUS
<1>6. QED
  BY <1>4, <1>5

\* Two loops over the same sequence stay as their starting values are related.
THEOREM FoldRelates ==
  ASSUME NEW T, NEW t \in Seq(T), NEW R, NEW v, NEW w, <<v, w>> \in R,
         \A x, y : \A e \in T : <<x, y>> \in R => <<Step(x, e), Step(y, e)>> \in R
  PROVE  <<Fold(v, t), Fold(w, t)>> \in R
<1> DEFINE P(k) == <<Fold(v, SubSeq(t, 1, k)), Fold(w, SubSeq(t, 1, k))>> \in R
           S == {k \in 0 .. Len(t) : P(k)}
<1>1. Len(t) \in Nat
  OBVIOUS
<1>2. 0 \in S
  <2>1. SubSeq(t, 1, 0) = <<>>
    OBVIOUS
  <2>2. P(0)
    BY <2>1, FoldEmpty
  <2>3. 0 \in 0 .. Len(t)
    BY <1>1
  <2> HIDE DEF P
  <2>4. QED
    BY <2>2, <2>3
<1>3. ASSUME NEW k \in 0 .. Len(t), k < Len(t), k \in S PROVE k + 1 \in S
  <2>1. /\ SubSeq(t, 1, k) \in Seq(T) /\ t[k + 1] \in T
        /\ SubSeq(t, 1, k + 1) = Append(SubSeq(t, 1, k), t[k + 1])
    BY <1>3, PrefixGrows
  <2>2. /\ Fold(v, SubSeq(t, 1, k + 1)) = Step(Fold(v, SubSeq(t, 1, k)), t[k + 1])
        /\ Fold(w, SubSeq(t, 1, k + 1)) = Step(Fold(w, SubSeq(t, 1, k)), t[k + 1])
    BY <2>1, FoldAppend
  <2>3. P(k)
    BY <1>3
  <2>4. P(k + 1)
    BY <2>1, <2>2, <2>3
  <2>5. k + 1 \in 0 .. Len(t)
    BY <1>1, <1>3
  <2> HIDE DEF P
  <2>6. QED
    BY <2>4, <2>5
<1> HIDE DEF P
<1>4. Len(t) \in S
  <2> HIDE DEF S
  <2>1. \A k \in 0 .. Len(t) : k < Len(t) /\ k \in S => k + 1 \in S
    BY <1>3
  <2>2. \A k \in 0 .. Len(t) : k \in S
    BY <1>1, <1>2, <2>1, PositionInduction
  <2>3. Len(t) \in 0 .. Len(t)
    BY <1>1
  <2>4. QED
    BY <2>2, <2>3
<1>5. SubSeq(t, 1, Len(t)) = t
  OBVIOUS
<1>6. QED
  BY <1>4, <1>5 DEF P

\* The turns of a loop that runs on: there is a function of the number of turns.
THEOREM Iterates ==
  ASSUME NEW base
  PROVE  \E f : f = [n \in Nat |-> IF n = 0 THEN base ELSE Step(f[n - 1], n)]
<1> DEFINE count(n) == [i \in 1 .. n |-> i]
           f == [n \in Nat |-> Fold(base, count(n))]
<1>1. ASSUME NEW n \in Nat PROVE f[n] = IF n = 0 THEN base ELSE Step(f[n - 1], n)
  <2>1. CASE n = 0
    <3>1. count(0) = <<>>
      OBVIOUS
    <3> QED
      BY <2>1, <3>1, FoldEmpty
  <2>2. CASE n # 0
    <3>1. n - 1 \in Nat
      BY <2>2
    <3>2. count(n - 1) \in Seq(Nat) /\ count(n) = Append(count(n - 1), n)
      BY <2>2, <3>1
    <3> HIDE DEF count
    <3>3. Fold(base, Append(count(n - 1), n)) = Step(Fold(base, count(n - 1)), n)
      BY <3>2, FoldAppend
    <3> QED
      BY <2>2, <3>1, <3>2, <3>3
  <2> QED
    BY <2>1, <2>2
<1>2. f = [n \in Nat |-> f[n]]
  OBVIOUS
<1> HIDE DEF f
<1>3. f = [n \in Nat |-> IF n = 0 THEN base ELSE Step(f[n - 1], n)]
  BY <1>1, <1>2
<1> QED
  BY <1>3

\* A loop that starts with the first element instead of a value before it.
Rest(s, f) == f = [i \in 1 .. Len(s) |-> IF i = 1 THEN s[i] ELSE Step(f[i - 1], s[i])]
THEOREM FromFirst ==
  ASSUME NEW T, NEW s \in Seq(T), Len(s) # 0, NEW base, Step(base, s[1]) = s[1]
  PROVE  (CHOOSE f : Rest(s, f))[Len(s)] = Fold(base, s)
<1> DEFINE n == Len(s)
           J(k) == Fold(base, SubSeq(s, 1, k))
<1>1. n \in Nat
  OBVIOUS
<1>2. J(0) = base
  <2>1. SubSeq(s, 1, 0) = <<>>
    OBVIOUS
  <2> QED
    BY <2>1, FoldEmpty
<1>3. ASSUME NEW k \in 0 .. n, k < n PROVE J(k + 1) = Step(J(k), s[k + 1])
  <2>1. /\ SubSeq(s, 1, k) \in Seq(T) /\ s[k + 1] \in T
        /\ SubSeq(s, 1, k + 1) = Append(SubSeq(s, 1, k), s[k + 1])
    BY <1>3, PrefixGrows
  <2> QED
    BY <2>1, FoldAppend
<1>4. J(n) = Fold(base, s)
  <2>1. SubSeq(s, 1, n) = s
    OBVIOUS
  <2> QED
    BY <2>1
<1> HIDE DEF J
<1> DEFINE g == [i \in 1 .. n |-> J(i)]
<1>5. Rest(s, g)
  <2>1. ASSUME NEW i \in 1 .. n PROVE g[i] = IF i = 1 THEN s[i] ELSE Step(g[i - 1], s[i])
    <3>1. i - 1 \in 0 .. n /\ i - 1 < n /\ (i - 1) + 1 = i
      BY <1>1
    <3>2. J(i) = Step(J(i - 1), s[i])
      BY <1>3, <3>1
    <3>3. CASE i = 1
      BY <1>2, <3>2, <3>3
    <3>4. CASE i # 1
      <4>1. i - 1 \in 1 .. n
        BY <3>1, <3>4
      <4> QED
        BY <3>2, <3>4, <4>1
    <3> QED
      BY <3>3, <3>4
  <2>2. g = [i \in 1 .. n |-> g[i]]
    OBVIOUS
  <2> HIDE DEF g
  <2> QED
    BY <2>1, <2>2 DEF Rest
<1> DEFINE f == CHOOSE f : Rest(s, f)
<1>6. Rest(s, f)
  <2> HIDE DEF g, Rest
  <2> QED
    BY <1>5
<1> HIDE DEF f
<1> DEFINE S == {k \in 0 .. n : k = 0 \/ f[k] = J(k)}
<1>7. 0 \in S
  BY <1>1
<1>8. ASSUME NEW k \in 0 .. n, k < n, k \in S PROVE k + 1 \in S
  <2>1. k + 1 \in 1 .. n /\ (k + 1) - 1 = k /\ k + 1 \in 0 .. n
    BY <1>1, <1>8
  <2>2. J(k + 1) = Step(J(k), s[k + 1])
    BY <1>3, <1>8
  <2>3. f[k + 1] = IF k + 1 = 1 THEN s[k + 1] ELSE Step(f[k], s[k + 1])
    BY <1>6, <2>1 DEF Rest
  <2>4. CASE k = 0
    <3>1. f[1] = s[1]
      BY <2>3, <2>4
    <3>2. J(1) = s[1]
      BY <1>2, <2>2, <2>4
    <3> QED
      BY <2>1, <2>4, <3>1, <3>2
  <2>5. CASE k # 0
    <3>1. f[k] = J(k)
      BY <1>8, <2>5
    <3>2. f[k + 1] = J(k + 1)
      BY <2>2, <2>3, <2>5, <3>1
    <3> QED
      BY <2>1, <3>2
  <2> QED
    BY <2>4, <2>5
<1> HIDE DEF S
<1>9. \A k \in 0 .. n : k < n /\ k \in S => k + 1 \in S
  BY <1>8
<1>10. \A k \in 0 .. n : k \in S
  <2> HIDE DEF n
  <2> QED
    BY <1>1, <1>7, <1>9, PositionInduction
<1>11. n \in 0 .. n /\ n # 0
  BY <1>1
<1>12. f[n] = J(n)
  BY <1>10, <1>11 DEF S
<1> QED
  BY <1>4, <1>12 DEF f
===============================================================================
