----------------------------- MODULE RetainProofs -----------------------------
(* What Without returns, for queues of any length. *)
EXTENDS Retain, FiniteSetTheorems, SequenceTheorems, TLAPS

\* The kept positions of a queue are a finite set of naturals.
LEMMA KeptFinite ==
    ASSUME NEW S, NEW s \in Seq(S), NEW D
    PROVE  /\ Kept(s, D) \subseteq 1..Len(s)
           /\ IsFiniteSet(Kept(s, D))
           /\ Cardinality(Kept(s, D)) \in Nat
<1>1. Len(s) \in Nat
  BY LenProperties
<1>2. Kept(s, D) \subseteq 1..Len(s)
  BY DEF Kept
<1>3. IsFiniteSet(1..Len(s))
  BY <1>1, FS_Interval
<1>4. IsFiniteSet(Kept(s, D))
  BY <1>2, <1>3, FS_Subset
<1>5. Cardinality(Kept(s, D)) \in Nat
  BY <1>4, FS_CardinalityType
<1> QED
  BY <1>2, <1>4, <1>5

\* The rank of a position lies between 1 and the number of positions, and a later
\* position has a larger rank.
LEMMA RankProperties ==
    ASSUME NEW K, IsFiniteSet(K), K \subseteq Nat
    PROVE  /\ \A i \in K : Rank(K, i) \in 1..Cardinality(K)
           /\ \A i, j \in K : i < j => Rank(K, i) < Rank(K, j)
<1> DEFINE Upto(i) == {k \in K : k =< i}
<1>1. \A i \in K : IsFiniteSet(Upto(i)) /\ Cardinality(Upto(i)) \in Nat
                   /\ Cardinality(Upto(i)) =< Cardinality(K)
  <2> SUFFICES ASSUME NEW i \in K
               PROVE  IsFiniteSet(Upto(i)) /\ Cardinality(Upto(i)) \in Nat
                      /\ Cardinality(Upto(i)) =< Cardinality(K)
    OBVIOUS
  <2>1. Upto(i) \in SUBSET K
    OBVIOUS
  <2>2. IsFiniteSet(Upto(i)) /\ Cardinality(Upto(i)) =< Cardinality(K)
    BY <2>1, FS_Subset
  <2> QED
    BY <2>2, FS_CardinalityType
<1>2. \A i \in K : Cardinality(Upto(i)) # 0
  <2> SUFFICES ASSUME NEW i \in K
               PROVE  Cardinality(Upto(i)) # 0
    OBVIOUS
  <2>1. i \in Upto(i)
    OBVIOUS
  <2>2. Upto(i) # {}
    BY <2>1
  <2> QED
    BY <1>1, <2>2, FS_EmptySet
<1>3. Cardinality(K) \in Nat
  BY FS_CardinalityType
<1>4. \A i \in K : Rank(K, i) \in 1..Cardinality(K)
  BY <1>1, <1>2, <1>3 DEF Rank
<1>5. ASSUME NEW i \in K, NEW j \in K, i < j
      PROVE  Rank(K, i) < Rank(K, j)
  <2> i \in Nat /\ j \in Nat
    OBVIOUS
  <2>1. Upto(i) \in SUBSET Upto(j)
    <3>1. \A k \in K : k =< i => k =< j
      BY <1>5
    <3> QED
      BY <3>1
  <2>2. j \in Upto(j) /\ j \notin Upto(i)
    BY <1>5
  <2>3. Upto(i) # Upto(j)
    BY <2>2
  <2>4. /\ Cardinality(Upto(i)) =< Cardinality(Upto(j))
        /\ Cardinality(Upto(j)) = Cardinality(Upto(i)) => Upto(j) = Upto(i)
    BY <1>1, <2>1, FS_Subset
  <2>5. Cardinality(Upto(i)) # Cardinality(Upto(j))
    BY <2>3, <2>4
  <2>6. Cardinality(Upto(i)) \in Nat /\ Cardinality(Upto(j)) \in Nat
    BY <1>1
  <2>7. Cardinality(Upto(i)) < Cardinality(Upto(j))
    BY <2>4, <2>5, <2>6
  <2> QED
    BY <2>7 DEF Rank
<1> QED
  BY <1>4, <1>5

\* Every rank is taken, so Nth finds a position.
LEMMA NthProperties ==
    ASSUME NEW K, IsFiniteSet(K), K \subseteq Nat, NEW j \in 1..Cardinality(K)
    PROVE  Nth(K, j) \in K /\ Rank(K, Nth(K, j)) = j
<1> DEFINE n == Cardinality(K)
           f == [i \in K |-> Rank(K, i)]
<1>1. n \in Nat
  BY FS_CardinalityType
<1>2. f \in [K -> 1..n]
  BY RankProperties
<1>3. \A a, b \in K : f[a] = f[b] => a = b
  <2> SUFFICES ASSUME NEW a \in K, NEW b \in K, a # b
               PROVE  f[a] # f[b]
    OBVIOUS
  <2>1. a < b \/ b < a
    OBVIOUS
  <2>2. f[a] \in Nat /\ f[b] \in Nat
    BY <1>1, <1>2
  <2>3. f[a] < f[b] \/ f[b] < f[a]
    BY <2>1, RankProperties
  <2> QED
    BY <2>2, <2>3
<1>4. f \in Injection(K, 1..n)
  BY <1>2, <1>3 DEF Injection, IsInjective
<1>5. IsFiniteSet(1..n) /\ Cardinality(1..n) = n
  BY <1>1, FS_Interval
<1>6. f \in Surjection(K, 1..n)
  BY <1>4, <1>5, FS_Injection
<1>7. \E i \in K : f[i] = j
  BY <1>6 DEF Surjection
<1>8. \E i \in K : Rank(K, i) = j
  BY <1>7
<1> QED
  BY <1>8 DEF Nth

\* What retain keeps: only entries of the queue, none of them in D, and in their
\* order.
THEOREM WithoutProperties ==
    ASSUME NEW S, NEW s \in Seq(S), NEW D
    PROVE  /\ Without(s, D) \in Seq(S \ D)
           /\ Len(Without(s, D)) = Cardinality(Kept(s, D))
           /\ \A j \in 1..Len(Without(s, D)) :
                 /\ Nth(Kept(s, D), j) \in Kept(s, D)
                 /\ Without(s, D)[j] = s[Nth(Kept(s, D), j)]
<1> DEFINE K == Kept(s, D)
           n == Cardinality(K)
<1>1. /\ K \subseteq 1..Len(s)
      /\ IsFiniteSet(K)
      /\ n \in Nat
  BY KeptFinite
<1>2. K \subseteq Nat
  BY <1>1, LenProperties
<1>3. \A j \in 1..n : Nth(K, j) \in K
  BY <1>1, <1>2, NthProperties
<1>4. \A i \in K : s[i] \in S \ D
  BY <1>1, ElementOfSeq DEF Kept
<1>5. Without(s, D) = [j \in 1..n |-> s[Nth(K, j)]]
  BY DEF Without
<1>6. \A j \in 1..n : s[Nth(K, j)] \in S \ D
  BY <1>3, <1>4
<1>7. Without(s, D) \in Seq(S \ D)
  <2> HIDE DEF K, n
  <2>1. [j \in 1..n |-> s[Nth(K, j)]] \in Seq(S \ D)
    BY <1>1, <1>6, IsASeq
  <2> QED
    BY <1>5, <2>1
<1>8. Len(Without(s, D)) = n
  <2> HIDE DEF K, n
  <2>1. DOMAIN Without(s, D) = 1..n
    BY <1>5
  <2> QED
    BY <1>1, <1>7, <2>1, LenProperties
<1> QED
  BY <1>3, <1>5, <1>7, <1>8

\* The length of what retain keeps, and its entry of each rank.
LEMMA WithoutEntry ==
    ASSUME NEW S, NEW s \in Seq(S), NEW D
    PROVE  /\ Len(Without(s, D)) = Cardinality(Kept(s, D))
           /\ \A j \in 1..Cardinality(Kept(s, D)) : Nth(Kept(s, D), j) \in Kept(s, D)
           /\ \A j \in 1..Cardinality(Kept(s, D)) :
                 Without(s, D)[j] = s[Nth(Kept(s, D), j)]
<1>1. IsFiniteSet(Kept(s, D)) /\ Kept(s, D) \subseteq Nat
  BY KeptFinite, LenProperties
<1>2. Len(Without(s, D)) = Cardinality(Kept(s, D))
  BY WithoutProperties
<1>3. \A j \in 1..Cardinality(Kept(s, D)) : Nth(Kept(s, D), j) \in Kept(s, D)
  BY <1>1, NthProperties
<1>4. \A j \in 1..Cardinality(Kept(s, D)) : Without(s, D)[j] = s[Nth(Kept(s, D), j)]
  BY DEF Without
<1> QED
  BY <1>2, <1>3, <1>4

\* A later rank belongs to a later position.
LEMMA NthIncreases ==
    ASSUME NEW K, IsFiniteSet(K), K \subseteq Nat,
           NEW i \in 1..Cardinality(K), NEW j \in 1..Cardinality(K), i < j
    PROVE  Nth(K, i) < Nth(K, j)
<1>1. /\ Nth(K, i) \in K /\ Rank(K, Nth(K, i)) = i
      /\ Nth(K, j) \in K /\ Rank(K, Nth(K, j)) = j
  BY NthProperties
<1>2. Cardinality(K) \in Nat
  BY FS_CardinalityType
<1>3. i \in Nat /\ j \in Nat
  BY <1>2
<1>4. Nth(K, i) # Nth(K, j)
  BY <1>1, <1>3
<1>5. ~(Nth(K, j) < Nth(K, i))
  <2>1. SUFFICES ASSUME Nth(K, j) < Nth(K, i) PROVE FALSE
    OBVIOUS
  <2>2. Rank(K, Nth(K, j)) < Rank(K, Nth(K, i))
    BY <1>1, <2>1, RankProperties
  <2> QED
    BY <1>1, <1>3, <2>2
<1>6. Nth(K, i) \in Nat /\ Nth(K, j) \in Nat
  BY <1>1
<1> QED
  BY <1>4, <1>5, <1>6

\* f lists the n positions of K in increasing order.
Lists(f, n, K) ==
    /\ n \in Nat
    /\ f \in [1..n -> K]
    /\ \A i, j \in 1..n : i < j => f[i] < f[j]
    /\ \A k \in K : \E j \in 1..n : f[j] = k

\* Whatever lists the positions of K in increasing order lists them by rank.
LEMMA Enumeration ==
    ASSUME NEW K, IsFiniteSet(K), K \subseteq Nat, NEW f, NEW n, Lists(f, n, K)
    PROVE  /\ Cardinality(K) = n
           /\ \A j \in 1..n : Nth(K, j) = f[j]
<1> n \in Nat /\ f \in [1..n -> K]
  BY DEF Lists
<1> /\ \A i, j \in 1..n : i < j => f[i] < f[j]
    /\ \A k \in K : \E j \in 1..n : f[j] = k
  BY DEF Lists
<1>1. \A i, j \in 1..n : f[i] = f[j] => i = j
  <2> SUFFICES ASSUME NEW i \in 1..n, NEW j \in 1..n, i # j
               PROVE  f[i] # f[j]
    OBVIOUS
  <2>1. i < j \/ j < i
    OBVIOUS
  <2>2. f[i] < f[j] \/ f[j] < f[i]
    BY <2>1
  <2>3. f[i] \in Nat /\ f[j] \in Nat
    OBVIOUS
  <2> QED
    BY <2>2, <2>3
<1>2. f \in Bijection(1..n, K)
  BY <1>1 DEF Bijection, Injection, Surjection, IsInjective
<1>3. IsFiniteSet(1..n) /\ Cardinality(1..n) = n
  BY FS_Interval
<1>4. Cardinality(K) = n
  <2>1. ExistsBijection(1..n, K)
    BY <1>2 DEF ExistsBijection
  <2> QED
    BY <1>3, <2>1, FS_Bijection
<1>5. ASSUME NEW j \in 1..n
      PROVE  Rank(K, f[j]) = j
  <2> DEFINE U == {k \in K : k =< f[j]}
             g == [i \in 1..j |-> f[i]]
  <2>1. j \in Nat /\ 1..j \subseteq 1..n
    OBVIOUS
  <2>2. \A i \in 1..n : f[i] =< f[j] <=> i =< j
    <3> SUFFICES ASSUME NEW i \in 1..n PROVE f[i] =< f[j] <=> i =< j
      OBVIOUS
    <3>1. f[i] \in Nat /\ f[j] \in Nat
      OBVIOUS
    <3>2. CASE i < j
      <4>1. f[i] < f[j]
        BY <3>2
      <4> QED
        BY <3>1, <3>2, <4>1
    <3>3. CASE i = j
      BY <3>1, <3>3
    <3>4. CASE j < i
      <4>1. f[j] < f[i]
        BY <3>4
      <4> QED
        BY <3>1, <3>4, <4>1
    <3> QED
      BY <3>2, <3>3, <3>4
  <2>3. g \in [1..j -> U]
    <3>1. \A i \in 1..j : f[i] \in K /\ f[i] =< f[j]
      BY <2>1, <2>2
    <3> QED
      BY <3>1
  <2>4. \A a, b \in 1..j : g[a] = g[b] => a = b
    BY <1>1, <2>1
  <2>5. \A k \in U : \E i \in 1..j : g[i] = k
    <3> SUFFICES ASSUME NEW k \in U PROVE \E i \in 1..j : g[i] = k
      OBVIOUS
    <3>1. PICK i \in 1..n : f[i] = k
      OBVIOUS
    <3>2. i \in 1..j
      BY <2>2, <3>1
    <3> QED
      BY <3>1, <3>2
  <2>6. g \in Bijection(1..j, U)
    BY <2>3, <2>4, <2>5 DEF Bijection, Injection, Surjection, IsInjective
  <2>7. IsFiniteSet(1..j) /\ Cardinality(1..j) = j
    BY <2>1, FS_Interval
  <2>8. Cardinality(U) = j
    <3> HIDE DEF U, g
    <3>1. ExistsBijection(1..j, U)
      BY <2>6 DEF ExistsBijection
    <3> QED
      BY <2>7, <3>1, FS_Bijection
  <2> QED
    BY <2>8 DEF Rank
<1>6. ASSUME NEW j \in 1..n
      PROVE  Nth(K, j) = f[j]
  <2>1. j \in 1..Cardinality(K)
    BY <1>4
  <2>2. Nth(K, j) \in K /\ Rank(K, Nth(K, j)) = j
    BY <2>1, NthProperties
  <2>3. PICK i \in 1..n : f[i] = Nth(K, j)
    BY <2>2
  <2>4. i = j
    BY <1>5, <2>2, <2>3
  <2> QED
    BY <2>3, <2>4
<1> QED
  BY <1>4, <1>6

\* So a queue that lists the kept entries in increasing order of their positions is
\* what retain leaves.
LEMMA WithoutEnumerated ==
    ASSUME NEW S, NEW s \in Seq(S), NEW D, NEW f, NEW n, Lists(f, n, Kept(s, D))
    PROVE  /\ Len(Without(s, D)) = n
           /\ \A j \in 1..n : Without(s, D)[j] = s[f[j]]
<1> DEFINE K == Kept(s, D)
<1>1. IsFiniteSet(K) /\ K \subseteq Nat
  BY KeptFinite, LenProperties
<1>2. Cardinality(K) = n /\ \A j \in 1..n : Nth(K, j) = f[j]
  BY <1>1, Enumeration
<1>3. /\ Len(Without(s, D)) = Cardinality(K)
      /\ \A j \in 1..Cardinality(K) : Without(s, D)[j] = s[Nth(K, j)]
  BY WithoutEntry
<1> HIDE DEF K
<1> QED
  BY <1>2, <1>3

\* Every position of K is the position of some rank.
LEMMA NthOnto ==
    ASSUME NEW K, IsFiniteSet(K), K \subseteq Nat, NEW k \in K
    PROVE  \E j \in 1..Cardinality(K) : Nth(K, j) = k
<1> DEFINE j == Rank(K, k)
<1>1. j \in 1..Cardinality(K)
  BY RankProperties
<1>2. Nth(K, j) \in K /\ Rank(K, Nth(K, j)) = j
  BY <1>1, NthProperties
<1>3. Cardinality(K) \in Nat
  BY FS_CardinalityType
<1>4. j \in Nat
  BY <1>1, <1>3
<1>5. Nth(K, j) = k
  <2>1. Nth(K, j) < k => Rank(K, Nth(K, j)) < Rank(K, k)
    BY <1>2, RankProperties
  <2>2. k < Nth(K, j) => Rank(K, k) < Rank(K, Nth(K, j))
    BY <1>2, RankProperties
  <2>3. Nth(K, j) \in Nat /\ k \in Nat
    BY <1>2
  <2> HIDE DEF j
  <2>4. ~(Nth(K, j) < k) /\ ~(k < Nth(K, j))
    BY <1>2, <1>4, <2>1, <2>2 DEF j
  <2> QED
    BY <2>3, <2>4
<1> QED
  BY <1>1, <1>5

\* A queue over a part of S is a queue over S.
LEMMA SeqWidens ==
    ASSUME NEW S, NEW D, NEW s \in Seq(S \ D)
    PROVE  s \in Seq(S)
  OBVIOUS

\* What retain keeps of the empty queue.
LEMMA WithoutEmpty ==
    ASSUME NEW D
    PROVE  Without(<<>>, D) = <<>>
<1>1. <<>> \in Seq({}) /\ Len(<<>>) = 0
  BY EmptySeq
<1>2. Kept(<<>>, D) = {}
  BY <1>1 DEF Kept
<1>3. Cardinality(Kept(<<>>, D)) = 0
  BY <1>2, FS_EmptySet
<1>4. Without(<<>>, D) \in Seq({} \ D) /\ Len(Without(<<>>, D)) = 0
  BY <1>1, <1>3, WithoutProperties
<1> QED
  BY <1>4, EmptySeq

\* An entry that is dropped anyway adds nothing at the end of the queue.
LEMMA WithoutAppendDropped ==
    ASSUME NEW S, NEW s \in Seq(S), NEW D, NEW x \in S, x \in D
    PROVE  Without(Append(s, x), D) = Without(s, D)
<1> DEFINE r == Append(s, x)
           K == Kept(s, D)
<1>1. /\ r \in Seq(S) /\ Len(r) = Len(s) + 1 /\ Len(s) \in Nat
      /\ \A i \in 1..Len(s) : r[i] = s[i]
      /\ r[Len(s) + 1] = x
  BY AppendProperties, LenProperties
<1>2. Kept(r, D) = K
  <2> HIDE DEF r
  <2>1. \A i \in 1..Len(r) : r[i] \notin D <=> i \in 1..Len(s) /\ s[i] \notin D
    BY <1>1
  <2>2. \A i \in 1..Len(s) : i \in 1..Len(r)
    BY <1>1
  <2> QED
    BY <2>1, <2>2 DEF Kept
<1>3. K \subseteq 1..Len(s) /\ IsFiniteSet(K) /\ K \subseteq Nat
  BY KeptFinite, LenProperties
<1>4. \A j \in 1..Cardinality(K) : r[Nth(K, j)] = s[Nth(K, j)]
  <2> HIDE DEF r, K
  <2>1. \A j \in 1..Cardinality(K) : Nth(K, j) \in K
    BY <1>3, NthProperties
  <2> QED
    BY <1>1, <1>3, <2>1
<1>5. Without(r, D) = [j \in 1..Cardinality(K) |-> r[Nth(K, j)]]
  BY <1>2 DEF Without
<1>6. Without(s, D) = [j \in 1..Cardinality(K) |-> s[Nth(K, j)]]
  BY DEF Without
<1> HIDE DEF r, K
<1>7. Without(r, D) = Without(s, D)
  BY <1>4, <1>5, <1>6
<1> QED
  BY <1>7 DEF r

\* An entry that is kept ends the queue of the kept entries too.
LEMMA WithoutAppendKept ==
    ASSUME NEW S, NEW s \in Seq(S), NEW D, NEW x \in S, x \notin D
    PROVE  Without(Append(s, x), D) = Append(Without(s, D), x)
<1> DEFINE r == Append(s, x)
           w == Without(s, D)
           K == Kept(s, D)
           L == Kept(r, D)
           n == Len(w) + 1
           f == [j \in 1..n |-> IF j = n THEN Len(s) + 1 ELSE Nth(K, j)]
<1>1. /\ r \in Seq(S) /\ Len(r) = Len(s) + 1 /\ Len(s) \in Nat
      /\ \A i \in 1..Len(s) : r[i] = s[i]
      /\ r[Len(s) + 1] = x
  BY AppendProperties, LenProperties
<1>2. K \subseteq 1..Len(s) /\ IsFiniteSet(K) /\ K \subseteq Nat
  BY KeptFinite, LenProperties
<1>3. /\ w \in Seq(S \ D) /\ Len(w) = Cardinality(K) /\ Len(w) \in Nat
      /\ \A j \in 1..Len(w) : Nth(K, j) \in K
      /\ \A j \in 1..Len(w) : w[j] = s[Nth(K, j)]
  <2>1. w \in Seq(S \ D)
    BY WithoutProperties
  <2>2. Len(w) \in Nat
    BY <2>1, LenProperties
  <2> QED
    BY <2>1, <2>2, WithoutEntry
<1>4. L = K \cup {Len(s) + 1}
  <2> HIDE DEF r
  <2>1. \A i \in 1..Len(r) : r[i] \notin D
                               <=> (i \in 1..Len(s) /\ s[i] \notin D) \/ i = Len(s) + 1
    BY <1>1
  <2>2. \A i : i \in 1..Len(s) \/ i = Len(s) + 1 => i \in 1..Len(r)
    BY <1>1
  <2> QED
    BY <2>1, <2>2 DEF Kept
<1> HIDE DEF r, w, K, L
<1>5. n \in Nat /\ \A j \in 1..n : j # n => j \in 1..Len(w)
  BY <1>3
<1>6. f \in [1..n -> L]
  BY <1>3, <1>4, <1>5
<1>7. \A i, j \in 1..n : i < j => f[i] < f[j]
  <2> SUFFICES ASSUME NEW i \in 1..n, NEW j \in 1..n, i < j
               PROVE  f[i] < f[j]
    OBVIOUS
  <2>1. i # n /\ i \in 1..Len(w) /\ f[i] = Nth(K, i) /\ Nth(K, i) \in 1..Len(s)
    <3>1. i # n
      BY <1>5
    <3>2. i \in 1..Len(w)
      BY <1>5, <3>1
    <3>3. Nth(K, i) \in 1..Len(s)
      BY <1>2, <1>3, <3>2
    <3> QED
      BY <3>1, <3>2, <3>3
  <2>2. CASE j = n
    <3>1. f[j] = Len(s) + 1
      BY <2>2
    <3> QED
      BY <1>1, <2>1, <3>1
  <2>3. CASE j # n
    <3>1. j \in 1..Len(w) /\ f[j] = Nth(K, j)
      BY <1>5, <2>3
    <3>2. i \in 1..Cardinality(K) /\ j \in 1..Cardinality(K)
      BY <1>3, <2>1, <3>1
    <3>3. Nth(K, i) < Nth(K, j)
      BY <1>2, <3>2, NthIncreases
    <3> QED
      BY <2>1, <3>1, <3>3
  <2> QED
    BY <2>2, <2>3
<1>8. \A k \in L : \E j \in 1..n : f[j] = k
  <2> SUFFICES ASSUME NEW k \in L PROVE \E j \in 1..n : f[j] = k
    OBVIOUS
  <2>1. CASE k = Len(s) + 1
    <3>1. n \in 1..n /\ f[n] = k
      BY <1>5, <2>1
    <3> QED
      BY <3>1
  <2>2. CASE k \in K
    <3>1. PICK j \in 1..Cardinality(K) : Nth(K, j) = k
      BY <1>2, <2>2, NthOnto
    <3>2. j \in 1..n /\ j # n
      BY <1>3, <3>1
    <3>3. f[j] = k
      BY <3>1, <3>2
    <3> QED
      BY <3>2, <3>3
  <2> QED
    BY <1>4, <2>1, <2>2
<1>9. /\ Len(Without(r, D)) = n
      /\ \A j \in 1..n : Without(r, D)[j] = r[f[j]]
  <2>1. Lists(f, n, L)
    BY <1>5, <1>6, <1>7, <1>8 DEF Lists
  <2> HIDE DEF n, f
  <2>2. Lists(f, n, Kept(r, D)) /\ r \in Seq(S)
    BY <1>1, <2>1 DEF L
  <2> QED
    BY <2>2, WithoutEnumerated
<1>10. \A j \in 1..n : Without(r, D)[j] = IF j = n THEN x ELSE w[j]
  <2> SUFFICES ASSUME NEW j \in 1..n
               PROVE  Without(r, D)[j] = IF j = n THEN x ELSE w[j]
    OBVIOUS
  <2>1. CASE j = n
    BY <1>1, <1>9, <2>1
  <2>2. CASE j # n
    <3>1. j \in 1..Len(w) /\ f[j] = Nth(K, j) /\ Nth(K, j) \in 1..Len(s)
      BY <1>2, <1>3, <1>5, <2>2
    <3> QED
      BY <1>1, <1>3, <1>9, <2>2, <3>1
  <2> QED
    BY <2>1, <2>2
<1>11. w \in Seq(S) /\ Without(r, D) \in Seq(S)
  <2>1. Without(r, D) \in Seq(S \ D)
    BY <1>1, WithoutProperties
  <2> QED
    BY <1>3, <2>1, SeqWidens
<1>12. /\ Append(w, x) \in Seq(S) /\ Len(Append(w, x)) = n
       /\ \A j \in 1..n : Append(w, x)[j] = IF j = n THEN x ELSE w[j]
  <2>1. /\ Append(w, x) \in Seq(S) /\ Len(Append(w, x)) = Len(w) + 1
        /\ \A i \in 1..Len(w) : Append(w, x)[i] = w[i]
        /\ Append(w, x)[Len(w) + 1] = x
    BY <1>11, AppendProperties
  <2> QED
    BY <1>5, <2>1
<1>13. Without(r, D) = Append(w, x)
  <2> HIDE DEF n, f
  <2>1. \A j \in 1..Len(Without(r, D)) : Without(r, D)[j] = Append(w, x)[j]
    BY <1>9, <1>10, <1>12
  <2>2. Len(Without(r, D)) = Len(Append(w, x))
    BY <1>9, <1>12
  <2> QED
    BY <1>11, <1>12, <2>1, <2>2, SeqEqual
<1> QED
  BY <1>13 DEF r, w

\* Two queues that hold the same kept entries at the same positions.
LEMMA WithoutSame ==
    ASSUME NEW S, NEW s \in Seq(S), NEW r \in Seq(S), NEW D, Len(r) = Len(s),
           \A i \in 1..Len(s) : s[i] = r[i] \/ (s[i] \in D /\ r[i] \in D)
    PROVE  Without(r, D) = Without(s, D)
<1> DEFINE K == Kept(s, D)
<1>1. Kept(r, D) = K
  BY DEF Kept
<1>2. K \subseteq 1..Len(s) /\ IsFiniteSet(K) /\ K \subseteq Nat
  BY KeptFinite, LenProperties
<1>3. \A k \in K : r[k] = s[k]
  BY DEF Kept
<1>4. \A j \in 1..Cardinality(K) : Nth(K, j) \in K
  <2> HIDE DEF K
  <2> QED
    BY <1>2, NthProperties
<1>5. Without(r, D) = [j \in 1..Cardinality(K) |-> r[Nth(K, j)]]
  BY <1>1 DEF Without
<1>6. Without(s, D) = [j \in 1..Cardinality(K) |-> s[Nth(K, j)]]
  BY DEF Without
<1> HIDE DEF K
<1>7. [j \in 1..Cardinality(K) |-> r[Nth(K, j)]]
        = [j \in 1..Cardinality(K) |-> s[Nth(K, j)]]
  BY <1>3, <1>4
<1> QED
  BY <1>5, <1>6, <1>7

\* Dropping a part of D first changes nothing of what dropping D leaves.
LEMMA WithoutPart ==
    ASSUME NEW S, NEW s \in Seq(S), NEW D, NEW E, E \subseteq D
    PROVE  Without(Without(s, E), D) = Without(s, D)
<1> DEFINE w == Without(s, E)
           K == Kept(s, E)
           M == Kept(s, D)
           L == Kept(w, D)
           n == Cardinality(L)
           f == [j \in 1..n |-> Nth(K, Nth(L, j))]
<1>1. /\ K \subseteq 1..Len(s) /\ IsFiniteSet(K) /\ K \subseteq Nat
      /\ M \subseteq 1..Len(s) /\ M \subseteq Nat
  BY KeptFinite, LenProperties
<1>2. w \in Seq(S \ E) /\ w \in Seq(S)
  <2>1. w \in Seq(S \ E)
    BY WithoutProperties
  <2> QED
    BY <2>1, SeqWidens
<1>3. /\ Len(w) = Cardinality(K) /\ Len(w) \in Nat
      /\ \A j \in 1..Len(w) : Nth(K, j) \in K
      /\ \A j \in 1..Len(w) : w[j] = s[Nth(K, j)]
  <2>1. Len(w) \in Nat
    BY <1>2, LenProperties
  <2> QED
    BY <2>1, WithoutEntry
<1>4. L \subseteq 1..Len(w) /\ IsFiniteSet(L) /\ L \subseteq Nat /\ n \in Nat
  <2> HIDE DEF w
  <2> QED
    BY <1>2, KeptFinite, LenProperties
<1>5. \A k \in M : k \in K
  BY DEF Kept
<1>6. \A j \in 1..Len(w) : j \in L <=> Nth(K, j) \in M
  <2> HIDE DEF w, K
  <2> SUFFICES ASSUME NEW j \in 1..Len(w) PROVE j \in L <=> Nth(K, j) \in M
    OBVIOUS
  <2>1. Nth(K, j) \in 1..Len(s) /\ w[j] = s[Nth(K, j)]
    BY <1>1, <1>3
  <2> QED
    BY <2>1 DEF Kept
<1> HIDE DEF w, K, M, L, n
<1>7. \A j \in 1..n : Nth(L, j) \in L /\ Nth(L, j) \in 1..Len(w)
  BY <1>4, NthProperties DEF n
<1>8. Lists(f, n, M)
  <2>1. f \in [1..n -> M]
    BY <1>6, <1>7
  <2>2. ASSUME NEW i \in 1..n, NEW j \in 1..n, i < j
        PROVE  f[i] < f[j]
    <3>1. Nth(L, i) < Nth(L, j)
      BY <1>4, <2>2, NthIncreases DEF n
    <3>2. Nth(L, i) \in 1..Cardinality(K) /\ Nth(L, j) \in 1..Cardinality(K)
      BY <1>3, <1>7
    <3>3. Nth(K, Nth(L, i)) < Nth(K, Nth(L, j))
      BY <1>1, <3>1, <3>2, NthIncreases
    <3> QED
      BY <3>3
  <2>3. ASSUME NEW k \in M
        PROVE  \E j \in 1..n : f[j] = k
    <3>1. PICK i \in 1..Cardinality(K) : Nth(K, i) = k
      BY <1>1, <1>5, NthOnto
    <3>2. i \in L
      BY <1>3, <1>6, <3>1
    <3>3. PICK j \in 1..n : Nth(L, j) = i
      BY <1>4, <3>2, NthOnto DEF n
    <3>4. f[j] = k
      BY <3>1, <3>3
    <3> QED
      BY <3>4
  <2> QED
    BY <1>4, <2>1, <2>2, <2>3 DEF Lists
<1>9. Len(Without(s, D)) = n /\ \A j \in 1..n : Without(s, D)[j] = s[f[j]]
  <2> HIDE DEF f
  <2>1. Lists(f, n, Kept(s, D))
    BY <1>8 DEF M
  <2> QED
    BY <2>1, WithoutEnumerated
<1>10. Len(Without(w, D)) = n /\ \A j \in 1..n : Without(w, D)[j] = w[Nth(L, j)]
  BY <1>2, WithoutEntry DEF L, n
<1>11. \A j \in 1..n : Without(w, D)[j] = Without(s, D)[j]
  BY <1>3, <1>7, <1>9, <1>10
<1>12. Without(w, D) \in Seq(S) /\ Without(s, D) \in Seq(S)
  <2>1. Without(w, D) \in Seq(S \ D) /\ Without(s, D) \in Seq(S \ D)
    BY <1>2, WithoutProperties
  <2> QED
    BY <2>1, SeqWidens
<1>13. Without(w, D) = Without(s, D)
  <2>1. Len(Without(w, D)) = Len(Without(s, D))
    BY <1>9, <1>10
  <2>2. \A j \in 1..Len(Without(w, D)) : Without(w, D)[j] = Without(s, D)[j]
    BY <1>10, <1>11
  <2> QED
    BY <1>12, <2>1, <2>2, SeqEqual
<1> QED
  BY <1>13 DEF w

\* Taking a dropped entry off the front changes nothing of what is kept.
LEMMA WithoutTailDropped ==
    ASSUME NEW S, NEW s \in Seq(S), NEW D, s # <<>>, Head(s) \in D
    PROVE  Without(Tail(s), D) = Without(s, D)
<1> DEFINE r == Tail(s)
           w == Without(s, D)
           K == Kept(s, D)
           n == Len(w)
           f == [j \in 1..n |-> Nth(K, j) - 1]
<1>1. /\ r \in Seq(S) /\ Len(s) \in Nat /\ Len(s) # 0 /\ Len(r) = Len(s) - 1
      /\ \A i \in 1..Len(r) : r[i] = s[i + 1]
      /\ s[1] \in D
  BY HeadTailProperties, LenProperties, EmptySeq
<1>2. K \subseteq 1..Len(s) /\ IsFiniteSet(K) /\ K \subseteq Nat
  BY KeptFinite, LenProperties
<1>3. /\ w \in Seq(S \ D) /\ n = Cardinality(K) /\ n \in Nat
      /\ \A j \in 1..n : Nth(K, j) \in K
      /\ \A j \in 1..n : w[j] = s[Nth(K, j)]
  <2>1. w \in Seq(S \ D)
    BY WithoutProperties
  <2>2. n \in Nat
    BY <2>1, LenProperties
  <2> QED
    BY <2>1, <2>2, WithoutEntry
<1>4. \A k \in K : k # 1
  BY <1>1 DEF Kept
<1>5. \A k \in 1..Len(s) : k # 1 => (k \in K <=> k - 1 \in Kept(r, D))
  <2> HIDE DEF r
  <2> SUFFICES ASSUME NEW k \in 1..Len(s), k # 1
               PROVE  k \in K <=> k - 1 \in Kept(r, D)
    OBVIOUS
  <2>1. k - 1 \in 1..Len(r) /\ (k - 1) + 1 = k
    BY <1>1
  <2>2. r[k - 1] = s[k]
    BY <1>1, <2>1
  <2> QED
    BY <2>1, <2>2 DEF Kept
<1>6. \A i \in Kept(r, D) : i + 1 \in K /\ i \in Nat
  <2> HIDE DEF r
  <2> SUFFICES ASSUME NEW i \in Kept(r, D) PROVE i + 1 \in K /\ i \in Nat
    OBVIOUS
  <2>1. i \in 1..Len(r) /\ r[i] \notin D
    BY DEF Kept
  <2>2. i + 1 \in 1..Len(s) /\ s[i + 1] = r[i] /\ i \in Nat
    BY <1>1, <2>1
  <2> QED
    BY <2>1, <2>2 DEF Kept
<1> HIDE DEF r, w, K, n
<1>7. Lists(f, n, Kept(r, D))
  <2>1. f \in [1..n -> Kept(r, D)]
    <3>1. \A j \in 1..n : Nth(K, j) \in 1..Len(s) /\ Nth(K, j) # 1
      BY <1>2, <1>3, <1>4
    <3>2. \A j \in 1..n : Nth(K, j) - 1 \in Kept(r, D)
      BY <1>3, <1>5, <3>1
    <3> QED
      BY <3>2
  <2>2. ASSUME NEW i \in 1..n, NEW j \in 1..n, i < j
        PROVE  f[i] < f[j]
    <3>1. i \in 1..Cardinality(K) /\ j \in 1..Cardinality(K)
      BY <1>3
    <3>2. Nth(K, i) < Nth(K, j)
      BY <1>2, <2>2, <3>1, NthIncreases
    <3>3. Nth(K, i) \in Nat /\ Nth(K, j) \in Nat
      BY <1>2, <1>3
    <3> QED
      BY <3>2, <3>3
  <2>3. ASSUME NEW i \in Kept(r, D)
        PROVE  \E j \in 1..n : f[j] = i
    <3>1. i + 1 \in K /\ i \in Nat
      BY <1>6
    <3>2. PICK j \in 1..Cardinality(K) : Nth(K, j) = i + 1
      BY <1>2, <3>1, NthOnto
    <3>3. j \in 1..n
      BY <1>3
    <3>4. f[j] = i
      BY <3>1, <3>2, <3>3
    <3> QED
      BY <3>3, <3>4
  <2> QED
    BY <1>3, <2>1, <2>2, <2>3 DEF Lists
<1>8. Len(Without(r, D)) = n /\ \A j \in 1..n : Without(r, D)[j] = r[f[j]]
  <2> HIDE DEF f
  <2> QED
    BY <1>1, <1>7, WithoutEnumerated
<1>9. \A j \in 1..n : Without(r, D)[j] = w[j]
  <2> SUFFICES ASSUME NEW j \in 1..n PROVE Without(r, D)[j] = w[j]
    OBVIOUS
  <2>1. Nth(K, j) \in 1..Len(s) /\ Nth(K, j) # 1
    BY <1>2, <1>3, <1>4
  <2>2. r[Nth(K, j) - 1] = s[Nth(K, j)]
    <3>1. Nth(K, j) - 1 \in 1..Len(r) /\ (Nth(K, j) - 1) + 1 = Nth(K, j)
      BY <1>1, <2>1
    <3> QED
      BY <1>1, <3>1
  <2> QED
    BY <1>3, <1>8, <2>2
<1>10. w \in Seq(S) /\ Without(r, D) \in Seq(S)
  <2>1. Without(r, D) \in Seq(S \ D)
    BY <1>1, WithoutProperties
  <2> QED
    BY <1>3, <2>1, SeqWidens
<1>11. Without(r, D) = w
  BY <1>8, <1>9, <1>10, SeqEqual DEF n
<1> QED
  BY <1>11 DEF r, w

\* A kept entry at the front is the front of what is kept.
LEMMA WithoutTailKept ==
    ASSUME NEW S, NEW s \in Seq(S), NEW D, s # <<>>, Head(s) \notin D
    PROVE  /\ Without(s, D) # <<>>
           /\ Head(Without(s, D)) = Head(s)
           /\ Without(Tail(s), D) = Tail(Without(s, D))
<1> DEFINE r == Tail(s)
           w == Without(s, D)
           K == Kept(s, D)
           n == Len(w) - 1
           f == [j \in 1..n |-> Nth(K, j + 1) - 1]
<1>1. /\ r \in Seq(S) /\ Len(s) \in Nat /\ Len(s) # 0 /\ Len(r) = Len(s) - 1
      /\ \A i \in 1..Len(r) : r[i] = s[i + 1]
      /\ s[1] = Head(s)
  BY HeadTailProperties, LenProperties, EmptySeq
<1>2. K \subseteq 1..Len(s) /\ IsFiniteSet(K) /\ K \subseteq Nat
  BY KeptFinite, LenProperties
<1>3. /\ w \in Seq(S \ D) /\ Len(w) = Cardinality(K) /\ Len(w) \in Nat
      /\ \A j \in 1..Len(w) : Nth(K, j) \in K
      /\ \A j \in 1..Len(w) : w[j] = s[Nth(K, j)]
  <2>1. w \in Seq(S \ D)
    BY WithoutProperties
  <2>2. Len(w) \in Nat
    BY <2>1, LenProperties
  <2> QED
    BY <2>1, <2>2, WithoutEntry
<1>4. 1 \in K
  BY <1>1 DEF Kept
<1>5. \A k \in 1..Len(s) : k # 1 => (k \in K <=> k - 1 \in Kept(r, D))
  <2> HIDE DEF r
  <2> SUFFICES ASSUME NEW k \in 1..Len(s), k # 1
               PROVE  k \in K <=> k - 1 \in Kept(r, D)
    OBVIOUS
  <2>1. k - 1 \in 1..Len(r) /\ (k - 1) + 1 = k
    BY <1>1
  <2>2. r[k - 1] = s[k]
    BY <1>1, <2>1
  <2> QED
    BY <2>1, <2>2 DEF Kept
<1>6. \A i \in Kept(r, D) : i + 1 \in K /\ i \in Nat /\ i # 0
  <2> HIDE DEF r
  <2> SUFFICES ASSUME NEW i \in Kept(r, D) PROVE i + 1 \in K /\ i \in Nat /\ i # 0
    OBVIOUS
  <2>1. i \in 1..Len(r) /\ r[i] \notin D
    BY DEF Kept
  <2>2. i + 1 \in 1..Len(s) /\ s[i + 1] = r[i] /\ i \in Nat
    BY <1>1, <2>1
  <2> QED
    BY <1>1, <2>1, <2>2 DEF Kept
<1> HIDE DEF r, w, K
<1>7. Len(w) # 0 /\ Nth(K, 1) = 1
  <2>1. PICK j \in 1..Cardinality(K) : Nth(K, j) = 1
    BY <1>2, <1>4, NthOnto
  <2>2. 1 \in 1..Cardinality(K) /\ Len(w) # 0
    BY <1>3, <2>1
  <2>3. CASE j # 1
    <3>1. 1 < j
      BY <1>3, <2>1, <2>3
    <3>2. Nth(K, 1) < Nth(K, j)
      BY <1>2, <2>1, <2>2, <3>1, NthIncreases
    <3>3. Nth(K, 1) \in 1..Len(s)
      BY <1>2, <1>3, <2>2
    <3> QED
      BY <2>1, <3>2, <3>3
  <2> QED
    BY <2>1, <2>2, <2>3
<1>8. n \in Nat /\ \A j \in 1..n : j + 1 \in 1..Len(w)
  BY <1>3, <1>7
<1>9. \A j \in 1..n : Nth(K, j + 1) \in 1..Len(s) /\ Nth(K, j + 1) # 1
  <2> SUFFICES ASSUME NEW j \in 1..n
               PROVE  Nth(K, j + 1) \in 1..Len(s) /\ Nth(K, j + 1) # 1
    OBVIOUS
  <2>1. /\ j + 1 \in 1..Cardinality(K) /\ 1 \in 1..Cardinality(K) /\ 1 < j + 1
    BY <1>3, <1>7, <1>8
  <2>2. Nth(K, 1) < Nth(K, j + 1)
    BY <1>2, <2>1, NthIncreases
  <2>3. Nth(K, j + 1) \in 1..Len(s)
    BY <1>2, <1>3, <1>8
  <2> QED
    BY <1>7, <2>2, <2>3
<1>10. Lists(f, n, Kept(r, D))
  <2>1. f \in [1..n -> Kept(r, D)]
    <3>1. \A j \in 1..n : Nth(K, j + 1) - 1 \in Kept(r, D)
      BY <1>3, <1>5, <1>8, <1>9
    <3> QED
      BY <3>1
  <2>2. ASSUME NEW i \in 1..n, NEW j \in 1..n, i < j
        PROVE  f[i] < f[j]
    <3>1. /\ i + 1 \in 1..Cardinality(K) /\ j + 1 \in 1..Cardinality(K)
          /\ i + 1 < j + 1
      BY <1>3, <1>8, <2>2
    <3>2. Nth(K, i + 1) < Nth(K, j + 1)
      BY <1>2, <3>1, NthIncreases
    <3>3. Nth(K, i + 1) \in Nat /\ Nth(K, j + 1) \in Nat
      BY <1>9
    <3> QED
      BY <3>2, <3>3
  <2>3. ASSUME NEW i \in Kept(r, D)
        PROVE  \E j \in 1..n : f[j] = i
    <3>1. i + 1 \in K /\ i \in Nat /\ i # 0
      BY <1>6
    <3>2. PICK j \in 1..Cardinality(K) : Nth(K, j) = i + 1
      BY <1>2, <3>1, NthOnto
    <3>3. j # 1
      BY <1>7, <3>1, <3>2
    <3>4. j - 1 \in 1..n /\ (j - 1) + 1 = j
      BY <1>3, <3>3
    <3>5. f[j - 1] = i
      BY <3>1, <3>2, <3>4
    <3> QED
      BY <3>4, <3>5
  <2> QED
    BY <1>8, <2>1, <2>2, <2>3 DEF Lists
<1>11. Len(Without(r, D)) = n /\ \A j \in 1..n : Without(r, D)[j] = r[f[j]]
  <2> HIDE DEF f, n
  <2> QED
    BY <1>1, <1>10, WithoutEnumerated
<1>12. w \in Seq(S) /\ Without(r, D) \in Seq(S)
  <2>1. Without(r, D) \in Seq(S \ D)
    BY <1>1, WithoutProperties
  <2> QED
    BY <1>3, <2>1, SeqWidens
<1>13. /\ w # <<>> /\ Head(w) = w[1] /\ Tail(w) \in Seq(S) /\ Len(Tail(w)) = n
       /\ \A j \in 1..n : Tail(w)[j] = w[j + 1]
  <2>1. w # <<>>
    BY <1>7, EmptySeq
  <2> QED
    BY <1>12, <2>1, HeadTailProperties
<1>14. \A j \in 1..n : Without(r, D)[j] = Tail(w)[j]
  <2> SUFFICES ASSUME NEW j \in 1..n PROVE Without(r, D)[j] = Tail(w)[j]
    OBVIOUS
  <2>1. r[Nth(K, j + 1) - 1] = s[Nth(K, j + 1)]
    <3>1. Nth(K, j + 1) - 1 \in 1..Len(r) /\ (Nth(K, j + 1) - 1) + 1 = Nth(K, j + 1)
      BY <1>1, <1>9
    <3> QED
      BY <1>1, <3>1
  <2>2. w[j + 1] = s[Nth(K, j + 1)]
    BY <1>3, <1>8
  <2> QED
    BY <1>11, <1>13, <2>1, <2>2
<1>15. Without(r, D) = Tail(w)
  <2> HIDE DEF n, f
  <2>1. Len(Without(r, D)) = Len(Tail(w))
    BY <1>11, <1>13
  <2>2. \A j \in 1..Len(Tail(w)) : Without(r, D)[j] = Tail(w)[j]
    BY <1>13, <1>14
  <2> QED
    BY <1>12, <1>13, <2>1, <2>2, SeqEqual
<1>16. Head(w) = Head(s)
  <2>1. w[1] = s[Nth(K, 1)]
    BY <1>3, <1>7
  <2> QED
    BY <1>1, <1>7, <1>13, <2>1
<1> QED
  BY <1>13, <1>15, <1>16 DEF r, w
===============================================================================
