-------------------------- MODULE BlockListTheorems --------------------------
(***************************************************************************)
(* Facts about the operators of BlockLists: what the lists contain, that   *)
(* they stay free of duplicates, and how long they are.                    *)
(***************************************************************************)
EXTENDS BlockLists, FiniteSetTheorems, TLAPS

\* The number of blocks for a number of tokens is a natural number (cdiv).
LEMMA CdivType ==
  ASSUME NEW a \in Nat, NEW b \in Nat \ {0}
  PROVE  cdiv(a, b) \in Nat
BY DEF cdiv

\* More tokens never need fewer blocks (cdiv).
LEMMA CdivMonotone ==
  ASSUME NEW b \in Nat \ {0}, NEW x \in Nat, NEW y \in Nat, x <= y
  PROVE  cdiv(x, b) <= cdiv(y, b)
BY DEF cdiv

\* The blocks counted for n tokens have room for them (cdiv).
LEMMA CdivCovers ==
  ASSUME NEW a \in Nat, NEW b \in Nat \ {0}
  PROVE  a <= cdiv(a, b) * b
BY DEF cdiv

\* A positive quotient has a positive dividend.
LEMMA DivPositive ==
  ASSUME NEW b \in Nat \ {0}, NEW t \in Int, t \div b > 0
  PROVE  t > 0
<1>1. (t \div b) * b <= t /\ t \div b \in Int
  OBVIOUS
<1> DEFINE q == t \div b
<1>2. q \in Nat \ {0} /\ q * b <= t
  BY <1>1
<1> HIDE DEF q
<1>3. q * b > 0
  BY <1>2
<1>4. q * b \in Int
  BY <1>2
<1> QED BY <1>2, <1>3, <1>4

\* A full block ends within the tokens it was counted from (tokens // size).
LEMMA FullBlockFits ==
  ASSUME NEW b \in Nat \ {0}, NEW t \in Nat, NEW i \in Nat, i <= t \div b
  PROVE  i * b <= t
<1>1. (t \div b) * b <= t /\ t \div b \in Nat
  OBVIOUS
<1>2. i * b <= (t \div b) * b
  BY <1>1
<1> QED BY <1>1, <1>2

\* The domain of a list is finite, and so is any part of it.
LEMMA ListFinite ==
  ASSUME NEW T, NEW s \in Seq(T), NEW K \in SUBSET DOMAIN s
  PROVE  IsFiniteSet(K) /\ Cardinality(K) \in Nat /\ Cardinality(K) <= Len(s)
<1>1. DOMAIN s = 1..Len(s) /\ Len(s) \in Nat
  OBVIOUS
<1>2. IsFiniteSet(DOMAIN s) /\ Cardinality(DOMAIN s) = Len(s)
  <2>1. /\ IsFiniteSet(1..Len(s))
        /\ Cardinality(1..Len(s)) = IF 1 > Len(s) THEN 0 ELSE Len(s) - 1 + 1
    BY <1>1, FS_Interval
  <2> QED BY <1>1, <2>1
<1> QED BY <1>1, <1>2, FS_Subset, FS_CardinalityType

\* Among the kept positions, each has a rank of its own, and the ranks are
\* exactly 1 .. the number of kept positions.
LEMMA RankBijection ==
  ASSUME NEW T, NEW s \in Seq(T), NEW K \in SUBSET DOMAIN s
  PROVE  /\ \A i \in K : Rank(K, i) \in 1..Cardinality(K)
         /\ \A i, j \in K : Rank(K, i) = Rank(K, j) => i = j
         /\ \A k \in 1..Cardinality(K) : \E i \in K : Rank(K, i) = k
<1> DEFINE Below(i) == {j \in K : j <= i}
<1>1. K \subseteq Nat /\ IsFiniteSet(K) /\ Cardinality(K) \in Nat
  BY ListFinite
<1>2. ASSUME NEW i \in K
      PROVE  /\ IsFiniteSet(Below(i))
             /\ Rank(K, i) = Cardinality(Below(i))
             /\ Rank(K, i) \in 1..Cardinality(K)
  <2>1. Below(i) \in SUBSET K /\ i \in Below(i)
    BY <1>1
  <2>2. IsFiniteSet(Below(i)) /\ Cardinality(Below(i)) <= Cardinality(K)
    BY <1>1, <2>1, FS_Subset
  <2>3. Cardinality(Below(i)) \in Nat /\ Cardinality(Below(i)) # 0
    BY <2>1, <2>2, FS_EmptySet, FS_CardinalityType
  <2> QED BY <1>1, <2>2, <2>3 DEF Rank
<1>3. ASSUME NEW i \in K, NEW j \in K, i < j
      PROVE  Rank(K, i) # Rank(K, j)
  <2>1. Below(i) \in SUBSET Below(j) /\ j \in Below(j) /\ j \notin Below(i)
    BY <1>1, <1>3
  <2> QED BY Zenon, <1>2, <2>1, FS_Subset
<1>4. \A i, j \in K : Rank(K, i) = Rank(K, j) => i = j
  BY <1>1, <1>3
<1> DEFINE f == [i \in K |-> Rank(K, i)]
<1>5. f \in Injection(K, 1..Cardinality(K))
  BY Zenon, <1>2, <1>4 DEF Injection, IsInjective
<1>6. IsFiniteSet(1..Cardinality(K)) /\ Cardinality(1..Cardinality(K)) = Cardinality(K)
  BY <1>1, FS_Interval
<1>7. f \in Surjection(K, 1..Cardinality(K))
  BY <1>5, <1>6, FS_Injection
<1>8. \A k \in 1..Cardinality(K) : \E i \in K : Rank(K, i) = k
  BY Zenon, <1>7 DEF Surjection
<1> QED BY Zenon, <1>2, <1>4, <1>8

\* Excluding keeps exactly the members outside S, and a list without
\* duplicates stays one; its length is the number of kept positions.
LEMMA ExcludingProperties ==
  ASSUME NEW T, NEW s \in Seq(T), NEW S
  PROVE  /\ Excluding(s, S) \in Seq(T)
         /\ ToSet(Excluding(s, S)) = ToSet(s) \ S
         /\ IsInjective(s) => IsInjective(Excluding(s, S))
         /\ Len(Excluding(s, S)) = Cardinality(Kept(s, S))
<1> DEFINE K == Kept(s, S)
           n == Cardinality(K)
           pick(k) == CHOOSE i \in K : Rank(K, i) = k
           e == [k \in 1..n |-> s[pick(k)]]
<1>1. K \in SUBSET DOMAIN s /\ n \in Nat
  BY ListFinite DEF Kept
<1>2. ASSUME NEW k \in 1..n
      PROVE  pick(k) \in K /\ Rank(K, pick(k)) = k
  BY <1>1, RankBijection
<1>3. Excluding(s, S) = e
  BY DEF Excluding
<1> HIDE DEF pick
<1>4. \A k \in 1..n : s[pick(k)] \in T /\ s[pick(k)] \in ToSet(s) \ S
  <2> SUFFICES ASSUME NEW k \in 1..n
               PROVE  s[pick(k)] \in T /\ s[pick(k)] \in ToSet(s) \ S
    OBVIOUS
  <2>1. pick(k) \in DOMAIN s /\ s[pick(k)] \notin S
    BY <1>2 DEF Kept
  <2> QED BY <2>1 DEF ToSet
<1>5. e \in Seq(T) /\ Len(e) = n
  BY <1>1, <1>4
<1>6. ToSet(s) \ S \subseteq ToSet(e)
  <2> SUFFICES ASSUME NEW i \in DOMAIN s, s[i] \notin S
               PROVE  s[i] \in ToSet(e)
    BY DEF ToSet
  <2>1. i \in K
    BY DEF Kept
  <2>2. Rank(K, i) \in 1..n
    BY <1>1, <2>1, RankBijection
  <2>3. pick(Rank(K, i)) = i
    BY <1>1, <1>2, <2>1, <2>2, RankBijection
  <2> QED BY <2>2, <2>3 DEF ToSet
<1>7. ToSet(e) \subseteq ToSet(s) \ S
  BY <1>4 DEF ToSet
<1>8. ASSUME IsInjective(s) PROVE IsInjective(e)
  <2> SUFFICES ASSUME NEW k \in 1..n, NEW l \in 1..n, s[pick(k)] = s[pick(l)]
               PROVE  k = l
    BY DEF IsInjective
  <2>1. pick(k) = pick(l)
    BY <1>1, <1>2, <1>8 DEF IsInjective
  <2> QED BY <1>2, <2>1
<1> HIDE DEF e
<1> QED BY <1>3, <1>5, <1>6, <1>7, <1>8

\* Taking a set out of a duplicate-free list shortens it by the members found.
LEMMA ExcludingLength ==
  ASSUME NEW T, NEW s \in Seq(T), NEW S, IsInjective(s)
  PROVE  /\ IsFiniteSet(ToSet(s) \cap S)
         /\ Len(Excluding(s, S)) = Len(s) - Cardinality(ToSet(s) \cap S)
<1> DEFINE K == Kept(s, S)
           C == {i \in DOMAIN s : s[i] \in S}
           f == [i \in C |-> s[i]]
<1>1. K \in SUBSET DOMAIN s /\ C \in SUBSET DOMAIN s
  BY DEF Kept
<1>2. /\ IsFiniteSet(K) /\ IsFiniteSet(C)
      /\ Cardinality(K) \in Nat /\ Cardinality(C) \in Nat
  BY <1>1, ListFinite
<1>3. K \cup C = DOMAIN s /\ K \cap C = {}
  BY Zenon DEF Kept
<1>4. Cardinality(DOMAIN s) = Cardinality(K) + Cardinality(C)
  <2>1. Cardinality(K \cup C) = Cardinality(K) + Cardinality(C) - Cardinality(K \cap C)
    BY <1>2, FS_Union
  <2>2. Cardinality(K \cap C) = 0
    BY Zenon, <1>3, FS_EmptySet
  <2> HIDE DEF K, C
  <2> QED BY <1>2, <1>3, <2>1, <2>2
<1>5. DOMAIN s = 1..Len(s) /\ Len(s) \in Nat
  OBVIOUS
<1>6. Cardinality(DOMAIN s) = Len(s)
  <2>1. Cardinality(1..Len(s)) = IF 1 > Len(s) THEN 0 ELSE Len(s) - 1 + 1
    BY <1>5, FS_Interval
  <2> QED BY <1>5, <2>1
<1>7. f \in Bijection(C, ToSet(s) \cap S)
  <2>1. f \in [C -> ToSet(s) \cap S]
    BY DEF ToSet
  <2>2. IsInjective(f)
    BY DEF IsInjective
  <2>3. \A b \in ToSet(s) \cap S : \E i \in C : f[i] = b
    BY DEF ToSet
  <2> QED BY <2>1, <2>2, <2>3 DEF Bijection, Injection, Surjection
<1>8. IsFiniteSet(ToSet(s) \cap S) /\ Cardinality(ToSet(s) \cap S) = Cardinality(C)
  BY <1>2, <1>7, FS_Bijection DEF ExistsBijection
<1> QED BY <1>2, <1>4, <1>6, <1>8, ExcludingProperties

\* In a duplicate-free list a block occurs once or not at all.
LEMMA OccurrencesInjective ==
  ASSUME NEW T, NEW s \in Seq(T), IsInjective(s), NEW b
  PROVE  Occurrences(s, b) = IF b \in ToSet(s) THEN 1 ELSE 0
<1> DEFINE D == {i \in DOMAIN s : s[i] = b}
<1>1. CASE b \in ToSet(s)
  <2>1. PICK i \in DOMAIN s : s[i] = b
    BY <1>1 DEF ToSet
  <2>2. D = {i}
    BY <2>1 DEF IsInjective
  <2> QED BY Zenon, <1>1, <2>2, FS_Singleton DEF Occurrences
<1>2. CASE b \notin ToSet(s)
  <2>1. D = {}
    BY <1>2 DEF ToSet
  <2> QED BY Zenon, <1>2, <2>1, FS_EmptySet DEF Occurrences
<1> QED BY <1>1, <1>2

\* Concatenation: members, and duplicate-freedom of disjoint parts.
LEMMA ConcatLists ==
  ASSUME NEW T, NEW s \in Seq(T), NEW t \in Seq(T)
  PROVE  /\ s \o t \in Seq(T)
         /\ Len(s \o t) = Len(s) + Len(t)
         /\ ToSet(s \o t) = ToSet(s) \cup ToSet(t)
         /\ (IsInjective(s) /\ IsInjective(t) /\ ToSet(s) \cap ToSet(t) = {})
                => IsInjective(s \o t)
<1> DEFINE u == s \o t
<1>1. /\ u \in Seq(T) /\ Len(u) = Len(s) + Len(t)
      /\ Len(s) \in Nat /\ Len(t) \in Nat
      /\ DOMAIN u = 1..(Len(s) + Len(t))
      /\ DOMAIN s = 1..Len(s) /\ DOMAIN t = 1..Len(t)
  OBVIOUS
<1>2. \A i \in 1..Len(s) : i \in DOMAIN u /\ u[i] = s[i]
  BY <1>1
<1>3. \A i \in 1..Len(t) : Len(s) + i \in DOMAIN u /\ u[Len(s) + i] = t[i]
  BY <1>1
<1>4. \A i \in DOMAIN u :
         \/ i \in 1..Len(s) /\ u[i] = s[i]
         \/ i - Len(s) \in 1..Len(t) /\ u[i] = t[i - Len(s)]
  BY <1>1
<1> HIDE DEF u
<1>5. ToSet(u) = ToSet(s) \cup ToSet(t)
  <2>1. ToSet(u) \subseteq ToSet(s) \cup ToSet(t)
    BY <1>1, <1>4 DEF ToSet
  <2>2. ToSet(s) \subseteq ToSet(u)
    BY <1>1, <1>2 DEF ToSet
  <2>3. ToSet(t) \subseteq ToSet(u)
    BY <1>1, <1>3 DEF ToSet
  <2> QED BY <2>1, <2>2, <2>3
<1>6. ASSUME IsInjective(s), IsInjective(t), ToSet(s) \cap ToSet(t) = {}
      PROVE  IsInjective(u)
  <2> SUFFICES ASSUME NEW i \in DOMAIN u, NEW j \in DOMAIN u, u[i] = u[j]
               PROVE  i = j
    BY DEF IsInjective
  <2>1. \A x \in 1..Len(s), y \in 1..Len(t) : s[x] # t[y]
    BY Zenon, <1>1, <1>6 DEF ToSet
  <2>2. i \in Int /\ j \in Int
    BY <1>1
  <2>3. \A x, y \in 1..Len(s) : s[x] = s[y] => x = y
    BY <1>1, <1>6 DEF IsInjective
  <2>4. \A x, y \in 1..Len(t) : t[x] = t[y] => x = y
    BY <1>1, <1>6 DEF IsInjective
  <2> QED BY <1>1, <1>4, <2>1, <2>2, <2>3, <2>4
<1> QED BY <1>1, <1>5, <1>6 DEF u

\* Where the elements of a concatenation of three lists come from.
LEMMA ThreeParts ==
  ASSUME NEW T, NEW a \in Seq(T), NEW b \in Seq(T), NEW c \in Seq(T),
         NEW i \in DOMAIN (a \o (b \o c))
  PROVE  LET u == a \o (b \o c)
         IN  /\ i \in Nat \ {0}
             /\ \/ i \in DOMAIN a /\ u[i] = a[i]
                \/ i > Len(a) /\ i - Len(a) \in DOMAIN b /\ u[i] = b[i - Len(a)]
                \/ i > Len(a) + Len(b) /\ u[i] \in ToSet(c)
<1> DEFINE t == b \o c
           u == a \o t
<1>1. /\ Len(a) \in Nat /\ Len(b) \in Nat /\ Len(c) \in Nat
      /\ DOMAIN a = 1..Len(a) /\ DOMAIN b = 1..Len(b) /\ DOMAIN c = 1..Len(c)
  OBVIOUS
<1>2. t \in Seq(T) /\ Len(t) = Len(b) + Len(c)
  OBVIOUS
<1>3. \A j \in 1..Len(t) :
         \/ j \in DOMAIN b /\ t[j] = b[j]
         \/ j > Len(b) /\ j - Len(b) \in DOMAIN c /\ t[j] = c[j - Len(b)]
  OBVIOUS
<1>4. \A j \in 1..Len(t) :
         \/ j \in DOMAIN b /\ t[j] = b[j]
         \/ j > Len(b) /\ t[j] \in ToSet(c)
  <2> TAKE j \in 1..Len(t)
  <2> QED BY <1>3 DEF ToSet
<1>5. i \in DOMAIN u
  OBVIOUS
<1> HIDE DEF t
<1>6. DOMAIN u = 1..(Len(a) + Len(t))
  <2>1. u \in Seq(T) /\ Len(u) = Len(a) + Len(t)
    BY <1>2, ConcatLists
  <2> HIDE DEF u
  <2> QED BY <2>1
<1>7. \/ i \in DOMAIN a /\ u[i] = a[i]
      \/ i > Len(a) /\ i - Len(a) \in 1..Len(t) /\ u[i] = t[i - Len(a)]
  BY <1>1, <1>2, <1>5, <1>6
<1> HIDE DEF u
<1>8. i \in Nat \ {0}
  BY <1>1, <1>2, <1>5, <1>6
<1>9. CASE i > Len(a) /\ i - Len(a) \in 1..Len(t) /\ u[i] = t[i - Len(a)]
  <2>1. \/ i - Len(a) \in DOMAIN b /\ u[i] = b[i - Len(a)]
        \/ i - Len(a) > Len(b) /\ u[i] \in ToSet(c)
    BY <1>4, <1>9
  <2>2. i - Len(a) > Len(b) => i > Len(a) + Len(b)
    BY <1>1, <1>8
  <2>3. \/ i - Len(a) \in DOMAIN b /\ u[i] = b[i - Len(a)]
        \/ i > Len(a) + Len(b) /\ u[i] \in ToSet(c)
    BY <2>1, <2>2
  <2> QED BY <1>8, <1>9, <2>3 DEF u, t
<1>10. CASE i \in DOMAIN a /\ u[i] = a[i]
  BY <1>8, <1>10 DEF u, t
<1> QED BY <1>7, <1>9, <1>10

\* A list cut in two: the members are divided between the parts.
LEMMA SplitList ==
  ASSUME NEW T, NEW s \in Seq(T), IsInjective(s), NEW n \in 0..Len(s)
  PROVE  LET a == SubSeq(s, 1, n)
             z == SubSeq(s, n + 1, Len(s))
         IN  /\ a \in Seq(T) /\ Len(a) = n /\ IsInjective(a)
             /\ z \in Seq(T) /\ IsInjective(z)
             /\ ToSet(a) \cup ToSet(z) = ToSet(s)
             /\ ToSet(a) \cap ToSet(z) = {}
<1> DEFINE a == SubSeq(s, 1, n)
           z == SubSeq(s, n + 1, Len(s))
<1>1. Len(s) \in Nat /\ n \in Nat /\ n <= Len(s) /\ DOMAIN s = 1..Len(s)
  OBVIOUS
<1>2. a \in Seq(T) /\ Len(a) = n /\ DOMAIN a = 1..n /\ \A i \in 1..n : a[i] = s[i]
  BY <1>1
<1>3. /\ z \in Seq(T) /\ DOMAIN z = 1..(Len(s) - n)
      /\ \A i \in 1..(Len(s) - n) : z[i] = s[n + i]
  BY <1>1
<1> HIDE DEF a, z
<1>4. IsInjective(a)
  BY <1>1, <1>2 DEF IsInjective
<1>5. IsInjective(z)
  <2> SUFFICES ASSUME NEW i \in DOMAIN z, NEW j \in DOMAIN z, z[i] = z[j]
               PROVE  i = j
    BY DEF IsInjective
  <2>1. s[n + i] = s[n + j] /\ n + i \in DOMAIN s /\ n + j \in DOMAIN s
    BY <1>1, <1>3
  <2>2. n + i = n + j
    BY <2>1 DEF IsInjective
  <2> QED BY <1>1, <1>3, <2>2
<1>6. ToSet(a) \subseteq ToSet(s) /\ ToSet(z) \subseteq ToSet(s)
  <2>1. \A i \in DOMAIN a : a[i] = s[i] /\ i \in DOMAIN s
    BY <1>1, <1>2
  <2>2. \A i \in DOMAIN z : z[i] = s[n + i] /\ n + i \in DOMAIN s
    BY <1>1, <1>3
  <2> QED BY <2>1, <2>2 DEF ToSet
<1>7. ToSet(s) \subseteq ToSet(a) \cup ToSet(z)
  <2> SUFFICES ASSUME NEW i \in DOMAIN s PROVE s[i] \in ToSet(a) \cup ToSet(z)
    BY DEF ToSet
  <2>1. CASE i <= n
    BY <1>1, <1>2, <2>1 DEF ToSet
  <2>2. CASE i > n
    <3>1. i - n \in DOMAIN z /\ z[i - n] = s[i]
      BY <1>1, <1>3, <2>2
    <3> QED BY <3>1 DEF ToSet
  <2> QED BY <1>1, <2>1, <2>2
<1>8. ToSet(a) \cap ToSet(z) = {}
  <2> SUFFICES ASSUME NEW i \in DOMAIN a, NEW j \in DOMAIN z, a[i] = z[j]
               PROVE  FALSE
    BY DEF ToSet
  <2>1. s[i] = s[n + j] /\ i \in DOMAIN s /\ n + j \in DOMAIN s /\ i # n + j
    BY <1>1, <1>2, <1>3
  <2> QED BY <2>1 DEF IsInjective
<1> QED BY <1>2, <1>3, <1>4, <1>5, <1>6, <1>7, <1>8 DEF a, z

\* Reversal keeps the members and duplicate-freedom.
LEMMA ReverseList ==
  ASSUME NEW T, NEW s \in Seq(T)
  PROVE  /\ Reverse(s) \in Seq(T)
         /\ ToSet(Reverse(s)) = ToSet(s)
         /\ IsInjective(s) => IsInjective(Reverse(s))
<1> DEFINE v == Reverse(s)
<1>1. Len(s) \in Nat /\ DOMAIN s = 1..Len(s)
  OBVIOUS
<1>2. /\ v \in Seq(T) /\ DOMAIN v = 1..Len(s)
      /\ \A i \in 1..Len(s) : v[i] = s[(Len(s) - i) + 1]
  BY <1>1 DEF Reverse
<1> HIDE DEF v
<1>3. \A i \in 1..Len(s) :
         (Len(s) - i) + 1 \in 1..Len(s) /\ v[(Len(s) - i) + 1] = s[i]
  BY <1>1, <1>2
<1>4. ToSet(v) = ToSet(s)
  BY <1>1, <1>2, <1>3 DEF ToSet
<1>5. ASSUME IsInjective(s) PROVE IsInjective(v)
  <2> SUFFICES ASSUME NEW i \in 1..Len(s), NEW j \in 1..Len(s), v[i] = v[j]
               PROVE  i = j
    BY <1>2 DEF IsInjective
  <2>1. (Len(s) - i) + 1 = (Len(s) - j) + 1
    BY Zenon, <1>1, <1>2, <1>3, <1>5 DEF IsInjective
  <2> QED BY <1>1, <2>1
<1> QED BY <1>2, <1>4, <1>5 DEF v
=============================================================================
