------------------------- MODULE FreeBlockQueueLinks -------------------------
(***************************************************************************)
(* Lists of distinct blocks, their places between the fake nodes, what     *)
(* get_all_free_blocks collects, and the list the links form after blocks  *)
(* were taken from the front or put at the end: lemmas for module          *)
(* FreeBlockQueueProofs.                                                   *)
(***************************************************************************)
EXTENDS FreeKVCacheBlockQueue, FiniteSetTheorems, SequenceTheorems, WellFoundedInduction, TLAPS

Typed ==
    /\ next_free_block \in [Nodes -> Nodes \cup {None}]
    /\ prev_free_block \in [Nodes -> Nodes \cup {None}]
    /\ taken \in SUBSET Blocks

Injective(q) == \A i, j \in 1..Len(q) : q[i] = q[j] => i = j

-----------------------------------------------------------------------------
(* Lists. *)

LEMMA LeastNat ==
  ASSUME NEW T, T \subseteq Nat, T # {}
  PROVE  \E x \in T : \A y \in T : x <= y
<1> DEFINE less == {ss \in Nat \X Nat : ss[1] < ss[2]}
<1>1. IsWellFoundedOn(less, Nat)
  BY NatLessThanWellFounded DEF OpToRel
<1>2. \E x \in T : \A y \in T : ~ (<<y, x>> \in less)
  BY <1>1, WFMin, Zenon
<1>3. PICK x \in T : \A y \in T : ~ (<<y, x>> \in less)
  BY <1>2
<1>4. ASSUME NEW y \in T PROVE x <= y
  <2>1. x \in Nat /\ y \in Nat
    OBVIOUS
  <2>2. <<y, x>> \in Nat \X Nat
    BY <2>1
  <2>3. ~ (<<y, x>> \in less)
    BY <1>3
  <2>4. ~ (y < x)
    BY <2>2, <2>3
  <2> QED BY <2>1, <2>4
<1> QED BY <1>4

(* A list of distinct blocks is no longer than the pool. *)
LEMMA ListsAre ==
  ASSUME NEW q
  PROVE  q \in DistinctLists(Blocks) <=> q \in Seq(Blocks) /\ Injective(q)
<1>1. ASSUME q \in DistinctLists(Blocks)
      PROVE  q \in Seq(Blocks) /\ Injective(q)
  <2>1. PICK n \in 0..NumBlocks : /\ q \in [1..n -> Blocks]
                                  /\ \A i, j \in 1..n : q[i] = q[j] => i = j
    BY <1>1 DEF DistinctLists
  <2>2. n \in Nat
    BY <2>1, QueueAssumption
  <2>3. q \in Seq(Blocks) /\ Len(q) = n
    BY <2>1, <2>2
  <2> QED BY <2>1, <2>3 DEF Injective
<1>2. ASSUME q \in Seq(Blocks), Injective(q)
      PROVE  q \in DistinctLists(Blocks)
  <2>1. Len(q) \in Nat /\ q \in [1..Len(q) -> Blocks]
    BY <1>2, LenProperties
  <2>2. q \in Injection(1..Len(q), Blocks)
    BY <1>2, <2>1 DEF Injective, Injection, IsInjective
  <2>3. /\ IsFiniteSet(1..Len(q)) /\ Cardinality(1..Len(q)) = Len(q)
        /\ IsFiniteSet(Blocks) /\ Cardinality(Blocks) = NumBlocks
    <3>1. /\ IsFiniteSet(1..Len(q)) /\ Cardinality(1..Len(q)) = IF 1 > Len(q) THEN 0 ELSE Len(q) - 1 + 1
      BY <2>1, FS_Interval
    <3>2. /\ IsFiniteSet(1..NumBlocks) /\ Cardinality(1..NumBlocks) = IF 1 > NumBlocks THEN 0 ELSE NumBlocks - 1 + 1
      BY QueueAssumption, FS_Interval
    <3> QED BY <2>1, <3>1, <3>2, QueueAssumption DEF Blocks
  <2>4. Cardinality(1..Len(q)) <= Cardinality(Blocks)
    BY <2>2, <2>3, FS_Injection DEF ExistsInjection
  <2>5. Len(q) \in 0..NumBlocks
    BY <2>1, <2>3, <2>4, QueueAssumption
  <2> QED BY <1>2, <2>1, <2>5 DEF DistinctLists, Injective
<1> QED BY <1>1, <1>2

(* The places of a list are different nodes. *)
LEMMA PlaceFacts ==
  ASSUME NEW q \in Seq(Blocks), Injective(q)
  PROVE  /\ Len(q) \in Nat
         /\ \A i \in 1..Len(q) : q[i] \in Blocks /\ Place(q, i) = q[i]
         /\ Place(q, 0) = Head_ /\ Place(q, Len(q) + 1) = Tail_
         /\ \A i \in 0..Len(q) + 1 : Place(q, i) \in Nodes
         /\ \A i, j \in 0..Len(q) + 1 : Place(q, i) = Place(q, j) => i = j
<1>1. Len(q) \in Nat /\ \A i \in 1..Len(q) : q[i] \in Blocks
  OBVIOUS
<1>2. /\ \A i \in 1..Len(q) : Place(q, i) = q[i]
      /\ Place(q, 0) = Head_ /\ Place(q, Len(q) + 1) = Tail_
  BY <1>1 DEF Place
<1>3. \A b \in Blocks : b # Head_ /\ b # Tail_ /\ Head_ # Tail_ /\ b \in Nodes
  BY QueueAssumption DEF Blocks, Head_, Tail_, Nodes
<1>4. ASSUME NEW i \in 0..Len(q) + 1
      PROVE  i = 0 \/ i = Len(q) + 1 \/ i \in 1..Len(q)
  BY <1>1
<1>5. Head_ \in Nodes /\ Tail_ \in Nodes /\ Head_ # Tail_
  BY QueueAssumption DEF Nodes, Head_, Tail_
<1>6. \A i \in 0..Len(q) + 1 : Place(q, i) \in Nodes
  BY <1>1, <1>2, <1>3, <1>4, <1>5
<1>7. \A i, j \in 0..Len(q) + 1 : Place(q, i) = Place(q, j) => i = j
  BY <1>1, <1>2, <1>3, <1>4, <1>5 DEF Injective
<1> QED BY <1>1, <1>2, <1>6, <1>7

-----------------------------------------------------------------------------
(* get_all_free_blocks. *)

\* The forward links nx are those of the list q.
Chain(nx, q) ==
    /\ \A i \in 0..Len(q) : nx[Place(q, i)] = Place(q, i + 1)
    /\ nx[Tail_] = None

\* q is what the loop of get_all_free_blocks collects with the links nx.
Collects(nx, q) ==
    /\ \A i \in 1..Len(q) :
        q[i] = nx[IF i - 1 = 0 THEN Head_ ELSE q[i - 1]] /\ nx[q[i]] # None
    /\ nx[nx[IF Len(q) = 0 THEN Head_ ELSE q[Len(q)]]] = None

LEMMA NodesAreSome == \A x \in Nodes : x # None
BY QueueAssumption DEF Nodes, Blocks, Head_, Tail_, None

LEMMA ChainCollects ==
  ASSUME NEW nx, NEW q \in Seq(Blocks), Injective(q), Chain(nx, q)
  PROVE  Collects(nx, q)
<1>1. ASSUME NEW i \in 1..Len(q)
      PROVE  q[i] = nx[IF i - 1 = 0 THEN Head_ ELSE q[i - 1]] /\ nx[q[i]] # None
  <2>1. i - 1 \in 0..Len(q) /\ i \in 0..Len(q) /\ i + 1 \in 0..Len(q) + 1 /\ Len(q) \in Nat
    OBVIOUS
  <2>2. nx[Place(q, i - 1)] = Place(q, i) /\ nx[Place(q, i)] = Place(q, i + 1)
    BY <2>1 DEF Chain
  <2>3. Place(q, i) = q[i] /\ Place(q, i + 1) # None
    BY <2>1, PlaceFacts, NodesAreSome
  <2>4. Place(q, i - 1) = IF i - 1 = 0 THEN Head_ ELSE q[i - 1]
    BY <2>1 DEF Place
  <2> QED BY <2>2, <2>3, <2>4
<1>2. nx[nx[IF Len(q) = 0 THEN Head_ ELSE q[Len(q)]]] = None
  <2>1. Len(q) \in 0..Len(q) /\ Place(q, Len(q) + 1) = Tail_
    BY PlaceFacts
  <2>2. nx[Place(q, Len(q))] = Tail_ /\ nx[Tail_] = None
    BY <2>1 DEF Chain
  <2>3. Place(q, Len(q)) = IF Len(q) = 0 THEN Head_ ELSE q[Len(q)]
    BY PlaceFacts DEF Place
  <2> QED BY <2>2, <2>3
<1> QED BY <1>1, <1>2 DEF Collects

(* The loop has only one way to go: at the first difference both lists      *)
(* would continue from the same block.                                       *)
LEMMA CollectedOnce ==
  ASSUME NEW nx, NEW q \in Seq(Blocks), Injective(q), Chain(nx, q),
         NEW p \in Seq(Blocks), Collects(nx, p)
  PROVE  p = q
<1>1. Len(p) \in Nat /\ Len(q) \in Nat
  OBVIOUS
<1>2. Collects(nx, q)
  BY ChainCollects
<1>3. ASSUME NEW i \in Nat, i <= Len(p), i <= Len(q)
      PROVE  i > 0 => p[i] = q[i]
  <2> DEFINE T == {k \in Nat : k > 0 /\ k <= Len(p) /\ k <= Len(q) /\ p[k] # q[k]}
  <2>1. ASSUME T # {} PROVE FALSE
    <3>1. PICK k \in T : \A y \in T : k <= y
      BY <2>1, LeastNat
    <3>2. k \in 1..Len(p) /\ k \in 1..Len(q) /\ k - 1 \in Nat
      BY <1>1
    <3>3. k - 1 = 0 \/ p[k - 1] = q[k - 1]
      BY <3>1, <3>2, <1>1
    <3>4. /\ p[k] = nx[IF k - 1 = 0 THEN Head_ ELSE p[k - 1]]
          /\ q[k] = nx[IF k - 1 = 0 THEN Head_ ELSE q[k - 1]]
      BY <1>2, <3>2 DEF Collects
    <3>5. p[k] = q[k]
      BY <3>3, <3>4
    <3> QED BY <3>5
  <2> QED BY <2>1, <1>3, <1>1
<1>4. Len(p) = Len(q)
  <2>1. ASSUME Len(p) < Len(q) PROVE FALSE
    <3>1. Len(p) + 1 \in 1..Len(q)
      BY <1>1, <2>1
    <3>2. /\ q[Len(p) + 1] = nx[IF Len(p) + 1 - 1 = 0 THEN Head_ ELSE q[Len(p) + 1 - 1]]
          /\ nx[q[Len(p) + 1]] # None
      BY <1>2, <3>1 DEF Collects
    <3>3. Len(p) > 0 => q[Len(p)] = p[Len(p)]
      BY <1>1, <1>3, <2>1
    <3>4. q[Len(p) + 1] = nx[IF Len(p) = 0 THEN Head_ ELSE p[Len(p)]]
      BY <1>1, <3>2, <3>3
    <3> QED BY <3>2, <3>4 DEF Collects
  <2>2. ASSUME Len(q) < Len(p) PROVE FALSE
    <3>1. Len(q) + 1 \in 1..Len(p)
      BY <1>1, <2>2
    <3>2. /\ p[Len(q) + 1] = nx[IF Len(q) + 1 - 1 = 0 THEN Head_ ELSE p[Len(q) + 1 - 1]]
          /\ nx[p[Len(q) + 1]] # None
      BY <3>1 DEF Collects
    <3>3. Len(q) > 0 => p[Len(q)] = q[Len(q)]
      BY <1>1, <1>3, <2>2
    <3>4. p[Len(q) + 1] = nx[IF Len(q) = 0 THEN Head_ ELSE q[Len(q)]]
      BY <1>1, <3>2, <3>3
    <3> QED BY <1>2, <3>2, <3>4 DEF Collects
  <2> QED BY <1>1, <2>1, <2>2
<1>5. \A i \in 1..Len(p) : p[i] = q[i]
  BY <1>1, <1>3, <1>4
<1> QED BY <1>4, <1>5, SeqEqual

(* get_all_free_blocks returns the list behind the links, before a step ... *)
LEMMA AllFreeBlocksIs ==
  ASSUME NEW q \in DistinctLists(Blocks), Links(q)
  PROVE  AllFreeBlocks = q
<1>1. q \in Seq(Blocks) /\ Injective(q)
  BY ListsAre
<1>2. Chain(next_free_block, q)
  BY DEF Links, Chain
<1>3. Collects(next_free_block, q)
  BY <1>1, <1>2, ChainCollects
<1>4. \A p \in DistinctLists(Blocks) : Collects(next_free_block, p) => p = q
  BY <1>1, <1>2, CollectedOnce, ListsAre
<1>5. AllFreeBlocks = CHOOSE p \in DistinctLists(Blocks) : Collects(next_free_block, p)
  BY DEF AllFreeBlocks, Collects, After
<1> QED BY <1>3, <1>4, <1>5

(* ... and after it. *)
LEMMA AllFreeBlocksWillBe ==
  ASSUME NEW q \in DistinctLists(Blocks), Links(q)'
  PROVE  AllFreeBlocks' = q
<1>1. q \in Seq(Blocks) /\ Injective(q)
  BY ListsAre
<1>2. Chain(next_free_block', q)
  BY DEF Links, Chain
<1>3. Collects(next_free_block', q)
  BY <1>1, <1>2, ChainCollects
<1>4. \A p \in DistinctLists(Blocks) : Collects(next_free_block', p) => p = q
  BY <1>1, <1>2, CollectedOnce, ListsAre
<1>5. AllFreeBlocks' = CHOOSE p \in DistinctLists(Blocks) : Collects(next_free_block', p)
  BY DEF AllFreeBlocks, Collects, After
<1> QED BY <1>3, <1>4, <1>5

-----------------------------------------------------------------------------
(* Parts of lists. *)

LEMMA TailOfList ==
  ASSUME NEW q \in Seq(Blocks), Injective(q), NEW n \in 0..Len(q)
  PROVE  LET p == SubSeq(q, n + 1, Len(q))
         IN  /\ p \in Seq(Blocks) /\ Injective(p)
             /\ Len(p) = Len(q) - n
             /\ \A i \in 1..Len(p) : p[i] = q[n + i]
             /\ \A i \in 1..Len(p) + 1 : Place(p, i) = Place(q, n + i)
<1> DEFINE p == SubSeq(q, n + 1, Len(q))
<1>1. Len(q) \in Nat /\ n \in Nat /\ n <= Len(q)
  OBVIOUS
<1>2. \A i \in n + 1..Len(q) : q[i] \in Blocks
  BY <1>1
<1>3. /\ p \in Seq(Blocks)
      /\ Len(p) = IF n + 1 <= Len(q) THEN Len(q) - (n + 1) + 1 ELSE 0
      /\ \A i \in 1..Len(q) - (n + 1) + 1 : p[i] = q[n + 1 + i - 1]
  BY <1>1, <1>2, SubSeqProperties
<1> HIDE DEF p
<1>4. Len(p) = Len(q) - n /\ \A i \in 1..Len(p) : p[i] = q[n + i]
  BY <1>1, <1>3
<1>5. Injective(p)
  <2> SUFFICES ASSUME NEW i \in 1..Len(p), NEW j \in 1..Len(p), p[i] = p[j] PROVE i = j
    BY DEF Injective
  <2>1. p[i] = q[n + i] /\ p[j] = q[n + j]
    BY <1>4
  <2>2. n + i \in 1..Len(q) /\ n + j \in 1..Len(q)
    BY <1>1, <1>4
  <2>3. n + i = n + j
    BY <2>1, <2>2 DEF Injective
  <2> QED BY <1>1, <1>4, <2>3
<1>6. ASSUME NEW i \in 1..Len(p) + 1
      PROVE  Place(p, i) = Place(q, n + i)
  <2>1. i # 0 /\ n + i # 0 /\ (i = Len(p) + 1 <=> n + i = Len(q) + 1)
    BY <1>1, <1>4
  <2>2. i # Len(p) + 1 => p[i] = q[n + i]
    BY <1>1, <1>4
  <2> QED BY <2>1, <2>2 DEF Place
<1> QED BY <1>3, <1>4, <1>5, <1>6 DEF p

LEMMA HeadOfList ==
  ASSUME NEW q \in Seq(Blocks), NEW n \in 0..Len(q), NEW r \in [1..n -> Blocks],
         \A i \in 1..n : r[i] = q[i]
  PROVE  r = SubSeq(q, 1, n)
<1>1. Len(q) \in Nat /\ n \in Nat /\ n <= Len(q)
  OBVIOUS
<1>2. \A i \in 1..n : q[i] \in Blocks
  BY <1>1
<1>3. /\ SubSeq(q, 1, n) \in Seq(Blocks)
      /\ Len(SubSeq(q, 1, n)) = IF 1 <= n THEN n - 1 + 1 ELSE 0
      /\ \A i \in 1..n - 1 + 1 : SubSeq(q, 1, n)[i] = q[1 + i - 1]
  BY <1>1, <1>2, SubSeqProperties
<1>4. Len(SubSeq(q, 1, n)) = n /\ \A i \in 1..n : SubSeq(q, 1, n)[i] = q[i]
  BY <1>1, <1>3
<1>5. r \in Seq(Blocks) /\ Len(r) = n
  BY <1>1
<1> QED BY <1>3, <1>4, <1>5, SeqEqual

LEMMA TwoUpdates ==
  ASSUME NEW S, NEW V, NEW f \in [S -> V], NEW a \in S, NEW b \in S, NEW v, NEW w, a # b
  PROVE  [f EXCEPT ![a] = v, ![b] = w]
             = [x \in S |-> IF x = b THEN w ELSE IF x = a THEN v ELSE f[x]]
OBVIOUS

\* q without its block number k, as FreeBlockList writes it.
Cut(q, k) == SubSeq(q, 1, k - 1) \o SubSeq(q, k + 1, Len(q))

LEMMA CutList ==
  ASSUME NEW q \in Seq(Blocks), Injective(q), NEW k \in 1..Len(q)
  PROVE  /\ Cut(q, k) \in Seq(Blocks) /\ Injective(Cut(q, k))
         /\ Len(Cut(q, k)) = Len(q) - 1
         /\ \A i \in 1..Len(q) - 1 : Cut(q, k)[i] = IF i < k THEN q[i] ELSE q[i + 1]
         /\ \A i \in 0..Len(q) : Place(Cut(q, k), i) = IF i < k THEN Place(q, i)
                                                       ELSE Place(q, i + 1)
<1> DEFINE a == SubSeq(q, 1, k - 1)
           z == SubSeq(q, k + 1, Len(q))
           p == Cut(q, k)
<1>1. Len(q) \in Nat /\ k \in Nat /\ k >= 1 /\ k <= Len(q)
  OBVIOUS
<1>2. /\ a \in Seq(Blocks) /\ Len(a) = k - 1
      /\ \A i \in 1..k - 1 : a[i] = q[i]
  <2>1. \A i \in 1..k - 1 : q[i] \in Blocks
    BY <1>1
  <2>2. /\ a \in Seq(Blocks) /\ Len(a) = IF 1 <= k - 1 THEN k - 1 - 1 + 1 ELSE 0
        /\ \A i \in 1..k - 1 - 1 + 1 : a[i] = q[1 + i - 1]
    BY <1>1, <2>1, SubSeqProperties
  <2> HIDE DEF a
  <2> QED BY <1>1, <2>2
<1>3. /\ z \in Seq(Blocks) /\ Len(z) = Len(q) - k
      /\ \A i \in 1..Len(q) - k : z[i] = q[k + i]
  <2>1. k \in 0..Len(q)
    BY <1>1
  <2> QED BY <2>1, TailOfList
<1> HIDE DEF a, z
<1>4. /\ p \in Seq(Blocks) /\ Len(p) = Len(a) + Len(z)
      /\ \A i \in 1..Len(a) + Len(z) : p[i] = IF i <= Len(a) THEN a[i] ELSE z[i - Len(a)]
  BY <1>2, <1>3, ConcatProperties DEF Cut, a, z
<1> HIDE DEF p
<1>5. Len(p) = Len(q) - 1 /\ Len(a) + Len(z) = Len(q) - 1
  BY <1>1, <1>2, <1>3, <1>4
<1>6. \A i \in 1..Len(q) - 1 : p[i] = IF i < k THEN q[i] ELSE q[i + 1]
  <2> SUFFICES ASSUME NEW i \in 1..Len(q) - 1
               PROVE  p[i] = IF i < k THEN q[i] ELSE q[i + 1]
    OBVIOUS
  <2>1. p[i] = IF i <= Len(a) THEN a[i] ELSE z[i - Len(a)]
    BY <1>4, <1>5
  <2>2. CASE i < k
    <3>1. i <= Len(a) /\ i \in 1..k - 1
      BY <1>1, <1>2, <2>2
    <3> QED BY <1>2, <2>1, <2>2, <3>1
  <2>3. CASE i >= k
    <3>1. ~ (i <= Len(a)) /\ i - Len(a) \in 1..Len(q) - k /\ k + (i - Len(a)) = i + 1 /\ ~ (i < k)
      BY <1>1, <1>2, <2>3
    <3>2. z[i - Len(a)] = q[k + (i - Len(a))]
      BY <1>3, <3>1
    <3> QED BY <2>1, <3>1, <3>2
  <2> QED BY <1>1, <2>2, <2>3
<1>7. Injective(p)
  <2> SUFFICES ASSUME NEW i \in 1..Len(p), NEW j \in 1..Len(p), p[i] = p[j] PROVE i = j
    BY DEF Injective
  <2> DEFINE old(m) == IF m < k THEN m ELSE m + 1
  <2>1. \A m \in 1..Len(p) : p[m] = q[old(m)] /\ old(m) \in 1..Len(q)
    BY <1>1, <1>5, <1>6
  <2>2. old(i) = old(j)
    <3> HIDE DEF old
    <3> QED BY <2>1 DEF Injective
  <2> QED BY <1>1, <1>5, <2>2
<1>8. ASSUME NEW i \in 0..Len(q)
      PROVE  Place(p, i) = IF i < k THEN Place(q, i) ELSE Place(q, i + 1)
  <2>1. CASE i = 0
    BY <1>1, <2>1 DEF Place
  <2>2. CASE i = Len(q)
    <3>1. i = Len(p) + 1 /\ i # 0 /\ ~ (i < k) /\ i + 1 # 0 /\ i + 1 = Len(q) + 1
      BY <1>1, <1>5, <2>2
    <3> QED BY <3>1 DEF Place
  <2>3. CASE i \in 1..Len(q) - 1
    <3>1. /\ i # 0 /\ i # Len(p) + 1 /\ i # Len(q) + 1 /\ i + 1 # 0 /\ i + 1 # Len(q) + 1
      BY <1>1, <1>5, <2>3
    <3>2. p[i] = IF i < k THEN q[i] ELSE q[i + 1]
      BY <1>6, <2>3
    <3> QED BY <3>1, <3>2 DEF Place
  <2> QED BY <1>1, <2>1, <2>2, <2>3
<1> QED BY <1>4, <1>5, <1>6, <1>7, <1>8 DEF p

-----------------------------------------------------------------------------
(* Links. *)

(* The links after the first n blocks were taken out. *)
LEMMA FirstTaken ==
  ASSUME Typed, NEW q \in Seq(Blocks), Injective(q), Links(q), NEW n \in 0..Len(q),
         NEW gone, gone = {q[i] : i \in 1..n},
         next_free_block' = [x \in Nodes |-> IF x \in gone THEN None
                                             ELSE IF x = Head_ THEN Place(q, n + 1)
                                             ELSE next_free_block[x]],
         prev_free_block' = [x \in Nodes |-> IF x \in gone THEN None
                                             ELSE IF x = Place(q, n + 1) THEN Head_
                                             ELSE prev_free_block[x]],
         num_free_blocks' = num_free_blocks - n,
         taken' = taken \cup gone
  PROVE  Typed' /\ Links(SubSeq(q, n + 1, Len(q)))'
<1> DEFINE p == SubSeq(q, n + 1, Len(q))
<1>1. Len(q) \in Nat /\ n \in Nat /\ n <= Len(q)
  OBVIOUS
<1>2. /\ Len(p) = Len(q) - n
      /\ \A i \in 1..Len(p) : p[i] = q[n + i]
      /\ \A i \in 1..Len(p) + 1 : Place(p, i) = Place(q, n + i)
      /\ p \in Seq(Blocks) /\ Injective(p)
  BY TailOfList
<1> HIDE DEF p
<1>3. Len(p) \in Nat /\ Place(p, 0) = Head_
  BY <1>1, <1>2 DEF Place
<1>4. /\ \A i \in 0..Len(q) + 1 : Place(q, i) \in Nodes
      /\ \A i, j \in 0..Len(q) + 1 : Place(q, i) = Place(q, j) => i = j
      /\ Place(q, 0) = Head_ /\ Place(q, Len(q) + 1) = Tail_
      /\ \A i \in 1..Len(q) : q[i] \in Blocks /\ Place(q, i) = q[i]
  BY PlaceFacts
<1>5. ASSUME NEW i \in 0..Len(q) + 1
      PROVE  Place(q, i) \in gone <=> i \in 1..n
  BY <1>1, <1>4
<1>6. /\ \A i \in 0..Len(q) : next_free_block[Place(q, i)] = Place(q, i + 1)
      /\ \A i \in 0..Len(q) : prev_free_block[Place(q, i + 1)] = Place(q, i)
      /\ next_free_block[Tail_] = None /\ prev_free_block[Head_] = None
      /\ \A b \in taken : next_free_block[b] = None /\ prev_free_block[b] = None
      /\ num_free_blocks = Len(q)
      /\ taken = Blocks \ {q[i] : i \in 1..Len(q)}
  BY DEF Links
<1>7. ASSUME NEW i \in 0..Len(p)
      PROVE  next_free_block'[Place(p, i)] = Place(p, i + 1)
  <2>1. CASE i = 0
    <3>1. Place(p, 1) = Place(q, n + 1) /\ Head_ \in Nodes /\ Head_ \notin gone
      BY <1>1, <1>2, <1>3, <1>4, <1>5
    <3> QED BY <1>3, <2>1, <3>1
  <2>2. CASE i > 0
    <3>1. /\ Place(p, i) = Place(q, n + i) /\ Place(p, i + 1) = Place(q, n + i + 1)
          /\ n + i \in 0..Len(q) /\ n + i \notin 1..n /\ n + i # 0
      <4>1. i \in 1..Len(p) + 1 /\ i + 1 \in 1..Len(p) + 1 /\ n + (i + 1) = n + i + 1
        BY <1>1, <1>3, <2>2
      <4>2. Place(p, i) = Place(q, n + i) /\ Place(p, i + 1) = Place(q, n + (i + 1))
        BY <1>2, <4>1
      <4>3. n + i \in 0..Len(q) /\ n + i \notin 1..n /\ n + i # 0
        BY <1>1, <1>2, <1>3, <2>2
      <4> QED BY <4>1, <4>2, <4>3
    <3>2. Place(q, n + i) \in Nodes /\ Place(q, n + i) \notin gone /\ Place(q, n + i) # Head_
      BY <1>1, <1>4, <1>5, <3>1
    <3> QED BY <1>6, <3>1, <3>2
  <2> QED BY <1>3, <2>1, <2>2
<1>8. ASSUME NEW i \in 0..Len(p)
      PROVE  prev_free_block'[Place(p, i + 1)] = Place(p, i)
  <2>1. /\ Place(p, i + 1) = Place(q, n + i + 1) /\ n + i + 1 \in 0..Len(q) + 1
        /\ n + i + 1 \notin 1..n
    BY <1>1, <1>2, <1>3
  <2>2. Place(q, n + i + 1) \in Nodes /\ Place(q, n + i + 1) \notin gone
    BY <1>4, <1>5, <2>1
  <2>3. CASE i = 0
    BY <1>1, <1>3, <2>1, <2>2, <2>3
  <2>4. CASE i > 0
    <3>1. /\ Place(p, i) = Place(q, n + i) /\ n + i \in 0..Len(q)
          /\ n + 1 \in 0..Len(q) + 1 /\ n + 1 # n + i + 1
      BY <1>1, <1>2, <1>3, <2>4
    <3>2. Place(q, n + i + 1) # Place(q, n + 1)
      BY <1>4, <2>1, <3>1
    <3> QED BY <1>6, <2>1, <2>2, <3>1, <3>2
  <2> QED BY <1>3, <2>3, <2>4
<1>9. next_free_block'[Tail_] = None /\ prev_free_block'[Head_] = None
  <2>1. /\ Head_ \in Nodes /\ Tail_ \in Nodes /\ Head_ \notin gone /\ Tail_ \notin gone
        /\ Head_ # Tail_ /\ Head_ # Place(q, n + 1)
    <3>1. /\ 0 \in 0..Len(q) + 1 /\ Len(q) + 1 \in 0..Len(q) + 1 /\ n + 1 \in 0..Len(q) + 1
          /\ 0 \notin 1..n /\ Len(q) + 1 \notin 1..n
      BY <1>1
    <3> QED BY <1>1, <1>4, <1>5, <3>1
  <2> QED BY <1>6, <2>1
<1>10. gone \subseteq Blocks /\ Blocks \subseteq Nodes
  BY <1>1, <1>4 DEF Nodes
<1>11. ASSUME NEW b \in taken'
       PROVE  next_free_block'[b] = None /\ prev_free_block'[b] = None
  <2>1. CASE b \in gone
    BY <1>10, <2>1
  <2>2. CASE b \in taken /\ b \notin gone
    <3>1. b \in Nodes /\ b \in Blocks /\ b # Head_
      BY <1>10, <2>2, QueueAssumption DEF Typed, Blocks, Head_
    <3>2. b # Place(q, n + 1)
      <4>1. CASE n + 1 = Len(q) + 1
        BY <1>4, <3>1, <4>1, QueueAssumption DEF Blocks, Tail_
      <4>2. CASE n + 1 \in 1..Len(q)
        BY <1>4, <1>6, <2>2, <4>2
      <4> QED BY <1>1, <4>1, <4>2
    <3> QED BY <1>6, <2>2, <3>1, <3>2
  <2> QED BY <2>1, <2>2
<1>12. num_free_blocks' = Len(p)
  BY <1>2, <1>6
<1>13. taken' = Blocks \ {p[i] : i \in 1..Len(p)}
  <2>1. {q[i] : i \in 1..Len(q)} = gone \cup {p[i] : i \in 1..Len(p)}
    <3>1. ASSUME NEW i \in 1..Len(q) PROVE q[i] \in gone \cup {p[j] : j \in 1..Len(p)}
      <4>1. CASE i <= n
        BY <1>1, <4>1
      <4>2. CASE i > n
        <5>1. i - n \in 1..Len(p) /\ p[i - n] = q[i]
          BY <1>1, <1>2, <4>2
        <5> QED BY <5>1
      <4> QED BY <1>1, <4>1, <4>2
    <3>2. ASSUME NEW j \in 1..Len(p) PROVE p[j] \in {q[i] : i \in 1..Len(q)}
      BY <1>1, <1>2
    <3>3. gone \subseteq {q[i] : i \in 1..Len(q)}
      BY <1>1
    <3> QED BY <3>1, <3>2, <3>3
  <2>2. ASSUME NEW j \in 1..Len(p) PROVE p[j] \notin gone
    <3>1. p[j] = Place(q, n + j) /\ n + j \in 0..Len(q) + 1 /\ n + j \notin 1..n
      BY <1>1, <1>2, <1>4
    <3> QED BY <1>5, <3>1
  <2> DEFINE rest == {p[i] : i \in 1..Len(p)}
  <2>3. rest \cap gone = {}
    BY <2>2
  <2>4. taken' = (Blocks \ (gone \cup rest)) \cup gone
    BY <1>6, <2>1
  <2> HIDE DEF rest
  <2>5. taken' = Blocks \ rest
    BY <1>10, <2>3, <2>4
  <2> QED BY <2>5 DEF rest
<1>14. Links(p)'
  BY <1>7, <1>8, <1>9, <1>11, <1>12, <1>13 DEF Links
<1>15. Typed'
  <2>1. Head_ \in Nodes /\ Place(q, n + 1) \in Nodes
    BY <1>1, <1>4
  <2> QED BY <1>10, <2>1 DEF Typed
<1> QED BY <1>14, <1>15 DEF p

(* The links after the blocks s were put at the end. *)
LEMMA BlocksAppended ==
  ASSUME Typed, NEW q \in Seq(Blocks), Injective(q), Links(q),
         NEW s \in Seq(taken), Injective(s),
         NEW new, new = {s[j] : j \in 1..Len(s)},
         next_free_block' \in [Nodes -> Nodes \cup {None}],
         prev_free_block' \in [Nodes -> Nodes \cup {None}],
         \A j \in 1..Len(s) :
            /\ next_free_block'[s[j]] = IF j = Len(s) THEN Tail_ ELSE s[j + 1]
            /\ prev_free_block'[s[j]] = IF j = 1 THEN Place(q, Len(q)) ELSE s[j - 1],
         \A x \in Nodes \ new :
            /\ next_free_block'[x] = IF x = Place(q, Len(q)) /\ Len(s) > 0
                                     THEN s[1] ELSE next_free_block[x]
            /\ prev_free_block'[x] = IF x = Tail_ /\ Len(s) > 0
                                     THEN s[Len(s)] ELSE prev_free_block[x],
         num_free_blocks' = num_free_blocks + Len(s),
         taken' = taken \ new
  PROVE  /\ Typed' /\ Links(q \o s)'
         /\ q \o s \in Seq(Blocks) /\ Injective(q \o s)
<1> DEFINE p == q \o s
<1>1. Len(q) \in Nat /\ Len(s) \in Nat /\ taken \subseteq Blocks /\ s \in Seq(Blocks)
  <2>1. taken \subseteq Blocks
    BY DEF Typed
  <2> QED BY <2>1, SeqMonotonic
<1>2. /\ p \in Seq(Blocks) /\ Len(p) = Len(q) + Len(s)
      /\ \A i \in 1..Len(q) + Len(s) : p[i] = IF i <= Len(q) THEN q[i] ELSE s[i - Len(q)]
  BY <1>1, ConcatProperties
<1> HIDE DEF p
<1>17. \A i \in 1..Len(q) : p[i] = q[i] /\ i \in 1..Len(p)
  <2> SUFFICES ASSUME NEW i \in 1..Len(q) PROVE p[i] = q[i] /\ i \in 1..Len(p)
    OBVIOUS
  <2>1. i \in 1..Len(q) + Len(s) /\ i <= Len(q)
    BY <1>1
  <2> QED BY <1>2, <2>1
<1>18. \A j \in 1..Len(s) : p[Len(q) + j] = s[j] /\ Len(q) + j \in 1..Len(p)
  <2> SUFFICES ASSUME NEW j \in 1..Len(s)
               PROVE  p[Len(q) + j] = s[j] /\ Len(q) + j \in 1..Len(p)
    OBVIOUS
  <2>1. /\ Len(q) + j \in 1..Len(q) + Len(s) /\ ~ (Len(q) + j <= Len(q))
        /\ Len(q) + j - Len(q) = j
    BY <1>1
  <2> QED BY <1>2, <2>1
<1>19. \A k \in 1..Len(p) : k \in 1..Len(q) \/ \E j \in 1..Len(s) : k = Len(q) + j
  <2> SUFFICES ASSUME NEW k \in 1..Len(p), k \notin 1..Len(q)
               PROVE  \E j \in 1..Len(s) : k = Len(q) + j
    OBVIOUS
  <2>1. k - Len(q) \in 1..Len(s) /\ k = Len(q) + (k - Len(q))
    BY <1>1, <1>2
  <2> QED BY <2>1
<1>3. /\ \A i \in 0..Len(q) + 1 : Place(q, i) \in Nodes
      /\ \A i, j \in 0..Len(q) + 1 : Place(q, i) = Place(q, j) => i = j
      /\ Place(q, 0) = Head_ /\ Place(q, Len(q) + 1) = Tail_
      /\ \A i \in 1..Len(q) : q[i] \in Blocks /\ Place(q, i) = q[i]
  BY PlaceFacts
<1>4. /\ \A i \in 0..Len(q) : next_free_block[Place(q, i)] = Place(q, i + 1)
      /\ \A i \in 0..Len(q) : prev_free_block[Place(q, i + 1)] = Place(q, i)
      /\ next_free_block[Tail_] = None /\ prev_free_block[Head_] = None
      /\ \A b \in taken : next_free_block[b] = None /\ prev_free_block[b] = None
      /\ num_free_blocks = Len(q)
      /\ taken = Blocks \ {q[i] : i \in 1..Len(q)}
  BY DEF Links
<1>5. /\ \A j \in 1..Len(s) : s[j] \in taken /\ s[j] \in new
      /\ new \subseteq taken
      /\ \A x \in taken : x \in Nodes /\ x # Head_ /\ x # Tail_
  <2>1. \A j \in 1..Len(s) : s[j] \in taken
    BY <1>1
  <2>2. \A x \in Blocks : x \in Nodes /\ x # Head_ /\ x # Tail_
    BY QueueAssumption DEF Blocks, Nodes, Head_, Tail_
  <2> QED BY <1>1, <2>1, <2>2
<1>6. ASSUME NEW i \in 0..Len(q) + 1 PROVE Place(q, i) \notin taken
  <2>1. i = 0 \/ i = Len(q) + 1 \/ i \in 1..Len(q)
    BY <1>1
  <2>2. CASE i = 0 \/ i = Len(q) + 1
    BY <1>3, <1>5, <2>2
  <2>3. CASE i \in 1..Len(q)
    BY <1>3, <1>4, <2>3
  <2> QED BY <2>1, <2>2, <2>3
<1>7. /\ \A i \in 0..Len(q) : Place(p, i) = Place(q, i)
      /\ \A j \in 1..Len(s) : Place(p, Len(q) + j) = s[j]
      /\ Place(p, Len(p) + 1) = Tail_
  <2>1. ASSUME NEW i \in 0..Len(q) PROVE Place(p, i) = Place(q, i)
    <3>1. CASE i = 0
      BY <3>1 DEF Place
    <3>2. CASE i \in 1..Len(q)
      <4>1. i # 0 /\ i # Len(q) + 1 /\ i # Len(p) + 1
        BY <1>1, <1>2, <3>2
      <4>2. p[i] = q[i]
        BY <1>17, <3>2
      <4> QED BY <4>1, <4>2 DEF Place
    <3> QED BY <1>1, <3>1, <3>2
  <2>2. ASSUME NEW j \in 1..Len(s) PROVE Place(p, Len(q) + j) = s[j]
    <3>1. /\ Len(q) + j # 0 /\ Len(q) + j # Len(p) + 1
          /\ Len(q) + j \in 1..Len(q) + Len(s) /\ ~ (Len(q) + j <= Len(q))
          /\ Len(q) + j - Len(q) = j
      BY <1>1, <1>2
    <3>2. p[Len(q) + j] = s[j]
      BY <1>2, <3>1
    <3> QED BY <3>1, <3>2 DEF Place
  <2>3. Place(p, Len(p) + 1) = Tail_
    BY <1>1, <1>2 DEF Place
  <2> QED BY <2>1, <2>2, <2>3
<1>8. Injective(p)
  <2> SUFFICES ASSUME NEW i \in 1..Len(p), NEW j \in 1..Len(p), p[i] = p[j] PROVE i = j
    BY DEF Injective
  <2>1. \A k \in 1..Len(p) : \/ k \in 1..Len(q) /\ p[k] = q[k] /\ p[k] \notin taken
                             \/ k - Len(q) \in 1..Len(s) /\ p[k] = s[k - Len(q)] /\ p[k] \in taken
    <3> SUFFICES ASSUME NEW k \in 1..Len(p)
                 PROVE \/ k \in 1..Len(q) /\ p[k] = q[k] /\ p[k] \notin taken
                       \/ k - Len(q) \in 1..Len(s) /\ p[k] = s[k - Len(q)] /\ p[k] \in taken
      OBVIOUS
    <3>1. CASE k <= Len(q)
      BY <1>1, <1>2, <1>4, <3>1
    <3>2. CASE k > Len(q)
      <4>1. k - Len(q) \in 1..Len(s) /\ p[k] = s[k - Len(q)]
        BY <1>1, <1>2, <3>2
      <4> QED BY <1>5, <4>1
    <3> QED BY <1>1, <1>2, <3>1, <3>2
  <2>2. CASE i \in 1..Len(q) /\ j \in 1..Len(q) /\ p[i] = q[i] /\ p[j] = q[j]
    <3>1. q[i] = q[j]
      BY <2>2
    <3> QED BY <2>2, <3>1 DEF Injective
  <2>3. CASE /\ i - Len(q) \in 1..Len(s) /\ j - Len(q) \in 1..Len(s)
             /\ p[i] = s[i - Len(q)] /\ p[j] = s[j - Len(q)]
    <3>1. s[i - Len(q)] = s[j - Len(q)]
      BY <2>3
    <3>2. i - Len(q) = j - Len(q)
      BY ZenonT(30), <2>3, <3>1 DEF Injective
    <3> QED BY <1>1, <1>2, <3>2
  <2> QED BY <2>1, <2>2, <2>3
<1>9. ASSUME NEW i \in 0..Len(p)
      PROVE  next_free_block'[Place(p, i)] = Place(p, i + 1)
  <2>1. CASE i < Len(q)
    <3>1. i \in 0..Len(q) /\ i + 1 \in 0..Len(q) /\ i \in 0..Len(q) + 1 /\ Len(q) \in 0..Len(q) + 1 /\ i # Len(q)
      BY <1>1, <2>1
    <3>2. Place(q, i) \in Nodes \ new /\ Place(q, i) # Place(q, Len(q))
      BY <1>3, <1>5, <1>6, <3>1
    <3>3. Place(p, i) = Place(q, i) /\ Place(p, i + 1) = Place(q, i + 1)
      BY <1>7, <3>1
    <3>4. next_free_block'[Place(q, i)] = next_free_block[Place(q, i)]
      BY <3>2
    <3> QED BY <1>4, <3>1, <3>3, <3>4
  <2>2. CASE i = Len(q) /\ Len(s) = 0
    <3>1. i \in 0..Len(q) /\ i \in 0..Len(q) + 1 /\ i = Len(p)
      BY <1>1, <1>2, <2>2
    <3>2. Place(q, i) \in Nodes \ new
      BY <1>3, <1>5, <1>6, <3>1
    <3> QED BY <1>3, <1>4, <1>7, <2>2, <3>1, <3>2
  <2>3. CASE i = Len(q) /\ Len(s) > 0
    <3>1. i \in 0..Len(q) /\ i \in 0..Len(q) + 1 /\ 1 \in 1..Len(s)
      BY <1>1, <2>3
    <3>2. Place(q, i) \in Nodes \ new
      BY <1>3, <1>5, <1>6, <3>1
    <3> QED BY <1>7, <2>3, <3>1, <3>2
  <2>4. CASE i > Len(q)
    <3>1. i - Len(q) \in 1..Len(s) /\ Len(q) + (i - Len(q)) = i
      BY <1>1, <1>2, <2>4
    <3>2. Place(p, i) = s[i - Len(q)]
      BY <1>7, <3>1
    <3>3. CASE i = Len(p)
      <4>1. i - Len(q) = Len(s)
        BY <1>1, <1>2, <3>3
      <4> QED BY <1>7, <3>1, <3>2, <3>3, <4>1
    <3>4. CASE i # Len(p)
      <4>1. /\ i - Len(q) # Len(s) /\ i - Len(q) + 1 \in 1..Len(s)
            /\ Len(q) + (i - Len(q) + 1) = i + 1
        <5>1. Len(p) = Len(q) + Len(s)
          BY <1>2
        <5>2. i \in Nat /\ i < Len(p)
          BY <1>1, <5>1, <3>4
        <5> QED BY <1>1, <2>4, <5>1, <5>2
      <4>2. Place(p, i + 1) = s[i - Len(q) + 1]
        BY <1>7, <4>1
      <4>3. next_free_block'[s[i - Len(q)]] = s[i - Len(q) + 1]
        BY <3>1, <4>1
      <4> QED BY Zenon, <3>2, <4>2, <4>3
    <3> QED BY <3>3, <3>4
  <2> QED BY <1>1, <1>2, <2>1, <2>2, <2>3, <2>4
<1>10. ASSUME NEW i \in 0..Len(p)
       PROVE  prev_free_block'[Place(p, i + 1)] = Place(p, i)
  <2>1. CASE i < Len(q)
    <3>1. /\ i \in 0..Len(q) /\ i + 1 \in 0..Len(q) /\ i + 1 \in 0..Len(q) + 1
          /\ Len(q) + 1 \in 0..Len(q) + 1 /\ i + 1 # Len(q) + 1
      BY <1>1, <2>1
    <3>2. Place(q, i + 1) \in Nodes \ new /\ Place(q, i + 1) # Tail_
      BY <1>3, <1>5, <1>6, <3>1
    <3>3. Place(p, i) = Place(q, i) /\ Place(p, i + 1) = Place(q, i + 1)
      BY <1>7, <3>1
    <3>4. prev_free_block'[Place(q, i + 1)] = prev_free_block[Place(q, i + 1)]
      BY <3>2
    <3> QED BY <1>4, <3>1, <3>3, <3>4
  <2>2. CASE i = Len(q) /\ Len(s) = 0
    <3>1. i \in 0..Len(q) /\ i + 1 \in 0..Len(q) + 1 /\ i = Len(p)
      BY <1>1, <1>2, <2>2
    <3>2. Place(q, i + 1) \in Nodes \ new /\ Place(q, i + 1) = Place(p, i + 1)
      BY <1>3, <1>5, <1>6, <1>7, <2>2, <3>1
    <3> QED BY <1>4, <1>7, <2>2, <3>1, <3>2
  <2>3. CASE i = Len(q) /\ Len(s) > 0
    <3>1. i \in 0..Len(q) /\ 1 \in 1..Len(s)
      BY <1>1, <2>3
    <3> QED BY <1>7, <2>3, <3>1
  <2>4. CASE i > Len(q)
    <3>1. i - Len(q) \in 1..Len(s) /\ Len(q) + (i - Len(q)) = i
      BY <1>1, <1>2, <2>4
    <3>2. Place(p, i) = s[i - Len(q)]
      BY <1>7, <3>1
    <3>3. CASE i = Len(p)
      <4>1. i - Len(q) = Len(s) /\ Len(s) > 0 /\ Tail_ \in Nodes \ new
        <5>1. Len(q) + 1 \in 0..Len(q) + 1
          BY <1>1
        <5> QED BY <1>1, <1>2, <1>3, <1>5, <1>6, <2>4, <3>3, <5>1
      <4> QED BY <1>7, <3>2, <3>3, <4>1
    <3>4. CASE i # Len(p)
      <4>1. /\ i - Len(q) + 1 \in 1..Len(s) /\ i - Len(q) + 1 # 1
            /\ Len(q) + (i - Len(q) + 1) = i + 1 /\ i - Len(q) + 1 - 1 = i - Len(q)
        BY <1>1, <1>2, <3>1, <3>4
      <4>2. Place(p, i + 1) = s[i - Len(q) + 1]
        BY <1>7, <4>1
      <4>3. prev_free_block'[s[i - Len(q) + 1]] = s[i - Len(q) + 1 - 1]
        BY <4>1
      <4> QED BY Zenon, <3>2, <4>1, <4>2, <4>3
    <3> QED BY <3>3, <3>4
  <2> QED BY <1>1, <1>2, <2>1, <2>2, <2>3, <2>4
<1>11. next_free_block'[Tail_] = None /\ prev_free_block'[Head_] = None
  <2>1. /\ 0 \in 0..Len(q) + 1 /\ Len(q) + 1 \in 0..Len(q) + 1 /\ Len(q) \in 0..Len(q) + 1
        /\ Len(q) # Len(q) + 1 /\ 0 # Len(q) + 1
    BY <1>1
  <2>2. /\ Head_ \in Nodes \ new /\ Tail_ \in Nodes \ new
        /\ Tail_ # Place(q, Len(q)) /\ Head_ # Tail_
    BY <1>3, <1>5, <1>6, <2>1
  <2> QED BY <1>4, <2>2
<1>12. ASSUME NEW b \in taken'
       PROVE  next_free_block'[b] = None /\ prev_free_block'[b] = None
  <2>1. b \in taken /\ b \in Nodes \ new /\ b # Tail_ /\ b # Place(q, Len(q))
    <3>1. Len(q) \in 0..Len(q) + 1
      BY <1>1
    <3> QED BY <1>5, <1>6, <3>1
  <2> QED BY <1>4, <2>1
<1>13. taken' = Blocks \ {p[i] : i \in 1..Len(p)}
  <2> DEFINE old == {q[i] : i \in 1..Len(q)}
             all == {p[i] : i \in 1..Len(p)}
  <2>1. all \subseteq old \cup new
    <3>1. ASSUME NEW i \in 1..Len(p) PROVE p[i] \in old \cup new
      <4>1. CASE i \in 1..Len(q)
        BY <1>17, <4>1
      <4>2. CASE \E j \in 1..Len(s) : i = Len(q) + j
        <5>1. PICK j \in 1..Len(s) : i = Len(q) + j
          BY <4>2
        <5>2. p[i] = s[j] /\ s[j] \in new
          BY <1>5, <1>18, <5>1
        <5> QED BY <5>2
      <4> QED BY <1>19, <4>1, <4>2
    <3> HIDE DEF old
    <3>2. ASSUME NEW x \in all PROVE x \in old \cup new
      <4>1. PICK i \in 1..Len(p) : x = p[i]
        OBVIOUS
      <4> QED BY <3>1, <4>1
    <3> HIDE DEF all
    <3> QED BY <3>2
  <2>2. old \cup new \subseteq all
    <3>1. ASSUME NEW i \in 1..Len(q) PROVE q[i] \in all
      BY <1>17
    <3>2. ASSUME NEW j \in 1..Len(s) PROVE s[j] \in all
      BY <1>18
    <3>3. \A x \in old : x \in all
      BY <3>1
    <3>4. \A x \in new : x \in all
      BY <3>2
    <3> HIDE DEF old, all
    <3> QED BY <3>3, <3>4
  <2>3. taken = Blocks \ old
    BY <1>4
  <2> HIDE DEF old, all
  <2>4. taken' = Blocks \ all
    BY <2>1, <2>2, <2>3
  <2> QED BY <2>4 DEF all
<1>14. num_free_blocks' = Len(p)
  BY <1>2, <1>4
<1>15. Links(p)'
  BY <1>9, <1>10, <1>11, <1>12, <1>13, <1>14 DEF Links
<1>16. Typed'
  BY <1>1 DEF Typed
<1> QED BY <1>2, <1>8, <1>15, <1>16 DEF p
=============================================================================
