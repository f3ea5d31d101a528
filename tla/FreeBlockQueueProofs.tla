------------------------ MODULE FreeBlockQueueProofs ------------------------
(***************************************************************************)
(* The linked list of free blocks is always one list, and it implements    *)
(* module FreeBlockList, for every number of blocks.  The list q behind    *)
(* the links is followed through every method: from Links(q), a step gives *)
(* Links(p)' for the list p that the abstract operation makes of q, and    *)
(* get_all_free_blocks returns the list behind the links.                  *)
(***************************************************************************)
EXTENDS FreeBlockQueueLinks

-----------------------------------------------------------------------------
(* popleft and popleft_n. *)

(* What popleft and popleft_n do to the list. *)
Taken(q, n) ==
    \/ n > Len(q) /\ Raise
    \/ /\ n <= Len(q)
       /\ returned' = SubSeq(q, 1, n)
       /\ Typed' /\ Links(SubSeq(q, n + 1, Len(q)))'

LEMMA PopLeftTakes ==
  ASSUME Typed, NEW q \in Seq(Blocks), Injective(q), Links(q), PopLeft
  PROVE  Taken(q, 1)
<1> DEFINE first == next_free_block[Head_]
<1>1. /\ Len(q) \in Nat
      /\ \A i \in 1..Len(q) : q[i] \in Blocks /\ Place(q, i) = q[i]
      /\ Place(q, 0) = Head_ /\ Place(q, Len(q) + 1) = Tail_
      /\ \A i \in 0..Len(q) + 1 : Place(q, i) \in Nodes
      /\ \A i, j \in 0..Len(q) + 1 : Place(q, i) = Place(q, j) => i = j
  BY PlaceFacts
<1>2. first = Place(q, 1)
  <2>1. 0 \in 0..Len(q)
    BY <1>1
  <2> QED BY <1>1, <2>1 DEF Links
<1>3. CASE first = Tail_ /\ Raise
  <2>1. Len(q) = 0
    <3>1. 1 \in 0..Len(q) + 1 /\ Len(q) + 1 \in 0..Len(q) + 1
      BY <1>1
    <3>2. 1 = Len(q) + 1
      BY <1>1, <1>2, <1>3, <3>1
    <3> QED BY <1>1, <3>2
  <2> QED BY <1>3, <2>1 DEF Taken
<1>4. CASE first # Tail_
  <2>1. Len(q) > 0 /\ 1 \in 0..Len(q) /\ 1 \in 1..Len(q) /\ 2 \in 0..Len(q) + 1
    <3>1. Len(q) # 0
      BY <1>1, <1>2, <1>4
    <3> QED BY <1>1, <3>1
  <2>2. first = q[1] /\ first \in Blocks /\ next_free_block[first] = Place(q, 2)
    <3>1. Place(q, 1) = q[1] /\ q[1] \in Blocks
      BY <1>1, <2>1
    <3>2. next_free_block[Place(q, 1)] = Place(q, 1 + 1)
      BY <2>1 DEF Links
    <3> QED BY <1>2, <3>1, <3>2
  <2>3. /\ Place(q, 2) \in Nodes /\ first \in Nodes /\ Head_ \in Nodes
        /\ Head_ # first /\ Head_ # Place(q, 2) /\ first # Place(q, 2)
    <3>1. 0 \in 0..Len(q) + 1 /\ 1 \in 0..Len(q) + 1
      BY <1>1
    <3> QED BY <1>1, <1>2, <2>1, <3>1
  <2>4. /\ next_free_block' = [next_free_block EXCEPT ![Head_] = Place(q, 2), ![first] = None]
        /\ prev_free_block' = [prev_free_block EXCEPT ![Place(q, 2)] = Head_, ![first] = None]
        /\ num_free_blocks' = num_free_blocks - 1
        /\ returned' = <<first>>
        /\ taken' = taken \cup {first}
    BY <1>4, <2>2 DEF PopLeft
  <2> HIDE DEF first
  <2>5. /\ next_free_block' = [x \in Nodes |-> IF x \in {first} THEN None
                                               ELSE IF x = Head_ THEN Place(q, 1 + 1)
                                               ELSE next_free_block[x]]
        /\ prev_free_block' = [x \in Nodes |-> IF x \in {first} THEN None
                                               ELSE IF x = Place(q, 1 + 1) THEN Head_
                                               ELSE prev_free_block[x]]
    <3>1. /\ next_free_block \in [Nodes -> Nodes \cup {None}]
          /\ prev_free_block \in [Nodes -> Nodes \cup {None}]
      BY DEF Typed
    <3>2. /\ next_free_block' = [x \in Nodes |-> IF x = first THEN None
                                                 ELSE IF x = Head_ THEN Place(q, 2)
                                                 ELSE next_free_block[x]]
          /\ prev_free_block' = [x \in Nodes |-> IF x = first THEN None
                                                 ELSE IF x = Place(q, 2) THEN Head_
                                                 ELSE prev_free_block[x]]
      BY <2>3, <2>4, <3>1, TwoUpdates
    <3> QED BY <3>2
  <2>6. 1 \in 0..Len(q) /\ {first} = {q[i] : i \in 1..1}
    BY <2>1, <2>2
  <2>7. Typed' /\ Links(SubSeq(q, 1 + 1, Len(q)))'
    BY <2>4, <2>5, <2>6, FirstTaken
  <2>8. <<first>> = SubSeq(q, 1, 1)
    <3>1. <<first>> \in [1..1 -> Blocks] /\ \A i \in 1..1 : <<first>>[i] = q[i]
      BY <2>2
    <3> QED BY <2>6, <3>1, HeadOfList
  <2> QED BY <2>1, <2>4, <2>7, <2>8 DEF Taken
<1> QED BY <1>3, <1>4 DEF PopLeft

(* The loop of popleft_n passes the places of the list in order. *)
LEMMA PathIsList ==
  ASSUME NEW q \in Seq(Blocks), Injective(q), Links(q), NEW n \in 0..Len(q),
         NEW path \in [0..n -> Nodes], IsPath(path, n)
  PROVE  \A i \in 0..n : path[i] = Place(q, i + 1)
<1>1. Len(q) \in Nat /\ n \in Nat /\ n <= Len(q) /\ Place(q, 0) = Head_
  BY PlaceFacts
<1>2. \A i \in 0..Len(q) : next_free_block[Place(q, i)] = Place(q, i + 1)
  BY DEF Links
<1> DEFINE T == {k \in 0..n : path[k] # Place(q, k + 1)}
<1>3. ASSUME T # {} PROVE FALSE
  <2>1. T \subseteq Nat
    BY <1>1
  <2>2. PICK k \in T : \A y \in T : k <= y
    BY <1>3, <2>1, LeastNat
  <2>3. CASE k = 0
    <3>1. path[0] = next_free_block[Head_] /\ 0 \in 0..Len(q)
      BY <1>1 DEF IsPath
    <3> QED BY <1>1, <1>2, <2>2, <2>3, <3>1
  <2>4. CASE k # 0
    <3>1. k \in 1..n /\ k - 1 \in 0..n /\ k - 1 < k /\ k \in 0..Len(q) /\ k - 1 + 1 = k
      BY <1>1, <2>2, <2>4
    <3>2. path[k - 1] = Place(q, k - 1 + 1)
      <4>1. k - 1 \notin T
        BY <2>2, <3>1
      <4> QED BY <3>1, <4>1
    <3>3. path[k] = next_free_block[path[k - 1]]
      BY <3>1 DEF IsPath
    <3>4. path[k] = Place(q, k + 1)
      BY <1>2, <3>1, <3>2, <3>3
    <3> QED BY <2>2, <3>4
  <2> QED BY <2>3, <2>4
<1> QED BY <1>3

LEMMA PopLeftNTakes ==
  ASSUME Typed, NEW q \in Seq(Blocks), Injective(q), Links(q), NEW n \in Nat, PopLeftN(n)
  PROVE  Taken(q, n)
<1>1. Len(q) \in Nat /\ num_free_blocks = Len(q)
  BY DEF Links
<1>2. CASE num_free_blocks < n /\ Raise
  BY <1>1, <1>2 DEF Taken
<1>3. CASE num_free_blocks >= n /\ ~ (num_free_blocks < n /\ Raise)
  <2> DEFINE Gone(path) == {path[i] : i \in 0..n - 1}
  <2>1. PICK path \in [0..n -> Nodes] :
          /\ IsPath(path, n)
          /\ next_free_block' =
                 [x \in Nodes |-> IF x \in Gone(path) THEN None
                                  ELSE IF x = Head_ THEN path[n] ELSE next_free_block[x]]
          /\ prev_free_block' = UnlinkedPrev(Gone(path), path[n])
          /\ num_free_blocks' = num_free_blocks - n
          /\ returned' = [i \in 1..n |-> path[i - 1]]
          /\ taken' = taken \cup Gone(path)
    BY <1>3 DEF PopLeftN
  <2>2. n \in 0..Len(q) /\ n <= Len(q)
    BY <1>1, <1>3
  <2>3. \A i \in 0..n : path[i] = Place(q, i + 1)
    BY <2>1, <2>2, PathIsList
  <2>4. path[n] = Place(q, n + 1)
    BY <2>3
  <2>5. \A i \in 1..n : path[i - 1] = q[i] /\ q[i] \in Blocks
    <3>1. ASSUME NEW i \in 1..n PROVE path[i - 1] = q[i] /\ q[i] \in Blocks
      <4>1. i - 1 \in 0..n /\ i - 1 + 1 = i /\ i \in 1..Len(q)
        BY <2>2
      <4>2. Place(q, i) = q[i] /\ q[i] \in Blocks
        BY <4>1, PlaceFacts
      <4>3. path[i - 1] = Place(q, i - 1 + 1)
        BY <2>3, <4>1
      <4> QED BY <4>1, <4>2, <4>3
    <3> QED BY <3>1
  <2>6. Gone(path) = {q[i] : i \in 1..n}
    <3>1. ASSUME NEW i \in 0..n - 1 PROVE path[i] \in {q[j] : j \in 1..n}
      <4>1. i + 1 \in 1..n /\ i + 1 - 1 = i
        OBVIOUS
      <4>2. path[i + 1 - 1] = q[i + 1]
        BY <2>5, <4>1
      <4> QED BY <4>1, <4>2
    <3>2. ASSUME NEW j \in 1..n PROVE q[j] \in Gone(path)
      <4>1. j - 1 \in 0..n - 1 /\ path[j - 1] = q[j]
        BY <2>5
      <4> QED BY <4>1
    <3> QED BY <3>1, <3>2
  <2> DEFINE gone == Gone(path)
  <2>7. /\ next_free_block' = [x \in Nodes |-> IF x \in gone THEN None
                                               ELSE IF x = Head_ THEN Place(q, n + 1)
                                               ELSE next_free_block[x]]
        /\ prev_free_block' = [x \in Nodes |-> IF x \in gone THEN None
                                               ELSE IF x = Place(q, n + 1) THEN Head_
                                               ELSE prev_free_block[x]]
    BY <2>1, <2>4 DEF UnlinkedPrev
  <2>8. /\ num_free_blocks' = num_free_blocks - n
        /\ taken' = taken \cup gone
        /\ gone = {q[i] : i \in 1..n}
    BY <2>1, <2>6
  <2> HIDE DEF gone
  <2>9. Typed' /\ Links(SubSeq(q, n + 1, Len(q)))'
    BY <2>2, <2>7, <2>8, FirstTaken
  <2>10. returned' = SubSeq(q, 1, n)
    <3>1. /\ [i \in 1..n |-> path[i - 1]] \in [1..n -> Blocks]
          /\ \A i \in 1..n : [j \in 1..n |-> path[j - 1]][i] = q[i]
      BY <2>5
    <3> QED BY ZenonT(30), <2>1, <2>2, <3>1, HeadOfList
  <2> QED BY <2>2, <2>9, <2>10 DEF Taken
<1> QED BY <1>1, <1>2, <1>3 DEF PopLeftN

-----------------------------------------------------------------------------
(* append and append_n. *)

(* What append and append_n do to the list. *)
Given(q, s) ==
    /\ returned' = << >>
    /\ Typed' /\ Links(q \o s)'
    /\ q \o s \in Seq(Blocks) /\ Injective(q \o s)

LEMMA LastNode ==
  ASSUME NEW q \in Seq(Blocks), Injective(q), Links(q)
  PROVE  /\ prev_free_block[Tail_] = Place(q, Len(q)) /\ Place(q, Len(q)) \in Nodes
         /\ Place(q, Len(q)) \notin taken /\ Tail_ \in Nodes /\ Tail_ # Place(q, Len(q))
<1>1. /\ Len(q) \in 0..Len(q) /\ Len(q) \in 0..Len(q) + 1 /\ Len(q) + 1 \in 0..Len(q) + 1
      /\ Len(q) # Len(q) + 1 /\ Len(q) \in Nat
  OBVIOUS
<1>2. /\ Place(q, Len(q)) \in Nodes /\ Place(q, Len(q) + 1) = Tail_ /\ Tail_ \in Nodes
      /\ Tail_ # Place(q, Len(q))
  BY <1>1, PlaceFacts
<1>3. prev_free_block[Place(q, Len(q) + 1)] = Place(q, Len(q))
  BY <1>1 DEF Links
<1>4. Place(q, Len(q)) \notin taken
  <2>1. CASE Len(q) = 0
    BY <2>1, QueueAssumption DEF Links, Place, Head_, Blocks
  <2>2. CASE Len(q) # 0
    <3>1. Len(q) \in 1..Len(q)
      BY <1>1, <2>2
    <3>2. Place(q, Len(q)) = q[Len(q)]
      BY <3>1, PlaceFacts
    <3> QED BY <3>1, <3>2 DEF Links
  <2> QED BY <2>1, <2>2
<1> QED BY <1>2, <1>3, <1>4

LEMMA AppendBlockGives ==
  ASSUME Typed, NEW q \in Seq(Blocks), Injective(q), Links(q),
         NEW b \in taken, AppendBlock(b)
  PROVE  Given(q, <<b>>)
<1> DEFINE s == <<b>>
           last == prev_free_block[Tail_]
<1>1. /\ last = Place(q, Len(q)) /\ last \in Nodes /\ last # b
      /\ Tail_ \in Nodes /\ Tail_ # last
  BY LastNode
<1>2. b \in Nodes /\ b # Tail_
  BY QueueAssumption DEF Typed, Nodes, Blocks, Tail_
<1>3. s \in Seq(taken) /\ Len(s) = 1 /\ s[1] = b /\ Injective(s) /\ {b} = {s[j] : j \in 1..Len(s)}
  <2>1. s \in Seq(taken) /\ Len(s) = 1 /\ s[1] = b
    OBVIOUS
  <2>2. \A j \in 1..Len(s) : j = 1
    BY <2>1
  <2> HIDE DEF s
  <2> QED BY <2>1, <2>2 DEF Injective
<1>4. /\ next_free_block \in [Nodes -> Nodes \cup {None}]
      /\ prev_free_block \in [Nodes -> Nodes \cup {None}]
  BY DEF Typed
<1>5. /\ next_free_block' = [x \in Nodes |-> IF x = b THEN Tail_ ELSE IF x = last THEN b
                                             ELSE next_free_block[x]]
      /\ prev_free_block' = [x \in Nodes |-> IF x = Tail_ THEN b ELSE IF x = b THEN last
                                             ELSE prev_free_block[x]]
      /\ num_free_blocks' = num_free_blocks + 1
      /\ returned' = << >>
      /\ taken' = taken \ {b}
  BY <1>1, <1>2, <1>4, TwoUpdates DEF AppendBlock
<1> HIDE DEF s, last
<1>6. /\ next_free_block' \in [Nodes -> Nodes \cup {None}]
      /\ prev_free_block' \in [Nodes -> Nodes \cup {None}]
  BY <1>1, <1>2, <1>4, <1>5
<1>7. \A j \in 1..Len(s) :
        /\ next_free_block'[s[j]] = IF j = Len(s) THEN Tail_ ELSE s[j + 1]
        /\ prev_free_block'[s[j]] = IF j = 1 THEN Place(q, Len(q)) ELSE s[j - 1]
  <2>1. \A j \in 1..Len(s) : j = 1
    BY <1>3
  <2>2. next_free_block'[b] = Tail_ /\ prev_free_block'[b] = Place(q, Len(q))
    BY <1>1, <1>2, <1>5
  <2> QED BY <1>3, <2>1, <2>2
<1>8. \A x \in Nodes \ {b} :
        /\ next_free_block'[x] = IF x = Place(q, Len(q)) /\ Len(s) > 0
                                 THEN s[1] ELSE next_free_block[x]
        /\ prev_free_block'[x] = IF x = Tail_ /\ Len(s) > 0
                                 THEN s[Len(s)] ELSE prev_free_block[x]
  BY <1>1, <1>3, <1>5
<1>9. num_free_blocks' = num_free_blocks + Len(s)
  BY <1>3, <1>5
<1>10. /\ Typed' /\ Links(q \o s)'
       /\ q \o s \in Seq(Blocks) /\ Injective(q \o s)
  BY <1>3, <1>5, <1>6, <1>7, <1>8, <1>9, BlocksAppended
<1> QED BY <1>5, <1>10 DEF Given, s

LEMMA AppendNGives ==
  ASSUME Typed, NEW q \in Seq(Blocks), Injective(q), Links(q),
         NEW s \in Seq(taken), Injective(s), AppendN(s)
  PROVE  Given(q, s)
<1> DEFINE n == Len(s)
           last == prev_free_block[Tail_]
           new == {s[i] : i \in 1..n}
           At(x) == CHOOSE i \in 1..n : s[i] = x
<1>1. /\ last = Place(q, Len(q)) /\ last \in Nodes /\ last \notin taken
      /\ Tail_ \in Nodes /\ Tail_ # last
  BY LastNode
<1>2. n \in Nat /\ \A j \in 1..n : s[j] \in taken
  OBVIOUS
<1>3. taken \subseteq Nodes /\ Tail_ \notin taken
  BY QueueAssumption DEF Typed, Nodes, Blocks, Tail_
<1>4. \A j \in 1..n : At(s[j]) = j /\ s[j] \in new
  BY DEF Injective
<1>5. \A x \in new : \E j \in 1..n : x = s[j] /\ At(x) = j
  BY <1>4
<1>6. /\ next_free_block \in [Nodes -> Nodes \cup {None}]
      /\ prev_free_block \in [Nodes -> Nodes \cup {None}]
  BY DEF Typed
<1>7. /\ next_free_block' = [x \in Nodes |->
             IF x \in new THEN (IF At(x) = n THEN Tail_ ELSE s[At(x) + 1])
             ELSE IF x = last /\ n > 0 THEN s[1] ELSE next_free_block[x]]
      /\ prev_free_block' = [x \in Nodes |->
             IF x \in new THEN (IF At(x) = 1 THEN last ELSE s[At(x) - 1])
             ELSE IF x = Tail_ /\ n > 0 THEN s[n] ELSE prev_free_block[x]]
      /\ num_free_blocks' = num_free_blocks + n
      /\ returned' = << >>
      /\ taken' = taken \ new
  BY DEF AppendN
<1>8. new = {s[j] : j \in 1..Len(s)}
  OBVIOUS
<1> HIDE DEF n, last, new, At
<1>9. \A j \in 1..n :
        /\ next_free_block'[s[j]] = IF j = n THEN Tail_ ELSE s[j + 1]
        /\ prev_free_block'[s[j]] = IF j = 1 THEN Place(q, Len(q)) ELSE s[j - 1]
  <2> SUFFICES ASSUME NEW j \in 1..n
               PROVE  /\ next_free_block'[s[j]] = IF j = n THEN Tail_ ELSE s[j + 1]
                      /\ prev_free_block'[s[j]] = IF j = 1 THEN last ELSE s[j - 1]
    BY <1>1
  <2>1. s[j] \in Nodes /\ s[j] \in new /\ At(s[j]) = j
    BY <1>2, <1>3, <1>4
  <2> QED BY <1>7, <2>1
<1>10. \A x \in Nodes \ new :
        /\ next_free_block'[x] = IF x = Place(q, Len(q)) /\ n > 0
                                 THEN s[1] ELSE next_free_block[x]
        /\ prev_free_block'[x] = IF x = Tail_ /\ n > 0
                                 THEN s[n] ELSE prev_free_block[x]
  BY <1>1, <1>7
<1>11. /\ next_free_block' \in [Nodes -> Nodes \cup {None}]
       /\ prev_free_block' \in [Nodes -> Nodes \cup {None}]
  <2>1. ASSUME NEW x \in Nodes
        PROVE  next_free_block'[x] \in Nodes \cup {None} /\ prev_free_block'[x] \in Nodes \cup {None}
    <3>1. CASE x \in new
      <4>1. PICK j \in 1..n : x = s[j]
        BY <1>5, <3>1
      <4>2. (j # n => s[j + 1] \in Nodes) /\ (j # 1 => s[j - 1] \in Nodes)
        BY <1>2, <1>3
      <4> QED BY <1>1, <1>9, <4>1, <4>2
    <3>2. CASE x \notin new
      <4>1. n > 0 => s[1] \in Nodes /\ s[n] \in Nodes
        BY <1>2, <1>3
      <4> QED BY <1>6, <1>10, <3>2, <4>1
    <3> QED BY <3>1, <3>2
  <2> QED BY <1>7, <2>1
<1>12. /\ Typed' /\ Links(q \o s)'
       /\ q \o s \in Seq(Blocks) /\ Injective(q \o s)
  BY <1>7, <1>8, <1>9, <1>10, <1>11, BlocksAppended DEF n
<1> QED BY <1>7, <1>12 DEF Given

-----------------------------------------------------------------------------
(* remove. *)

(* What remove does to the list. *)
Left(q, b) ==
    \/ \E k \in 1..Len(q) : /\ q[k] = b
                            /\ returned' = << >>
                            /\ Typed' /\ Links(Cut(q, k))'
    \/ b \notin {q[i] : i \in 1..Len(q)} /\ Raise

LEMMA RemoveLeaves ==
  ASSUME Typed, NEW q \in Seq(Blocks), Injective(q), Links(q), NEW b \in Blocks, Remove(b)
  PROVE  Left(q, b)
<1>1. /\ Len(q) \in Nat
      /\ \A i \in 1..Len(q) : q[i] \in Blocks /\ Place(q, i) = q[i]
      /\ Place(q, 0) = Head_ /\ Place(q, Len(q) + 1) = Tail_
      /\ \A i \in 0..Len(q) + 1 : Place(q, i) \in Nodes
      /\ \A i, j \in 0..Len(q) + 1 : Place(q, i) = Place(q, j) => i = j
  BY PlaceFacts
<1>2. /\ \A i \in 0..Len(q) : next_free_block[Place(q, i)] = Place(q, i + 1)
      /\ \A i \in 0..Len(q) : prev_free_block[Place(q, i + 1)] = Place(q, i)
      /\ next_free_block[Tail_] = None /\ prev_free_block[Head_] = None
      /\ \A c \in taken : next_free_block[c] = None /\ prev_free_block[c] = None
      /\ num_free_blocks = Len(q)
      /\ taken = Blocks \ {q[i] : i \in 1..Len(q)}
  BY DEF Links
<1>3. CASE b \in taken
  <2>1. next_free_block[b] = None
    BY <1>2, <1>3
  <2>2. Raise
    BY <2>1 DEF Remove
  <2> QED BY <1>2, <1>3, <2>2 DEF Left
<1>4. CASE b \notin taken
  <2>1. PICK k \in 1..Len(q) : q[k] = b
    BY <1>2, <1>4
  <2>2. /\ k \in Nat /\ k >= 1 /\ k <= Len(q)
        /\ k - 1 \in 0..Len(q) /\ k - 1 + 1 = k /\ k \in 0..Len(q)
        /\ k - 1 \in 0..Len(q) + 1 /\ k \in 0..Len(q) + 1 /\ k + 1 \in 0..Len(q) + 1
        /\ k - 1 # k /\ k + 1 # k /\ k - 1 # k + 1
    BY <1>1
  <2> DEFINE before == Place(q, k - 1)
             after == Place(q, k + 1)
  <2>3. /\ Place(q, k) = b /\ b \in Nodes /\ before \in Nodes /\ after \in Nodes
        /\ before # b /\ after # b /\ before # after
    BY <1>1, <2>1, <2>2
  <2>4. prev_free_block[b] = before /\ next_free_block[b] = after
    BY <1>2, <2>2, <2>3
  <2>5. before # None /\ after # None
    BY <2>3, NodesAreSome
  <2>6. /\ next_free_block' = [next_free_block EXCEPT ![before] = after, ![b] = None]
        /\ prev_free_block' = [prev_free_block EXCEPT ![after] = before, ![b] = None]
        /\ num_free_blocks' = num_free_blocks - 1
        /\ returned' = << >>
        /\ taken' = taken \cup {b}
    BY <2>4, <2>5 DEF Remove
  <2>7. /\ next_free_block \in [Nodes -> Nodes \cup {None}]
        /\ prev_free_block \in [Nodes -> Nodes \cup {None}]
    BY DEF Typed
  <2> HIDE DEF before, after
  <2>8. /\ next_free_block' = [x \in Nodes |-> IF x = b THEN None ELSE IF x = before THEN after
                                               ELSE next_free_block[x]]
        /\ prev_free_block' = [x \in Nodes |-> IF x = b THEN None ELSE IF x = after THEN before
                                               ELSE prev_free_block[x]]
    BY <2>3, <2>6, <2>7, TwoUpdates
  <2> DEFINE p == Cut(q, k)
  <2>9. /\ Len(p) = Len(q) - 1
        /\ \A i \in 1..Len(q) - 1 : p[i] = IF i < k THEN q[i] ELSE q[i + 1]
        /\ \A i \in 0..Len(q) : Place(p, i) = IF i < k THEN Place(q, i) ELSE Place(q, i + 1)
    BY CutList
  <2> HIDE DEF p
  <2>10. ASSUME NEW i \in 0..Len(p)
         PROVE  next_free_block'[Place(p, i)] = Place(p, i + 1)
    <3>1. i \in 0..Len(q) /\ i + 1 \in 0..Len(q) /\ i \in 0..Len(q) + 1 /\ i + 1 \in 0..Len(q) + 1
      BY <1>1, <2>9
    <3>2. CASE i < k - 1
      <4>1. i < k /\ i + 1 < k /\ i # k /\ i # k - 1
        BY <2>2, <3>1, <3>2
      <4>2. Place(p, i) = Place(q, i) /\ Place(p, i + 1) = Place(q, i + 1)
        BY <2>9, <3>1, <4>1
      <4>3. Place(q, i) # b /\ Place(q, i) # before /\ Place(q, i) \in Nodes
        BY <1>1, <2>2, <2>3, <3>1, <4>1 DEF before
      <4> QED BY <1>2, <2>8, <3>1, <4>2, <4>3
    <3>3. CASE i = k - 1
      <4>1. i < k /\ ~ (i + 1 < k) /\ i + 1 + 1 = k + 1
        BY <2>2, <3>3
      <4>2. Place(p, i) = Place(q, i) /\ Place(p, i + 1) = Place(q, i + 1 + 1)
        BY <2>9, <3>1, <4>1
      <4>3. Place(p, i) = before /\ Place(p, i + 1) = after
        BY <3>3, <4>1, <4>2 DEF before, after
      <4> QED BY <2>3, <2>8, <4>3
    <3>4. CASE i > k - 1
      <4>1. /\ ~ (i < k) /\ ~ (i + 1 < k) /\ i + 1 # k /\ i + 1 # k - 1
        BY <2>2, <3>1, <3>4
      <4>2. Place(p, i) = Place(q, i + 1) /\ Place(p, i + 1) = Place(q, i + 1 + 1)
        BY <2>9, <3>1, <4>1
      <4>3. Place(q, i + 1) # b /\ Place(q, i + 1) # before /\ Place(q, i + 1) \in Nodes
        BY <1>1, <2>2, <2>3, <3>1, <4>1 DEF before
      <4> QED BY <1>2, <2>8, <3>1, <4>2, <4>3
    <3> QED BY <2>2, <3>1, <3>2, <3>3, <3>4
  <2>11. ASSUME NEW i \in 0..Len(p)
         PROVE  prev_free_block'[Place(p, i + 1)] = Place(p, i)
    <3>1. /\ i \in 0..Len(q) /\ i + 1 \in 0..Len(q) /\ i + 1 \in 0..Len(q) + 1
          /\ i + 1 + 1 \in 0..Len(q) + 1
      BY <1>1, <2>9
    <3>2. CASE i < k - 1
      <4>1. i < k /\ i + 1 < k /\ i + 1 # k /\ i + 1 # k + 1
        BY <2>2, <3>1, <3>2
      <4>2. Place(p, i) = Place(q, i) /\ Place(p, i + 1) = Place(q, i + 1)
        BY <2>9, <3>1, <4>1
      <4>3. Place(q, i + 1) # b /\ Place(q, i + 1) # after /\ Place(q, i + 1) \in Nodes
        BY <1>1, <2>2, <2>3, <3>1, <4>1 DEF after
      <4> QED BY <1>2, <2>8, <3>1, <4>2, <4>3
    <3>3. CASE i = k - 1
      <4>1. i < k /\ ~ (i + 1 < k) /\ i + 1 + 1 = k + 1
        BY <2>2, <3>3
      <4>2. Place(p, i) = Place(q, i) /\ Place(p, i + 1) = Place(q, i + 1 + 1)
        BY <2>9, <3>1, <4>1
      <4>3. Place(p, i) = before /\ Place(p, i + 1) = after
        BY <3>3, <4>1, <4>2 DEF before, after
      <4> QED BY <2>3, <2>8, <4>3
    <3>4. CASE i > k - 1
      <4>1. /\ ~ (i < k) /\ ~ (i + 1 < k) /\ i + 1 + 1 # k /\ i + 1 + 1 # k + 1
        BY <2>2, <3>1, <3>4
      <4>2. Place(p, i) = Place(q, i + 1) /\ Place(p, i + 1) = Place(q, i + 1 + 1)
        BY <2>9, <3>1, <4>1
      <4>3. Place(q, i + 1 + 1) # b /\ Place(q, i + 1 + 1) # after /\ Place(q, i + 1 + 1) \in Nodes
        BY <1>1, <2>2, <2>3, <3>1, <4>1 DEF after
      <4> QED BY <1>2, <2>8, <3>1, <4>2, <4>3
    <3> QED BY <2>2, <3>1, <3>2, <3>3, <3>4
  <2>12. next_free_block'[Tail_] = None /\ prev_free_block'[Head_] = None
    <3>1. /\ 0 \in 0..Len(q) + 1 /\ Len(q) + 1 \in 0..Len(q) + 1
          /\ 0 # k + 1 /\ Len(q) + 1 # k - 1
      BY <1>1, <2>2
    <3>2. Tail_ # before /\ Head_ # after /\ Tail_ \in Nodes /\ Head_ \in Nodes
      BY <1>1, <2>2, <3>1 DEF before, after
    <3> QED BY <1>2, <2>8, <3>2
  <2>13. ASSUME NEW c \in taken'
         PROVE  next_free_block'[c] = None /\ prev_free_block'[c] = None
    <3>1. CASE c = b
      BY <2>3, <2>8, <3>1
    <3>2. CASE c # b
      <4>1. c \in taken /\ c \in Nodes /\ c # Head_ /\ c # Tail_
        BY <2>6, <3>2, QueueAssumption DEF Typed, Nodes, Blocks, Head_, Tail_
      <4>2. \A i \in 0..Len(q) + 1 : c # Place(q, i)
        <5>1. \A i \in 0..Len(q) + 1 : i = 0 \/ i = Len(q) + 1 \/ i \in 1..Len(q)
          BY <1>1
        <5> QED BY <1>1, <1>2, <4>1, <5>1
      <4>3. c # before /\ c # after
        BY <2>2, <4>2 DEF before, after
      <4> QED BY <1>2, <2>8, <3>2, <4>1, <4>3
    <3> QED BY <3>1, <3>2
  <2>14. num_free_blocks' = Len(p)
    BY <1>2, <2>6, <2>9
  <2>15. taken' = Blocks \ {p[i] : i \in 1..Len(p)}
    <3>1. ASSUME NEW i \in 1..Len(p) PROVE p[i] # b /\ p[i] \notin taken
      <4>1. PICK j \in 1..Len(q) : j # k /\ p[i] = q[j]
        <5>1. CASE i < k
          <6>1. i \in 1..Len(q) /\ i # k /\ p[i] = q[i]
            BY <1>1, <2>2, <2>9, <5>1
          <6> QED BY <6>1
        <5>2. CASE i >= k
          <6>1. i + 1 \in 1..Len(q) /\ i + 1 # k /\ p[i] = q[i + 1]
            BY <1>1, <2>2, <2>9, <5>2
          <6> QED BY <6>1
        <5> QED BY <1>1, <2>2, <2>9, <5>1, <5>2
      <4> QED BY <1>2, <2>1, <4>1 DEF Injective
    <3>2. ASSUME NEW c \in Blocks, c # b, c \notin taken PROVE \E i \in 1..Len(p) : p[i] = c
      <4>1. PICK j \in 1..Len(q) : q[j] = c
        BY <1>2, <3>2
      <4>2. CASE j < k
        <5>1. j \in 1..Len(p) /\ p[j] = q[j]
          BY <1>1, <2>2, <2>9, <4>2
        <5> QED BY <4>1, <5>1
      <4>3. CASE j > k
        <5>1. j - 1 \in 1..Len(q) - 1 /\ ~ (j - 1 < k) /\ j - 1 + 1 = j
          BY <1>1, <2>2, <4>3
        <5>2. j - 1 \in 1..Len(p) /\ p[j - 1] = q[j]
          BY <2>9, <5>1
        <5> QED BY <4>1, <5>2
      <4> QED BY <1>1, <2>1, <2>2, <3>2, <4>1, <4>2, <4>3
    <3> DEFINE all == {p[i] : i \in 1..Len(p)}
    <3>3. \A c \in Blocks : c \in all <=> c # b /\ c \notin taken
      BY <3>1, <3>2
    <3> HIDE DEF all
    <3>4. taken' = Blocks \ all
      BY <2>6, <3>3 DEF Typed
    <3> QED BY <3>4 DEF all
  <2>16. Links(p)'
    BY <2>10, <2>11, <2>12, <2>13, <2>14, <2>15 DEF Links
  <2>17. Typed'
    <3>1. /\ next_free_block' \in [Nodes -> Nodes \cup {None}]
          /\ prev_free_block' \in [Nodes -> Nodes \cup {None}]
      BY <2>3, <2>7, <2>8
    <3> QED BY <2>6, <3>1 DEF Typed
  <2> QED BY <2>1, <2>6, <2>16, <2>17 DEF Left, p
<1> QED BY <1>3, <1>4

-----------------------------------------------------------------------------
(* Every step. *)

QueueInv == Typed /\ LinksFormAList

LEMMA InitQueue == Init => QueueInv /\ Represented!ListInit
<1> SUFFICES ASSUME Init PROVE QueueInv /\ Represented!ListInit
  OBVIOUS
<1> DEFINE q == [i \in Blocks |-> i]
<1>1. q \in Seq(Blocks) /\ Len(q) = NumBlocks /\ \A i \in 1..NumBlocks : q[i] = i
  BY QueueAssumption DEF Blocks
<1>2. Injective(q)
  BY <1>1 DEF Injective
<1>3. q \in DistinctLists(Blocks)
  BY <1>1, <1>2, ListsAre
<1> HIDE DEF q
<1>4. Typed
  BY QueueAssumption DEF Init, Typed, Nodes, Blocks, Head_, Tail_, None
<1>5. \A i \in 0..Len(q) + 1 : Place(q, i) = i
  BY <1>1, QueueAssumption DEF Place, Head_, Tail_
<1>6. Links(q)
  <2>1. \A i \in 0..Len(q) : next_free_block[Place(q, i)] = Place(q, i + 1)
    <3> SUFFICES ASSUME NEW i \in 0..Len(q) PROVE next_free_block[i] = i + 1
      BY <1>1, <1>5, QueueAssumption
    <3>1. i \in Nodes /\ i # Tail_
      BY <1>1, QueueAssumption DEF Nodes, Blocks, Head_, Tail_
    <3> QED BY <3>1 DEF Init
  <2>2. \A i \in 0..Len(q) : prev_free_block[Place(q, i + 1)] = Place(q, i)
    <3> SUFFICES ASSUME NEW i \in 0..Len(q) PROVE prev_free_block[i + 1] = i
      BY <1>1, <1>5, QueueAssumption
    <3>1. i + 1 \in Nodes /\ i + 1 # Head_ /\ i + 1 - 1 = i
      BY <1>1, QueueAssumption DEF Nodes, Blocks, Head_, Tail_
    <3> QED BY <3>1 DEF Init
  <2>3. next_free_block[Tail_] = None /\ prev_free_block[Head_] = None
    BY DEF Init, Nodes
  <2>4. Blocks \ {q[i] : i \in 1..Len(q)} = {}
    BY <1>1 DEF Blocks
  <2> QED BY <1>1, <2>1, <2>2, <2>3, <2>4 DEF Init, Links
<1>7. AllFreeBlocks = q
  BY <1>3, <1>6, AllFreeBlocksIs
<1>8. Represented!ListInit
  BY <1>7 DEF Init, Represented!ListInit, Represented!Blocks, q, Blocks
<1> QED BY <1>3, <1>4, <1>6, <1>8 DEF QueueInv, LinksFormAList

(* A step of the linked list is a step of the abstract list, from the list  *)
(* behind the links to the list behind the new links.                        *)
LEMMA NextQueue ==
  QueueInv /\ [Next]_vars => QueueInv' /\ [Represented!ListNext]_(Represented!listVars)
<1> SUFFICES ASSUME QueueInv, [Next]_vars
             PROVE  QueueInv' /\ [Represented!ListNext]_(Represented!listVars)
  OBVIOUS
<1>1. Typed
  BY DEF QueueInv
<1>2. PICK q \in DistinctLists(Blocks) : Links(q)
  BY DEF QueueInv, LinksFormAList
<1>3. q \in Seq(Blocks) /\ Injective(q) /\ Len(q) \in Nat
  BY ListsAre
<1>4. AllFreeBlocks = q
  BY <1>2, AllFreeBlocksIs
<1>5. ASSUME Typed', NEW p \in Seq(Blocks), Injective(p), Links(p)'
      PROVE  QueueInv' /\ AllFreeBlocks' = p
  <2>1. p \in DistinctLists(Blocks)
    BY <1>5, ListsAre
  <2>2. AllFreeBlocks' = p
    BY <1>5, <2>1, AllFreeBlocksWillBe
  <2> QED BY <1>5, <2>1, <2>2 DEF QueueInv, LinksFormAList
<1>6. ASSUME UNCHANGED <<prev_free_block, next_free_block, num_free_blocks, taken>>
      PROVE  QueueInv' /\ AllFreeBlocks' = q
  <2>1. Typed'
    BY <1>1, <1>6 DEF Typed
  <2>2. Links(q)'
    BY <1>2, <1>6 DEF Links
  <2> QED BY <1>3, <1>5, <2>1, <2>2
<1>7. ASSUME NEW n \in 0..NumBlocks + 1, Taken(q, n)
      PROVE  QueueInv' /\ Represented!Take(n)
  <2>1. CASE n > Len(q) /\ Raise
    <3>1. QueueInv' /\ AllFreeBlocks' = q
      BY <1>6, <2>1 DEF Raise
    <3>2. Represented!Raise
      BY <1>4, <2>1, <3>1 DEF Raise, Represented!Raise
    <3> QED BY <1>4, <2>1, <3>1, <3>2 DEF Represented!Take
  <2>2. CASE /\ n <= Len(q)
             /\ returned' = SubSeq(q, 1, n)
             /\ Typed' /\ Links(SubSeq(q, n + 1, Len(q)))'
    <3>1. n \in 0..Len(q)
      BY <1>3, <2>2
    <3>2. SubSeq(q, n + 1, Len(q)) \in Seq(Blocks) /\ Injective(SubSeq(q, n + 1, Len(q)))
      BY <1>3, <3>1, TailOfList
    <3>3. QueueInv' /\ AllFreeBlocks' = SubSeq(q, n + 1, Len(q))
      BY <1>5, <2>2, <3>2
    <3> QED BY <1>4, <2>2, <3>3 DEF Represented!Take
  <2> QED BY <1>7, <2>1, <2>2 DEF Taken
<1>8. CASE PopLeft
  <2>1. 1 \in 0..NumBlocks + 1
    BY QueueAssumption
  <2>2. Taken(q, 1)
    BY <1>1, <1>2, <1>3, <1>8, PopLeftTakes
  <2>3. QueueInv' /\ Represented!Take(1)
    BY <1>7, <2>1, <2>2
  <2> QED BY <2>1, <2>3 DEF Represented!ListNext
<1>9. CASE \E n \in 0..NumBlocks + 1 : PopLeftN(n)
  <2>1. PICK n \in 0..NumBlocks + 1 : PopLeftN(n)
    BY <1>9
  <2>2. n \in Nat
    BY <2>1, QueueAssumption
  <2>3. Taken(q, n)
    BY <1>1, <1>2, <1>3, <2>1, <2>2, PopLeftNTakes
  <2>4. QueueInv' /\ Represented!Take(n)
    BY <1>7, <2>3
  <2> QED BY <2>4 DEF Represented!ListNext
<1>10. CASE \E b \in Blocks : Remove(b)
  <2>1. PICK b \in Blocks : Remove(b)
    BY <1>10
  <2>2. Left(q, b)
    BY <1>1, <1>2, <1>3, <2>1, RemoveLeaves
  <2>3. QueueInv' /\ Represented!Leave(b)
    <3>1. CASE \E k \in 1..Len(q) : /\ q[k] = b
                                    /\ returned' = << >>
                                    /\ Typed' /\ Links(Cut(q, k))'
      <4>1. PICK k \in 1..Len(q) : /\ q[k] = b
                                   /\ returned' = << >>
                                   /\ Typed' /\ Links(Cut(q, k))'
        BY <3>1
      <4>2. Cut(q, k) \in Seq(Blocks) /\ Injective(Cut(q, k))
        BY <1>3, CutList
      <4>3. QueueInv' /\ AllFreeBlocks' = Cut(q, k)
        BY <1>5, <4>1, <4>2
      <4>4. k \in DOMAIN q
        BY <1>3
      <4> QED BY <1>4, <4>1, <4>3, <4>4 DEF Represented!Leave, Cut
    <3>2. CASE b \notin {q[i] : i \in 1..Len(q)} /\ Raise
      <4>1. QueueInv' /\ AllFreeBlocks' = q
        BY <1>6, <3>2 DEF Raise
      <4>2. Represented!Raise
        BY <1>4, <3>2, <4>1 DEF Raise, Represented!Raise
      <4>3. DOMAIN q = 1..Len(q)
        BY <1>3
      <4>4. b \notin Represented!Free
        BY <1>4, <3>2, <4>3 DEF Represented!Free
      <4> QED BY <4>1, <4>2, <4>4 DEF Represented!Leave
    <3> QED BY <2>2, <3>1, <3>2 DEF Left
  <2>4. b \in Represented!Blocks
    BY DEF Represented!Blocks, Blocks
  <2> QED BY <2>3, <2>4 DEF Represented!ListNext
<1>11. taken = Represented!Blocks \ Represented!Free
  <2>1. DOMAIN q = 1..Len(q)
    BY <1>3
  <2>2. Represented!Free = {q[i] : i \in 1..Len(q)}
    BY <1>4, <2>1 DEF Represented!Free
  <2> QED BY <1>2, <2>2 DEF Links, Represented!Blocks, Blocks
<1>12. ASSUME NEW s \in DistinctLists(taken)
       PROVE  /\ s \in Seq(taken) /\ Injective(s)
              /\ s \in Represented!DistinctLists(Represented!Blocks \ Represented!Free)
  <2>1. PICK n \in 0..NumBlocks : /\ s \in [1..n -> taken]
                                  /\ \A i, j \in 1..n : s[i] = s[j] => i = j
    BY DEF DistinctLists
  <2>2. n \in Nat
    BY <2>1, QueueAssumption
  <2>3. s \in Seq(taken) /\ Len(s) = n
    BY <2>1, <2>2
  <2>4. s \in Represented!DistinctLists(taken)
    BY DEF DistinctLists, Represented!DistinctLists
  <2> QED BY <1>11, <2>1, <2>3, <2>4 DEF Injective
<1>13. ASSUME NEW s \in Represented!DistinctLists(Represented!Blocks \ Represented!Free), Given(q, s)
       PROVE  QueueInv' /\ [Represented!ListNext]_(Represented!listVars)
  <2>1. QueueInv' /\ AllFreeBlocks' = q \o s
    BY <1>5, <1>13 DEF Given
  <2>2. Represented!GiveBack(s)
    BY <1>4, <1>13, <2>1 DEF Given, Represented!GiveBack
  <2> QED BY <2>1, <2>2 DEF Represented!ListNext
<1>14. CASE \E b \in taken : AppendBlock(b)
  <2>1. PICK b \in taken : AppendBlock(b)
    BY <1>14
  <2>2. Given(q, <<b>>)
    BY <1>1, <1>2, <1>3, <2>1, AppendBlockGives
  <2>3. <<b>> \in DistinctLists(taken)
    <3>1. 1 \in 0..NumBlocks
      BY <1>1, <2>1, QueueAssumption DEF Typed, Blocks
    <3>2. <<b>> \in [1..1 -> taken] /\ \A i, j \in 1..1 : i = j
      OBVIOUS
    <3> QED BY <3>1, <3>2 DEF DistinctLists
  <2> QED BY <1>12, <1>13, <2>2, <2>3
<1>15. CASE \E s \in DistinctLists(taken) : AppendN(s)
  <2>1. PICK s \in DistinctLists(taken) : AppendN(s)
    BY <1>15
  <2>2. Given(q, s)
    BY <1>1, <1>2, <1>3, <1>12, <2>1, AppendNGives
  <2> QED BY <1>12, <1>13, <2>1, <2>2
<1>16. CASE UNCHANGED vars
  <2>1. QueueInv' /\ AllFreeBlocks' = q
    BY <1>6, <1>16 DEF vars
  <2> QED BY <1>4, <1>16, <2>1 DEF vars, Represented!listVars
<1> QED BY <1>8, <1>9, <1>10, <1>14, <1>15, <1>16 DEF Next

(* FreeKVCacheBlockQueue: however many blocks there are and in whatever      *)
(* order they are popped, removed and appended, the forward and backward     *)
(* links and the counter describe one list of distinct blocks.               *)
THEOREM LinksAlwaysFormAList == Spec => []LinksFormAList
<1>1. QueueInv => LinksFormAList
  BY DEF QueueInv
<1>2. Init => QueueInv
  BY InitQueue
<1>3. QueueInv /\ [Next]_vars => QueueInv'
  BY NextQueue
<1> QED BY <1>1, <1>2, <1>3, PTL DEF Spec

(* FreeKVCacheBlockQueue: for every number of blocks, every method changes   *)
(* the list that get_all_free_blocks returns, and returns or raises, as the  *)
(* plain list does with which the KV cache manager is modelled.              *)
THEOREM LinkedListImplementsList == Spec => ImplementsFreeBlockList
<1>1. Init => QueueInv /\ Represented!ListInit
  BY InitQueue
<1>2. QueueInv /\ [Next]_vars => QueueInv' /\ [Represented!ListNext]_(Represented!listVars)
  BY NextQueue
<1> QED BY <1>1, <1>2, PTL DEF Spec, ImplementsFreeBlockList, Represented!ListSpec
=============================================================================
