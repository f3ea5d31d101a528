------------------------ MODULE KVCacheManagerProofs ------------------------
(***************************************************************************)
(* Proofs that the KV cache manager keeps its bookkeeping consistent for   *)
(* every number of requests, blocks and tokens, and every block size.      *)
(***************************************************************************)
EXTENDS KVCacheMethods

-----------------------------------------------------------------------------
(* The caller's steps. *)

\* A longer token sequence keeps hashes and tables coherent: the prefixes that
\* full blocks stand for do not change.
LEMMA AppendKeepsInv ==
  ASSUME Inv, NEW r \in Requests, AppendOutputToken(r)
  PROVE  Inv'
<1>1. PICK t \in Token : all_token_ids' = [all_token_ids EXCEPT ![r] = Append(@, t)]
  BY DEF AppendOutputToken
<1> DEFINE toks == all_token_ids
           toks2 == all_token_ids'
<1>2. /\ toks \in [Requests -> Seq(Token)]
      /\ \A q \in Requests : Len(toks[q]) \in Nat /\ Len(toks[q]) <= MaxModelLen
      /\ req_to_blocks \in [Requests -> Seq(Blocks)]
  BY DEF Inv, TokensOK, TablesOK
<1>3. /\ toks2 \in [Requests -> Seq(Token)]
      /\ \A q \in Requests : toks2[q] = IF q = r THEN Append(toks[q], t) ELSE toks[q]
  BY <1>1, <1>2
<1>4. ASSUME NEW q \in Requests
      PROVE  Len(toks2[q]) <= MaxModelLen /\ Len(toks[q]) <= Len(toks2[q])
  <2>1. toks[q] \in Seq(Token) /\ Len(toks[q]) \in Nat /\ Len(toks[q]) <= MaxModelLen
    BY <1>2
  <2>2. CASE q = r
    <3>1. Len(toks[q]) < MaxModelLen
      BY <2>2 DEF AppendOutputToken
    <3>2. toks2[q] = Append(toks[q], t)
      BY <1>3, <2>2
    <3>3. Len(toks2[q]) = Len(toks[q]) + 1
      BY <2>1, <3>2
    <3> QED BY <2>1, <3>1, <3>3, KVAssumption
  <2>3. CASE q # r
    <3>1. toks2[q] = toks[q]
      BY <1>3, <2>3
    <3> QED BY <2>1, <3>1
  <2> QED BY <2>2, <2>3
<1>5. TokensOK(toks2)
  BY <1>3, <1>4 DEF TokensOK
<1>6. ASSUME NEW q \in Requests, NEW i \in DOMAIN req_to_blocks[q],
             i * BlockSize <= Len(toks[q])
      PROVE  /\ i * BlockSize <= Len(toks2[q])
             /\ BlockHash(toks2[q], i) = BlockHash(toks[q], i)
  <2>1. i \in Nat \ {0}
    BY <1>2
  <2>2. i * BlockSize \in Nat /\ Len(toks[q]) \in Nat /\ Len(toks2[q]) \in Nat
    BY <1>2, <1>3, <2>1, KVAssumption
  <2>3. BlockHash(toks2[q], i) = BlockHash(toks[q], i)
    BY Zenon, <1>2, <1>3, <1>6, <2>1, BlockHashAppend
  <2>4. i * BlockSize <= Len(toks2[q])
    <3> DEFINE m == i * BlockSize
    <3>1. m \in Nat /\ m <= Len(toks[q])
      BY <1>6, <2>2
    <3> HIDE DEF m
    <3>2. m <= Len(toks2[q])
      BY <1>4, <2>2, <3>1
    <3> QED BY <3>2 DEF m
  <2> QED BY <2>3, <2>4
<1>7. Coherent(block_hash, cached, req_to_blocks, num_cached_block, toks)
  BY DEF Inv
<1>8. ASSUME NEW p \in Requests, NEW q \in Requests,
             NEW i \in DOMAIN req_to_blocks[p], NEW j \in DOMAIN req_to_blocks[q],
             p # q, req_to_blocks[p][i] = req_to_blocks[q][j]
      PROVE  /\ i = j
             /\ i * BlockSize <= Len(toks2[p])
             /\ BlockHash(toks2[p], i) = BlockHash(toks2[q], i)
  <2>1. /\ i = j /\ i * BlockSize <= Len(toks[p])
        /\ BlockHash(toks[p], i) = BlockHash(toks[q], i)
    BY <1>7, <1>8 DEF Coherent
  <2>2. j * BlockSize <= Len(toks[q])
    BY <1>7, <1>8 DEF Coherent
  <2> QED BY SMTT(30), <1>6, <2>1, <2>2
<1>9. ASSUME NEW q \in Requests, NEW i \in DOMAIN req_to_blocks[q],
             block_hash[req_to_blocks[q][i]] # NoHash
      PROVE  /\ i * BlockSize <= Len(toks2[q])
             /\ block_hash[req_to_blocks[q][i]] = BlockHash(toks2[q], i)
  <2>1. /\ i * BlockSize <= Len(toks[q])
        /\ block_hash[req_to_blocks[q][i]] = BlockHash(toks[q], i)
    BY <1>7, <1>9 DEF Coherent
  <2> QED BY <1>6, <2>1
<1> HIDE DEF toks, toks2
<1>10. Coherent(block_hash, cached, req_to_blocks, num_cached_block, toks2)
  BY SMTT(30), <1>7, <1>8, <1>9 DEF Coherent
<1> QED BY <1>5, <1>10 DEF Inv, AppendOutputToken, kvVars, toks2

\* A new request in the place of one that holds nothing.
LEMMA NewRequestKeepsInv ==
  ASSUME Inv, NEW r \in Requests, NewRequest(r)
  PROVE  Inv'
<1>1. PICK p \in Prompts : all_token_ids' = [all_token_ids EXCEPT ![r] = p]
  BY DEF NewRequest
<1> DEFINE toks == all_token_ids
           toks2 == all_token_ids'
<1>2. toks \in [Requests -> Seq(Token)] /\ \A q \in Requests : Len(toks[q]) <= MaxModelLen
  BY DEF Inv, TokensOK
<1>3. /\ toks2 \in [Requests -> Seq(Token)] /\ toks2[r] = p
      /\ \A q \in Requests : q # r => toks2[q] = toks[q]
  BY <1>1, <1>2, KVAssumption
<1>4. TokensOK(toks2)
  <2>1. Len(p) <= MaxModelLen
    BY KVAssumption
  <2> QED BY Zenon, <1>2, <1>3, <2>1 DEF TokensOK
<1>5. Coherent(block_hash, cached, req_to_blocks, num_cached_block, toks)
  BY DEF Inv
<1>6. \A q \in Requests : \A i \in DOMAIN req_to_blocks[q] : toks2[q] = toks[q]
  BY <1>3 DEF NewRequest
<1> HIDE DEF toks, toks2
<1>7. Coherent(block_hash, cached, req_to_blocks, num_cached_block, toks2)
  BY <1>5, <1>6 DEF Coherent
<1> QED BY Zenon, <1>4, <1>7 DEF Inv, NewRequest, kvVars, toks2

\* What get_computed_blocks returns may be passed to allocate_slots.
LEMMA ComputedBlocksAreHits ==
  ASSUME Inv, NEW r \in Requests, req_to_blocks[r] = << >>, NEW hit \in ComputedBlocks(r)
  PROVE  HitOK(r, hit)
<1> DEFINE toks == all_token_ids[r]
           most == (Len(toks) - 1) \div BlockSize
           reported == IF EnableCaching THEN {ReportedHits(n) : n \in HitLengths(toks)}
                                        ELSE {0}
<1>1. PICK n \in reported :
         /\ hit \in [1..n -> Blocks]
         /\ \A i \in 1..n : hit[i] \in CachedBlocks(BlockHash(toks, i))
  BY SMTT(30) DEF ComputedBlocks
<1>2. toks \in Seq(Token) /\ Len(toks) \in Nat
  BY DEF Inv, TokensOK
<1>3. n \in Nat /\ (n > 0 => n <= most /\ Len(toks) > 0)
  <2>1. most \in Int
    BY <1>2, KVAssumption
  <2>2. CASE EnableCaching
    <3>1. PICK m \in HitLengths(toks) : n = ReportedHits(m)
      BY <1>1, <2>2
    <3>2. m \in 0..most
      BY <3>1 DEF HitLengths
    <3>3. n \in Nat /\ n <= m
      BY <2>1, <3>1, <3>2 DEF ReportedHits, Greater
    <3>4. most > 0 => Len(toks) > 0
      <4>1. Len(toks) - 1 \in Int /\ BlockSize \in Nat \ {0}
        BY <1>2, KVAssumption
      <4>2. ASSUME NEW x \in Int, x \div BlockSize > 0 PROVE x > 0
        BY <4>1, <4>2, DivPositive
      <4>3. most > 0 => Len(toks) - 1 > 0
        BY Zenon, <4>1, <4>2
      <4> QED BY <1>2, <4>3
    <3> HIDE DEF most
    <3> QED BY SMTT(30), <2>1, <3>2, <3>3, <3>4
  <2>3. CASE ~EnableCaching
    BY <1>1, <2>3
  <2> QED BY Zenon, <2>2, <2>3
<1>4. hit \in Seq(Blocks) /\ DOMAIN hit = 1..n
  BY <1>1, <1>3
<1>5. ASSUME NEW i \in 1..n
      PROVE  /\ i * BlockSize <= Len(toks)
             /\ <<BlockHash(toks, i), hit[i]>> \in cached
  <2>1. i \in Nat /\ n > 0
    BY <1>3
  <2>2. Len(toks) - 1 \in Nat /\ i <= most
    <3>1. most \in Int
      BY <1>2, KVAssumption
    <3> HIDE DEF most
    <3> QED BY SMTT(30), <1>2, <1>3, <2>1, <3>1
  <2>3. i * BlockSize <= Len(toks) - 1
    BY Zenon, <2>1, <2>2, FullBlockFits, KVAssumption
  <2>4. i * BlockSize <= Len(toks)
    <3> DEFINE m == i * BlockSize
    <3>1. m \in Nat /\ m <= Len(toks) - 1
      BY <2>1, <2>3, KVAssumption
    <3> HIDE DEF m
    <3>2. m <= Len(toks)
      BY <1>2, <3>1
    <3> QED BY <3>2 DEF m
  <2>5. <<BlockHash(toks, i), hit[i]>> \in cached
    BY <1>1 DEF CachedBlocks
  <2> QED BY <2>4, <2>5
<1> QED BY <1>4, <1>5 DEF HitOK

-----------------------------------------------------------------------------
(* Theorems. *)

\* The invariant holds initially: all blocks free, no hashes, no tables.
LEMMA InitInv ==
  Init => Inv
<1> SUFFICES ASSUME Init PROVE Inv
  OBVIOUS
<1>1. \A r \in Requests : req_to_blocks[r] = << >> /\ DOMAIN req_to_blocks[r] = {}
                          /\ ToSet(req_to_blocks[r]) = {}
  BY DEF Init, ToSet
<1>2. TablesOK(req_to_blocks)
  BY <1>1 DEF Init, TablesOK, IsInjective
<1>3. Counted(ref_cnt, free_queue, req_to_blocks)
  <2>1. \A b \in Blocks : HoldersIn(req_to_blocks, b) = {}
    BY <1>1 DEF HoldersIn
  <2>2. \A b \in Blocks : ref_cnt[b] = Cardinality(HoldersIn(req_to_blocks, b))
    BY <2>1, FS_EmptySet DEF Init
  <2>3. free_queue \in Seq(Blocks) /\ DOMAIN free_queue = 1..NumBlocks
    BY KVAssumption DEF Init, Blocks
  <2>4. ToSet(free_queue) = Blocks /\ IsInjective(free_queue)
    BY <2>3 DEF Init, Blocks, ToSet, IsInjective
  <2>5. ref_cnt \in [Blocks -> Nat] /\ {b \in Blocks : ref_cnt[b] = 0} = Blocks
    BY DEF Init
  <2> QED BY <2>2, <2>3, <2>4, <2>5 DEF Counted
<1>4. Coherent(block_hash, cached, req_to_blocks, num_cached_block, all_token_ids)
  <2>1. block_hash \in [Blocks -> Seq(Token)] /\ MapOf(block_hash) = {}
    BY DEF Init, MapOf, NoHash
  <2>2. num_cached_block \in [Requests -> Nat \cup {Absent}]
    BY DEF Init
  <2>3. cached = {}
    BY DEF Init
  <2> QED BY SMTT(30), <1>1, <2>1, <2>2, <2>3 DEF Coherent
<1>5. TokensOK(all_token_ids)
  <2>1. all_token_ids \in [Requests -> Prompts]
    BY DEF Init
  <2>2. \A r \in Requests : all_token_ids[r] \in Prompts
    BY <2>1
  <2>3. \A r \in Requests : Len(all_token_ids[r]) \in 1..MaxModelLen
    BY <2>2, KVAssumption
  <2>4. \A r \in Requests : all_token_ids[r] \in Seq(Token)
    BY <2>2, KVAssumption
  <2> QED BY SMTT(30), <2>1, <2>3, <2>4, KVAssumption DEF TokensOK
<1> QED BY <1>2, <1>3, <1>4, <1>5 DEF Inv, Init

\* Every step of the manager and its caller preserves the invariant.
LEMMA NextInv ==
  Inv /\ [Next]_vars => Inv'
<1> SUFFICES ASSUME Inv, [Next]_vars PROVE Inv'
  OBVIOUS
<1>1. ASSUME NEW r \in Requests, Extend(r) PROVE Inv'
  <2>1. PICK new \in 1..(Len(all_token_ids[r]) + NumLookahead), look \in {0, NumLookahead} :
           /\ CanAllocate(r, 0, << >>, 0, new, look)
           /\ AllocateSlots(r, 0, << >>, 0, new, look, FALSE)
           /\ UNCHANGED all_token_ids
    BY Zenon, <1>1 DEF Extend
  <2>2. Len(all_token_ids[r]) \in Nat
    BY DEF Inv, TokensOK
  <2>3. new \in Nat /\ look \in Nat
    BY <2>2, KVAssumption
  <2>4. HitOK(r, << >>)
    BY DEF HitOK
  <2>5. 0 \in Nat /\ ~(0 > 0) /\ FALSE \in BOOLEAN
    OBVIOUS
  <2> QED BY Zenon, <2>1, <2>3, <2>4, <2>5, AllocateSlotsKeepsInv
<1>2. ASSUME NEW r \in Requests, Admit(r) PROVE Inv'
  <2>1. PICK hit \in ComputedBlocks(r), ext \in Lengths, new \in Lengths, delay \in BOOLEAN :
           /\ NumLocal(0, hit) + ext + new <= Len(all_token_ids[r])
           /\ CanAllocate(r, 0, hit, ext, new, 0)
           /\ AllocateSlots(r, 0, hit, ext, new, 0, delay)
           /\ UNCHANGED all_token_ids
    BY <1>2 DEF Admit
  <2>2. req_to_blocks[r] = << >>
    BY <1>2 DEF Admit
  <2>3. HitOK(r, hit)
    BY <2>2, ComputedBlocksAreHits
  <2>4. ext \in Nat /\ new \in Nat
    BY KVAssumption DEF Lengths
  <2>5. NumLocal(0, hit) + ext <= MaxModelLen
    <3>1. Len(hit) \in Nat
      BY <2>3 DEF HitOK
    <3>2. NumLocal(0, hit) \in Nat
      BY <3>1, KVAssumption DEF NumLocal
    <3>3. Len(all_token_ids[r]) \in Nat /\ Len(all_token_ids[r]) <= MaxModelLen
      BY DEF Inv, TokensOK
    <3> QED BY SMTT(30), <2>1, <2>4, <3>2, <3>3, KVAssumption
  <2> QED BY SMTT(30), <2>1, <2>2, <2>3, <2>4, <2>5, AllocateSlotsKeepsInv
<1>3. ASSUME NEW r \in Requests, CacheLoaded(r) PROVE Inv'
  <2>1. PICK tokens \in 0..Len(all_token_ids[r]) :
           CacheBlocks(r, tokens) /\ UNCHANGED all_token_ids
    BY <1>3 DEF CacheLoaded
  <2>2. Len(all_token_ids[r]) \in Nat
    BY DEF Inv, TokensOK
  <2>3. tokens \in Nat /\ tokens <= Len(all_token_ids[r])
    BY <2>2
  <2> QED BY <2>1, <2>3, CacheBlocksKeepsInv
<1>4. ASSUME NEW r \in Requests, Release(r) PROVE Inv'
  BY <1>4, FreeKeepsInv DEF Release
<1>5. CASE Evict
  BY <1>5, EvictBlocksKeepsInv DEF Evict
<1>6. CASE Reset
  BY <1>6, ResetKeepsInv DEF Reset
<1>7. CASE UNCHANGED vars
  BY <1>7 DEF vars, Inv
<1> QED BY SMTT(30), <1>1, <1>2, <1>3, <1>4, <1>5, <1>6, <1>7, NewRequestKeepsInv, AppendKeepsInv
        DEF Next, RequestStep

\* The inductive invariant holds in every reachable state.
THEOREM InvariantHolds ==
  Spec => []Inv
BY InitInv, NextInv, PTL DEF Spec

\* Every variable keeps its type, whatever the constants.
THEOREM TypeCorrect ==
  Spec => []TypeOK
<1>1. Inv => TypeOK
  <2> SUFFICES ASSUME Inv PROVE TypeOK
    OBVIOUS
  <2>1. cached \subseteq Seq(Token) \X Blocks
    BY DEF Inv, Coherent, MapOf
  <2> QED BY <2>1 DEF Inv, Coherent, Counted, TablesOK, TokensOK, TypeOK
<1> QED BY <1>1, InvariantHolds, PTL

\* Reference counts count the tables that name a block.
THEOREM RefCountsExact ==
  Spec => []RefCountIsHolders
<1>1. Inv => RefCountIsHolders
  BY DEF Inv, TablesOK, Counted, HoldersIn, RefCountIsHolders, Holders
<1> QED BY <1>1, InvariantHolds, PTL

\* The free queue and the blocks in use partition the pool: no block is leaked,
\* none is handed out twice.
THEOREM NoBlockLeaks ==
  Spec => []FreeQueueIsUnused
<1>1. Inv => FreeQueueIsUnused
  BY DEF Inv, Counted, FreeQueueIsUnused
<1> QED BY <1>1, InvariantHolds, PTL

\* Prefix-cache map and block hashes agree.
THEOREM HashMapExact ==
  Spec => []HashMapIsBlockHash
<1>1. Inv => HashMapIsBlockHash
  BY DEF Inv, Coherent, MapOf, HashMapIsBlockHash
<1> QED BY <1>1, InvariantHolds, PTL

\* Blocks not yet cached are private and carry no hash.
THEOREM UncachedPrivate ==
  Spec => []UncachedBlocksArePrivate
<1>1. Inv => UncachedBlocksArePrivate
  <2> SUFFICES ASSUME Inv, NEW r \in Requests, NEW i \in DOMAIN req_to_blocks[r],
                      i > num_cached_block[r]
               PROVE  /\ block_hash[req_to_blocks[r][i]] = NoHash
                      /\ Holders(req_to_blocks[r][i]) = {r}
    BY DEF UncachedBlocksArePrivate
  <2>1. /\ block_hash[req_to_blocks[r][i]] = NoHash
        /\ \A q \in Requests : req_to_blocks[r][i] \in ToSet(req_to_blocks[q]) => q = r
    BY DEF Inv, Coherent
  <2>2. req_to_blocks[r][i] \in ToSet(req_to_blocks[r])
    BY DEF ToSet
  <2> QED BY <2>1, <2>2 DEF Holders
<1> QED BY <1>1, InvariantHolds, PTL

\* Requests that share a block share the prefix it holds, at the same position.
THEOREM SharingIsSound ==
  Spec => []SharedBlocksSamePrefix
<1>1. Inv => SharedBlocksSamePrefix
  BY DEF Inv, Coherent, SharedBlocksSamePrefix
<1> QED BY <1>1, InvariantHolds, PTL

\* The hash of a block in use is the prefix of each of its users.
THEOREM HashesMatchHolders ==
  Spec => []HashMatchesHolders
<1>1. Inv => HashMatchesHolders
  BY Zenon DEF Inv, Coherent, HashMatchesHolders
<1> QED BY <1>1, InvariantHolds, PTL

\* The common prefix that cascade attention computes once is common to all
\* requests with a table: a block whose count is the number of tables is named
\* by every table, and at the same index.
THEOREM CascadePrefixSound ==
  Spec => []CommonPrefixIsCommon
<1>1. Inv => CommonPrefixIsCommon
  <2> DEFINE Active == {x \in Requests : req_to_blocks[x] # << >>}
  <2> SUFFICES ASSUME Inv, NEW q \in Active, NEW r \in Active,
                      NEW n \in NumCommonPrefixBlocks(q)
               PROVE  /\ n <= Len(req_to_blocks[r])
                      /\ \A i \in 1..n : req_to_blocks[r][i] = req_to_blocks[q][i]
    BY DEF CommonPrefixIsCommon
  <2>1. /\ n \in 0..Len(req_to_blocks[q])
        /\ \A i \in 1..n : ref_cnt[req_to_blocks[q][i]] = Cardinality(Active)
    BY DEF NumCommonPrefixBlocks
  <2>2. /\ req_to_blocks[q] \in Seq(Blocks) /\ req_to_blocks[r] \in Seq(Blocks)
        /\ \A x \in Requests : req_to_blocks[x] \in Seq(Blocks)
    BY DEF Inv, TablesOK
  <2>3. ASSUME NEW i \in 1..n
        PROVE  i \in DOMAIN req_to_blocks[r] /\ req_to_blocks[r][i] = req_to_blocks[q][i]
    <3> DEFINE b == req_to_blocks[q][i]
               H == HoldersIn(req_to_blocks, b)
    <3>1. i \in DOMAIN req_to_blocks[q] /\ b \in Blocks
      BY <2>1, <2>2
    <3>2. H \subseteq Active
      BY <2>2 DEF HoldersIn, ToSet
    <3>3. IsFiniteSet(Active)
      BY KVAssumption, FS_Subset
    <3>4. Cardinality(H) = Cardinality(Active)
      BY <2>1, <3>1 DEF Inv, Counted
    <3> HIDE DEF H, Active
    <3>5. H = Active
      BY <3>2, <3>3, <3>4, FS_Subset
    <3>6. r \in HoldersIn(req_to_blocks, b)
      BY <3>5 DEF H
    <3>7. PICK j \in DOMAIN req_to_blocks[r] : req_to_blocks[r][j] = b
      BY <3>6 DEF HoldersIn, ToSet
    <3>8. r # q => j = i
      BY SMTT(30), <3>1, <3>7 DEF Inv, Coherent, Active
    <3> QED BY SMTT(30), <3>1, <3>7, <3>8
  <2>4. n <= Len(req_to_blocks[r])
    <3>1. CASE n = 0
      BY <2>2, <3>1
    <3>2. CASE n # 0
      <4>1. n \in 1..n
        BY <2>1, <3>2
      <4>2. n \in DOMAIN req_to_blocks[r]
        BY <2>3, <4>1
      <4> QED BY <2>2, <4>2
    <3> QED BY <3>1, <3>2
  <2> QED BY <2>3, <2>4
<1> QED BY <1>1, InvariantHolds, PTL
=============================================================================
