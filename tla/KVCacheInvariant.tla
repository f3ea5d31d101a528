-------------------------- MODULE KVCacheInvariant --------------------------
(***************************************************************************)
(* The inductive invariant of the KV cache manager and what its parts say  *)
(* about hashing, hits, taking and evicting blocks.                        *)
(*                                                                         *)
(* Inv is split into the part on reference counts and the free queue       *)
(* (Counted) and the part on hashes and block tables (Coherent).  Both     *)
(* take the data as parameters, so that an allocation can be followed in   *)
(* two stages: taking and evicting blocks, then caching the full ones.     *)
(***************************************************************************)
EXTENDS KVCacheManager, BlockListTheorems

\* The hash of a block is in the map, under the block's id, and nothing else is.
MapOf(hash) == {<<hash[b], b>> : b \in {c \in Blocks : hash[c] # NoHash}}

\* Hashes, map and tables agree with each other and with the tokens.
Coherent(hash, map, tables, ncb, toks) ==
    /\ hash \in [Blocks -> Seq(Token)]
    /\ map = MapOf(hash)
    /\ ncb \in [Requests -> Nat \cup {Absent}]
    /\ \A r \in Requests : \A i \in DOMAIN tables[r] :
           i > ncb[r] => /\ hash[tables[r][i]] = NoHash
                         /\ \A q \in Requests : tables[r][i] \in ToSet(tables[q]) => q = r
    /\ \A q, r \in Requests : \A i \in DOMAIN tables[q], j \in DOMAIN tables[r] :
           (q # r /\ tables[q][i] = tables[r][j]) =>
               /\ i = j
               /\ i * BlockSize <= Len(toks[q])
               /\ BlockHash(toks[q], i) = BlockHash(toks[r], i)
    /\ \A r \in Requests : \A i \in DOMAIN tables[r] :
           hash[tables[r][i]] # NoHash =>
               /\ i * BlockSize <= Len(toks[r])
               /\ hash[tables[r][i]] = BlockHash(toks[r], i)

\* Block tables are lists of blocks without duplicates.
TablesOK(tables) ==
    /\ tables \in [Requests -> Seq(Blocks)]
    /\ \A r \in Requests : IsInjective(tables[r])

\* Reference counts and free queue agree with the tables.
HoldersIn(tables, b) == {r \in Requests : b \in ToSet(tables[r])}
Counted(rc, queue, tables) ==
    /\ rc \in [Blocks -> Nat]
    /\ \A b \in Blocks : rc[b] = Cardinality(HoldersIn(tables, b))
    /\ queue \in Seq(Blocks)
    /\ IsInjective(queue)
    /\ ToSet(queue) = {b \in Blocks : rc[b] = 0}

TokensOK(toks) ==
    /\ toks \in [Requests -> Seq(Token)]
    /\ \A r \in Requests : Len(toks[r]) <= MaxModelLen

Inv ==
    /\ TablesOK(req_to_blocks)
    /\ Counted(ref_cnt, free_queue, req_to_blocks)
    /\ Coherent(block_hash, cached, req_to_blocks, num_cached_block, all_token_ids)
    /\ TokensOK(all_token_ids)
    /\ ~EnableCaching => cached = {}

-----------------------------------------------------------------------------
(* Block hashes. *)

\* The hash of a full block is a non-empty prefix whose length tells the index
\* of the block (the chain of hash_block_tokens).
LEMMA BlockHashLength ==
  ASSUME NEW toks \in Seq(Token), NEW i \in Nat \ {0}, i * BlockSize <= Len(toks)
  PROVE  /\ BlockHash(toks, i) \in Seq(Token)
         /\ Len(BlockHash(toks, i)) = i * BlockSize
         /\ BlockHash(toks, i) # NoHash
<1>1. i * BlockSize \in Nat /\ i * BlockSize > 0
  BY KVAssumption
<1> DEFINE m == i * BlockSize
<1>2. m \in 1..Len(toks)
  BY <1>1
<1> HIDE DEF m
<1>3. /\ SubSeq(toks, 1, m) \in Seq(Token) /\ Len(SubSeq(toks, 1, m)) = m
      /\ SubSeq(toks, 1, m) # << >>
  BY <1>2
<1> QED BY <1>3 DEF m, BlockHash, NoHash

\* Equal hashes belong to equal indices.
LEMMA BlockHashIndex ==
  ASSUME NEW s \in Seq(Token), NEW t \in Seq(Token),
         NEW i \in Nat \ {0}, i * BlockSize <= Len(s),
         NEW j \in Nat \ {0}, j * BlockSize <= Len(t),
         BlockHash(s, i) = BlockHash(t, j)
  PROVE  i = j
<1>1. i * BlockSize = j * BlockSize
  BY BlockHashLength
<1> QED BY <1>1, KVAssumption

\* An appended token changes no hash of a full block (block_hashes only grows).
LEMMA BlockHashAppend ==
  ASSUME NEW toks \in Seq(Token), NEW t \in Token,
         NEW i \in Nat \ {0}, i * BlockSize <= Len(toks)
  PROVE  BlockHash(Append(toks, t), i) = BlockHash(toks, i)
<1>1. i * BlockSize \in Nat
  BY KVAssumption
<1> DEFINE m == i * BlockSize
<1> HIDE DEF m
<1>2. m \in Nat /\ m <= Len(toks)
  BY <1>1 DEF m
<1>3. SubSeq(Append(toks, t), 1, m) = SubSeq(toks, 1, m)
  BY <1>2
<1> QED BY Zenon, <1>3 DEF BlockHash, m

-----------------------------------------------------------------------------
(* Caching full blocks. *)

\* cache_full_blocks keeps hashes, map and tables coherent when the blocks it
\* caches lie beyond those already cached and are filled by known tokens.
LEMMA CachingKeepsCoherent ==
  ASSUME NEW hash, NEW map, NEW tables, NEW ncb, NEW toks,
         TablesOK(tables), TokensOK(toks), Coherent(hash, map, tables, ncb, toks),
         NEW r \in Requests, NEW k \in Nat, k >= ncb[r],
         NEW tokens \in Nat, tokens <= Len(toks[r]), k < tokens \div BlockSize
  PROVE  LET full == tokens \div BlockSize
         IN  Coherent(HashAfterCache(hash, tables[r], k, full, toks[r]),
                      CachedAfterCache(map, tables[r], k, full, toks[r]),
                      tables, [ncb EXCEPT ![r] = full], toks)
<1> DEFINE full == tokens \div BlockSize
           tab == tables[r]
           J == NewlyFull(tab, k, full)
           hash2 == HashAfterCache(hash, tab, k, full, toks[r])
           map2 == CachedAfterCache(map, tab, k, full, toks[r])
           ncb2 == [ncb EXCEPT ![r] = full]
<1>1. full \in Nat /\ ncb2 \in [Requests -> Nat \cup {Absent}]
  BY KVAssumption DEF Coherent
<1>2. tab \in Seq(Blocks) /\ IsInjective(tab) /\ toks[r] \in Seq(Token)
  BY DEF TablesOK, TokensOK
<1>3. \A i \in J : i \in DOMAIN tab /\ i \in Nat \ {0} /\ i > k /\ i <= full
  BY <1>1, <1>2 DEF NewlyFull, Lesser
<1>4. \A i \in J : i * BlockSize <= Len(toks[r])
  <2> TAKE i \in J
  <2> DEFINE m == i * BlockSize
  <2>1. m <= tokens
    BY <1>3, KVAssumption, FullBlockFits
  <2>a. m \in Nat
    BY <1>3, KVAssumption
  <2>2. Len(toks[r]) \in Nat
    BY <1>2
  <2> HIDE DEF m
  <2>3. m <= Len(toks[r])
    BY <2>1, <2>a, <2>2
  <2> QED BY <2>3 DEF m
<1>5. \A i \in DOMAIN tab : i > k =>
         /\ tab[i] \in Blocks /\ hash[tab[i]] = NoHash
         /\ \A q \in Requests : tab[i] \in ToSet(tables[q]) => q = r
  <2>1. ncb[r] \in Int
    BY DEF Coherent, Absent
  <2> QED BY <1>2, <2>1 DEF Coherent
<1>6. \A i \in J : BlockHash(toks[r], i) \in Seq(Token) /\ BlockHash(toks[r], i) # NoHash
  BY <1>2, <1>3, <1>4, BlockHashLength
<1>7. /\ \A i \in J : hash2[tab[i]] = BlockHash(toks[r], i)
      /\ \A b \in Blocks : (\A i \in J : tab[i] # b) => hash2[b] = hash[b]
  <2>1. ASSUME NEW i \in J PROVE hash2[tab[i]] = BlockHash(toks[r], i)
    <3>1. tab[i] \in Blocks
      BY <1>3, <1>5
    <3>2. (CHOOSE j \in J : tab[j] = tab[i]) = i
      BY <1>2, <1>3 DEF IsInjective
    <3> QED BY Zenon, <3>1, <3>2 DEF HashAfterCache
  <2> QED BY Zenon, <2>1 DEF HashAfterCache
<1>8. hash2 \in [Blocks -> Seq(Token)]
  <2>1. hash2 = [b \in Blocks |-> hash2[b]]
    BY DEF HashAfterCache
  <2>2. \A b \in Blocks : hash2[b] \in Seq(Token)
    BY <1>6, <1>7 DEF Coherent
  <2> HIDE DEF hash2
  <2> QED BY <2>1, <2>2
<1> HIDE DEF hash2, J
<1>9. map2 = MapOf(hash2)
  <2>1. map2 = map \cup {<<BlockHash(toks[r], i), tab[i]>> : i \in J}
    BY DEF CachedAfterCache, J
  <2>2. map = MapOf(hash)
    BY DEF Coherent
  <2>3. \A b \in Blocks : hash[b] # NoHash => hash2[b] = hash[b]
    BY <1>3, <1>5, <1>7
  <2>4. map2 \subseteq MapOf(hash2)
    BY SMTT(30), <1>3, <1>5, <1>6, <1>7, <2>1, <2>2, <2>3 DEF MapOf
  <2>5. ASSUME NEW b \in Blocks, hash2[b] # NoHash
        PROVE  <<hash2[b], b>> \in map2
    BY <1>7, <2>1, <2>2, <2>5 DEF MapOf
  <2>6. MapOf(hash2) \subseteq map2
    BY <2>5 DEF MapOf
  <2> QED BY Zenon, <2>4, <2>6
<1>10. ASSUME NEW q \in Requests, NEW i \in DOMAIN tables[q], i > ncb2[q]
       PROVE  /\ hash2[tables[q][i]] = NoHash
              /\ \A p \in Requests : tables[q][i] \in ToSet(tables[p]) => p = q
  <2>1. tables[q] \in Seq(Blocks) /\ tables[q][i] \in Blocks /\ i \in Nat
    BY DEF TablesOK
  <2>2. CASE q = r
    <3>1. i > full /\ i > k
      BY <1>1, <1>10, <2>1, <2>2 DEF Coherent
    <3>2. \A j \in J : tab[j] # tables[q][i]
      BY SMTT(30), <1>1, <1>2, <1>3, <2>1, <2>2, <3>1 DEF IsInjective
    <3> QED BY SMTT(30), <1>5, <1>7, <2>1, <2>2, <3>1, <3>2
  <2>3. CASE q # r
    <3>1. i > ncb[q]
      BY <1>10, <2>3 DEF Coherent
    <3>2. /\ hash[tables[q][i]] = NoHash
          /\ \A p \in Requests : tables[q][i] \in ToSet(tables[p]) => p = q
      BY <3>1 DEF Coherent
    <3>3. \A j \in J : tab[j] # tables[q][i]
      BY <1>3, <2>3, <3>2 DEF ToSet
    <3> QED BY <1>7, <2>1, <3>2, <3>3
  <2> QED BY <2>2, <2>3
<1>11. ASSUME NEW q \in Requests, NEW i \in DOMAIN tables[q],
              hash2[tables[q][i]] # NoHash
       PROVE  /\ i * BlockSize <= Len(toks[q])
              /\ hash2[tables[q][i]] = BlockHash(toks[q], i)
  <2>1. tables[q][i] \in Blocks
    BY DEF TablesOK
  <2>2. CASE \E j \in J : tab[j] = tables[q][i]
    <3>1. PICK j \in J : tab[j] = tables[q][i]
      BY <2>2
    <3>2. q = r
      BY <1>3, <1>5, <3>1 DEF ToSet
    <3>3. i = j
      BY <1>2, <1>3, <3>1, <3>2 DEF IsInjective
    <3> QED BY <1>4, <1>7, <3>1, <3>2, <3>3
  <2>3. CASE \A j \in J : tab[j] # tables[q][i]
    <3>1. hash2[tables[q][i]] = hash[tables[q][i]]
      BY <1>7, <2>1, <2>3
    <3> QED BY <1>11, <3>1 DEF Coherent
  <2> QED BY <2>2, <2>3
<1>12. \A q, p \in Requests : \A i \in DOMAIN tables[q], j \in DOMAIN tables[p] :
          (q # p /\ tables[q][i] = tables[p][j]) =>
              /\ i = j
              /\ i * BlockSize <= Len(toks[q])
              /\ BlockHash(toks[q], i) = BlockHash(toks[p], i)
  BY DEF Coherent
<1> HIDE DEF map2, ncb2
<1>13. Coherent(hash2, map2, tables, ncb2, toks)
  BY SMTT(30), <1>1, <1>8, <1>9, <1>10, <1>11, <1>12 DEF Coherent
<1> QED BY <1>13 DEF hash2, map2, ncb2

-----------------------------------------------------------------------------
(* Taking blocks. *)

\* What allocate_slots may be called with: a table is extended by hit blocks
\* only when it is empty, and the hits are cached under the request's prefix.
HitOK(r, hit) ==
    /\ hit \in Seq(Blocks)
    /\ hit # << >> => req_to_blocks[r] = << >>
    /\ \A i \in DOMAIN hit : /\ i * BlockSize <= Len(all_token_ids[r])
                             /\ <<BlockHash(all_token_ids[r], i), hit[i]>> \in cached

\* A block that has a place in the map has that hash.
LEMMA CachedHash ==
  ASSUME Inv, NEW h, NEW b, <<h, b>> \in cached
  PROVE  b \in Blocks /\ block_hash[b] = h /\ h # NoHash
BY DEF Inv, Coherent, MapOf

\* The hit blocks are pairwise distinct: they are cached under prefixes of
\* different lengths.
LEMMA HitInjective ==
  ASSUME Inv, NEW r \in Requests, NEW hit, HitOK(r, hit)
  PROVE  IsInjective(hit)
<1> SUFFICES ASSUME NEW i \in DOMAIN hit, NEW j \in DOMAIN hit, hit[i] = hit[j]
             PROVE  i = j
  BY DEF IsInjective
<1>1. i \in Nat \ {0} /\ j \in Nat \ {0}
  BY DEF HitOK
<1>2. BlockHash(all_token_ids[r], i) = BlockHash(all_token_ids[r], j)
  <2>1. /\ <<BlockHash(all_token_ids[r], i), hit[i]>> \in cached
        /\ <<BlockHash(all_token_ids[r], j), hit[j]>> \in cached
    BY DEF HitOK
  <2>2. block_hash[hit[i]] = BlockHash(all_token_ids[r], i)
    BY <2>1, CachedHash
  <2>3. block_hash[hit[j]] = BlockHash(all_token_ids[r], j)
    BY <2>1, CachedHash
  <2> QED BY <2>2, <2>3
<1>3. all_token_ids[r] \in Seq(Token)
  BY DEF Inv, TokensOK
<1> QED BY Zenon, <1>1, <1>2, <1>3, BlockHashIndex DEF HitOK

\* A block with no holders is in no table; the free queue holds only such blocks.
LEMMA FreeBlockUnheld ==
  ASSUME Inv, NEW b \in ToSet(free_queue), NEW r \in Requests
  PROVE  b \notin ToSet(req_to_blocks[r])
<1>1. b \in Blocks /\ Cardinality(HoldersIn(req_to_blocks, b)) = 0
  BY DEF Inv, Counted
<1>2. HoldersIn(req_to_blocks, b) \in SUBSET Requests
  BY DEF HoldersIn
<1>3. IsFiniteSet(HoldersIn(req_to_blocks, b))
  BY <1>2, FS_Subset, KVAssumption
<1>4. HoldersIn(req_to_blocks, b) = {}
  BY <1>1, <1>3, FS_EmptySet
<1> QED BY <1>4 DEF HoldersIn

\* The lists an allocation of n new blocks works with: what is left of the
\* free queue, and the blocks added to the table, none of which is in it yet.
LEMMA TakenBlocks ==
  ASSUME Inv, NEW r \in Requests, NEW hit, HitOK(r, hit), NEW n \in Nat,
         n <= Len(Excluding(free_queue, ToSet(hit)))
  PROVE  LET queue == Excluding(free_queue, ToSet(hit))
             fresh == SubSeq(queue, 1, n)
             rest == SubSeq(queue, n + 1, Len(queue))
             taken == hit \o fresh
             table == req_to_blocks[r] \o taken
         IN  /\ fresh \in Seq(Blocks) /\ rest \in Seq(Blocks) /\ IsInjective(rest)
             /\ Len(fresh) = n
             /\ ToSet(fresh) \subseteq ToSet(free_queue) \ ToSet(hit)
             /\ ToSet(rest) = ToSet(free_queue) \ ToSet(taken)
             /\ taken \in Seq(Blocks) /\ IsInjective(taken)
             /\ ToSet(taken) = ToSet(hit) \cup ToSet(fresh)
             /\ ToSet(taken) \cap ToSet(req_to_blocks[r]) = {}
             /\ table \in Seq(Blocks) /\ IsInjective(table)
             /\ ToSet(table) = ToSet(req_to_blocks[r]) \cup ToSet(taken)
<1> DEFINE queue == Excluding(free_queue, ToSet(hit))
           fresh == SubSeq(queue, 1, n)
           rest == SubSeq(queue, n + 1, Len(queue))
           taken == hit \o fresh
           old == req_to_blocks[r]
           table == old \o taken
<1>1. /\ queue \in Seq(Blocks) /\ IsInjective(queue)
      /\ ToSet(queue) = ToSet(free_queue) \ ToSet(hit)
  BY ExcludingProperties DEF Inv, Counted
<1>2. n \in 0..Len(queue)
  BY <1>1
<1> HIDE DEF queue
<1>3. /\ fresh \in Seq(Blocks) /\ Len(fresh) = n /\ IsInjective(fresh)
      /\ rest \in Seq(Blocks) /\ IsInjective(rest)
      /\ ToSet(fresh) \cup ToSet(rest) = ToSet(queue)
      /\ ToSet(fresh) \cap ToSet(rest) = {}
  BY <1>1, <1>2, SplitList
<1> HIDE DEF fresh, rest
<1>4. hit \in Seq(Blocks) /\ IsInjective(hit)
  BY HitInjective DEF HitOK
<1>5. ToSet(hit) \cap ToSet(fresh) = {}
  BY <1>1, <1>3
<1>6. taken \in Seq(Blocks) /\ IsInjective(taken) /\ ToSet(taken) = ToSet(hit) \cup ToSet(fresh)
  BY <1>3, <1>4, <1>5, ConcatLists
<1> HIDE DEF taken
<1>7. old \in Seq(Blocks) /\ IsInjective(old)
  BY DEF Inv, TablesOK
<1>8. ToSet(taken) \cap ToSet(old) = {}
  <2>1. ToSet(fresh) \cap ToSet(old) = {}
    BY <1>1, <1>3, FreeBlockUnheld
  <2>2. ToSet(hit) \cap ToSet(old) = {}
    <3>1. CASE hit = << >>
      BY <3>1 DEF ToSet
    <3>2. CASE hit # << >>
      BY <3>2 DEF ToSet, HitOK
    <3> QED BY <3>1, <3>2
  <2> QED BY <1>6, <2>1, <2>2
<1>9. table \in Seq(Blocks) /\ IsInjective(table) /\ ToSet(table) = ToSet(old) \cup ToSet(taken)
  BY <1>6, <1>7, <1>8, ConcatLists
<1>10. ToSet(rest) = ToSet(free_queue) \ ToSet(taken)
  BY <1>1, <1>3, <1>6
<1> QED BY <1>1, <1>3, <1>6, <1>8, <1>9, <1>10 DEF queue, fresh, rest, taken

\* Taking blocks for a request keeps reference counts and free queue exact.
LEMMA TakingKeepsCounted ==
  ASSUME Inv, NEW r \in Requests, NEW taken \in Seq(Blocks), IsInjective(taken),
         ToSet(taken) \cap ToSet(req_to_blocks[r]) = {},
         NEW rest \in Seq(Blocks), IsInjective(rest),
         ToSet(rest) = ToSet(free_queue) \ ToSet(taken)
  PROVE  Counted([b \in Blocks |-> ref_cnt[b] + Occurrences(taken, b)], rest,
                 [req_to_blocks EXCEPT ![r] = req_to_blocks[r] \o taken])
<1> DEFINE rc == [b \in Blocks |-> ref_cnt[b] + Occurrences(taken, b)]
           tables == [req_to_blocks EXCEPT ![r] = req_to_blocks[r] \o taken]
           H(b) == HoldersIn(req_to_blocks, b)
           H2(b) == HoldersIn(tables, b)
<1>1. /\ req_to_blocks \in [Requests -> Seq(Blocks)]
      /\ ref_cnt \in [Blocks -> Nat]
      /\ \A b \in Blocks : ref_cnt[b] = Cardinality(H(b))
      /\ ToSet(free_queue) = {b \in Blocks : ref_cnt[b] = 0}
  BY DEF Inv, TablesOK, Counted
<1>2. ToSet(tables[r]) = ToSet(req_to_blocks[r]) \cup ToSet(taken)
  BY <1>1, ConcatLists
<1>3. \A q \in Requests : q # r => tables[q] = req_to_blocks[q]
  BY <1>1
<1>4. \A b \in Blocks : rc[b] = IF b \in ToSet(taken) THEN ref_cnt[b] + 1 ELSE ref_cnt[b]
  BY <1>1, OccurrencesInjective
<1> HIDE DEF tables
<1>5. ASSUME NEW b \in Blocks PROVE rc[b] = Cardinality(H2(b))
  <2>1. H(b) \in SUBSET Requests /\ IsFiniteSet(H(b))
    BY FS_Subset, KVAssumption DEF HoldersIn
  <2>2. CASE b \in ToSet(taken)
    <3>1. H2(b) = H(b) \cup {r} /\ r \notin H(b)
      BY <1>2, <1>3, <2>2 DEF HoldersIn
    <3>2. Cardinality(H2(b)) = Cardinality(H(b)) + 1
      BY Zenon, <2>1, <3>1, FS_AddElement
    <3> QED BY <1>1, <1>4, <2>2, <3>2
  <2>3. CASE b \notin ToSet(taken)
    <3>1. H2(b) = H(b)
      BY <1>2, <1>3, <2>3 DEF HoldersIn
    <3> QED BY <1>1, <1>4, <2>3, <3>1
  <2> QED BY <2>2, <2>3
<1>6. rc \in [Blocks -> Nat]
  BY <1>1, <1>4
<1>7. ToSet(rest) = {b \in Blocks : rc[b] = 0}
  BY <1>1, <1>4
<1> HIDE DEF rc
<1>8. Counted(rc, rest, tables)
  BY <1>5, <1>6, <1>7 DEF Counted
<1> QED BY <1>8 DEF rc, tables

-----------------------------------------------------------------------------
(* Eviction. *)

\* _maybe_evict_cached_block clears the hash of every block it is given and
\* removes its entry: the map always has the entry a hash promises.
LEMMA Evicting ==
  ASSUME Inv, NEW S
  PROVE  /\ HashAfterEvict(S) = [b \in Blocks |-> IF b \in S THEN NoHash ELSE block_hash[b]]
         /\ HashAfterEvict(S) \in [Blocks -> Seq(Token)]
         /\ CachedAfterEvict(S) = MapOf(HashAfterEvict(S))
<1> DEFINE h2 == [b \in Blocks |-> IF b \in S THEN NoHash ELSE block_hash[b]]
<1>1. block_hash \in [Blocks -> Seq(Token)] /\ cached = MapOf(block_hash)
  BY DEF Inv, Coherent
<1>2. \A b \in Blocks : <<block_hash[b], b>> \in cached <=> block_hash[b] # NoHash
  BY <1>1 DEF MapOf
<1>3. HashAfterEvict(S) = h2
  BY <1>2 DEF HashAfterEvict
<1>4. h2 \in [Blocks -> Seq(Token)]
  BY <1>1 DEF NoHash
<1>5. CachedAfterEvict(S) \subseteq MapOf(h2)
  BY <1>1 DEF CachedAfterEvict, MapOf
<1>6. MapOf(h2) \subseteq CachedAfterEvict(S)
  <2> SUFFICES ASSUME NEW b \in Blocks, h2[b] # NoHash
               PROVE  <<h2[b], b>> \in CachedAfterEvict(S)
    BY Zenon DEF MapOf
  <2>1. b \notin S /\ h2[b] = block_hash[b]
    OBVIOUS
  <2>2. <<block_hash[b], b>> \in cached
    BY <1>2, <2>1
  <2>3. <<block_hash[b], b>> \notin {<<block_hash[c], c>> : c \in S}
    BY <2>1
  <2> QED BY <2>1, <2>2, <2>3 DEF CachedAfterEvict
<1> QED BY Zenon, <1>3, <1>4, <1>5, <1>6

\* Forgetting hashes keeps hashes, map and tables coherent.
LEMMA EvictingKeepsCoherent ==
  ASSUME Inv, NEW S
  PROVE  Coherent(HashAfterEvict(S), CachedAfterEvict(S), req_to_blocks,
                  num_cached_block, all_token_ids)
<1> DEFINE h2 == HashAfterEvict(S)
<1>1. /\ h2 \in [Blocks -> Seq(Token)] /\ CachedAfterEvict(S) = MapOf(h2)
      /\ \A b \in Blocks : h2[b] = IF b \in S THEN NoHash ELSE block_hash[b]
  BY Evicting
<1> HIDE DEF h2
<1>2. \A q \in Requests : \A i \in DOMAIN req_to_blocks[q] : req_to_blocks[q][i] \in Blocks
  BY DEF Inv, TablesOK
<1>3. Coherent(block_hash, cached, req_to_blocks, num_cached_block, all_token_ids)
  BY DEF Inv
<1>4. Coherent(h2, CachedAfterEvict(S), req_to_blocks, num_cached_block, all_token_ids)
  BY <1>1, <1>2, <1>3 DEF Coherent
<1> QED BY <1>4 DEF h2
=============================================================================
