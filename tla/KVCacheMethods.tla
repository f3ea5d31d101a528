--------------------------- MODULE KVCacheMethods ---------------------------
(***************************************************************************)
(* Every method of the KV cache manager that changes its state keeps the   *)
(* invariant: allocate_slots, free, cache_blocks, evict_blocks and         *)
(* reset_prefix_cache.                                                     *)
(***************************************************************************)
EXTENDS KVCacheInvariant

\* Extending a table by hit and fresh blocks, and forgetting what the fresh
\* ones cached, keeps hashes, map and tables coherent.
LEMMA TakingKeepsCoherent ==
  ASSUME Inv, NEW r \in Requests, NEW hit, HitOK(r, hit),
         NEW fresh \in Seq(Blocks),
         ToSet(fresh) \subseteq ToSet(free_queue) \ ToSet(hit),
         NEW k0 \in Nat \cup {Absent},
         \/ hit = << >> /\ k0 = num_cached_block[r]
         \/ req_to_blocks[r] = << >> /\ k0 = Len(hit)
  PROVE  LET E == IF EnableCaching THEN ToSet(fresh) ELSE {}
         IN  Coherent(HashAfterEvict(E), CachedAfterEvict(E),
                 [req_to_blocks EXCEPT ![r] = req_to_blocks[r] \o (hit \o fresh)],
                 [num_cached_block EXCEPT ![r] = k0], all_token_ids)
<1> DEFINE E == IF EnableCaching THEN ToSet(fresh) ELSE {}
           h2 == HashAfterEvict(E)
           old == req_to_blocks[r]
           table == old \o (hit \o fresh)
           tables == [req_to_blocks EXCEPT ![r] = table]
           ncb == [num_cached_block EXCEPT ![r] = k0]
           toks == all_token_ids
<1>1. /\ req_to_blocks \in [Requests -> Seq(Blocks)]
      /\ toks \in [Requests -> Seq(Token)]
      /\ num_cached_block \in [Requests -> Nat \cup {Absent}]
      /\ block_hash \in [Blocks -> Seq(Token)]
      /\ hit \in Seq(Blocks)
  BY DEF Inv, TablesOK, TokensOK, Coherent, HitOK
<1>2. /\ h2 \in [Blocks -> Seq(Token)] /\ CachedAfterEvict(E) = MapOf(h2)
      /\ \A b \in Blocks : h2[b] = IF b \in E THEN NoHash ELSE block_hash[b]
  BY Evicting
<1>3. \A b \in ToSet(fresh) : b \in Blocks /\ h2[b] = NoHash
  <2> TAKE b \in ToSet(fresh)
  <2>1. b \in Blocks
    BY DEF ToSet
  <2>2. CASE EnableCaching
    BY <1>2, <2>1, <2>2
  <2>3. CASE ~EnableCaching
    <3>1. block_hash[b] = NoHash
      <4>1. MapOf(block_hash) = {}
        BY <2>3 DEF Inv, Coherent
      <4> QED BY Zenon, <2>1, <4>1 DEF MapOf
    <3> QED BY <1>2, <2>1, <3>1
  <2> QED BY <2>1, <2>2, <2>3
<1>4. \A b \in Blocks : h2[b] # NoHash => h2[b] = block_hash[b]
  BY <1>2
<1>5. \A b \in Blocks : b \notin ToSet(fresh) => h2[b] = block_hash[b]
  BY <1>2
<1> HIDE DEF h2
<1>6. \A q \in Requests : \A b \in ToSet(fresh) : b \notin ToSet(req_to_blocks[q])
  BY FreeBlockUnheld
<1>7. \A i \in DOMAIN hit : /\ hit[i] \in Blocks /\ i \in Nat \ {0}
                            /\ hit[i] \notin ToSet(fresh)
                            /\ i * BlockSize <= Len(toks[r])
                            /\ block_hash[hit[i]] = BlockHash(toks[r], i)
                            /\ block_hash[hit[i]] # NoHash
  <2> TAKE i \in DOMAIN hit
  <2>1. <<BlockHash(toks[r], i), hit[i]>> \in cached /\ i * BlockSize <= Len(toks[r])
    BY DEF HitOK
  <2>2. block_hash[hit[i]] = BlockHash(toks[r], i) /\ block_hash[hit[i]] # NoHash
    BY <2>1, CachedHash
  <2>3. hit[i] \in ToSet(hit)
    BY DEF ToSet
  <2> QED BY <1>1, <2>1, <2>2, <2>3
<1>8. tables[r] = table /\ \A q \in Requests : q # r => tables[q] = req_to_blocks[q]
  BY Zenon, <1>1
<1>9. \A i \in DOMAIN table :
         \/ i \in DOMAIN old /\ table[i] = old[i]
         \/ old = << >> /\ i \in DOMAIN hit /\ table[i] = hit[i]
         \/ table[i] \in ToSet(fresh) /\ i > Len(old) /\ i > Len(hit)
  <2> TAKE i \in DOMAIN table
  <2>1. old \in Seq(Blocks) /\ Len(old) \in Nat /\ Len(hit) \in Nat
    BY <1>1
  <2>2. /\ i \in Nat \ {0}
        /\ \/ i \in DOMAIN old /\ table[i] = old[i]
           \/ i > Len(old) /\ i - Len(old) \in DOMAIN hit /\ table[i] = hit[i - Len(old)]
           \/ i > Len(old) + Len(hit) /\ table[i] \in ToSet(fresh)
    BY Zenon, <1>1, <2>1, ThreeParts
  <2> HIDE DEF table
  <2>3. CASE i > Len(old) /\ i - Len(old) \in DOMAIN hit /\ table[i] = hit[i - Len(old)]
    <3>1. hit # << >>
      BY <2>3
    <3>2. old = << >>
      BY <3>1 DEF HitOK
    <3>3. i - Len(old) = i
      BY <2>2, <3>2
    <3> QED BY <2>3, <3>2, <3>3
  <2>4. CASE i > Len(old) + Len(hit) /\ table[i] \in ToSet(fresh)
    BY <2>1, <2>2, <2>4
  <2> QED BY <2>2, <2>3, <2>4
<1>10. \A q \in Requests : \A i \in DOMAIN req_to_blocks[q] :
          /\ req_to_blocks[q][i] \in Blocks /\ i \in Nat \ {0}
          /\ req_to_blocks[q][i] \in ToSet(req_to_blocks[q])
  <2> TAKE q \in Requests
  <2>1. req_to_blocks[q] \in Seq(Blocks)
    BY <1>1
  <2> TAKE i \in DOMAIN req_to_blocks[q]
  <2>2. req_to_blocks[q][i] \in Blocks /\ i \in Nat \ {0}
    BY <2>1
  <2> QED BY <2>2 DEF ToSet
<1>11. Coherent(block_hash, cached, req_to_blocks, num_cached_block, toks)
  BY DEF Inv
<1> HIDE DEF table, tables
\* A block shared with another request is an old or a hit block of this one.
<1>12. ASSUME NEW q \in Requests, q # r, NEW i \in DOMAIN req_to_blocks[q],
              NEW j \in DOMAIN table, req_to_blocks[q][i] = table[j]
       PROVE  /\ i = j
              /\ i * BlockSize <= Len(toks[q]) /\ i * BlockSize <= Len(toks[r])
              /\ BlockHash(toks[q], i) = BlockHash(toks[r], i)
  <2>1. CASE j \in DOMAIN old /\ table[j] = old[j]
    <3>1. /\ i = j /\ i * BlockSize <= Len(toks[q])
          /\ BlockHash(toks[q], i) = BlockHash(toks[r], i)
      BY <1>11, <1>12, <2>1 DEF Coherent
    <3>2. i * BlockSize <= Len(toks[r])
      BY <1>11, <1>12, <2>1, <3>1 DEF Coherent
    <3> QED BY <3>1, <3>2
  <2>2. CASE old = << >> /\ j \in DOMAIN hit /\ table[j] = hit[j]
    <3>1. /\ block_hash[req_to_blocks[q][i]] = BlockHash(toks[r], j)
          /\ block_hash[req_to_blocks[q][i]] # NoHash
      BY <1>7, <1>12, <2>2
    <3>2. /\ i * BlockSize <= Len(toks[q])
          /\ block_hash[req_to_blocks[q][i]] = BlockHash(toks[q], i)
      BY <1>11, <3>1 DEF Coherent
    <3>3. i = j
      BY Zenon, <1>1, <1>7, <1>10, <2>2, <3>1, <3>2, BlockHashIndex
    <3> QED BY Zenon, <1>7, <2>2, <3>1, <3>2, <3>3
  <2>3. CASE table[j] \in ToSet(fresh)
    BY <1>6, <1>10, <1>12, <2>3
  <2> QED BY SMTT(30), <1>9, <2>1, <2>2, <2>3
<1>13. ASSUME NEW p \in Requests, NEW q \in Requests,
              NEW i \in DOMAIN tables[p], NEW j \in DOMAIN tables[q],
              p # q, tables[p][i] = tables[q][j]
       PROVE  /\ i = j
              /\ i * BlockSize <= Len(toks[p])
              /\ BlockHash(toks[p], i) = BlockHash(toks[q], i)
  <2>1. CASE p = r
    BY <1>8, <1>12, <1>13, <2>1
  <2>2. CASE q = r
    BY <1>8, <1>12, <1>13, <2>2
  <2>3. CASE p # r /\ q # r
    <3>1. tables[p] = req_to_blocks[p] /\ tables[q] = req_to_blocks[q]
      BY <1>8, <2>3
    <3>2. /\ i \in DOMAIN req_to_blocks[p] /\ j \in DOMAIN req_to_blocks[q]
          /\ req_to_blocks[p][i] = req_to_blocks[q][j]
      BY <1>13, <3>1
    <3> QED BY <1>11, <1>13, <3>2 DEF Coherent
  <2> QED BY <2>1, <2>2, <2>3
\* The hash of a held block is still the prefix of its holders.
<1>14. ASSUME NEW q \in Requests, NEW i \in DOMAIN tables[q], h2[tables[q][i]] # NoHash
       PROVE  /\ i * BlockSize <= Len(toks[q])
              /\ h2[tables[q][i]] = BlockHash(toks[q], i)
  <2>1. CASE q # r
    BY SMTT(30), <1>4, <1>8, <1>10, <1>11, <1>14, <2>1 DEF Coherent
  <2>2. CASE q = r
    <3>1. CASE i \in DOMAIN old /\ table[i] = old[i]
      BY SMTT(30), <1>4, <1>8, <1>10, <1>11, <1>14, <2>2, <3>1 DEF Coherent
    <3>2. CASE i \in DOMAIN hit /\ table[i] = hit[i]
      BY SMTT(30), <1>4, <1>7, <1>8, <1>14, <2>2, <3>2
    <3>3. CASE table[i] \in ToSet(fresh)
      BY SMTT(30), <1>3, <1>8, <1>14, <2>2, <3>3
    <3> QED BY SMTT(30), <1>8, <1>9, <2>2, <3>1, <3>2, <3>3
  <2> QED BY <2>1, <2>2
\* A hit block has a hash, so it is none of the uncached blocks of a table.
<1>15. ASSUME NEW q \in Requests, NEW i \in DOMAIN req_to_blocks[q],
              i > num_cached_block[q]
       PROVE  /\ h2[req_to_blocks[q][i]] = NoHash
              /\ \A p \in Requests : req_to_blocks[q][i] \in ToSet(req_to_blocks[p]) => p = q
              /\ req_to_blocks[q][i] \notin ToSet(hit) \cup ToSet(fresh)
  <2>1. /\ block_hash[req_to_blocks[q][i]] = NoHash
        /\ \A p \in Requests : req_to_blocks[q][i] \in ToSet(req_to_blocks[p]) => p = q
    BY <1>11, <1>15 DEF Coherent
  <2>2. req_to_blocks[q][i] \notin ToSet(fresh)
    BY <1>6, <1>10
  <2>3. req_to_blocks[q][i] \notin ToSet(hit)
    BY <1>7, <2>1 DEF ToSet
  <2> QED BY SMTT(30), <1>5, <1>10, <2>1, <2>2, <2>3
<1>16. \A q \in Requests : ToSet(tables[q]) \subseteq
          ToSet(req_to_blocks[q]) \cup (IF q = r THEN ToSet(hit) \cup ToSet(fresh) ELSE {})
  <2>1. \A i \in DOMAIN table : table[i] \in ToSet(old) \cup ToSet(hit) \cup ToSet(fresh)
    BY <1>9 DEF ToSet
  <2>2. ToSet(table) \subseteq ToSet(old) \cup ToSet(hit) \cup ToSet(fresh)
    BY <2>1 DEF ToSet
  <2> QED BY <1>8, <2>2
<1>17. ASSUME NEW q \in Requests, NEW i \in DOMAIN tables[q], i > ncb[q]
       PROVE  /\ h2[tables[q][i]] = NoHash
              /\ \A p \in Requests : tables[q][i] \in ToSet(tables[p]) => p = q
  <2>1. CASE q # r
    <3>1. tables[q] = req_to_blocks[q] /\ i > num_cached_block[q]
      BY <1>1, <1>8, <1>17, <2>1
    <3> QED BY <1>15, <1>16, <3>1
  <2>2. CASE q = r
    <3>1. tables[q] = table /\ i > k0
      BY SMTT(30), <1>1, <1>8, <1>17, <2>2
    <3>2. CASE i \in DOMAIN old /\ table[i] = old[i]
      <4>1. k0 = num_cached_block[r]
        BY <3>2
      <4> QED BY SMTT(30), <1>15, <1>16, <2>2, <3>1, <3>2, <4>1
    <3>3. CASE i \in DOMAIN hit /\ table[i] = hit[i]
      <4>1. i <= Len(hit) /\ i \in Nat /\ Len(hit) \in Nat /\ Len(hit) > 0
        BY <1>1, <3>3
      <4>2. k0 = Len(hit)
        BY <4>1
      <4> QED BY <3>1, <4>1, <4>2
    <3>4. CASE table[i] \in ToSet(fresh)
      BY SMTT(30), <1>3, <1>6, <1>16, <2>2, <3>1, <3>4
    <3> QED BY SMTT(30), <1>9, <3>1, <3>2, <3>3, <3>4
  <2> QED BY <2>1, <2>2
<1>18. ncb \in [Requests -> Nat \cup {Absent}]
  BY <1>1
<1> HIDE DEF ncb, E, toks
<1>19. Coherent(h2, CachedAfterEvict(E), tables, ncb, toks)
  BY SMTT(30), <1>2, <1>13, <1>14, <1>17, <1>18 DEF Coherent
<1> QED BY <1>19 DEF h2, tables, table, ncb, E, toks

-----------------------------------------------------------------------------
(* allocate_slots. *)

\* After the check of allocate_slots the free queue, less the hit blocks it
\* contains, is long enough for all new blocks: get_new_blocks never raises.
LEMMA EnoughBlocks ==
  ASSUME Inv, NEW r \in Requests, NEW hit, HitOK(r, hit),
         NEW computed \in Nat, NEW ext \in Nat, NEW new \in Nat, NEW look \in Nat,
         ext > 0 => NumLocal(computed, hit) + ext <= MaxModelLen,
         CanAllocate(r, computed, hit, ext, new, look)
  PROVE  /\ NumNewBlocks(r, computed, hit, ext, new, look) \in Nat
         /\ NumNewBlocks(r, computed, hit, ext, new, look)
                <= Len(Excluding(free_queue, ToSet(hit)))
<1> DEFINE local == NumLocal(computed, hit)
           needed == NeedSlots(computed, hit, ext, new, look)
           need == cdiv(needed, BlockSize)
           extra == cdiv(local + ext, BlockSize)
           most == IF ext > 0 THEN Greater(extra, need) ELSE need
           have == Len(req_to_blocks[r]) + Len(hit)
           unused == {b \in ToSet(hit) : ref_cnt[b] = 0}
           n == NumNewBlocks(r, computed, hit, ext, new, look)
<1>1. /\ hit \in Seq(Blocks) /\ req_to_blocks[r] \in Seq(Blocks)
      /\ free_queue \in Seq(Blocks) /\ IsInjective(free_queue)
      /\ ToSet(free_queue) = {b \in Blocks : ref_cnt[b] = 0}
  BY DEF HitOK, Inv, TablesOK, Counted
<1>2. have \in Nat /\ Len(hit) \in Nat
  BY <1>1
<1>3. local \in Nat /\ needed \in Nat /\ (ext > 0 => local + ext <= needed)
  <2>1. Len(hit) * BlockSize \in Nat
    BY <1>2, KVAssumption
  <2>2. local \in Nat
    BY <2>1 DEF NumLocal
  <2> HIDE DEF local
  <2>3. TotalComputed(computed, hit, ext) \in Nat
        /\ (ext > 0 => TotalComputed(computed, hit, ext) = local + ext)
    BY <2>2, KVAssumption DEF TotalComputed, Lesser, local
  <2> QED BY <2>2, <2>3, KVAssumption DEF NeedSlots, Lesser, local
<1> HIDE DEF local, needed
<1>4. need \in Nat
  BY <1>3, CdivType, KVAssumption
<1>5. ext > 0 => extra <= need /\ extra \in Nat
  <2> SUFFICES ASSUME ext > 0 PROVE extra <= need /\ extra \in Nat
    OBVIOUS
  <2>1. local + ext \in Nat /\ local + ext <= needed
    BY <1>3
  <2>2. extra \in Nat
    BY SMTT(30), <2>1, CdivType, KVAssumption
  <2>3. extra <= need
    BY <1>3, <2>1, CdivMonotone, KVAssumption
  <2> QED BY <2>2, <2>3
<1> HIDE DEF need, extra
<1>6. n = Greater(need - have, 0)
  <2>1. n = Greater(most - have, 0)
    BY DEF NumNewBlocks, local, needed, need, extra
  <2>2. most = need
    BY <1>4, <1>5 DEF Greater
  <2> QED BY <2>1, <2>2
<1>7. unused = ToSet(free_queue) \cap ToSet(hit)
  BY <1>1 DEF ToSet
<1>8. /\ IsFiniteSet(unused)
      /\ Len(Excluding(free_queue, ToSet(hit))) = Len(free_queue) - Cardinality(unused)
  BY Zenon, <1>1, <1>7, ExcludingLength
<1>9. Cardinality(unused) \in Nat /\ Len(free_queue) \in Nat
  BY <1>1, <1>8, FS_CardinalityType
<1>10. Greater(need - have, 0) + Cardinality(unused) <= Len(free_queue)
  BY DEF CanAllocate, NumBlocksToAllocate, need, needed
<1> HIDE DEF unused, have, n
<1>11. Greater(need - have, 0) \in Nat
  BY <1>2, <1>4 DEF Greater
<1>12. n \in Nat /\ n <= Len(Excluding(free_queue, ToSet(hit)))
  BY <1>6, <1>8, <1>9, <1>10, <1>11
<1> QED BY <1>12 DEF n

\* A successful allocate_slots preserves the invariant.
LEMMA AllocateSlotsKeepsInv ==
  ASSUME Inv, NEW r \in Requests, NEW hit, HitOK(r, hit),
         NEW computed \in Nat, NEW ext \in Nat, NEW new \in Nat, NEW look \in Nat,
         NEW delay \in BOOLEAN,
         ext > 0 => /\ NumLocal(computed, hit) + ext <= MaxModelLen
                    /\ req_to_blocks[r] = << >>,
         CanAllocate(r, computed, hit, ext, new, look),
         AllocateSlots(r, computed, hit, ext, new, look, delay),
         UNCHANGED all_token_ids
  PROVE  Inv'
<1> DEFINE queue == Excluding(free_queue, ToSet(hit))
           n == NumNewBlocks(r, computed, hit, ext, new, look)
           fresh == SubSeq(queue, 1, n)
           rest == SubSeq(queue, n + 1, Len(queue))
           taken == hit \o fresh
           table == req_to_blocks[r] \o taken
           evicted == IF EnableCaching THEN ToSet(fresh) ELSE {}
           k0 == IF hit # << >> \/ ext > 0 THEN Len(hit) ELSE num_cached_block[r]
           k == Greater(k0, 0)
           tokens == Lesser(TotalComputed(computed, hit, ext) + new,
                            Len(all_token_ids[r]))
           full == tokens \div BlockSize
           caching == EnableCaching /\ ~delay /\ k < full
           tables == [req_to_blocks EXCEPT ![r] = table]
           ncb == [num_cached_block EXCEPT ![r] = k0]
           h1 == HashAfterEvict(evicted)
           c1 == CachedAfterEvict(evicted)
<1>1. n \in Nat /\ n <= Len(queue)
  BY EnoughBlocks
<1>2. /\ fresh \in Seq(Blocks) /\ rest \in Seq(Blocks) /\ IsInjective(rest)
      /\ ToSet(fresh) \subseteq ToSet(free_queue) \ ToSet(hit)
      /\ ToSet(rest) = ToSet(free_queue) \ ToSet(taken)
      /\ taken \in Seq(Blocks) /\ IsInjective(taken)
      /\ ToSet(taken) \cap ToSet(req_to_blocks[r]) = {}
      /\ table \in Seq(Blocks) /\ IsInjective(table)
  BY <1>1, TakenBlocks
<1>3. /\ ref_cnt' = [b \in Blocks |-> ref_cnt[b] + Occurrences(taken, b)]
      /\ free_queue' = rest
      /\ req_to_blocks' = tables
      /\ num_cached_block' = [num_cached_block EXCEPT ![r] = IF caching THEN full ELSE k0]
      /\ IF caching
         THEN CacheTable(r, h1, c1, table, k, tokens)
         ELSE block_hash' = h1 /\ cached' = c1
  BY DEF AllocateSlots
<1> HIDE DEF queue, n, rest
<1>4. TablesOK(tables)
  BY <1>2 DEF Inv, TablesOK
<1>5. Counted(ref_cnt', free_queue', req_to_blocks')
  BY Zenon, <1>2, <1>3, TakingKeepsCounted
<1>6. /\ k0 \in Nat \cup {Absent}
      /\ \/ hit = << >> /\ k0 = num_cached_block[r]
         \/ req_to_blocks[r] = << >> /\ k0 = Len(hit)
  BY SMTT(30) DEF HitOK, Inv, Coherent
<1> HIDE DEF k0
<1>7. Coherent(h1, c1, tables, ncb, all_token_ids)
  <2> HIDE DEF fresh
  <2> QED BY Zenon, <1>2, <1>6, TakingKeepsCoherent
<1>8. TokensOK(all_token_ids) /\ TokensOK(all_token_ids')
  BY DEF Inv
<1>9. tokens \in Nat /\ tokens <= Len(all_token_ids[r])
  <2>1. Len(all_token_ids[r]) \in Nat
    BY <1>8 DEF TokensOK
  <2>2. Len(hit) * BlockSize \in Nat
    BY KVAssumption DEF HitOK
  <2>3. NumLocal(computed, hit) \in Nat
    BY <2>2 DEF NumLocal
  <2>4. TotalComputed(computed, hit, ext) \in Nat
    BY <2>3, KVAssumption DEF TotalComputed, Lesser
  <2> QED BY <2>1, <2>4 DEF Lesser
<1>10. k \in Nat /\ k >= k0 /\ k >= ncb[r]
  <2>1. k \in Nat /\ k >= k0
    BY <1>6 DEF Greater, Absent
  <2>2. ncb[r] = k0
    BY DEF Inv, Coherent
  <2> QED BY <2>1, <2>2
<1> HIDE DEF tokens, k, h1, c1
<1>11. Coherent(block_hash', cached', req_to_blocks', num_cached_block', all_token_ids')
  <2>1. CASE caching
    <3>1. Coherent(HashAfterCache(h1, tables[r], k, full, all_token_ids[r]),
                   CachedAfterCache(c1, tables[r], k, full, all_token_ids[r]),
                   tables, [ncb EXCEPT ![r] = full], all_token_ids)
      <4> HIDE DEF tables, ncb
      <4> QED BY SMTT(30), <1>4, <1>7, <1>8, <1>9, <1>10, <2>1, CachingKeepsCoherent
    <3>2. tables[r] = table
      BY Zenon DEF Inv, TablesOK
    <3>3. /\ block_hash' = HashAfterCache(h1, table, k, full, all_token_ids[r])
          /\ cached' = CachedAfterCache(c1, table, k, full, all_token_ids[r])
      BY <1>3, <2>1 DEF CacheTable
    <3>4. num_cached_block' = [ncb EXCEPT ![r] = full]
      BY Zenon, <1>3, <2>1 DEF Inv, Coherent
    <3> QED BY Zenon, <1>3, <3>1, <3>2, <3>3, <3>4
  <2>2. CASE ~caching
    BY Zenon, <1>3, <1>7, <2>2
  <2> QED BY <2>1, <2>2
<1>12. ~EnableCaching => cached' = {}
  <2> SUFFICES ASSUME ~EnableCaching PROVE cached' = {}
    OBVIOUS
  <2>1. cached' = c1
    BY <1>3
  <2> QED BY Zenon, <2>1 DEF c1, CachedAfterEvict, Inv
<1> QED BY SMTT(30), <1>3, <1>4, <1>5, <1>8, <1>11, <1>12 DEF Inv

-----------------------------------------------------------------------------
(* The other methods. *)

\* free: reference counts and free queue stay exact, since a block leaves the
\* last table that names it exactly when its count reaches zero.
LEMMA FreeKeepsInv ==
  ASSUME Inv, NEW r \in Requests, Free(r), UNCHANGED all_token_ids
  PROVE  Inv'
<1> DEFINE old == req_to_blocks[r]
           rev == Reverse(old)
           rc == RefCntAfterFree(rev)
           used == {b \in Blocks : rc[b] # 0}
           freed == Excluding(rev, used)
           tables == [req_to_blocks EXCEPT ![r] = << >>]
           H(b) == HoldersIn(req_to_blocks, b)
           H2(b) == HoldersIn(tables, b)
<1>1. /\ ref_cnt' = rc /\ free_queue' = free_queue \o freed
      /\ req_to_blocks' = tables
      /\ num_cached_block' = [num_cached_block EXCEPT ![r] = Absent]
      /\ block_hash' = block_hash /\ cached' = cached
  BY DEF Free, FreeBlocks
<1>2. /\ req_to_blocks \in [Requests -> Seq(Blocks)]
      /\ old \in Seq(Blocks) /\ IsInjective(old)
      /\ ref_cnt \in [Blocks -> Nat]
      /\ \A b \in Blocks : ref_cnt[b] = Cardinality(H(b))
      /\ free_queue \in Seq(Blocks) /\ IsInjective(free_queue)
      /\ ToSet(free_queue) = {b \in Blocks : ref_cnt[b] = 0}
  BY DEF Inv, TablesOK, Counted
<1>3. rev \in Seq(Blocks) /\ IsInjective(rev) /\ ToSet(rev) = ToSet(old)
  BY <1>2, ReverseList
<1> HIDE DEF rev
<1>4. \A b \in Blocks : rc[b] = IF b \in ToSet(old) THEN ref_cnt[b] - 1 ELSE ref_cnt[b]
  BY <1>2, <1>3, OccurrencesInjective DEF RefCntAfterFree
<1>5. /\ tables[r] = << >> /\ ToSet(tables[r]) = {}
      /\ \A q \in Requests : q # r => tables[q] = req_to_blocks[q]
  BY <1>2 DEF ToSet
<1>6. ASSUME NEW b \in Blocks PROVE rc[b] = Cardinality(H2(b)) /\ rc[b] \in Nat
  <2>1. H(b) \in SUBSET Requests /\ IsFiniteSet(H(b)) /\ IsFiniteSet(H2(b))
    BY FS_Subset, KVAssumption DEF HoldersIn
  <2>2. Cardinality(H2(b)) \in Nat
    BY <2>1, FS_CardinalityType
  <2> HIDE DEF tables
  <2>3. CASE b \in ToSet(old)
    <3>1. H2(b) = H(b) \ {r} /\ r \in H(b)
      BY <1>5, <2>3 DEF HoldersIn
    <3>2. Cardinality(H2(b)) = Cardinality(H(b)) - 1
      BY <2>1, <3>1, FS_RemoveElement
    <3> QED BY <1>2, <1>4, <2>2, <2>3, <3>2
  <2>4. CASE b \notin ToSet(old)
    <3>1. H2(b) = H(b)
      BY <1>5, <2>4 DEF HoldersIn
    <3> QED BY <1>2, <1>4, <2>4, <3>1
  <2> QED BY <2>3, <2>4
<1>7. rc \in [Blocks -> Nat]
  BY <1>6 DEF RefCntAfterFree
<1> HIDE DEF rc
<1>8. freed \in Seq(Blocks) /\ IsInjective(freed) /\ ToSet(freed) = ToSet(old) \ used
  BY <1>3, ExcludingProperties
<1> HIDE DEF freed
<1>9. ToSet(free_queue) \cap ToSet(freed) = {}
  BY <1>8, FreeBlockUnheld
<1>10. /\ free_queue \o freed \in Seq(Blocks) /\ IsInjective(free_queue \o freed)
       /\ ToSet(free_queue \o freed) = ToSet(free_queue) \cup ToSet(freed)
  BY <1>2, <1>8, <1>9, ConcatLists
<1>11. ToSet(free_queue) \cup ToSet(freed) = {b \in Blocks : rc[b] = 0}
  <2>1. ToSet(old) \subseteq Blocks
    BY <1>2 DEF ToSet
  <2>2. \A b \in ToSet(free_queue) : b \notin ToSet(old)
    BY FreeBlockUnheld
  <2> QED BY SMTT(30), <1>2, <1>4, <1>8, <2>1, <2>2
<1>12. Counted(rc, free_queue \o freed, tables)
  <2> HIDE DEF tables
  <2> QED BY <1>6, <1>7, <1>10, <1>11 DEF Counted
<1>13. TablesOK(tables)
  BY <1>2 DEF Inv, TablesOK, IsInjective
<1>14. Coherent(block_hash, cached, tables, [num_cached_block EXCEPT ![r] = Absent],
                all_token_ids)
  <2> DEFINE ncb == [num_cached_block EXCEPT ![r] = Absent]
  <2>1. Coherent(block_hash, cached, req_to_blocks, num_cached_block, all_token_ids)
    BY DEF Inv
  <2>2. /\ ncb \in [Requests -> Nat \cup {Absent}]
        /\ \A q \in Requests : q # r => ncb[q] = num_cached_block[q]
    BY <2>1 DEF Coherent
  <2>3. DOMAIN tables[r] = {}
    BY <1>5
  <2>4. \A q \in Requests : ToSet(tables[q]) \subseteq ToSet(req_to_blocks[q])
    BY <1>5
  <2> HIDE DEF tables, ncb
  <2>5. ASSUME NEW q \in Requests, NEW i \in DOMAIN tables[q]
        PROVE  q # r /\ i \in DOMAIN req_to_blocks[q] /\ tables[q][i] = req_to_blocks[q][i]
    BY <1>5, <2>3
  <2>6. ASSUME NEW q \in Requests, NEW i \in DOMAIN tables[q], i > ncb[q]
        PROVE  /\ block_hash[tables[q][i]] = NoHash
               /\ \A p \in Requests : tables[q][i] \in ToSet(tables[p]) => p = q
    <3>1. /\ i \in DOMAIN req_to_blocks[q] /\ tables[q][i] = req_to_blocks[q][i]
          /\ i > num_cached_block[q]
      BY <2>2, <2>5, <2>6
    <3>2. /\ block_hash[req_to_blocks[q][i]] = NoHash
          /\ \A p \in Requests : req_to_blocks[q][i] \in ToSet(req_to_blocks[p]) => p = q
      BY <2>1, <3>1 DEF Coherent
    <3> QED BY <2>4, <3>1, <3>2
  <2>7. ASSUME NEW p \in Requests, NEW q \in Requests,
               NEW i \in DOMAIN tables[p], NEW j \in DOMAIN tables[q],
               p # q, tables[p][i] = tables[q][j]
        PROVE  /\ i = j
               /\ i * BlockSize <= Len(all_token_ids[p])
               /\ BlockHash(all_token_ids[p], i) = BlockHash(all_token_ids[q], i)
    <3>1. /\ i \in DOMAIN req_to_blocks[p] /\ j \in DOMAIN req_to_blocks[q]
          /\ req_to_blocks[p][i] = req_to_blocks[q][j]
      BY <2>5, <2>7
    <3> QED BY <2>1, <2>7, <3>1 DEF Coherent
  <2>8. \A q \in Requests : \A i \in DOMAIN tables[q] :
           block_hash[tables[q][i]] # NoHash =>
               /\ i * BlockSize <= Len(all_token_ids[q])
               /\ block_hash[tables[q][i]] = BlockHash(all_token_ids[q], i)
    BY <2>1, <2>5 DEF Coherent
  <2>9. Coherent(block_hash, cached, tables, ncb, all_token_ids)
    BY SMTT(30), <2>1, <2>2, <2>6, <2>7, <2>8 DEF Coherent
  <2> QED BY <2>9 DEF ncb
<1> QED BY <1>1, <1>12, <1>13, <1>14 DEF Inv

\* cache_blocks keeps the invariant for tokens the request has.
LEMMA CacheBlocksKeepsInv ==
  ASSUME Inv, NEW r \in Requests, NEW tokens \in Nat, tokens <= Len(all_token_ids[r]),
         CacheBlocks(r, tokens), UNCHANGED all_token_ids
  PROVE  Inv'
<1> DEFINE k == Greater(num_cached_block[r], 0)
           full == tokens \div BlockSize
<1>1. /\ TablesOK(req_to_blocks) /\ TokensOK(all_token_ids)
      /\ Coherent(block_hash, cached, req_to_blocks, num_cached_block, all_token_ids)
  BY DEF Inv
<1>2. k \in Nat /\ k >= num_cached_block[r]
  <2>1. num_cached_block[r] \in Nat \cup {Absent}
    BY <1>1 DEF Coherent
  <2> QED BY <2>1 DEF Greater, Absent
<1>3. CASE EnableCaching /\ k < full
  <2>1. /\ block_hash' = HashAfterCache(block_hash, req_to_blocks[r], k, full,
                                        all_token_ids[r])
        /\ cached' = CachedAfterCache(cached, req_to_blocks[r], k, full, all_token_ids[r])
        /\ num_cached_block' = [num_cached_block EXCEPT ![r] = full]
        /\ UNCHANGED <<ref_cnt, free_queue, req_to_blocks>>
    BY <1>3 DEF CacheBlocks, CacheTable
  <2> HIDE DEF k
  <2>2. Coherent(block_hash', cached', req_to_blocks, num_cached_block', all_token_ids)
    BY Zenon, <1>1, <1>2, <1>3, <2>1, CachingKeepsCoherent
  <2> QED BY <1>3, <2>1, <2>2 DEF Inv
<1>4. CASE ~(EnableCaching /\ k < full)
  BY <1>4 DEF CacheBlocks, Inv
<1> QED BY <1>3, <1>4

\* evict_blocks keeps the invariant.
LEMMA EvictBlocksKeepsInv ==
  ASSUME Inv, NEW S, EvictBlocks(S), UNCHANGED all_token_ids
  PROVE  Inv'
<1>1. Coherent(block_hash', cached', req_to_blocks, num_cached_block, all_token_ids)
  BY EvictingKeepsCoherent DEF EvictBlocks
<1>2. ~EnableCaching => cached' = {}
  BY DEF EvictBlocks, CachedAfterEvict, Inv
<1> QED BY <1>1, <1>2 DEF EvictBlocks, Inv

\* reset_prefix_cache keeps the invariant.
LEMMA ResetKeepsInv ==
  ASSUME Inv, ResetPrefixCache, UNCHANGED all_token_ids
  PROVE  Inv'
<1>1. CASE Len(free_queue) = NumBlocks
  <2> DEFINE none == [b \in Blocks |-> NoHash]
  <2>1. /\ block_hash' = none /\ cached' = {}
        /\ UNCHANGED <<ref_cnt, free_queue, req_to_blocks, num_cached_block>>
    BY <1>1 DEF ResetPrefixCache
  <2>2. none \in [Blocks -> Seq(Token)] /\ MapOf(none) = {}
    BY DEF MapOf, NoHash
  <2>3. \A q \in Requests : \A i \in DOMAIN req_to_blocks[q] :
           req_to_blocks[q][i] \in Blocks
    BY DEF Inv, TablesOK
  <2>4. \A q \in Requests : \A i \in DOMAIN req_to_blocks[q] :
           none[req_to_blocks[q][i]] = NoHash
    BY <2>3
  <2> HIDE DEF none
  <2>5. Coherent(none, {}, req_to_blocks, num_cached_block, all_token_ids)
    BY Zenon, <2>2, <2>4 DEF Inv, Coherent
  <2> QED BY <2>1, <2>5 DEF Inv
<1>2. CASE Len(free_queue) # NumBlocks
  BY <1>2 DEF ResetPrefixCache, Inv
<1> QED BY <1>1, <1>2
=============================================================================
