---------------------------- MODULE KVCacheManager ----------------------------
(***************************************************************************)
(* The paged KV cache of the V1 engine with prefix caching, for one        *)
(* full-attention group: KVCacheManager (kv_cache_manager.py) on top of    *)
(* SingleTypeKVCacheManager / FullAttentionManager                         *)
(* (single_type_kv_cache_manager.py) and BlockPool (block_pool.py).        *)
(*                                                                         *)
(* Every public method that changes state is an action parameterised by    *)
(* its arguments (AllocateSlots, Free, CacheBlocks, EvictBlocks,           *)
(* ResetPrefixCache).  Next closes the module with the weakest caller the  *)
(* methods are written for; module Scheduler calls the same actions and is *)
(* checked to be such a caller.                                            *)
(*                                                                         *)
(* The hash of the i-th full block of a request is a chained hash of all   *)
(* tokens up to the end of that block (kv_cache_utils.hash_block_tokens).  *)
(* It is modelled by that prefix of the token sequence itself, that is, as *)
(* a hash without collisions.                                              *)
(***************************************************************************)
EXTENDS BlockLists

CONSTANTS
    Requests,        \* request ids
    Token,           \* token ids
    Prompts,         \* the token sequences a request may arrive with
    NumBlocks,       \* usable blocks: num_gpu_blocks minus the null block
    BlockSize,       \* tokens per block
    MaxModelLen,     \* max_model_len
    NumLookahead,    \* num_lookahead_tokens of the speculative proposer
    EnableCaching,   \* enable_caching
    UseEagle         \* use_eagle: the last hit block is dropped

ASSUME KVAssumption ==
    /\ IsFiniteSet(Requests)
    /\ NumBlocks \in Nat
    /\ BlockSize \in Nat \ {0}
    /\ MaxModelLen \in Nat
    /\ NumLookahead \in Nat
    /\ EnableCaching \in BOOLEAN
    /\ UseEagle \in BOOLEAN
    /\ Prompts \subseteq Seq(Token)
    /\ \A p \in Prompts : Len(p) \in 1..MaxModelLen

VARIABLES
    ref_cnt,           \* KVCacheBlock.ref_cnt
    block_hash,        \* KVCacheBlock.block_hash
    cached,            \* BlockPool.cached_block_hash_to_block, as <<hash, block>> pairs
    free_queue,        \* BlockPool.free_block_queue, least recently used first
    req_to_blocks,     \* SingleTypeKVCacheManager.req_to_blocks: the block tables
    num_cached_block,  \* SingleTypeKVCacheManager.num_cached_block
    all_token_ids      \* Request.all_token_ids

poolVars == <<ref_cnt, block_hash, cached, free_queue>>
kvVars == <<ref_cnt, block_hash, cached, free_queue, req_to_blocks, num_cached_block>>
vars == <<ref_cnt, block_hash, cached, free_queue, req_to_blocks, num_cached_block,
          all_token_ids>>

Blocks == 1..NumBlocks
Lengths == 0..MaxModelLen

\* KVCacheBlock.block_hash is None: no full block has an empty prefix.
NoHash == << >>

\* "request_id not in num_cached_block".
Absent == -1

-----------------------------------------------------------------------------
(* Block hashes. *)

\* Mutant: the hash covers the tokens of its own block only, not the chain.
BugBlockHashUnchained(toks, i) == SubSeq(toks, (i - 1) * BlockSize + 1, i * BlockSize)

\* Request.block_hashes[i - 1]: the chained hash of the first i blocks of toks.
BlockHash(toks, i) == SubSeq(toks, 1, i * BlockSize)

-----------------------------------------------------------------------------
(* BlockPool. *)

\* BlockHashToBlockMap.get_one_block: any block cached under the hash.
CachedBlocks(h) == {b \in Blocks : <<h, b>> \in cached}

\* Mutants: the hash of a reused block is not reset; its map entry stays.
BugHashKept(S) == block_hash
BugCachedKept(S) == cached

\* _maybe_evict_cached_block for every block of S.  A block the map does not
\* know under its hash keeps its hash.
HashAfterEvict(S) ==
    [b \in Blocks |-> IF b \in S /\ <<block_hash[b], b>> \in cached
                      THEN NoHash ELSE block_hash[b]]
CachedAfterEvict(S) == cached \ {<<block_hash[b], b>> : b \in S}

\* Mutants: a block with further holders keeps its count; every released block
\* goes to the free queue, used or not.
BugRefCntAfterFree(blocks) ==
    [b \in Blocks |-> IF Occurrences(blocks, b) = ref_cnt[b] THEN 0 ELSE ref_cnt[b]]
BugFreeBlocksInUse(blocks) ==
    /\ ref_cnt' = [b \in Blocks |-> ref_cnt[b] - Occurrences(blocks, b)]
    /\ free_queue' = free_queue \o blocks

\* free_blocks: every listed block loses a reference, those that reach zero go
\* to the tail of the free queue in the order given.
RefCntAfterFree(blocks) ==
    [b \in Blocks |-> ref_cnt[b] - Occurrences(blocks, b)]
FreeBlocks(blocks) ==
    LET rc == RefCntAfterFree(blocks)
    IN  /\ ref_cnt' = rc
        /\ free_queue' = free_queue \o Excluding(blocks, {b \in Blocks : rc[b] # 0})

\* cache_full_blocks: blocks k+1 .. full of the table get the hash of their
\* prefix and enter the map; the slice ends with the table.
NewlyFull(table, k, full) == (k + 1)..Lesser(full, Len(table))
HashAfterCache(hash, table, k, full, toks) ==
    [b \in Blocks |->
        IF \E i \in NewlyFull(table, k, full) : table[i] = b
        THEN BlockHash(toks, CHOOSE i \in NewlyFull(table, k, full) : table[i] = b)
        ELSE hash[b]]
CachedAfterCache(map, table, k, full, toks) ==
    map \cup {<<BlockHash(toks, i), table[i]>> : i \in NewlyFull(table, k, full)}

-----------------------------------------------------------------------------
(* KVCacheManager. *)

\* get_computed_blocks / FullAttentionManager.find_longest_cache_hit: the chain
\* of cached blocks from the start of the request to the first miss, never
\* covering the last token, whose logits must be recomputed; with EAGLE the
\* last block of the chain is dropped.  HitLengths holds the one length of the
\* chain; any copy of a block may be returned.
HitLengths(toks) ==
    LET most == (Len(toks) - 1) \div BlockSize
    IN  {n \in 0..most :
            /\ \A i \in 1..n : CachedBlocks(BlockHash(toks, i)) # {}
            /\ n < most => CachedBlocks(BlockHash(toks, n + 1)) = {}}
ReportedHits(n) == IF UseEagle THEN Greater(n - 1, 0) ELSE n
ComputedBlocks(r) ==
    LET toks == all_token_ids[r]
        reported == IF EnableCaching THEN {ReportedHits(n) : n \in HitLengths(toks)}
                                     ELSE {0}
    IN  UNION {{hit \in [1..n -> Blocks] :
                   \A i \in 1..n : hit[i] \in CachedBlocks(BlockHash(toks, i))} :
               n \in reported}

\* The quantities allocate_slots derives from its arguments.
NumLocal(computed, hit) == computed + Len(hit) * BlockSize
TotalComputed(computed, hit, ext) == Lesser(NumLocal(computed, hit) + ext, MaxModelLen)
NeedSlots(computed, hit, ext, new, look) ==
    Lesser(TotalComputed(computed, hit, ext) + new + look, MaxModelLen)

\* get_num_blocks_to_allocate: new blocks, plus the hit blocks that lie in the
\* free queue and will be taken out of it.
NumBlocksToAllocate(r, hit, tokens) ==
    Greater(cdiv(tokens, BlockSize) - (Len(req_to_blocks[r]) + Len(hit)), 0)
        + Cardinality({b \in ToSet(hit) : ref_cnt[b] = 0})

\* can_fit_full_sequence: the admission gate for the whole prompt.
CanFitFullSequence(r, hit) ==
    NumBlocksToAllocate(r, hit, Lesser(Len(all_token_ids[r]), MaxModelLen))
        <= Len(free_queue)

\* The check after which allocate_slots returns None, nothing changed.
CanAllocate(r, computed, hit, ext, new, look) ==
    NumBlocksToAllocate(r, hit, NeedSlots(computed, hit, ext, new, look))
        <= Len(free_queue)

\* The number of blocks the two get_new_blocks calls of a successful
\* allocate_slots take: for external tokens, then for tokens to compute.
NumNewBlocks(r, computed, hit, ext, new, look) ==
    LET local == NumLocal(computed, hit)
        need == cdiv(NeedSlots(computed, hit, ext, new, look), BlockSize)
        most == IF ext > 0 THEN Greater(cdiv(local + ext, BlockSize), need) ELSE need
    IN  Greater(most - (Len(req_to_blocks[r]) + Len(hit)), 0)

\* cache_blocks at the end of allocate_slots and on its own: tokens is the
\* number of tokens to be cached, k the number of blocks already cached.
CacheTable(r, hash, map, table, k, tokens) ==
    LET full == tokens \div BlockSize
        toks == all_token_ids[r]
    IN  /\ block_hash' = HashAfterCache(hash, table, k, full, toks)
        /\ cached' = CachedAfterCache(map, table, k, full, toks)

\* allocate_slots when there is room: touch the hit blocks, take new blocks
\* from the head of the free queue (evicting what they cached), extend the
\* block table, and cache the full blocks unless caching is off or delayed.
AllocateSlots(r, computed, hit, ext, new, look, delay) ==
    LET queue == Excluding(free_queue, ToSet(hit))
        n == NumNewBlocks(r, computed, hit, ext, new, look)
        fresh == SubSeq(queue, 1, n)
        taken == hit \o fresh
        table == req_to_blocks[r] \o taken
        evicted == IF EnableCaching THEN ToSet(fresh) ELSE {}
        k0 == IF hit # << >> \/ ext > 0 THEN Len(hit) ELSE num_cached_block[r]
        k == Greater(k0, 0)
        tokens == Lesser(TotalComputed(computed, hit, ext) + new, Len(all_token_ids[r]))
        full == tokens \div BlockSize
        caching == EnableCaching /\ ~delay /\ k < full
    IN  /\ ref_cnt' = [b \in Blocks |-> ref_cnt[b] + Occurrences(taken, b)]
        /\ free_queue' = SubSeq(queue, n + 1, Len(queue))
        /\ req_to_blocks' = [req_to_blocks EXCEPT ![r] = table]
        /\ num_cached_block' =
               [num_cached_block EXCEPT ![r] = IF caching THEN full ELSE k0]
        /\ IF caching
           THEN CacheTable(r, HashAfterEvict(evicted), CachedAfterEvict(evicted),
                           table, k, tokens)
           ELSE /\ block_hash' = HashAfterEvict(evicted)
                /\ cached' = CachedAfterEvict(evicted)

\* Mutant: blocks are released first block first.
BugFreeHeadFirst(r) ==
    /\ FreeBlocks(req_to_blocks[r])
    /\ req_to_blocks' = [req_to_blocks EXCEPT ![r] = << >>]
    /\ num_cached_block' = [num_cached_block EXCEPT ![r] = Absent]
    /\ UNCHANGED <<block_hash, cached>>

\* free: the table is dropped, its blocks released last block first.
Free(r) ==
    /\ FreeBlocks(Reverse(req_to_blocks[r]))
    /\ req_to_blocks' = [req_to_blocks EXCEPT ![r] = << >>]
    /\ num_cached_block' = [num_cached_block EXCEPT ![r] = Absent]
    /\ UNCHANGED <<block_hash, cached>>

\* cache_blocks: called for blocks whose transfer has completed.
CacheBlocks(r, tokens) ==
    LET k == Greater(num_cached_block[r], 0)
        full == tokens \div BlockSize
    IN  /\ IF EnableCaching /\ k < full
           THEN /\ CacheTable(r, block_hash, cached, req_to_blocks[r], k, tokens)
                /\ num_cached_block' = [num_cached_block EXCEPT ![r] = full]
           ELSE UNCHANGED <<block_hash, cached, num_cached_block>>
        /\ UNCHANGED <<ref_cnt, free_queue, req_to_blocks>>

\* evict_blocks: forget the hashes of the blocks, whoever uses them.
EvictBlocks(S) ==
    /\ block_hash' = HashAfterEvict(S)
    /\ cached' = CachedAfterEvict(S)
    /\ UNCHANGED <<ref_cnt, free_queue, req_to_blocks, num_cached_block>>

\* reset_prefix_cache: refused while any block is in use.
ResetPrefixCache ==
    /\ IF Len(free_queue) = NumBlocks
       THEN /\ block_hash' = [b \in Blocks |-> NoHash]
            /\ cached' = {}
       ELSE UNCHANGED <<block_hash, cached>>
    /\ UNCHANGED <<ref_cnt, free_queue, req_to_blocks, num_cached_block>>

\* Mutant: the other requests with a table are counted, not all of them.
BugNumCommonPrefixBlocks(r) ==
    LET table == req_to_blocks[r]
        holders == Cardinality({q \in Requests \ {r} : req_to_blocks[q] # << >>})
    IN  {n \in 0..Len(table) :
            /\ \A i \in 1..n : ref_cnt[table[i]] >= holders
            /\ n < Len(table) => ref_cnt[table[n + 1]] < holders}

\* FullAttentionManager.get_num_common_prefix_blocks: the leading blocks of a
\* running request that all requests with a table refer to (a set of one count).
NumCommonPrefixBlocks(r) ==
    LET table == req_to_blocks[r]
        holders == Cardinality({q \in Requests : req_to_blocks[q] # << >>})
    IN  {n \in 0..Len(table) :
            /\ \A i \in 1..n : ref_cnt[table[i]] = holders
            /\ n < Len(table) => ref_cnt[table[n + 1]] # holders}

-----------------------------------------------------------------------------
(* The caller. *)

Init ==
    /\ ref_cnt = [b \in Blocks |-> 0]
    /\ block_hash = [b \in Blocks |-> NoHash]
    /\ cached = {}
    /\ free_queue = [i \in 1..NumBlocks |-> i]
    /\ req_to_blocks = [r \in Requests |-> << >>]
    /\ num_cached_block = [r \in Requests |-> Absent]
    /\ all_token_ids \in [Requests -> Prompts]

\* A request that holds nothing is replaced by a new one of the same name.
NewRequest(r) ==
    /\ req_to_blocks[r] = << >>
    /\ num_cached_block[r] = Absent
    /\ all_token_ids' \in {[all_token_ids EXCEPT ![r] = p] : p \in Prompts}
    /\ UNCHANGED kvVars

\* Request.append_output_token_ids; check_stop ends a request at MaxModelLen.
AppendOutputToken(r) ==
    /\ Len(all_token_ids[r]) < MaxModelLen
    /\ all_token_ids' \in {[all_token_ids EXCEPT ![r] = Append(@, t)] : t \in Token}
    /\ UNCHANGED kvVars

\* allocate_slots for a request that already has a table, or has none and no
\* hit: the caller passes no computed blocks, and beyond the known tokens asks
\* for at most NumLookahead draft tokens.  The method uses computed and new
\* through their sum only, so one of them is enough.
Extend(r) ==
    \E new \in 1..(Len(all_token_ids[r]) + NumLookahead), look \in {0, NumLookahead} :
        /\ CanAllocate(r, 0, << >>, 0, new, look)
        /\ AllocateSlots(r, 0, << >>, 0, new, look, FALSE)
        /\ UNCHANGED all_token_ids

\* allocate_slots for a waiting request without a table, with the blocks
\* get_computed_blocks returned and the tokens a connector will load.
Admit(r) ==
    /\ req_to_blocks[r] = << >>
    /\ num_cached_block[r] = Absent
    /\ \E hit \in ComputedBlocks(r), ext \in Lengths, new \in Lengths,
          delay \in BOOLEAN :
        /\ new + ext > 0
        /\ NumLocal(0, hit) + ext + new <= Len(all_token_ids[r])
        /\ CanAllocate(r, 0, hit, ext, new, 0)
        /\ AllocateSlots(r, 0, hit, ext, new, 0, delay)
        /\ UNCHANGED all_token_ids

\* cache_blocks for tokens that have their slots.
CacheLoaded(r) ==
    \E tokens \in 0..Len(all_token_ids[r]) :
        /\ tokens <= Len(req_to_blocks[r]) * BlockSize
        /\ CacheBlocks(r, tokens)
        /\ UNCHANGED all_token_ids

Release(r) ==
    /\ Free(r)
    /\ UNCHANGED all_token_ids

Evict ==
    \E S \in SUBSET Blocks :
        /\ EvictBlocks(S)
        /\ UNCHANGED all_token_ids

Reset ==
    /\ ResetPrefixCache
    /\ UNCHANGED all_token_ids

RequestStep(r) ==
    \/ NewRequest(r)
    \/ AppendOutputToken(r)
    \/ Extend(r)
    \/ Admit(r)
    \/ CacheLoaded(r)
    \/ Release(r)

Next == Reset \/ Evict \/ \E r \in Requests : RequestStep(r)

Spec == Init /\ [][Next]_vars

-----------------------------------------------------------------------------
(* Properties. *)

\* Every variable keeps its type: reference counts never go below zero, block
\* ids are those of the pool, and hashes are token prefixes.
TypeOK ==
    /\ ref_cnt \in [Blocks -> Nat]
    /\ block_hash \in [Blocks -> Seq(Token)]
    /\ cached \subseteq Seq(Token) \X Blocks
    /\ free_queue \in Seq(Blocks)
    /\ req_to_blocks \in [Requests -> Seq(Blocks)]
    /\ num_cached_block \in [Requests -> Nat \cup {Absent}]
    /\ all_token_ids \in [Requests -> Seq(Token)]

Holders(b) == {r \in Requests : b \in ToSet(req_to_blocks[r])}

\* No block table names a block twice, and the reference count of a block is
\* the number of requests whose table names it (touch, get_new_blocks and
\* free_blocks never drift apart).
RefCountIsHolders ==
    /\ \A r \in Requests : IsInjective(req_to_blocks[r])
    /\ \A b \in Blocks : ref_cnt[b] = Cardinality(Holders(b))

\* The free queue lists exactly the blocks nobody refers to, each once: no
\* block is lost, none is handed out while in use (assert ref_cnt == 0 of
\* get_new_blocks), and remove() always finds the block it is asked to unlink.
FreeQueueIsUnused ==
    /\ IsInjective(free_queue)
    /\ ToSet(free_queue) = {b \in Blocks : ref_cnt[b] = 0}

\* The prefix-cache map and the hash stored in each block never disagree, so
\* an eviction always finds the entry it has to remove.
HashMapIsBlockHash ==
    cached = {<<block_hash[b], b>> : b \in {c \in Blocks : block_hash[c] # NoHash}}

\* The blocks of a table beyond num_cached_block carry no hash and belong to
\* that request alone (assert blk.block_hash is None of cache_full_blocks).
UncachedBlocksArePrivate ==
    \A r \in Requests :
        \A i \in DOMAIN req_to_blocks[r] :
            i > num_cached_block[r] =>
                /\ block_hash[req_to_blocks[r][i]] = NoHash
                /\ Holders(req_to_blocks[r][i]) = {r}

\* Requests share a block only for the same block of the same prefix: the block
\* sits at the same index of both tables and their tokens agree up to its end.
SharedBlocksSamePrefix ==
    \A q, r \in Requests :
        \A i \in DOMAIN req_to_blocks[q], j \in DOMAIN req_to_blocks[r] :
            (q # r /\ req_to_blocks[q][i] = req_to_blocks[r][j]) =>
                /\ i = j
                /\ i * BlockSize <= Len(all_token_ids[q])
                /\ BlockHash(all_token_ids[q], i) = BlockHash(all_token_ids[r], i)

\* A block in use that is found under a hash holds that prefix of every
\* request that uses it, so a hit on a block in use joins a matching prefix.
HashMatchesHolders ==
    \A r \in Requests :
        \A i \in DOMAIN req_to_blocks[r] :
            block_hash[req_to_blocks[r][i]] # NoHash =>
                /\ i * BlockSize <= Len(all_token_ids[r])
                /\ block_hash[req_to_blocks[r][i]] = BlockHash(all_token_ids[r], i)

\* What find_longest_cache_hit relies on when it stops at the first miss: a
\* cached block's parent prefix is cached too.  Blocks are released tail first
\* and reused in that order, so a parent outlives its children.
CacheIsPrefixClosed ==
    \A h \in {e[1] : e \in cached} :
        Len(h) > BlockSize => CachedBlocks(SubSeq(h, 1, Len(h) - BlockSize)) # {}

\* Cascade attention computes the common prefix once for the whole batch: the
\* blocks get_num_common_prefix_blocks counts head the table of every request
\* that has one.
CommonPrefixIsCommon ==
    \A q, r \in {x \in Requests : req_to_blocks[x] # << >>} :
        \A n \in NumCommonPrefixBlocks(q) :
            /\ n <= Len(req_to_blocks[r])
            /\ \A i \in 1..n : req_to_blocks[r][i] = req_to_blocks[q][i]
=============================================================================
