------------------------- MODULE EncoderCacheManager -------------------------
(***************************************************************************)
(* EncoderCacheManager (encoder_cache_manager.py): which encoder outputs   *)
(* (image or audio embeddings, named by mm_hash) the workers hold, which   *)
(* requests refer to them, and how many embedding slots are left.  The     *)
(* manager is a record and every method maps it to the record it leaves;   *)
(* module EncoderScheduling makes the calls.                               *)
(***************************************************************************)
EXTENDS Integers, SequencesExt

CONSTANTS
    Requests,     \* request ids
    Hashes,       \* mm_hash values
    Embeds,       \* number of embeddings of the input with that hash
    CacheSize     \* cache_size, in embeddings

ASSUME EncoderAssumption ==
    /\ CacheSize \in Nat
    /\ Embeds \in [Hashes -> 1..CacheSize]

Total(S) == FoldSet(LAMBDA h, n : Embeds[h] + n, 0, S)

\* The result of a loop over s: Op applied to every element in turn, from x.
\* The bound y has TLC evaluate each iteration once.
After(Op(_, _), x, s) ==
    LET f[i \in 0..Len(s)] ==
            IF i = 0 THEN x ELSE CHOOSE z \in {Op(y, s[i]) : y \in {f[i - 1]}} : TRUE
    IN  f[Len(s)]

\* cached: the referring requests of every hash in the cache.
\* freeable: the cached hashes without a reference, oldest first.
\* freed: the hashes evicted since the last get_freed_mm_hashes.
EmptyManager ==
    [cached |-> << >>, freeable |-> << >>, freed |-> {},
     num_free_slots |-> CacheSize, num_freeable_slots |-> CacheSize]

Cached(m) == DOMAIN m.cached
Referenced(m) == {h \in Cached(m) : m.cached[h] # {}}
WithRefs(m, h, refs) ==
    [x \in Cached(m) \cup {h} |-> IF x = h THEN refs ELSE m.cached[x]]

\* Mutant: a hit on an unreferenced entry leaves it in the eviction order.
BugCheckAndUpdateCache(m, r, h) == [m EXCEPT !.cached = WithRefs(m, h, m.cached[h] \cup {r})]

\* check_and_update_cache on a cached hash: the request becomes a holder.
CheckAndUpdateCache(m, r, h) ==
    LET idle == m.cached[h] = {}
    IN  [m EXCEPT !.cached = WithRefs(m, h, m.cached[h] \cup {r}),
                  !.freeable = IF idle THEN Remove(@, h) ELSE @,
                  !.num_freeable_slots = IF idle THEN @ - Embeds[h] ELSE @]

\* Mutant: an input that needs the whole compute budget is turned down.
BugCanAllocate(m, h, budget, pending) ==
    /\ Embeds[h] < budget
    /\ \/ Embeds[h] + pending <= m.num_free_slots
       \/ Embeds[h] + pending <= m.num_freeable_slots

\* can_allocate: room for the input and for those already chosen for the same
\* request, free or reclaimable.
CanAllocate(m, h, budget, pending) ==
    /\ Embeds[h] <= budget
    /\ \/ Embeds[h] + pending <= m.num_free_slots
       \/ Embeds[h] + pending <= m.num_freeable_slots

\* How many of the oldest freeable entries must go to make the room.
NumEvicted(m, need) ==
    Min({k \in 0..Len(m.freeable) :
            m.num_free_slots + Total(ToSet(SubSeq(m.freeable, 1, k))) >= need})

\* Mutant: the evicted hashes are not noted for the workers.
BugEvicted(m, need) ==
    LET k == NumEvicted(m, need)
        out == ToSet(SubSeq(m.freeable, 1, k))
    IN  [m EXCEPT !.cached = [x \in Cached(m) \ out |-> m.cached[x]],
                  !.freeable = SubSeq(@, k + 1, Len(@)),
                  !.num_free_slots = @ + Total(out)]

\* The eviction loop of can_allocate.
Evicted(m, need) ==
    LET k == NumEvicted(m, need)
        out == ToSet(SubSeq(m.freeable, 1, k))
    IN  [m EXCEPT !.cached = [x \in Cached(m) \ out |-> m.cached[x]],
                  !.freeable = SubSeq(@, k + 1, Len(@)),
                  !.freed = @ \cup out,
                  !.num_free_slots = @ + Total(out)]

Allocate(m, r, h) ==
    [m EXCEPT !.cached = WithRefs(m, h, (IF h \in Cached(m) THEN m.cached[h] ELSE {}) \cup {r}),
              !.num_free_slots = @ - Embeds[h],
              !.num_freeable_slots = @ - Embeds[h]]

\* Mutant: the entry becomes freeable although others may refer to it.
BugFreeEncoderInput(m, r, h) ==
    IF h \notin Referenced(m) THEN m
    ELSE [m EXCEPT !.cached = WithRefs(m, h, m.cached[h] \ {r}),
                   !.freeable = Append(@, h),
                   !.num_freeable_slots = @ + Embeds[h]]

\* free_encoder_input: the request gives up its reference.
FreeEncoderInput(m, r, h) ==
    LET refs == m.cached[h] \ {r}
    IN  IF h \notin Referenced(m) THEN m
        ELSE [m EXCEPT !.cached = WithRefs(m, h, refs),
                       !.freeable = IF refs = {} THEN Append(@, h) ELSE @,
                       !.num_freeable_slots = IF refs = {} THEN @ + Embeds[h] ELSE @]

\* Mutant: only the first input is released.
BugFreeInputs(m, r, hashes) ==
    IF hashes = << >> THEN m ELSE FreeEncoderInput(m, r, Head(hashes))

\* free, for the hashes of a request in the order of its inputs.
FreeInputs(m, r, hashes) == After(LAMBDA n, h : FreeEncoderInput(n, r, h), m, hashes)

\* get_freed_mm_hashes: the evictions are handed over once.
FreedHandedOver(m) == [m EXCEPT !.freed = {}]

\* Every method keeps the slot counters equal to what the entries occupy, and
\* the eviction order equal to the entries nobody refers to; allocate's two
\* assertions are that neither counter becomes negative.
SlotsAccounted(m) ==
    /\ m.num_free_slots = CacheSize - Total(Cached(m))
    /\ m.num_freeable_slots = CacheSize - Total(Referenced(m))
    /\ m.num_free_slots >= 0
    /\ IsInjective(m.freeable)
    /\ ToSet(m.freeable) = Cached(m) \ Referenced(m)
=============================================================================
