--------------------------- MODULE MCKVCacheManager ---------------------------
(* Small instances of the KV cache manager for TLC. *)
EXTENDS KVCacheManager

\* Two prompts that share their first block of two tokens; the second fills its
\* blocks, so its last block is never a hit and is computed again.
MCPrompts == {<<1, 1, 1>>, <<1, 1, 2, 2>>}

MCSymmetry == Permutations(Requests)

\* The closed form of Excluding against the library's SelectSeq.
ASSUME \A n \in 0..4 : \A s \in [1..n -> 1..3] : \A S \in SUBSET (1..3) :
           Excluding(s, S) = SelectSeq(s, LAMBDA b : b \notin S)
=============================================================================
