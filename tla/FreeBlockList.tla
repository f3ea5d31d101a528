---------------------------- MODULE FreeBlockList ----------------------------
(***************************************************************************)
(* What the free block queue of the KV cache promises its caller,          *)
(* BlockPool: a list of distinct blocks, taken from the front, given back  *)
(* at the end, and left from the middle when a cached block is hit again.  *)
(* Module KVCacheManager works with this list (its variable free_queue);   *)
(* module FreeKVCacheBlockQueue implements it with links.                  *)
(***************************************************************************)
EXTENDS Integers, Sequences

CONSTANTS
    NumBlocks,   \* blocks of the pool
    Error        \* what a call that raises leaves in "returned"

VARIABLES
    queue,       \* the free blocks, next one to hand out first
    returned     \* the result of the last call: a list of blocks, or Error

listVars == <<queue, returned>>

Blocks == 1..NumBlocks
Free == {queue[i] : i \in DOMAIN queue}

\* The lists of distinct blocks out of S, the arguments of append_n.
DistinctLists(S) ==
    UNION {{s \in [1..n -> S] : \A i, j \in 1..n : s[i] = s[j] => i = j} : n \in 0..NumBlocks}

ListInit ==
    /\ queue = [i \in Blocks |-> i]
    /\ returned = << >>

\* A call raises: the list is as it was.
Raise == returned' = Error /\ UNCHANGED queue

Take(n) ==
    \/ /\ n <= Len(queue)
       /\ returned' = SubSeq(queue, 1, n)
       /\ queue' = SubSeq(queue, n + 1, Len(queue))
    \/ n > Len(queue) /\ Raise

Leave(b) ==
    \/ \E i \in DOMAIN queue :
        /\ queue[i] = b
        /\ queue' = SubSeq(queue, 1, i - 1) \o SubSeq(queue, i + 1, Len(queue))
        /\ returned' = << >>
    \/ b \notin Free /\ Raise

GiveBack(s) ==
    /\ queue' = queue \o s
    /\ returned' = << >>

ListNext ==
    \/ \E n \in 0..NumBlocks + 1 : Take(n)
    \/ \E b \in Blocks : Leave(b)
    \/ \E s \in DistinctLists(Blocks \ Free) : GiveBack(s)

ListSpec == ListInit /\ [][ListNext]_listVars
=============================================================================
