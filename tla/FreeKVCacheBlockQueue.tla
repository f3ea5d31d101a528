------------------------ MODULE FreeKVCacheBlockQueue ------------------------
(***************************************************************************)
(* FreeKVCacheBlockQueue (kv_cache_utils.py): the free blocks as a doubly  *)
(* linked list through the blocks themselves, between a fake head and a    *)
(* fake tail, with the length kept in a counter of its own.  Every method  *)
(* is an action.  The caller is BlockPool, which gives back only blocks it *)
(* was handed (theorem NoBlockLeaks of the KV cache).                      *)
(***************************************************************************)
EXTENDS Integers, Sequences

CONSTANTS
    NumBlocks,   \* blocks of the pool
    Error        \* what a call that raises leaves in "returned"

ASSUME QueueAssumption == NumBlocks \in Nat

VARIABLES
    prev_free_block,   \* KVCacheBlock.prev_free_block, fake nodes included
    next_free_block,   \* KVCacheBlock.next_free_block
    num_free_blocks,   \* FreeKVCacheBlockQueue.num_free_blocks
    returned,          \* the result of the last call
    taken              \* the blocks in the hands of the caller

vars == <<prev_free_block, next_free_block, num_free_blocks, returned, taken>>

Blocks == 1..NumBlocks
Head_ == 0                   \* fake_free_list_head
Tail_ == NumBlocks + 1       \* fake_free_list_tail
None == -1
Nodes == Blocks \cup {Head_, Tail_}

\* The lists of distinct blocks out of S, the arguments of append_n.
DistinctLists(S) ==
    UNION {{s \in [1..n -> S] : \A i, j \in 1..n : s[i] = s[j] => i = j} : n \in 0..NumBlocks}

\* curr_block of get_all_free_blocks when the first i blocks of q were collected.
After(q, i) == next_free_block[IF i = 0 THEN Head_ ELSE q[i]]

\* get_all_free_blocks: the blocks passed on the way to the node without successor.
AllFreeBlocks ==
    CHOOSE q \in DistinctLists(Blocks) :
        /\ \A i \in 1..Len(q) : q[i] = After(q, i - 1) /\ next_free_block[q[i]] # None
        /\ next_free_block[After(q, Len(q))] = None

Raise == /\ returned' = Error
         /\ UNCHANGED <<prev_free_block, next_free_block, num_free_blocks, taken>>

\* __init__: the blocks in the order of their ids.
Init ==
    /\ next_free_block = [x \in Nodes |-> IF x = Tail_ THEN None ELSE x + 1]
    /\ prev_free_block = [x \in Nodes |-> IF x = Head_ THEN None ELSE x - 1]
    /\ num_free_blocks = NumBlocks
    /\ returned = << >>
    /\ taken = {}

PopLeft ==
    LET first == next_free_block[Head_]
    IN  \/ first = Tail_ /\ Raise
        \/ /\ first # Tail_
           /\ next_free_block' = [next_free_block EXCEPT
                  ![Head_] = next_free_block[first], ![first] = None]
           /\ prev_free_block' = [prev_free_block EXCEPT
                  ![next_free_block[first]] = Head_, ![first] = None]
           /\ num_free_blocks' = num_free_blocks - 1
           /\ returned' = <<first>>
           /\ taken' = taken \cup {first}

\* The nodes the loop of popleft_n passes, the new first one last.
IsPath(path, n) ==
    /\ path[0] = next_free_block[Head_]
    /\ \A i \in 1..n : path[i] = next_free_block[path[i - 1]]

\* Mutant: the new first block keeps its link to the last popped one.
BugUnlinkedPrev(gone, curr) ==
    [x \in Nodes |-> IF x \in gone THEN None ELSE prev_free_block[x]]

\* The backward links without the popped nodes.
UnlinkedPrev(gone, curr) ==
    [x \in Nodes |-> IF x \in gone THEN None
                     ELSE IF x = curr THEN Head_ ELSE prev_free_block[x]]

PopLeftN(n) ==
    \/ num_free_blocks < n /\ Raise
    \/ /\ num_free_blocks >= n
       /\ \E path \in [0..n -> Nodes] :
           LET gone == {path[i] : i \in 0..n - 1}
           IN  /\ IsPath(path, n)
               /\ next_free_block' =
                      [x \in Nodes |-> IF x \in gone THEN None
                                       ELSE IF x = Head_ THEN path[n] ELSE next_free_block[x]]
               /\ prev_free_block' = UnlinkedPrev(gone, path[n])
               /\ num_free_blocks' = num_free_blocks - n
               /\ returned' = [i \in 1..n |-> path[i - 1]]
               /\ taken' = taken \cup gone

\* Mutant: a removed block keeps its own links.
BugRemove(b) ==
    \/ (prev_free_block[b] = None \/ next_free_block[b] = None) /\ Raise
    \/ /\ prev_free_block[b] # None /\ next_free_block[b] # None
       /\ next_free_block' =
              [next_free_block EXCEPT ![prev_free_block[b]] = next_free_block[b]]
       /\ prev_free_block' =
              [prev_free_block EXCEPT ![next_free_block[b]] = prev_free_block[b]]
       /\ num_free_blocks' = num_free_blocks - 1
       /\ returned' = << >>
       /\ taken' = taken \cup {b}

Remove(b) ==
    \/ (prev_free_block[b] = None \/ next_free_block[b] = None) /\ Raise
    \/ /\ prev_free_block[b] # None /\ next_free_block[b] # None
       /\ next_free_block' = [next_free_block EXCEPT
              ![prev_free_block[b]] = next_free_block[b], ![b] = None]
       /\ prev_free_block' = [prev_free_block EXCEPT
              ![next_free_block[b]] = prev_free_block[b], ![b] = None]
       /\ num_free_blocks' = num_free_blocks - 1
       /\ returned' = << >>
       /\ taken' = taken \cup {b}

AppendBlock(b) ==
    LET last == prev_free_block[Tail_]
    IN  /\ next_free_block' = [next_free_block EXCEPT ![last] = b, ![b] = Tail_]
        /\ prev_free_block' = [prev_free_block EXCEPT ![b] = last, ![Tail_] = b]
        /\ num_free_blocks' = num_free_blocks + 1
        /\ returned' = << >>
        /\ taken' = taken \ {b}

\* The links append_n makes: the old last node, blocks[1], ..., blocks[n], tail.
AppendN(blocks) ==
    LET n == Len(blocks)
        last == prev_free_block[Tail_]
        new == {blocks[i] : i \in 1..n}
        At(x) == CHOOSE i \in 1..n : blocks[i] = x
    IN  /\ next_free_block' = [x \in Nodes |->
               IF x \in new THEN (IF At(x) = n THEN Tail_ ELSE blocks[At(x) + 1])
               ELSE IF x = last /\ n > 0 THEN blocks[1] ELSE next_free_block[x]]
        /\ prev_free_block' = [x \in Nodes |->
               IF x \in new THEN (IF At(x) = 1 THEN last ELSE blocks[At(x) - 1])
               ELSE IF x = Tail_ /\ n > 0 THEN blocks[n] ELSE prev_free_block[x]]
        /\ num_free_blocks' = num_free_blocks + n
        /\ returned' = << >>
        /\ taken' = taken \ new

Next ==
    \/ PopLeft
    \/ \E n \in 0..NumBlocks + 1 : PopLeftN(n)
    \/ \E b \in Blocks : Remove(b)
    \/ \E b \in taken : AppendBlock(b)
    \/ \E s \in DistinctLists(taken) : AppendN(s)

Spec == Init /\ [][Next]_vars

-----------------------------------------------------------------------------
(* Properties. *)

\* The node at place i of the list q, the fake nodes around it included.
Place(q, i) == IF i = 0 THEN Head_ ELSE IF i = Len(q) + 1 THEN Tail_ ELSE q[i]

\* The links, both ways, the counter and the caller's blocks are those of q.
Links(q) ==
    /\ \A i \in 0..Len(q) : next_free_block[Place(q, i)] = Place(q, i + 1)
    /\ \A i \in 0..Len(q) : prev_free_block[Place(q, i + 1)] = Place(q, i)
    /\ next_free_block[Tail_] = None /\ prev_free_block[Head_] = None
    /\ \A b \in taken : next_free_block[b] = None /\ prev_free_block[b] = None
    /\ num_free_blocks = Len(q)
    /\ taken = Blocks \ {q[i] : i \in 1..Len(q)}

\* Whatever is popped, removed and appended, the two links of every node and
\* the counter describe one list of distinct blocks, and a block outside the
\* list has no links: that is how remove() recognises a block it was not given.
LinksFormAList == \E q \in DistinctLists(Blocks) : Links(q)

Represented == INSTANCE FreeBlockList WITH queue <- AllFreeBlocks

\* Every method of the linked list does to the list of free blocks what the
\* abstract list does, returns the same blocks, and raises in the same cases.
ImplementsFreeBlockList == Represented!ListSpec
=============================================================================
