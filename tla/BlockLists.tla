------------------------------ MODULE BlockLists ------------------------------
(***************************************************************************)
(* Arithmetic on block counts and operators on lists of blocks that the    *)
(* models of the KV cache share.                                           *)
(***************************************************************************)
EXTENDS Integers, FiniteSets, SequencesExt

\* vllm.utils.math_utils.cdiv
cdiv(a, b) == (a + b - 1) \div b
Lesser(a, b) == IF a <= b THEN a ELSE b
Greater(a, b) == IF a >= b THEN a ELSE b

\* How often block b occurs in a list of blocks.
Occurrences(s, b) == Cardinality({i \in DOMAIN s : s[i] = b})

\* The list s without the members of S, order kept.  A closed form of
\* SelectSeq(s, LAMBDA b : b \notin S): the k-th element of the result is the
\* element of s whose position is the k-th of the kept ones.
Kept(s, S) == {i \in DOMAIN s : s[i] \notin S}
Rank(K, i) == Cardinality({j \in K : j <= i})
Excluding(s, S) ==
    LET K == Kept(s, S)
    IN  [k \in 1..Cardinality(K) |-> s[CHOOSE i \in K : Rank(K, i) = k]]
=============================================================================
