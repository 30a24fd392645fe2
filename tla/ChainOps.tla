------------------------------- MODULE ChainOps ------------------------------
(***************************************************************************)
(* Chains of control blocks, as sequences: what the list macros of         *)
(* src/hercules/linklist.h and the order of use kept by cache.c have in    *)
(* common.  (SelectSeq of the standard modules would do; the provers do    *)
(* not know it.)                                                           *)
(***************************************************************************)
EXTENDS Integers, Sequences

\* As if nothing were unlinked.
WithoutKeeping(q, S) == q

\* RemoveListEntry for every entry that is in S: the others keep their order.
Without(q, S) ==
    LET kept[n \in 0..Len(q)] ==
            IF n = 0 THEN <<>>
            ELSE IF q[n] \in S THEN kept[n - 1] ELSE Append(kept[n - 1], q[n])
    IN kept[Len(q)]

\* What is on a chain, and that nothing is on it twice.
On(q) == {q[i] : i \in 1..Len(q)}
Once(q) == \A i, j \in 1..Len(q) : q[i] = q[j] => i = j
=============================================================================
