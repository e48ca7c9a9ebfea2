---------------------------- MODULE MCSharedLog -----------------------------
(* Three calls, each with a batch of two orders or one whose second item      *)
(* lacks a field.  commit() is a batch of one, which every batch starts as.   *)
EXTENDS SharedLog, TLC

CONSTANTS c1, c2, c3, o1, o2

Symmetry == Permutations(Calls)

Good(o) == [order |-> o, whole |-> TRUE]
MCBatches ==
    {<<Good(o2), Good(o1)>>,
     <<Good(o1), [order |-> o2, whole |-> FALSE], Good(o2)>>}
=============================================================================
