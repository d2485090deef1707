---------------------------- MODULE MCBlockChain ----------------------------
(***************************************************************************)
(* Instances of BlockChain for TLC: the blocks c1, s2 and c3 of heights 1, *)
(* 2 and 3, some of them checkpoints, x3 which disagrees with c3, and two  *)
(* branches a4, a5, a6 and b4, b5, b6 above c3, with x6 beside b6.         *)
(***************************************************************************)
EXTENDS BlockChain

CONSTANTS c1, s2, c3, x3, a4, a5, a6, b4, b5, b6, x6, t1, t2

TreePrev ==
    [b \in Block |->
       CASE b = c1 -> None [] b = s2 -> IF c1 \in Block THEN c1 ELSE None
         [] b \in {c3, x3} -> IF s2 \in Block THEN s2 ELSE None
         [] b \in {a4, b4} -> c3
         [] b = a5 -> a4 [] b = a6 -> a5 [] b = b5 -> b4 [] b \in {b6, x6} -> b5]
\* The branches fork above a4: its transaction is below the join of a
\* reorganization from a5 to b6.
LatePrev == [b \in Block |-> IF b = b5 THEN a4 ELSE TreePrev[b]]

TreeHeight ==
    LET h[b \in Block] == CASE b = c3 -> 3 [] b = s2 -> 2
                            [] OTHER -> IF Prev[b] = None THEN 1 ELSE h[Prev[b]] + 1
    IN  h
\* Every block of the branch b4, b5, b6 has a little more work than the one of
\* the same height in the other branch.
TreeWork == [b \in Block |-> 10 * TreeHeight[b] + IF b \in {b4, b5, b6} THEN 1 ELSE 0]

\* The branches share no transaction.
SplitTxIn ==
    [b \in Block |-> Tx \cap CASE b = a4 -> {t1} [] b = b4 -> {t2} [] OTHER -> {}]
\* The branches contain the same transaction, at different heights.
SharedTxIn ==
    [b \in Block |-> Tx \cap CASE b \in {a4, b5} -> {t1}
                               [] b = a5 -> {t2} [] OTHER -> {}]
=============================================================================
