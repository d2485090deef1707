-------------------------- MODULE MCAccountBalance --------------------------
(***************************************************************************)
(* An instance of AccountBalance for TLC: pay and rival pay the account    *)
(* from the same coin x of somebody else, and rival from a coinbase output *)
(* of the account as well (a common transaction of several wallets); spend *)
(* is a payment of the account with change, dust spends the change with an *)
(* output that is dust, and reward is a coinbase transaction of the first  *)
(* block.                                                                  *)
(***************************************************************************)
EXTENDS AccountBalance

CONSTANTS pay, rival, spend, dust, reward, x, a, b, c, d, r

TxCreates ==
    Restrict((pay :> {a}) @@ (rival :> {b}) @@ (spend :> {c}) @@ (dust :> {d}) @@ (reward :> {r}), Tx)
TxSpends ==
    Restrict((pay :> {x}) @@ (rival :> {x, r}) @@ (spend :> {a}) @@ (dust :> {c}) @@ (reward :> {}), Tx)
OutputAmount ==
    Restrict((x :> 9) @@ (a :> 5) @@ (b :> 4) @@ (c :> 3) @@ (d :> 2) @@ (r :> 1), Output)
RewardHeight == [t \in Tx \cap {reward} |-> 1]
=============================================================================
