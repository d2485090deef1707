---------------------- MODULE MCMasternodeListService ----------------------
(***************************************************************************)
(* Instances of MasternodeListService for TLC: blocks 1 to 3, and 2 is the *)
(* first tip; the quorums of 2 and 3 are verified with the list of 1.      *)
(***************************************************************************)
EXTENDS MasternodeListService

CONSTANTS h, f

OneIsNeeded == [b \in Block |-> IF b = 1 THEN {} ELSE {1}]
=============================================================================
