------------------------- MODULE MCTransactionRelay -------------------------
(***************************************************************************)
(* Instances of TransactionRelay for TLC.                                  *)
(***************************************************************************)
EXTENDS TransactionRelay, TLC
CONSTANTS p1, p2, t1

\* Peers differ in nothing but their state; sound for the safety properties.
PeerSymmetry == Permutations(Peer)
=============================================================================
