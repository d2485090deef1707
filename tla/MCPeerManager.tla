--------------------------- MODULE MCPeerManager ---------------------------
(***************************************************************************)
(* An instance of PeerManager for TLC: two good peers, a bad one.          *)
(***************************************************************************)
EXTENDS PeerManager

CONSTANTS g1, g2, b1
=============================================================================
