--------------------------- MODULE MCPeerRegistry ---------------------------
(* PeerRegistry for TLC: what other nodes answer.                          *)
EXTENDS PeerRegistry, TLC

CONSTANTS u1, u2, k1, k2

(* Lists of one item: any node with or without a key at any URL, this node *)
(* (k2 at u2) among them.                                                  *)
OneItem == {{i} : i \in Item}
=============================================================================
