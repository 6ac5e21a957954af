--------------------------- MODULE MCPeerDiscovery ---------------------------
(* PeerDiscovery on a small instance for TLC. *)
EXTENDS PeerDiscovery
=============================================================================
