----------------------------- MODULE MCPeerLink -----------------------------
(* Model checking of PeerLink: the constants are given in the .cfg.        *)
EXTENDS PeerLink

=============================================================================
