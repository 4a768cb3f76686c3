----------------------------- MODULE MCClientPool -----------------------------
(* Two agents; keepalives bring both of them or only the first.            *)
EXTENDS ClientPool

CONSTANTS a, b, u, t, m, k1, k2, p1, p2

AgentLists == {{a, b}, {a}}
=============================================================================
