-------------------------- MODULE MCClientRegistry --------------------------
(***************************************************************************)
(* Instances of ClientRegistry for TLC: one client instance that opens up  *)
(* to three connections and registers one entry on each.                   *)
(***************************************************************************)
EXTENDS ClientRegistry, TLC

CONSTANTS k1, k2, k3, i1, a1, a2, u1

OneInstance == [k \in Conns |-> i1]
OneEntry    == i1 :> {u1}

Perms      == Permutations(Conns) \cup Permutations(Clients)
LimitPerms == Permutations(Conns \ Leavers)
=============================================================================
