------------------------------ MODULE MCGossip ------------------------------
(* A chain of neighbour lists: a and c learn of each other by gossip only. *)
EXTENDS Gossip, TLC

CONSTANTS a, b, c
Chain == (a :> {b}) @@ (b :> {c}) @@ (c :> {})
=============================================================================
