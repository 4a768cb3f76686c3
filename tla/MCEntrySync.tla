---------------------------- MODULE MCEntrySync ----------------------------
(***************************************************************************)
(* Instances of EntrySync for TLC: one or two entries, one handler at a    *)
(* time or two that interleave.                                            *)
(***************************************************************************)
EXTENDS EntrySync, TLC

CONSTANTS e1, e2, h1, h2

Perms == Permutations(Entries) \cup Permutations(Handlers)
=============================================================================
