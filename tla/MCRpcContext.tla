---------------------------- MODULE MCRpcContext ----------------------------
(***************************************************************************)
(* Instances of RpcContext for TLC.  Node: two calls on one connection     *)
(* whose map is its own.  Client: two connections that share one map, as   *)
(* the client library sets them up.                                        *)
(***************************************************************************)
EXTENDS RpcContext, TLC

CONSTANTS c1, c2, k1, k2, t1

NodeConnOf    == c1 :> k1 @@ c2 :> k1
NodeTableOf   == k1 :> t1
NodeCloses    == k1 :> 1
ClientConnOf  == c1 :> k1 @@ c2 :> k2
ClientTableOf == k1 :> t1 @@ k2 :> t1
ClientCloses  == k1 :> 1 @@ k2 :> 0
=============================================================================
