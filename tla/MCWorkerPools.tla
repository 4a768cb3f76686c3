---------------------------- MODULE MCWorkerPools ----------------------------
(* Pools of one or two slots, so that each of them can be full.            *)
EXTENDS WorkerPools

SmallPools == [p \in Pools |-> IF p = "node_introduce" THEN 2 ELSE 1]
AllMessages == {"hello", "keepalive", "stranger"}
AllOthers == {"neighbour", "beat", "close", "sweep", "entry"}
=============================================================================
