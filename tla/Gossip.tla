------------------------------- MODULE Gossip -------------------------------
(***************************************************************************)
(* How nodes come to know each other and forget each other                 *)
(* (node/manager.go: NewManager, keepalive, checkNeighbour, makefriends,   *)
(* cleanTimeout, deleteNode, handleSayHello, Stop).  Every node has its    *)
(* configured neighbours; a keepalive carries the names of up to           *)
(* GOOSIP_SIZE known nodes, dead ones included, and the receiver makes an  *)
(* Info of every name it does not know, alive and heard of just now.       *)
(*                                                                         *)
(* PeerLink has the connections and the races of one pair of nodes; here a *)
(* pair is linked or not, and a message is handled when it is sent.        *)
(***************************************************************************)
EXTENDS Naturals, FiniteSets

CONSTANTS
  Nodes,
  Neighbour,     \* aryNeighbour of every node
  GOOSIP_SIZE,
  Mortal,        \* the nodes that may stop, once
  None

ASSUME GossipAssumption ==
  /\ IsFiniteSet(Nodes) /\ Mortal \subseteq Nodes
  /\ Neighbour \in [Nodes -> SUBSET Nodes]
  /\ \A n \in Nodes : n \notin Neighbour[n]
  /\ GOOSIP_SIZE \in Nat \ {0}

VARIABLES
  up,        \* nodes that run
  stopped,   \* nodes that have stopped once
  info,      \* mNodeInfo of every node: None, alive or dead
  fresh,     \* heard of within NODE_TIMEOUT (pairs <<node, name>>)
  link       \* pairs of nodes with a connection bound on both sides

vars == <<up, stopped, info, fresh, link>>

Known(n) == {m \in Nodes : info[n][m] # None}
Linked(n, m) == {n, m} \in link

(* The names a keepalive may carry: a window of a random order of the map, *)
(* in which the node itself is too.                                        *)
Rumours(n) ==
  LET size == Cardinality(Known(n))
  IN {names \in SUBSET Known(n) :
        Cardinality(names) = IF size < GOOSIP_SIZE THEN size ELSE GOOSIP_SIZE}

(* New names enter the map alive and heard of now; known ones are left     *)
(* alone, their time too.                                                  *)
Enter(n, names) ==
  LET new == names \ Known(n)
  IN /\ info' = [info EXCEPT ![n] = [m \in Nodes |-> IF m \in new THEN "alive" ELSE @[m]]]
     /\ fresh' = fresh \cup ({n} \X new)

Fresh(n) == [m \in Nodes |-> IF m = n THEN "alive" ELSE None]

-----------------------------------------------------------------------------
Init ==
  /\ up = Nodes /\ stopped = {} /\ fresh = {} /\ link = {}
  /\ info = [n \in Nodes |-> Fresh(n)]

checkNeighbour(n) ==
  /\ n \in up
  /\ Enter(n, Neighbour[n])
  /\ UNCHANGED <<up, stopped, link>>

\* Mutant: the refusing Info stays in the map and is noted as heard of.
SayHelloKeepsDead(n, m) ==
  /\ n \in up /\ m \in up /\ n # m /\ ~Linked(n, m)
  /\ info[n][m] = "alive"
  /\ fresh' = fresh \cup {<<m, n>>}
  /\ IF info[m][n] = "dead"
       THEN UNCHANGED <<info, link>>
       ELSE /\ info' = [info EXCEPT ![m][n] = "alive"]
            /\ link' = link \cup {{n, m}}
  /\ UNCHANGED <<up, stopped>>

(* reconnect of n against handleSayHello of m: a name m does not know      *)
(* enters its map; a dead Info refuses, and the close of the refused       *)
(* connection takes it out of the map.                                     *)
SayHello(n, m) ==
  /\ n \in up /\ m \in up /\ n # m /\ ~Linked(n, m)
  /\ info[n][m] = "alive"
  /\ IF info[m][n] = "dead"
       THEN /\ info' = [info EXCEPT ![m][n] = None]
            /\ fresh' = fresh \ {<<m, n>>}
            /\ UNCHANGED link
       ELSE /\ info' = [info EXCEPT ![m][n] = "alive"]
            /\ fresh' = fresh \cup {<<m, n>>, <<n, m>>}
            /\ link' = link \cup {{n, m}}
  /\ UNCHANGED <<up, stopped>>

\* Mutant: a rumour also counts as having heard of the nodes it names.
KeepaliveRefreshes(n, m, names) ==
  /\ n \in up /\ m \in up /\ Linked(n, m) /\ info[n][m] # None
  /\ names \in Rumours(n)
  /\ Enter(m, IF info[m][n] = "alive" THEN names ELSE {})
       \/ (info[m][n] = "alive" /\ names \subseteq Known(m)
           /\ fresh' = fresh \cup ({m} \X names) /\ UNCHANGED info)
  /\ UNCHANGED <<up, stopped, link>>

(* keepalive of n as m handles it: only a live Info listens to the rumours *)
(* (handleKeepAlive, makefriends); a dead one is only noted (OnRead).      *)
keepalive(n, m, names) ==
  /\ n \in up /\ m \in up /\ Linked(n, m) /\ info[n][m] # None
  /\ names \in Rumours(n)
  /\ LET heard == IF info[m][n] = None THEN {} ELSE {<<m, n>>}
         new == IF info[m][n] = "alive" THEN names \ Known(m) ELSE {}
     IN /\ fresh' = fresh \cup heard \cup ({m} \X new)
        /\ info' = [info EXCEPT ![m] =
                      [p \in Nodes |-> IF p \in new THEN "alive" ELSE @[p]]]
  /\ UNCHANGED <<up, stopped, link>>

(* Fifteen seconds without a word from m: it does not run, or nobody dials *)
(* (a live Info is dialled every two seconds, a dead one never).           *)
Silence(n, m) ==
  /\ <<n, m>> \in fresh
  /\ m \notin up \/ (~Linked(n, m) /\ info[n][m] = "dead")
  /\ fresh' = fresh \ {<<n, m>>}
  /\ UNCHANGED <<up, stopped, info, link>>

\* Mutant: the sweep does not spare the node's own Info.
CleanSelfToo(n) ==
  /\ n \in up
  /\ \E m \in Known(n) : /\ <<n, m>> \notin fresh
                          /\ info' = [info EXCEPT ![n][m] = None]
  /\ UNCHANGED <<up, stopped, fresh, link>>

(* cleanTimeout deletes every silent Info but the node's own (deleteNode). *)
cleanTimeout(n) ==
  /\ n \in up
  /\ LET silent == {m \in Known(n) \ {n} : <<n, m>> \notin fresh}
     IN /\ silent # {}
        /\ info' = [info EXCEPT ![n] = [m \in Nodes |-> IF m \in silent THEN None ELSE @[m]]]
  /\ UNCHANGED <<up, stopped, fresh, link>>

(* A node stops.  At each linked node its goodbye is handled before the    *)
(* connection closes (the Info leaves the map with its last connection),   *)
(* after it (the Info stays, dead), or it never comes (a crash).           *)
Stop(n) ==
  /\ n \in up \cap Mortal /\ n \notin stopped
  /\ up' = up \ {n} /\ stopped' = stopped \cup {n}
  /\ \E left \in [{m \in up : Linked(n, m)} -> {None, "dead", "alive"}] :
       info' = [m \in Nodes |->
                  IF m = n THEN Fresh(n)
                  ELSE IF m \in DOMAIN left /\ info[m][n] # None
                       THEN [info[m] EXCEPT ![n] = left[m]] ELSE info[m]]
  /\ link' = {l \in link : n \notin l}
  /\ fresh' = {f \in fresh : f[1] # n /\ info'[f[1]][f[2]] # None}

Start(n) ==
  /\ n \in Nodes \ up
  /\ up' = up \cup {n}
  /\ UNCHANGED <<stopped, info, fresh, link>>

Next ==
  \E n \in Nodes :
    \/ checkNeighbour(n) \/ cleanTimeout(n) \/ Stop(n) \/ Start(n)
    \/ \E m \in Nodes : SayHello(n, m) \/ Silence(n, m)
                        \/ \E names \in Rumours(n) : keepalive(n, m, names)

Spec == Init /\ [][Next]_vars

(* The timers of running nodes fire (2 s, 1 min, 3 min), reconnect tasks   *)
(* run, time passes.  A stopped node need not come back.                   *)
Fairness ==
  \A n \in Nodes :
    /\ WF_vars(checkNeighbour(n)) /\ WF_vars(cleanTimeout(n))
    /\ \A m \in Nodes : /\ WF_vars(SayHello(n, m)) /\ WF_vars(Silence(n, m))
                        /\ WF_vars(\E names \in Rumours(n) : keepalive(n, m, names))

FairSpec == Spec /\ Fairness

-----------------------------------------------------------------------------
(* Types of all variables; a node always knows itself (NewManager).        *)
TypeOK ==
  /\ up \subseteq Nodes /\ stopped \subseteq Mortal
  /\ info \in [Nodes -> [Nodes -> {None, "alive", "dead"}]]
  /\ fresh \subseteq Nodes \X Nodes
  /\ link \subseteq SUBSET up
  /\ \A n \in Nodes : info[n][n] = "alive"

(* Nodes that are connected through their neighbour lists, in whatever     *)
(* direction, all come to know and hear each other once they all run,      *)
(* whatever goodbyes and restarts came before: by neighbours, hellos and   *)
(* gossip together.                                                        *)
AllMeet ==
  <>[](up = Nodes) =>
    <>[](\A n, m \in Nodes : info[n][m] = "alive" /\ (n = m \/ Linked(n, m)))

(* A node that is gone for good times out at every node that runs on, as   *)
(* often as gossip or a neighbour list brings its name back.               *)
GoneTimesOut ==
  \A n, p \in Nodes :
    <>[](p \notin up /\ n \in up) => []<>(info[n][p] = None)
=============================================================================
