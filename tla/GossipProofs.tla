----------------------------- MODULE GossipProofs -----------------------------
(***************************************************************************)
(* Proofs about Gossip, for any set of nodes and any neighbour lists.      *)
(* TypeOK is inductive as it stands.                                       *)
(***************************************************************************)
EXTENDS Gossip, TLAPS

Infos == [Nodes -> [Nodes -> {None, "alive", "dead"}]]

(* What one handler does to the map of one node: a new map in which the    *)
(* node itself is alive as before leaves all nodes well known.             *)
LEMMA OneMap ==
  ASSUME TypeOK, NEW n \in Nodes, NEW f \in [Nodes -> {None, "alive", "dead"}], f[n] = "alive",
         info' = [info EXCEPT ![n] = f]
  PROVE  info' \in Infos /\ \A m \in Nodes : info'[m][m] = "alive"
<1>1. info \in Infos /\ \A m \in Nodes : info[m][m] = "alive"
  BY DEF TypeOK, Infos
<1>2. info' \in Infos
  BY <1>1 DEF Infos
<1>3. \A m \in Nodes : info'[m] = IF m = n THEN f ELSE info[m]
  BY <1>1 DEF Infos
<1> QED BY <1>1, <1>2, <1>3

LEMMA OneName ==
  ASSUME TypeOK, NEW n \in Nodes, NEW m \in Nodes, n # m, NEW v \in {None, "alive", "dead"},
         info' = [info EXCEPT ![m][n] = v]
  PROVE  info' \in Infos /\ \A p \in Nodes : info'[p][p] = "alive"
<1>1. info \in Infos /\ info[m][m] = "alive"
  BY DEF TypeOK, Infos
<1> DEFINE f == [info[m] EXCEPT ![n] = v]
<1>2. info' = [info EXCEPT ![m] = f]
  OBVIOUS
<1>3. f \in [Nodes -> {None, "alive", "dead"}] /\ f[m] = "alive"
  BY <1>1 DEF Infos
<1> HIDE DEF f
<1> QED BY <1>2, <1>3, OneMap

(* Infos, connections and times stay those of nodes that exist, only nodes *)
(* that run are linked, and no sweep, rumour, goodbye or refused hello     *)
(* ever takes a node out of its own map (NewManager puts it there).        *)
THEOREM TypeInvariant == Spec => []TypeOK
<1>1. Init => TypeOK
  BY DEF Init, Fresh, TypeOK
<1>2. ASSUME TypeOK, [Next]_vars
      PROVE  TypeOK'
  <2>0. /\ up \subseteq Nodes /\ stopped \subseteq Mortal /\ info \in Infos
        /\ fresh \subseteq Nodes \X Nodes /\ link \subseteq SUBSET up
        /\ \A n \in Nodes : info[n][n] = "alive"
    BY <1>2 DEF TypeOK, Infos
  <2>a. ASSUME NEW n \in Nodes, NEW new \in SUBSET Nodes
        PROVE  LET f == [m \in Nodes |-> IF m \in new THEN "alive" ELSE info[n][m]]
               IN f \in [Nodes -> {None, "alive", "dead"}] /\ f[n] = "alive"
    BY <2>0 DEF Infos
  <2>1. ASSUME NEW n \in Nodes, checkNeighbour(n)
        PROVE  TypeOK'
    <3> DEFINE new == Neighbour[n] \ Known(n)
               f == [m \in Nodes |-> IF m \in new THEN "alive" ELSE info[n][m]]
    <3>1. /\ info' = [info EXCEPT ![n] = f] /\ fresh' = fresh \cup ({n} \X new)
          /\ up' = up /\ stopped' = stopped /\ link' = link
      BY <2>0, <2>1 DEF checkNeighbour, Enter, Infos
    <3>2. new \in SUBSET Nodes
      BY GossipAssumption
    <3>3. f \in [Nodes -> {None, "alive", "dead"}] /\ f[n] = "alive"
      BY <2>a, <3>2
    <3> HIDE DEF f, new
    <3>4. info' \in Infos /\ \A m \in Nodes : info'[m][m] = "alive"
      BY <1>2, <3>1, <3>3, OneMap
    <3> QED BY <2>0, <3>1, <3>2, <3>4 DEF TypeOK, Infos
  <2>2. ASSUME NEW n \in Nodes, NEW m \in Nodes, SayHello(n, m)
        PROVE  TypeOK'
    <3>1. n \in up /\ m \in up /\ n # m /\ up' = up /\ stopped' = stopped
      BY <2>2 DEF SayHello
    <3>2. PICK v \in {None, "alive", "dead"} : info' = [info EXCEPT ![m][n] = v]
      BY <2>2 DEF SayHello
    <3>3. info' \in Infos /\ \A p \in Nodes : info'[p][p] = "alive"
      BY <1>2, <3>1, <3>2, OneName
    <3>4. fresh' \subseteq Nodes \X Nodes
      BY <2>0, <2>2 DEF SayHello
    <3>5. link' \subseteq SUBSET up'
      BY <2>0, <2>2, <3>1 DEF SayHello
    <3> QED BY <2>0, <3>1, <3>3, <3>4, <3>5 DEF TypeOK, Infos
  <2>3. ASSUME NEW n \in Nodes, NEW m \in Nodes, NEW names \in Rumours(n), keepalive(n, m, names)
        PROVE  TypeOK'
    <3> DEFINE new == IF info[m][n] = "alive" THEN names \ Known(m) ELSE {}
               heard == IF info[m][n] = None THEN {} ELSE {<<m, n>>}
               f == [p \in Nodes |-> IF p \in new THEN "alive" ELSE info[m][p]]
    <3>1. /\ info' = [info EXCEPT ![m] = f] /\ fresh' = fresh \cup heard \cup ({m} \X new)
          /\ up' = up /\ stopped' = stopped /\ link' = link
      BY <2>0, <2>3 DEF keepalive, Infos
    <3>2. new \in SUBSET Nodes /\ heard \subseteq Nodes \X Nodes
      BY DEF Rumours, Known
    <3> HIDE DEF new, heard
    <3>3. f \in [Nodes -> {None, "alive", "dead"}] /\ f[m] = "alive"
      BY <2>a, <3>2
    <3> HIDE DEF f
    <3>4. info' \in Infos /\ \A p \in Nodes : info'[p][p] = "alive"
      BY <1>2, <3>1, <3>3, OneMap
    <3> QED BY <2>0, <3>1, <3>2, <3>4 DEF TypeOK, Infos
  <2>4. ASSUME NEW n \in Nodes, NEW m \in Nodes, Silence(n, m)
        PROVE  TypeOK'
    BY <2>0, <2>4 DEF Silence, TypeOK, Infos
  <2>5. ASSUME NEW n \in Nodes, cleanTimeout(n)
        PROVE  TypeOK'
    <3> DEFINE silent == {m \in Known(n) \ {n} : <<n, m>> \notin fresh}
               f == [m \in Nodes |-> IF m \in silent THEN None ELSE info[n][m]]
    <3>1. /\ info' = [info EXCEPT ![n] = f]
          /\ up' = up /\ stopped' = stopped /\ link' = link /\ fresh' = fresh
      BY <2>0, <2>5 DEF cleanTimeout, Infos
    <3>2. f \in [Nodes -> {None, "alive", "dead"}] /\ f[n] = "alive"
      BY <2>0 DEF Infos
    <3> HIDE DEF f
    <3>3. info' \in Infos /\ \A p \in Nodes : info'[p][p] = "alive"
      BY <1>2, <3>1, <3>2, OneMap
    <3> QED BY <2>0, <3>1, <3>3 DEF TypeOK, Infos
  <2>6. ASSUME NEW n \in Nodes, Stop(n)
        PROVE  TypeOK'
    <3>1. /\ n \in Mortal /\ up' = up \ {n} /\ stopped' = stopped \cup {n}
          /\ link' = {l \in link : n \notin l}
      BY <2>6 DEF Stop
    <3>2. fresh' \subseteq Nodes \X Nodes
      BY <2>0, <2>6 DEF Stop
    <3>3. PICK left \in [{m \in up : Linked(n, m)} -> {None, "dead", "alive"}] :
            info' = [m \in Nodes |->
                       IF m = n THEN Fresh(n)
                       ELSE IF m \in DOMAIN left /\ info[m][n] # None
                            THEN [info[m] EXCEPT ![n] = left[m]] ELSE info[m]]
      BY <2>6 DEF Stop
    <3>4. ASSUME NEW m \in Nodes
          PROVE  info'[m] \in [Nodes -> {None, "alive", "dead"}] /\ info'[m][m] = "alive"
      <4>1. CASE m = n
        BY <3>3, <4>1 DEF Fresh
      <4>2. CASE m # n /\ m \in DOMAIN left /\ info[m][n] # None
        <5>1. info'[m] = [info[m] EXCEPT ![n] = left[m]] /\ left[m] \in {None, "dead", "alive"}
          BY <3>3, <4>2
        <5> QED BY <2>0, <4>2, <5>1 DEF Infos
      <4>3. CASE m # n /\ ~(m \in DOMAIN left /\ info[m][n] # None)
        BY <2>0, <3>3, <4>3 DEF Infos
      <4> QED BY <4>1, <4>2, <4>3
    <3>5. info' \in Infos
      BY <3>3, <3>4 DEF Infos
    <3>6. link' \subseteq SUBSET up'
      BY <2>0, <3>1
    <3> QED BY <2>0, <3>1, <3>2, <3>4, <3>5, <3>6 DEF TypeOK, Infos
  <2>7. ASSUME NEW n \in Nodes, Start(n)
        PROVE  TypeOK'
    BY <2>0, <2>7 DEF Start, TypeOK, Infos
  <2>8. CASE UNCHANGED vars
    BY <1>2, <2>8 DEF vars, TypeOK
  <2> QED BY <1>2, <2>1, <2>2, <2>3, <2>4, <2>5, <2>6, <2>7, <2>8 DEF Next
<1> QED BY <1>1, <1>2, PTL DEF Spec
=============================================================================
