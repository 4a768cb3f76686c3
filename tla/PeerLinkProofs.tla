--------------------------- MODULE PeerLinkProofs ---------------------------
(***************************************************************************)
(* Proofs about PeerLink for any connections, Infos and bounds: the close  *)
(* callback always looks for a connection in the Info that lists it, and   *)
(* the sweep of connections that never said hello misses none.             *)
(***************************************************************************)
EXTENDS PeerLink, TLAPS

(* An Info that newNode allocates is one that nobody used.                 *)
LEMMA Allocated ==
    ASSUME CanAllocate
    PROVE  newNode \in Infos /\ status[newNode] = "free"
BY DEF CanAllocate, newNode

(* Every variable keeps its type, whatever handler, callback or timer runs. *)
LEMMA TypeInit == Init => TypeOK
<1> SUFFICES ASSUME Init PROVE TypeOK
  OBVIOUS
<1>1. {fresh, forgets, up} \subseteq BOOLEAN
  BY DEF Init
<1>2. 0 \in 0 .. MaxFaults /\ 0 \in 0 .. MaxStops
  BY PeerAssumption
<1> QED
  BY <1>1, <1>2 DEF Init, TypeOK, Conns

LEMMA TypeStep == TypeOK /\ [Next]_vars => TypeOK'
<1> SUFFICES ASSUME TypeOK, [Next]_vars PROVE TypeOK'
  OBVIOUS
<1> USE DEF Conns
<1>1. CASE UNCHANGED vars
  BY <1>1 DEF TypeOK, vars
<1>2. ASSUME NEW c \in InConns, Accept(c) PROVE TypeOK'
  BY <1>2 DEF Accept, Goes, infoVars, restVars, TypeOK
<1>3. ASSUME NEW c \in InConns, HelloRefused(c) PROVE TypeOK'
  BY <1>3, PeerAssumption DEF HelloRefused, Fault, Goes, infoVars, TypeOK
<1>4. ASSUME NEW c \in Conns, OnNewConnection(c) PROVE TypeOK'
  BY <1>4 DEF OnNewConnection, infoVars, restVars, TypeOK
<1>5. ASSUME NEW c \in Conns, HelloLookup(c) PROVE TypeOK'
  BY <1>5, Allocated, PeerAssumption DEF HelloLookup, Overtakes, Fault, Goes, TypeOK
<1>6. ASSUME NEW c \in Conns, HelloBind(c) PROVE TypeOK'
  BY <1>6 DEF HelloBind, Leaves, Goes, restVars, TypeOK
<1>7. ASSUME NEW c \in Conns, HelloDone(c) PROVE TypeOK'
  BY <1>7 DEF HelloDone, refreshKeepLiveTime, Goes, restVars, TypeOK
<1>8. ASSUME NEW c \in Conns, addConnection_test(c) PROVE TypeOK'
  BY <1>8 DEF addConnection_test, AfterAdd, Leaves, Closes, Goes, infoVars, restVars, TypeOK
<1>9. ASSUME NEW c \in Conns, addConnection_append(c) PROVE TypeOK'
  BY <1>9 DEF addConnection_append, AfterAdd, Leaves, Goes, restVars, TypeOK
<1>10. ASSUME NEW c \in Conns, OnCloseConnection(c) PROVE TypeOK'
  <2>1. {fresh', forgets', up'} \subseteq BOOLEAN
    BY <1>10, Zenon DEF OnCloseConnection, TypeOK
  <2> QED
    BY <1>10, <2>1, PeerAssumption
       DEF OnCloseConnection, removeConnection, Overtakes, Fault, TypeOK
<1>11. ASSUME NEW c \in Conns, CollectConn(c) PROVE TypeOK'
  BY <1>11 DEF CollectConn, Goes, infoVars, restVars, TypeOK
<1>12. ASSUME NEW c \in Conns, cleanTimeout_conn(c) PROVE TypeOK'
  BY <1>12 DEF cleanTimeout_conn, Closes, infoVars, restVars, TypeOK
<1>13. ASSUME NEW c \in Conns, HandleGoodbye(c) PROVE TypeOK'
  BY <1>13 DEF HandleGoodbye, refreshKeepLiveTime, connVars, TypeOK
<1>14. ASSUME NEW c \in Conns, ReconnectBinds(c) PROVE TypeOK'
  BY <1>14 DEF ReconnectBinds, Goes, infoVars, restVars, TypeOK
<1>15. ASSUME NEW c \in Conns, ReconnectFails(c) PROVE TypeOK'
  BY <1>15, PeerAssumption DEF ReconnectFails, Fault, Closes, Leaves, Goes, infoVars, TypeOK
<1>16. ASSUME NEW c \in Conns, HandleKeepAlive(c) PROVE TypeOK'
  BY <1>16, PeerAssumption DEF HandleKeepAlive, refreshKeepLiveTime, Fault, connVars, TypeOK
<1>17. ASSUME NEW c \in Conns, NotAuth(c) \/ Cut(c) PROVE TypeOK'
  BY <1>17, PeerAssumption DEF NotAuth, Cut, Fault, Closes, infoVars, restVars, TypeOK
<1>18. ASSUME NEW i \in Infos, CollectInfo(i) PROVE TypeOK'
  BY <1>18 DEF CollectInfo, connVars, restVars, TypeOK
<1>19. ASSUME NEW i \in Infos, NEW c \in OutConns, reconnect(i, c) PROVE TypeOK'
  BY <1>19 DEF reconnect, NewClient, Goes, infoVars, restVars, TypeOK
<1>20. CASE SyncEnds \/ CloseForgets \/ cleanTimeout_node \/ deleteNode
  BY <1>20 DEF SyncEnds, CloseForgets, cleanTimeout_node, deleteNode, connVars, TypeOK
<1>21. CASE Silence
  <2>1. faults' \in 0 .. MaxFaults
    BY <1>21, PeerAssumption DEF Silence, Fault, TypeOK
  <2> QED
    BY <1>21, <2>1 DEF Silence, connVars, TypeOK
<1>22. CASE checkNeighbour \/ makefriends
  <2>1. faults' \in 0 .. MaxFaults
    BY <1>22, PeerAssumption DEF checkNeighbour, makefriends, Fault, TypeOK
  <2>2. known' \in Infos /\ status' \in [Infos -> {"free", "alive", "dead"}] /\ fresh' = TRUE
    BY <1>22, Allocated DEF checkNeighbour, makefriends, Learn, TypeOK
  <2> QED
    BY <1>22, <2>1, <2>2 DEF checkNeighbour, makefriends, connVars, TypeOK
<1>23. CASE PeerStops \/ PeerStarts
  <2>1. stops' \in 0 .. MaxStops
    BY <1>23, PeerAssumption DEF PeerStops, PeerStarts, TypeOK
  <2>2. sock' \in [Conns -> {"unused", "open", "closed", "gone"}] /\ byes' \subseteq Conns
    BY <1>23 DEF PeerStops, PeerStarts, CutAll, connVars, TypeOK
  <2> QED
    BY <1>23, <2>1, <2>2 DEF PeerStops, PeerStarts, infoVars, connVars, TypeOK
<1> QED
  BY <1>1, <1>2, <1>3, <1>4, <1>5, <1>6, <1>7, <1>8, <1>9, <1>10, <1>11, <1>12, <1>13,
     <1>14, <1>15, <1>16, <1>17, <1>18, <1>19, <1>20, <1>21, <1>22, <1>23
     DEF Next, Handler

\* Every variable of the manager's view of a peer keeps its type, and the
\* counters of faults stay within their bounds.
THEOREM TypeInvariant == Spec => []TypeOK
BY TypeInit, TypeStep, PTL DEF Spec

-----------------------------------------------------------------------------
(* Where the handler of a connection stands tells which connection it is,  *)
(* and that it has an Info to work on.                                     *)
Roles ==
  \A c \in Conns :
    /\ sock[c] = "unused" <=> task[c] = "idle"
    /\ task[c] = "call" => c \notin InConns
    /\ task[c] \in {"hello", "bind", "untemp"} => c \in InConns
    /\ task[c] \in {"call", "check", "append", "bind"} => target[c] \in Infos

(* The accepting side binds last, the dialling side first.                 *)
BindOrder ==
  \A c \in Conns :
    /\ task[c] \in {"idle", "hello", "call"} => ctx[c] = None
    /\ task[c] \in {"check", "append", "bind"} /\ c \in InConns => ctx[c] = None
    /\ task[c] \in {"check", "append", "bind"} /\ c \notin InConns => ctx[c] = target[c]
    /\ task[c] = "untemp" => ctx[c] # None

(* A connection is listed after addConnection only, by the Info that is    *)
(* about to be bound to it or is bound to it.                              *)
Listing ==
  \A i \in Infos : \A c \in list[i] :
    /\ task[c] \in {"bind", "untemp", "done"}
    /\ task[c] = "bind" => target[c] = i
    /\ task[c] # "bind" => ctx[c] = i

LinkInv == TypeOK /\ Roles /\ BindOrder /\ Listing /\ SweepMissesNone

LEMMA LinkInit == Init => LinkInv
<1> SUFFICES ASSUME Init PROVE LinkInv
  OBVIOUS
<1>1. TypeOK
  BY TypeInit
<1>2. Roles /\ BindOrder /\ Listing /\ SweepMissesNone
  BY DEF Init, Roles, BindOrder, Listing, SweepMissesNone, Conns
<1> QED
  BY <1>1, <1>2 DEF LinkInv

LEMMA LinkStep == LinkInv /\ [Next]_vars => LinkInv'
<1> SUFFICES ASSUME LinkInv, [Next]_vars PROVE (Roles /\ BindOrder /\ Listing /\ SweepMissesNone)'
  BY TypeStep DEF LinkInv
<1> DEFINE Parts == Roles /\ BindOrder /\ Listing /\ SweepMissesNone
<1> SUFFICES Parts'
  OBVIOUS
<1> USE DEF LinkInv, Roles, BindOrder, Listing, SweepMissesNone, Conns, HelloLocked
<1> USE PeerAssumption
<1>1. CASE UNCHANGED vars
  BY <1>1 DEF vars
<1>2. ASSUME NEW c \in InConns, Accept(c) PROVE Parts'
  BY <1>2 DEF Accept, Goes, infoVars, restVars, TypeOK
<1>3. ASSUME NEW c \in InConns, HelloRefused(c) PROVE Parts'
  BY <1>3 DEF HelloRefused, Fault, Goes, infoVars, TypeOK
<1>4. ASSUME NEW c \in Conns, OnNewConnection(c) PROVE Parts'
  BY <1>4 DEF OnNewConnection, infoVars, restVars, TypeOK
<1>5. ASSUME NEW c \in Conns, HelloLookup(c) PROVE Parts'
  BY <1>5, Allocated DEF HelloLookup, Goes, TypeOK
<1>6. ASSUME NEW c \in Conns, HelloBind(c) PROVE Parts'
  BY <1>6 DEF HelloBind, Leaves, Goes, restVars, TypeOK
<1>7. ASSUME NEW c \in Conns, HelloDone(c) PROVE Parts'
  BY <1>7 DEF HelloDone, Goes, restVars, TypeOK
<1>8. ASSUME NEW c \in Conns, addConnection_test(c) PROVE Parts'
  BY <1>8 DEF addConnection_test, AfterAdd, Leaves, Closes, Goes, infoVars, restVars, TypeOK
<1>9. ASSUME NEW c \in Conns, addConnection_append(c) PROVE Parts'
  BY <1>9 DEF addConnection_append, AfterAdd, Leaves, Goes, restVars, TypeOK
<1>10. ASSUME NEW c \in Conns, OnCloseConnection(c) PROVE Parts'
  BY <1>10 DEF OnCloseConnection, removeConnection, TypeOK
<1>11. ASSUME NEW c \in Conns, CollectConn(c) PROVE Parts'
  BY <1>11 DEF CollectConn, Goes, infoVars, restVars, TypeOK
<1>12. ASSUME NEW c \in Conns, cleanTimeout_conn(c) PROVE Parts'
  BY <1>12 DEF cleanTimeout_conn, Closes, infoVars, restVars, TypeOK
<1>13. ASSUME NEW c \in Conns, HandleGoodbye(c) PROVE Parts'
  BY <1>13 DEF HandleGoodbye, connVars, TypeOK
<1>14. ASSUME NEW c \in Conns, ReconnectBinds(c) PROVE Parts'
  BY <1>14 DEF ReconnectBinds, Goes, infoVars, restVars, TypeOK
<1>15. ASSUME NEW c \in Conns, ReconnectFails(c) PROVE Parts'
  BY <1>15 DEF ReconnectFails, Closes, Leaves, Goes, infoVars, TypeOK
<1>16. ASSUME NEW c \in Conns, HandleKeepAlive(c) PROVE Parts'
  BY <1>16 DEF HandleKeepAlive, connVars, TypeOK
<1>17. ASSUME NEW c \in Conns, NotAuth(c) \/ Cut(c) PROVE Parts'
  BY <1>17 DEF NotAuth, Cut, Closes, infoVars, restVars, TypeOK
<1>18. ASSUME NEW i \in Infos, CollectInfo(i) PROVE Parts'
  BY <1>18 DEF CollectInfo, connVars, restVars, TypeOK
<1>19. ASSUME NEW i \in Infos, NEW c \in OutConns, reconnect(i, c) PROVE Parts'
  BY <1>19 DEF reconnect, NewClient, Goes, infoVars, restVars, TypeOK
<1>20. CASE \/ SyncEnds \/ CloseForgets \/ cleanTimeout_node \/ deleteNode \/ Silence
            \/ checkNeighbour \/ makefriends \/ PeerStarts
  BY <1>20 DEF SyncEnds, CloseForgets, cleanTimeout_node, deleteNode, Silence,
               checkNeighbour, makefriends, PeerStarts, infoVars, connVars
<1>21. CASE PeerStops
  BY <1>21 DEF PeerStops, CutAll, infoVars, TypeOK
<1> QED
  BY <1>1, <1>2, <1>3, <1>4, <1>5, <1>6, <1>7, <1>8, <1>9, <1>10, <1>11, <1>12, <1>13,
     <1>14, <1>15, <1>16, <1>17, <1>18, <1>19, <1>20, <1>21
     DEF Next, Handler

(* The invariant holds in every reachable state.                           *)
LEMMA LinkInvariant == Spec => []LinkInv
BY LinkInit, LinkStep, PTL DEF Spec

\* OnCloseConnection always looks for a connection in the Info that lists it,
\* in whichever order handleSayHello and reconnect list and bind: an Info lists
\* only connections whose context names it or is about to, and no two Infos
\* list the same one.
THEOREM ContextMatches == Spec => []ListsMatchContext
<1>1. LinkInv => ListsMatchContext
  BY PeerAssumption DEF LinkInv, TypeOK, Roles, BindOrder, Listing, ListsMatchContext, Conns
<1> QED
  BY <1>1, LinkInvariant, PTL

\* cleanTimeout finds every accepted connection that is open and never became
\* a node's: it is in mTempConnection, about to be, or its hello is in work.
THEOREM SweepIsComplete == Spec => []SweepMissesNone
<1>1. LinkInv => SweepMissesNone
  BY DEF LinkInv
<1> QED
  BY <1>1, LinkInvariant, PTL

(* A step lists only the connection addConnection appends, and only the    *)
(* close callback ends a connection.                                       *)
LEMMA ListedAndGone ==
    ASSUME LinkInv, [Next]_vars, NEW c \in Conns
    PROVE  /\ \A i \in Infos : c \in list'[i] => c \in list[i] \/ task[c] = "append"
           /\ sock'[c] = "gone" => sock[c] = "gone" \/ OnCloseConnection(c)
<1> DEFINE Goal == /\ \A i \in Infos : c \in list'[i] => c \in list[i] \/ task[c] = "append"
                   /\ sock'[c] = "gone" => sock[c] = "gone" \/ OnCloseConnection(c)
<1> SUFFICES Goal
  OBVIOUS
<1> USE DEF LinkInv, TypeOK, Conns
<1>1. ASSUME NEW d \in Conns, addConnection_append(d) PROVE Goal
  BY <1>1 DEF addConnection_append
<1>2. ASSUME NEW d \in Conns, OnCloseConnection(d) PROVE Goal
  <2>1. CASE d = c
    BY <1>2, <2>1 DEF OnCloseConnection, removeConnection
  <2>2. CASE d # c
    BY <1>2, <2>2 DEF OnCloseConnection, removeConnection
  <2> QED
    BY <2>1, <2>2
<1>3. ASSUME NEW d \in Conns,
             \/ Accept(d) \/ addConnection_test(d) \/ CollectConn(d) \/ cleanTimeout_conn(d)
             \/ ReconnectFails(d) \/ NotAuth(d) \/ Cut(d)
             \/ \E i \in Infos : reconnect(i, d)
      PROVE  Goal
  <2>1. list' = list
    BY <1>3 DEF Accept, addConnection_test, CollectConn, cleanTimeout_conn, ReconnectFails,
                NotAuth, Cut, reconnect, infoVars
  <2>2. \/ sock' = sock
        \/ \E v \in {"open", "unused"} : sock' = [sock EXCEPT ![d] = v]
        \/ Closes(d)
    BY <1>3 DEF Accept, addConnection_test, CollectConn, cleanTimeout_conn, ReconnectFails,
                NotAuth, Cut, reconnect, NewClient
  <2> QED
    BY <2>1, <2>2 DEF Closes
<1>4. ASSUME NEW i \in Infos, CollectInfo(i) PROVE Goal
  BY <1>4 DEF CollectInfo, connVars
<1>5. CASE PeerStops
  BY <1>5 DEF PeerStops, CutAll, infoVars
<1>6. ASSUME NEW d \in Conns,
             \/ HelloRefused(d) \/ OnNewConnection(d) \/ HelloLookup(d) \/ HelloBind(d)
             \/ HelloDone(d) \/ HandleGoodbye(d) \/ ReconnectBinds(d) \/ HandleKeepAlive(d)
      PROVE  Goal
  <2>1. UNCHANGED <<list, sock>>
    BY <1>6 DEF HelloRefused, OnNewConnection, HelloLookup, HelloBind, HelloDone,
                HandleGoodbye, ReconnectBinds, HandleKeepAlive, infoVars, connVars
  <2> QED
    BY <2>1
<1>7. CASE \/ SyncEnds \/ CloseForgets \/ cleanTimeout_node \/ deleteNode \/ Silence
           \/ checkNeighbour \/ makefriends \/ PeerStarts \/ UNCHANGED vars
  <2>1. UNCHANGED <<list, sock>>
    BY <1>7 DEF SyncEnds, CloseForgets, cleanTimeout_node, deleteNode, Silence,
                checkNeighbour, makefriends, PeerStarts, infoVars, connVars, vars
  <2> QED
    BY <2>1
<1> QED
  BY <1>1, <1>2, <1>3, <1>4, <1>5, <1>6, <1>7 DEF Next, Handler

\* A closed connection stays listed only if it closed between the two writes
\* of its handler: OnCloseConnection takes every other one out.
THEOREM CloseUnlists == Spec => BoundNeverLeaks
<1>1. LinkInv /\ [Next]_vars =>
        \A i \in Infos : \A c \in Leaked(i)' \ Leaked(i) : task[c] \in {"append", "bind"}
  <2> SUFFICES ASSUME LinkInv, [Next]_vars, NEW i \in Infos, NEW c \in Leaked(i)' \ Leaked(i),
                      task[c] \notin {"append", "bind"}
               PROVE  FALSE
    OBVIOUS
  <2>1. c \in list'[i] /\ sock'[c] = "gone" /\ (c \in list[i] => sock[c] # "gone")
    BY DEF Leaked
  <2>2. c \in Conns
    BY <2>1, TypeStep DEF LinkInv, TypeOK
  <2>3. c \in list[i] /\ OnCloseConnection(c)
    BY <2>1, <2>2, ListedAndGone
  <2>4. ctx[c] = i /\ i # None
    BY <2>3, PeerAssumption DEF LinkInv, Listing
  <2>5. c \notin list'[i]
    BY <2>3, <2>4 DEF OnCloseConnection, removeConnection, LinkInv, TypeOK
  <2> QED
    BY <2>1, <2>5
<1> QED
  BY <1>1, LinkInvariant, PTL DEF Spec, BoundNeverLeaks
=============================================================================
