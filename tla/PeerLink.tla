------------------------------ MODULE PeerLink ------------------------------
(***************************************************************************)
(* What one node manager knows about one other node, and the connections   *)
(* between the two (node/manager.go, node/node.go, network/server.go,      *)
(* network/common.go).                                                     *)
(*                                                                         *)
(* The manager keeps an Info per node name in mNodeInfo.  A connection is  *)
(* tied to an Info in two places: aryConnectionList of the Info, and the   *)
(* context of the connection (CONTEXT_KEY_NODE).  They are written by two  *)
(* goroutines in either order: the handler of SayHello for a connection    *)
(* the peer opened, the reconnect task for one the manager opened.  The    *)
(* read loop of the connection runs OnCloseConnection whenever the socket  *)
(* closes, at any point of those handlers.  cleanTimeout sweeps silent     *)
(* connections and silent Infos; checkNeighbour and gossip bring Infos in. *)
(*                                                                         *)
(* The peer, a configured neighbour, is the environment: it dials, says    *)
(* hello, talks, says goodbye, crashes and comes back.  Entries and        *)
(* versions are those of EntrySync; here a full sync only matters by its   *)
(* effect on nStatus.                                                      *)
(***************************************************************************)
EXTENDS Naturals, FiniteSets

CONSTANTS
  InConns,                 \* connections the peer opens
  OutConns,                \* connections the manager opens (reconnect)
  Infos,                   \* Info objects of the peer's name
  None,                    \* no Info
  NeighbourMaxConnection,  \* limit of connections per Info
  MaxStops,                \* bound on crashes and goodbyes of the peer
  MaxFaults                \* bound on other faults, full syncs and rumours

ASSUME PeerAssumption ==
  /\ InConns \cap OutConns = {}
  /\ IsFiniteSet(InConns \cup OutConns)
  /\ None \notin Infos
  /\ NeighbourMaxConnection \in Nat \ {0, 1}
  /\ MaxFaults \in Nat /\ MaxStops \in Nat

VARIABLES
  known,      \* mNodeInfo[name]
  status,     \* nStatus per Info: SYNCING counts as alive, as in alive()
  list,       \* aryConnectionList per Info
  fresh,      \* the Info in the map was heard of within NODE_TIMEOUT
  sock,       \* per connection: unused, open, closed, gone (read loop ended)
  ctx,        \* CONTEXT_KEY_NODE of the connection
  task,       \* where the handler of the connection's hello stands
  target,     \* the Info that handler works on
  unnoted,    \* accepted, goroutine OnNewConnection not run yet
  temp,       \* mTempConnection
  sync,       \* an Info with a GetEntry call in flight
  byes,       \* connections with an undelivered SayGoodbye
  forgets,    \* a close callback is about to delete the name from mNodeInfo
  doomed,     \* the Info cleanTimeout has marked dead and is deleting
  up,         \* the peer runs
  stops,
  faults

vars == <<known, status, list, fresh, sock, ctx, task, target, unnoted, temp,
          sync, byes, forgets, doomed, up, stops, faults>>
infoVars == <<known, status, list, fresh>>
connVars == <<sock, ctx, task, target, unnoted, temp>>
restVars == <<sync, byes, forgets, doomed, up, stops, faults>>

Conns == InConns \cup OutConns
HelloLocked == {"check", "append", "bind"}

(* objLock4NodeInfoMap is held for writing by the handler of a hello.      *)
MapFree == \A c \in InConns : task[c] \notin HelloLocked

alive(i) == status[i] = "alive"
connectionAvailable(i) ==
  Cardinality(list[i]) >= NeighbourMaxConnection \div 2

(* newNode allocates an Info, alive and without connections.               *)
CanAllocate == \E i \in Infos : status[i] = "free"
newNode == CHOOSE i \in Infos : status[i] = "free"

-----------------------------------------------------------------------------
Init ==
  /\ known = None
  /\ status = [i \in Infos |-> "free"]
  /\ list = [i \in Infos |-> {}]
  /\ fresh = FALSE
  /\ sock = [c \in Conns |-> "unused"]
  /\ ctx = [c \in Conns |-> None]
  /\ task = [c \in Conns |-> "idle"]
  /\ target = [c \in Conns |-> None]
  /\ unnoted = {} /\ temp = {} /\ byes = {}
  /\ forgets = FALSE /\ sync = None
  /\ doomed = None
  /\ up = TRUE
  /\ faults = 0 /\ stops = 0

\* Mutant: a new Info starts out SYNCING, which only a sync would end.
LearnSyncing ==
  /\ known = None /\ MapFree /\ CanAllocate
  /\ known' = newNode
  /\ status' = [status EXCEPT ![newNode] = "syncing"]
  /\ fresh' = TRUE

(* A new Info enters the map, heard of now.                                *)
Learn ==
  /\ known = None /\ MapFree /\ CanAllocate
  /\ known' = newNode
  /\ status' = [status EXCEPT ![newNode] = "alive"]
  /\ fresh' = TRUE

Fault == faults < MaxFaults /\ faults' = faults + 1
Goes(c, where) == task' = [task EXCEPT ![c] = where]
Leaves(c, where) ==   \* the handler ends or no longer needs its Info
  /\ Goes(c, where)
  /\ target' = [target EXCEPT ![c] = IF where = "bind" THEN @ ELSE None]
Closes(c) == sock' = [sock EXCEPT ![c] = IF @ = "open" THEN "closed" ELSE @]

-----------------------------------------------------------------------------
(* Accepting: Start hands the socket to two goroutines, OnNewConnection    *)
(* and readLoop, which reads the hello.                                    *)
Accept(c) ==
  /\ up = TRUE
  /\ sock[c] = "unused"
  /\ sock' = [sock EXCEPT ![c] = "open"]
  /\ unnoted' = unnoted \cup {c}
  /\ Goes(c, "hello")
  /\ UNCHANGED <<infoVars, ctx, target, temp, restVars>>

(* The goroutine of OnNewConnection may be late: the handler of the hello  *)
(* or the close callback looks in mTempConnection before it; a fault.      *)
Overtakes(c) == IF c \in unnoted THEN Fault ELSE UNCHANGED faults

OnNewConnection(c) ==
  /\ c \in unnoted
  /\ unnoted' = unnoted \ {c}
  /\ temp' = temp \cup {c}
  /\ UNCHANGED <<infoVars, sock, ctx, task, target, restVars>>

\* Mutant: every answered hello leaves mTempConnection, a refused one too.
HelloRefusedUntemp(c) ==
  /\ c \in InConns /\ task[c] = "hello"
  /\ Fault
  /\ temp' = temp \ {c}
  /\ Goes(c, "done")
  /\ UNCHANGED <<infoVars, sock, ctx, target, unnoted,
                 sync, byes, forgets, doomed, up, stops>>

(* A hello that never comes, or with a bad or an old signature.            *)
HelloRefused(c) ==
  /\ c \in InConns /\ task[c] = "hello"
  /\ Fault
  /\ Goes(c, "done")
  /\ UNCHANGED <<infoVars, sock, ctx, target, unnoted, temp,
                 sync, byes, forgets, doomed, up, stops>>

(* handleSayHello takes the lock of the map and finds the Info or makes    *)
(* one; it enters the map when the handler lets go of the lock.            *)
HelloLookup(c) ==
  /\ c \in InConns /\ task[c] = "hello" /\ MapFree
  /\ \/ known # None
        /\ target' = [target EXCEPT ![c] = known]
        /\ UNCHANGED status
     \/ /\ known = None /\ CanAllocate
        /\ target' = [target EXCEPT ![c] = newNode]
        /\ status' = [status EXCEPT ![newNode] = "alive"]
  /\ Goes(c, "check")
  /\ Overtakes(c)
  /\ UNCHANGED <<known, list, fresh, sock, ctx, unnoted, temp,
                 sync, byes, forgets, doomed, up, stops>>

(* addConnection tests under no lock or the read lock, and appends under   *)
(* the write lock; the same for both handlers.                             *)
AfterAdd(c) == IF c \in InConns THEN "bind" ELSE "done"

addConnection_test(c) ==
  /\ task[c] = "check"
  /\ IF alive(target[c]) /\ Cardinality(list[target[c]]) <= NeighbourMaxConnection
       THEN Goes(c, "append") /\ UNCHANGED <<sock, target>>
       ELSE Leaves(c, AfterAdd(c)) /\ Closes(c)
  /\ UNCHANGED <<infoVars, ctx, unnoted, temp, restVars>>

\* Mutant: the connection goes to the Info the name stands for by now.
AppendByName(c) ==
  /\ task[c] = "append"
  /\ list' = [list EXCEPT ![IF known = None THEN target[c] ELSE known] = @ \cup {c}]
  /\ Leaves(c, AfterAdd(c))
  /\ UNCHANGED <<known, status, fresh, sock, ctx, unnoted, temp, restVars>>

addConnection_append(c) ==
  /\ task[c] = "append"
  /\ list' = [list EXCEPT ![target[c]] = @ \cup {c}]
  /\ Leaves(c, AfterAdd(c))
  /\ UNCHANGED <<known, status, fresh, sock, ctx, unnoted, temp, restVars>>

(* The handler binds the connection, a new Info enters the map, the lock   *)
(* is released.                                                            *)
HelloBind(c) ==
  /\ c \in InConns /\ task[c] = "bind"
  /\ ctx' = [ctx EXCEPT ![c] = target[c]]
  /\ known' = target[c]
  /\ fresh' = (fresh \/ known = None)
  /\ Leaves(c, "untemp")
  /\ UNCHANGED <<status, list, sock, unnoted, temp, restVars>>

(* A message was handled on the connection: OnRead notes the time in its   *)
(* Info, dead or alive; cleanTimeout looks at the one in the map.          *)
refreshKeepLiveTime(c) == fresh' = (fresh \/ ctx[c] = known)

(* Out of mTempConnection, then the answer, then OnRead's note.            *)
HelloDone(c) ==
  /\ c \in InConns /\ task[c] = "untemp"
  /\ temp' = temp \ {c}
  /\ refreshKeepLiveTime(c)
  /\ Goes(c, "done")
  /\ UNCHANGED <<known, status, list, sock, ctx, target, unnoted, restVars>>

-----------------------------------------------------------------------------
(* A dial: an open socket with a readLoop of its own.                      *)
NewClient(c) ==
  /\ sock[c] = "unused"
  /\ sock' = [sock EXCEPT ![c] = "open"]

(* reconnect: each cast to the Info in the map (keepalive, every two       *)
(* seconds) and each new Info queue one.  It returns on a dead Info and    *)
(* when there are enough connections; a peer that does not listen leaves   *)
(* nothing behind.                                                         *)
reconnect(i, c) ==
  /\ i = known /\ alive(i) /\ ~connectionAvailable(i) /\ up
  /\ c \in OutConns /\ NewClient(c)
  /\ target' = [target EXCEPT ![c] = i]
  /\ Goes(c, "call")
  /\ UNCHANGED <<infoVars, ctx, unnoted, temp, restVars>>

(* The hello was answered SUCCESS with the right name and signature: the   *)
(* connection is bound first and added afterwards.                         *)
ReconnectBinds(c) ==
  /\ c \in OutConns /\ task[c] = "call" /\ sock[c] # "unused"
  /\ ctx' = [ctx EXCEPT ![c] = target[c]]
  /\ Goes(c, "check")
  /\ UNCHANGED <<infoVars, sock, target, unnoted, temp, restVars>>

(* A refusal closes the connection; a call that fails (no answer in 2 s,   *)
(* or closed meanwhile) returns and leaves the socket as it is.            *)
ReconnectFails(c) ==
  /\ c \in OutConns /\ task[c] = "call"
  /\ \/ sock[c] = "open" /\ Fault
        /\ (Closes(c) \/ UNCHANGED sock)
     \/ sock[c] # "open" /\ UNCHANGED <<faults, sock>>
  /\ Leaves(c, "done")
  /\ UNCHANGED <<infoVars, ctx, unnoted, temp,
                 sync, byes, forgets, doomed, up, stops>>

-----------------------------------------------------------------------------
\* Mutant: the close callback looks the Info up by its name.
RemoveByName(c, i) ==
  list' = IF known = None THEN list ELSE [list EXCEPT ![known] = @ \ {c}]

(* removeConnection, and what OnCloseConnection decides from its result.   *)
removeConnection(c, i) == list' = [list EXCEPT ![i] = @ \ {c}]

OnCloseConnection(c) ==
  /\ sock[c] = "closed"
  /\ sock' = [sock EXCEPT ![c] = "gone"]
  /\ \/ /\ ctx[c] # None
        /\ removeConnection(c, ctx[c])
        /\ forgets' = (forgets \/ (list'[ctx[c]] = {} /\ ~alive(ctx[c])))
        /\ UNCHANGED temp
     \/ /\ ctx[c] = None
        /\ temp' = temp \ {c}
        /\ UNCHANGED <<list, forgets>>
  /\ Overtakes(c)
  /\ UNCHANGED <<known, status, fresh, ctx, task, target, unnoted,
                 sync, byes, doomed, up, stops>>

(* ... which deletes the name, whichever Info it stands for by then.       *)
CloseForgets ==
  /\ forgets /\ MapFree
  /\ forgets' = FALSE
  /\ known' = None /\ fresh' = FALSE
  /\ UNCHANGED <<status, list, connVars,
                 sync, byes, doomed, up, stops, faults>>

-----------------------------------------------------------------------------
(* A keepalive or another message; a live Info may find that its version   *)
(* differs and ask for all entries.                                        *)
HandleKeepAlive(c) ==
  /\ up /\ sock[c] = "open" /\ ctx[c] # None
  /\ refreshKeepLiveTime(c)
  /\ \/ UNCHANGED <<sync, faults>>
     \/ alive(ctx[c]) /\ sync = None /\ sync' = ctx[c] /\ Fault
  /\ UNCHANGED <<known, status, list, connVars,
                 byes, forgets, doomed, up, stops>>

(* A message on a connection that is bound to no Info: node_not_auth.      *)
NotAuth(c) ==
  /\ up /\ sock[c] = "open" /\ ctx[c] = None /\ task[c] = "done"
  /\ Closes(c)
  /\ UNCHANGED <<infoVars, ctx, task, target, unnoted, temp, restVars>>

(* The GetEntry call ends: syncEntry stores ALIVE, whatever was there.     *)
SyncEnds ==
  /\ sync # None
  /\ sync' = None
  /\ \/ status' = [status EXCEPT ![sync] = "alive"]
     \/ UNCHANGED status
  /\ UNCHANGED <<known, list, fresh, connVars,
                 byes, forgets, doomed, up, stops, faults>>

(* handleSayGoodbyeNotify marks dead and takes the routes away; the Info   *)
(* stays in the map.  The task may run after the connection has closed.    *)
HandleGoodbye(c) ==
  /\ c \in byes
  /\ byes' = byes \ {c}
  /\ status' = [status EXCEPT ![ctx[c]] = "dead"]
  /\ refreshKeepLiveTime(c)
  /\ UNCHANGED <<known, list, connVars, sync, forgets, doomed, up, stops, faults>>

-----------------------------------------------------------------------------
(* The timers of NewManager.                                               *)
checkNeighbour ==
  /\ Learn
  /\ UNCHANGED <<list, connVars, sync, byes, forgets, doomed, up, stops, faults>>

(* Gossip of a third node names the peer, running or not.                  *)
makefriends ==
  /\ Learn /\ Fault
  /\ UNCHANGED <<list, connVars, sync, byes, forgets, doomed, up, stops>>

(* cleanTimeout closes the connections that stayed in mTempConnection; it  *)
(* does not take them out: their close callback does.                      *)
cleanTimeout_conn(c) ==
  /\ c \in temp /\ task[c] = "done" /\ sock[c] = "open"
  /\ Closes(c)
  /\ UNCHANGED <<infoVars, ctx, task, target, unnoted, temp, restVars>>

\* Mutant: the sweep skips the Infos that are dead already.
CleanAliveOnly ==
  /\ doomed = None /\ known # None /\ ~fresh /\ MapFree /\ alive(known)
  /\ doomed' = known
  /\ status' = [status EXCEPT ![known] = "dead"]
  /\ UNCHANGED <<known, list, fresh, connVars, sync, byes, forgets, up,
                 stops, faults>>

(* It lists the silent Infos under the read lock and marks each dead ...   *)
cleanTimeout_node ==
  /\ doomed = None /\ known # None /\ ~fresh /\ MapFree
  /\ doomed' = known
  /\ status' = [status EXCEPT ![known] = "dead"]
  /\ UNCHANGED <<known, list, fresh, connVars, sync, byes, forgets, up, stops, faults>>

(* ... then deletes the name, whichever Info it stands for by then.        *)
deleteNode ==
  /\ doomed # None /\ MapFree
  /\ doomed' = None
  /\ known' = None /\ fresh' = FALSE
  /\ UNCHANGED <<status, list, connVars, sync, byes, forgets, up, stops, faults>>

-----------------------------------------------------------------------------
(* Time and the peer.  Fifteen seconds without a message for the Info in   *)
(* the map: a fault while the peer runs and is connected or being dialled. *)
Reachable(i) == \E c \in Conns : sock[c] = "open" /\ ctx[c] = i

Silence ==
  /\ known # None /\ fresh
  /\ fresh' = FALSE
  /\ IF up /\ (Reachable(known) \/ (alive(known) /\ ~connectionAvailable(known)))
       THEN Fault
       ELSE UNCHANGED faults
  /\ UNCHANGED <<known, status, list, connVars,
                 sync, byes, forgets, doomed, up, stops>>

CutAll == sock' = [c \in Conns |-> IF sock[c] = "open" THEN "closed" ELSE sock[c]]

(* The peer stops: one goodbye, over a connection it registered, or none   *)
(* (a crash); then its sockets close.                                      *)
PeerStops ==
  /\ up /\ stops < MaxStops /\ stops' = stops + 1
  /\ up' = FALSE
  /\ \/ UNCHANGED byes
     \/ \E c \in Conns : /\ sock[c] = "open" /\ ctx[c] # None
                         /\ byes' = byes \cup {c}
  /\ CutAll
  /\ UNCHANGED <<infoVars, ctx, task, target, unnoted, temp,
                 sync, forgets, doomed, faults>>

PeerStarts ==
  /\ ~up
  /\ up' = TRUE
  /\ UNCHANGED <<infoVars, connVars, sync, byes, forgets, doomed, stops, faults>>

Cut(c) ==
  /\ sock[c] = "open" /\ Fault
  /\ Closes(c)
  /\ UNCHANGED <<infoVars, ctx, task, target, unnoted, temp,
                 sync, byes, forgets, doomed, up, stops>>

(* Objects nothing refers to any more are used again.  (A connection noted *)
(* after it closed stays in mTempConnection for ever: closing it again has *)
(* no effect, so the model uses it again too.)                             *)
CollectConn(c) ==
  /\ sock[c] = "gone" /\ task[c] = "done"
  /\ c \notin unnoted \cup byes \cup UNION {list[i] : i \in Infos}
  /\ temp' = temp \ {c}
  /\ sock' = [sock EXCEPT ![c] = "unused"]
  /\ ctx' = [ctx EXCEPT ![c] = None]
  /\ Goes(c, "idle")
  /\ UNCHANGED <<infoVars, target, unnoted, restVars>>

CollectInfo(i) ==
  /\ status[i] # "free"
  /\ i \notin {known, sync, doomed}
  /\ \A c \in Conns : i \in {ctx[c], target[c]} =>
                        sock[c] = "gone" /\ task[c] = "done" /\ c \notin byes
  /\ status' = [status EXCEPT ![i] = "free"]
  /\ list' = [list EXCEPT ![i] = {}]
  /\ UNCHANGED <<known, fresh, connVars, restVars>>

-----------------------------------------------------------------------------
Handler(c) ==
  \/ OnNewConnection(c) \/ HelloLookup(c) \/ HelloBind(c) \/ HelloDone(c)
  \/ addConnection_test(c) \/ addConnection_append(c)
  \/ OnCloseConnection(c) \/ CollectConn(c)
  \/ cleanTimeout_conn(c) \/ HandleGoodbye(c)

Next ==
  \/ \E c \in InConns : Accept(c) \/ HelloRefused(c)
  \/ \E c \in Conns : Handler(c) \/ ReconnectBinds(c) \/ ReconnectFails(c)
                     \/ HandleKeepAlive(c) \/ NotAuth(c) \/ Cut(c)
  \/ \E i \in Infos :
       CollectInfo(i) \/ \E c \in OutConns : reconnect(i, c)
  \/ SyncEnds \/ Silence \/ CloseForgets \/ checkNeighbour \/ makefriends
  \/ cleanTimeout_node \/ deleteNode
  \/ PeerStops \/ PeerStarts

Spec == Init /\ [][Next]_vars

(* Handlers, callbacks, tasks and timers of the manager run; the two that  *)
(* delete from the map get its lock in turn (sync.RWMutex), hence strong   *)
(* fairness; a call to the peer ends; the peer talks on or closes what is  *)
(* left unbound.                                                           *)
(* When a handler closes the connection it is about to bind, the callback  *)
(* in the read loop does not win that race every time.                     *)
(* Nothing obliges the peer to dial, to come back, or a fault to happen.   *)
Fairness ==
  /\ \A c \in Conns : /\ WF_vars(Handler(c))
                       /\ SF_vars(sock[c] # "gone" /\ HelloBind(c))
                       /\ WF_vars(ReconnectBinds(c) \/ ReconnectFails(c))
                       /\ WF_vars(NotAuth(c))
  /\ WF_vars(\E i \in Infos, c \in OutConns : reconnect(i, c))
  /\ WF_vars(\E i \in Infos : CollectInfo(i))
  /\ WF_vars(SyncEnds)
  /\ SF_vars(CloseForgets) /\ WF_vars(checkNeighbour) /\ SF_vars(deleteNode)
  /\ WF_vars(cleanTimeout_node)
  /\ WF_vars(Silence /\ UNCHANGED faults)

FairSpec == Spec /\ Fairness

-----------------------------------------------------------------------------
(* Types of all variables (struct Info, NodeManager, ServerConnection).    *)
TypeOK ==
  /\ known \in Infos \cup {None}
  /\ status \in [Infos -> {"free", "alive", "dead"}]
  /\ list \in [Infos -> SUBSET Conns]
  /\ sock \in [Conns -> {"unused", "open", "closed", "gone"}]
  /\ ctx \in [Conns -> Infos \cup {None}]
  /\ task \in [Conns -> {"idle", "hello", "call", "check", "append", "bind",
                         "untemp", "done"}]
  /\ target \in [Conns -> Infos \cup {None}]
  /\ unnoted \subseteq InConns /\ temp \subseteq InConns /\ byes \subseteq Conns
  /\ sync \in Infos \cup {None} /\ doomed \in Infos \cup {None}
  /\ {fresh, forgets, up} \subseteq BOOLEAN
  /\ faults \in 0 .. MaxFaults /\ stops \in 0 .. MaxStops

(* A connection is listed by one Info at most, the one its context names   *)
(* once the handler that listed it has bound it (handleSayHello lists      *)
(* before it binds, reconnect after): otherwise the close callback would   *)
(* look for it in the wrong Info and never take it out.                    *)
ListsMatchContext ==
  \A i \in Infos : \A c \in list[i] :
    /\ ctx[c] = i \/ (ctx[c] = None /\ (task[c] = "bind" => target[c] = i))
    /\ \A j \in Infos : c \in list[j] => j = i

(* Closed connections that their Info still lists.                         *)
Leaked(i) == {c \in list[i] : sock[c] = "gone"}

(* OnCloseConnection takes every connection out of its Info's list but one *)
(* that closed while its handler had it listed and not bound, or bound and *)
(* not listed.                                                             *)
BoundNeverLeaks ==
  [][\A i \in Infos : \A c \in Leaked(i)' \ Leaked(i) :
       task[c] \in {"append", "bind"}]_vars

(* The sweep misses no connection: an accepted one that is open and not    *)
(* bound is in mTempConnection, about to be, or in the hands of a handler, *)
(* though OnNewConnection, handleSayHello and OnCloseConnection write the  *)
(* map from three goroutines.                                              *)
SweepMissesNone ==
  \A c \in InConns : sock[c] = "open" /\ ctx[c] = None =>
    c \in temp \cup unnoted \/ task[c] \in HelloLocked

Joined == known # None /\ alive(known)
          /\ \E c \in list[known] : sock[c] = "open" /\ ctx[c] = known
(* What keeps a dead Info in the map: a connection listed for ever, or one *)
(* that still carries messages and so keeps it from timing out.            *)
Stuck == known # None /\ (Leaked(known) # {} \/ (~alive(known) /\ Reachable(known)))

(* A configured neighbour that runs for good is joined for good, whatever  *)
(* goodbyes, crashes and cuts came before (checkNeighbour, reconnect,      *)
(* cleanTimeout, OnCloseConnection together), unless it is Stuck.  (When   *)
(* deleteNode has left all connections of the model open and bound to the  *)
(* dead Info, none is left to dial with.)                                  *)
Spare == \E c \in OutConns : sock[c] = "unused"
Reunion == <>[]up => <>[](Joined \/ Stuck \/ ~Spare)
=============================================================================
