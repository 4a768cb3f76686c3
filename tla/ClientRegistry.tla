--------------------------- MODULE ClientRegistry ---------------------------
(***************************************************************************)
(* The agent's register of application clients (cli_agent/agent.go,        *)
(* cli_agent/agent_manager.go).  A client instance opens several           *)
(* connections and registers each; the agent keeps one ClientInfo per      *)
(* instance id, routes URIs to ClientInfos and announces the routed URIs   *)
(* through its node.  Registration, the loss of a connection, unregister   *)
(* and the timeout loop run in goroutines of their own: a step is one      *)
(* critical section or one atomic access.                                  *)
(*                                                                         *)
(* An instance registers the same entries on every connection              *)
(* (client/client.go:513), once per connection; so mEntryInfo of a         *)
(* ClientInfo is EntriesOf its instance.                                   *)
(***************************************************************************)
EXTENDS Naturals, FiniteSets

CONSTANTS
    Conns,          \* connections that clients open
    Instances,      \* instance ids
    InstOf,         \* the instance that opens a connection
    Clients,        \* ClientInfo objects; bound: how many NewClient makes
    Uris,           \* entries
    EntriesOf,      \* the entries an instance registers
    MaxConnection,  \* AgentClientMaxConnection
    Leavers,        \* bound: connections the client closes or unregisters on
    MayExpire,      \* bound: whether connections and clients grow too old
    MayStop,        \* bound: whether the manager stops
    NoConn,         \* null connection
    NoClient,       \* null ClientInfo
    NoInstance      \* null instance id

ASSUME RegistryAssumption ==
    /\ IsFiniteSet(Conns)
    /\ InstOf \in [Conns -> Instances]
    /\ EntriesOf \in [Instances -> SUBSET Uris]
    /\ MaxConnection \in Nat \ {0}
    /\ Leavers \subseteq Conns
    /\ MayExpire \in BOOLEAN
    /\ MayStop \in BOOLEAN
    /\ NoConn \notin Conns
    /\ NoClient \notin Clients
    /\ NoInstance \notin Instances

VARIABLES
    started,      \* nStatus = MANAGER_STATUS_STARTED
    accepted,     \* connections whose OnNewConnection has yet to run
    mTemp,        \* mTempConnection
    socket,       \* objConnection of a connection
    ctxAgent,     \* the ClientInfo in the connection's Ctx
    reader,       \* where the connection's readLoop is
    regPc,        \* where handleAgentRegister of a connection is
    regWho,       \* its ptrClient
    mapLock,      \* the registration that holds objLock4ClientInfoMap
    mClientInfo,  \* instance id -> ClientInfo
    instID,       \* szInstanceID of a ClientInfo; none before NewClient
    status,       \* nStatus of a ClientInfo
    connList,     \* aryConnectionList of a ClientInfo
    mUri2Client,  \* entry -> the ClientInfos that serve it
    announced,    \* the node's entries (NodeHandler.AddEntry, RemoveEntry)
    delPc,        \* where a deleteClient is
    delWho,       \* its ptrClient
    loop,         \* where the timeout loop is
    expired,      \* aryTimeoutConnection of cleanTimeout
    todo          \* aryTimeoutClient of cleanTimeout

connVars == <<accepted, mTemp, socket, ctxAgent, reader>>
regVars  == <<regPc, regWho, mapLock>>
infoVars == <<mClientInfo, instID, status, connList>>
uriVars  == <<mUri2Client, announced>>
delVars  == <<delPc, delWho, loop, expired, todo>>
vars     == <<started, connVars, regVars, infoVars, uriVars, delVars>>

\* deleteClient runs in the readLoop of a connection, in the handler of its
\* unregister message, and in the timeout loop.
Timer    == <<"timer", NoConn>>
Deleters == ({"close", "unregister"} \X Conns) \cup {Timer}

RegStates == {"none", "queued", "alive", "size", "append", "sync", "ctx", "temp", "entry", "done"}
DelStates == {"idle", "mark", "close", "entry", "map"}

Init ==
    /\ started = TRUE
    /\ accepted = Conns
    /\ mTemp = {}
    /\ socket = [k \in Conns |-> "open"]
    /\ ctxAgent = [k \in Conns |-> NoClient]
    /\ reader = [k \in Conns |-> "reading"]
    /\ regPc = [k \in Conns |-> "none"]
    /\ regWho = [k \in Conns |-> NoClient]
    /\ mapLock = NoConn
    /\ mClientInfo = [i \in Instances |-> NoClient]
    /\ instID = [c \in Clients |-> NoInstance]
    /\ status = [c \in Clients |-> "ALIVE"]
    /\ connList = [c \in Clients |-> {}]
    /\ mUri2Client = [u \in Uris |-> {}]
    /\ announced = {}
    /\ delPc = [d \in Deleters |-> "idle"]
    /\ delWho = [d \in Deleters |-> NoClient]
    /\ loop = "check"
    /\ expired = {}
    /\ todo = {}

-----------------------------------------------------------------------------
(* Connections *)

\* Server.Start runs OnNewConnection and readLoop in two goroutines, so the
\* connection may be noted as temporary late.  A stopped manager also
\* has a task close it.
OnNewConnection(k) ==
    /\ k \in accepted
    /\ accepted' = accepted \ {k}
    /\ mTemp' = mTemp \cup {k}
    /\ socket' = IF started THEN socket ELSE [socket EXCEPT ![k] = "closed"]
    /\ UNCHANGED <<started, ctxAgent, reader, regVars, infoVars, uriVars, delVars>>

\* The client closes the connection, or it breaks.
Disconnect(k) ==
    /\ k \in Leavers
    /\ socket[k] = "open"
    /\ socket' = [socket EXCEPT ![k] = "closed"]
    /\ UNCHANGED <<started, accepted, mTemp, ctxAgent, reader, regVars, infoVars, uriVars, delVars>>

\* OnCloseConnection at the end of readLoop: a connection whose Ctx names no
\* client is temporary, the others go on with their client.
OnCloseConnection(k) ==
    /\ reader[k] = "reading" /\ socket[k] = "closed"
    /\ IF ctxAgent[k] = NoClient
       THEN /\ mTemp' = mTemp \ {k}
            /\ reader' = [reader EXCEPT ![k] = "ended"]
       ELSE /\ reader' = [reader EXCEPT ![k] = "leaving"]
            /\ UNCHANGED mTemp
    /\ UNCHANGED <<started, accepted, socket, ctxAgent, regVars, infoVars, uriVars, delVars>>

\* ClientInfo.onCloseConnection, under objLock4Connection; the last connection
\* takes the client with it.
LeaveClient(k) ==
    /\ reader[k] = "leaving"
    /\ reader' = [reader EXCEPT ![k] = "ended"]
    /\ LET c == ctxAgent[k]
           d == <<"close", k>> IN
       /\ connList' = [connList EXCEPT ![c] = @ \ {k}]
       /\ IF connList[c] \ {k} = {}
          THEN /\ delPc' = [delPc EXCEPT ![d] = "mark"]
               /\ delWho' = [delWho EXCEPT ![d] = c]
          ELSE UNCHANGED <<delPc, delWho>>
    /\ UNCHANGED <<started, accepted, mTemp, socket, ctxAgent, regVars, mClientInfo, instID, status, uriVars, loop, expired, todo>>

-----------------------------------------------------------------------------
(* handleAgentRegister *)

\* readLoop has read a register message and starts a task for it.
ReadRegister(k) ==
    /\ reader[k] = "reading" /\ regPc[k] = "none"
    /\ regPc' = [regPc EXCEPT ![k] = "queued"]
    /\ UNCHANGED <<started, connVars, regWho, mapLock, infoVars, uriVars, delVars>>

\* Mutant: a refused registration goes on to its entries.
RegRefuseNot(k) ==
    /\ regPc[k] = "queued"
    /\ regPc' = [regPc EXCEPT ![k] = "entry"]
    /\ UNCHANGED <<started, connVars, regWho, mapLock, infoVars, uriVars, delVars>>

\* A stopped manager does not answer; a wrong or old signature is answered
\* and the connection left as it is.
RegRefuse(k) ==
    /\ regPc[k] = "queued"
    /\ regPc' = [regPc EXCEPT ![k] = "done"]
    /\ UNCHANGED <<started, connVars, regWho, mapLock, infoVars, uriVars, delVars>>

\* Mutant: the lookup does not wait for objLock4ClientInfoMap.
RegFindUnlocked(k) ==
    /\ regPc[k] = "queued" /\ started
    /\ mapLock' = k
    /\ LET i == InstOf[k] IN
       \/ /\ mClientInfo[i] # NoClient
          /\ regWho' = [regWho EXCEPT ![k] = mClientInfo[i]]
          /\ UNCHANGED instID
       \/ /\ mClientInfo[i] = NoClient
          /\ \E c \in Clients :
                /\ instID[c] = NoInstance
                /\ instID' = [instID EXCEPT ![c] = i]
                /\ regWho' = [regWho EXCEPT ![k] = c]
    /\ regPc' = [regPc EXCEPT ![k] = "alive"]
    /\ UNCHANGED <<started, connVars, mClientInfo, status, connList, uriVars, delVars>>

\* Take objLock4ClientInfoMap; find the instance's ClientInfo or make one.
RegFind(k) ==
    /\ regPc[k] = "queued" /\ started
    /\ mapLock = NoConn
    /\ mapLock' = k
    /\ LET i == InstOf[k] IN
       \/ /\ mClientInfo[i] # NoClient
          /\ regWho' = [regWho EXCEPT ![k] = mClientInfo[i]]
          /\ UNCHANGED instID
       \/ /\ mClientInfo[i] = NoClient
          /\ \E c \in Clients :
                /\ instID[c] = NoInstance
                /\ instID' = [instID EXCEPT ![c] = i]
                /\ regWho' = [regWho EXCEPT ![k] = c]
    /\ regPc' = [regPc EXCEPT ![k] = "alive"]
    /\ UNCHANGED <<started, connVars, mClientInfo, status, connList, uriVars, delVars>>

\* addConnection: a dead ClientInfo has the connection closed ...
RegAlive(k) ==
    /\ regPc[k] = "alive"
    /\ IF status[regWho[k]] = "DEAD"
       THEN /\ socket' = [socket EXCEPT ![k] = "closed"]
            /\ regPc' = [regPc EXCEPT ![k] = "sync"]
       ELSE /\ regPc' = [regPc EXCEPT ![k] = "size"]
            /\ UNCHANGED socket
    /\ UNCHANGED <<started, accepted, mTemp, ctxAgent, reader, regWho, mapLock, infoVars, uriVars, delVars>>

\* ... and so has one with more than MaxConnection connections;
\* objLock4Connection is released between this check and the append.
RegSize(k) ==
    /\ regPc[k] = "size"
    /\ IF Cardinality(connList[regWho[k]]) > MaxConnection
       THEN /\ socket' = [socket EXCEPT ![k] = "closed"]
            /\ regPc' = [regPc EXCEPT ![k] = "sync"]
       ELSE /\ regPc' = [regPc EXCEPT ![k] = "append"]
            /\ UNCHANGED socket
    /\ UNCHANGED <<started, accepted, mTemp, ctxAgent, reader, regWho, mapLock, infoVars, uriVars, delVars>>

RegAppend(k) ==
    /\ regPc[k] = "append"
    /\ connList' = [connList EXCEPT ![regWho[k]] = @ \cup {k}]
    /\ regPc' = [regPc EXCEPT ![k] = "sync"]
    /\ UNCHANGED <<started, connVars, regWho, mapLock, mClientInfo, instID, status, uriVars, delVars>>

\* syncEntry: the entries are those of the message, and the ClientInfo is
\* ALIVE, whatever it was.
RegSync(k) ==
    /\ regPc[k] = "sync"
    /\ status' = [status EXCEPT ![regWho[k]] = "ALIVE"]
    /\ regPc' = [regPc EXCEPT ![k] = "ctx"]
    /\ UNCHANGED <<started, connVars, regWho, mapLock, mClientInfo, instID, connList, uriVars, delVars>>

\* The Ctx names the ClientInfo, a new one enters the map (a found one is
\* still there: the lock was held all along); release the lock.
RegCtx(k) ==
    /\ regPc[k] = "ctx"
    /\ ctxAgent' = [ctxAgent EXCEPT ![k] = regWho[k]]
    /\ mClientInfo' = [mClientInfo EXCEPT ![InstOf[k]] = regWho[k]]
    /\ mapLock' = NoConn
    /\ regPc' = [regPc EXCEPT ![k] = "temp"]
    /\ UNCHANGED <<started, accepted, mTemp, socket, reader, regWho, instID, status, connList, uriVars, delVars>>

RegTemp(k) ==
    /\ regPc[k] = "temp"
    /\ mTemp' = mTemp \ {k}
    /\ regPc' = [regPc EXCEPT ![k] = "entry"]
    /\ UNCHANGED <<started, accepted, socket, ctxAgent, reader, regWho, mapLock, infoVars, uriVars, delVars>>

\* Mutant: a client is listed only for an entry that nobody serves yet.
AddEntryFirst(k) ==
    /\ regPc[k] = "entry"
    /\ LET es == EntriesOf[InstOf[k]] IN
       /\ mUri2Client' = [u \in Uris |-> IF u \in es /\ mUri2Client[u] = {} THEN mUri2Client[u] \cup {regWho[k]}
                                                     ELSE mUri2Client[u]]
       /\ announced' = announced \cup {u \in es : mUri2Client[u] = {}}
    /\ regPc' = [regPc EXCEPT ![k] = "done"]
    /\ UNCHANGED <<started, connVars, regWho, mapLock, infoVars, delVars>>

\* AddEntry, under objLock4UriMap: list the client once per entry; an entry
\* that nobody served is announced.  Then the reply.
AddEntry(k) ==
    /\ regPc[k] = "entry"
    /\ LET es == EntriesOf[InstOf[k]] IN
       /\ mUri2Client' = [u \in Uris |-> IF u \in es THEN mUri2Client[u] \cup {regWho[k]}
                                                     ELSE mUri2Client[u]]
       /\ announced' = announced \cup {u \in es : mUri2Client[u] = {}}
    /\ regPc' = [regPc EXCEPT ![k] = "done"]
    /\ UNCHANGED <<started, connVars, regWho, mapLock, infoVars, delVars>>

-----------------------------------------------------------------------------
(* deleteClient and who calls it *)

\* handleAgentUnRegister; the client library sends it on a registered
\* connection.
UnRegister(k) ==
    /\ k \in Leavers
    /\ reader[k] = "reading" /\ socket[k] = "open"
    /\ regPc[k] = "done" /\ ctxAgent[k] # NoClient
    /\ LET d == <<"unregister", k>> IN
       /\ delPc[d] = "idle"
       /\ delPc' = [delPc EXCEPT ![d] = "mark"]
       /\ delWho' = [delWho EXCEPT ![d] = ctxAgent[k]]
    /\ UNCHANGED <<started, connVars, regVars, infoVars, uriVars, loop, expired, todo>>

\* The timeout loop starts a round of cleanTimeout unless the manager stopped.
LoopCheck ==
    /\ loop = "check" /\ started /\ MayExpire
    /\ todo = {} /\ delPc[Timer] = "idle"
    /\ loop' = "round"
    /\ UNCHANGED <<started, connVars, regVars, infoVars, uriVars, delPc, delWho, expired, todo>>

\* cleanTimeout: the temporary connections that are too old are taken out of
\* the map under its lock ...
TempTimeout(ks) ==
    /\ loop = "round" /\ ks \subseteq mTemp
    /\ mTemp' = mTemp \ ks
    /\ expired' = ks
    /\ loop' = "temp"
    /\ UNCHANGED <<started, accepted, socket, ctxAgent, reader, regVars, infoVars, uriVars, delPc, delWho, todo>>

\* ... and closed after it, though they may have registered meanwhile ...
TempClose(k) ==
    /\ k \in expired
    /\ expired' = expired \ {k}
    /\ socket' = [socket EXCEPT ![k] = "closed"]
    /\ UNCHANGED <<started, accepted, mTemp, ctxAgent, reader, regVars, infoVars, uriVars, delPc, delWho, loop, todo>>

\* Mutant: the loop looks only at clients with an open connection.
CleanTimeoutOpen(cs) ==
    /\ loop = "temp" /\ expired = {} /\ mapLock = NoConn
    /\ \A c \in cs : (\E k \in connList[c] : socket[k] = "open") /\ \E i \in Instances : mClientInfo[i] = c
    /\ todo' = cs
    /\ loop' = "check"
    /\ UNCHANGED <<started, connVars, regVars, infoVars, uriVars, delPc, delWho, expired>>

\* ... the ClientInfos of the map that were silent for too long are listed
\* under the lock ...
CleanTimeout(cs) ==
    /\ loop = "temp" /\ expired = {} /\ mapLock = NoConn
    /\ \A c \in cs : \E i \in Instances : mClientInfo[i] = c
    /\ todo' = cs
    /\ loop' = "check"
    /\ UNCHANGED <<started, connVars, regVars, infoVars, uriVars, delPc, delWho, expired>>

\* ... and deleted one after the other.
TimeoutNext(c) ==
    /\ c \in todo /\ delPc[Timer] = "idle"
    /\ todo' = todo \ {c}
    /\ delPc' = [delPc EXCEPT ![Timer] = "mark"]
    /\ delWho' = [delWho EXCEPT ![Timer] = c]
    /\ UNCHANGED <<started, connVars, regVars, infoVars, uriVars, loop, expired>>

\* markDead: first the status ...
DelMark(d) ==
    /\ delPc[d] = "mark"
    /\ status' = [status EXCEPT ![delWho[d]] = "DEAD"]
    /\ delPc' = [delPc EXCEPT ![d] = "close"]
    /\ UNCHANGED <<started, connVars, regVars, mClientInfo, instID, connList, uriVars, delWho, loop, expired, todo>>

\* ... then the listed connections are closed.
DelClose(d) ==
    /\ delPc[d] = "close"
    /\ socket' = [k \in Conns |-> IF k \in connList[delWho[d]] THEN "closed" ELSE socket[k]]
    /\ delPc' = [delPc EXCEPT ![d] = "entry"]
    /\ UNCHANGED <<started, accepted, mTemp, ctxAgent, reader, regVars, infoVars, uriVars, delWho, loop, expired, todo>>

\* Mutant: the entries of a deleted client are withdrawn though others serve them.
RemoveEntryAll(d) ==
    /\ delPc[d] = "entry"
    /\ LET c  == delWho[d]
           es == EntriesOf[instID[c]] IN
       /\ mUri2Client' = [u \in Uris |-> IF u \in es THEN mUri2Client[u] \ {c} ELSE mUri2Client[u]]
       /\ announced' = announced \ es
    /\ delPc' = [delPc EXCEPT ![d] = "map"]
    /\ UNCHANGED <<started, connVars, regVars, infoVars, delWho, loop, expired, todo>>

\* RemoveEntry, under objLock4UriMap: an entry nobody serves any more (or
\* nobody served) is withdrawn.
RemoveEntry(d) ==
    /\ delPc[d] = "entry"
    /\ LET c  == delWho[d]
           es == EntriesOf[instID[c]] IN
       /\ mUri2Client' = [u \in Uris |-> IF u \in es THEN mUri2Client[u] \ {c} ELSE mUri2Client[u]]
       /\ announced' = announced \ {u \in es : mUri2Client[u] \ {c} = {}}
    /\ delPc' = [delPc EXCEPT ![d] = "map"]
    /\ UNCHANGED <<started, connVars, regVars, infoVars, delWho, loop, expired, todo>>

\* Mutant: deleteClient leaves the ClientInfo in the map.
DelMapNot(d) ==
    /\ delPc[d] = "map"
    /\ mapLock = NoConn
    /\ delPc' = [delPc EXCEPT ![d] = "idle"]
    /\ UNCHANGED <<started, connVars, regVars, infoVars, uriVars, delWho, loop, expired, todo>>

\* delete(mClientInfo, szInstanceID), whichever ClientInfo is there by now.
DelMap(d) ==
    /\ delPc[d] = "map"
    /\ mapLock = NoConn
    /\ mClientInfo' = [mClientInfo EXCEPT ![instID[delWho[d]]] = NoClient]
    /\ delPc' = [delPc EXCEPT ![d] = "idle"]
    /\ UNCHANGED <<started, connVars, regVars, instID, status, connList, uriVars, delWho, loop, expired, todo>>

\* Stop: refuse what comes, tell the clients (a goodbye each, which changes
\* nothing here); the timeout loop ends.
Stop ==
    /\ MayStop /\ started
    /\ started' = FALSE
    /\ UNCHANGED <<connVars, regVars, infoVars, uriVars, delVars>>

-----------------------------------------------------------------------------
ConnStep(k) == OnNewConnection(k) \/ OnCloseConnection(k) \/ LeaveClient(k)

RegStep(k) ==
    \/ RegRefuse(k) \/ RegFind(k) \/ RegAlive(k) \/ RegSize(k) \/ RegAppend(k)
    \/ RegSync(k) \/ RegCtx(k) \/ RegTemp(k) \/ AddEntry(k)

DelStep(d) == DelMark(d) \/ DelClose(d) \/ RemoveEntry(d) \/ DelMap(d)

Next ==
    \/ \E k \in Conns :
          \/ Disconnect(k) \/ ReadRegister(k) \/ UnRegister(k) \/ TempClose(k)
          \/ ConnStep(k) \/ RegStep(k)
    \/ \E d \in Deleters : DelStep(d)
    \/ \E ks \in SUBSET Conns : TempTimeout(ks)
    \/ \E cs \in SUBSET Clients : CleanTimeout(cs)
    \/ \E c \in Clients : TimeoutNext(c)
    \/ LoopCheck \/ Stop

Spec == Init /\ [][Next]_vars

\* Goroutines that can run do, and the timeout loop goes round; a ClientInfo
\* none of whose connections is open hears nothing any more, so some round
\* lists it.
Silent(c) == \A k \in connList[c] : socket[k] = "closed"

Fairness ==
    /\ \A k \in Conns : WF_vars(ConnStep(k)) /\ WF_vars(RegStep(k)) /\ WF_vars(TempClose(k))
    /\ \A d \in Deleters : WF_vars(DelStep(d))
    /\ WF_vars(LoopCheck) /\ WF_vars(\E ks \in SUBSET Conns : TempTimeout(ks))
    /\ WF_vars(\E cs \in SUBSET Clients : CleanTimeout(cs))
    /\ \A c \in Clients :
          /\ WF_vars(TimeoutNext(c))
          /\ SF_vars(Silent(c) /\ \E cs \in SUBSET Clients : c \in cs /\ CleanTimeout(cs))

FairSpec == Spec /\ Fairness

-----------------------------------------------------------------------------
(* Properties *)

\* The variables keep the types the comments above give them.
TypeOK ==
    /\ started \in BOOLEAN
    /\ accepted \subseteq Conns /\ mTemp \subseteq Conns
    /\ socket \in [Conns -> {"open", "closed"}]
    /\ ctxAgent \in [Conns -> Clients \cup {NoClient}]
    /\ reader \in [Conns -> {"reading", "leaving", "ended"}]
    /\ regPc \in [Conns -> RegStates]
    /\ regWho \in [Conns -> Clients \cup {NoClient}]
    /\ mapLock \in Conns \cup {NoConn}
    /\ mClientInfo \in [Instances -> Clients \cup {NoClient}]
    /\ instID \in [Clients -> Instances \cup {NoInstance}]
    /\ status \in [Clients -> {"ALIVE", "DEAD"}]
    /\ connList \in [Clients -> SUBSET Conns]
    /\ mUri2Client \in [Uris -> SUBSET Clients]
    /\ announced \subseteq Uris
    /\ delPc \in [Deleters -> DelStates]
    /\ delWho \in [Deleters -> Clients \cup {NoClient}]
    /\ loop \in {"check", "round", "temp"}
    /\ expired \subseteq Conns
    /\ todo \subseteq Clients

\* The states of a registration that holds objLock4ClientInfoMap.
Locked == {"alive", "size", "append", "sync", "ctx"}

Registering(c) == \E k \in Conns : regWho[k] = c /\ regPc[k] # "done"
Deleting(c)    == \E d \in Deleters : delWho[d] = c /\ delPc[d] # "idle"
InMap(c)       == \E i \in Instances : mClientInfo[i] = c

\* The node announces an entry to its neighbours exactly as long as some
\* ClientInfo is listed for it, however registrations and deletions of
\* different clients interleave.
AnnouncedIffServed == \A u \in Uris : u \in announced <=> mUri2Client[u] # {}

\* A ClientInfo that the instance map offers to the next registration is dead
\* only while the deleteClient that will take it out is under way: no dead
\* ClientInfo waits in the map to have new connections closed.
DeadIsLeaving == \A c \in Clients : InMap(c) /\ status[c] = "DEAD" => Deleting(c)

\* A ClientInfo in the map serves the entries it registered, unless a
\* registration has yet to add or a deleteClient has yet to take it out.
MappedIsServed ==
    \A c \in Clients :
        InMap(c) /\ ~Registering(c) /\ ~Deleting(c) =>
            \A u \in EntriesOf[instID[c]] : c \in mUri2Client[u]

\* addConnection checks the limit and appends in two critical sections of
\* objLock4Connection; two registrations of one instance never both pass the
\* check for the last place, which is number MaxConnection + 1.
ConnectionLimit == \A c \in Clients : Cardinality(connList[c]) <= MaxConnection + 1

\* "Check the heartbeats, clean the clients whose heartbeat timed out"
\* (agent_manager.go:103): a ClientInfo whose connections are all closed is
\* served only as long as the map holds it, where the timeout loop finds it.
TimeoutReachesRoutes ==
    \A c \in Clients :
        Silent(c) /\ ~Registering(c) /\ ~Deleting(c) /\ ~InMap(c) =>
            \A u \in Uris : c \notin mUri2Client[u]

\* What the invariants above rest on.  objLock4ClientInfoMap excludes: at most
\* one registration is between the lookup and the unlock.
LockHeld == \A k \in Conns : regPc[k] \in Locked <=> mapLock = k

\* A registration and the Ctx of its connection name a ClientInfo of the
\* connection's instance.
Registration ==
    \A k \in Conns :
        /\ regPc[k] \in {"none", "queued"} <=> regPc[k] # "done" /\ regWho[k] = NoClient
        /\ regWho[k] # NoClient => instID[regWho[k]] = InstOf[k]
        /\ ctxAgent[k] \in {NoClient, regWho[k]}
        /\ regPc[k] \in Locked => ctxAgent[k] = NoClient
        /\ reader[k] = "leaving" => ctxAgent[k] # NoClient

\* A ClientInfo that its registration has not published yet is known to no one
\* else and alive; a published one is in the map as long as the lock is held.
Published ==
    \A k \in Conns :
        regPc[k] \in Locked =>
            \/ mClientInfo[InstOf[k]] = regWho[k]
            \/ /\ mClientInfo[InstOf[k]] = NoClient
               /\ status[regWho[k]] = "ALIVE"
               /\ ~Deleting(regWho[k]) /\ regWho[k] \notin todo
               /\ \A j \in Conns : ctxAgent[j] # regWho[k] /\ (j # k => regWho[j] # regWho[k])

\* Who is deleted was made by NewClient; the readLoop of a connection deletes
\* only at its end.
Deletion ==
    /\ \A d \in Deleters : delPc[d] # "idle" => delWho[d] # NoClient
    /\ \A c \in Clients : Deleting(c) \/ c \in todo => instID[c] # NoInstance
    /\ \A k \in Conns : reader[k] # "ended" => delPc[<<"close", k>>] = "idle"

\* A ClientInfo is in the map under its own instance id.
MapKeys == \A i \in Instances : mClientInfo[i] # NoClient => instID[mClientInfo[i]] = i

\* A ClientInfo that is not made yet is blank.
Unmade == \A c \in Clients : instID[c] = NoInstance => status[c] = "ALIVE"

\* The registration at the append found a place.
PlaceLeft ==
    \A k \in Conns : regPc[k] = "append" => Cardinality(connList[regWho[k]]) <= MaxConnection

Structure == LockHeld /\ Registration /\ Published /\ Deletion /\ MapKeys /\ Unmade

Service == AnnouncedIffServed /\ DeadIsLeaving /\ MappedIsServed

Limit == PlaceLeft /\ ConnectionLimit

IInv == Structure /\ Service /\ Limit

\* A ClientInfo without an open connection leaves the map, also when it was
\* registered after its connection had been closed already.
SilentLeaves ==
    \A c \in Clients :
        (InMap(c) /\ Silent(c)) ~> (~InMap(c) \/ ~Silent(c))
=============================================================================
