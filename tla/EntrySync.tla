------------------------------ MODULE EntrySync ------------------------------
(***************************************************************************)
(* Replication of one node's entry table to one neighbour (node/node.go,   *)
(* node/manager.go).  The owner announces every change with a version; the *)
(* observer applies a change that follows on its version and otherwise     *)
(* fetches the whole table when a keepalive shows a different version.     *)
(*                                                                         *)
(* Messages are handled by goroutines of the tcp_msg pool, so those of one *)
(* connection overtake each other and their handlers interleave: a step    *)
(* here is one atomic access or one critical section of the code.  A       *)
(* message that is never handled is a lost one.                            *)
(***************************************************************************)
EXTENDS Naturals, FiniteSets

CONSTANTS
    Entries,     \* entries (URI with its EntryType)
    Handlers,    \* goroutines that work on the owner's messages at the observer
    MaxVersion,  \* bound: AddEntry and RemoveEntry calls
    MaxHellos,   \* bound: further connections the owner opens
    MayStop,     \* bound: whether the owner stops
    NoEntry      \* null entry

ASSUME SyncAssumption ==
    /\ MaxVersion \in Nat
    /\ MaxHellos \in Nat
    /\ MayStop \in BOOLEAN
    /\ NoEntry \notin Entries

VARIABLES
    \* The owner
    nSequence,   \* NodeManager.nSequence
    nVersion,    \* ptrSelf.nDataVersion
    entries,     \* ptrSelf.mEntryInfo
    ownRoutes,   \* mRpcFunc2Node: how often a key lists ptrSelf
    op,          \* the AddEntry or RemoveEntry under way
    notifyTasks, \* queued tasks that will cast a NewEntryNotify
    stop,        \* where Stop is
    stopEntries, \* what markDead returned to Stop
    lastWords,   \* the keepalive loop has sent its keepalive after Stop
    hellos,      \* connections opened so far
    \* Messages on their way to the observer, or read and not handled yet
    net,
    \* The observer's Info of the owner
    status,      \* nStatus
    oVersion,    \* nDataVersion
    oEntries,    \* mEntryInfo
    routes,      \* mRpcFunc2Node: how often an entry's key lists this Info
    handler,     \* the goroutines
    goodbyes     \* SayGoodbyeNotify messages handled

ownerVars    == <<nSequence, nVersion, entries, ownRoutes, op, notifyTasks>>
stopVars     == <<stop, stopEntries, lastWords>>
observerVars == <<status, oVersion, oEntries, routes, goodbyes>>
vars == <<ownerVars, stopVars, hellos, net, observerVars, handler>>

\* Keys of mRpcFunc2Node: getUri is the URI followed by the entry type;
\* RemoveEntry looks up the URI alone.
getUri(e)  == <<e, "uri_type">>
bareUri(e) == <<e, "uri">>
Keys       == Entries \X {"uri", "uri_type"}

NoOp    == [step |-> "none", entry |-> NoEntry, isNew |-> FALSE]
NoMsg   == [type |-> "none", id |-> 0, entry |-> NoEntry, isNew |-> FALSE, version |-> 0]
Idle    == [pc |-> "idle", msg |-> NoMsg, version |-> 0, resp |-> {}, old |-> {}]

Message ==
    [type : {"notify"}, id : Nat, entry : Entries, isNew : BOOLEAN, version : Nat]
    \cup [type : {"none", "keepalive", "hello", "goodbye"}, id : Nat,
          entry : {NoEntry}, isNew : {FALSE}, version : Nat]

KeepAliveNotify(v) == [NoMsg EXCEPT !.type = "keepalive", !.version = v]
SayHelloReq(n)     == [NoMsg EXCEPT !.type = "hello", !.id = n]
SayGoodbyeNotify   == [NoMsg EXCEPT !.type = "goodbye"]
NewEntryNotify(t, v) ==
    [type |-> "notify", id |-> t.id, entry |-> t.entry, isNew |-> t.isNew, version |-> v]

Init ==
    /\ nSequence = 0 /\ nVersion = 0 /\ entries = {}
    /\ ownRoutes = [k \in Keys |-> 0]
    /\ op = NoOp /\ notifyTasks = {}
    /\ stop = "running" /\ stopEntries = {} /\ lastWords = FALSE
    /\ hellos = 0 /\ net = {}
    /\ status = "ALIVE" /\ oVersion = 0 /\ oEntries = {}
    /\ routes = [e \in Entries |-> 0]
    /\ handler = [h \in Handlers |-> Idle]
    /\ goodbyes = 0

SelfAlive == stop = "running"

-----------------------------------------------------------------------------
(* The owner's AddEntry and RemoveEntry.  ClientManager holds             *)
(* objLock4UriMap around them, so at most one is under way.                *)

\* Mutant: AddEntry called without objLock4UriMap.
AddEntryUnlocked(e) ==
    /\ nSequence < MaxVersion
    /\ e \notin entries /\ SelfAlive
    /\ op' = [step |-> "route", entry |-> e, isNew |-> TRUE]
    /\ UNCHANGED <<nSequence, nVersion, entries, ownRoutes, notifyTasks, stopVars, hellos, net, observerVars, handler>>

\* AddEntry: return if the entry exists or the node is dead.
AddEntry(e) ==
    /\ op = NoOp /\ nSequence < MaxVersion
    /\ e \notin entries /\ SelfAlive
    /\ op' = [step |-> "route", entry |-> e, isNew |-> TRUE]
    /\ UNCHANGED <<nSequence, nVersion, entries, ownRoutes, notifyTasks, stopVars, hellos, net, observerVars, handler>>

RemoveEntry(e) ==
    /\ op = NoOp /\ nSequence < MaxVersion
    /\ op' = [step |-> "route", entry |-> e, isNew |-> FALSE]
    /\ UNCHANGED <<nSequence, nVersion, entries, ownRoutes, notifyTasks, stopVars, hellos, net, observerVars, handler>>

\* Under objRpcFunc2NodeMap: AddEntry appends ptrSelf to the entry's key,
\* RemoveEntry filters ptrSelf out of the list under the bare URI.
OpRoute ==
    /\ op.step = "route"
    /\ ownRoutes' = IF op.isNew THEN [ownRoutes EXCEPT ![getUri(op.entry)] = @ + 1]
                                ELSE [ownRoutes EXCEPT ![bareUri(op.entry)] = 0]
    /\ op' = [op EXCEPT !.step = "bump"]
    /\ UNCHANGED <<nSequence, nVersion, entries, notifyTasks, stopVars, hellos, net, observerVars, handler>>

\* atomic.AddUint64(&nSequence, 1), the version handed to modifyEntry.
OpBump ==
    /\ op.step = "bump"
    /\ nSequence' = nSequence + 1
    /\ op' = [op EXCEPT !.step = "store"]
    /\ UNCHANGED <<nVersion, entries, ownRoutes, notifyTasks, stopVars, hellos, net, observerVars, handler>>

\* modifyEntry of ptrSelf: store the version; were it not the next one, the
\* node would mark itself SYNCING and drop the change.
OpStore ==
    /\ op.step = "store"
    /\ IF nSequence = nVersion + 1
       THEN /\ nVersion' = nSequence
            /\ op' = [op EXCEPT !.step = "map"]
       ELSE /\ op' = NoOp
            /\ UNCHANGED nVersion
    /\ UNCHANGED <<nSequence, entries, ownRoutes, notifyTasks, stopVars, hellos, net, observerVars, handler>>

\* modifyEntry of ptrSelf, under objLock4Entry: change the map (a new entry
\* only while alive); a change queues the notify task.
OpMap ==
    /\ op.step = "map"
    /\ LET changed == op.isNew => SelfAlive IN
       /\ entries' = IF op.isNew THEN (IF changed THEN entries \cup {op.entry} ELSE entries)
                                 ELSE entries \ {op.entry}
       /\ notifyTasks' = IF changed
                         THEN notifyTasks \cup {[id |-> nSequence, entry |-> op.entry, isNew |-> op.isNew]}
                         ELSE notifyTasks
    /\ op' = NoOp
    /\ UNCHANGED <<nSequence, nVersion, ownRoutes, stopVars, hellos, net, observerVars, handler>>

\* The task casts NewEntryNotify with the version it reads when it runs.
NotifyTask(t) ==
    /\ t \in notifyTasks
    /\ notifyTasks' = notifyTasks \ {t}
    /\ net' = net \cup {NewEntryNotify(t, nVersion)}
    /\ UNCHANGED <<nSequence, nVersion, entries, ownRoutes, op, stopVars, hellos, observerVars, handler>>

\* keepalive() carries nSequence; the keepalive that follows a hello carries
\* nDataVersion.  The loop checks the manager's status before it sleeps, so
\* one keepalive may follow Stop.
KeepAlive ==
    /\ \E v \in {nSequence, nVersion} :
          /\ KeepAliveNotify(v) \notin net
          /\ net' = net \cup {KeepAliveNotify(v)}
    /\ ~lastWords /\ lastWords' = ~SelfAlive
    /\ UNCHANGED <<ownerVars, stop, stopEntries, hellos, observerVars, handler>>

\* checkNeighbour opens one more connection (reconnect): the hello leaves
\* DataVersion at 0.
Reconnect ==
    /\ SelfAlive /\ hellos < MaxHellos
    /\ hellos' = hellos + 1
    /\ net' = net \cup {SayHelloReq(hellos + 1)}
    /\ UNCHANGED <<ownerVars, stopVars, observerVars, handler>>

\* Stop: the manager stops and ptrSelf dies, its own routes go, every
\* neighbour is told.
Stop ==
    /\ MayStop
    /\ \/ /\ stop = "running" /\ stop' = "dead"
          /\ stopEntries' = entries
          /\ UNCHANGED <<ownRoutes, net>>
       \/ /\ stop = "dead" /\ stop' = "cleared"
          /\ ownRoutes' = [k \in Keys |-> IF \E e \in stopEntries : k = getUri(e) THEN 0 ELSE ownRoutes[k]]
          /\ UNCHANGED <<stopEntries, net>>
       \/ /\ stop = "cleared" /\ stop' = "stopped"
          /\ net' = net \cup {SayGoodbyeNotify}
          /\ UNCHANGED <<stopEntries, ownRoutes>>
    /\ UNCHANGED <<nSequence, nVersion, entries, op, notifyTasks, lastWords, hellos, observerVars, handler>>

-----------------------------------------------------------------------------
(* The observer's handlers *)

Goto(h, pc) == handler' = [handler EXCEPT ![h].pc = pc]
Done(h)     == handler' = [handler EXCEPT ![h] = Idle]
At(h, pc)   == handler[h].pc = pc

\* OnRead hands a message to a goroutine; what happens before its first
\* change: handleNodeEntryNotify drops it unless ALIVE, handleKeepAlive drops
\* it if DEAD, handleSayHello starts trySyncAll in a task,
\* handleSayGoodbyeNotify marks the Info dead.
Take(h, m) ==
    /\ At(h, "idle") /\ m \in net
    /\ net' = net \ {m}
    /\ LET start(pc) == handler' = [handler EXCEPT ![h] = [Idle EXCEPT !.pc = pc, !.msg = m]] IN
       \/ /\ m.type = "notify"
          /\ IF status = "ALIVE" THEN start("check") ELSE UNCHANGED handler
          /\ UNCHANGED observerVars
       \/ /\ m.type = "keepalive"
          /\ IF status # "DEAD" THEN start("need") ELSE UNCHANGED handler
          /\ UNCHANGED observerVars
       \/ /\ m.type = "hello"
          /\ start("need")
          /\ UNCHANGED observerVars
       \/ /\ m.type = "goodbye"
          /\ status' = "DEAD"
          /\ start("dead")
          /\ UNCHANGED <<oVersion, oEntries, routes, goodbyes>>
    /\ UNCHANGED <<ownerVars, stopVars, hellos>>

\* markDead lists the entries after it has set the status.
ListDead(h) ==
    /\ At(h, "dead")
    /\ handler' = [handler EXCEPT ![h].pc = "bye", ![h].old = oEntries]
    /\ UNCHANGED <<ownerVars, stopVars, hellos, net, observerVars>>

\* Mutant: a goodbye that marks the node dead and leaves its routes.
SayGoodbyeKeep(h) ==
    /\ At(h, "bye")
    /\ goodbyes' = goodbyes + 1
    /\ Done(h)
    /\ UNCHANGED <<ownerVars, stopVars, hellos, net, status, oVersion, oEntries, routes>>

\* deleteEntry after markDead.
SayGoodbye(h) ==
    /\ At(h, "bye")
    /\ routes' = [e \in Entries |-> IF e \in handler[h].old THEN 0 ELSE routes[e]]
    /\ goodbyes' = goodbyes + 1
    /\ Done(h)
    /\ UNCHANGED <<ownerVars, stopVars, hellos, net, status, oVersion, oEntries>>

\* modifyEntry: a version that is not the next one marks the Info SYNCING.
ModifyCheck(h) ==
    /\ At(h, "check")
    /\ IF handler[h].msg.version = oVersion + 1 THEN Goto(h, "store") ELSE Goto(h, "mark")
    /\ UNCHANGED <<ownerVars, stopVars, hellos, net, observerVars>>

\* The status is set after the versions were compared: the end of modifyEntry,
\* the step before the call in trySyncAll.
MarkSyncing(h) ==
    /\ At(h, "mark")
    /\ status' = "SYNCING"
    /\ IF handler[h].msg.type = "notify" THEN Done(h) ELSE Goto(h, "call")
    /\ UNCHANGED <<ownerVars, stopVars, hellos, net, oVersion, oEntries, routes, goodbyes>>

ModifyStore(h) ==
    /\ At(h, "store")
    /\ oVersion' = handler[h].msg.version
    /\ Goto(h, "map")
    /\ UNCHANGED <<ownerVars, stopVars, hellos, net, status, oEntries, routes, goodbyes>>

\* modifyEntry, under objLock4Entry; a new entry of a dead Info is no change.
ModifyMap(h) ==
    /\ At(h, "map")
    /\ LET m == handler[h].msg IN
       \/ /\ m.isNew /\ status # "DEAD"
          /\ oEntries' = oEntries \cup {m.entry}
          /\ Goto(h, "route")
       \/ /\ m.isNew /\ status = "DEAD"
          /\ UNCHANGED oEntries
          /\ Done(h)
       \/ /\ ~m.isNew
          /\ oEntries' = oEntries \ {m.entry}
          /\ Goto(h, "route")
    /\ UNCHANGED <<ownerVars, stopVars, hellos, net, status, oVersion, routes, goodbyes>>

\* handleNodeEntryNotify, under objRpcFunc2NodeMap: append without looking,
\* or filter out.
NotifyRoute(h) ==
    /\ At(h, "route")
    /\ LET m == handler[h].msg IN
       routes' = [routes EXCEPT ![m.entry] = IF m.isNew THEN @ + 1 ELSE 0]
    /\ Done(h)
    /\ UNCHANGED <<ownerVars, stopVars, hellos, net, status, oVersion, oEntries, goodbyes>>

\* Mutant: a sync that is under way, or failed, is not started again.
NeedSyncAllOnce(h) ==
    /\ At(h, "need")
    /\ IF handler[h].msg.version # oVersion /\ status # "SYNCING" THEN Goto(h, "mark") ELSE Done(h)
    /\ UNCHANGED <<ownerVars, stopVars, hellos, net, observerVars>>

\* Mutant: the version of a keepalive is stored like that of a notify.
NeedSyncAllModify(h) ==
    /\ At(h, "need")
    /\ IF handler[h].msg.version # oVersion THEN Goto(h, "store") ELSE Done(h)
    /\ UNCHANGED <<ownerVars, stopVars, hellos, net, observerVars>>

\* trySyncAll, needSyncAll: a different version marks the Info SYNCING and
\* calls NODE_GET_ENTRY; an equal one ends the handler, whatever the status.
NeedSyncAll(h) ==
    /\ At(h, "need")
    /\ IF handler[h].msg.version # oVersion THEN Goto(h, "mark") ELSE Done(h)
    /\ UNCHANGED <<ownerVars, stopVars, hellos, net, observerVars>>

\* The owner's handleGetEntryReq: nothing once stopped; else the version is
\* read first, the table under its own lock afterwards.
GetEntryVersion(h) ==
    /\ At(h, "call") /\ SelfAlive
    /\ handler' = [handler EXCEPT ![h].pc = "answer", ![h].version = nVersion]
    /\ UNCHANGED <<ownerVars, stopVars, hellos, net, observerVars>>

GetEntryAll(h) ==
    /\ At(h, "answer")
    /\ handler' = [handler EXCEPT ![h].pc = "resp", ![h].resp = entries]
    /\ UNCHANGED <<ownerVars, stopVars, hellos, net, observerVars>>

\* The call fails: write error, lost connection, or no answer within 2 s.
GetEntryFail(h) ==
    /\ handler[h].pc \in {"call", "answer", "resp"}
    /\ Done(h)
    /\ UNCHANGED <<ownerVars, stopVars, hellos, net, observerVars>>

\* The answer is in: aryEntryOld is what the Info holds now.
SyncOld(h) ==
    /\ At(h, "resp")
    /\ handler' = [handler EXCEPT ![h].pc = "syncver", ![h].old = oEntries]
    /\ UNCHANGED <<ownerVars, stopVars, hellos, net, observerVars>>

\* Mutant: the version stored is the announced one, not that of the answer.
SyncVersionAnnounced(h) ==
    /\ At(h, "syncver")
    /\ oVersion' = handler[h].msg.version
    /\ Goto(h, "syncstatus")
    /\ UNCHANGED <<ownerVars, stopVars, hellos, net, status, oEntries, routes, goodbyes>>

\* syncEntry: store the version, then the status, then (locked) the map.
SyncVersion(h) ==
    /\ At(h, "syncver")
    /\ oVersion' = handler[h].version
    /\ Goto(h, "syncstatus")
    /\ UNCHANGED <<ownerVars, stopVars, hellos, net, status, oEntries, routes, goodbyes>>

SyncStatus(h) ==
    /\ At(h, "syncstatus")
    /\ status' = "ALIVE"
    /\ Goto(h, "syncmap")
    /\ UNCHANGED <<ownerVars, stopVars, hellos, net, oVersion, oEntries, routes, goodbyes>>

SyncMap(h) ==
    /\ At(h, "syncmap")
    /\ oEntries' = handler[h].resp
    /\ Goto(h, "delete")
    /\ UNCHANGED <<ownerVars, stopVars, hellos, net, status, oVersion, routes, goodbyes>>

\* Mutant: the routes of the old entries stay.
SyncDeleteNothing(h) ==
    /\ At(h, "delete")
    /\ Goto(h, "append")
    /\ UNCHANGED <<ownerVars, stopVars, hellos, net, status, oVersion, oEntries, routes, goodbyes>>

\* deleteEntry of aryEntryOld, then the routes of the answer are appended,
\* each under objRpcFunc2NodeMap.
SyncDelete(h) ==
    /\ At(h, "delete")
    /\ routes' = [e \in Entries |-> IF e \in handler[h].old THEN 0 ELSE routes[e]]
    /\ Goto(h, "append")
    /\ UNCHANGED <<ownerVars, stopVars, hellos, net, status, oVersion, oEntries, goodbyes>>

SyncAppend(h) ==
    /\ At(h, "append")
    /\ routes' = [e \in Entries |-> IF e \in handler[h].resp THEN routes[e] + 1 ELSE routes[e]]
    /\ Done(h)
    /\ UNCHANGED <<ownerVars, stopVars, hellos, net, status, oVersion, oEntries, goodbyes>>

-----------------------------------------------------------------------------
OpStep == OpRoute \/ OpBump \/ OpStore \/ OpMap

GoodbyeStep(h) == ListDead(h) \/ SayGoodbye(h)

NotifyStep(h) == ModifyCheck(h) \/ MarkSyncing(h) \/ ModifyStore(h) \/ ModifyMap(h) \/ NotifyRoute(h)

SyncStep(h) ==
    \/ NeedSyncAll(h) \/ GetEntryVersion(h) \/ GetEntryAll(h)
    \/ SyncOld(h) \/ SyncVersion(h) \/ SyncStatus(h) \/ SyncMap(h)
    \/ SyncDelete(h) \/ SyncAppend(h)

Next ==
    \/ \E e \in Entries : AddEntry(e) \/ RemoveEntry(e)
    \/ OpStep
    \/ \E t \in notifyTasks : NotifyTask(t)
    \/ KeepAlive \/ Reconnect \/ Stop
    \/ \E h \in Handlers :
          \/ \E m \in net : Take(h, m)
          \/ NotifyStep(h) \/ SyncStep(h) \/ GetEntryFail(h) \/ GoodbyeStep(h)

Spec == Init /\ [][Next]_vars

\* An operation under way goes on, the keepalive loop runs, keepalives are
\* handled, a handler goes on; and NODE_GET_ENTRY, though it may fail any
\* number of times, does not fail for ever.
Fairness ==
    /\ WF_vars(OpStep) /\ WF_vars(KeepAlive)
    /\ \A h \in Handlers :
          /\ WF_vars(\E m \in net : m.type = "keepalive" /\ Take(h, m))
          /\ WF_vars(NotifyStep(h) \/ SyncStep(h) \/ GetEntryFail(h) \/ GoodbyeStep(h))
          /\ SF_vars(GetEntryVersion(h)) /\ SF_vars(GetEntryAll(h)) /\ SF_vars(SyncOld(h))

FairSpec == Spec /\ Fairness

-----------------------------------------------------------------------------
(* Properties *)

HandlerStates ==
    {"idle", "dead", "bye", "check", "mark", "store", "map", "route", "need", "call", "answer",
     "resp", "syncver", "syncstatus", "syncmap", "delete", "append"}

Handling ==
    [pc : HandlerStates, msg : Message, version : Nat,
     resp : SUBSET Entries, old : SUBSET Entries]

OwnerTypes ==
    /\ nSequence \in Nat /\ nVersion \in Nat
    /\ entries \subseteq Entries
    /\ ownRoutes \in [Keys -> Nat]
    /\ op \in [step : {"none", "route", "bump", "store", "map"},
               entry : Entries \cup {NoEntry}, isNew : BOOLEAN]
    /\ op.step # "none" => op.entry \in Entries
    /\ notifyTasks \subseteq [id : Nat, entry : Entries, isNew : BOOLEAN]
    /\ stop \in {"running", "dead", "cleared", "stopped"}
    /\ stopEntries \subseteq Entries /\ lastWords \in BOOLEAN
    /\ hellos \in Nat

ObserverTypes ==
    /\ status \in {"ALIVE", "SYNCING", "DEAD"}
    /\ oVersion \in Nat
    /\ oEntries \subseteq Entries
    /\ routes \in [Entries -> Nat]
    /\ goodbyes \in Nat

HandlerTypes ==
    /\ net \subseteq Message
    /\ handler \in [Handlers -> Handling]
    /\ \A h \in Handlers :
          handler[h].pc \in {"check", "store", "map", "route"} => handler[h].msg.type = "notify"

\* The variables keep the types the comments above give them, and the steps of
\* handleNodeEntryNotify work on a NewEntryNotify.
TypeOK == OwnerTypes /\ ObserverTypes /\ HandlerTypes

\* The owner's two counters never drift apart: nSequence is bumped and
\* nDataVersion stored in different places, and were they ever to disagree,
\* modifyEntry would refuse every later change of the node's own table.
OwnCountersAgree ==
    /\ op.step \in {"none", "route", "bump", "map"} => nSequence = nVersion
    /\ op.step = "store" => nSequence = nVersion + 1

\* The observer never holds a version the owner has not reached, so a missed
\* change always leaves it behind: notifies carry a version read late, answers
\* are old when they arrive, keepalives announce nSequence before it is stored.
ObserverNeverAhead == oVersion <= nVersion

\* What ObserverNeverAhead rests on: every version that may still be stored
\* was the owner's once.
VersionsReached ==
    /\ \A m \in net : m.type = "notify" => m.version <= nVersion
    /\ \A h \in Handlers :
          /\ handler[h].pc \in {"check", "store"} => handler[h].msg.version <= nVersion
          /\ handler[h].pc \in {"answer", "resp", "syncver"} => handler[h].version <= nVersion

IInv == OwnCountersAgree /\ VersionsReached /\ ObserverNeverAhead

HandlersIdle == \A h \in Handlers : At(h, "idle")

\* When no handler is under way, the router finds the node under exactly the
\* entries its Info holds (a node that said goodbye keeps them, unrouted).
RoutesMatchEntries ==
    HandlersIdle /\ stop = "running" =>
        \A e \in Entries : routes[e] > 0 <=> e \in oEntries

\* A node that said goodbye is not routed to any more (what node_test.go's
\* TestStop asserts of mRpcFunc2Node after Stop).
NoRouteAfterGoodbye ==
    goodbyes > 0 /\ HandlersIdle => \A e \in Entries : routes[e] = 0

\* While the owner runs, the observer's version ends up at the owner's: every
\* gap is found by a keepalive and closed by a full sync, whatever late
\* notifies, old answers and failed calls do in between.
VersionConverges ==
    <>[](stop = "running" => oVersion = nVersion)
=============================================================================
