----------------------------- MODULE RpcContext -----------------------------
(***************************************************************************)
(* Request contexts of nbagent: how a synchronous call (rpc/call.go) waits *)
(* for the answer the router (router/router.go) hands over, while the      *)
(* deadline expires, the connection breaks (network/common.go) or a late   *)
(* or repeated answer arrives.                                             *)
(*                                                                         *)
(* A call owns one RpcContext, so a context is named by its call; request  *)
(* ids are taken to be unique (uuid.New in rpc.NewCall, a name plus a      *)
(* counter in Info.reconnect, the id of the message being handled in       *)
(* Info.call), hence mRequestContext is the set `registered'.  Several     *)
(* connections may share one map and its mutex: the client library does    *)
(* (client/client.go:435), a node gives each connection a map of its own.  *)
(***************************************************************************)
EXTENDS Naturals, FiniteSets

CONSTANTS
    Calls,       \* calls, each with the RpcContext it creates
    Conns,       \* ServerConnections
    Tables,      \* mRequestContext maps, each with its objRWLock
    ConnOf,      \* the connection a call is made on
    TableOf,     \* the map a connection uses
    Inline,      \* TRUE: answers are handled in readLoop (client library),
                 \* FALSE: in the worker pool tcp_msg (node)
    PoolSize,    \* slots of tcp_msg
    MaxReplies,  \* bound: copies of an answer the peer may send
    MaxCloses,   \* bound: Close() calls and failing casts of a connection
    NoCall,      \* null call
    NoConn       \* null connection

ASSUME ConstantsAssumption ==
    /\ ConnOf \in [Calls -> Conns]
    /\ TableOf \in [Conns -> Tables]
    /\ Inline \in BOOLEAN
    /\ PoolSize \in Nat \ {0}
    /\ MaxReplies \in Nat
    /\ MaxCloses \in [Conns -> Nat]
    /\ NoCall \notin Calls
    /\ NoConn \notin Conns

VARIABLES
    pc,          \* where CallContext.Start of a call is
    result,      \* what Start returned
    got,         \* byteResult: what the caller received from Msg
    registered,  \* contexts in a mRequestContext map
    msgChan,     \* RpcContext.Msg
    errorMsg,    \* szErrorMsg # ""
    ctxDone,     \* Ctx.Done() is ready (deadline or CancelFunc)
    wire,        \* requests that were written to their connection
    replies,     \* answers of the peer that readLoop has read
    fetched,     \* the answer readLoop has read and not handed over yet
    tasks,       \* answers whose Router.Process has not reached the map
    sending,     \* contexts whose router goroutine is at Msg <- bytes
    socket,      \* objConnection
    reader,      \* where readLoop is
    cleanJobs,   \* queued tasks {cleanAllRpcContext}
    breakJobs,   \* queued tasks {cleanAllRpcContext; objConnection.Close}
    closing,     \* connections whose break task is at objConnection.Close
    closes,      \* Close() calls and failing casts of the connection's owner
    cleaner,     \* holder of objRWLock: where cleanAllRpcContext is
    target,      \* the context cleanAllRpcContext is at
    breaks       \* connection the running task closes afterwards

callVars   == <<pc, result, got>>
ctxVars    == <<registered, msgChan, errorMsg, ctxDone>>
routerVars == <<wire, replies, fetched, tasks, sending>>
connVars   == <<socket, reader, cleanJobs, breakJobs, closing, closes>>
cleanVars  == <<cleaner, target, breaks>>
vars       == <<callVars, ctxVars, routerVars, connVars, cleanVars>>

CallStates   == {"idle", "writing", "waiting", "received", "expired",
                 "removing", "returned"}
ReaderStates == {"reading", "broken", "closed", "exited"}
CleanStates  == {"free", "scan", "errset", "cancelled"}

TableOfCall(c) == TableOf[ConnOf[c]]

\* The mutex objRWLock is held across a step only by cleanAllRpcContext; the
\* other users of the map take it and release it within one step.
Unlocked(t) == cleaner[t] = "free"

Entries(t) == {c \in registered : TableOfCall(c) = t}

Init ==
    /\ pc = [c \in Calls |-> "idle"]
    /\ result = [c \in Calls |-> "none"]
    /\ got = [c \in Calls |-> "none"]
    /\ registered = {}
    /\ msgChan = [c \in Calls |-> "none"]
    /\ errorMsg = [c \in Calls |-> FALSE]
    /\ ctxDone = [c \in Calls |-> FALSE]
    /\ wire = {}
    /\ replies = [c \in Calls |-> 0]
    /\ fetched = [k \in Conns |-> NoCall]
    /\ tasks = {}
    /\ sending = {}
    /\ socket = [k \in Conns |-> "open"]
    /\ reader = [k \in Conns |-> "reading"]
    /\ cleanJobs = [k \in Conns |-> 0]
    /\ breakJobs = [k \in Conns |-> 0]
    /\ closing = {}
    /\ closes = [k \in Conns |-> 0]
    /\ cleaner = [t \in Tables |-> "free"]
    /\ target = [t \in Tables |-> NoCall]
    /\ breaks = [t \in Tables |-> NoConn]

-----------------------------------------------------------------------------
(* CallContext.Start *)

\* AddRpcContext: make the channel and the deadline, enter the map.
AddRpcContext(c) ==
    /\ pc[c] = "idle"
    /\ Unlocked(TableOfCall(c))
    /\ pc' = [pc EXCEPT ![c] = "writing"]
    /\ registered' = registered \cup {c}
    /\ msgChan' = [msgChan EXCEPT ![c] = "open"]
    /\ UNCHANGED <<result, got, errorMsg, ctxDone, routerVars, connVars, cleanVars>>

\* Write succeeds: the caller enters its select.
WriteOk(c) ==
    /\ pc[c] = "writing"
    /\ socket[ConnOf[c]] = "open"
    /\ pc' = [pc EXCEPT ![c] = "waiting"]
    /\ wire' = wire \cup {c}
    /\ UNCHANGED <<result, got, ctxVars, replies, fetched, tasks, sending, connVars, cleanVars>>

\* Mutant: a failed write that leaves no cleaning task behind.
WriteFailNoTask(c) ==
    /\ pc[c] = "writing"
    /\ pc' = [pc EXCEPT ![c] = "returned"]
    /\ result' = [result EXCEPT ![c] = "false"]
    /\ UNCHANGED <<got, ctxVars, routerVars, connVars, cleanVars>>

\* Write fails (the socket is closed here, or the peer is gone): a task will
\* clean the map and close the socket; Start returns false at once and leaves
\* its context to that task.
WriteFail(c) ==
    /\ pc[c] = "writing"
    /\ pc' = [pc EXCEPT ![c] = "returned"]
    /\ result' = [result EXCEPT ![c] = "false"]
    /\ breakJobs' = [breakJobs EXCEPT ![ConnOf[c]] = @ + 1]
    /\ UNCHANGED <<got, ctxVars, routerVars, socket, reader, cleanJobs, closing, closes, cleanVars>>

\* The deadline of context.WithTimeout passes.
Deadline(c) ==
    /\ pc[c] \in {"writing", "waiting"}
    /\ ~ctxDone[c]
    /\ ctxDone' = [ctxDone EXCEPT ![c] = TRUE]
    /\ UNCHANGED <<callVars, registered, msgChan, errorMsg, routerVars, connVars, cleanVars>>

\* select, case <-Msg of a closed channel.
ReceiveClosed(c) ==
    /\ pc[c] = "waiting"
    /\ msgChan[c] = "closed"
    /\ pc' = [pc EXCEPT ![c] = "received"]
    /\ got' = [got EXCEPT ![c] = "nil"]
    /\ UNCHANGED <<result, ctxVars, routerVars, connVars, cleanVars>>

\* After case <-Msg: a set ErrorMsg fails the call; otherwise CancelFunc and
\* the result is whether the bytes unmarshal (empty bytes always do).
AfterReceive(c) ==
    /\ pc[c] = "received"
    /\ pc' = [pc EXCEPT ![c] = "returned"]
    /\ \/ /\ errorMsg[c]
          /\ result' = [result EXCEPT ![c] = "false"]
          /\ UNCHANGED ctxDone
       \/ /\ ~errorMsg[c]
          /\ ctxDone' = [ctxDone EXCEPT ![c] = TRUE]
          /\ \/ result' = [result EXCEPT ![c] = "true"]
             \/ got[c] = "data" /\ result' = [result EXCEPT ![c] = "false"]
    /\ UNCHANGED <<got, registered, msgChan, errorMsg, routerVars, connVars, cleanVars>>

\* Mutant: a select that does not wait for Ctx.Done().
ReceiveDoneEarly(c) ==
    /\ pc[c] = "waiting"
    /\ pc' = [pc EXCEPT ![c] = "expired"]
    /\ UNCHANGED <<result, got, ctxVars, routerVars, connVars, cleanVars>>

\* select, case <-Ctx.Done().
ReceiveDone(c) ==
    /\ pc[c] = "waiting"
    /\ ctxDone[c]
    /\ pc' = [pc EXCEPT ![c] = "expired"]
    /\ UNCHANGED <<result, got, ctxVars, routerVars, connVars, cleanVars>>

\* After case <-Ctx.Done(): only without ErrorMsg the caller removes its context.
AfterDone(c) ==
    /\ pc[c] = "expired"
    /\ IF errorMsg[c]
       THEN /\ pc' = [pc EXCEPT ![c] = "returned"]
            /\ result' = [result EXCEPT ![c] = "false"]
       ELSE /\ pc' = [pc EXCEPT ![c] = "removing"]
            /\ UNCHANGED result
    /\ UNCHANGED <<got, ctxVars, routerVars, connVars, cleanVars>>

\* RemoveRpcContext: close the channel and leave the map, if still there.
RemoveRpcContext(c) ==
    /\ pc[c] = "removing"
    /\ Unlocked(TableOfCall(c))
    /\ msgChan' = IF c \in registered THEN [msgChan EXCEPT ![c] = "closed"] ELSE msgChan
    /\ registered' = registered \ {c}
    /\ pc' = [pc EXCEPT ![c] = "returned"]
    /\ result' = [result EXCEPT ![c] = "false"]
    /\ UNCHANGED <<got, errorMsg, ctxDone, routerVars, connVars, cleanVars>>

-----------------------------------------------------------------------------
(* Router.Process of an answer *)

\* readLoop reads on when it has handed over what it read: to a slot of the
\* pool in a node, while the client library handles an answer in readLoop.
ReaderFree(k) ==
    /\ fetched[k] = NoCall
    /\ Inline => /\ \A r \in tasks : ConnOf[r[1]] # k
                 /\ \A c \in sending : ConnOf[c] # k

\* readLoop reads an answer of the peer, which may answer more than once.
ReadReply(c) ==
    /\ c \in wire
    /\ reader[ConnOf[c]] = "reading"
    /\ ReaderFree(ConnOf[c])
    /\ replies[c] < MaxReplies
    /\ replies' = [replies EXCEPT ![c] = @ + 1]
    /\ IF Inline
       THEN tasks' = tasks \cup {<<c, replies[c] + 1>>} /\ UNCHANGED fetched
       ELSE fetched' = [fetched EXCEPT ![ConnOf[c]] = c] /\ UNCHANGED tasks
    /\ UNCHANGED <<callVars, ctxVars, wire, sending, connVars, cleanVars>>

\* OnRead of a node: readLoop waits in GoTask for a slot of the pool, which
\* goroutines blocked at Msg <- keep.
GoTask(k) ==
    /\ fetched[k] # NoCall
    /\ Cardinality(tasks) + Cardinality(sending) < PoolSize
    /\ tasks' = tasks \cup {<<fetched[k], replies[fetched[k]]>>}
    /\ fetched' = [fetched EXCEPT ![k] = NoCall]
    /\ UNCHANGED <<callVars, ctxVars, wire, replies, sending, connVars, cleanVars>>

\* Mutant: the context stays in the map when the router has found it.
GetRpcContextKeep(c) ==
    /\ Unlocked(TableOfCall(c))
    /\ \E r \in tasks : r[1] = c /\ tasks' = tasks \ {r}
    /\ sending' = IF c \in registered THEN sending \cup {c} ELSE sending
    /\ UNCHANGED <<callVars, ctxVars, wire, replies, fetched, connVars, cleanVars>>

\* Router.Process takes the context of the answer out of the map; an answer
\* without one goes to the handler registered for its uri, or is dropped.
GetRpcContext(c) ==
    /\ Unlocked(TableOfCall(c))
    /\ \E r \in tasks : r[1] = c /\ tasks' = tasks \ {r}
    /\ sending' = IF c \in registered THEN sending \cup {c} ELSE sending
    /\ registered' = registered \ {c}
    /\ UNCHANGED <<callVars, msgChan, errorMsg, ctxDone, wire, replies, fetched, connVars, cleanVars>>

\* Msg <- bytes: the channel is unbuffered, so the router goroutine and the
\* caller's select meet in one step.
SendMsg(c) ==
    /\ c \in sending
    /\ pc[c] = "waiting"
    /\ sending' = sending \ {c}
    /\ pc' = [pc EXCEPT ![c] = "received"]
    /\ got' = [got EXCEPT ![c] = "data"]
    /\ UNCHANGED <<result, ctxVars, wire, replies, fetched, tasks, connVars, cleanVars>>

-----------------------------------------------------------------------------
(* ServerConnection: readLoop, Close, cleanAllRpcContext *)

\* The owner calls Close(): queue a cleaning task, close the socket.
Close(k) ==
    /\ closes[k] < MaxCloses[k]
    /\ closes' = [closes EXCEPT ![k] = @ + 1]
    /\ cleanJobs' = [cleanJobs EXCEPT ![k] = @ + 1]
    /\ socket' = [socket EXCEPT ![k] = "closed"]
    /\ UNCHANGED <<callVars, ctxVars, routerVars, reader, breakJobs, closing, cleanVars>>

\* A cast or a reply written to the connection fails like the write of a call.
CastFail(k) ==
    /\ closes[k] < MaxCloses[k]
    /\ closes' = [closes EXCEPT ![k] = @ + 1]
    /\ breakJobs' = [breakJobs EXCEPT ![k] = @ + 1]
    /\ UNCHANGED <<callVars, ctxVars, routerVars, socket, reader, cleanJobs, closing, cleanVars>>

\* A read fails or the packet is too big: queue a cleaning task and leave the
\* loop; plain EOF (the peer closed) leaves the loop without one.
ReadFail(k) ==
    /\ reader[k] = "reading"
    /\ ReaderFree(k)
    /\ reader' = [reader EXCEPT ![k] = "broken"]
    /\ \/ cleanJobs' = [cleanJobs EXCEPT ![k] = @ + 1]
       \/ socket[k] = "open" /\ UNCHANGED cleanJobs
    /\ UNCHANGED <<callVars, ctxVars, routerVars, socket, breakJobs, closing, closes, cleanVars>>

\* Mutant: a Close that closes the socket and cleans nothing.
ReadLoopCloseNoTask(k) ==
    /\ \/ reader[k] = "broken" /\ reader' = [reader EXCEPT ![k] = "closed"]
       \/ reader[k] = "closed" /\ reader' = [reader EXCEPT ![k] = "exited"]
    /\ socket' = [socket EXCEPT ![k] = "closed"]
    /\ UNCHANGED <<callVars, ctxVars, routerVars, cleanJobs, breakJobs, closing, closes, cleanVars>>

\* readLoop calls Close() after the loop, then OnCloseConnection, and the
\* deferred function calls Close() again.
ReadLoopClose(k) ==
    /\ \/ reader[k] = "broken" /\ reader' = [reader EXCEPT ![k] = "closed"]
       \/ reader[k] = "closed" /\ reader' = [reader EXCEPT ![k] = "exited"]
    /\ cleanJobs' = [cleanJobs EXCEPT ![k] = @ + 1]
    /\ socket' = [socket EXCEPT ![k] = "closed"]
    /\ UNCHANGED <<callVars, ctxVars, routerVars, breakJobs, closing, closes, cleanVars>>

\* Mutant: a task that is run again after it was done.
CleanLockAgain(k) ==
    /\ Unlocked(TableOf[k])
    /\ \/ /\ cleanJobs' = [cleanJobs EXCEPT ![k] = @ - 1]
          /\ UNCHANGED <<breakJobs, breaks>>
       \/ /\ breakJobs[k] > 0
          /\ breakJobs' = [breakJobs EXCEPT ![k] = @ - 1]
          /\ breaks' = [breaks EXCEPT ![TableOf[k]] = k]
          /\ UNCHANGED cleanJobs
    /\ cleaner' = [cleaner EXCEPT ![TableOf[k]] = "scan"]
    /\ UNCHANGED <<callVars, ctxVars, routerVars, socket, reader, closing, closes, target>>

\* A queued task starts cleanAllRpcContext and takes the mutex.
CleanLock(k) ==
    /\ Unlocked(TableOf[k])
    /\ \/ /\ cleanJobs[k] > 0
          /\ cleanJobs' = [cleanJobs EXCEPT ![k] = @ - 1]
          /\ UNCHANGED <<breakJobs, breaks>>
       \/ /\ breakJobs[k] > 0
          /\ breakJobs' = [breakJobs EXCEPT ![k] = @ - 1]
          /\ breaks' = [breaks EXCEPT ![TableOf[k]] = k]
          /\ UNCHANGED cleanJobs
    /\ cleaner' = [cleaner EXCEPT ![TableOf[k]] = "scan"]
    /\ UNCHANGED <<callVars, ctxVars, routerVars, socket, reader, closing, closes, target>>

\* Mutant: the context is marked for cleaning without an error message.
CleanSetErrorNot(t) ==
    /\ cleaner[t] = "scan"
    /\ \E c \in Entries(t) :
          /\ UNCHANGED errorMsg
          /\ target' = [target EXCEPT ![t] = c]
    /\ cleaner' = [cleaner EXCEPT ![t] = "errset"]
    /\ UNCHANGED <<callVars, registered, msgChan, ctxDone, routerVars, connVars, breaks>>

\* Next entry of the map: setErrorMsg ...
CleanSetError(t) ==
    /\ cleaner[t] = "scan"
    /\ \E c \in Entries(t) :
          /\ errorMsg' = [errorMsg EXCEPT ![c] = TRUE]
          /\ target' = [target EXCEPT ![t] = c]
    /\ cleaner' = [cleaner EXCEPT ![t] = "errset"]
    /\ UNCHANGED <<callVars, registered, msgChan, ctxDone, routerVars, connVars, breaks>>

\* ... then CancelFunc ...
CleanCancel(t) ==
    /\ cleaner[t] = "errset"
    /\ ctxDone' = [ctxDone EXCEPT ![target[t]] = TRUE]
    /\ cleaner' = [cleaner EXCEPT ![t] = "cancelled"]
    /\ UNCHANGED <<callVars, registered, msgChan, errorMsg, routerVars, connVars, target, breaks>>

\* ... then close(Msg) and delete.
CleanClose(t) ==
    /\ cleaner[t] = "cancelled"
    /\ msgChan' = [msgChan EXCEPT ![target[t]] = "closed"]
    /\ registered' = registered \ {target[t]}
    /\ target' = [target EXCEPT ![t] = NoCall]
    /\ cleaner' = [cleaner EXCEPT ![t] = "scan"]
    /\ UNCHANGED <<callVars, errorMsg, ctxDone, routerVars, connVars, breaks>>

\* Mutant: the mutex is not released when the map is empty.
CleanUnlockHeld(t) ==
    /\ cleaner[t] = "scan"
    /\ Entries(t) = {}
    /\ UNCHANGED cleaner
    /\ breaks' = [breaks EXCEPT ![t] = NoConn]
    /\ closing' = closing \cup ({breaks[t]} \ {NoConn})
    /\ UNCHANGED <<callVars, ctxVars, routerVars, socket, reader, cleanJobs, breakJobs, closes, target>>

\* The map is empty: release the mutex; a task queued by Write goes on.
CleanUnlock(t) ==
    /\ cleaner[t] = "scan"
    /\ Entries(t) = {}
    /\ cleaner' = [cleaner EXCEPT ![t] = "free"]
    /\ breaks' = [breaks EXCEPT ![t] = NoConn]
    /\ closing' = closing \cup ({breaks[t]} \ {NoConn})
    /\ UNCHANGED <<callVars, ctxVars, routerVars, socket, reader, cleanJobs, breakJobs, closes, target>>

\* The task queued by Write closes the socket; calls may have begun meanwhile.
BreakClose(k) ==
    /\ k \in closing
    /\ closing' = closing \ {k}
    /\ socket' = [socket EXCEPT ![k] = "closed"]
    /\ UNCHANGED <<callVars, ctxVars, routerVars, reader, cleanJobs, breakJobs, closes, cleanVars>>

-----------------------------------------------------------------------------
CallStep(c) ==
    \/ WriteOk(c) \/ WriteFail(c)
    \/ ReceiveClosed(c) \/ AfterReceive(c)
    \/ ReceiveDone(c) \/ AfterDone(c) \/ RemoveRpcContext(c)

RouterStep(c) == GetRpcContext(c) \/ SendMsg(c)

ConnStep(k) == (socket[k] = "closed" /\ ReadFail(k)) \/ ReadLoopClose(k)

CleanStep(t) ==
    \/ CleanSetError(t) \/ CleanCancel(t) \/ CleanClose(t) \/ CleanUnlock(t)

Next ==
    \/ \E c \in Calls :
          \/ AddRpcContext(c) \/ Deadline(c) \/ ReadReply(c)
          \/ CallStep(c) \/ RouterStep(c)
    \/ \E k \in Conns :
          \/ Close(k) \/ CastFail(k) \/ ReadFail(k) \/ ReadLoopClose(k) \/ GoTask(k)
          \/ CleanLock(k) \/ BreakClose(k)
    \/ \E t \in Tables : CleanStep(t)

Spec == Init /\ [][Next]_vars

\* What the Go runtime schedules: goroutines that can run do, queued tasks get
\* a worker, a blocked read on a closed socket returns.  No new call, owner
\* Close or answer of the peer is assumed to happen, nor that a deadline passes:
\* it may be as far away as one likes.
Fairness ==
    /\ \A c \in Calls : WF_vars(CallStep(c)) /\ WF_vars(GetRpcContext(c)) /\ WF_vars(SendMsg(c))
    /\ \A k \in Conns :
          /\ WF_vars(ConnStep(k)) /\ WF_vars(GoTask(k))
          /\ WF_vars(CleanLock(k)) /\ WF_vars(BreakClose(k))
    /\ \A t \in Tables : WF_vars(CleanStep(t))

FairSpec == Spec /\ Fairness

-----------------------------------------------------------------------------
(* Properties *)

\* The variables keep the types the comments above give them.
TypeOK ==
    /\ pc \in [Calls -> CallStates]
    /\ result \in [Calls -> {"none", "true", "false"}]
    /\ got \in [Calls -> {"none", "data", "nil"}]
    /\ registered \subseteq Calls
    /\ msgChan \in [Calls -> {"none", "open", "closed"}]
    /\ errorMsg \in [Calls -> BOOLEAN]
    /\ ctxDone \in [Calls -> BOOLEAN]
    /\ wire \subseteq Calls
    /\ replies \in [Calls -> Nat]
    /\ fetched \in [Conns -> Calls \cup {NoCall}]
    /\ tasks \subseteq Calls \X Nat
    /\ sending \subseteq Calls
    /\ socket \in [Conns -> {"open", "closed"}]
    /\ reader \in [Conns -> ReaderStates]
    /\ cleanJobs \in [Conns -> Nat]
    /\ breakJobs \in [Conns -> Nat]
    /\ closing \subseteq Conns
    /\ closes \in [Conns -> Nat]
    /\ cleaner \in [Tables -> CleanStates]
    /\ target \in [Tables -> Calls \cup {NoCall}]
    /\ breaks \in [Tables -> Conns \cup {NoConn}]

\* Whoever is about to close a channel (the owner of a map entry, or the
\* cleaner) or to send on it (a router goroutine) finds it open: Go panics on
\* close of a closed channel and on send to a closed channel.
ChannelNeverMisused ==
    /\ \A c \in registered \cup sending : msgChan[c] = "open"
    /\ \A t \in Tables : cleaner[t] \in {"errset", "cancelled"} => msgChan[target[t]] = "open"

\* Start returns true only to a caller that was handed the bytes of an answer
\* the peer sent to this very request; a cleaned or expired context never
\* passes for an (empty) answer.
TrueMeansAnswered ==
    \A c \in Calls : result[c] = "true" => got[c] = "data" /\ replies[c] > 0

CleanPending(t) ==
    \/ ~Unlocked(t)
    \/ \E k \in Conns : TableOf[k] = t /\ (cleanJobs[k] > 0 \/ breakJobs[k] > 0)

\* "Only a timeout has to remove the context by hand, otherwise it is removed
\* automatically" (rpc/call.go:84): a context whose Start has returned is in
\* the map only as long as a cleaning of that map is under way.
NoContextLeak ==
    \A c \in registered : pc[c] = "returned" => CleanPending(TableOfCall(c))

\* A router goroutine blocked in Msg <- bytes has a caller that will take the
\* bytes, or one that gave up at its deadline; never one that was cleaned.
BlockedSenderCause ==
    \A c \in sending :
        /\ ~errorMsg[c]
        /\ pc[c] = "waiting" \/ (ctxDone[c] /\ got[c] = "none")

\* What the invariants above rest on.  A context is owned by exactly one
\* party: the map (then only the cleaner that holds the mutex may have marked
\* it), the router goroutine that took it out, or nobody any more.
OwnedOnce ==
    /\ \A c \in registered :
          /\ msgChan[c] = "open" /\ got[c] = "none" /\ c \notin sending
          /\ pc[c] \notin {"idle", "received"}
          /\ errorMsg[c] => target[TableOfCall(c)] = c
                              /\ cleaner[TableOfCall(c)] \in {"errset", "cancelled"}
    /\ \A c \in sending :
          /\ msgChan[c] = "open" /\ ~errorMsg[c] /\ got[c] = "none"
          /\ replies[c] > 0
          /\ pc[c] # "waiting" => ctxDone[c]
    /\ \A t \in Tables :
          cleaner[t] \in {"errset", "cancelled"} =>
             target[t] \in Entries(t) /\ errorMsg[target[t]]

\* How far a call got, read off its context.
CallProgress ==
    \A c \in Calls :
        /\ replies[c] > 0 => c \in wire
        /\ c \in wire => pc[c] \notin {"idle", "writing"}
        /\ pc[c] = "idle" => c \notin registered /\ ~errorMsg[c]
        /\ msgChan[c] = "closed" => errorMsg[c] \/ pc[c] = "returned"
        /\ got[c] # "none" => pc[c] \in {"received", "returned"}
        /\ pc[c] = "received" =>
              \/ got[c] = "data" /\ replies[c] > 0
              \/ got[c] = "nil" /\ errorMsg[c]
        /\ pc[c] \in {"expired", "removing"} => ctxDone[c]
        /\ pc[c] = "returned" /\ c \in wire /\ got[c] = "none" => ctxDone[c]
        /\ result[c] # "none" => pc[c] = "returned"

\* What readLoop and the router work on was sent by the peer.
AnswersRead ==
    /\ \A r \in tasks : replies[r[1]] > 0
    /\ \A k \in Conns : fetched[k] # NoCall => replies[fetched[k]] > 0

IInv == OwnedOnce /\ CallProgress /\ AnswersRead /\ TrueMeansAnswered /\ NoContextLeak

\* A call whose deadline has passed returns, whatever its connection, the
\* cleaning tasks and a late answer do: RemoveRpcContext is not kept waiting.
DeadlineEndsCall ==
    \A c \in Calls :
        (pc[c] \in {"writing", "waiting"} /\ ctxDone[c]) ~> pc[c] = "returned"

\* Every slot of the pool is held by a router goroutine whose caller gave up.
PoolStuck == ~Inline /\ Cardinality({c \in sending : pc[c] = "returned"}) >= PoolSize

\* When the connection of a pending call dies, the call ends without its
\* deadline: the cleaning tasks reach every context, however the registration
\* of the context, the write and the tasks interleave.  Only a pool that late
\* answers have used up keeps readLoop from noticing.
DeadConnectionWakesCaller ==
    \A c \in Calls :
        (pc[c] = "waiting" /\ socket[ConnOf[c]] = "closed") ~> (pc[c] = "returned" \/ PoolStuck)
=============================================================================
