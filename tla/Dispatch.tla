------------------------------- MODULE Dispatch -------------------------------
(***************************************************************************)
(* The way of a remote call through the agents and back                    *)
(* (client/client.go SyncCall, handleRpcCallReq; cli_agent/agent_manager.go*)
(* handleRpcCallReq, handleRpcCallResp, HandleRequest, HandleResponse;     *)
(* node/manager.go DispatchReq, DispatchRsp; caller/caller.go).            *)
(*                                                                         *)
(* A client asks its agent; the agent hands the call to one of its own     *)
(* clients that serves the entry or casts it to another node, whose agent  *)
(* does.  Nobody in between keeps a record of the call: the request        *)
(* carries a stack of callers, the response pops it to find its way back.  *)
(* All calls here are for one entry.  Registration and the replication of  *)
(* entries are in ClientRegistry and EntrySync; here they are steps that   *)
(* change what dispatching reads, at any moment between two hops.          *)
(***************************************************************************)
EXTENDS Naturals, Sequences, FiniteSets

CONSTANTS
  Nodes,
  Clients, Home,    \* the node whose agent a client is connected to
  Serves,           \* the clients that register the entry
  Conns, Owner,     \* the client of a connection; a connection lives once
  Calls, Source,    \* the client that makes the call
  Start,            \* connections that are registered when we begin to look
  MaxFaults         \* bound: lost connections and links, clients that leave, stops

ASSUME DispatchAssumption ==
  /\ Home \in [Clients -> Nodes] /\ Owner \in [Conns -> Clients]
  /\ Source \in [Calls -> Clients] /\ Serves \subseteq Clients /\ Start \subseteq Conns
  /\ MaxFaults \in Nat

VARIABLES
  call, ran,   \* how a call stands, and how often a handler has run for it
  mode,        \* RequestMode of the call
  via,         \* connection a call in SyncCall was sent on, as a set
  msgs,        \* messages and tasks under way
  sock,        \* a connection: new, open, closed
  cleaning,    \* closed connections whose client has not cleaned its contexts
  list,        \* aryConnectionList of the client in its agent
  client,      \* its ClientInfo: absent, alive, dead (still in the maps)
  listed,      \* mUri2Client of the agent, for the entry
  own,         \* nodes whose ptrSelf has the entry in mEntryInfo
  routes,      \* mRpcFunc2Node of the node, for the entry
  alive,       \* nodes whose ptrSelf is not DEAD
  links,       \* pairs of nodes (or one node with itself) with a connection
  faults

callVars == <<call, ran, mode, via>>
connVars == <<sock, cleaning, list, client>>
nodeVars == <<listed, own, routes, alive, links>>
vars == <<callVars, msgs, connVars, nodeVars, faults>>

Modes == {"LOCAL_FORCE", "LOCAL_BETTER", "DEFAULT"}

GenAgentCaller(c, r, k) == [type |-> "agent", client |-> c, r |-> r, conn |-> k]
GenNodeCaller(n) == [type |-> "node", node |-> n]
PushStack(stack, caller) == Append(stack, caller)
GetTopStack(stack) == stack[Len(stack)]
PopStack(stack) == SubSeq(stack, 1, Len(stack) - 1)

NodeOf(k) == Home[Owner[k]]
LinkHops == {"fwd", "back"}

Callers ==
  [type : {"agent"}, client : Clients, r : Calls, conn : Conns]
    \cup [type : {"node"}, node : Nodes]
Stacks == {<<>>} \cup [1..1 -> Callers] \cup [1..2 -> Callers]
Messages ==
  [hop : {"toAgent"}, r : Calls, on : Conns]
    \cup [hop : {"self"}, r : Calls, on : Conns, stack : Stacks]
    \cup [hop : LinkHops, r : Calls, on : Nodes \X Nodes, stack : Stacks]
    \cup [hop : {"toServer", "task", "fromServer"}, r : Calls, on : Conns, stack : Stacks]
    \cup [hop : {"toCaller"}, r : Calls, on : Conns, res : {"reply", "notfound"}]

Req(r, k) == [hop |-> "toAgent", r |-> r, on |-> k]
Msg(hop, r, on, stack) == [hop |-> hop, r |-> r, on |-> on, stack |-> stack]
Ans(r, k, res) == [hop |-> "toCaller", r |-> r, on |-> k, res |-> res]

(* A handler takes m; what it writes is under way only on a channel that   *)
(* is up, and the result of Write or Start is used nowhere.                *)
Up(m) ==
  CASE m.hop = "self" -> TRUE
    [] m.hop \in LinkHops -> {m.on[1], m.on[2]} \in links
    [] OTHER -> sock[m.on] = "open"
Drops(m) == msgs' = msgs \ {m}
Becomes(m, new) ==
  msgs' = (msgs \ {m}) \cup {x \in {new} : Up(x)}

-----------------------------------------------------------------------------
Init ==
  /\ call = [r \in Calls |-> "idle"] /\ ran = [r \in Calls |-> 0]
  /\ mode \in [Calls -> Modes] /\ via = [r \in Calls |-> {}]
  /\ msgs = {}
  /\ sock = [k \in Conns |-> IF k \in Start THEN "open" ELSE "new"] /\ cleaning = {}
  /\ list = [c \in Clients |-> {k \in Start : Owner[k] = c}]
  /\ client = [c \in Clients |-> IF list[c] = {} THEN "absent" ELSE "alive"]
  /\ listed = [n \in Nodes |-> {c \in Serves : Home[c] = n /\ list[c] # {}}]
  /\ own = {n \in Nodes : listed[n] # {}}
  /\ routes = [n \in Nodes |-> own \cap {n}]
  /\ alive = Nodes /\ links = {} /\ faults = 0

(* SyncCall on a registered connection of the client, or on one that the   *)
(* pool still has: the write fails and the contexts will be cleaned.       *)
SyncCall(r, k) ==
  /\ call[r] = "idle"
  /\ Owner[k] = Source[r] /\ sock[k] # "new"
  /\ call' = [call EXCEPT ![r] = "pending"]
  /\ via' = [via EXCEPT ![r] = {k}]
  /\ IF sock[k] = "open"
     THEN msgs' = msgs \cup {Req(r, k)} /\ UNCHANGED cleaning
     ELSE cleaning' = cleaning \cup {k} /\ UNCHANGED msgs
  /\ UNCHANGED <<ran, mode, sock, list, client, nodeVars, faults>>

-----------------------------------------------------------------------------
(* The connections one of which a request to the client is written to: any *)
(* of aryConnectionList, closed ones too.  All failures are silent.        *)
getConnection(c) == list[c]
rpcCall(m, c, stack) ==
  IF client[c] = "alive" /\ getConnection(c) # {}
  THEN \E k \in getConnection(c) : Becomes(m, Msg("toServer", m.r, k, stack))
  ELSE Drops(m)

(* Local copies are skipped by name.                                       *)
getRemoteNodeByUri(n) == routes[n] \ {n}

(* The request goes to node x on top of the stack of its callers; whether  *)
(* the cast was written is not asked.                                      *)
CastUnsigned(m, n, x, stack) == Becomes(m, Msg("fwd", m.r, <<n, x>>, stack))
CastReq(m, n, x, stack) ==
  Becomes(m, Msg("fwd", m.r, <<n, x>>, PushStack(stack, GenNodeCaller(n))))

(* CALL_YOUR_SELF leaves DispatchReq here and looks for a client in a step *)
(* of its own; ENTRY_NOT_FOUND is answered on the connection; SUCCESS is   *)
(* the end of it.                                                          *)
DispatchReq(m, n, k, stack) ==
  LET yourself == Becomes(m, Msg("self", m.r, k, stack))
      notfound == Becomes(m, Ans(m.r, k, "notfound"))
      cast(to) == IF to = {} THEN notfound
                  ELSE \E x \in to : CastReq(m, n, x, stack)
  IN CASE mode[m.r] = "LOCAL_FORCE" -> IF n \in own THEN yourself ELSE notfound
       [] mode[m.r] = "LOCAL_BETTER" ->
            IF n \in own /\ n \in alive THEN yourself ELSE cast(getRemoteNodeByUri(n))
       [] mode[m.r] = "DEFAULT" -> cast(routes[n])

(* The agent gets the request of its client.                               *)
AgentRpcCallReq(m) ==
  /\ m.hop = "toAgent"
  /\ DispatchReq(m, NodeOf(m.on), m.on,
       PushStack(<<>>, GenAgentCaller(Owner[m.on], m.r, m.on)))
  /\ UNCHANGED <<callVars, connVars, nodeVars, faults>>

CallYourSelf(m) ==
  /\ m.hop = "self"
  /\ IF listed[NodeOf(m.on)] = {}
     THEN Becomes(m, Ans(m.r, m.on, "notfound"))
     ELSE \E c \in listed[NodeOf(m.on)] : rpcCall(m, c, m.stack)
  /\ UNCHANGED <<callVars, connVars, nodeVars, faults>>

(* The node a request was cast to.  ENTRY_NOT_FOUND goes back as the       *)
(* response to a cast, for which no context waits: it is dropped.          *)
HandleRequestPushes(m) ==
  LET n == m.on[2]
  IN IF listed[n] = {} THEN Drops(m)
     ELSE \E c \in listed[n] : rpcCall(m, c, PushStack(m.stack, GenNodeCaller(n)))
HandleRequest(m) ==
  LET n == m.on[2]
  IN IF listed[n] = {} THEN Drops(m)
     ELSE \E c \in listed[n] : rpcCall(m, c, m.stack)

NodeRpcCallReq(m) ==
  /\ m.hop = "fwd"
  /\ HandleRequest(m)
  /\ UNCHANGED <<callVars, connVars, nodeVars, faults>>

(* The client that serves the entry: the router hands the request to the   *)
(* task pool, where it outlives its connection; the handler runs, and the  *)
(* response, with the callers of the request, is written to the same       *)
(* connection.                                                             *)
ClientRpcCallReq(m) ==
  /\ m.hop = "toServer"
  /\ msgs' = (msgs \ {m}) \cup {Msg("task", m.r, m.on, m.stack)}
  /\ UNCHANGED <<callVars, connVars, nodeVars, faults>>

ClientRuns(m) ==
  /\ m.hop = "task"
  /\ ran' = [ran EXCEPT ![m.r] = @ + 1]
  /\ Becomes(m, Msg("fromServer", m.r, m.on, m.stack))
  /\ UNCHANGED <<call, mode, via, connVars, nodeVars, faults>>

-----------------------------------------------------------------------------
(* The connection the call came on, else any of the client.                *)
getRespConnection(caller) ==
  IF caller.conn \in list[caller.client] THEN {caller.conn} ELSE list[caller.client]

(* The agent of node n gives the response to the client on top of the stack.*)
rpcResp(m, n, caller) ==
  IF Home[caller.client] = n /\ client[caller.client] = "alive"
       /\ list[caller.client] # {}
  THEN \E k \in getRespConnection(caller) : Becomes(m, Ans(caller.r, k, "reply"))
  ELSE Drops(m)

(* A response goes to the node on top of the stack.  Without an Info or a  *)
(* connection of that node it is lost.                                     *)
DispatchRspKeepsTop(m, n) ==
  Becomes(m, Msg("back", m.r, <<n, GetTopStack(m.stack).node>>, m.stack))
DispatchRsp(m, n) ==
  Becomes(m, Msg("back", m.r, <<n, GetTopStack(m.stack).node>>, PopStack(m.stack)))

AgentRpcCallResp(m) ==
  /\ m.hop = "fromServer"
  /\ IF m.stack = <<>> THEN Drops(m)
     ELSE IF GetTopStack(m.stack).type = "node" THEN DispatchRsp(m, NodeOf(m.on))
     ELSE rpcResp(m, NodeOf(m.on), GetTopStack(m.stack))
  /\ UNCHANGED <<callVars, connVars, nodeVars, faults>>

(* The node a response was cast to: only an agent's caller is answered.    *)
HandleResponse(m) ==
  IF m.stack = <<>> \/ GetTopStack(m.stack).type # "agent" THEN Drops(m)
  ELSE rpcResp(m, m.on[2], GetTopStack(m.stack))

NodeRpcCallResp(m) ==
  /\ m.hop = "back"
  /\ HandleResponse(m)
  /\ UNCHANGED <<callVars, connVars, nodeVars, faults>>

(* OnRead of the client: the context of the request id, if it still waits. *)
OnReadAlways(m) ==
  /\ m.hop = "toCaller"
  /\ Drops(m)
  /\ call' = [call EXCEPT ![m.r] = m.res]
  /\ via' = [via EXCEPT ![m.r] = {}]
  /\ UNCHANGED <<ran, mode, connVars, nodeVars, faults>>
OnRead(m) ==
  /\ m.hop = "toCaller"
  /\ Drops(m)
  /\ IF call[m.r] = "pending"
     THEN /\ call' = [call EXCEPT ![m.r] = m.res]
          /\ via' = [via EXCEPT ![m.r] = {}]
     ELSE UNCHANGED <<call, via>>
  /\ UNCHANGED <<ran, mode, connVars, nodeVars, faults>>

Handles(m) ==
  \/ AgentRpcCallReq(m) \/ CallYourSelf(m) \/ NodeRpcCallReq(m)
  \/ ClientRpcCallReq(m) \/ ClientRuns(m)
  \/ AgentRpcCallResp(m) \/ NodeRpcCallResp(m) \/ OnRead(m)

-----------------------------------------------------------------------------
(* The connections K close, with what is under way on them.                *)
OnConn(m, K) == m.hop \notin LinkHops \cup {"self", "task"} /\ m.on \in K
Closes(K) ==
  LET live == {k \in K : sock[k] = "open"}
  IN /\ sock' = [k \in Conns |-> IF k \in live THEN "closed" ELSE sock[k]]
     /\ msgs' = {m \in msgs : ~OnConn(m, live)}
     /\ cleaning' = cleaning \cup live

Timeout(r) ==
  /\ call[r] = "pending"
  /\ call' = [call EXCEPT ![r] = "failed"]
  /\ UNCHANGED <<ran, mode, via, msgs, connVars, nodeVars, faults>>

(* Every connection of a client has the one context map: the close of one  *)
(* ends the calls on all of them.                                          *)
cleanAllRpcContext(k) ==
  /\ k \in cleaning
  /\ cleaning' = cleaning \ {k}
  /\ call' = [r \in Calls |-> IF call[r] = "pending" /\ Source[r] = Owner[k]
                             THEN "failed" ELSE call[r]]
  /\ UNCHANGED <<ran, mode, via, msgs, sock, list, client, nodeVars, faults>>

(* A call that failed, for whatever reason, closes its connection.         *)
clearConnect(r) ==
  /\ call[r] = "failed" /\ via[r] # {}
  /\ via' = [via EXCEPT ![r] = {}]
  /\ Closes(via[r])
  /\ UNCHANGED <<call, ran, mode, list, client, nodeVars, faults>>

Faulty == faults < MaxFaults /\ faults' = faults + 1

Break(k) ==
  /\ sock[k] = "open" /\ Faulty
  /\ Closes({k})
  /\ UNCHANGED <<callVars, list, client, nodeVars>>

(* A client registers on a new connection (handleAgentRegister, AddEntry). *)
Register(k) ==
  LET c == Owner[k]
      n == Home[c]
      first == c \in Serves /\ listed[n] = {} /\ n \notin own /\ n \in alive
  IN /\ sock[k] = "new" /\ client[c] # "dead"
     /\ sock' = [sock EXCEPT ![k] = "open"]
     /\ list' = [list EXCEPT ![c] = @ \cup {k}]
     /\ client' = [client EXCEPT ![c] = "alive"]
     /\ listed' = [listed EXCEPT ![n] = @ \cup ({c} \cap Serves)]
     /\ own' = IF first THEN own \cup {n} ELSE own
     /\ routes' = IF first THEN [routes EXCEPT ![n] = @ \cup {n}] ELSE routes
     /\ UNCHANGED <<callVars, msgs, cleaning, alive, links, faults>>

(* deleteClient: markDead closes what is left of its connections ...       *)
markDead(c) ==
  /\ client' = [client EXCEPT ![c] = "dead"]
  /\ list' = [list EXCEPT ![c] = {}]
  /\ Closes(list[c])

OnCloseConnection(k) ==
  LET c == Owner[k]
  IN /\ k \in list[c] /\ sock[k] = "closed"
     /\ IF list[c] = {k} /\ client[c] = "alive" THEN markDead(c)
        ELSE /\ list' = [list EXCEPT ![c] = @ \ {k}]
             /\ UNCHANGED <<client, sock, msgs, cleaning>>
     /\ UNCHANGED <<callVars, nodeVars, faults>>

(* handleAgentUnRegister, or the client was silent too long (cleanTimeout).*)
Leave(c) ==
  /\ client[c] = "alive" /\ Faulty
  /\ markDead(c)
  /\ UNCHANGED <<callVars, nodeVars>>

(* ... and it leaves mUri2Client and mClientInfo.  With the last client    *)
(* the entry leaves ptrSelf; the own route stays, RemoveEntry looks for it *)
(* under another key.                                                      *)
Forget(c) ==
  LET n == Home[c]
  IN /\ client[c] = "dead"
     /\ client' = [client EXCEPT ![c] = "absent"]
     /\ listed' = [listed EXCEPT ![n] = @ \ {c}]
     /\ own' = IF c \in Serves /\ listed[n] \subseteq {c} THEN own \ {n} ELSE own
     /\ UNCHANGED <<callVars, msgs, sock, cleaning, list, routes, alive, links, faults>>

-----------------------------------------------------------------------------
(* Routes follow the entries of other nodes, later.                        *)
LearnRoute(n, x) ==
  /\ n # x /\ {n, x} \in links /\ x \in own /\ x \in alive /\ x \notin routes[n]
  /\ routes' = [routes EXCEPT ![n] = @ \cup {x}]
  /\ UNCHANGED <<callVars, msgs, connVars, listed, own, alive, links, faults>>
LoseRoute(n, x) ==
  /\ n # x /\ x \in routes[n]
  /\ x \notin own \/ x \notin alive \/ {n, x} \notin links
  /\ routes' = [routes EXCEPT ![n] = @ \ {x}]
  /\ UNCHANGED <<callVars, msgs, connVars, listed, own, alive, links, faults>>

(* A node dials others, and itself once a request was routed to it.        *)
Link(n, x) ==
  /\ n = x => \E r \in Calls : mode[r] = "DEFAULT" /\ call[r] # "idle" /\ Home[Source[r]] = n
  /\ {n, x} \notin links /\ n \in alive /\ x \in alive
  /\ links' = links \cup {{n, x}}
  /\ UNCHANGED <<callVars, msgs, connVars, listed, own, routes, alive, faults>>
Unlink(n, x) ==
  /\ {n, x} \in links /\ Faulty
  /\ links' = links \ {{n, x}}
  /\ msgs' = {m \in msgs : m.hop \notin LinkHops \/ {m.on[1], m.on[2]} # {n, x}}
  /\ UNCHANGED <<callVars, connVars, listed, own, routes, alive>>

(* Stop of the NodeManager: ptrSelf is DEAD and its routes go.             *)
Stop(n) ==
  /\ n \in alive /\ Faulty
  /\ alive' = alive \ {n}
  /\ routes' = [routes EXCEPT ![n] = @ \ {n}]
  /\ UNCHANGED <<callVars, msgs, connVars, listed, own, links>>

Next ==
  \/ \E r \in Calls, k \in Conns : SyncCall(r, k)
  \/ \E m \in msgs : Handles(m)
  \/ \E r \in Calls : Timeout(r) \/ clearConnect(r)
  \/ \E k \in Conns : cleanAllRpcContext(k) \/ Break(k) \/ Register(k) \/ OnCloseConnection(k)
  \/ \E c \in Clients : Leave(c) \/ Forget(c)
  \/ \E n, x \in Nodes : LearnRoute(n, x) \/ LoseRoute(n, x) \/ Link(n, x) \/ Unlink(n, x)
  \/ \E n \in Nodes : Stop(n)

Spec == Init /\ [][Next]_vars

(* The timer of a pending call fires, whatever happened to its request.    *)
FairSpec == Spec /\ \A r \in Calls : WF_vars(Timeout(r))

-----------------------------------------------------------------------------
(* Types; what is under way on a connection or a link is there only while  *)
(* that is up, and an agent lists only connections of the client, once     *)
(* they were registered.                                                   *)
TypeOK ==
  /\ call \in [Calls -> {"idle", "pending", "reply", "notfound", "failed"}]
  /\ ran \in [Calls -> Nat] /\ mode \in [Calls -> Modes]
  /\ via \in [Calls -> SUBSET Conns]
  /\ msgs \subseteq Messages
  /\ \A m \in msgs : m.hop # "task" => Up(m)
  /\ sock \in [Conns -> {"new", "open", "closed"}]
  /\ cleaning \subseteq {k \in Conns : sock[k] = "closed"}
  /\ client \in [Clients -> {"absent", "alive", "dead"}]
  /\ list \in [Clients -> SUBSET Conns]
  /\ \A c \in Clients : \A k \in list[c] : Owner[k] = c /\ sock[k] # "new"
  /\ listed \in [Nodes -> SUBSET Serves]
  /\ own \subseteq Nodes /\ alive \subseteq Nodes
  /\ routes \in [Nodes -> SUBSET Nodes]
  /\ links \subseteq {{n, x} : n \in Nodes, x \in Nodes}
  /\ faults \in 0..MaxFaults

(* The stack of a request or response under way is the way home, whatever  *)
(* happened since it was pushed: at the node of the caller the call itself *)
(* is on top, anywhere else that node is.                                  *)
Way(m) ==
  LET home == Home[Source[m.r]]
      atTop(caller) == /\ caller.type = "agent" /\ caller.r = m.r
                       /\ caller.client = Source[m.r]
  IN /\ m.stack # <<>> /\ atTop(m.stack[1])
     /\ Len(m.stack) = 1 => CASE m.hop = "back" -> m.on[2] = home
                               [] m.hop = "fwd" -> FALSE
                               [] OTHER -> NodeOf(m.on) = home
     /\ Len(m.stack) = 2 => m.hop # "back" /\ m.stack[2] = GenNodeCaller(home)
StackLeadsHome ==
  \A m \in msgs : m.hop \notin {"toAgent", "toCaller"} => Way(m)

(* A call is lost on its way only if something it could have used broke:   *)
(* while nothing was closed, left or stopped, and no other call has failed *)
(* and closed its connection, a pending call is under way.  DEFAULT is     *)
(* excepted: it may choose the node's own route, over a connection to      *)
(* itself that is only dialled then.                                       *)
LossNeedsFault ==
  \A r \in Calls :
    /\ call[r] = "pending" /\ mode[r] # "DEFAULT" /\ faults = 0
    /\ \A x \in Calls : call[x] # "failed"
    => \E m \in msgs : m.r = r

(* The agents, nodes and clients together implement the service a caller   *)
(* sees: a call ends once, a handler runs at most once for it and never    *)
(* after ENTRY_NOT_FOUND, an answer is the answer of a handler that ran,   *)
(* and every call ends.                                                    *)
Service == INSTANCE CallService WITH call <- call, ran <- ran
ImplementsService == Service!Spec
=============================================================================
