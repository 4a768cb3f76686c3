--------------------------- MODULE DispatchProofs ---------------------------
(***************************************************************************)
(* Proofs about Dispatch for any nodes, clients, connections and calls: a  *)
(* response finds its way home, a call is lost only after a fault, and the *)
(* agents together do what CallService promises the caller.                *)
(***************************************************************************)
EXTENDS Dispatch, SequenceTheorems, TLAPS

(* A stack is a sequence of at most two callers.                           *)
LEMMA StacksAre == \A s : s \in Stacks <=> s \in Seq(Callers) /\ Len(s) \in {0, 1, 2}
<1>1. ASSUME NEW s \in Stacks PROVE s \in Seq(Callers) /\ Len(s) \in {0, 1, 2}
  <2>1. CASE s = <<>>
    BY <2>1
  <2>2. ASSUME NEW n \in {1, 2}, s \in [1..n -> Callers]
        PROVE  s \in Seq(Callers) /\ Len(s) = n
    <3>1. s \in Seq(Callers)
      BY <2>2
    <3>2. DOMAIN s = 1..n
      BY <2>2
    <3> QED
      BY <3>1, <3>2, LenProperties
  <2> QED
    BY <2>1, <2>2 DEF Stacks
<1>2. ASSUME NEW s, s \in Seq(Callers), Len(s) \in {0, 1, 2} PROVE s \in Stacks
  <2>1. s \in [1..Len(s) -> Callers]
    BY <1>2, LenProperties
  <2>2. Len(s) = 0 => s = <<>>
    BY <1>2, EmptySeq
  <2> QED
    BY <1>2, <2>1, <2>2 DEF Stacks
<1> QED
  BY <1>1, <1>2

LEMMA StackLengths ==
    ASSUME NEW s \in Stacks
    PROVE  /\ s \in Seq(Callers) /\ Len(s) \in {0, 1, 2}
           /\ Len(s) = 0 <=> s = <<>>
           /\ Len(s) >= 1 => s[1] \in Callers
           /\ Len(s) = 2 => s[2] \in Callers
<1>1. s \in Seq(Callers) /\ Len(s) \in {0, 1, 2}
  BY StacksAre
<1>2. Len(s) = 0 <=> s = <<>>
  BY <1>1, EmptySeq
<1> QED
  BY <1>1, <1>2, ElementOfSeq

(* What a stack is after the operations of caller/caller.go.               *)
LEMMA OneCaller ==
    ASSUME NEW x \in Callers
    PROVE  LET s == PushStack(<<>>, x)
           IN s \in Seq(Callers) /\ s \in Stacks /\ Len(s) = 1 /\ s[1] = x
<1>1. <<>> \in Seq(Callers) /\ Len(<<>>) = 0
  OBVIOUS
<1>2. LET s == PushStack(<<>>, x) IN s \in Seq(Callers) /\ Len(s) = 1 /\ s[1] = x
  BY <1>1, AppendProperties DEF PushStack
<1> QED
  BY <1>2, StacksAre

LEMMA Pushed ==
    ASSUME NEW t \in Seq(Callers), NEW y \in Callers
    PROVE  /\ PushStack(t, y) \in Seq(Callers) /\ Len(PushStack(t, y)) = Len(t) + 1
           /\ \A i \in 1..Len(t) : PushStack(t, y)[i] = t[i]
           /\ PushStack(t, y)[Len(t) + 1] = y
BY AppendProperties DEF PushStack

LEMMA TwoCallers ==
    ASSUME NEW x \in Callers, NEW y \in Callers
    PROVE  LET s == PushStack(PushStack(<<>>, x), y)
           IN s \in Stacks /\ Len(s) = 2 /\ s[1] = x /\ s[2] = y
<1> DEFINE t == PushStack(<<>>, x)
<1>1. t \in Seq(Callers) /\ Len(t) = 1 /\ t[1] = x
  BY OneCaller
<1> HIDE DEF t
<1>2. LET s == PushStack(t, y)
      IN s \in Seq(Callers) /\ Len(s) = 2 /\ s[1] = x /\ s[2] = y
  <2>1. /\ PushStack(t, y) \in Seq(Callers) /\ Len(PushStack(t, y)) = Len(t) + 1
        /\ \A i \in 1..Len(t) : PushStack(t, y)[i] = t[i]
        /\ PushStack(t, y)[Len(t) + 1] = y
    BY <1>1, Pushed
  <2>2. 1 \in 1..Len(t) /\ Len(t) + 1 = 2
    BY <1>1
  <2>3. PushStack(t, y)[1] = x
    BY <1>1, <2>1, <2>2
  <2>4. Len(PushStack(t, y)) = 2 /\ PushStack(t, y)[2] = y
    BY <2>1, <2>2
  <2> QED
    BY <2>1, <2>3, <2>4
<1>3. PushStack(t, y) \in Stacks
  BY <1>2, StacksAre
<1> QED
  BY <1>2, <1>3 DEF t

LEMMA Popped ==
    ASSUME NEW s \in Stacks, Len(s) = 2
    PROVE  /\ GetTopStack(s) = s[2]
           /\ PopStack(s) \in Stacks /\ Len(PopStack(s)) = 1 /\ PopStack(s)[1] = s[1]
<1>1. \A i \in 1..1 : s[i] \in Callers
  BY StackLengths
<1>2. PopStack(s) = SubSeq(s, 1, 1)
  BY DEF PopStack
<1>3. PopStack(s) \in Seq(Callers) /\ Len(PopStack(s)) = 1 /\ PopStack(s)[1] = s[1]
  BY <1>1, <1>2, SubSeqProperties
<1> QED
  BY <1>3, StacksAre DEF GetTopStack

(* The kinds of messages and what each carries.                            *)
LEMMA MessageFacts ==
    ASSUME NEW m \in Messages
    PROVE  /\ m.r \in Calls
           /\ m.hop \in {"toAgent", "self", "fwd", "back", "toServer", "task",
                         "fromServer", "toCaller"}
           /\ m.hop \notin LinkHops => m.on \in Conns
           /\ m.hop \in LinkHops => m.on \in Nodes \X Nodes
           /\ m.hop \notin {"toAgent", "toCaller"} => m.stack \in Stacks
           /\ m.hop = "toCaller" => m.res \in {"reply", "notfound"}
BY DEF Messages, LinkHops

LEMMA MessageTypes ==
    ASSUME NEW r \in Calls
    PROVE  /\ \A k \in Conns : /\ Req(r, k) \in Messages /\ Req(r, k).hop = "toAgent"
                               /\ Req(r, k).r = r /\ Req(r, k).on = k
           /\ \A k \in Conns, res \in {"reply", "notfound"} :
                LET m == Ans(r, k, res)
                IN m \in Messages /\ m.hop = "toCaller" /\ m.r = r /\ m.on = k /\ m.res = res
           /\ \A hop \in {"self", "toServer", "task", "fromServer"}, k \in Conns, s \in Stacks :
                LET m == Msg(hop, r, k, s)
                IN m \in Messages /\ m.hop = hop /\ m.r = r /\ m.on = k /\ m.stack = s
           /\ \A hop \in LinkHops, on \in Nodes \X Nodes, s \in Stacks :
                LET m == Msg(hop, r, on, s)
                IN m \in Messages /\ m.hop = hop /\ m.r = r /\ m.on = on /\ m.stack = s
<1>1. \A k \in Conns : Req(r, k) \in Messages
  BY DEF Messages, Req
<1>2. \A k \in Conns, res \in {"reply", "notfound"} : Ans(r, k, res) \in Messages
  BY DEF Messages, Ans
<1>3. \A hop \in {"self", "toServer", "task", "fromServer"}, k \in Conns, s \in Stacks :
        Msg(hop, r, k, s) \in Messages
  BY DEF Messages, Msg
<1>4. \A hop \in LinkHops, on \in Nodes \X Nodes, s \in Stacks : Msg(hop, r, on, s) \in Messages
  BY DEF Messages, Msg
<1> QED
  BY <1>1, <1>2, <1>3, <1>4 DEF Req, Ans, Msg

-----------------------------------------------------------------------------
(* A request comes on a connection of the client that calls, and an agent  *)
(* lists for the entry only clients of its own.                            *)
Placed ==
  /\ \A m \in msgs : m.hop = "toAgent" => Owner[m.on] = Source[m.r]
  /\ \A n \in Nodes : \A c \in listed[n] : Home[c] = n

RouteInv == TypeOK /\ Placed /\ StackLeadsHome

(* The messages that exist because a handler has run.                      *)
Answered(m) == m.hop \in {"fromServer", "back"} \/ (m.hop = "toCaller" /\ m.res = "reply")

(* What a handler may make of message m: a message of the same call, with  *)
(* the way home, an answer only of an answer or of the handler's run.      *)
Follows(m, new) ==
  /\ new \in Messages /\ new.r = m.r /\ new.hop # "toAgent"
  /\ new.hop # "toCaller" => Way(new)
  /\ Answered(new) <=> Answered(m) \/ m.hop = "task"

Passes(m, new) ==
  Follows(m, new) /\ (new.hop = "task" \/ Up(new)) /\ msgs' = (msgs \ {m}) \cup {new}

LEMMA BecomesIs ==
    ASSUME NEW m, NEW new, Becomes(m, new)
    PROVE  Drops(m) \/ (Up(new) /\ msgs' = (msgs \ {m}) \cup {new})
BY DEF Becomes, Drops

(* rpcCall hands a request with a way home to a client of its node.        *)
LEMMA RequestHandedOver ==
    ASSUME RouteInv, NEW m \in msgs, m.hop \in {"self", "fwd"}, NEW n \in Nodes,
           m.hop = "self" => n = NodeOf(m.on), NEW c \in listed[n], rpcCall(m, c, m.stack)
    PROVE  Drops(m) \/ \E new : Passes(m, new)
<1>1. m \in Messages /\ Way(m) /\ m.stack \in Stacks /\ m.r \in Calls
  BY MessageFacts DEF RouteInv, TypeOK, StackLeadsHome
<1>2. c \in Clients /\ Home[c] = n
  BY DispatchAssumption DEF RouteInv, TypeOK, Placed
<1>3. ASSUME NEW k \in list[c], Becomes(m, Msg("toServer", m.r, k, m.stack))
      PROVE  Drops(m) \/ \E new : Passes(m, new)
  <2> DEFINE new == Msg("toServer", m.r, k, m.stack)
  <2>1. k \in Conns /\ Owner[k] = c
    BY <1>2 DEF RouteInv, TypeOK
  <2>2. new \in Messages /\ new.hop = "toServer" /\ new.r = m.r /\ new.on = k /\ new.stack = m.stack
    BY <1>1, <2>1, MessageTypes
  <2> HIDE DEF new
  <2>3. Way(new)
    BY <1>1, <1>2, <2>1, <2>2, StackLengths DEF Way, NodeOf
  <2>4. Follows(m, new)
    BY <2>2, <2>3 DEF Follows, Answered
  <2> QED
    BY <1>3, <2>4, BecomesIs DEF Passes, new
<1> QED
  BY <1>3 DEF rpcCall, getConnection

(* rpcResp gives the answer to the client that called.                     *)
LEMMA ResponseHandedOver ==
    ASSUME RouteInv, NEW m \in msgs, m.hop \in {"fromServer", "back"}, NEW n \in Nodes,
           GetTopStack(m.stack).type = "agent", rpcResp(m, n, GetTopStack(m.stack))
    PROVE  Drops(m) \/ \E new : Passes(m, new)
<1>1. m \in Messages /\ Way(m) /\ m.stack \in Stacks /\ m.r \in Calls
  BY MessageFacts DEF RouteInv, TypeOK, StackLeadsHome
<1>2. Len(m.stack) = 1
  <2>1. Len(m.stack) = 2 => GetTopStack(m.stack).type = "node"
    BY <1>1 DEF Way, GetTopStack, GenNodeCaller
  <2> QED
    BY <1>1, <2>1, StackLengths DEF Way
<1>3. GetTopStack(m.stack) = m.stack[1]
  BY <1>2 DEF GetTopStack
<1>4. GetTopStack(m.stack).r = m.r /\ GetTopStack(m.stack).client = Source[m.r]
  BY <1>1, <1>3 DEF Way
<1>5. GetTopStack(m.stack).conn \in Conns
  BY <1>1, <1>2, <1>3, StackLengths DEF Callers
<1>6. ASSUME NEW k \in Conns, Becomes(m, Ans(m.r, k, "reply"))
      PROVE  Drops(m) \/ \E new : Passes(m, new)
  <2> DEFINE new == Ans(m.r, k, "reply")
  <2>1. new \in Messages /\ new.hop = "toCaller" /\ new.r = m.r /\ new.res = "reply"
    BY <1>1, MessageTypes
  <2> HIDE DEF new
  <2>2. Follows(m, new)
    BY <2>1 DEF Follows, Answered
  <2> QED
    BY <1>6, <2>2, BecomesIs DEF Passes, new
<1>7. getRespConnection(GetTopStack(m.stack)) \subseteq Conns
  BY <1>1, <1>4, <1>5, DispatchAssumption DEF getRespConnection, RouteInv, TypeOK
<1> QED
  BY <1>4, <1>6, <1>7 DEF rpcResp

(* DispatchReq makes of the client's request one for a client of the node  *)
(* itself, one for another node, or an answer that there is no entry.      *)
LEMMA RequestDispatched ==
    ASSUME RouteInv, NEW m \in msgs, AgentRpcCallReq(m)
    PROVE  Drops(m) \/ \E new : Passes(m, new)
<1> DEFINE k == m.on
           n == NodeOf(k)
           x == GenAgentCaller(Owner[k], m.r, k)
           Goal == Drops(m) \/ \E new : Passes(m, new)
<1>1. m \in Messages /\ m.hop = "toAgent" /\ m.r \in Calls /\ k \in Conns
  <2>1. m \in Messages
    BY DEF RouteInv, TypeOK
  <2>2. m.hop = "toAgent"
    BY DEF AgentRpcCallReq
  <2> QED
    BY <2>1, <2>2, MessageFacts DEF LinkHops
<1>2. Owner[k] = Source[m.r] /\ Owner[k] \in Clients /\ n \in Nodes
  BY <1>1, DispatchAssumption DEF RouteInv, Placed, NodeOf
<1>3. x \in Callers /\ x.type = "agent" /\ x.r = m.r /\ x.client = Source[m.r]
  BY <1>1, <1>2 DEF GenAgentCaller, Callers
<1>4. GenNodeCaller(n) \in Callers
  BY <1>2 DEF GenNodeCaller, Callers
<1> HIDE DEF x
<1>5. ASSUME Becomes(m, Msg("self", m.r, k, PushStack(<<>>, x))) PROVE Goal
  <2> DEFINE s == PushStack(<<>>, x)
             new == Msg("self", m.r, k, s)
  <2>1. s \in Stacks /\ Len(s) = 1 /\ s[1] = x /\ s # <<>>
    BY <1>3, OneCaller
  <2> HIDE DEF s
  <2>2. new \in Messages /\ new.hop = "self" /\ new.r = m.r /\ new.on = k /\ new.stack = s
    BY <1>1, <2>1, MessageTypes
  <2> HIDE DEF new
  <2>3. Way(new)
    BY <1>2, <1>3, <2>1, <2>2 DEF Way, NodeOf
  <2>4. Follows(m, new)
    BY <1>1, <2>2, <2>3 DEF Follows, Answered
  <2> QED
    BY <1>5, <2>4, BecomesIs DEF Passes, new, s
<1>6. ASSUME Becomes(m, Ans(m.r, k, "notfound")) PROVE Goal
  <2> DEFINE new == Ans(m.r, k, "notfound")
  <2>1. new \in Messages /\ new.hop = "toCaller" /\ new.r = m.r /\ new.res = "notfound"
    BY <1>1, MessageTypes
  <2> HIDE DEF new
  <2>2. Follows(m, new)
    BY <1>1, <2>1 DEF Follows, Answered
  <2> QED
    BY <1>6, <2>2, BecomesIs DEF Passes, new
<1>7. ASSUME NEW y \in Nodes, CastReq(m, n, y, PushStack(<<>>, x)) PROVE Goal
  <2> DEFINE s == PushStack(PushStack(<<>>, x), GenNodeCaller(n))
             new == Msg("fwd", m.r, <<n, y>>, s)
  <2>1. s \in Stacks /\ Len(s) = 2 /\ s[1] = x /\ s[2] = GenNodeCaller(n)
    BY <1>3, <1>4, TwoCallers
  <2>a. s # <<>>
    BY <2>1
  <2> HIDE DEF s
  <2>2. <<n, y>> \in Nodes \X Nodes
    BY <1>2
  <2>3. new \in Messages /\ new.hop = "fwd" /\ new.r = m.r /\ new.stack = s
    BY <1>1, <2>1, <2>2, MessageTypes DEF LinkHops
  <2>4. Becomes(m, new)
    BY <1>7 DEF CastReq, s
  <2> HIDE DEF new
  <2>5. Way(new)
    BY <1>2, <1>3, <2>1, <2>3, <2>a DEF Way, NodeOf
  <2>6. Follows(m, new)
    BY <1>1, <2>3, <2>5 DEF Follows, Answered
  <2> QED
    BY <2>4, <2>6, BecomesIs DEF Passes
<1>8. mode[m.r] \in Modes /\ routes[n] \subseteq Nodes /\ getRemoteNodeByUri(n) \subseteq Nodes
  BY <1>1, <1>2 DEF RouteInv, TypeOK, getRemoteNodeByUri
<1>9. DispatchReq(m, n, k, PushStack(<<>>, x))
  BY DEF AgentRpcCallReq, x
<1> QED
  BY <1>5, <1>6, <1>7, <1>8, <1>9 DEF DispatchReq, Modes

(* Every handler of a message leaves the call with one message at most.    *)
LEMMA Handled ==
    ASSUME RouteInv, NEW m \in msgs, Handles(m)
    PROVE  Drops(m) \/ \E new : Passes(m, new)
<1> DEFINE Goal == Drops(m) \/ \E new : Passes(m, new)
<1>1. m \in Messages /\ m.r \in Calls
  BY MessageFacts DEF RouteInv, TypeOK
<1>2. CASE AgentRpcCallReq(m)
  BY <1>2, RequestDispatched
<1>3. CASE CallYourSelf(m)
  <2>1. m.on \in Conns /\ NodeOf(m.on) \in Nodes /\ m.hop = "self"
    BY <1>1, <1>3, MessageFacts, DispatchAssumption DEF CallYourSelf, NodeOf, LinkHops
  <2>2. ASSUME Becomes(m, Ans(m.r, m.on, "notfound")) PROVE Goal
    <3> DEFINE new == Ans(m.r, m.on, "notfound")
    <3>1. new \in Messages /\ new.hop = "toCaller" /\ new.r = m.r /\ new.res = "notfound"
      BY <1>1, <2>1, MessageTypes
    <3> HIDE DEF new
    <3>2. Follows(m, new)
      BY <2>1, <3>1 DEF Follows, Answered
    <3> QED
      BY <2>2, <3>2, BecomesIs DEF Passes, new
  <2>3. ASSUME NEW c \in listed[NodeOf(m.on)], rpcCall(m, c, m.stack) PROVE Goal
    BY <2>1, <2>3, RequestHandedOver
  <2> QED
    BY <1>3, <2>2, <2>3 DEF CallYourSelf
<1>4. CASE NodeRpcCallReq(m)
  <2>1. m.on[2] \in Nodes /\ m.hop = "fwd"
    BY <1>1, <1>4, MessageFacts DEF NodeRpcCallReq, LinkHops
  <2>2. ASSUME NEW c \in listed[m.on[2]], rpcCall(m, c, m.stack) PROVE Goal
    BY <2>1, <2>2, RequestHandedOver
  <2> QED
    BY <1>4, <2>2 DEF NodeRpcCallReq, HandleRequest
<1>5. CASE ClientRpcCallReq(m) \/ ClientRuns(m)
  <2>1. /\ m.hop \in {"toServer", "task"} /\ m.on \in Conns /\ m.stack \in Stacks /\ Way(m)
    BY <1>1, <1>5, MessageFacts
       DEF ClientRpcCallReq, ClientRuns, LinkHops, RouteInv, StackLeadsHome
  <2> DEFINE hop == IF m.hop = "task" THEN "fromServer" ELSE "task"
             new == Msg(hop, m.r, m.on, m.stack)
  <2>2. /\ new \in Messages /\ new.hop = hop /\ new.r = m.r /\ new.on = m.on
        /\ new.stack = m.stack
    BY <1>1, <2>1, MessageTypes
  <2>3. Way(new)
    BY <2>1, <2>2 DEF Way
  <2>4. Follows(m, new)
    BY <2>1, <2>2, <2>3 DEF Follows, Answered
  <2>5. CASE ClientRpcCallReq(m)
    BY <2>2, <2>4, <2>5 DEF Passes, ClientRpcCallReq
  <2>6. CASE ClientRuns(m)
    BY <2>2, <2>4, <2>6, BecomesIs DEF Passes, ClientRuns
  <2> QED
    BY <1>5, <2>5, <2>6
<1>6. CASE AgentRpcCallResp(m)
  <2>1. /\ m.hop = "fromServer" /\ m.on \in Conns /\ m.stack \in Stacks /\ Way(m)
        /\ NodeOf(m.on) \in Nodes
    BY <1>1, <1>6, MessageFacts, DispatchAssumption
       DEF AgentRpcCallResp, LinkHops, RouteInv, StackLeadsHome, NodeOf
  <2>2. CASE Len(m.stack) = 1
    <3>1. GetTopStack(m.stack).type = "agent" /\ m.stack # <<>>
      BY <2>1, <2>2 DEF GetTopStack, Way
    <3> QED
      BY <1>6, <2>1, <3>1, ResponseHandedOver DEF AgentRpcCallResp
  <2>3. CASE Len(m.stack) = 2
    <3> DEFINE home == Home[Source[m.r]]
               s == PopStack(m.stack)
               new == Msg("back", m.r, <<NodeOf(m.on), home>>, s)
    <3>1. home \in Nodes /\ GetTopStack(m.stack) = GenNodeCaller(home) /\ m.stack # <<>>
      BY <1>1, <2>1, <2>3, Popped, DispatchAssumption DEF Way
    <3>2. s \in Stacks /\ Len(s) = 1 /\ s[1] = m.stack[1]
      BY <2>1, <2>3, Popped
    <3> HIDE DEF s
    <3>3. <<NodeOf(m.on), home>> \in Nodes \X Nodes
      BY <2>1, <3>1
    <3>4. /\ new \in Messages /\ new.hop = "back" /\ new.r = m.r
          /\ new.on = <<NodeOf(m.on), home>> /\ new.stack = s
      BY <1>1, <3>2, <3>3, MessageTypes DEF LinkHops
    <3>5. Becomes(m, new)
      BY <1>6, <3>1 DEF AgentRpcCallResp, GenNodeCaller, DispatchRsp, s
    <3> HIDE DEF new
    <3>6. Way(new)
      BY <2>1, <3>2, <3>4, StackLengths DEF Way
    <3>7. Follows(m, new)
      BY <2>1, <3>4, <3>6 DEF Follows, Answered
    <3> QED
      BY <3>5, <3>7, BecomesIs DEF Passes
  <2> QED
    BY <2>1, <2>2, <2>3, StackLengths DEF Way
<1>7. CASE NodeRpcCallResp(m)
  <2>1. m.hop = "back" /\ m.on[2] \in Nodes
    BY <1>1, <1>7, MessageFacts DEF NodeRpcCallResp, LinkHops
  <2> QED
    BY <1>7, <2>1, ResponseHandedOver DEF NodeRpcCallResp, HandleResponse
<1>8. CASE OnRead(m)
  BY <1>8 DEF OnRead
<1> QED
  BY <1>2, <1>3, <1>4, <1>5, <1>6, <1>7, <1>8 DEF Handles

-----------------------------------------------------------------------------
(* A handler of a message leaves connections, agents and nodes alone.      *)
LEMMA HandlerFrame ==
    ASSUME TypeOK, NEW m \in msgs, Handles(m)
    PROVE  /\ UNCHANGED <<mode, sock, cleaning, list, client, listed, own, routes, alive,
                          links, faults>>
           /\ call' \in [Calls -> {"idle", "pending", "reply", "notfound", "failed"}]
           /\ ran' \in [Calls -> Nat] /\ via' \in [Calls -> SUBSET Conns]
           /\ \/ UNCHANGED <<call, ran>>
              \/ /\ m.hop = "task" /\ UNCHANGED call
                 /\ ran' = [ran EXCEPT ![m.r] = @ + 1]
              \/ /\ m.hop = "toCaller" /\ Drops(m) /\ call[m.r] = "pending"
                 /\ UNCHANGED ran /\ call' = [call EXCEPT ![m.r] = m.res]
<1>1. m \in Messages
  BY DEF TypeOK
<1>2. CASE \/ AgentRpcCallReq(m) \/ CallYourSelf(m) \/ NodeRpcCallReq(m) \/ ClientRpcCallReq(m)
           \/ AgentRpcCallResp(m) \/ NodeRpcCallResp(m)
  <2>1. UNCHANGED <<callVars, connVars, nodeVars, faults>>
    BY <1>2 DEF AgentRpcCallReq, CallYourSelf, NodeRpcCallReq, ClientRpcCallReq,
                AgentRpcCallResp, NodeRpcCallResp
  <2> QED
    BY <2>1 DEF callVars, connVars, nodeVars, TypeOK
<1>3. CASE ClientRuns(m)
  <2>1. m.hop = "task" /\ ran' = [ran EXCEPT ![m.r] = @ + 1]
    BY <1>3 DEF ClientRuns
  <2>2. UNCHANGED <<call, mode, via, connVars, nodeVars, faults>>
    BY <1>3 DEF ClientRuns
  <2>3. ran' \in [Calls -> Nat]
    BY <1>1, <2>1, MessageFacts DEF TypeOK
  <2> QED
    BY <2>1, <2>2, <2>3 DEF connVars, nodeVars, TypeOK
<1>4. CASE OnRead(m)
  <2>1. m.hop = "toCaller" /\ Drops(m) /\ UNCHANGED <<ran, mode, connVars, nodeVars, faults>>
    BY <1>4 DEF OnRead
  <2>2. m.res \in {"reply", "notfound"}
    BY <1>1, <2>1, MessageFacts
  <2>3. \/ UNCHANGED <<call, via>>
        \/ /\ call[m.r] = "pending" /\ call' = [call EXCEPT ![m.r] = m.res]
           /\ via' = [via EXCEPT ![m.r] = {}]
    BY <1>4 DEF OnRead
  <2>4. /\ call' \in [Calls -> {"idle", "pending", "reply", "notfound", "failed"}]
        /\ via' \in [Calls -> SUBSET Conns]
    BY <2>2, <2>3 DEF TypeOK
  <2> QED
    BY <2>1, <2>3, <2>4 DEF connVars, nodeVars, TypeOK
<1> QED
  BY <1>2, <1>3, <1>4 DEF Handles

(* Closing connections takes what is under way on them.                    *)
LEMMA ClosesSafely ==
    ASSUME TypeOK, NEW K \in SUBSET Conns, Closes(K)
    PROVE  /\ sock' \in [Conns -> {"new", "open", "closed"}]
           /\ msgs' \subseteq msgs
           /\ UNCHANGED links => \A m \in msgs' : m.hop # "task" => Up(m)'
           /\ cleaning' \subseteq {k \in Conns : sock'[k] = "closed"}
           /\ \A k \in Conns : sock'[k] = "new" <=> sock[k] = "new"
           /\ \A k \in Conns : sock[k] = "closed" => sock'[k] = "closed"
<1> DEFINE live == {k \in K : sock[k] = "open"}
<1>1. /\ sock' = [k \in Conns |-> IF k \in live THEN "closed" ELSE sock[k]]
      /\ msgs' = {m \in msgs : ~OnConn(m, live)}
      /\ cleaning' = cleaning \cup live
  BY DEF Closes
<1>2. ASSUME UNCHANGED links, NEW m \in msgs', m.hop # "task" PROVE Up(m)'
  <2>1. m \in Messages /\ Up(m) /\ ~OnConn(m, live)
    BY <1>1, <1>2 DEF TypeOK
  <2>2. m.hop \in LinkHops \cup {"self"} => Up(m)'
    BY <1>2, <2>1 DEF Up, LinkHops
  <2>3. m.hop \notin LinkHops \cup {"self"} => m.on \in Conns /\ m.on \notin live
    BY <1>2, <2>1, MessageFacts DEF OnConn
  <2>4. m.hop \notin LinkHops \cup {"self"} => Up(m)'
    BY <1>1, <2>1, <2>3 DEF Up
  <2> QED
    BY <2>2, <2>4
<1>3. sock' \in [Conns -> {"new", "open", "closed"}]
  BY <1>1 DEF TypeOK
<1>4. \A k \in Conns : /\ sock'[k] = "new" <=> sock[k] = "new"
                       /\ sock[k] = "closed" => sock'[k] = "closed"
                       /\ k \in live => sock'[k] = "closed"
  BY <1>1 DEF TypeOK
<1>5. cleaning' \subseteq {k \in Conns : sock'[k] = "closed"}
  BY <1>1, <1>4 DEF TypeOK
<1> QED
  BY <1>1, <1>2, <1>3, <1>4, <1>5

LEMMA RouteInit == Init => RouteInv
<1> SUFFICES ASSUME Init PROVE RouteInv
  OBVIOUS
<1> USE DispatchAssumption DEF Init
<1>1. list \in [Clients -> SUBSET Conns]
  OBVIOUS
<1>2. \A c \in Clients : \A k \in list[c] : Owner[k] = c /\ sock[k] # "new"
  OBVIOUS
<1>3. /\ listed \in [Nodes -> SUBSET Serves]
      /\ \A n \in Nodes : \A c \in listed[n] : Home[c] = n
  OBVIOUS
<1>4. routes \in [Nodes -> SUBSET Nodes] /\ own \subseteq Nodes
  OBVIOUS
<1>5. faults \in 0..MaxFaults
  OBVIOUS
<1>6. TypeOK
  BY <1>1, <1>2, <1>3, <1>4, <1>5 DEF TypeOK
<1> QED
  BY <1>3, <1>6 DEF RouteInv, Placed, StackLeadsHome

(* Nothing is lost while no connection and no link goes.                   *)
LEMMA UpKept ==
    ASSUME \A k \in Conns : sock[k] = "open" => sock'[k] = "open", links \subseteq links',
           NEW m \in Messages, Up(m)
    PROVE  Up(m)'
<1>1. CASE m.hop = "self"
  BY <1>1 DEF Up
<1>2. CASE m.hop \in LinkHops
  BY <1>2 DEF Up, LinkHops
<1>3. CASE m.hop \notin LinkHops /\ m.hop # "self"
  BY <1>3, MessageFacts DEF Up
<1> QED
  BY <1>1, <1>2, <1>3

LEMMA UpStays ==
    ASSUME TypeOK, UNCHANGED <<sock, links>>
    PROVE  /\ \A m \in msgs : m.hop # "task" => Up(m)'
           /\ \A m \in Messages : Up(m) => Up(m)'
BY UpKept DEF TypeOK

LEMMA RouteStep == RouteInv /\ [Next]_vars => RouteInv'
<1> SUFFICES ASSUME RouteInv, [Next]_vars PROVE RouteInv'
  OBVIOUS
<1> USE DispatchAssumption
<1>1. CASE UNCHANGED vars
  <2>1. TypeOK'
    BY <1>1, UpStays DEF vars, callVars, connVars, nodeVars, RouteInv, TypeOK
  <2> QED
    BY <1>1, <2>1 DEF vars, connVars, nodeVars, RouteInv, Placed, StackLeadsHome
<1>2. ASSUME NEW m \in msgs, Handles(m) PROVE RouteInv'
  <2>1. /\ UNCHANGED <<mode, sock, cleaning, list, client, listed, own, routes, alive,
                       links, faults>>
        /\ call' \in [Calls -> {"idle", "pending", "reply", "notfound", "failed"}]
        /\ ran' \in [Calls -> Nat] /\ via' \in [Calls -> SUBSET Conns]
    BY <1>2, HandlerFrame DEF RouteInv
  <2>2. \A o \in msgs' : \/ o \in msgs
                         \/ /\ o \in Messages /\ (o.hop # "task" => Up(o))
                            /\ o.hop # "toAgent" /\ (o.hop # "toCaller" => Way(o))
    BY <1>2, Handled DEF Drops, Passes, Follows
  <2>3. msgs' \subseteq Messages /\ \A o \in msgs' : o.hop # "task" => Up(o)'
    BY <2>1, <2>2, UpStays DEF RouteInv, TypeOK
  <2>4. TypeOK'
    BY <2>1, <2>3 DEF RouteInv, TypeOK
  <2>5. Placed' /\ StackLeadsHome'
    BY <2>1, <2>2 DEF RouteInv, Placed, StackLeadsHome
  <2> QED
    BY <2>4, <2>5 DEF RouteInv
<1>3. ASSUME NEW r \in Calls, NEW k \in Conns, SyncCall(r, k) PROVE RouteInv'
  <2>1. /\ UNCHANGED <<ran, mode, sock, list, client, listed, own, routes, alive, links, faults>>
        /\ call' \in [Calls -> {"idle", "pending", "reply", "notfound", "failed"}]
        /\ via' \in [Calls -> SUBSET Conns] /\ Owner[k] = Source[r]
    BY <1>3 DEF SyncCall, nodeVars, RouteInv, TypeOK
  <2>2. CASE sock[k] = "open"
    <3>1. msgs' = msgs \cup {Req(r, k)} /\ UNCHANGED cleaning
      BY <1>3, <2>2 DEF SyncCall
    <3>2. /\ Req(r, k) \in Messages /\ Req(r, k).hop = "toAgent"
          /\ Req(r, k).r = r /\ Req(r, k).on = k
      BY MessageTypes
    <3>3. msgs' \subseteq Messages /\ \A o \in msgs' : o.hop # "task" => Up(o)'
      <4>1. Up(Req(r, k))
        BY <2>2, <3>2 DEF Up, LinkHops
      <4> QED
        BY <2>1, <3>1, <3>2, <4>1, UpStays DEF RouteInv, TypeOK
    <3>4. TypeOK'
      BY <2>1, <3>1, <3>3 DEF RouteInv, TypeOK
    <3>5. Placed' /\ StackLeadsHome'
      BY <2>1, <3>1, <3>2 DEF RouteInv, Placed, StackLeadsHome
    <3> QED
      BY <3>4, <3>5 DEF RouteInv
  <2>3. CASE sock[k] # "open"
    <3>1. UNCHANGED msgs /\ cleaning' = cleaning \cup {k} /\ sock[k] = "closed"
      BY <1>3, <2>3 DEF SyncCall, RouteInv, TypeOK
    <3>2. TypeOK'
      BY <2>1, <3>1, UpStays DEF RouteInv, TypeOK
    <3> QED
      BY <2>1, <3>1, <3>2 DEF RouteInv, Placed, StackLeadsHome
  <2> QED
    BY <2>2, <2>3
<1>4. ASSUME NEW r \in Calls, Timeout(r) PROVE RouteInv'
  <2>1. TypeOK'
    BY <1>4, UpStays DEF Timeout, connVars, nodeVars, RouteInv, TypeOK
  <2> QED
    BY <1>4, <2>1 DEF Timeout, connVars, nodeVars, RouteInv, Placed, StackLeadsHome
<1>5. ASSUME NEW k \in Conns, cleanAllRpcContext(k) PROVE RouteInv'
  <2>1. call' \in [Calls -> {"idle", "pending", "reply", "notfound", "failed"}]
    BY <1>5 DEF cleanAllRpcContext, RouteInv, TypeOK
  <2>2. TypeOK'
    BY <1>5, <2>1, UpStays DEF cleanAllRpcContext, nodeVars, RouteInv, TypeOK
  <2> QED
    BY <1>5, <2>2 DEF cleanAllRpcContext, nodeVars, RouteInv, Placed, StackLeadsHome
<1>6. ASSUME NEW r \in Calls, clearConnect(r) PROVE RouteInv'
  <2>1. /\ via' \in [Calls -> SUBSET Conns] /\ Closes(via[r]) /\ via[r] \in SUBSET Conns
        /\ UNCHANGED <<call, ran, mode, list, client, listed, own, routes, alive, links, faults>>
    BY <1>6 DEF clearConnect, nodeVars, RouteInv, TypeOK
  <2>2. /\ sock' \in [Conns -> {"new", "open", "closed"}] /\ msgs' \subseteq msgs
        /\ \A m \in msgs' : m.hop # "task" => Up(m)'
        /\ cleaning' \subseteq {k \in Conns : sock'[k] = "closed"}
        /\ \A k \in Conns : sock'[k] = "new" <=> sock[k] = "new"
    BY <2>1, ClosesSafely DEF RouteInv
  <2>3. TypeOK'
    BY <2>1, <2>2 DEF RouteInv, TypeOK
  <2> QED
    BY <2>1, <2>2, <2>3 DEF RouteInv, Placed, StackLeadsHome
<1>7. ASSUME NEW k \in Conns, Break(k) PROVE RouteInv'
  <2>1. /\ Closes({k}) /\ faults' \in 0..MaxFaults
        /\ UNCHANGED <<call, ran, mode, via, list, client, listed, own, routes, alive, links>>
    BY <1>7 DEF Break, Faulty, callVars, nodeVars, RouteInv, TypeOK
  <2>2. /\ sock' \in [Conns -> {"new", "open", "closed"}] /\ msgs' \subseteq msgs
        /\ \A m \in msgs' : m.hop # "task" => Up(m)'
        /\ cleaning' \subseteq {j \in Conns : sock'[j] = "closed"}
        /\ \A j \in Conns : sock'[j] = "new" <=> sock[j] = "new"
    BY <2>1, ClosesSafely DEF RouteInv
  <2>3. TypeOK'
    BY <2>1, <2>2 DEF RouteInv, TypeOK
  <2> QED
    BY <2>1, <2>2, <2>3 DEF RouteInv, Placed, StackLeadsHome
<1>8. ASSUME NEW k \in Conns, Register(k) PROVE RouteInv'
  <2> DEFINE c == Owner[k]
             n == Home[c]
  <2>1. /\ UNCHANGED <<call, ran, mode, via, msgs, cleaning, alive, links, faults>>
        /\ sock[k] = "new" /\ sock' = [sock EXCEPT ![k] = "open"]
        /\ list' = [list EXCEPT ![c] = @ \cup {k}]
        /\ client' = [client EXCEPT ![c] = "alive"]
        /\ listed' = [listed EXCEPT ![n] = @ \cup ({c} \cap Serves)]
        /\ own' \in {own, own \cup {n}}
        /\ routes' \in {routes, [routes EXCEPT ![n] = @ \cup {n}]}
    BY <1>8 DEF Register, callVars
  <2>2. c \in Clients /\ n \in Nodes
    OBVIOUS
  <2>3. \A m \in msgs' : m.hop # "task" => Up(m)'
    BY <2>1, UpKept DEF RouteInv, TypeOK
  <2>4. \A d \in Clients : \A j \in list'[d] : Owner[j] = d /\ sock'[j] # "new"
    BY <2>1, <2>2 DEF RouteInv, TypeOK
  <2>5. cleaning' \subseteq {j \in Conns : sock'[j] = "closed"}
    BY <2>1 DEF RouteInv, TypeOK
  <2>6. /\ listed' \in [Nodes -> SUBSET Serves] /\ own' \subseteq Nodes
        /\ routes' \in [Nodes -> SUBSET Nodes] /\ list' \in [Clients -> SUBSET Conns]
        /\ sock' \in [Conns -> {"new", "open", "closed"}]
        /\ client' \in [Clients -> {"absent", "alive", "dead"}]
    BY <2>1, <2>2 DEF RouteInv, TypeOK
  <2>7. TypeOK'
    BY <2>1, <2>3, <2>4, <2>5, <2>6 DEF RouteInv, TypeOK
  <2>8. Placed' /\ StackLeadsHome'
    BY <2>1, <2>2 DEF RouteInv, TypeOK, Placed, StackLeadsHome
  <2> QED
    BY <2>7, <2>8 DEF RouteInv
<1>9. ASSUME NEW c \in Clients, markDead(c),
             UNCHANGED <<call, ran, mode, via, listed, own, routes, alive, links>>,
             faults' \in 0..MaxFaults
      PROVE  RouteInv'
  <2>1. /\ Closes(list[c]) /\ list[c] \in SUBSET Conns
        /\ list' = [list EXCEPT ![c] = {}] /\ client' = [client EXCEPT ![c] = "dead"]
    BY <1>9 DEF markDead, RouteInv, TypeOK
  <2>2. /\ sock' \in [Conns -> {"new", "open", "closed"}] /\ msgs' \subseteq msgs
        /\ \A m \in msgs' : m.hop # "task" => Up(m)'
        /\ cleaning' \subseteq {j \in Conns : sock'[j] = "closed"}
        /\ \A j \in Conns : sock'[j] = "new" <=> sock[j] = "new"
    BY <1>9, <2>1, ClosesSafely DEF RouteInv
  <2>3. TypeOK'
    BY <1>9, <2>1, <2>2 DEF RouteInv, TypeOK
  <2> QED
    BY <1>9, <2>2, <2>3 DEF RouteInv, Placed, StackLeadsHome
<1>10. ASSUME NEW k \in Conns, OnCloseConnection(k) PROVE RouteInv'
  <2>1. CASE markDead(Owner[k])
    BY <1>10, <1>9, <2>1 DEF OnCloseConnection, callVars, nodeVars, RouteInv, TypeOK
  <2>2. CASE ~markDead(Owner[k])
    <3>1. /\ list' = [list EXCEPT ![Owner[k]] = @ \ {k}]
          /\ UNCHANGED <<call, ran, mode, via, client, sock, msgs, cleaning, listed, own,
                         routes, alive, links, faults>>
      BY <1>10, <2>2 DEF OnCloseConnection, callVars, nodeVars
    <3>2. TypeOK'
      BY <3>1, UpStays DEF RouteInv, TypeOK
    <3> QED
      BY <3>1, <3>2 DEF RouteInv, Placed, StackLeadsHome
  <2> QED
    BY <2>1, <2>2
<1>11. ASSUME NEW c \in Clients, Leave(c) PROVE RouteInv'
  BY <1>11, <1>9 DEF Leave, Faulty, callVars, nodeVars, RouteInv, TypeOK
<1>12. ASSUME NEW c \in Clients, Forget(c) PROVE RouteInv'
  <2>1. /\ listed' = [listed EXCEPT ![Home[c]] = @ \ {c}] /\ own' \in {own, own \ {Home[c]}}
        /\ client' = [client EXCEPT ![c] = "absent"]
        /\ UNCHANGED <<call, ran, mode, via, msgs, sock, cleaning, list, routes, alive,
                       links, faults>>
    BY <1>12 DEF Forget, callVars
  <2>2. TypeOK'
    BY <2>1, UpStays DEF RouteInv, TypeOK
  <2> QED
    BY <2>1, <2>2 DEF RouteInv, TypeOK, Placed, StackLeadsHome
<1>13. ASSUME NEW n \in Nodes, NEW x \in Nodes, LearnRoute(n, x) \/ LoseRoute(n, x) PROVE RouteInv'
  <2>1. /\ routes' \in [Nodes -> SUBSET Nodes]
        /\ UNCHANGED <<call, ran, mode, via, msgs, sock, cleaning, list, client, listed, own,
                       alive, links, faults>>
    BY <1>13 DEF LearnRoute, LoseRoute, callVars, connVars, RouteInv, TypeOK
  <2>2. TypeOK'
    BY <2>1, UpStays DEF RouteInv, TypeOK
  <2> QED
    BY <2>1, <2>2 DEF RouteInv, Placed, StackLeadsHome
<1>14. ASSUME NEW n \in Nodes, NEW x \in Nodes, Link(n, x) PROVE RouteInv'
  <2>1. /\ links' = links \cup {{n, x}}
        /\ UNCHANGED <<call, ran, mode, via, msgs, sock, cleaning, list, client, listed, own,
                       routes, alive, faults>>
    BY <1>14 DEF Link, callVars, connVars
  <2>2. \A m \in msgs' : m.hop # "task" => Up(m)'
    BY <2>1, UpKept DEF RouteInv, TypeOK
  <2>3. TypeOK'
    BY <2>1, <2>2 DEF RouteInv, TypeOK
  <2> QED
    BY <2>1, <2>3 DEF RouteInv, Placed, StackLeadsHome
<1>15. ASSUME NEW n \in Nodes, NEW x \in Nodes, Unlink(n, x) PROVE RouteInv'
  <2>1. /\ links' = links \ {{n, x}} /\ faults' \in 0..MaxFaults
        /\ msgs' = {m \in msgs : m.hop \notin LinkHops \/ {m.on[1], m.on[2]} # {n, x}}
        /\ UNCHANGED <<call, ran, mode, via, sock, cleaning, list, client, listed, own,
                       routes, alive>>
    BY <1>15 DEF Unlink, Faulty, callVars, connVars, RouteInv, TypeOK
  <2>2. ASSUME NEW m \in msgs', m.hop # "task" PROVE Up(m)'
    <3>1. m \in msgs /\ m \in Messages /\ Up(m)
      BY <2>1, <2>2 DEF RouteInv, TypeOK
    <3>2. CASE m.hop \in LinkHops
      BY <2>1, <3>1, <3>2 DEF Up, LinkHops
    <3>3. CASE m.hop \notin LinkHops
      BY <2>1, <3>1, <3>3 DEF Up
    <3> QED
      BY <3>2, <3>3
  <2>3. msgs' \subseteq msgs /\ links' \subseteq links
    BY <2>1
  <2>4. TypeOK'
    <3>1. msgs' \subseteq Messages /\ links' \subseteq {{p, q} : p \in Nodes, q \in Nodes}
      BY <2>3 DEF RouteInv, TypeOK
    <3>2. UNCHANGED <<call, ran, mode, via, sock, cleaning, list, client, listed, own,
                      routes, alive>>
      BY <2>1
    <3>3. faults' \in 0..MaxFaults
      BY <2>1
    <3> QED
      BY <2>2, <3>1, <3>2, <3>3 DEF RouteInv, TypeOK
  <2> QED
    BY <2>1, <2>3, <2>4 DEF RouteInv, Placed, StackLeadsHome
<1>16. ASSUME NEW n \in Nodes, Stop(n) PROVE RouteInv'
  <2>1. /\ alive' \subseteq Nodes /\ routes' \in [Nodes -> SUBSET Nodes]
        /\ faults' \in 0..MaxFaults
        /\ UNCHANGED <<call, ran, mode, via, msgs, sock, cleaning, list, client, listed, own,
                       links>>
    BY <1>16 DEF Stop, Faulty, callVars, connVars, RouteInv, TypeOK
  <2>2. TypeOK'
    BY <2>1, UpStays DEF RouteInv, TypeOK
  <2> QED
    BY <2>1, <2>2 DEF RouteInv, Placed, StackLeadsHome
<1> QED
  BY <1>1, <1>2, <1>3, <1>4, <1>5, <1>6, <1>7, <1>8, <1>10, <1>11, <1>12, <1>13, <1>14,
     <1>15, <1>16 DEF Next

(* The invariant holds in every reachable state.                           *)
LEMMA RouteInvariant == Spec => []RouteInv
BY RouteInit, RouteStep, PTL DEF Spec

\* Types hold, and what is under way on a connection or a link is there only
\* while that is up, whatever closes, leaves or stops.
THEOREM TypeInvariant == Spec => []TypeOK
<1>1. RouteInv => TypeOK
  BY DEF RouteInv
<1> QED
  BY <1>1, RouteInvariant, PTL

\* The stack of callers a request or response carries leads home from wherever
\* it is, though nobody on the way keeps a record of the call.
THEOREM WayHome == Spec => []StackLeadsHome
<1>1. RouteInv => StackLeadsHome
  BY DEF RouteInv
<1> QED
  BY <1>1, RouteInvariant, PTL

-----------------------------------------------------------------------------
(* A call under way has one message, which is an answer exactly when the   *)
(* handler has run, once; a call that has its answer has none.             *)
CallInv ==
  /\ \A m \in msgs : /\ call[m.r] \in {"pending", "failed"}
                     /\ ran[m.r] = IF Answered(m) THEN 1 ELSE 0
  /\ \A m, o \in msgs : m.r = o.r => m = o
  /\ \A r \in Calls : call[r] = "idle" => ran[r] = 0

(* What is neither the start of a call nor the handling of a message may   *)
(* lose messages and fail calls that wait, and does nothing else to them.  *)
OnlyFails ==
  /\ msgs' \subseteq msgs /\ UNCHANGED ran
  /\ \E R \in SUBSET {r \in Calls : call[r] = "pending"} :
       call' = [r \in Calls |-> IF r \in R THEN "failed" ELSE call[r]]

LEMMA OtherSteps ==
    ASSUME RouteInv, [Next]_vars,
           ~\E r \in Calls, k \in Conns : SyncCall(r, k), ~\E m \in msgs : Handles(m)
    PROVE  OnlyFails
<1>1. ASSUME msgs' \subseteq msgs, UNCHANGED <<call, ran>> PROVE OnlyFails
  <2> DEFINE R == {}
  <2>1. call' = [r \in Calls |-> IF r \in R THEN "failed" ELSE call[r]]
    BY <1>1 DEF RouteInv, TypeOK
  <2>2. R \in SUBSET {r \in Calls : call[r] = "pending"}
    OBVIOUS
  <2> HIDE DEF R
  <2> QED
    BY <1>1, <2>1, <2>2 DEF OnlyFails
<1>2. CASE UNCHANGED vars
  BY <1>1, <1>2 DEF vars, callVars
<1>3. ASSUME NEW r \in Calls, Timeout(r) PROVE OnlyFails
  <2>1. call[r] = "pending" /\ UNCHANGED <<ran, msgs>>
    BY <1>3 DEF Timeout
  <2> DEFINE R == {r}
  <2>2. call' = [x \in Calls |-> IF x = r THEN "failed" ELSE call[x]]
    <3>1. call' = [call EXCEPT ![r] = "failed"] /\ DOMAIN call = Calls
      BY <1>3 DEF Timeout, RouteInv, TypeOK
    <3> QED
      BY <3>1, Zenon
  <2>3. R \in SUBSET {x \in Calls : call[x] = "pending"} /\ \A x : x \in R <=> x = r
    BY <2>1
  <2> HIDE DEF R
  <2>4. call' = [x \in Calls |-> IF x \in R THEN "failed" ELSE call[x]]
    BY <2>2, <2>3
  <2> QED
    BY <2>1, <2>3, <2>4 DEF OnlyFails
<1>4. ASSUME NEW k \in Conns, cleanAllRpcContext(k) PROVE OnlyFails
  <2> DEFINE R == {x \in Calls : call[x] = "pending" /\ Source[x] = Owner[k]}
  <2>1. call' = [x \in Calls |-> IF x \in R THEN "failed" ELSE call[x]]
    BY <1>4 DEF cleanAllRpcContext
  <2> QED
    BY <1>4, <2>1 DEF cleanAllRpcContext, OnlyFails
<1>5. ASSUME NEW K, Closes(K), UNCHANGED <<call, ran>> PROVE OnlyFails
  <2>1. msgs' \subseteq msgs
    BY <1>5 DEF Closes
  <2> QED
    BY <1>1, <1>5, <2>1
<1>6. ASSUME NEW r \in Calls, clearConnect(r) PROVE OnlyFails
  BY <1>5, <1>6 DEF clearConnect
<1>7. ASSUME NEW k \in Conns, Break(k) \/ Register(k) \/ OnCloseConnection(k) PROVE OnlyFails
  BY <1>1, <1>5, <1>7 DEF Break, Register, OnCloseConnection, markDead, callVars
<1>8. ASSUME NEW c \in Clients, Leave(c) \/ Forget(c) PROVE OnlyFails
  BY <1>1, <1>5, <1>8 DEF Leave, Forget, markDead, callVars
<1>9. ASSUME NEW n \in Nodes, NEW x \in Nodes,
             LearnRoute(n, x) \/ LoseRoute(n, x) \/ Link(n, x) \/ Unlink(n, x) \/ Stop(n)
      PROVE  OnlyFails
  <2>1. msgs' \subseteq msgs
    BY <1>9 DEF LearnRoute, LoseRoute, Link, Unlink, Stop
  <2>2. UNCHANGED <<call, ran>>
    BY <1>9 DEF LearnRoute, LoseRoute, Link, Unlink, Stop, callVars
  <2> QED
    BY <1>1, <2>1, <2>2
<1> QED
  BY <1>2, <1>3, <1>4, <1>6, <1>7, <1>8, <1>9 DEF Next

LEMMA CallStep == RouteInv /\ CallInv /\ [Next]_vars => CallInv' /\ [Service!Next]_(Service!vars)
<1> SUFFICES ASSUME RouteInv, CallInv, [Next]_vars
             PROVE  CallInv' /\ (Service!Next \/ UNCHANGED <<call, ran>>)
  BY DEF Service!vars
<1>1. ASSUME NEW r \in Calls, NEW k \in Conns, SyncCall(r, k)
      PROVE  CallInv' /\ Service!Next
  <2>1. /\ call[r] = "idle" /\ UNCHANGED ran /\ call' = [call EXCEPT ![r] = "pending"]
        /\ msgs' \in {msgs, msgs \cup {Req(r, k)}}
    BY <1>1 DEF SyncCall
  <2>2. \A m \in msgs : m.r \in Calls /\ m.r # r
    BY <2>1, MessageFacts DEF CallInv, RouteInv, TypeOK
  <2>3. Req(r, k).r = r /\ ~Answered(Req(r, k))
    BY MessageTypes DEF Answered
  <2>4. CallInv'
    BY <2>1, <2>2, <2>3 DEF CallInv, Answered, RouteInv, TypeOK
  <2>5. Service!Begin(r)
    BY <2>1 DEF Service!Begin
  <2> QED
    BY <2>4, <2>5 DEF Service!Next
<1>2. ASSUME NEW m \in msgs, Handles(m)
      PROVE  CallInv' /\ (Service!Next \/ UNCHANGED <<call, ran>>)
  <2>1. m.r \in Calls /\ (m.hop # "toCaller" \/ m.res \in {"reply", "notfound"})
    BY MessageFacts DEF RouteInv, TypeOK
  <2>2. m.r \in Calls
    BY MessageFacts DEF RouteInv, TypeOK
  <2>3. /\ call[m.r] \in {"pending", "failed"} /\ ran[m.r] = IF Answered(m) THEN 1 ELSE 0
        /\ \A o \in msgs \ {m} : o.r # m.r /\ o.r \in Calls
    BY MessageFacts DEF CallInv, RouteInv, TypeOK
  <2>4. \/ msgs' = msgs \ {m}
        \/ \E new : Follows(m, new) /\ msgs' = (msgs \ {m}) \cup {new}
    BY <1>2, Handled DEF Drops, Passes
  <2>5. CASE UNCHANGED <<call, ran>>
    <3>1. m.hop # "task"
      BY <1>2, <2>2, <2>5
         DEF Handles, AgentRpcCallReq, CallYourSelf, NodeRpcCallReq, ClientRpcCallReq,
             ClientRuns, AgentRpcCallResp, NodeRpcCallResp, OnRead, RouteInv, TypeOK
    <3>2. CallInv'
      BY <2>3, <2>4, <2>5, <3>1 DEF CallInv, Follows, Answered
    <3> QED
      BY <2>5, <3>2
  <2>6. CASE m.hop = "task" /\ UNCHANGED call /\ ran' = [ran EXCEPT ![m.r] = @ + 1]
    <3>a. ran[m.r] = 0
      BY <2>3, <2>6 DEF Answered
    <3>1. ran' = [ran EXCEPT ![m.r] = 1] /\ ran'[m.r] = 1
      BY <2>2, <2>6, <3>a DEF RouteInv, TypeOK
    <3>2. \A r \in Calls : r # m.r => ran'[r] = ran[r]
      BY <2>6 DEF RouteInv, TypeOK
    <3>3. CallInv'
      BY <2>2, <2>3, <2>4, <2>6, <3>a, <3>1, <3>2 DEF CallInv, Follows, Answered
    <3>4. Service!Run(m.r)
      BY <2>3, <2>6, <3>a, <3>1 DEF Service!Run
    <3> QED
      BY <2>2, <3>3, <3>4 DEF Service!Next
  <2>7. CASE /\ m.hop = "toCaller" /\ Drops(m) /\ call[m.r] = "pending"
             /\ UNCHANGED ran /\ call' = [call EXCEPT ![m.r] = m.res]
    <3>1. m.res \in {"reply", "notfound"}
      BY <2>7, MessageFacts DEF RouteInv, TypeOK
    <3>2. CallInv'
      BY <2>2, <2>3, <2>7, <3>1 DEF CallInv, Drops, Answered, RouteInv, TypeOK
    <3>3. Service!End(m.r, m.res)
      BY <2>3, <2>7, <3>1 DEF Service!End, Answered
    <3>4. m.res \in Service!Outcomes
      BY <3>1 DEF Service!Outcomes
    <3> QED
      BY <2>2, <3>2, <3>3, <3>4 DEF Service!Next, Service!Ends
  <2> QED
    BY <1>2, <2>5, <2>6, <2>7, HandlerFrame DEF RouteInv
<1>3. CASE OnlyFails
  <2>1. \A r \in Calls : call'[r] = call[r] \/ (call[r] = "pending" /\ call'[r] = "failed")
    BY <1>3 DEF OnlyFails
  <2>2. CallInv'
    BY <1>3, <2>1, MessageFacts DEF OnlyFails, CallInv, Answered, RouteInv, TypeOK
  <2>3. Service!FailMany
    BY <1>3 DEF OnlyFails, Service!FailMany
  <2> QED
    BY <2>2, <2>3 DEF Service!Next
<1> QED
  BY <1>1, <1>2, <1>3, OtherSteps

(* The invariants together hold in every reachable state.                  *)
LEMMA CallInvariant == Spec => [](RouteInv /\ CallInv)
<1>1. Init => RouteInv /\ CallInv
  BY RouteInit DEF Init, CallInv
<1>2. RouteInv /\ CallInv /\ [Next]_vars => (RouteInv /\ CallInv)'
  BY RouteStep, CallStep
<1> QED
  BY <1>1, <1>2, PTL DEF Spec

\* The agents, nodes and clients keep the promises of CallService to the caller,
\* step by step: a call ends once, a handler runs at most once for it and never
\* after ENTRY_NOT_FOUND, an answer is the answer of a handler that ran.  (That
\* every call ends is the fairness part of ImplementsService, left to TLC.)
THEOREM KeepsServicePromises == Spec => Service!Init /\ [][Service!Next]_(Service!vars)
<1>1. Init => Service!Init
  BY DEF Init, Service!Init
<1>2. RouteInv /\ CallInv /\ [Next]_vars => [Service!Next]_(Service!vars)
  BY CallStep
<1> QED
  BY <1>1, <1>2, CallInvariant, PTL DEF Spec

-----------------------------------------------------------------------------
(* As long as nothing was closed, left or stopped and no call has failed,  *)
(* connections stay, the clients the agents list are there, and routes     *)
(* lead over links to nodes with such clients.                             *)
Quiet == faults = 0 /\ \A x \in Calls : call[x] # "failed"

Intact ==
  /\ \A k \in Conns : sock[k] # "closed"
  /\ \A k \in Conns : sock[k] = "open" => k \in list[Owner[k]] /\ client[Owner[k]] = "alive"
  /\ \A c \in Clients : client[c] # "dead"
  /\ \A n \in Nodes : \A c \in listed[n] : list[c] # {}
  /\ \A n \in own : listed[n] # {}
  /\ \A n \in Nodes : routes[n] \subseteq own
  /\ \A n \in Nodes : \A x \in routes[n] : x # n => {n, x} \in links
  /\ \A r \in Calls : call[r] # "idle" =>
       \E k \in Conns : Owner[k] = Source[r] /\ sock[k] = "open"

(* What a message still needs on its way is there.                         *)
Travels(m) ==
  /\ m.hop \in {"self", "task"} => sock[m.on] = "open"
  /\ m.hop = "self" => Len(m.stack) = 1
  /\ m.hop = "fwd" => m.on[1] = Home[Source[m.r]] /\ listed[m.on[2]] # {}
  /\ m.hop \in {"toServer", "task", "fromServer"} /\ Len(m.stack) = 2 =>
       {NodeOf(m.on), Home[Source[m.r]]} \in links

NotLost ==
  \A r \in Calls : call[r] = "pending" /\ mode[r] # "DEFAULT" => \E m \in msgs : m.r = r

QuietInv == Quiet => Intact /\ (\A m \in msgs : Travels(m)) /\ NotLost

Goes(m, new) == new.r = m.r /\ msgs' = (msgs \ {m}) \cup {new} /\ Travels(new)

LEMMA BecomesUp ==
    ASSUME NEW m, NEW new, Becomes(m, new), Up(new)
    PROVE  msgs' = (msgs \ {m}) \cup {new}
BY DEF Becomes

(* The client on top of the stack is there to take the answer.             *)
LEMMA QuietResponse ==
    ASSUME RouteInv, CallInv, Intact, NEW m \in msgs, m.hop \in {"fromServer", "back"},
           NEW n \in Nodes, n = Home[Source[m.r]], Len(m.stack) = 1,
           rpcResp(m, n, GetTopStack(m.stack))
    PROVE  \E new : Goes(m, new)
<1> DEFINE caller == GetTopStack(m.stack)
<1>1. m \in Messages /\ Way(m) /\ m.r \in Calls /\ call[m.r] # "idle"
  BY MessageFacts DEF RouteInv, TypeOK, StackLeadsHome, CallInv
<1>2. caller.r = m.r /\ caller.client = Source[m.r]
  BY <1>1 DEF Way, GetTopStack
<1>3. PICK j \in Conns : Owner[j] = Source[m.r] /\ sock[j] = "open"
  BY <1>1 DEF Intact
<1>4. Source[m.r] \in Clients /\ j \in list[Source[m.r]] /\ client[Source[m.r]] = "alive"
  BY <1>1, <1>3, DispatchAssumption DEF Intact
<1>5. PICK k \in getRespConnection(caller) : Becomes(m, Ans(caller.r, k, "reply"))
  BY <1>2, <1>4 DEF rpcResp
<1>6. k \in list[Source[m.r]]
  BY <1>2, <1>5 DEF getRespConnection
<1>7. k \in Conns /\ sock[k] = "open"
  BY <1>4, <1>6 DEF RouteInv, TypeOK, Intact
<1> DEFINE new == Ans(m.r, k, "reply")
<1>8. new \in Messages /\ new.hop = "toCaller" /\ new.r = m.r /\ new.on = k
  BY <1>1, <1>7, MessageTypes
<1>9. Becomes(m, new)
  BY <1>2, <1>5
<1> HIDE DEF new
<1>10. Up(new)
  BY <1>7, <1>8 DEF Up, LinkHops
<1> QED
  BY <1>8, <1>9, <1>10, BecomesUp DEF Goes, Travels

(* A client that the agent lists is there to take the request.             *)
LEMMA QuietRequest ==
    ASSUME RouteInv, CallInv, Intact, NEW m \in msgs, Travels(m), m.hop \in {"self", "fwd"},
           NEW n \in Nodes, m.hop = "fwd" => n = m.on[2],
           NEW c \in listed[n], rpcCall(m, c, m.stack)
    PROVE  \E new : Goes(m, new)
<1>1. m \in Messages /\ m.r \in Calls /\ m.stack \in Stacks
  BY MessageFacts DEF RouteInv, TypeOK
<1>2. c \in Clients /\ Home[c] = n /\ list[c] # {}
  BY DispatchAssumption DEF RouteInv, TypeOK, Placed, Intact
<1>3. \A k \in list[c] : k \in Conns /\ Owner[k] = c /\ sock[k] = "open"
  BY <1>2 DEF RouteInv, TypeOK, Intact
<1>4. client[c] = "alive"
  BY <1>2, <1>3 DEF Intact
<1>5. PICK k \in list[c] : Becomes(m, Msg("toServer", m.r, k, m.stack))
  BY <1>2, <1>4 DEF rpcCall, getConnection
<1> DEFINE new == Msg("toServer", m.r, k, m.stack)
<1>6. new \in Messages /\ new.hop = "toServer" /\ new.r = m.r /\ new.on = k /\ new.stack = m.stack
  BY <1>1, <1>3, MessageTypes
<1>7. Becomes(m, new)
  BY <1>5
<1> HIDE DEF new
<1>8. Up(new)
  BY <1>3, <1>6 DEF Up, LinkHops
<1>9. Travels(new)
  <2>1. CASE m.hop = "self"
    BY <1>6, <2>1 DEF Travels
  <2>2. CASE m.hop = "fwd"
    <3>1. {m.on[1], m.on[2]} \in links
      BY <2>2 DEF RouteInv, TypeOK, Up, LinkHops
    <3>2. NodeOf(k) = n /\ m.on[1] = Home[Source[m.r]] /\ m.on[2] = n
      BY <1>2, <1>3, <2>2 DEF NodeOf, Travels
    <3>3. {n, Home[Source[m.r]]} \in links
      <4>1. {m.on[1], m.on[2]} = {n, Home[Source[m.r]]}
        BY <3>2
      <4> QED
        BY <3>1, <4>1
    <3> QED
      BY <1>6, <3>2, <3>3 DEF Travels
  <2> QED
    BY <2>1, <2>2
<1> QED
  BY <1>6, <1>7, <1>8, <1>9, BecomesUp DEF Goes

(* No handler drops a message then, but one that casts to its own node.    *)
Kept(m) ==
  \/ Drops(m) /\ (m.hop = "toCaller" \/ mode[m.r] = "DEFAULT")
  \/ \E new : Goes(m, new)

LEMMA QuietDispatch ==
    ASSUME RouteInv, CallInv, Intact, NEW m \in msgs, AgentRpcCallReq(m)
    PROVE  Kept(m)
<1> DEFINE k == m.on
           n == NodeOf(k)
           x == GenAgentCaller(Owner[k], m.r, k)
<1>1. m \in Messages /\ m.hop = "toAgent" /\ m.r \in Calls /\ k \in Conns
  <2>1. m \in Messages
    BY DEF RouteInv, TypeOK
  <2>2. m.hop = "toAgent"
    BY DEF AgentRpcCallReq
  <2> QED
    BY <2>1, <2>2, MessageFacts DEF LinkHops
<1>2. Owner[k] = Source[m.r] /\ Owner[k] \in Clients /\ n \in Nodes /\ n = Home[Source[m.r]]
  BY <1>1, DispatchAssumption DEF RouteInv, Placed, NodeOf
<1>3. x \in Callers
  BY <1>1, <1>2 DEF GenAgentCaller, Callers
<1>4. GenNodeCaller(n) \in Callers
  BY <1>2 DEF GenNodeCaller, Callers
<1>5. sock[k] = "open"
  <2>1. Up(m)
    BY <1>1 DEF RouteInv, TypeOK
  <2> QED
    BY <1>1, <2>1 DEF Up, LinkHops
<1> HIDE DEF x
<1>6. ASSUME Becomes(m, Msg("self", m.r, k, PushStack(<<>>, x))) PROVE Kept(m)
  <2> DEFINE s == PushStack(<<>>, x)
             new == Msg("self", m.r, k, s)
  <2>1. s \in Stacks /\ Len(s) = 1
    BY <1>3, OneCaller
  <2> HIDE DEF s
  <2>2. new \in Messages /\ new.hop = "self" /\ new.r = m.r /\ new.on = k /\ new.stack = s
    BY <1>1, <2>1, MessageTypes
  <2> HIDE DEF new
  <2>3. Up(new)
    BY <2>2 DEF Up, LinkHops
  <2>4. Travels(new)
    BY <1>5, <2>1, <2>2 DEF Travels
  <2> QED
    BY <1>6, <2>2, <2>3, <2>4, BecomesUp DEF Kept, Goes, new, s
<1>7. ASSUME Becomes(m, Ans(m.r, k, "notfound")) PROVE Kept(m)
  <2> DEFINE new == Ans(m.r, k, "notfound")
  <2>1. new.hop = "toCaller" /\ new.r = m.r /\ new.on = k
    BY <1>1, MessageTypes
  <2> HIDE DEF new
  <2>2. Up(new) /\ Travels(new)
    BY <1>5, <2>1 DEF Up, Travels, LinkHops
  <2> QED
    BY <1>7, <2>1, <2>2, BecomesUp DEF Kept, Goes, new
<1>8. ASSUME NEW y \in routes[n], CastReq(m, n, y, PushStack(<<>>, x)),
             y # n \/ mode[m.r] = "DEFAULT"
      PROVE  Kept(m)
  <2> DEFINE s == PushStack(PushStack(<<>>, x), GenNodeCaller(n))
             new == Msg("fwd", m.r, <<n, y>>, s)
  <2>1. s \in Stacks
    BY <1>3, <1>4, TwoCallers
  <2> HIDE DEF s
  <2>2. y \in Nodes /\ y \in own /\ listed[y] # {}
    BY <1>2, <1>8 DEF RouteInv, TypeOK, Intact
  <2>3. <<n, y>> \in Nodes \X Nodes
    BY <1>2, <2>2
  <2>4. new \in Messages /\ new.hop = "fwd" /\ new.r = m.r /\ new.on = <<n, y>>
    BY <1>1, <2>1, <2>3, MessageTypes DEF LinkHops
  <2>5. Becomes(m, new)
    BY <1>8 DEF CastReq, s
  <2> HIDE DEF new
  <2>6. Travels(new)
    BY <1>2, <2>2, <2>4 DEF Travels
  <2>7. CASE Up(new)
    BY <2>4, <2>5, <2>6, <2>7, BecomesUp DEF Kept, Goes
  <2>8. CASE ~Up(new)
    <3>1. {n, y} \notin links
      BY <2>4, <2>8 DEF Up, LinkHops
    <3>2. mode[m.r] = "DEFAULT"
      BY <1>2, <1>8, <3>1 DEF Intact
    <3>3. Drops(m)
      BY <2>5, <2>8, BecomesIs
    <3> QED
      BY <3>2, <3>3 DEF Kept
  <2> QED
    BY <2>7, <2>8
<1>9. mode[m.r] \in Modes
  BY <1>1 DEF RouteInv, TypeOK
<1>10. DispatchReq(m, n, k, PushStack(<<>>, x))
  BY DEF AgentRpcCallReq, x
<1>11. CASE mode[m.r] = "LOCAL_FORCE"
  BY <1>6, <1>7, <1>10, <1>11 DEF DispatchReq
<1>12. CASE mode[m.r] = "LOCAL_BETTER"
  BY <1>6, <1>7, <1>8, <1>10, <1>12 DEF DispatchReq, getRemoteNodeByUri
<1>13. CASE mode[m.r] = "DEFAULT"
  BY <1>7, <1>8, <1>10, <1>13 DEF DispatchReq
<1> QED
  BY <1>9, <1>11, <1>12, <1>13 DEF Modes

LEMMA QuietHandled ==
    ASSUME RouteInv, CallInv, Intact, NEW m \in msgs, Travels(m), Handles(m)
    PROVE  Kept(m)
<1>1. m \in Messages /\ m.r \in Calls
  BY MessageFacts DEF RouteInv, TypeOK
<1>2. CASE AgentRpcCallReq(m)
  BY <1>2, QuietDispatch
<1>3. CASE CallYourSelf(m)
  <2>1. m.on \in Conns /\ NodeOf(m.on) \in Nodes /\ m.hop = "self" /\ sock[m.on] = "open"
    BY <1>1, <1>3, MessageFacts, DispatchAssumption DEF CallYourSelf, NodeOf, LinkHops, Travels
  <2>2. ASSUME Becomes(m, Ans(m.r, m.on, "notfound")) PROVE Kept(m)
    <3> DEFINE new == Ans(m.r, m.on, "notfound")
    <3>1. new.hop = "toCaller" /\ new.r = m.r /\ new.on = m.on
      BY <1>1, <2>1, MessageTypes
    <3> HIDE DEF new
    <3>2. Up(new) /\ Travels(new)
      BY <2>1, <3>1 DEF Up, Travels, LinkHops
    <3> QED
      BY <2>2, <3>1, <3>2, BecomesUp DEF Kept, Goes, new
  <2>3. ASSUME NEW c \in listed[NodeOf(m.on)], rpcCall(m, c, m.stack) PROVE Kept(m)
    BY <2>1, <2>3, QuietRequest DEF Kept
  <2> QED
    BY <1>3, <2>2, <2>3 DEF CallYourSelf
<1>4. CASE NodeRpcCallReq(m)
  <2>1. m.on[2] \in Nodes /\ m.hop = "fwd" /\ listed[m.on[2]] # {}
    BY <1>1, <1>4, MessageFacts DEF NodeRpcCallReq, LinkHops, Travels
  <2>2. ASSUME NEW c \in listed[m.on[2]], rpcCall(m, c, m.stack) PROVE Kept(m)
    BY <2>1, <2>2, QuietRequest DEF Kept
  <2> QED
    BY <1>4, <2>1, <2>2 DEF NodeRpcCallReq, HandleRequest
<1>5. CASE ClientRpcCallReq(m) \/ ClientRuns(m)
  <2>1. /\ m.hop \in {"toServer", "task"} /\ m.on \in Conns /\ m.stack \in Stacks
        /\ sock[m.on] = "open"
    <3>1. m.hop \in {"toServer", "task"}
      BY <1>5 DEF ClientRpcCallReq, ClientRuns
    <3>2. m.hop = "toServer" => sock[m.on] = "open"
      <4>1. m.hop = "toServer" => Up(m)
        BY DEF RouteInv, TypeOK
      <4> QED
        BY <4>1 DEF Up, LinkHops
    <3> QED
      BY <1>1, <3>1, <3>2, MessageFacts DEF LinkHops, Travels
  <2> DEFINE hop == IF m.hop = "task" THEN "fromServer" ELSE "task"
             new == Msg(hop, m.r, m.on, m.stack)
  <2>2. /\ new \in Messages /\ new.hop = hop /\ new.r = m.r /\ new.on = m.on
        /\ new.stack = m.stack
    BY <1>1, <2>1, MessageTypes
  <2>3. Travels(new)
    BY <2>1, <2>2 DEF Travels
  <2>4. CASE ClientRpcCallReq(m)
    BY <2>2, <2>3, <2>4 DEF Kept, Goes, ClientRpcCallReq
  <2>5. CASE ClientRuns(m)
    <3>1. Becomes(m, new) /\ hop = "fromServer"
      BY <2>5 DEF ClientRuns
    <3>2. Up(new)
      BY <2>1, <2>2, <3>1 DEF Up, LinkHops
    <3> QED
      BY <2>2, <2>3, <3>1, <3>2, BecomesUp DEF Kept, Goes
  <2> QED
    BY <1>5, <2>4, <2>5
<1>6. CASE AgentRpcCallResp(m)
  <2>1. /\ m.hop = "fromServer" /\ m.on \in Conns /\ m.stack \in Stacks /\ Way(m)
        /\ NodeOf(m.on) \in Nodes
    BY <1>1, <1>6, MessageFacts, DispatchAssumption
       DEF AgentRpcCallResp, LinkHops, RouteInv, StackLeadsHome, NodeOf
  <2>2. CASE Len(m.stack) = 1
    <3>1. GetTopStack(m.stack).type = "agent" /\ m.stack # <<>> /\ NodeOf(m.on) = Home[Source[m.r]]
      BY <2>1, <2>2 DEF GetTopStack, Way
    <3> QED
      BY <1>6, <2>1, <2>2, <3>1, QuietResponse DEF AgentRpcCallResp, Kept
  <2>3. CASE Len(m.stack) = 2
    <3> DEFINE home == Home[Source[m.r]]
               s == PopStack(m.stack)
               new == Msg("back", m.r, <<NodeOf(m.on), home>>, s)
    <3>1. home \in Nodes /\ GetTopStack(m.stack) = GenNodeCaller(home) /\ m.stack # <<>>
      BY <1>1, <2>1, <2>3, Popped, DispatchAssumption DEF Way
    <3>2. s \in Stacks
      BY <2>1, <2>3, Popped
    <3> HIDE DEF s
    <3>3. <<NodeOf(m.on), home>> \in Nodes \X Nodes
      BY <2>1, <3>1
    <3>4. new.hop = "back" /\ new.r = m.r /\ new.on = <<NodeOf(m.on), home>>
      BY <1>1, <3>2, <3>3, MessageTypes DEF LinkHops
    <3>5. Becomes(m, new)
      BY <1>6, <3>1 DEF AgentRpcCallResp, GenNodeCaller, DispatchRsp, s
    <3> HIDE DEF new
    <3>6. {NodeOf(m.on), home} \in links
      BY <2>1, <2>3 DEF Travels
    <3>7. Up(new) /\ Travels(new)
      BY <3>4, <3>6 DEF Up, LinkHops, Travels
    <3> QED
      BY <3>4, <3>5, <3>7, BecomesUp DEF Kept, Goes
  <2> QED
    BY <2>1, <2>2, <2>3, StackLengths DEF Way
<1>7. CASE NodeRpcCallResp(m)
  <2>1. /\ m.hop = "back" /\ m.on[2] \in Nodes /\ m.stack \in Stacks /\ Way(m)
    BY <1>1, <1>7, MessageFacts DEF NodeRpcCallResp, LinkHops, RouteInv, StackLeadsHome
  <2>2. Len(m.stack) = 1 /\ m.on[2] = Home[Source[m.r]] /\ m.stack # <<>>
    BY <2>1, StackLengths DEF Way
  <2>3. GetTopStack(m.stack).type = "agent"
    BY <2>1, <2>2 DEF GetTopStack, Way
  <2> QED
    BY <1>7, <2>1, <2>2, <2>3, QuietResponse DEF NodeRpcCallResp, HandleResponse, Kept
<1>8. CASE OnRead(m)
  BY <1>8 DEF OnRead, Kept
<1> QED
  BY <1>2, <1>3, <1>4, <1>5, <1>6, <1>7, <1>8 DEF Handles

LEMMA QuietInit == Init => QuietInv
<1> SUFFICES ASSUME Init PROVE Intact /\ (\A m \in msgs : Travels(m)) /\ NotLost
  BY DEF QuietInv
<1> USE DispatchAssumption DEF Init
<1>1. \A k \in Conns : sock[k] = "open" => k \in list[Owner[k]] /\ client[Owner[k]] = "alive"
  OBVIOUS
<1>2. \A n \in Nodes : \A x \in routes[n] : x = n /\ n \in own
  OBVIOUS
<1>3. \A n \in Nodes : \A c \in listed[n] : c \in Clients /\ list[c] # {}
  OBVIOUS
<1> QED
  BY <1>1, <1>2, <1>3 DEF Intact, NotLost

LEMMA QuietStep == RouteInv /\ CallInv /\ QuietInv /\ [Next]_vars => QuietInv'
<1> SUFFICES ASSUME RouteInv, CallInv, QuietInv, [Next]_vars, Quiet'
             PROVE  (Intact /\ (\A m \in msgs : Travels(m)) /\ NotLost)'
  BY DEF QuietInv
<1> DEFINE Goal == Intact /\ (\A m \in msgs : Travels(m)) /\ NotLost
<1> USE DispatchAssumption
<1>a. ~Faulty
  BY DEF Faulty, Quiet, RouteInv, TypeOK
<1>1. CASE UNCHANGED vars
  BY <1>1 DEF vars, callVars, connVars, nodeVars, Quiet, QuietInv, Intact, Travels, NotLost
<1>2. ASSUME NEW m \in msgs, Handles(m) PROVE Goal'
  <2>1. /\ UNCHANGED <<mode, sock, cleaning, list, client, listed, own, routes, alive,
                       links, faults>>
        /\ \/ UNCHANGED call
           \/ /\ m.hop = "toCaller" /\ call[m.r] = "pending"
              /\ call' = [call EXCEPT ![m.r] = m.res]
    BY <1>2, HandlerFrame DEF RouteInv
  <2>2. m.r \in Calls /\ call[m.r] \in {"pending", "failed"}
    BY MessageFacts DEF RouteInv, TypeOK, CallInv
  <2>3. m.hop = "toCaller" => m.res \in {"reply", "notfound"}
    BY MessageFacts DEF RouteInv, TypeOK
  <2>4. \A r \in Calls : /\ call'[r] = "idle" <=> call[r] = "idle"
                         /\ call[r] = "failed" => call'[r] = "failed"
                         /\ call'[r] = "pending" => call[r] = "pending"
    BY <2>1, <2>2, <2>3 DEF RouteInv, TypeOK
  <2>5. Quiet
    BY <2>1, <2>4 DEF Quiet
  <2>6. Intact /\ (\A o \in msgs : Travels(o)) /\ NotLost
    BY <2>5 DEF QuietInv
  <2>7. Intact'
    BY <2>1, <2>4, <2>6 DEF Intact
  <2>8. Kept(m)
    BY <1>2, <2>6, QuietHandled
  <2>9. \A o \in msgs' : Travels(o)'
    BY <2>1, <2>6, <2>8 DEF Kept, Goes, Drops, Travels
  <2>10. ASSUME NEW r \in Calls, call'[r] = "pending", mode'[r] # "DEFAULT"
         PROVE  \E o \in msgs' : o.r = r
    <3>1. PICK o \in msgs : o.r = r
      BY <2>1, <2>4, <2>6, <2>10 DEF NotLost
    <3>2. CASE o # m
      BY <2>8, <3>1, <3>2 DEF Kept, Goes, Drops
    <3>3. CASE o = m
      <4>1. m.hop # "toCaller"
        <5> SUFFICES ASSUME m.hop = "toCaller" PROVE FALSE
          OBVIOUS
        <5>1. call[m.r] = "pending"
          BY <2>4, <2>10, <3>1, <3>3
        <5>2. OnRead(m)
          BY <1>2 DEF Handles, AgentRpcCallReq, CallYourSelf, NodeRpcCallReq, ClientRpcCallReq,
                      ClientRuns, AgentRpcCallResp, NodeRpcCallResp
        <5>3. call' = [call EXCEPT ![m.r] = m.res]
          BY <5>1, <5>2 DEF OnRead
        <5> QED
          BY <2>2, <2>3, <2>10, <3>1, <3>3, <5>3 DEF RouteInv, TypeOK
      <4> QED
        BY <2>1, <2>8, <2>10, <3>1, <3>3, <4>1 DEF Kept, Goes
    <3> QED
      BY <3>2, <3>3
  <2> QED
    BY <2>7, <2>9, <2>10 DEF NotLost
<1>3. ASSUME NEW r \in Calls, NEW k \in Conns, SyncCall(r, k) PROVE Goal'
  <2>1. /\ UNCHANGED <<mode, sock, list, client, listed, own, routes, alive, links, faults>>
        /\ call[r] = "idle" /\ call' = [call EXCEPT ![r] = "pending"]
        /\ Owner[k] = Source[r] /\ sock[k] # "new"
    BY <1>3 DEF SyncCall, nodeVars
  <2>2. Quiet
    BY <2>1 DEF Quiet, RouteInv, TypeOK
  <2>3. Intact /\ (\A o \in msgs : Travels(o)) /\ NotLost
    BY <2>2 DEF QuietInv
  <2>4. sock[k] = "open"
    BY <2>1, <2>3 DEF Intact, RouteInv, TypeOK
  <2>5. msgs' = msgs \cup {Req(r, k)}
    BY <1>3, <2>4 DEF SyncCall
  <2>6. Req(r, k).hop = "toAgent" /\ Req(r, k).r = r
    BY MessageTypes
  <2>7. \A x \in Calls : x # r => call'[x] = call[x]
    BY <2>1 DEF RouteInv, TypeOK
  <2>8. Intact'
    <3>1. \A x \in Calls : call'[x] # "idle" =>
            \E j \in Conns : Owner[j] = Source[x] /\ sock[j] = "open"
      BY <2>1, <2>3, <2>4, <2>7 DEF Intact
    <3> QED
      BY <2>1, <2>3, <3>1 DEF Intact
  <2>9. \A o \in msgs' : Travels(o)'
    BY <2>1, <2>3, <2>5, <2>6 DEF Travels
  <2>10. NotLost'
    BY <2>1, <2>3, <2>5, <2>6, <2>7 DEF NotLost
  <2> QED
    BY <2>8, <2>9, <2>10
<1>4. ASSUME NEW r \in Calls, Timeout(r) PROVE FALSE
  BY <1>4 DEF Timeout, Quiet, RouteInv, TypeOK
<1>5. ASSUME NEW r \in Calls, clearConnect(r) PROVE FALSE
  BY <1>5 DEF clearConnect, Quiet
<1>6. ASSUME UNCHANGED <<call, faults>> PROVE Quiet /\ Intact /\ (\A o \in msgs : Travels(o)) /\ NotLost
  BY <1>6 DEF Quiet, QuietInv
<1>7. ASSUME NEW k \in Conns, cleanAllRpcContext(k) PROVE FALSE
  <2>1. sock[k] = "closed" /\ UNCHANGED faults
    BY <1>7 DEF cleanAllRpcContext, RouteInv, TypeOK
  <2>2. \A x \in Calls : call[x] = "failed" => call'[x] = "failed"
    BY <1>7 DEF cleanAllRpcContext
  <2>3. Quiet
    BY <2>1, <2>2 DEF Quiet
  <2> QED
    BY <2>1, <2>3 DEF QuietInv, Intact
<1>8. ASSUME NEW k \in Conns, OnCloseConnection(k) PROVE FALSE
  BY <1>6, <1>8 DEF OnCloseConnection, callVars, Intact
<1>9. ASSUME NEW c \in Clients, Forget(c) PROVE FALSE
  BY <1>6, <1>9 DEF Forget, callVars, Intact
<1>10. ASSUME NEW k \in Conns, Register(k) PROVE Goal'
  <2> DEFINE c == Owner[k]
             n == Home[c]
             first == c \in Serves /\ listed[n] = {} /\ n \notin own /\ n \in alive
  <2>1. /\ UNCHANGED <<call, mode, msgs, links, faults>>
        /\ sock[k] = "new" /\ sock' = [sock EXCEPT ![k] = "open"]
        /\ list' = [list EXCEPT ![c] = @ \cup {k}]
        /\ client' = [client EXCEPT ![c] = "alive"]
        /\ listed' = [listed EXCEPT ![n] = @ \cup ({c} \cap Serves)]
        /\ own' = IF first THEN own \cup {n} ELSE own
        /\ routes' = IF first THEN [routes EXCEPT ![n] = @ \cup {n}] ELSE routes
    BY <1>10 DEF Register, callVars
  <2>2. Intact /\ (\A o \in msgs : Travels(o)) /\ NotLost
    BY <1>6, <2>1
  <2>3. c \in Clients /\ n \in Nodes
    OBVIOUS
  <2>4. \A j \in Conns : sock'[j] = IF j = k THEN "open" ELSE sock[j]
    BY <2>1 DEF RouteInv, TypeOK
  <2>5. \A d \in Clients : /\ list'[d] = IF d = c THEN list[d] \cup {k} ELSE list[d]
                           /\ client'[d] = IF d = c THEN "alive" ELSE client[d]
    <3>1. DOMAIN list = Clients /\ DOMAIN client = Clients
      BY DEF RouteInv, TypeOK
    <3> QED
      BY <2>1, <2>3, <3>1, Zenon
  <2>6. \A x \in Nodes : listed'[x] = IF x = n THEN listed[x] \cup ({c} \cap Serves) ELSE listed[x]
    <3>1. DOMAIN listed = Nodes
      BY DEF RouteInv, TypeOK
    <3> QED
      BY <2>1, <2>3, <3>1, Zenon
  <2>7. \A x \in Nodes : routes'[x] = routes[x] \/ (first /\ x = n /\ routes'[x] = routes[x] \cup {n})
    BY <2>1, <2>3 DEF RouteInv, TypeOK
  <2>8. Intact'
    <3>1. \A j \in Conns : /\ sock'[j] # "closed"
                           /\ sock'[j] = "open" => j \in list'[Owner[j]] /\ client'[Owner[j]] = "alive"
      <4>1. TAKE j \in Conns
      <4>2. /\ Owner[j] \in Clients /\ Owner[k] = c
            /\ sock[j] # "closed"
            /\ sock[j] = "open" => j \in list[Owner[j]] /\ client[Owner[j]] = "alive"
        BY <2>2, DispatchAssumption DEF Intact
      <4>3. CASE j = k
        BY <2>3, <2>4, <2>5, <4>2, <4>3
      <4>4. CASE j # k
        <5>1. sock'[j] = sock[j]
          BY <2>4, <4>4
        <5>2. j \in list[Owner[j]] => j \in list'[Owner[j]]
          BY <2>5, <4>2
        <5>3. client[Owner[j]] = "alive" => client'[Owner[j]] = "alive"
          BY <2>5, <4>2
        <5> QED
          BY <4>2, <5>1, <5>2, <5>3
      <4> QED
        BY <4>3, <4>4
    <3>2. \A d \in Clients : client'[d] # "dead"
      BY <2>2, <2>5 DEF Intact
    <3>3. \A x \in Nodes : \A d \in listed'[x] : list'[d] # {}
      <4>1. \A x \in Nodes : \A d \in listed'[x] : d \in listed[x] \/ d = c
        BY <2>6
      <4>2. \A x \in Nodes : \A d \in listed[x] : d \in Clients /\ list[d] # {}
        BY <2>2 DEF Intact, RouteInv, TypeOK
      <4>3. \A d \in Clients : (list[d] # {} \/ d = c) => list'[d] # {}
        BY <2>5
      <4> QED
        BY <2>3, <4>1, <4>2, <4>3
    <3>4. own' \subseteq Nodes /\ \A x \in own' : listed'[x] # {}
      BY <2>1, <2>2, <2>3, <2>6 DEF Intact, RouteInv, TypeOK
    <3>5. \A x \in Nodes : routes'[x] \subseteq own'
      BY <2>1, <2>2, <2>7 DEF Intact
    <3>6. \A x \in Nodes : \A y \in routes'[x] : y # x => {x, y} \in links'
      BY <2>1, <2>2, <2>7 DEF Intact
    <3>7. \A r \in Calls : call'[r] # "idle" =>
            \E j \in Conns : Owner[j] = Source[r] /\ sock'[j] = "open"
      BY <2>1, <2>2, <2>4 DEF Intact
    <3> QED
      BY <3>1, <3>2, <3>3, <3>4, <3>5, <3>6, <3>7 DEF Intact
  <2>9. ASSUME NEW o \in msgs' PROVE Travels(o)'
    <3>1. o \in Messages /\ Travels(o)
      BY <2>1, <2>2 DEF RouteInv, TypeOK
    <3>2. /\ o.hop \in {"self", "task"} => o.on \in Conns
          /\ o.hop = "fwd" => o.on[2] \in Nodes
      BY <3>1, MessageFacts DEF LinkHops
    <3> QED
      BY <2>1, <2>4, <2>6, <3>1, <3>2 DEF Travels
  <2>10. NotLost'
    BY <2>1, <2>2 DEF NotLost
  <2> QED
    BY <2>8, <2>9, <2>10
<1>11. ASSUME NEW n \in Nodes, NEW x \in Nodes, LearnRoute(n, x) \/ LoseRoute(n, x) PROVE Goal'
  <2>1. /\ UNCHANGED <<call, mode, msgs, sock, list, client, listed, own, links, faults>>
        /\ \/ routes' = [routes EXCEPT ![n] = @ \ {x}]
           \/ /\ routes' = [routes EXCEPT ![n] = @ \cup {x}]
              /\ {n, x} \in links /\ x \in own
    BY <1>11 DEF LearnRoute, LoseRoute, callVars, connVars
  <2>2. Intact /\ (\A o \in msgs : Travels(o)) /\ NotLost
    BY <1>6, <2>1
  <2>3. \A y \in Nodes : \A z \in routes'[y] :
          z \in routes[y] \/ (y = n /\ z = x /\ {n, x} \in links /\ x \in own)
    BY <2>1 DEF RouteInv, TypeOK
  <2>4. Intact'
    <3>1. \A y \in Nodes : routes'[y] \subseteq own /\ \A z \in routes'[y] : z # y => {y, z} \in links
      BY <2>2, <2>3 DEF Intact
    <3> QED
      BY <2>1, <2>2, <3>1 DEF Intact
  <2> QED
    BY <2>1, <2>2, <2>4 DEF Travels, NotLost
<1>12. ASSUME NEW n \in Nodes, NEW x \in Nodes, Link(n, x) PROVE Goal'
  <2>1. /\ UNCHANGED <<call, mode, msgs, sock, list, client, listed, own, routes, faults>>
        /\ links' = links \cup {{n, x}}
    BY <1>12 DEF Link, callVars, connVars
  <2>2. Intact /\ (\A o \in msgs : Travels(o)) /\ NotLost
    BY <1>6, <2>1
  <2>3. Intact'
    BY <2>1, <2>2 DEF Intact
  <2> QED
    BY <2>1, <2>2, <2>3 DEF Travels, NotLost
<1> QED
  BY <1>a, <1>1, <1>2, <1>3, <1>4, <1>5, <1>7, <1>8, <1>9, <1>10, <1>11, <1>12
     DEF Next, Break, Leave, Unlink, Stop

\* While nothing was closed, left or stopped and no call has failed, a pending
\* call is under way: agents, nodes and clients drop no message of their own,
\* except a call in DEFAULT mode that is cast to the node itself.
THEOREM LostByFaultOnly == Spec => []LossNeedsFault
<1>1. Init => RouteInv /\ CallInv /\ QuietInv
  BY RouteInit, QuietInit DEF Init, CallInv
<1>2. RouteInv /\ CallInv /\ QuietInv /\ [Next]_vars => (RouteInv /\ CallInv /\ QuietInv)'
  BY RouteStep, CallStep, QuietStep
<1>3. QuietInv => LossNeedsFault
  BY DEF QuietInv, Quiet, NotLost, LossNeedsFault
<1> QED
  BY <1>1, <1>2, <1>3, PTL DEF Spec
=============================================================================
