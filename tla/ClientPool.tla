------------------------------ MODULE ClientPool ------------------------------
(***************************************************************************)
(* The connections of the client library to the agents                     *)
(* (client/client.go, client/agent_manager.go, client/connect_pool.go).    *)
(* A client knows several agents and has a pool of connections for each;   *)
(* it uses one agent, the active one, and switches when no connection to   *)
(* it can be made or when it says goodbye.  The agents known are replaced  *)
(* by the list every keepalive brings.                                     *)
(*                                                                         *)
(* Goroutines: users call SyncCall, timers run every three seconds (a slow *)
(* one overlaps the next), getConnect starts makers of spare connections,  *)
(* and goodbyes are handled in the task pool.  Each step below is what one *)
(* of them does between two locks or around one call over the network.     *)
(***************************************************************************)
EXTENDS Naturals, Integers, FiniteSets

CONSTANTS
  Agents,
  Users, Timers, Makers, Byes,     \* the goroutines: bounds of how many overlap
  Conns,                           \* bound: connections that exist at once
  Pools,                           \* bound: AgentConnectPoolInfo objects at once
  nInitConnectNum, nMaxConnectNum,
  nAgentGoodByeTimeoutS,           \* in ticks of the clock
  Lists,                           \* what a keepalive may bring
  MaxFaults,                       \* bound: broken connections, stops, goodbyes
  None, Nil                        \* absent from a map, a nil pointer in it

Procs == Users \cup Timers \cup Makers \cup Byes
Distinct(h) == \A a, b \in DOMAIN h : h[a] = h[b] => a = b

ASSUME PoolAssumption ==
  /\ Conns # {} /\ \E h \in [Agents -> Pools] : Distinct(h)
  /\ nInitConnectNum \in Nat \ {0} /\ nMaxConnectNum \in Nat \ {0}
  /\ nAgentGoodByeTimeoutS \in Nat /\ MaxFaults \in Nat
  /\ Lists \subseteq SUBSET Agents
  /\ None \notin Pools \cup Conns \cup Agents /\ Nil \notin Pools \cup {None}

VARIABLES
  szActiveAgent,
  mAgentConnectPool,   \* agent -> pool, Nil or None
  mAgentGoodByeInfo,   \* agent -> age of its goodbye, or None
  agentOf,             \* the agent of a pool object, None when it is unused
  mConnection,         \* pool object -> its connections
  sock,                \* a connection: new, open, closed
  to,                  \* the agent it leads to
  ctx,                 \* connections whose Ctx names the agent
  closing,             \* closed connections whose OnCloseConnection is to come
  early,               \* ... came before the Ctx, or with the pool out of the map
  agent,               \* an agent: up, leaving (said goodbye), down
  proc,                \* where a goroutine is
  crashed,             \* a nil pool was used
  faults

mapVars == <<szActiveAgent, mAgentConnectPool, mAgentGoodByeInfo, agentOf>>
connVars == <<mConnection, sock, to, ctx, closing, early>>
vars == <<mapVars, connVars, agent, proc, crashed, faults>>

(* New connections and new pools are alike: any one will do.               *)
Some(S) == CHOOSE x \in S : TRUE
Assigned(before, h) ==
  [p \in Pools |-> IF \E a \in DOMAIN h : h[a] = p
                  THEN CHOOSE a \in DOMAIN h : h[a] = p ELSE before[p]]

Reasons == {"call", "keepalive", "unregister"}
Idle == [pc |-> "idle"]

(* Users and timers begin again at getConnect, with what they want: a      *)
(* goroutine may be both, that is, make calls and run the timer in turns.  *)
Wants(g) == (IF g \in Users THEN {"call"} ELSE {})
              \cup (IF g \in Timers THEN {"keepalive"} ELSE {})
Rest(g) == IF Wants(g) = {} THEN Idle ELSE [pc |-> "get", why |-> Wants(g)]
Goes(g, state) == proc' = [proc EXCEPT ![g] = state]
At(g, pc) == ~crashed /\ proc[g].pc = pc

Alive(k) == sock[k] = "open"

(* ClearConnect closes the connection, and its readLoop will call back.    *)
Shuts(K) ==
  LET live == {k \in K : Alive(k)}
  IN /\ sock' = [k \in Conns |-> IF k \in live THEN "closed" ELSE sock[k]]
     /\ closing' = closing \cup live

GetActiveAgentConnectPool == mAgentConnectPool[szActiveAgent]

(* The pool of the agent the connection names in its Ctx, if there is one. *)
PoolOfActive(k) == {GetActiveAgentConnectPool} \cap Pools
PoolOf(k) == IF k \in ctx THEN {mAgentConnectPool[to[k]]} \cap Pools ELSE {}
clearConnect(k) ==
  /\ mConnection' = [p \in Pools |-> IF p \in PoolOf(k) THEN mConnection[p] \ {k}
                                     ELSE mConnection[p]]
  /\ IF PoolOf(k) # {} THEN Shuts({k}) ELSE UNCHANGED <<sock, closing>>

-----------------------------------------------------------------------------
(* After Start: the first agent is active and has one connection.          *)
Init ==
  LET k == Some(Conns)
      f == Some({h \in [Agents -> Pools] : Distinct(h)})
  IN /\ szActiveAgent \in Agents /\ mAgentConnectPool = f
     /\ mAgentGoodByeInfo = [b \in Agents |-> None]
     /\ agentOf = Assigned([p \in Pools |-> None], f)
     /\ mConnection = [p \in Pools |-> IF p = f[szActiveAgent] THEN {k} ELSE {}]
     /\ sock = [c \in Conns |-> IF c = k THEN "open" ELSE "new"]
     /\ to = [c \in Conns |-> IF c = k THEN szActiveAgent ELSE None]
     /\ ctx = {k} /\ closing = {} /\ early = {}
     /\ agent = [b \in Agents |-> "up"]
     /\ proc = [g \in Procs |-> Rest(g)]
     /\ crashed = FALSE /\ faults = 0

(* getConnect: a connection of the active agent's pool, or a new one.  An  *)
(* active agent without a pool is an error; a nil pool is dereferenced.    *)
getConnect(g, why) ==
  LET p == GetActiveAgentConnectPool
  IN /\ At(g, "get") /\ why \in proc[g].why
     /\ \/ p = None /\ Goes(g, Rest(g)) /\ UNCHANGED crashed
        \/ p = Nil /\ crashed' = TRUE /\ UNCHANGED proc
        \/ /\ p \in Pools /\ UNCHANGED crashed
           /\ \/ \E k \in mConnection[p] :
                   Goes(g, [pc |-> "use", why |-> why, pool |-> p, conn |-> k])
              \/ /\ mConnection[p] = {}
                 /\ Goes(g, [pc |-> "dial", why |-> why, pool |-> p, left |-> 1])
     /\ UNCHANGED <<mapVars, connVars, agent, faults>>

(* A new connection to agent a, in no pool yet.                            *)
NewConnect(k, a) ==
  /\ sock[k] = "new"
  /\ sock' = [sock EXCEPT ![k] = "open"]
  /\ to' = [to EXCEPT ![k] = a]

(* createConnectAndRegister: dial and register at an agent that is up ...  *)
register(g) ==
  /\ At(g, "dial")
  /\ agent[agentOf[proc[g].pool]] = "up"
  /\ \E k \in Conns : sock[k] = "new"
  /\ LET k == Some({c \in Conns : sock[c] = "new"})
     IN /\ NewConnect(k, agentOf[proc[g].pool])
        /\ Goes(g, [pc |-> "add", why |-> proc[g].why, pool |-> proc[g].pool,
                    left |-> proc[g].left, conn |-> k])
  /\ UNCHANGED <<mapVars, mConnection, ctx, closing, early, agent, crashed, faults>>

(* ... then the pool gets it ...                                           *)
AddToActive(g) ==
  /\ At(g, "add") /\ GetActiveAgentConnectPool \in Pools
  /\ mConnection' = [mConnection EXCEPT ![GetActiveAgentConnectPool] = @ \cup {proc[g].conn}]
  /\ Goes(g, [proc[g] EXCEPT !.pc = "ctx"])
  /\ UNCHANGED <<mapVars, sock, to, ctx, closing, early, agent, crashed, faults>>
AddConnect(g) ==
  /\ At(g, "add")
  /\ mConnection' = [mConnection EXCEPT ![proc[g].pool] = @ \cup {proc[g].conn}]
  /\ Goes(g, [proc[g] EXCEPT !.pc = "ctx"])
  /\ UNCHANGED <<mapVars, sock, to, ctx, closing, early, agent, crashed, faults>>

(* ... then it gets its Ctx; the makers of idle connections go on.         *)
setCtx(g) ==
  LET s == proc[g]
  IN /\ At(g, "ctx")
     /\ ctx' = ctx \cup {s.conn}
     /\ Goes(g, CASE s.why = "spare" -> Rest(g)
                  [] s.why = "idle" /\ s.left = 1 -> Rest(g)
                  [] s.why = "idle" -> [pc |-> "dial", why |-> "idle", pool |-> s.pool,
                                        left |-> s.left - 1]
                  [] OTHER -> [pc |-> "use", why |-> s.why, pool |-> s.pool, conn |-> s.conn])
     /\ UNCHANGED <<mapVars, mConnection, sock, to, closing, early, agent, crashed, faults>>

(* SwitchActiveAgent picks another agent under the read lock and sets it   *)
(* later under the write lock; then goroutine g goes on at `next'.         *)
Others == {a \in Agents : /\ mAgentConnectPool[a] # None
                          /\ mAgentGoodByeInfo[a] = None /\ a # szActiveAgent}
SwitchActiveAgent(g, next) ==
  \/ \E a \in Others : Goes(g, [pc |-> "set", host |-> a, next |-> next])
  \/ Others = {} /\ Goes(g, next)
setActiveAgent(g) ==
  /\ At(g, "set")
  /\ szActiveAgent' = proc[g].host
  /\ Goes(g, proc[g].next)
  /\ UNCHANGED <<mAgentConnectPool, mAgentGoodByeInfo, agentOf, connVars, agent, crashed, faults>>

registerFails(g) ==
  /\ At(g, "dial")
  /\ agent[agentOf[proc[g].pool]] # "up"
  /\ CASE proc[g].why = "idle" -> Goes(g, [pc |-> "get", why |-> {"unregister"}])
       [] proc[g].why # "idle" /\ proc[g].why # "spare" /\ mConnection[proc[g].pool] = {} ->
            SwitchActiveAgent(g, Rest(g))
       [] OTHER -> Goes(g, Rest(g))
  /\ UNCHANGED <<mapVars, connVars, agent, crashed, faults>>

-----------------------------------------------------------------------------
(* The end of getConnect: a goroutine makes a spare connection unless the  *)
(* pool is full, asked under a lock of its own.                            *)
IsFullConnect(p) == Cardinality(mConnection[p]) >= nMaxConnectNum
Then(g, p, state) ==
  \/ /\ ~IsFullConnect(p)
     /\ \E s \in Makers :
          /\ proc[s] = Idle
          /\ proc' = [proc EXCEPT ![g] = state,
                        ![s] = [pc |-> "dial", why |-> "spare", pool |-> p, left |-> 1]]
  \/ /\ IsFullConnect(p) \/ \A s \in Makers : proc[s] # Idle
     /\ Goes(g, state)

(* SyncCall: a call that fails clears the connection.                      *)
CallEnds(g) ==
  /\ At(g, "use") /\ proc[g].why = "call"
  /\ Then(g, proc[g].pool, Rest(g))
  /\ IF Alive(proc[g].conn) THEN UNCHANGED <<mConnection, sock, closing>>
     ELSE clearConnect(proc[g].conn)
  /\ UNCHANGED <<mapVars, to, ctx, early, agent, crashed, faults>>

(* agentKeepalive: the answer is the list of agents; a failure clears      *)
(* nothing.  UpdateAgent looks at the present pools and swaps them later.  *)
keepalive(g) ==
  LET s == proc[g]
  IN /\ At(g, "use") /\ s.why = "keepalive"
     /\ \/ /\ Alive(s.conn)
           /\ \E l \in Lists :
                Then(g, s.pool, [pc |-> "swap", list |-> l, pools |-> mAgentConnectPool])
        \/ ~Alive(s.conn) /\ Then(g, s.pool, Rest(g))
     /\ UNCHANGED <<mapVars, connVars, agent, crashed, faults>>

(* The new map: known agents keep their pool, new ones get a new one, and  *)
(* the agent that is active now stays.                                     *)
Updated(s, fresh) ==
  [a \in Agents |->
     CASE a \in s.list /\ s.pools[a] # None -> s.pools[a]
       [] a \in s.list /\ s.pools[a] = None -> fresh[a]
       [] a \notin s.list /\ a = szActiveAgent ->
            IF mAgentConnectPool[a] = None THEN Nil ELSE mAgentConnectPool[a]
       [] OTHER -> None]
UpdateAgent(g) ==
  LET s == proc[g]
      new == {a \in s.list : s.pools[a] = None}
      unused == {p \in Pools : agentOf[p] = None}
      choices == {h \in [new -> unused] : Distinct(h)}
  IN /\ At(g, "swap") /\ choices # {}
     /\ LET fresh == Some(choices)
        IN /\ mAgentConnectPool' = Updated(s, fresh)
           /\ agentOf' = Assigned(agentOf, fresh)
     /\ Goes(g, Rest(g))
     /\ UNCHANGED <<szActiveAgent, mAgentGoodByeInfo, connVars, agent, crashed, faults>>

(* unregisterSelf: the agent deletes the client and closes its connections.*)
unregister(g) ==
  LET s == proc[g]
  IN /\ At(g, "use") /\ s.why = "unregister"
     /\ Then(g, s.pool, Rest(g))
     /\ IF Alive(s.conn) THEN Shuts({k \in Conns : to[k] = to[s.conn]})
        ELSE UNCHANGED <<sock, closing>>
     /\ UNCHANGED <<mapVars, mConnection, to, ctx, early, agent, crashed, faults>>

(* timer: the keepalive, and when it has ended ClearGoodbyeTimeout, which  *)
(* takes the present from the time of the goodbye.                         *)
timedOut(age) == 0 - age > nAgentGoodByeTimeoutS
ClearGoodbyeTimeout(g) ==
  /\ g \in Timers /\ At(g, "get")
  /\ mAgentGoodByeInfo' = [a \in Agents |->
       IF mAgentGoodByeInfo[a] # None /\ timedOut(mAgentGoodByeInfo[a]) THEN None
       ELSE mAgentGoodByeInfo[a]]
  /\ UNCHANGED <<szActiveAgent, mAgentConnectPool, agentOf, connVars, agent, proc, crashed, faults>>

Tick(a) ==
  /\ mAgentGoodByeInfo[a] \in 0..nAgentGoodByeTimeoutS
  /\ mAgentGoodByeInfo' = [mAgentGoodByeInfo EXCEPT ![a] = @ + 1]
  /\ UNCHANGED <<szActiveAgent, mAgentConnectPool, agentOf, connVars, agent, proc, crashed, faults>>

-----------------------------------------------------------------------------
Faulty == faults < MaxFaults /\ faults' = faults + 1

(* An agent stops: it says goodbye on a connection of the client, if there *)
(* is one, and registers nobody any more.                                  *)
SaysGoodbye(a) ==
  /\ agent[a] = "up" /\ Faulty
  /\ agent' = [agent EXCEPT ![a] = "leaving"]
  /\ \/ \E g \in Byes : /\ proc[g] = Idle /\ \E k \in Conns : to[k] = a /\ Alive(k)
                        /\ Goes(g, [pc |-> "bye", from |-> a])
     \/ (\A k \in Conns : to[k] = a => ~Alive(k)) /\ UNCHANGED proc
  /\ UNCHANGED <<mapVars, connVars, crashed>>

(* The client notes the goodbye, leaves the agent if it is the active one, *)
(* and makes the connections the active agent's pool lacks.                *)
AddGoodByeAgent(g) ==
  /\ At(g, "bye")
  /\ mAgentGoodByeInfo' = [mAgentGoodByeInfo EXCEPT ![proc[g].from] = 0]
  /\ Goes(g, [pc |-> "other", from |-> proc[g].from])
  /\ UNCHANGED <<szActiveAgent, mAgentConnectPool, agentOf, connVars, agent, crashed, faults>>
SwitchToOtherAgent(g) ==
  /\ At(g, "other")
  /\ IF proc[g].from = szActiveAgent THEN SwitchActiveAgent(g, [pc |-> "create"])
     ELSE Goes(g, [pc |-> "create"])
  /\ UNCHANGED <<mapVars, connVars, agent, crashed, faults>>
createAgentIdleConnect(g) ==
  LET p == GetActiveAgentConnectPool
      missing == nInitConnectNum - Cardinality(mConnection[p])
  IN /\ At(g, "create")
     /\ \/ p = None /\ Goes(g, Rest(g)) /\ UNCHANGED crashed
        \/ p = Nil /\ crashed' = TRUE /\ UNCHANGED proc
        \/ /\ p \in Pools /\ UNCHANGED crashed
           /\ Goes(g, IF missing <= 0 THEN Rest(g)
                      ELSE [pc |-> "dial", why |-> "idle", pool |-> p, left |-> missing])
     /\ UNCHANGED <<mapVars, connVars, agent, faults>>

handleSayGoodbyeNotify(g) ==
  AddGoodByeAgent(g) \/ SwitchToOtherAgent(g) \/ createAgentIdleConnect(g)

(* OnCloseConnection of a connection that its agent, the network or the    *)
(* client has closed.                                                      *)
Early(k) == k \notin ctx \/ \E p \in Pools : k \in mConnection[p] /\ mAgentConnectPool[to[k]] # p
OnCloseConnection(k) ==
  /\ k \in closing
  /\ mConnection' = [p \in Pools |-> IF p \in PoolOf(k) THEN mConnection[p] \ {k}
                                     ELSE mConnection[p]]
  /\ closing' = closing \ {k}
  /\ early' = IF Early(k) THEN early \cup {k} ELSE early
  /\ UNCHANGED <<mapVars, sock, to, ctx, agent, proc, crashed, faults>>

Breaks(k) ==
  /\ Alive(k) /\ Faulty
  /\ Shuts({k})
  /\ UNCHANGED <<mapVars, mConnection, to, ctx, early, agent, proc, crashed>>
GoesDown(a) ==
  /\ \/ agent[a] = "up" /\ Faulty
     \/ agent[a] = "leaving" /\ UNCHANGED faults
  /\ agent' = [agent EXCEPT ![a] = "down"]
  /\ Shuts({k \in Conns : to[k] = a})
  /\ UNCHANGED <<mapVars, mConnection, to, ctx, early, proc, crashed>>
ComesUp(a) ==
  /\ agent[a] = "down"
  /\ agent' = [agent EXCEPT ![a] = "up"]
  /\ UNCHANGED <<mapVars, connVars, proc, crashed, faults>>

(* Connections and pools nobody holds are collected and used again.        *)
Held(x) == \E g \in Procs :
  \/ proc[g].pc \in {"use", "add", "ctx"} /\ proc[g].conn = x
  \/ proc[g].pc \in {"use", "add", "ctx", "dial"} /\ proc[g].pool = x
  \/ proc[g].pc = "swap" /\ \E a \in Agents : proc[g].pools[a] = x
CollectConn(k) ==
  /\ sock[k] = "closed" /\ k \notin closing /\ ~Held(k)
  /\ \A p \in Pools : k \notin mConnection[p]
  /\ sock' = [sock EXCEPT ![k] = "new"] /\ to' = [to EXCEPT ![k] = None]
  /\ ctx' = ctx \ {k} /\ early' = early \ {k}
  /\ UNCHANGED <<mapVars, mConnection, closing, agent, proc, crashed, faults>>
CollectPool(p) ==
  /\ agentOf[p] # None /\ ~Held(p)
  /\ \A a \in Agents : mAgentConnectPool[a] # p
  /\ agentOf' = [agentOf EXCEPT ![p] = None]
  /\ mConnection' = [mConnection EXCEPT ![p] = {}]
  /\ UNCHANGED <<szActiveAgent, mAgentConnectPool, mAgentGoodByeInfo, sock, to, ctx,
                 closing, early, agent, proc, crashed, faults>>

Works(g) ==
  \/ \E why \in Reasons : getConnect(g, why)
  \/ register(g) \/ AddConnect(g) \/ setCtx(g) \/ registerFails(g)
  \/ setActiveAgent(g) \/ CallEnds(g) \/ keepalive(g) \/ UpdateAgent(g) \/ unregister(g)
  \/ handleSayGoodbyeNotify(g)
Next ==
  \/ \E g \in Procs : Works(g) \/ ClearGoodbyeTimeout(g)
  \/ \E k \in Conns : OnCloseConnection(k) \/ Breaks(k) \/ CollectConn(k)
  \/ \E p \in Pools : CollectPool(p)
  \/ \E a \in Agents : SaysGoodbye(a) \/ GoesDown(a) \/ ComesUp(a) \/ Tick(a)

Spec == Init /\ [][Next]_vars

(* Goroutines run, so the application keeps calling, and callbacks run.    *)
(* An agent that went down may stay down.                                  *)
FairSpec ==
  /\ Spec
  /\ \A g \in Procs : WF_vars(Works(g))
  /\ \A k \in Conns : WF_vars(OnCloseConnection(k))

-----------------------------------------------------------------------------
(* Types; a pool in the map is the pool of its agent, has connections to   *)
(* that agent only, and a connection is in one pool at most.               *)
TypeOK ==
  /\ szActiveAgent \in Agents
  /\ mAgentConnectPool \in [Agents -> Pools \cup {None, Nil}]
  /\ mAgentGoodByeInfo \in [Agents -> 0..(nAgentGoodByeTimeoutS + 1) \cup {None}]
  /\ agentOf \in [Pools -> Agents \cup {None}]
  /\ mConnection \in [Pools -> SUBSET Conns]
  /\ sock \in [Conns -> {"new", "open", "closed"}] /\ to \in [Conns -> Agents \cup {None}]
  /\ ctx \subseteq Conns /\ early \subseteq Conns
  /\ closing \subseteq {k \in Conns : sock[k] = "closed"}
  /\ agent \in [Agents -> {"up", "leaving", "down"}]
  /\ crashed \in BOOLEAN /\ faults \in 0..MaxFaults
  /\ \A a \in Agents : mAgentConnectPool[a] \in Pools => agentOf[mAgentConnectPool[a]] = a
  /\ \A p \in Pools : \A k \in mConnection[p] :
       to[k] = agentOf[p] /\ \A q \in Pools : k \in mConnection[q] => p = q

(* A closed connection stays in a pool of the client only until it is      *)
(* noticed, unless it closed before its Ctx was set or while its pool was  *)
(* out of the map: then OnCloseConnection cleared nothing, and the pool    *)
(* keeps it until a SyncCall fails on it.                                  *)
StaleNeedsRace ==
  \A a \in Agents : mAgentConnectPool[a] \in Pools =>
    \A k \in mConnection[mAgentConnectPool[a]] : Alive(k) \/ k \in closing \cup early

(* Whatever breaks, stops or says goodbye, the client comes back to a      *)
(* connection to an agent that is up, unless it is lost: the active agent  *)
(* has no pool any more, or no agent of its map that may be used is up;    *)
(* or unless goroutines contend: two failed on one agent, each switches    *)
(* away from whichever agent is active by then, and the second one brings  *)
(* the dead agent back, again and again.                                   *)
(* (OutOfBound: the model has no connection left for it to make.)          *)
Contended == \E g, h \in Procs : /\ g # h /\ proc[g].pc = "set"
                                 /\ proc[h].pc \in {"set", "dial"}
OutOfBound == \A k \in Conns : sock[k] # "new"
Connected == \E p \in {GetActiveAgentConnectPool} \cap Pools :
               \E k \in mConnection[p] : Alive(k)
Lost ==
  \/ crashed \/ GetActiveAgentConnectPool \in {None, Nil}
  \/ \A a \in Agents : \/ mAgentConnectPool[a] = None \/ agent[a] # "up"
                       \/ mAgentGoodByeInfo[a] # None /\ a # szActiveAgent
=============================================================================
