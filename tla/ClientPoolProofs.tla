--------------------------- MODULE ClientPoolProofs ---------------------------
(***************************************************************************)
(* Proofs about ClientPool, for any agents, goroutines, connections, pool  *)
(* objects and lists of agents.  The properties speak of pools and         *)
(* connections; the inductive invariant has to say what every goroutine    *)
(* carries from one of its steps to the next, and that what it carries is  *)
(* not used for something else meanwhile.                                  *)
(***************************************************************************)
EXTENDS ClientPool, TLAPS

Kept(k) == Alive(k) \/ k \in closing \cup early
InNoPool(k) == \A p \in Pools : k \notin mConnection[p]

(* What goroutine g at s carries: the pool it works for, ...               *)
PoolUsed(s) ==
  s.pc \in {"use", "dial", "add", "ctx"} => s.pool \in Pools /\ agentOf[s.pool] # None

(* ... a connection, which nobody else knows until the pool has it, ...    *)
ConnUsed(s) == s.pc \in {"use", "add", "ctx"} => s.conn \in Conns /\ sock[s.conn] # "new"
Added(s) ==
  s.pc = "add" => /\ DOMAIN s = {"pc", "why", "pool", "left", "conn"}
                  /\ to[s.conn] = agentOf[s.pool]
                  /\ s.conn \notin ctx /\ InNoPool(s.conn) /\ Kept(s.conn)

(* ... the agent to switch to, the map it read, who said goodbye.          *)
Chosen(g, s) == s.pc = "set" => s.host \in Agents /\ s.next \in {Rest(g), [pc |-> "create"]}
Listed(s) ==
  s.pc = "swap" => /\ s.list \in SUBSET Agents /\ s.pools \in [Agents -> Pools \cup {None, Nil}]
                   /\ \A a \in Agents : s.pools[a] \in Pools => agentOf[s.pools[a]] = a
Heard(s) == s.pc \in {"bye", "other"} => s.from \in Agents

Well(g, s) == PoolUsed(s) /\ ConnUsed(s) /\ Added(s) /\ Chosen(g, s) /\ Listed(s) /\ Heard(s)
Manned == DOMAIN proc = Procs /\ \A g \in Procs : Well(g, proc[g])
Alone ==
  \A g, h \in Procs :
    g # h /\ proc[g].pc = "add" /\ proc[h].pc \in {"add", "ctx"} => proc[g].conn # proc[h].conn

(* New objects are blank; a pool has only connections that are open, about *)
(* to be noticed, or noticed too early.                                    *)
Objects ==
  /\ \A k \in Conns : sock[k] = "new" => k \notin ctx /\ InNoPool(k)
  /\ \A p \in Pools : agentOf[p] = None => mConnection[p] = {}
  /\ \A p \in Pools : \A k \in mConnection[p] : Kept(k)

ClientInv == TypeOK /\ Manned /\ Alone /\ Objects

-----------------------------------------------------------------------------
(* The most a step that neither makes, adds, names nor collects objects    *)
(* does: close connections, take them out of pools, note callbacks.        *)
Milder ==
  /\ szActiveAgent' \in Agents /\ crashed' \in BOOLEAN /\ faults' \in 0..MaxFaults
  /\ mAgentGoodByeInfo' \in [Agents -> 0..(nAgentGoodByeTimeoutS + 1) \cup {None}]
  /\ agent' \in [Agents -> {"up", "leaving", "down"}]
  /\ mAgentConnectPool' = mAgentConnectPool /\ agentOf' = agentOf /\ to' = to /\ ctx' = ctx
  /\ mConnection' \in [Pools -> SUBSET Conns]
  /\ \A p \in Pools : mConnection'[p] \subseteq mConnection[p]
  /\ sock' \in [Conns -> {"new", "open", "closed"}]
  /\ \A k \in Conns : \/ sock'[k] = sock[k]
                      \/ sock[k] = "open" /\ sock'[k] = "closed" /\ k \in closing'
  /\ closing' \subseteq {k \in Conns : sock'[k] = "closed"} /\ early' \subseteq Conns
  /\ \A k \in closing \cup early :
       \/ k \in closing' \cup early'
       \/ k \in ctx /\ \A p \in Pools : k \notin mConnection'[p]

(* ... and what the goroutines do meanwhile.                               *)
MovesOn ==
  /\ DOMAIN proc' = Procs
  /\ \A h \in Procs : \/ proc'[h] = proc[h]
                      \/ Well(h, proc'[h]) /\ proc'[h].pc \notin {"add", "ctx"}

LEMMA MildStep ==
  ASSUME ClientInv, Milder, MovesOn
  PROVE  ClientInv'
<1>1. TypeOK'
  <2>1. \A a \in Agents : mAgentConnectPool'[a] \in Pools => agentOf'[mAgentConnectPool'[a]] = a
    BY DEF ClientInv, TypeOK, Milder
  <2>2. \A p \in Pools : \A k \in mConnection'[p] :
          to'[k] = agentOf'[p] /\ \A q \in Pools : k \in mConnection'[q] => p = q
    BY DEF ClientInv, TypeOK, Milder
  <2>3. /\ mAgentConnectPool' \in [Agents -> Pools \cup {None, Nil}]
        /\ agentOf' \in [Pools -> Agents \cup {None}]
        /\ to' \in [Conns -> Agents \cup {None}] /\ ctx' \subseteq Conns
    BY DEF ClientInv, TypeOK, Milder
  <2> QED BY <2>1, <2>2, <2>3 DEF TypeOK, Milder
<1>2. \A k \in Conns : Kept(k) => Kept(k)' \/ (k \in ctx /\ InNoPool(k)')
  BY DEF Kept, Alive, InNoPool, Milder
<1>3. \A k \in Conns : /\ sock[k] # "new" <=> sock'[k] # "new"
                       /\ InNoPool(k) => InNoPool(k)'
  BY DEF InNoPool, Milder
<1>4. ASSUME NEW h \in Procs
      PROVE  /\ Well(h, proc'[h])
             /\ proc'[h] = proc[h] \/ proc'[h].pc \notin {"add", "ctx"}
  BY DEF ClientInv, Manned, MovesOn
<1>5. ASSUME NEW h \in Procs
      PROVE  Well(h, proc[h])'
  <2>1. Well(h, proc'[h])
    BY <1>4
  <2>2. PoolUsed(proc[h])'
    BY <2>1 DEF Well, PoolUsed, Milder
  <2>3. ConnUsed(proc[h])'
    BY <2>1, <1>3 DEF Well, ConnUsed
  <2>4. Added(proc[h])'
    <3>1. SUFFICES ASSUME proc'[h].pc = "add"
                   PROVE  Added(proc[h])'
      BY DEF Added
    <3>2. proc'[h].conn \in Conns /\ Added(proc'[h])
      BY <2>1, <3>1 DEF Well, ConnUsed
    <3>3. InNoPool(proc'[h].conn) /\ Kept(proc'[h].conn) /\ proc'[h].conn \notin ctx
      BY <3>1, <3>2 DEF Added
    <3>4. PICK k \in Conns : k = proc'[h].conn
      BY <3>2
    <3>5. InNoPool(k)' /\ Kept(k)'
      BY <1>2, <1>3, <3>3, <3>4
    <3>6. InNoPool(proc[h].conn)' /\ Kept(proc[h].conn)'
      BY <3>4, <3>5 DEF InNoPool, Kept, Alive
    <3> QED BY <3>1, <3>2, <3>6 DEF Added, Milder
  <2>5. Chosen(h, proc[h])'
    BY <2>1 DEF Well, Chosen, Rest, Wants, Idle
  <2>6. Listed(proc[h])'
    BY <2>1 DEF Well, Listed, Milder
  <2>7. Heard(proc[h])'
    BY <2>1 DEF Well, Heard
  <2> QED BY <2>2, <2>3, <2>4, <2>5, <2>6, <2>7 DEF Well
<1>6. Alone'
  BY <1>4 DEF ClientInv, Alone
<1>7. Objects'
  <2>1. \A k \in Conns : sock'[k] = "new" => k \notin ctx' /\ InNoPool(k)'
    BY <1>3 DEF ClientInv, Objects, Milder
  <2>2. \A p \in Pools : agentOf'[p] = None => mConnection'[p] = {}
    BY DEF ClientInv, Objects, Milder
  <2>3. \A p \in Pools : \A k \in mConnection'[p] : Kept(k)'
    <3>1. SUFFICES ASSUME NEW p \in Pools, NEW k \in mConnection'[p]
                   PROVE  Kept(k)'
      OBVIOUS
    <3>2. k \in Conns /\ Kept(k)
      BY DEF Milder, ClientInv, Objects, TypeOK
    <3>3. ~InNoPool(k)'
      BY DEF InNoPool
    <3> QED BY <1>2, <3>2, <3>3
  <2> QED BY <2>1, <2>2, <2>3 DEF Objects
<1> QED BY <1>1, <1>5, <1>6, <1>7 DEF ClientInv, Manned, MovesOn

-----------------------------------------------------------------------------
(* States of a goroutine that are well whatever the pools are.             *)
LEMMA PlainWell ==
  ASSUME NEW g, NEW s, s.pc \in {"idle", "get", "create"}
  PROVE  Well(g, s) /\ s.pc \notin {"add", "ctx"}
BY DEF Well, PoolUsed, ConnUsed, Added, Chosen, Listed, Heard

LEMMA RestWell ==
  ASSUME NEW g
  PROVE  Well(g, Rest(g)) /\ Rest(g).pc \notin {"add", "ctx"}
<1>1. Rest(g).pc \in {"idle", "get"}
  BY DEF Rest, Idle
<1> QED BY <1>1, PlainWell

LEMMA DialWell ==
  ASSUME NEW g, NEW why, NEW p \in Pools, NEW left, agentOf[p] # None
  PROVE  LET s == [pc |-> "dial", why |-> why, pool |-> p, left |-> left]
         IN Well(g, s) /\ s.pc \notin {"add", "ctx"}
BY DEF Well, PoolUsed, ConnUsed, Added, Chosen, Listed, Heard

LEMMA UseWell ==
  ASSUME NEW g, NEW why, NEW p \in Pools, NEW k \in Conns, agentOf[p] # None, sock[k] # "new"
  PROVE  LET s == [pc |-> "use", why |-> why, pool |-> p, conn |-> k]
         IN Well(g, s) /\ s.pc \notin {"add", "ctx"}
BY DEF Well, PoolUsed, ConnUsed, Added, Chosen, Listed, Heard

(* Who moves.                                                              *)
LEMMA OneMoves ==
  ASSUME ClientInv, NEW g \in Procs, NEW s, Well(g, s), s.pc \notin {"add", "ctx"},
         Goes(g, s)
  PROVE  MovesOn
<1>1. DOMAIN proc = Procs
  BY DEF ClientInv, Manned
<1>2. DOMAIN proc' = Procs /\ proc'[g] = s /\ \A h \in Procs : h # g => proc'[h] = proc[h]
  BY <1>1 DEF Goes
<1> QED BY <1>2 DEF MovesOn

LEMMA NobodyMoves ==
  ASSUME ClientInv, proc' = proc
  PROVE  MovesOn
BY DEF ClientInv, Manned, MovesOn

(* getConnect's end: g goes on, and a maker may begin for its pool.        *)
LEMMA ThenMoves ==
  ASSUME ClientInv, NEW g \in Procs, NEW s, Well(g, s), s.pc \notin {"add", "ctx"},
         proc[g].pc = "use", Then(g, proc[g].pool, s)
  PROVE  MovesOn
<1>1. DOMAIN proc = Procs /\ proc[g].pool \in Pools /\ agentOf[proc[g].pool] # None
  BY DEF ClientInv, Manned, Well, PoolUsed
<1>2. CASE Goes(g, s)
  BY <1>2, OneMoves
<1>3. ASSUME NEW m \in Makers, proc[m] = Idle,
             proc' = [proc EXCEPT ![g] = s,
                        ![m] = [pc |-> "dial", why |-> "spare", pool |-> proc[g].pool, left |-> 1]]
      PROVE  MovesOn
  <2> DEFINE d == [pc |-> "dial", why |-> "spare", pool |-> proc[g].pool, left |-> 1]
  <2>1. m \in Procs /\ m # g
    BY <1>3 DEF Procs, Idle
  <2>2. Well(m, d) /\ d.pc \notin {"add", "ctx"}
    BY <1>1, DialWell
  <2>3. proc' = [proc EXCEPT ![g] = s, ![m] = d]
    BY <1>3
  <2> HIDE DEF d
  <2>4. /\ DOMAIN proc' = Procs /\ proc'[g] = s /\ proc'[m] = d
        /\ \A h \in Procs : h # g /\ h # m => proc'[h] = proc[h]
    BY <1>1, <2>1, <2>3
  <2> QED BY <2>2, <2>4 DEF MovesOn
<1> QED BY <1>2, <1>3 DEF Then

(* What the pools may do meanwhile.                                        *)
LEMMA StillMild ==
  ASSUME ClientInv,
         UNCHANGED <<mAgentConnectPool, agentOf, connVars>>,
         szActiveAgent' \in Agents, crashed' \in BOOLEAN, faults' \in 0..MaxFaults,
         mAgentGoodByeInfo' \in [Agents -> 0..(nAgentGoodByeTimeoutS + 1) \cup {None}],
         agent' \in [Agents -> {"up", "leaving", "down"}]
  PROVE  Milder
BY DEF ClientInv, TypeOK, connVars, Milder

LEMMA ShutMild ==
  ASSUME ClientInv, NEW K \in SUBSET Conns, Shuts(K),
         UNCHANGED <<mapVars, to, ctx, early, crashed>>,
         mConnection' \in [Pools -> SUBSET Conns],
         \A p \in Pools : mConnection'[p] \subseteq mConnection[p],
         faults' \in 0..MaxFaults, agent' \in [Agents -> {"up", "leaving", "down"}]
  PROVE  Milder
<1> DEFINE live == {k \in K : Alive(k)}
<1>1. /\ sock' = [k \in Conns |-> IF k \in live THEN "closed" ELSE sock[k]]
      /\ closing' = closing \cup live
  BY DEF Shuts
<1>2. sock \in [Conns -> {"new", "open", "closed"}] /\ closing \subseteq {k \in Conns : sock[k] = "closed"}
  BY DEF ClientInv, TypeOK
<1>3. sock' \in [Conns -> {"new", "open", "closed"}]
  BY <1>1, <1>2
<1>4. \A k \in Conns : \/ sock'[k] = sock[k]
                       \/ sock[k] = "open" /\ sock'[k] = "closed" /\ k \in closing'
  BY <1>1, <1>2 DEF Alive
<1>5. closing' \subseteq {k \in Conns : sock'[k] = "closed"}
  BY <1>1, <1>2
<1>6. \A k \in closing \cup early : k \in closing' \cup early'
  BY <1>1
<1>7. /\ szActiveAgent' \in Agents /\ crashed' \in BOOLEAN /\ early' \subseteq Conns
      /\ mAgentGoodByeInfo' \in [Agents -> 0..(nAgentGoodByeTimeoutS + 1) \cup {None}]
      /\ mAgentConnectPool' = mAgentConnectPool /\ agentOf' = agentOf /\ to' = to /\ ctx' = ctx
  BY DEF ClientInv, TypeOK, mapVars
<1> QED BY <1>3, <1>4, <1>5, <1>6, <1>7 DEF Milder

-----------------------------------------------------------------------------
LEMMA ActivePool ==
  ASSUME ClientInv, GetActiveAgentConnectPool \in Pools
  PROVE  agentOf[GetActiveAgentConnectPool] # None
BY PoolAssumption DEF ClientInv, TypeOK, GetActiveAgentConnectPool

LEMMA PooledConn ==
  ASSUME ClientInv, NEW p \in Pools, NEW k \in mConnection[p]
  PROVE  k \in Conns /\ sock[k] # "new"
BY DEF ClientInv, TypeOK, Objects, InNoPool

LEMMA SwitchMoves ==
  ASSUME ClientInv, NEW g \in Procs, NEW next, Well(g, next), next.pc \notin {"add", "ctx"},
         next \in {Rest(g), [pc |-> "create"]}, SwitchActiveAgent(g, next)
  PROVE  MovesOn
<1>1. CASE Goes(g, next)
  BY <1>1, OneMoves
<1>2. ASSUME NEW a \in Others, Goes(g, [pc |-> "set", host |-> a, next |-> next])
      PROVE  MovesOn
  <2> DEFINE s == [pc |-> "set", host |-> a, next |-> next]
  <2>1. a \in Agents
    BY DEF Others
  <2>2. Well(g, s) /\ s.pc \notin {"add", "ctx"}
    BY <2>1 DEF Well, PoolUsed, ConnUsed, Added, Chosen, Listed, Heard
  <2> HIDE DEF s
  <2> QED BY <1>2, <2>2, OneMoves DEF s
<1> QED BY <1>1, <1>2 DEF SwitchActiveAgent

LEMMA getConnectStep ==
  ASSUME ClientInv, NEW g \in Procs, NEW why, getConnect(g, why)
  PROVE  ClientInv'
<1> DEFINE p == GetActiveAgentConnectPool
<1>1. /\ UNCHANGED <<mapVars, connVars, agent, faults>>
      /\ crashed' = crashed \/ crashed' = TRUE
  BY DEF getConnect
<1>2. Milder
  BY <1>1, StillMild DEF mapVars, ClientInv, TypeOK
<1>3. CASE Goes(g, Rest(g))
  BY <1>2, <1>3, RestWell, OneMoves, MildStep
<1>4. CASE proc' = proc
  BY <1>2, <1>4, NobodyMoves, MildStep
<1>5. ASSUME p \in Pools, NEW k \in mConnection[p],
             Goes(g, [pc |-> "use", why |-> why, pool |-> p, conn |-> k])
      PROVE  ClientInv'
  <2> DEFINE s == [pc |-> "use", why |-> why, pool |-> p, conn |-> k]
  <2>1. k \in Conns /\ sock[k] # "new" /\ agentOf[p] # None
    BY <1>5, ActivePool, PooledConn
  <2>2. Well(g, s) /\ s.pc \notin {"add", "ctx"}
    BY <1>5, <2>1, UseWell
  <2>3. MovesOn
    <3> HIDE DEF s
    <3> QED BY <1>5, <2>2, OneMoves DEF s
  <2> QED BY <1>2, <2>3, MildStep
<1>6. ASSUME p \in Pools, Goes(g, [pc |-> "dial", why |-> why, pool |-> p, left |-> 1])
      PROVE  ClientInv'
  <2> DEFINE s == [pc |-> "dial", why |-> why, pool |-> p, left |-> 1]
  <2>1. Well(g, s) /\ s.pc \notin {"add", "ctx"}
    BY <1>6, ActivePool, DialWell
  <2>2. MovesOn
    <3> HIDE DEF s
    <3> QED BY <1>6, <2>1, OneMoves DEF s
  <2> QED BY <1>2, <2>2, MildStep
<1> QED BY <1>3, <1>4, <1>5, <1>6 DEF getConnect

LEMMA registerFailsStep ==
  ASSUME ClientInv, NEW g \in Procs, registerFails(g)
  PROVE  ClientInv'
<1>1. UNCHANGED <<mapVars, connVars, agent, crashed, faults>>
  BY DEF registerFails
<1>2. Milder
  BY <1>1, StillMild DEF mapVars, ClientInv, TypeOK
<1>3. CASE Goes(g, Rest(g))
  BY <1>2, <1>3, RestWell, OneMoves, MildStep
<1>4. CASE SwitchActiveAgent(g, Rest(g))
  <2>1. MovesOn
    BY <1>4, RestWell, SwitchMoves
  <2> QED BY <1>2, <2>1, MildStep
<1>5. CASE Goes(g, [pc |-> "get", why |-> {"unregister"}])
  <2> DEFINE s == [pc |-> "get", why |-> {"unregister"}]
  <2>1. Well(g, s) /\ s.pc \notin {"add", "ctx"}
    BY PlainWell
  <2>2. MovesOn
    <3> HIDE DEF s
    <3> QED BY <1>5, <2>1, OneMoves DEF s
  <2> QED BY <1>2, <2>2, MildStep
<1> QED BY <1>3, <1>4, <1>5 DEF registerFails

LEMMA setActiveAgentStep ==
  ASSUME ClientInv, NEW g \in Procs, setActiveAgent(g)
  PROVE  ClientInv'
<1>1. /\ proc[g].pc = "set" /\ szActiveAgent' = proc[g].host /\ Goes(g, proc[g].next)
      /\ UNCHANGED <<mAgentConnectPool, mAgentGoodByeInfo, agentOf, connVars, agent, crashed, faults>>
  BY DEF setActiveAgent, At
<1>2. proc[g].host \in Agents /\ proc[g].next \in {Rest(g), [pc |-> "create"]}
  BY <1>1 DEF ClientInv, Manned, Well, Chosen
<1>3. Milder
  BY <1>1, <1>2, StillMild DEF ClientInv, TypeOK
<1>4. Well(g, proc[g].next) /\ proc[g].next.pc \notin {"add", "ctx"}
  BY <1>2, RestWell, PlainWell
<1>5. MovesOn
  BY <1>1, <1>4, OneMoves
<1> QED BY <1>3, <1>5, MildStep

LEMMA keepaliveStep ==
  ASSUME ClientInv, NEW g \in Procs, keepalive(g)
  PROVE  ClientInv'
<1>1. proc[g].pc = "use" /\ UNCHANGED <<mapVars, connVars, agent, crashed, faults>>
  BY DEF keepalive, At
<1>2. Milder
  BY <1>1, StillMild DEF mapVars, ClientInv, TypeOK
<1>3. CASE Then(g, proc[g].pool, Rest(g))
  <2>1. MovesOn
    BY <1>1, <1>3, RestWell, ThenMoves
  <2> QED BY <1>2, <2>1, MildStep
<1>4. ASSUME NEW l \in Lists,
             Then(g, proc[g].pool, [pc |-> "swap", list |-> l, pools |-> mAgentConnectPool])
      PROVE  ClientInv'
  <2> DEFINE s == [pc |-> "swap", list |-> l, pools |-> mAgentConnectPool]
  <2>1. l \in SUBSET Agents
    BY PoolAssumption
  <2>2. Listed(s)
    BY <2>1 DEF Listed, ClientInv, TypeOK
  <2>3. Well(g, s) /\ s.pc \notin {"add", "ctx"}
    BY <2>2 DEF Well, PoolUsed, ConnUsed, Added, Chosen, Heard
  <2>4. MovesOn
    <3> HIDE DEF s
    <3> QED BY <1>1, <1>4, <2>3, ThenMoves DEF s
  <2> QED BY <1>2, <2>4, MildStep
<1> QED BY <1>3, <1>4 DEF keepalive

LEMMA handleSayGoodbyeNotifyStep ==
  ASSUME ClientInv, NEW g \in Procs, handleSayGoodbyeNotify(g)
  PROVE  ClientInv'
<1>1. CASE AddGoodByeAgent(g)
  <2> DEFINE s == [pc |-> "other", from |-> proc[g].from]
  <2>1. /\ proc[g].pc = "bye" /\ Goes(g, s)
        /\ mAgentGoodByeInfo' = [mAgentGoodByeInfo EXCEPT ![proc[g].from] = 0]
        /\ UNCHANGED <<szActiveAgent, mAgentConnectPool, agentOf, connVars, agent, crashed, faults>>
    BY <1>1 DEF AddGoodByeAgent, At
  <2>2. proc[g].from \in Agents
    BY <2>1 DEF ClientInv, Manned, Well, Heard
  <2>3. Well(g, s) /\ s.pc \notin {"add", "ctx"}
    BY <2>2 DEF Well, PoolUsed, ConnUsed, Added, Chosen, Listed, Heard
  <2>4. mAgentGoodByeInfo' \in [Agents -> 0..(nAgentGoodByeTimeoutS + 1) \cup {None}]
    BY <2>1, <2>2, PoolAssumption DEF ClientInv, TypeOK
  <2>5. Milder
    BY <2>1, <2>4, StillMild DEF ClientInv, TypeOK
  <2>6. MovesOn
    <3> HIDE DEF s
    <3> QED BY <2>1, <2>3, OneMoves
  <2> QED BY <2>5, <2>6, MildStep
<1>2. CASE SwitchToOtherAgent(g)
  <2> DEFINE s == [pc |-> "create"]
  <2>1. UNCHANGED <<mapVars, connVars, agent, crashed, faults>>
    BY <1>2 DEF SwitchToOtherAgent
  <2>2. Milder
    BY <2>1, StillMild DEF mapVars, ClientInv, TypeOK
  <2>3. Well(g, s) /\ s.pc \notin {"add", "ctx"}
    BY PlainWell
  <2>4. SwitchActiveAgent(g, s) \/ Goes(g, s)
    BY <1>2 DEF SwitchToOtherAgent
  <2>5. s \in {Rest(g), [pc |-> "create"]}
    OBVIOUS
  <2> HIDE DEF s
  <2>6. MovesOn
    BY <2>3, <2>4, <2>5, SwitchMoves, OneMoves
  <2> QED BY <2>2, <2>6, MildStep
<1>3. CASE createAgentIdleConnect(g)
  <2> DEFINE p == GetActiveAgentConnectPool
             missing == nInitConnectNum - Cardinality(mConnection[p])
             s == [pc |-> "dial", why |-> "idle", pool |-> p, left |-> missing]
  <2>1. /\ UNCHANGED <<mapVars, connVars, agent, faults>>
        /\ crashed' = crashed \/ crashed' = TRUE
    BY <1>3 DEF createAgentIdleConnect
  <2>2. Milder
    BY <2>1, StillMild DEF mapVars, ClientInv, TypeOK
  <2>3. \/ Goes(g, Rest(g)) \/ proc' = proc
        \/ p \in Pools /\ Goes(g, s)
    BY <1>3 DEF createAgentIdleConnect
  <2>4. p \in Pools => Well(g, s) /\ s.pc \notin {"add", "ctx"}
    BY ActivePool, DialWell
  <2> HIDE DEF s, p
  <2>5. MovesOn
    BY <2>3, <2>4, RestWell, OneMoves, NobodyMoves
  <2> QED BY <2>2, <2>5, MildStep
<1> QED BY <1>1, <1>2, <1>3 DEF handleSayGoodbyeNotify

LEMMA AgentStep ==
  ASSUME ClientInv, NEW a \in Agents, SaysGoodbye(a) \/ GoesDown(a) \/ ComesUp(a) \/ Tick(a)
  PROVE  ClientInv'
<1>0. /\ agent \in [Agents -> {"up", "leaving", "down"}] /\ faults \in 0..MaxFaults
      /\ mAgentGoodByeInfo \in [Agents -> 0..(nAgentGoodByeTimeoutS + 1) \cup {None}]
      /\ mConnection \in [Pools -> SUBSET Conns]
  BY DEF ClientInv, TypeOK
<1>1. Faulty => faults' \in 0..MaxFaults
  BY <1>0, PoolAssumption DEF Faulty
<1>2. CASE SaysGoodbye(a)
  <2>1. /\ UNCHANGED <<mapVars, connVars, crashed>> /\ Faulty
        /\ agent' = [agent EXCEPT ![a] = "leaving"]
    BY <1>2 DEF SaysGoodbye
  <2>2. agent' \in [Agents -> {"up", "leaving", "down"}]
    BY <1>0, <2>1
  <2>3. Milder
    BY <1>1, <2>1, <2>2, StillMild DEF mapVars, ClientInv, TypeOK
  <2> DEFINE s == [pc |-> "bye", from |-> a]
  <2>4. \A g : Well(g, s) /\ s.pc \notin {"add", "ctx"}
    BY DEF Well, PoolUsed, ConnUsed, Added, Chosen, Listed, Heard
  <2>5. proc' = proc \/ \E g \in Byes : Goes(g, s)
    BY <1>2 DEF SaysGoodbye
  <2> HIDE DEF s
  <2>6. MovesOn
    BY <2>4, <2>5, OneMoves, NobodyMoves DEF Procs
  <2> QED BY <2>3, <2>6, MildStep
<1>3. CASE GoesDown(a)
  <2> DEFINE K == {k \in Conns : to[k] = a}
  <2>1. /\ UNCHANGED <<mapVars, mConnection, to, ctx, early, proc, crashed>> /\ Shuts(K)
        /\ agent' = [agent EXCEPT ![a] = "down"] /\ (Faulty \/ faults' = faults)
    BY <1>3 DEF GoesDown
  <2>2. agent' \in [Agents -> {"up", "leaving", "down"}] /\ faults' \in 0..MaxFaults
    BY <1>0, <1>1, <2>1
  <2>3. K \in SUBSET Conns
    OBVIOUS
  <2> HIDE DEF K
  <2>4. Milder
    BY <1>0, <2>1, <2>2, <2>3, ShutMild
  <2> QED BY <2>1, <2>4, NobodyMoves, MildStep
<1>4. CASE ComesUp(a)
  <2>1. UNCHANGED <<mapVars, connVars, proc, crashed, faults>> /\ agent' = [agent EXCEPT ![a] = "up"]
    BY <1>4 DEF ComesUp
  <2>2. agent' \in [Agents -> {"up", "leaving", "down"}]
    BY <1>0, <2>1
  <2>3. Milder
    BY <2>1, <2>2, StillMild DEF mapVars, ClientInv, TypeOK
  <2> QED BY <2>1, <2>3, NobodyMoves, MildStep
<1>5. CASE Tick(a)
  <2>1. /\ UNCHANGED <<szActiveAgent, mAgentConnectPool, agentOf, connVars, agent, proc, crashed, faults>>
        /\ mAgentGoodByeInfo[a] \in 0..nAgentGoodByeTimeoutS
        /\ mAgentGoodByeInfo' = [mAgentGoodByeInfo EXCEPT ![a] = @ + 1]
    BY <1>5 DEF Tick
  <2>2. mAgentGoodByeInfo' \in [Agents -> 0..(nAgentGoodByeTimeoutS + 1) \cup {None}]
    BY <1>0, <2>1, PoolAssumption
  <2>3. Milder
    BY <2>1, <2>2, StillMild DEF ClientInv, TypeOK
  <2> QED BY <2>1, <2>3, NobodyMoves, MildStep
<1> QED BY <1>2, <1>3, <1>4, <1>5

LEMMA ClearGoodbyeTimeoutStep ==
  ASSUME ClientInv, NEW g \in Procs, ClearGoodbyeTimeout(g)
  PROVE  ClientInv'
<1>1. /\ UNCHANGED <<szActiveAgent, mAgentConnectPool, agentOf, connVars, agent, proc, crashed, faults>>
      /\ mAgentGoodByeInfo' = [a \in Agents |->
           IF mAgentGoodByeInfo[a] # None /\ timedOut(mAgentGoodByeInfo[a]) THEN None
           ELSE mAgentGoodByeInfo[a]]
  BY DEF ClearGoodbyeTimeout
<1>2. mAgentGoodByeInfo' \in [Agents -> 0..(nAgentGoodByeTimeoutS + 1) \cup {None}]
  BY <1>1 DEF ClientInv, TypeOK
<1>3. Milder
  BY <1>1, <1>2, StillMild DEF ClientInv, TypeOK
<1> QED BY <1>1, <1>3, NobodyMoves, MildStep

LEMMA CallEndsStep ==
  ASSUME ClientInv, NEW g \in Procs, CallEnds(g)
  PROVE  ClientInv'
<1>1. /\ proc[g].pc = "use" /\ Then(g, proc[g].pool, Rest(g))
      /\ UNCHANGED <<mapVars, to, ctx, early, agent, crashed, faults>>
  BY DEF CallEnds, At
<1>2. MovesOn
  BY <1>1, RestWell, ThenMoves
<1>3. proc[g].conn \in Conns
  BY <1>1 DEF ClientInv, Manned, Well, ConnUsed
<1>4. Milder
  <2>1. CASE UNCHANGED <<mConnection, sock, closing>>
    BY <1>1, <2>1, StillMild DEF mapVars, connVars, ClientInv, TypeOK
  <2>2. CASE clearConnect(proc[g].conn)
    <3> DEFINE k == proc[g].conn
    <3>1. /\ mConnection' = [p \in Pools |-> IF p \in PoolOf(k) THEN mConnection[p] \ {k}
                                             ELSE mConnection[p]]
          /\ Shuts({k}) \/ UNCHANGED <<sock, closing>>
      BY <2>2 DEF clearConnect
    <3>2. /\ mConnection' \in [Pools -> SUBSET Conns]
          /\ \A p \in Pools : mConnection'[p] \subseteq mConnection[p]
      BY <3>1 DEF ClientInv, TypeOK
    <3>3. CASE Shuts({k})
      BY <1>1, <1>3, <3>2, <3>3, ShutMild DEF ClientInv, TypeOK
    <3>4. CASE UNCHANGED <<sock, closing>>
      BY <1>1, <3>2, <3>4 DEF Milder, ClientInv, TypeOK, mapVars
    <3> QED BY <3>1, <3>3, <3>4
  <2> QED BY <2>1, <2>2 DEF CallEnds
<1> QED BY <1>2, <1>4, MildStep

LEMMA unregisterStep ==
  ASSUME ClientInv, NEW g \in Procs, unregister(g)
  PROVE  ClientInv'
<1>1. /\ proc[g].pc = "use" /\ Then(g, proc[g].pool, Rest(g))
      /\ UNCHANGED <<mapVars, mConnection, to, ctx, early, agent, crashed, faults>>
  BY DEF unregister, At
<1>2. MovesOn
  BY <1>1, RestWell, ThenMoves
<1> DEFINE K == {k \in Conns : to[k] = to[proc[g].conn]}
<1>3. Shuts(K) \/ UNCHANGED <<sock, closing>>
  BY DEF unregister
<1>4. K \in SUBSET Conns
  OBVIOUS
<1> HIDE DEF K
<1>5. CASE Shuts(K)
  <2>1. Milder
    BY <1>1, <1>4, <1>5, ShutMild DEF ClientInv, TypeOK
  <2> QED BY <1>2, <2>1, MildStep
<1>6. CASE UNCHANGED <<sock, closing>>
  <2>1. Milder
    BY <1>1, <1>6, StillMild DEF mapVars, connVars, ClientInv, TypeOK
  <2> QED BY <1>2, <2>1, MildStep
<1> QED BY <1>3, <1>5, <1>6

LEMMA BreaksStep ==
  ASSUME ClientInv, NEW k \in Conns, Breaks(k)
  PROVE  ClientInv'
<1>1. /\ Shuts({k}) /\ Faulty /\ UNCHANGED <<mapVars, mConnection, to, ctx, early, agent, proc, crashed>>
  BY DEF Breaks
<1>2. faults' \in 0..MaxFaults
  BY <1>1, PoolAssumption DEF Faulty, ClientInv, TypeOK
<1>3. Milder
  BY <1>1, <1>2, ShutMild DEF ClientInv, TypeOK
<1> QED BY <1>1, <1>3, NobodyMoves, MildStep

(* A connection that stays in a pool after its OnCloseConnection is early. *)
LEMMA OnCloseConnectionStep ==
  ASSUME ClientInv, NEW k \in Conns, OnCloseConnection(k)
  PROVE  ClientInv'
<1>1. /\ mConnection' = [p \in Pools |-> IF p \in PoolOf(k) THEN mConnection[p] \ {k}
                                         ELSE mConnection[p]]
      /\ closing' = closing \ {k}
      /\ early' = IF Early(k) THEN early \cup {k} ELSE early
      /\ UNCHANGED <<mapVars, sock, to, ctx, agent, proc, crashed, faults>>
  BY DEF OnCloseConnection
<1>2. /\ mConnection' \in [Pools -> SUBSET Conns]
      /\ \A p \in Pools : mConnection'[p] \subseteq mConnection[p]
  BY <1>1 DEF ClientInv, TypeOK
<1>3. ~Early(k) => k \in ctx /\ \A p \in Pools : k \notin mConnection'[p]
  <2>1. SUFFICES ASSUME ~Early(k), NEW p \in Pools, k \in mConnection'[p]
                 PROVE  FALSE
    BY DEF Early
  <2>2. k \in ctx /\ k \in mConnection[p]
    BY <1>2, <2>1 DEF Early
  <2>3. p = mAgentConnectPool[to[k]]
    BY <2>1, <2>2 DEF Early
  <2>4. p \in PoolOf(k)
    BY <2>2, <2>3 DEF PoolOf
  <2> QED BY <1>1, <2>1, <2>4
<1>4. \A c \in closing \cup early :
        \/ c \in closing' \cup early'
        \/ c \in ctx /\ \A p \in Pools : c \notin mConnection'[p]
  BY <1>1, <1>3
<1>5. Milder
  BY <1>1, <1>2, <1>4 DEF Milder, ClientInv, TypeOK, mapVars
<1> QED BY <1>1, <1>5, NobodyMoves, MildStep

-----------------------------------------------------------------------------
(* The steps that make, add, name and collect objects.                     *)
LEMMA registerStep ==
  ASSUME ClientInv, NEW g \in Procs, register(g)
  PROVE  ClientInv'
<1> DEFINE k == Some({c \in Conns : sock[c] = "new"})
           q == proc[g].pool
           s == [pc |-> "add", why |-> proc[g].why, pool |-> proc[g].pool,
                 left |-> proc[g].left, conn |-> k]
<1>1. /\ proc[g].pc = "dial" /\ k \in Conns /\ sock[k] = "new"
      /\ sock' = [sock EXCEPT ![k] = "open"] /\ to' = [to EXCEPT ![k] = agentOf[q]]
      /\ Goes(g, s)
      /\ UNCHANGED <<mapVars, mConnection, ctx, closing, early, agent, crashed, faults>>
  BY DEF register, NewConnect, At, Some
<1>2. q \in Pools /\ agentOf[q] # None
  BY <1>1 DEF ClientInv, Manned, Well, PoolUsed
<1>3. /\ s.pc = "add" /\ s.pool = q /\ s.conn = k
      /\ DOMAIN s = {"pc", "why", "pool", "left", "conn"}
  OBVIOUS
<1> HIDE DEF k, q, s
<1>4. /\ agentOf' = agentOf /\ mConnection' = mConnection /\ ctx' = ctx /\ closing' = closing
      /\ early' = early /\ mAgentConnectPool' = mAgentConnectPool
  BY <1>1 DEF mapVars
<1>5. /\ sock'[k] = "open" /\ to'[k] = agentOf[q]
      /\ \A c \in Conns : c # k => sock'[c] = sock[c] /\ to'[c] = to[c]
      /\ sock' \in [Conns -> {"new", "open", "closed"}] /\ to' \in [Conns -> Agents \cup {None}]
  BY <1>1, <1>2 DEF ClientInv, TypeOK
<1>6. k \notin ctx /\ InNoPool(k) /\ k \notin closing
  BY <1>1 DEF ClientInv, TypeOK, Objects
<1>7. DOMAIN proc' = Procs /\ proc'[g] = s /\ \A h \in Procs : h # g => proc'[h] = proc[h]
  BY <1>1 DEF Goes, ClientInv, Manned
<1>8. TypeOK'
  <2>1. closing' \subseteq {c \in Conns : sock'[c] = "closed"}
    BY <1>4, <1>5, <1>6 DEF ClientInv, TypeOK
  <2>2. \A p \in Pools : \A c \in mConnection'[p] :
          to'[c] = agentOf'[p] /\ \A r \in Pools : c \in mConnection'[r] => p = r
    BY <1>4, <1>5, <1>6 DEF ClientInv, TypeOK, InNoPool
  <2> QED BY <1>1, <1>4, <1>5, <2>1, <2>2 DEF ClientInv, TypeOK, mapVars
<1>9. ASSUME NEW h \in Procs, h # g
      PROVE  Well(h, proc[h])' /\ (proc[h].pc \in {"use", "add", "ctx"} => proc[h].conn # k)
  <2>1. Well(h, proc[h]) /\ proc'[h] = proc[h]
    BY <1>7, <1>9 DEF ClientInv, Manned
  <2>2. proc[h].pc \in {"use", "add", "ctx"} => proc[h].conn # k
    BY <1>1, <2>1 DEF Well, ConnUsed
  <2>3. PoolUsed(proc[h])' /\ Chosen(h, proc[h])' /\ Listed(proc[h])' /\ Heard(proc[h])'
    BY <1>4, <2>1 DEF Well, PoolUsed, Chosen, Listed, Heard, Rest, Wants, Idle
  <2>4. ConnUsed(proc[h])'
    BY <1>5, <2>1, <2>2 DEF Well, ConnUsed
  <2>5. Added(proc[h])'
    BY <1>4, <1>5, <2>1, <2>2 DEF Well, ConnUsed, Added, InNoPool, Kept, Alive
  <2> QED BY <2>2, <2>3, <2>4, <2>5 DEF Well
<1>10. Well(g, proc[g])'
  <2>1. PoolUsed(proc[g])' /\ Chosen(g, proc[g])' /\ Listed(proc[g])' /\ Heard(proc[g])'
    BY <1>2, <1>3, <1>4, <1>7 DEF PoolUsed, Chosen, Listed, Heard
  <2>2. ConnUsed(proc[g])'
    BY <1>1, <1>3, <1>5, <1>7 DEF ConnUsed
  <2>3. Added(proc[g])'
    BY <1>3, <1>4, <1>5, <1>6, <1>7 DEF Added, InNoPool, Kept, Alive
  <2> QED BY <2>1, <2>2, <2>3 DEF Well
<1>11. Alone'
  BY <1>3, <1>7, <1>9 DEF ClientInv, Alone
<1>12. Objects'
  BY <1>4, <1>5, <1>6 DEF ClientInv, Objects, InNoPool, Kept, Alive, TypeOK
<1> QED BY <1>7, <1>8, <1>9, <1>10, <1>11, <1>12 DEF ClientInv, Manned

LEMMA AddConnectStep ==
  ASSUME ClientInv, NEW g \in Procs, AddConnect(g)
  PROVE  ClientInv'
<1> DEFINE k == proc[g].conn
           q == proc[g].pool
           s == [proc[g] EXCEPT !.pc = "ctx"]
<1>1. /\ proc[g].pc = "add" /\ Goes(g, s)
      /\ mConnection' = [mConnection EXCEPT ![q] = @ \cup {k}]
      /\ UNCHANGED <<mapVars, sock, to, ctx, closing, early, agent, crashed, faults>>
  BY DEF AddConnect, At
<1>2. /\ q \in Pools /\ agentOf[q] # None /\ k \in Conns /\ sock[k] # "new"
      /\ DOMAIN proc[g] = {"pc", "why", "pool", "left", "conn"}
      /\ to[k] = agentOf[q] /\ InNoPool(k) /\ Kept(k)
  BY <1>1 DEF ClientInv, Manned, Well, PoolUsed, ConnUsed, Added
<1>3. s.pc = "ctx" /\ s.pool = q /\ s.conn = k
  BY <1>2
<1> HIDE DEF k, q, s
<1>4. /\ agentOf' = agentOf /\ sock' = sock /\ to' = to /\ ctx' = ctx /\ closing' = closing
      /\ early' = early /\ mAgentConnectPool' = mAgentConnectPool
  BY <1>1 DEF mapVars
<1>5. /\ mConnection' \in [Pools -> SUBSET Conns] /\ mConnection'[q] = mConnection[q] \cup {k}
      /\ \A p \in Pools : p # q => mConnection'[p] = mConnection[p]
  BY <1>1, <1>2 DEF ClientInv, TypeOK
<1>6. DOMAIN proc' = Procs /\ proc'[g] = s /\ \A h \in Procs : h # g => proc'[h] = proc[h]
  BY <1>1 DEF Goes, ClientInv, Manned
<1>7. TypeOK'
  <2>1. \A p \in Pools : \A c \in mConnection'[p] :
          to'[c] = agentOf'[p] /\ \A r \in Pools : c \in mConnection'[r] => p = r
    BY <1>2, <1>4, <1>5 DEF ClientInv, TypeOK, InNoPool
  <2> QED BY <1>1, <1>4, <1>5, <2>1 DEF ClientInv, TypeOK, mapVars
<1>8. ASSUME NEW h \in Procs, h # g
      PROVE  Well(h, proc[h])'
  <2>1. Well(h, proc[h]) /\ proc'[h] = proc[h]
    BY <1>6, <1>8 DEF ClientInv, Manned
  <2>2. proc[h].pc = "add" => proc[h].conn # k
    BY <1>1, <1>8 DEF ClientInv, Alone, k
  <2>3. PoolUsed(proc[h])' /\ ConnUsed(proc[h])' /\ Chosen(h, proc[h])' /\ Listed(proc[h])'
        /\ Heard(proc[h])'
    BY <1>4, <2>1 DEF Well, PoolUsed, ConnUsed, Chosen, Listed, Heard, Rest, Wants, Idle
  <2>4. Added(proc[h])'
    BY <1>4, <1>5, <2>1, <2>2 DEF Well, Added, InNoPool, Kept, Alive
  <2> QED BY <2>3, <2>4 DEF Well
<1>9. Well(g, proc[g])'
  BY <1>2, <1>3, <1>4, <1>6 DEF Well, PoolUsed, ConnUsed, Added, Chosen, Listed, Heard
<1>10. Alone'
  BY <1>1, <1>3, <1>6 DEF ClientInv, Alone, k
<1>11. Objects'
  <2>1. \A c \in Conns : sock'[c] = "new" => c \notin ctx' /\ InNoPool(c)'
    BY <1>2, <1>4, <1>5 DEF ClientInv, Objects, InNoPool
  <2>2. \A p \in Pools : agentOf'[p] = None => mConnection'[p] = {}
    BY <1>2, <1>4, <1>5 DEF ClientInv, Objects
  <2>3. \A p \in Pools : \A c \in mConnection'[p] : Kept(c)'
    BY <1>2, <1>4, <1>5 DEF ClientInv, Objects, Kept, Alive
  <2> QED BY <2>1, <2>2, <2>3 DEF Objects
<1> QED BY <1>6, <1>7, <1>8, <1>9, <1>10, <1>11 DEF ClientInv, Manned

LEMMA setCtxStep ==
  ASSUME ClientInv, NEW g \in Procs, setCtx(g)
  PROVE  ClientInv'
<1> DEFINE r == proc[g]
<1>1. /\ r.pc = "ctx" /\ ctx' = ctx \cup {r.conn}
      /\ UNCHANGED <<mapVars, mConnection, sock, to, closing, early, agent, crashed, faults>>
  BY DEF setCtx, At
<1>2. r.pool \in Pools /\ agentOf[r.pool] # None /\ r.conn \in Conns /\ sock[r.conn] # "new"
  BY <1>1 DEF ClientInv, Manned, Well, PoolUsed, ConnUsed
<1>3. PICK s : Goes(g, s) /\ Well(g, s) /\ s.pc \notin {"add", "ctx"}
  <2>1. \/ Goes(g, Rest(g))
        \/ Goes(g, [pc |-> "dial", why |-> "idle", pool |-> r.pool, left |-> r.left - 1])
        \/ Goes(g, [pc |-> "use", why |-> r.why, pool |-> r.pool, conn |-> r.conn])
    BY DEF setCtx
  <2>2. CASE Goes(g, Rest(g))
    BY <2>2, RestWell
  <2>3. CASE Goes(g, [pc |-> "dial", why |-> "idle", pool |-> r.pool, left |-> r.left - 1])
    <3> DEFINE s == [pc |-> "dial", why |-> "idle", pool |-> r.pool, left |-> r.left - 1]
    <3>1. Well(g, s) /\ s.pc \notin {"add", "ctx"}
      BY <1>2, DialWell
    <3> HIDE DEF s
    <3> QED BY <2>3, <3>1 DEF s
  <2>4. CASE Goes(g, [pc |-> "use", why |-> r.why, pool |-> r.pool, conn |-> r.conn])
    <3> DEFINE s == [pc |-> "use", why |-> r.why, pool |-> r.pool, conn |-> r.conn]
    <3>1. Well(g, s) /\ s.pc \notin {"add", "ctx"}
      BY <1>2, UseWell
    <3> HIDE DEF s
    <3> QED BY <2>4, <3>1 DEF s
  <2> QED BY <2>1, <2>2, <2>3, <2>4
<1>4. /\ agentOf' = agentOf /\ sock' = sock /\ to' = to /\ mConnection' = mConnection
      /\ closing' = closing /\ early' = early /\ mAgentConnectPool' = mAgentConnectPool
  BY <1>1 DEF mapVars
<1>5. DOMAIN proc' = Procs /\ proc'[g] = s /\ \A h \in Procs : h # g => proc'[h] = proc[h]
  BY <1>3 DEF Goes, ClientInv, Manned
<1>6. TypeOK'
  BY <1>1, <1>2, <1>4 DEF ClientInv, TypeOK, mapVars
<1>7. ASSUME NEW h \in Procs
      PROVE  Well(h, proc[h])'
  <2>1. Well(h, proc'[h])
    BY <1>3, <1>5 DEF ClientInv, Manned
  <2>2. proc'[h].pc = "add" => proc'[h].conn # r.conn
    BY <1>1, <1>3, <1>5 DEF ClientInv, Alone
  <2>3. PoolUsed(proc[h])' /\ ConnUsed(proc[h])' /\ Chosen(h, proc[h])' /\ Listed(proc[h])'
        /\ Heard(proc[h])'
    BY <1>4, <2>1 DEF Well, PoolUsed, ConnUsed, Chosen, Listed, Heard, Rest, Wants, Idle
  <2>4. Added(proc[h])'
    BY <1>1, <1>4, <2>1, <2>2 DEF Well, Added, InNoPool, Kept, Alive
  <2> QED BY <2>3, <2>4 DEF Well
<1>8. Alone'
  BY <1>3, <1>5 DEF ClientInv, Alone
<1>9. Objects'
  BY <1>1, <1>2, <1>4 DEF ClientInv, Objects, InNoPool, Kept, Alive
<1> QED BY <1>5, <1>6, <1>7, <1>8, <1>9 DEF ClientInv, Manned

LEMMA CollectConnStep ==
  ASSUME ClientInv, NEW k \in Conns, CollectConn(k)
  PROVE  ClientInv'
<1>1. /\ sock[k] = "closed" /\ k \notin closing /\ ~Held(k) /\ InNoPool(k)
      /\ sock' = [sock EXCEPT ![k] = "new"] /\ to' = [to EXCEPT ![k] = None]
      /\ ctx' = ctx \ {k} /\ early' = early \ {k}
      /\ UNCHANGED <<mapVars, mConnection, closing, agent, proc, crashed, faults>>
  BY DEF CollectConn, InNoPool
<1>2. /\ agentOf' = agentOf /\ mConnection' = mConnection /\ closing' = closing /\ proc' = proc
      /\ mAgentConnectPool' = mAgentConnectPool
  BY <1>1 DEF mapVars
<1>3. /\ sock'[k] = "new"
      /\ \A c \in Conns : c # k => sock'[c] = sock[c] /\ to'[c] = to[c]
      /\ sock' \in [Conns -> {"new", "open", "closed"}] /\ to' \in [Conns -> Agents \cup {None}]
  BY <1>1 DEF ClientInv, TypeOK
<1>4. TypeOK'
  <2>1. closing' \subseteq {c \in Conns : sock'[c] = "closed"}
    BY <1>1, <1>2, <1>3 DEF ClientInv, TypeOK
  <2>2. \A p \in Pools : \A c \in mConnection'[p] :
          to'[c] = agentOf'[p] /\ \A r \in Pools : c \in mConnection'[r] => p = r
    BY <1>1, <1>2, <1>3 DEF ClientInv, TypeOK, InNoPool
  <2>3. ctx' \subseteq Conns /\ early' \subseteq Conns
    BY <1>1 DEF ClientInv, TypeOK
  <2> QED BY <1>1, <1>2, <1>3, <2>1, <2>2, <2>3 DEF ClientInv, TypeOK, mapVars
<1>5. ASSUME NEW h \in Procs
      PROVE  Well(h, proc[h])'
  <2>1. Well(h, proc[h])
    BY DEF ClientInv, Manned
  <2>2. proc[h].pc \in {"use", "add", "ctx"} => proc[h].conn # k
    BY <1>1 DEF Held
  <2>3. PoolUsed(proc[h])' /\ Chosen(h, proc[h])' /\ Listed(proc[h])' /\ Heard(proc[h])'
    BY <1>2, <2>1 DEF Well, PoolUsed, Chosen, Listed, Heard, Rest, Wants, Idle
  <2>4. ConnUsed(proc[h])'
    BY <1>2, <1>3, <2>1, <2>2 DEF Well, ConnUsed
  <2>5. Added(proc[h])'
    BY <1>1, <1>2, <1>3, <2>1, <2>2 DEF Well, ConnUsed, Added, InNoPool, Kept, Alive
  <2> QED BY <2>3, <2>4, <2>5 DEF Well
<1>6. Alone'
  BY <1>2 DEF ClientInv, Alone
<1>7. Objects'
  <2>1. \A c \in Conns : sock'[c] = "new" => c \notin ctx' /\ InNoPool(c)'
    BY <1>1, <1>2, <1>3 DEF ClientInv, Objects, InNoPool
  <2>2. \A p \in Pools : agentOf'[p] = None => mConnection'[p] = {}
    BY <1>2 DEF ClientInv, Objects
  <2>3. \A p \in Pools : \A c \in mConnection'[p] : Kept(c)'
    BY <1>1, <1>2, <1>3 DEF ClientInv, TypeOK, Objects, InNoPool, Kept, Alive
  <2> QED BY <2>1, <2>2, <2>3 DEF Objects
<1> QED BY <1>2, <1>4, <1>5, <1>6, <1>7 DEF ClientInv, Manned

LEMMA CollectPoolStep ==
  ASSUME ClientInv, NEW q \in Pools, CollectPool(q)
  PROVE  ClientInv'
<1>1. /\ ~Held(q) /\ \A a \in Agents : mAgentConnectPool[a] # q
      /\ agentOf' = [agentOf EXCEPT ![q] = None] /\ mConnection' = [mConnection EXCEPT ![q] = {}]
      /\ UNCHANGED <<szActiveAgent, mAgentConnectPool, mAgentGoodByeInfo, sock, to, ctx,
                     closing, early, agent, proc, crashed, faults>>
  BY DEF CollectPool
<1>2. /\ agentOf' \in [Pools -> Agents \cup {None}] /\ mConnection' \in [Pools -> SUBSET Conns]
      /\ mConnection'[q] = {}
      /\ \A p \in Pools : p # q => agentOf'[p] = agentOf[p] /\ mConnection'[p] = mConnection[p]
  BY <1>1 DEF ClientInv, TypeOK
<1>3. TypeOK'
  <2>1. \A a \in Agents : mAgentConnectPool'[a] \in Pools => agentOf'[mAgentConnectPool'[a]] = a
    BY <1>1, <1>2 DEF ClientInv, TypeOK
  <2>2. \A p \in Pools : \A c \in mConnection'[p] :
          to'[c] = agentOf'[p] /\ \A r \in Pools : c \in mConnection'[r] => p = r
    BY <1>1, <1>2 DEF ClientInv, TypeOK
  <2> QED BY <1>1, <1>2, <2>1, <2>2 DEF ClientInv, TypeOK
<1>5. ASSUME NEW h \in Procs
      PROVE  Well(h, proc[h])'
  <2>1. Well(h, proc[h]) /\ proc'[h] = proc[h]
    BY <1>1 DEF ClientInv, Manned
  <2>2. /\ proc[h].pc \in {"use", "add", "ctx", "dial"} => proc[h].pool # q
        /\ proc[h].pc = "swap" => \A a \in Agents : proc[h].pools[a] # q
    BY <1>1 DEF Held
  <2>3. PoolUsed(proc[h])' /\ ConnUsed(proc[h])' /\ Chosen(h, proc[h])' /\ Heard(proc[h])'
    BY <1>1, <1>2, <2>1, <2>2 DEF Well, PoolUsed, ConnUsed, Chosen, Heard, Rest, Wants, Idle
  <2>4. Listed(proc[h])'
    BY <1>2, <2>1, <2>2 DEF Well, Listed
  <2>5. Added(proc[h])'
    BY <1>1, <1>2, <2>1, <2>2 DEF Well, PoolUsed, Added, InNoPool, Kept, Alive
  <2> QED BY <2>3, <2>4, <2>5 DEF Well
<1>6. Alone'
  BY <1>1 DEF ClientInv, Alone
<1>7. Objects'
  BY <1>1, <1>2 DEF ClientInv, Objects, InNoPool, Kept, Alive
<1> QED BY <1>1, <1>3, <1>5, <1>6, <1>7 DEF ClientInv, Manned

(* New pools get their agents, and no pool in use gets another.            *)
LEMMA AssignedFacts ==
  ASSUME NEW before, NEW D, NEW h \in [D -> Pools], Distinct(h)
  PROVE  /\ DOMAIN Assigned(before, h) = Pools
         /\ \A a \in D : Assigned(before, h)[h[a]] = a
         /\ \A p \in Pools : (\A a \in D : h[a] # p) => Assigned(before, h)[p] = before[p]
         /\ \A p \in Pools : Assigned(before, h)[p] \in D \/ Assigned(before, h)[p] = before[p]
<1>1. \A p \in Pools : Assigned(before, h)[p] = IF \E a \in DOMAIN h : h[a] = p
                  THEN CHOOSE a \in DOMAIN h : h[a] = p ELSE before[p]
  BY DEF Assigned
<1>2. DOMAIN Assigned(before, h) = Pools
  BY DEF Assigned
<1>3. ASSUME NEW a \in D
      PROVE  Assigned(before, h)[h[a]] = a
  <2>1. h[a] \in Pools /\ \E b \in DOMAIN h : h[b] = h[a]
    OBVIOUS
  <2>2. Assigned(before, h)[h[a]] = CHOOSE b \in DOMAIN h : h[b] = h[a]
    BY <1>1, <2>1
  <2>3. \A b \in DOMAIN h : h[b] = h[a] => b = a
    BY DEF Distinct
  <2> QED BY <2>1, <2>2, <2>3
<1>4. ASSUME NEW p \in Pools, \A a \in D : h[a] # p
      PROVE  Assigned(before, h)[p] = before[p]
  BY <1>1, <1>4
<1>5. ASSUME NEW p \in Pools
      PROVE  Assigned(before, h)[p] \in D \/ Assigned(before, h)[p] = before[p]
  <2>1. CASE \E a \in D : h[a] = p
    BY <1>3, <2>1
  <2> QED BY <1>4, <2>1
<1> QED BY <1>2, <1>3, <1>4, <1>5

LEMMA UpdateAgentStep ==
  ASSUME ClientInv, NEW g \in Procs, UpdateAgent(g)
  PROVE  ClientInv'
<1> DEFINE s == proc[g]
           new == {a \in s.list : s.pools[a] = None}
           unused == {p \in Pools : agentOf[p] = None}
           choices == {h \in [new -> unused] : Distinct(h)}
           fresh == Some(choices)
<1>1. /\ s.pc = "swap" /\ choices # {} /\ Goes(g, Rest(g))
      /\ mAgentConnectPool' = Updated(s, fresh) /\ agentOf' = Assigned(agentOf, fresh)
      /\ UNCHANGED <<szActiveAgent, mAgentGoodByeInfo, connVars, agent, crashed, faults>>
  BY DEF UpdateAgent, At
<1>2. /\ s.list \in SUBSET Agents /\ s.pools \in [Agents -> Pools \cup {None, Nil}]
      /\ \A a \in Agents : s.pools[a] \in Pools => agentOf[s.pools[a]] = a
  BY <1>1 DEF ClientInv, Manned, Well, Listed
<1>3. fresh \in choices
  BY <1>1 DEF Some
<1>4. fresh \in [new -> Pools] /\ Distinct(fresh) /\ \A a \in new : agentOf[fresh[a]] = None
  BY <1>3
<1>5. new \subseteq Agents /\ \A a \in s.list : s.pools[a] = None => a \in new
  BY <1>2
<1> HIDE DEF fresh, choices, unused, new
<1>6. agentOf \in [Pools -> Agents \cup {None}] /\ None \notin Agents /\ None \notin Pools /\ Nil \notin Pools
  BY PoolAssumption DEF ClientInv, TypeOK
<1>7. /\ DOMAIN agentOf' = Pools
      /\ \A a \in new : agentOf'[fresh[a]] = a
      /\ \A p \in Pools : agentOf[p] # None => agentOf'[p] = agentOf[p]
      /\ \A p \in Pools : agentOf'[p] \in new \/ agentOf'[p] = agentOf[p]
  <2> DEFINE A == Assigned(agentOf, fresh)
  <2>1. /\ DOMAIN A = Pools
        /\ \A a \in new : A[fresh[a]] = a
        /\ \A p \in Pools : (\A a \in new : fresh[a] # p) => A[p] = agentOf[p]
        /\ \A p \in Pools : A[p] \in new \/ A[p] = agentOf[p]
    BY <1>4, AssignedFacts
  <2>2. agentOf' = A
    BY <1>1
  <2> HIDE DEF A
  <2> QED BY <1>4, <2>1, <2>2
<1>8. agentOf' \in [Pools -> Agents \cup {None}]
  <2>1. agentOf' = [p \in Pools |-> agentOf'[p]]
    BY <1>1 DEF Assigned
  <2>2. \A p \in Pools : agentOf'[p] \in Agents \cup {None}
    BY <1>5, <1>6, <1>7
  <2> QED BY <2>1, <2>2
<1>9. ASSUME NEW a \in Agents
      PROVE  \/ a \in s.list /\ s.pools[a] # None /\ mAgentConnectPool'[a] = s.pools[a]
             \/ a \in new /\ mAgentConnectPool'[a] = fresh[a]
             \/ mAgentConnectPool'[a] = mAgentConnectPool[a]
             \/ mAgentConnectPool'[a] \in {None, Nil}
  <2>1. mAgentConnectPool'[a] =
          CASE a \in s.list /\ s.pools[a] # None -> s.pools[a]
            [] a \in s.list /\ s.pools[a] = None -> fresh[a]
            [] a \notin s.list /\ a = szActiveAgent ->
                 IF mAgentConnectPool[a] = None THEN Nil ELSE mAgentConnectPool[a]
            [] OTHER -> None
    BY <1>1 DEF Updated
  <2> HIDE DEF s
  <2> QED BY <1>5, <2>1
<1>10. /\ mAgentConnectPool' \in [Agents -> Pools \cup {None, Nil}]
       /\ \A a \in Agents : mAgentConnectPool'[a] \in Pools => agentOf'[mAgentConnectPool'[a]] = a
  <2>1. ASSUME NEW a \in Agents
        PROVE  /\ mAgentConnectPool'[a] \in Pools \cup {None, Nil}
               /\ mAgentConnectPool'[a] \in Pools => agentOf'[mAgentConnectPool'[a]] = a
    <3>1. CASE mAgentConnectPool'[a] = s.pools[a]
      BY <1>2, <1>6, <1>7, <3>1
    <3>2. CASE a \in new /\ mAgentConnectPool'[a] = fresh[a]
      BY <1>4, <1>7, <3>2
    <3>3. CASE mAgentConnectPool'[a] = mAgentConnectPool[a]
      BY <1>6, <1>7, <3>3 DEF ClientInv, TypeOK
    <3>4. CASE mAgentConnectPool'[a] \in {None, Nil}
      BY <1>6, <3>4
    <3> QED BY <1>9, <3>1, <3>2, <3>3, <3>4
  <2>2. mAgentConnectPool' = [a \in Agents |-> mAgentConnectPool'[a]]
    BY <1>1 DEF Updated
  <2> QED BY <2>1, <2>2
<1>11. /\ mConnection' = mConnection /\ sock' = sock /\ to' = to /\ ctx' = ctx
       /\ closing' = closing /\ early' = early
  BY <1>1 DEF connVars
<1>12. \A p \in Pools : agentOf[p] = None => mConnection[p] = {}
  BY DEF ClientInv, Objects
<1>13. TypeOK'
  <2>1. \A p \in Pools : \A c \in mConnection'[p] :
          to'[c] = agentOf'[p] /\ \A r \in Pools : c \in mConnection'[r] => p = r
    BY <1>7, <1>11, <1>12 DEF ClientInv, TypeOK
  <2> QED BY <1>1, <1>8, <1>10, <1>11, <2>1 DEF ClientInv, TypeOK
<1>14. /\ DOMAIN proc' = Procs
       /\ \A h \in Procs :
            /\ Well(h, proc'[h])
            /\ proc'[h] = proc[h] \/ proc'[h].pc \notin {"add", "ctx"}
  <2>1. MovesOn
    BY <1>1, RestWell, OneMoves
  <2> QED BY <2>1 DEF MovesOn, ClientInv, Manned
<1>15. ASSUME NEW h \in Procs
       PROVE  Well(h, proc[h])'
  <2>1. Well(h, proc'[h])
    BY <1>14
  <2>2. PoolUsed(proc[h])' /\ ConnUsed(proc[h])' /\ Chosen(h, proc[h])' /\ Heard(proc[h])'
    BY <1>7, <1>11, <2>1 DEF Well, PoolUsed, ConnUsed, Chosen, Heard, Rest, Wants, Idle
  <2>3. Listed(proc[h])'
    BY <1>6, <1>7, <2>1 DEF Well, Listed
  <2>4. Added(proc[h])'
    BY <1>7, <1>11, <2>1 DEF Well, PoolUsed, Added, InNoPool, Kept, Alive
  <2> QED BY <2>2, <2>3, <2>4 DEF Well
<1>16. Alone'
  BY <1>14 DEF ClientInv, Alone
<1>17. Objects'
  <2>1. \A p \in Pools : agentOf'[p] = None => mConnection'[p] = {}
    BY <1>5, <1>6, <1>7, <1>11, <1>12
  <2> QED BY <1>11, <2>1 DEF ClientInv, Objects, InNoPool, Kept, Alive
<1> QED BY <1>13, <1>14, <1>15, <1>16, <1>17 DEF ClientInv, Manned

-----------------------------------------------------------------------------
LEMMA ClientInit ==
  ASSUME Init
  PROVE  ClientInv
<1> DEFINE k == Some(Conns)
           choices == {h \in [Agents -> Pools] : Distinct(h)}
           f == Some(choices)
           a == szActiveAgent
<1>1. k \in Conns /\ f \in choices
  BY PoolAssumption DEF Some
<1>2. f \in [Agents -> Pools] /\ Distinct(f)
  BY <1>1
<1>3. /\ a \in Agents /\ mAgentConnectPool = f
      /\ mAgentGoodByeInfo = [b \in Agents |-> None]
      /\ agentOf = Assigned([p \in Pools |-> None], f)
      /\ mConnection = [p \in Pools |-> IF p = f[a] THEN {k} ELSE {}]
      /\ sock = [c \in Conns |-> IF c = k THEN "open" ELSE "new"]
      /\ to = [c \in Conns |-> IF c = k THEN a ELSE None]
      /\ ctx = {k} /\ closing = {} /\ early = {}
      /\ agent = [b \in Agents |-> "up"] /\ proc = [g \in Procs |-> Rest(g)]
      /\ crashed = FALSE /\ faults = 0
  BY DEF Init
<1> HIDE DEF k, f, choices
<1>4. /\ \A b \in Agents : agentOf[f[b]] = b
      /\ agentOf \in [Pools -> Agents \cup {None}]
  <2> DEFINE none == [p \in Pools |-> None]  A == Assigned(none, f)
  <2>1. /\ \A b \in Agents : A[f[b]] = b
        /\ \A p \in Pools : A[p] \in Agents \/ A[p] = none[p]
    <3> HIDE DEF none
    <3> QED BY <1>2, AssignedFacts
  <2>2. A = [p \in Pools |-> A[p]]
    BY DEF Assigned
  <2>3. agentOf = A
    BY <1>3
  <2>4. \A p \in Pools : A[p] \in Agents \cup {None}
    BY <2>1
  <2> HIDE DEF A
  <2> QED BY <2>1, <2>2, <2>3, <2>4
<1>5. f[a] \in Pools /\ agentOf[f[a]] = a
  BY <1>2, <1>3, <1>4
<1>6. TypeOK
  <2>1. \A p \in Pools : \A c \in mConnection[p] :
          to[c] = agentOf[p] /\ \A q \in Pools : c \in mConnection[q] => p = q
    BY <1>1, <1>3, <1>5
  <2>2. \A b \in Agents : mAgentConnectPool[b] \in Pools => agentOf[mAgentConnectPool[b]] = b
    BY <1>3, <1>4
  <2>3. mConnection \in [Pools -> SUBSET Conns] /\ ctx \subseteq Conns
    BY <1>1, <1>3
  <2>4. /\ sock \in [Conns -> {"new", "open", "closed"}] /\ to \in [Conns -> Agents \cup {None}]
        /\ agent \in [Agents -> {"up", "leaving", "down"}]
        /\ mAgentGoodByeInfo \in [Agents -> 0..(nAgentGoodByeTimeoutS + 1) \cup {None}]
    BY <1>3
  <2>5. /\ mAgentConnectPool \in [Agents -> Pools \cup {None, Nil}] /\ faults \in 0..MaxFaults
        /\ early \subseteq Conns /\ closing \subseteq {c \in Conns : sock[c] = "closed"}
    BY <1>2, <1>3, PoolAssumption
  <2>6. crashed \in BOOLEAN
    BY <1>3
  <2> QED BY <1>3, <1>4, <2>1, <2>2, <2>3, <2>4, <2>5, <2>6 DEF TypeOK
<1>7. Manned
  BY <1>3, RestWell DEF Manned
<1>8. Alone
  BY <1>3, RestWell DEF Alone
<1>9. Objects
  <2>1. \A c \in Conns : sock[c] = "new" => c \notin ctx /\ InNoPool(c)
    BY <1>1, <1>3 DEF InNoPool
  <2>2. \A p \in Pools : agentOf[p] = None => mConnection[p] = {}
    BY <1>3, <1>5, PoolAssumption
  <2>3. \A p \in Pools : \A c \in mConnection[p] : Kept(c)
    BY <1>1, <1>3 DEF Kept, Alive
  <2> QED BY <2>1, <2>2, <2>3 DEF Objects
<1> QED BY <1>6, <1>7, <1>8, <1>9 DEF ClientInv

LEMMA ClientStep ==
  ASSUME ClientInv, [Next]_vars
  PROVE  ClientInv'
<1>1. ASSUME NEW g \in Procs, Works(g)
      PROVE  ClientInv'
  BY <1>1, getConnectStep, registerStep, AddConnectStep, setCtxStep, registerFailsStep,
     setActiveAgentStep, CallEndsStep, keepaliveStep, UpdateAgentStep, unregisterStep,
     handleSayGoodbyeNotifyStep DEF Works
<1>2. CASE UNCHANGED vars
  <2>1. Milder
    BY <1>2, StillMild DEF vars, mapVars, ClientInv, TypeOK
  <2>2. MovesOn
    BY <1>2, NobodyMoves DEF vars
  <2> QED BY <2>1, <2>2, MildStep
<1> QED BY <1>1, <1>2, ClearGoodbyeTimeoutStep, OnCloseConnectionStep, BreaksStep, CollectConnStep,
           CollectPoolStep, AgentStep DEF Next

LEMMA ClientInvariant == Spec => []ClientInv
<1>1. Init => ClientInv
  BY ClientInit
<1>2. ClientInv /\ [Next]_vars => ClientInv'
  BY ClientStep
<1> QED BY <1>1, <1>2, PTL DEF Spec

(* Whatever overlaps, a pool in the map of AgentManager is the pool of its *)
(* agent, has only connections to that agent, and shares none of them: a   *)
(* stale map that UpdateAgent writes back never mixes agents up.           *)
THEOREM TypeInvariant == Spec => []TypeOK
<1>1. ClientInv => TypeOK
  BY DEF ClientInv
<1> QED BY <1>1, ClientInvariant, PTL

(* A closed connection is left in a pool only by the race between          *)
(* OnCloseConnection and setting the Ctx (createConnectAndRegister) or     *)
(* the swap of the map (UpdateAgent).                                      *)
THEOREM StaleOnlyByRace == Spec => []StaleNeedsRace
<1>1. ClientInv => StaleNeedsRace
  BY DEF ClientInv, Objects, Kept, StaleNeedsRace
<1> QED BY <1>1, ClientInvariant, PTL
=============================================================================
