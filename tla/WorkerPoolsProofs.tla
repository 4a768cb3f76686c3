-------------------------- MODULE WorkerPoolsProofs --------------------------
(***************************************************************************)
(* Proofs about WorkerPools, for pools of any size and any goroutines      *)
(* outside them.  What a goroutine has still to do is the rest of one of   *)
(* the handlers: the rests are sorted by the lock the goroutine holds      *)
(* while they are left, and by the pool the task runs in.                  *)
(***************************************************************************)
EXTENDS WorkerPools, TLAPS

Introduce(kinds) == Go("node_introduce", kinds)

Tasks == {Introduce({"sync", "work"}), Introduce({"tell"}), Introduce({"known", "friends"}),
          DialInManager, Dial, Go("node_manager", {"notify"})}

(* Left while the lock is held for writing, ...                            *)
Writing ==
  {<<Introduce({"sync", "work"}), Unlock, Introduce({"tell"})>>,
   <<Unlock, Introduce({"tell"})>>, <<DialInManager, Unlock>>, <<Unlock>>}

(* ... for reading, ...                                                    *)
Reading ==
  {<<RUnlock, Dial>>, <<RUnlock>>, <<RUnlock, Lock, DialInManager, Unlock>>,
   <<Dial, RUnlock>>, <<RUnlock, RLock, RUnlock>>}

(* ... and not at all.                                                     *)
Bare ==
  {handleSayHello, <<Introduce({"tell"})>>, handleKeepAlive, <<Dial>>, notAuth, tell,
   makefriendsKnown, makefriends, checkNeighbour, notifyEntry, OnCloseConnection,
   cleanTimeout, AddEntry, <<>>}

(* What is left of a task of a pool.                                       *)
Rests == [p \in Pools |->
  CASE p = "node_connect" -> {<<>>}
    [] p = "node_manager" -> {notifyEntry, <<Dial, RUnlock>>, <<RUnlock>>, <<>>}
    [] p = "node_introduce" ->
         {tell, <<RUnlock, Dial>>, <<Dial>>, <<>>, makefriendsKnown, <<RUnlock>>, makefriends,
          <<RUnlock, Lock, DialInManager, Unlock>>, checkNeighbour, <<DialInManager, Unlock>>,
          <<Unlock>>}
    [] OTHER -> Writing \cup Reading \cup Bare]

(* The shape of a state: everybody is somewhere in a handler, in the part  *)
(* of it that goes with the lock it holds, and a task in its own pool.     *)
LockShape ==
  \A g \in Gs :
    IF holds /\ writer = g THEN todo[g] \in Writing
    ELSE IF g \in readers THEN todo[g] \in Reading
    ELSE todo[g] \in Bare \cup {None}
PoolShape == \A p \in Pools : \A s \in SlotsOf(p) : todo[s] \in Rests[p] \cup {None}
Owner ==
  /\ holds => writer # None /\ readers = {}
  /\ writer # None /\ ~holds => At(writer, "Lock")
Plain ==
  /\ DOMAIN todo = Gs /\ holds \in BOOLEAN
  /\ writer \in Gs \cup {None} /\ readers \subseteq Gs
PoolInv == Plain /\ LockShape /\ PoolShape /\ Owner

(* What comes first in each of these rests, and what is left after it.     *)
LEMMA WritingHead ==
  ASSUME NEW t \in Writing
  PROVE  /\ t # <<>> /\ t \in Seq(Ops)
         /\ \/ Head(t) \in Tasks \ {Dial} /\ Tail(t) \in Writing
            \/ Head(t) = Unlock /\ Tail(t) \in Bare
         /\ \E i \in DOMAIN t : t[i].op = "Unlock"
<1>1. CASE t = <<Introduce({"sync", "work"}), Unlock, Introduce({"tell"})>>
  BY <1>1 DEF Writing, Tasks, Dial, Introduce, Go, Unlock, Ops, Kinds, Pools
<1>2. CASE t = <<Unlock, Introduce({"tell"})>>
  BY <1>2 DEF Writing, Bare, Introduce, Go, Unlock, Ops, Kinds, Pools
<1>3. CASE t = <<DialInManager, Unlock>>
  BY <1>3 DEF Writing, Tasks, Dial, DialInManager, Go, Unlock, Ops, Kinds, Pools
<1>4. CASE t = <<Unlock>>
  BY <1>4 DEF Writing, Bare, Unlock, Ops
<1> QED BY <1>1, <1>2, <1>3, <1>4 DEF Writing

LEMMA ReadingHead ==
  ASSUME NEW t \in Reading
  PROVE  /\ t # <<>> /\ t \in Seq(Ops)
         /\ \/ Head(t) = Dial /\ Tail(t) \in Reading
            \/ Head(t) = RUnlock /\ Tail(t) \in Bare
         /\ \E i \in DOMAIN t : t[i].op = "RUnlock"
<1>1. CASE t = <<RUnlock, Dial>>
  BY <1>1 DEF Bare, Dial, Go, RUnlock, Ops, Kinds, Pools
<1>2. CASE t = <<RUnlock>>
  BY <1>2 DEF Bare, RUnlock, Ops
<1>3. CASE t = <<RUnlock, Lock, DialInManager, Unlock>>
  BY <1>3 DEF Bare, checkNeighbour, DialInManager, Go, Lock, Unlock, RUnlock, Ops, Kinds, Pools
<1>4. CASE t = <<Dial, RUnlock>>
  BY <1>4 DEF Reading, Dial, Go, RUnlock, Ops, Kinds, Pools
<1>5. CASE t = <<RUnlock, RLock, RUnlock>>
  BY <1>5 DEF Bare, makefriendsKnown, RLock, RUnlock, Ops
<1> QED BY <1>1, <1>2, <1>3, <1>4, <1>5 DEF Reading

LEMMA BareHead ==
  ASSUME NEW t \in Bare
  PROVE  /\ t \in Seq(Ops)
         /\ \/ t = <<>>
            \/ t # <<>> /\ Head(t) \in Tasks /\ Tail(t) \in Bare
            \/ t # <<>> /\ Head(t) = Lock /\ Tail(t) \in Writing
            \/ t # <<>> /\ Head(t) = RLock /\ Tail(t) \in Reading
<1>a. CASE t = <<>>
  BY <1>a
<1>b. CASE t = <<Introduce({"tell"})>>
  BY <1>b DEF Bare, Tasks, Introduce, Go, Ops, Kinds, Pools
<1>c. CASE t = <<Dial>>
  BY <1>c DEF Bare, Tasks, Dial, Go, Ops, Kinds, Pools
<1>d. CASE t = notAuth
  BY <1>d DEF notAuth, Bare, Tasks, DialInManager, Go, Ops, Kinds, Pools
<1>e. CASE t = AddEntry
  BY <1>e DEF AddEntry, Bare, Tasks, Go, Ops, Kinds, Pools
<1>2. CASE t = handleSayHello
  BY <1>2 DEF handleSayHello, Writing, Introduce, Go, Lock, Unlock, Ops, Kinds, Pools
<1>3. CASE t = handleKeepAlive
  BY <1>3 DEF handleKeepAlive, Bare, Tasks, Introduce, Dial, Go, Ops, Kinds, Pools
<1>4. CASE t = tell
  BY <1>4 DEF tell, Reading, Dial, Go, RLock, RUnlock, Ops, Kinds, Pools
<1>5. CASE t = makefriendsKnown
  BY <1>5 DEF makefriendsKnown, Reading, RLock, RUnlock, Ops
<1>6. CASE t = makefriends
  BY <1>6 DEF makefriends, Reading, DialInManager, Go, RLock, RUnlock, Lock, Unlock, Ops, Kinds, Pools
<1>7. CASE t = checkNeighbour
  BY <1>7 DEF checkNeighbour, Writing, DialInManager, Go, Lock, Unlock, Ops, Kinds, Pools
<1>8. CASE t = notifyEntry
  BY <1>8 DEF notifyEntry, Reading, Dial, Go, RLock, RUnlock, Ops, Kinds, Pools
<1>9. CASE t = OnCloseConnection
  BY <1>9 DEF OnCloseConnection, Writing, Lock, Unlock, Ops
<1>10. CASE t = cleanTimeout
  BY <1>10 DEF cleanTimeout, Reading, RLock, RUnlock, Ops
<1> QED BY <1>a, <1>b, <1>c, <1>d, <1>e, <1>2, <1>3, <1>4, <1>5, <1>6, <1>7, <1>8, <1>9, <1>10
         DEF Bare

(* The five operations tell each other apart.                              *)
LEMMA Operations ==
  /\ Lock.op = "Lock" /\ Unlock.op = "Unlock" /\ RLock.op = "RLock" /\ RUnlock.op = "RUnlock"
  /\ \A x \in Tasks : x.op = "Go"
BY DEF Lock, Unlock, RLock, RUnlock, Tasks, Introduce, Dial, DialInManager, Go

(* A task that is started is a whole handler, in a pool it belongs to.     *)
LEMMA Starts ==
  ASSUME NEW x \in Tasks, NEW kind \in x.kinds
  PROVE  x.pool \in Pools /\ Code(kind) \in Bare /\ Code(kind) \in Rests[x.pool]
<1>1. CASE x = Introduce({"sync", "work"})
  BY <1>1 DEF Introduce, Go, Pools, Code, Bare, Rests, trySyncAll
<1>2. CASE x = Introduce({"tell"})
  BY <1>2 DEF Introduce, Go, Pools, Code, Bare, Rests
<1>3. CASE x = Introduce({"known", "friends"})
  BY <1>3 DEF Introduce, Go, Pools, Code, Bare, Rests
<1>4. CASE x \in {Dial, DialInManager}
  BY <1>4 DEF Dial, DialInManager, Go, Pools, Code, Bare, Rests
<1>5. CASE x = Go("node_manager", {"notify"})
  BY <1>5 DEF Go, Pools, Code, Bare, Rests
<1> QED BY <1>1, <1>2, <1>3, <1>4, <1>5 DEF Tasks

(* Which pools a task waits for: Dial is the only one a connect or manager *)
(* task or a reader meets, and nobody starts a task of tcp_msg.            *)
LEMMA WaitsFor ==
  /\ Dial.pool = "node_connect"
  /\ \A x \in Tasks : x = Dial \/ x.pool \in {"node_introduce", "node_manager"}
BY DEF Tasks, Introduce, Dial, DialInManager, Go

LEMMA Handlers ==
  ASSUME NEW kind \in MessageKinds \cup OtherKinds
  PROVE  Code(kind) \in Bare
BY DEF MessageKinds, OtherKinds, Code, Bare, keepalive, notifyEntry

(* What is left of a task stays a rest of a task of its pool.              *)
LEMMA RestOfRest ==
  ASSUME NEW p \in Pools, NEW t \in Rests[p], t # <<>>
  PROVE  Tail(t) \in Rests[p]
<1>1. CASE p = "node_connect"
  BY <1>1 DEF Pools, Rests
<1>2. CASE p = "node_manager"
  <2>1. Rests[p] = {<<RLock, Dial, RUnlock>>, <<Dial, RUnlock>>, <<RUnlock>>, <<>>}
    BY <1>2 DEF Pools, Rests, notifyEntry
  <2>2. CASE t = <<RLock, Dial, RUnlock>>
    BY <2>1, <2>2
  <2>3. CASE t = <<Dial, RUnlock>>
    BY <2>1, <2>3
  <2>4. CASE t = <<RUnlock>>
    BY <2>1, <2>4
  <2> QED BY <2>1, <2>2, <2>3, <2>4
<1>3. CASE p = "node_introduce"
  <2>1. Rests[p] =
          {<<RLock, RUnlock, Dial>>, <<RUnlock, Dial>>, <<Dial>>, <<>>, <<RLock, RUnlock>>,
           <<RUnlock>>, <<RLock, RUnlock, Lock, DialInManager, Unlock>>,
           <<RUnlock, Lock, DialInManager, Unlock>>, <<Lock, DialInManager, Unlock>>,
           <<DialInManager, Unlock>>, <<Unlock>>}
    BY <1>3 DEF Pools, Rests, tell, makefriendsKnown, makefriends, checkNeighbour, DialInManager
  <2>2. CASE t = <<RLock, RUnlock, Dial>>
    BY <2>1, <2>2
  <2>3. CASE t = <<RUnlock, Dial>>
    BY <2>1, <2>3
  <2>4. CASE t = <<Dial>>
    BY <2>1, <2>4
  <2>5. CASE t = <<RLock, RUnlock>>
    BY <2>1, <2>5
  <2>6. CASE t = <<RUnlock>>
    BY <2>1, <2>6
  <2>7. CASE t = <<RLock, RUnlock, Lock, DialInManager, Unlock>>
    BY <2>1, <2>7
  <2>8. CASE t = <<RUnlock, Lock, DialInManager, Unlock>>
    BY <2>1, <2>8
  <2>9. CASE t = <<Lock, DialInManager, Unlock>>
    BY <2>1, <2>9
  <2>10. CASE t = <<DialInManager, Unlock>>
    BY <2>1, <2>10
  <2>11. CASE t = <<Unlock>>
    BY <2>1, <2>11
  <2> QED BY <2>1, <2>2, <2>3, <2>4, <2>5, <2>6, <2>7, <2>8, <2>9, <2>10, <2>11
<1>4. CASE p = "tcp_msg"
  <2>1. Rests[p] = Writing \cup Reading \cup Bare
    BY <1>4 DEF Pools, Rests
  <2> QED BY <2>1, WritingHead, ReadingHead, BareHead
<1> QED BY <1>1, <1>2, <1>3, <1>4 DEF Pools

-----------------------------------------------------------------------------
LEMMA Apart ==
  /\ \A p \in Pools : SlotsOf(p) \subseteq Gs
  /\ \A p, q \in Pools : p # q => SlotsOf(p) \cap SlotsOf(q) = {}
  /\ \A p \in Pools : \A o \in Outside : <<"outside", o>> \notin SlotsOf(p)
  /\ \A o \in Outside : <<"outside", o>> \in Gs
  /\ \A p \in Pools : <<p, 1>> \in SlotsOf(p)
<1>1. \A p \in Pools : SlotsOf(p) \subseteq Gs
  BY DEF Gs, Slots
<1>2. \A p, q \in Pools : p # q => SlotsOf(p) \cap SlotsOf(q) = {}
  BY DEF SlotsOf
<1>3. \A p \in Pools : \A o \in Outside : <<"outside", o>> \notin SlotsOf(p)
  BY DEF SlotsOf, Pools
<1>4. \A o \in Outside : <<"outside", o>> \in Gs
  BY DEF Gs
<1>5. \A p \in Pools : <<p, 1>> \in SlotsOf(p)
  BY WorkerAssumption DEF SlotsOf
<1> QED BY <1>1, <1>2, <1>3, <1>4, <1>5

LEMMA NotNone ==
  None \notin Writing /\ None \notin Reading /\ None \notin Bare /\ None # <<>>
<1>1. None \notin Seq(Ops)
  BY WorkerAssumption
<1>2. <<>> \in Seq(Ops)
  OBVIOUS
<1> QED BY <1>1, <1>2, WritingHead, ReadingHead, BareHead

(* What a goroutine is at says which lock it holds and what comes after.   *)
Held(g) == holds /\ writer = g
LEMMA AtFacts ==
  ASSUME PoolInv, NEW g \in Gs
  PROVE  /\ At(g, "Lock") => ~Held(g) /\ g \notin readers /\ Tail(todo[g]) \in Writing
         /\ At(g, "RLock") => ~Held(g) /\ g \notin readers /\ Tail(todo[g]) \in Reading
         /\ At(g, "Unlock") => Held(g) /\ Tail(todo[g]) \in Bare
         /\ At(g, "RUnlock") => ~Held(g) /\ g \in readers /\ Tail(todo[g]) \in Bare
         /\ At(g, "Go") =>
              /\ Head(todo[g]) \in Tasks
              /\ Held(g) => Tail(todo[g]) \in Writing /\ Head(todo[g]) # Dial
              /\ ~Held(g) /\ g \in readers
                   => Tail(todo[g]) \in Reading /\ Head(todo[g]) = Dial
              /\ ~Held(g) /\ g \notin readers => Tail(todo[g]) \in Bare
<1>1. Held(g) => todo[g] \in Writing
  BY DEF PoolInv, LockShape, Held
<1>2. ~Held(g) /\ g \in readers => todo[g] \in Reading
  BY DEF PoolInv, LockShape, Held
<1>3. ~Held(g) /\ g \notin readers => todo[g] \in Bare \cup {None}
  BY DEF PoolInv, LockShape, Held
<1>4. Dial \in Tasks
  BY DEF Tasks
<1>5. \A t : t \in Writing =>
        \/ Head(t) \in Tasks \ {Dial} /\ Tail(t) \in Writing
        \/ Head(t) = Unlock /\ Tail(t) \in Bare
  BY WritingHead
<1>6. \A t : t \in Reading =>
        \/ Head(t) = Dial /\ Tail(t) \in Reading
        \/ Head(t) = RUnlock /\ Tail(t) \in Bare
  BY ReadingHead
<1>7. \A t : t \in Bare =>
        \/ t = <<>>
        \/ Head(t) \in Tasks /\ Tail(t) \in Bare
        \/ Head(t) = Lock /\ Tail(t) \in Writing
        \/ Head(t) = RLock /\ Tail(t) \in Reading
  BY BareHead
<1>8. CASE Held(g)
  <2>1. ~At(g, "Lock") /\ ~At(g, "RLock") /\ ~At(g, "RUnlock")
    BY <1>8, <1>1, <1>5, Operations DEF At
  <2>2. At(g, "Unlock") => Tail(todo[g]) \in Bare
    BY <1>8, <1>1, <1>5, Operations DEF At
  <2>3. At(g, "Go") => Head(todo[g]) \in Tasks /\ Head(todo[g]) # Dial /\ Tail(todo[g]) \in Writing
    BY <1>8, <1>1, <1>5, Operations DEF At
  <2> QED BY <1>8, <2>1, <2>2, <2>3
<1>9. CASE ~Held(g) /\ g \in readers
  <2>1. ~At(g, "Lock") /\ ~At(g, "RLock") /\ ~At(g, "Unlock")
    BY <1>9, <1>2, <1>4, <1>6, Operations DEF At
  <2>2. At(g, "RUnlock") => Tail(todo[g]) \in Bare
    BY <1>9, <1>2, <1>4, <1>6, Operations DEF At
  <2>3. At(g, "Go") => Head(todo[g]) = Dial /\ Tail(todo[g]) \in Reading
    BY <1>9, <1>2, <1>4, <1>6, Operations DEF At
  <2> QED BY <1>4, <1>9, <2>1, <2>2, <2>3
<1>10. CASE ~Held(g) /\ g \notin readers
  <2>1. todo[g] # None /\ todo[g] # <<>> =>
          \/ Head(todo[g]) \in Tasks /\ Tail(todo[g]) \in Bare
          \/ Head(todo[g]) = Lock /\ Tail(todo[g]) \in Writing
          \/ Head(todo[g]) = RLock /\ Tail(todo[g]) \in Reading
    BY <1>10, <1>3, <1>7
  <2>2. ~At(g, "Unlock") /\ ~At(g, "RUnlock")
    BY <2>1, Operations DEF At, Idle
  <2>3. At(g, "Lock") => Tail(todo[g]) \in Writing
    BY <2>1, Operations DEF At, Idle
  <2>4. At(g, "RLock") => Tail(todo[g]) \in Reading
    BY <2>1, Operations DEF At, Idle
  <2>5. At(g, "Go") => Head(todo[g]) \in Tasks /\ Tail(todo[g]) \in Bare
    BY <2>1, Operations DEF At, Idle
  <2> QED BY <1>10, <2>2, <2>3, <2>4, <2>5
<1> QED BY <1>8, <1>9, <1>10

(* A goroutine that goes on leaves the others and the pools as they are.   *)
LEMMA GoesOn ==
  ASSUME PoolInv, NEW g \in Gs, NEW op, At(g, op), Does(g)
  PROVE  /\ DOMAIN todo' = Gs /\ todo'[g] = Tail(todo[g])
         /\ \A h \in Gs : h # g => todo'[h] = todo[h]
         /\ PoolShape'
<1>1. DOMAIN todo' = Gs /\ todo'[g] = Tail(todo[g])
  BY DEF PoolInv, Plain, Does
<1>2. \A h \in Gs : h # g => todo'[h] = todo[h]
  BY DEF PoolInv, Plain, Does
<1>3. ASSUME NEW p \in Pools, NEW s \in SlotsOf(p)
      PROVE  todo'[s] \in Rests[p] \cup {None}
  <2>1. s \in Gs /\ todo[s] \in Rests[p] \cup {None}
    BY <1>3, Apart DEF PoolInv, PoolShape
  <2>2. CASE s = g
    <3>1. todo[s] # None /\ todo[s] # <<>>
      BY <2>2 DEF At, Idle
    <3> QED BY <1>1, <2>1, <2>2, <3>1, RestOfRest
  <2> QED BY <1>2, <2>1, <2>2
<1> QED BY <1>1, <1>2, <1>3 DEF PoolShape

(* A handler started in a free place.                                      *)
LEMMA Started ==
  ASSUME PoolInv, NEW s \in Gs, Idle(s), NEW t \in Bare,
         todo' = [todo EXCEPT ![s] = t], UNCHANGED <<writer, holds, readers>>,
         \A p \in Pools : s \in SlotsOf(p) => t \in Rests[p]
  PROVE  PoolInv'
<1>1. Plain'
  BY DEF PoolInv, Plain
<1>2. todo'[s] = t /\ \A h \in Gs : h # s => todo'[h] = todo[h]
  BY DEF PoolInv, Plain
<1>3. ~Held(s) /\ s \notin readers
  BY NotNone DEF PoolInv, LockShape, Held, Idle
<1>4. LockShape'
  BY <1>2, <1>3 DEF PoolInv, LockShape, Held
<1>5. PoolShape'
  BY <1>2, Apart DEF PoolInv, PoolShape
<1>6. Owner'
  <2>1. holds' => writer' # None /\ readers' = {}
    BY DEF PoolInv, Owner
  <2>2. ASSUME writer' # None, ~holds'
        PROVE  At(writer, "Lock")'
    <3>1. writer \in Gs /\ At(writer, "Lock")
      BY <2>2 DEF PoolInv, Owner, Plain
    <3>2. todo'[writer] = todo[writer]
      BY <3>1, <1>2 DEF At
    <3> QED BY <3>1, <3>2 DEF At, Idle
  <2> QED BY <2>1, <2>2 DEF Owner
<1> QED BY <1>1, <1>4, <1>5, <1>6 DEF PoolInv

LEMMA FreeSlotFacts ==
  ASSUME NEW p \in Pools, Free(p) # {}
  PROVE  FreeSlot(p) \in SlotsOf(p) /\ FreeSlot(p) \in Gs /\ Idle(FreeSlot(p))
<1>1. FreeSlot(p) \in Free(p)
  BY DEF FreeSlot
<1> QED BY <1>1, Apart DEF Free

LEMMA PoolInit ==
  ASSUME Init
  PROVE  PoolInv
<1>1. Plain
  BY DEF Init, Plain
<1>2. LockShape /\ Owner
  BY DEF Init, LockShape, Owner
<1>3. PoolShape
  BY Apart DEF Init, PoolShape
<1> QED BY <1>1, <1>2, <1>3 DEF PoolInv

LEMMA GoTaskStep ==
  ASSUME PoolInv, NEW g \in Gs, GoTask(g)
  PROVE  PoolInv'
<1> DEFINE x == Head(todo[g])  f == FreeSlot(x.pool)
<1>1. PICK kind \in x.kinds :
        /\ At(g, "Go") /\ Free(x.pool) # {}
        /\ todo' = [todo EXCEPT ![g] = Tail(@), ![f] = Code(kind)]
        /\ UNCHANGED <<writer, holds, readers>>
  BY DEF GoTask
<1>a. At(g, "Go")
  BY <1>1
<1>b. /\ Head(todo[g]) \in Tasks
      /\ Held(g) => Tail(todo[g]) \in Writing
      /\ ~Held(g) /\ g \in readers => Tail(todo[g]) \in Reading
      /\ ~Held(g) /\ g \notin readers => Tail(todo[g]) \in Bare
  BY <1>a, AtFacts
<1>2. x \in Tasks
  BY <1>b
<1>3. x.pool \in Pools /\ Code(kind) \in Bare /\ Code(kind) \in Rests[x.pool]
  BY <1>2, Starts
<1>4. f \in SlotsOf(x.pool) /\ f \in Gs /\ Idle(f)
  BY <1>1, <1>3, FreeSlotFacts
<1>5. f # g
  BY <1>1, <1>4 DEF At
<1> HIDE DEF x, f
<1>6. DOMAIN todo = Gs
  BY DEF PoolInv, Plain
<1>7. /\ DOMAIN todo' = Gs /\ todo'[g] = Tail(todo[g]) /\ todo'[f] = Code(kind)
      /\ \A h \in Gs : h # g /\ h # f => todo'[h] = todo[h]
  BY <1>1, <1>4, <1>5, <1>6
<1>8. Plain'
  BY <1>1, <1>7 DEF PoolInv, Plain
<1>9. ~Held(f) /\ f \notin readers
  BY <1>4, NotNone DEF PoolInv, LockShape, Held, Idle
<1>10. LockShape'
  <2>1. /\ Held(g) => Tail(todo[g]) \in Writing
        /\ ~Held(g) /\ g \in readers => Tail(todo[g]) \in Reading
        /\ ~Held(g) /\ g \notin readers => Tail(todo[g]) \in Bare
    BY <1>b
  <2>2. ASSUME NEW h \in Gs
        PROVE  IF holds /\ writer = h THEN todo'[h] \in Writing
               ELSE IF h \in readers THEN todo'[h] \in Reading
               ELSE todo'[h] \in Bare \cup {None}
    <3>1. CASE h = g
      BY <3>1, <1>7, <2>1 DEF Held
    <3>2. CASE h = f
      BY <3>2, <1>3, <1>7, <1>9 DEF Held
    <3>3. CASE h # g /\ h # f
      BY <3>3, <1>7 DEF PoolInv, LockShape
    <3> QED BY <3>1, <3>2, <3>3
  <2> QED BY <1>1, <2>2 DEF LockShape
<1>11. PoolShape'
  <2>1. ASSUME NEW p \in Pools, NEW s \in SlotsOf(p)
        PROVE  todo'[s] \in Rests[p] \cup {None}
    <3>1. s \in Gs /\ todo[s] \in Rests[p] \cup {None}
      BY <2>1, Apart DEF PoolInv, PoolShape
    <3>2. CASE s = g
      <4>1. todo[s] # None /\ todo[s] # <<>>
        BY <1>1, <3>2 DEF At, Idle
      <4> QED BY <1>7, <3>1, <3>2, <4>1, RestOfRest
    <3>3. CASE s = f
      <4>1. p = x.pool
        BY <1>3, <1>4, <2>1, <3>3, Apart
      <4> QED BY <1>3, <1>7, <3>3, <4>1
    <3> QED BY <1>7, <3>1, <3>2, <3>3
  <2> QED BY <2>1 DEF PoolShape
<1>12. Owner'
  <2>1. holds' => writer' # None /\ readers' = {}
    BY <1>1 DEF PoolInv, Owner
  <2>2. ASSUME writer' # None, ~holds'
        PROVE  At(writer, "Lock")'
    <3>1. writer \in Gs /\ At(writer, "Lock")
      BY <1>1, <2>2 DEF PoolInv, Owner, Plain
    <3>2. writer # g /\ writer # f
      BY <1>1, <1>4, <3>1 DEF At
    <3>3. todo'[writer] = todo[writer]
      BY <3>1, <3>2, <1>7
    <3> QED BY <1>1, <3>1, <3>3 DEF At, Idle
  <2> QED BY <2>1, <2>2 DEF Owner
<1> QED BY <1>8, <1>10, <1>11, <1>12 DEF PoolInv

LEMMA LockStep ==
  ASSUME PoolInv, NEW g \in Gs,
         LockWaits(g) \/ LockTaken(g) \/ Unlocks(g) \/ RLocks(g) \/ RUnlocks(g)
  PROVE  PoolInv'
<1>0. DOMAIN todo = Gs /\ g # None
  BY WorkerAssumption DEF PoolInv, Plain
<1>1. CASE LockWaits(g)
  <2>1. /\ At(g, "Lock") /\ writer = None /\ writer' = g
        /\ todo' = todo /\ holds' = holds /\ readers' = readers
    BY <1>1 DEF LockWaits
  <2>2. ~holds
    BY <2>1 DEF PoolInv, Owner
  <2>3. Plain' /\ PoolShape'
    BY <2>1 DEF PoolInv, Plain, PoolShape
  <2>4. LockShape'
    BY <2>1, <2>2 DEF PoolInv, LockShape
  <2>5. Owner'
    BY <2>1, <2>2 DEF Owner, At, Idle
  <2> QED BY <2>3, <2>4, <2>5 DEF PoolInv
<1>2. CASE LockTaken(g)
  <2>1. /\ writer = g /\ ~holds /\ readers = {} /\ holds' = TRUE /\ Does(g)
        /\ writer' = writer /\ readers' = readers
    BY <1>2 DEF LockTaken
  <2>2. At(g, "Lock")
    BY <1>0, <2>1 DEF PoolInv, Owner
  <2>3. Tail(todo[g]) \in Writing
    BY <2>2, AtFacts
  <2>4. /\ DOMAIN todo' = Gs /\ todo'[g] = Tail(todo[g])
        /\ \A h \in Gs : h # g => todo'[h] = todo[h]
        /\ PoolShape'
    BY <2>1, <2>2, GoesOn
  <2>5. Plain'
    BY <2>1, <2>4 DEF PoolInv, Plain
  <2>6. LockShape'
    BY <2>1, <2>3, <2>4 DEF PoolInv, LockShape
  <2>7. Owner'
    BY <1>0, <2>1 DEF Owner
  <2> QED BY <2>4, <2>5, <2>6, <2>7 DEF PoolInv
<1>3. CASE Unlocks(g)
  <2>1. /\ At(g, "Unlock") /\ writer' = None /\ holds' = FALSE /\ Does(g)
        /\ readers' = readers
    BY <1>3 DEF Unlocks
  <2>2. Held(g) /\ Tail(todo[g]) \in Bare
    BY <2>1, AtFacts
  <2>3. readers = {}
    BY <2>2 DEF PoolInv, Owner, Held
  <2>4. /\ DOMAIN todo' = Gs /\ todo'[g] = Tail(todo[g])
        /\ \A h \in Gs : h # g => todo'[h] = todo[h]
        /\ PoolShape'
    BY <2>1, GoesOn
  <2>5. Plain'
    BY <2>1, <2>4 DEF PoolInv, Plain
  <2>6. LockShape'
    BY <2>1, <2>2, <2>3, <2>4 DEF PoolInv, LockShape, Held
  <2>7. Owner'
    BY <2>1 DEF Owner
  <2> QED BY <2>4, <2>5, <2>6, <2>7 DEF PoolInv
<1>4. CASE RLocks(g)
  <2>1. /\ At(g, "RLock") /\ writer = None /\ readers' = readers \cup {g} /\ Does(g)
        /\ writer' = writer /\ holds' = holds
    BY <1>4 DEF RLocks
  <2>2. ~holds
    BY <2>1 DEF PoolInv, Owner
  <2>3. Tail(todo[g]) \in Reading
    BY <2>1, AtFacts
  <2>4. /\ DOMAIN todo' = Gs /\ todo'[g] = Tail(todo[g])
        /\ \A h \in Gs : h # g => todo'[h] = todo[h]
        /\ PoolShape'
    BY <2>1, GoesOn
  <2>5. Plain'
    BY <2>1, <2>4 DEF PoolInv, Plain
  <2>6. LockShape'
    BY <2>1, <2>2, <2>3, <2>4 DEF PoolInv, LockShape
  <2>7. Owner'
    BY <2>1, <2>2 DEF Owner
  <2> QED BY <2>4, <2>5, <2>6, <2>7 DEF PoolInv
<1>5. CASE RUnlocks(g)
  <2>1. /\ At(g, "RUnlock") /\ readers' = readers \ {g} /\ Does(g)
        /\ writer' = writer /\ holds' = holds
    BY <1>5 DEF RUnlocks
  <2>2. g \in readers /\ ~Held(g) /\ Tail(todo[g]) \in Bare
    BY <2>1, AtFacts
  <2>3. ~holds
    BY <2>2 DEF PoolInv, Owner
  <2>4. /\ DOMAIN todo' = Gs /\ todo'[g] = Tail(todo[g])
        /\ \A h \in Gs : h # g => todo'[h] = todo[h]
        /\ PoolShape'
    BY <2>1, GoesOn
  <2>5. Plain'
    BY <2>1, <2>4 DEF PoolInv, Plain
  <2>6. LockShape'
    BY <2>1, <2>2, <2>3, <2>4 DEF PoolInv, LockShape
  <2>7. Owner'
    <3>1. ASSUME writer # None
          PROVE  At(writer, "Lock")'
      <4>1. writer \in Gs /\ At(writer, "Lock")
        BY <2>3, <3>1 DEF PoolInv, Owner, Plain
      <4>2. writer # g
        BY <2>1, <4>1 DEF At
      <4>3. todo'[writer] = todo[writer]
        BY <2>4, <4>1, <4>2
      <4> QED BY <2>1, <4>1, <4>3 DEF At, Idle
    <3> QED BY <2>1, <2>3, <3>1 DEF Owner
  <2> QED BY <2>4, <2>5, <2>6, <2>7 DEF PoolInv
<1> QED BY <1>1, <1>2, <1>3, <1>4, <1>5

LEMMA ReleaseStep ==
  ASSUME PoolInv, NEW g \in Gs, Release(g)
  PROVE  PoolInv'
<1>1. /\ todo[g] = <<>> /\ todo' = [todo EXCEPT ![g] = None]
      /\ writer' = writer /\ holds' = holds /\ readers' = readers
  BY DEF Release
<1>2. DOMAIN todo' = Gs /\ todo'[g] = None /\ \A h \in Gs : h # g => todo'[h] = todo[h]
  BY <1>1 DEF PoolInv, Plain
<1>3. ~Held(g) /\ g \notin readers
  <2>1. <<>> \notin Writing /\ <<>> \notin Reading
    BY WritingHead, ReadingHead
  <2> QED BY <1>1, <2>1 DEF PoolInv, LockShape, Held
<1>4. Plain'
  BY <1>1, <1>2 DEF PoolInv, Plain
<1>5. LockShape'
  BY <1>1, <1>2, <1>3 DEF PoolInv, LockShape, Held
<1>6. PoolShape'
  BY <1>2, Apart DEF PoolInv, PoolShape
<1>7. Owner'
  <2>1. holds' => writer' # None /\ readers' = {}
    BY <1>1 DEF PoolInv, Owner
  <2>2. ASSUME writer' # None, ~holds'
        PROVE  At(writer, "Lock")'
    <3>1. writer \in Gs /\ At(writer, "Lock")
      BY <1>1, <2>2 DEF PoolInv, Owner, Plain
    <3>2. writer # g
      BY <1>1, <3>1 DEF At
    <3>3. todo'[writer] = todo[writer]
      BY <1>2, <3>1, <3>2
    <3> QED BY <1>1, <3>1, <3>3 DEF At, Idle
  <2> QED BY <2>1, <2>2 DEF Owner
<1> QED BY <1>4, <1>5, <1>6, <1>7 DEF PoolInv

LEMMA PoolStep ==
  ASSUME PoolInv, [Next]_vars
  PROVE  PoolInv'
<1>1. ASSUME NEW kind \in Messages, OnRead(kind)
      PROVE  PoolInv'
  <2>1. "tcp_msg" \in Pools /\ Code(kind) \in Bare
    BY <1>1, Handlers, WorkerAssumption DEF Pools
  <2>2. /\ FreeSlot("tcp_msg") \in SlotsOf("tcp_msg") /\ FreeSlot("tcp_msg") \in Gs
        /\ Idle(FreeSlot("tcp_msg"))
    BY <1>1, <2>1, FreeSlotFacts DEF OnRead
  <2>3. Code(kind) \in Rests["tcp_msg"]
    BY <2>1 DEF Rests, Pools
  <2>4. \A p \in Pools : FreeSlot("tcp_msg") \in SlotsOf(p) => Code(kind) \in Rests[p]
    BY <2>1, <2>2, <2>3, Apart
  <2>5. /\ todo' = [todo EXCEPT ![FreeSlot("tcp_msg")] = Code(kind)]
        /\ UNCHANGED <<writer, holds, readers>>
    BY <1>1 DEF OnRead
  <2> QED BY <2>1, <2>2, <2>4, <2>5, Started
<1>2. ASSUME NEW o \in Outside, NEW kind \in Others, Begin(o, kind)
      PROVE  PoolInv'
  <2>1. <<"outside", o>> \in Gs /\ \A p \in Pools : <<"outside", o>> \notin SlotsOf(p)
    BY Apart
  <2>2. Code(kind) \in Bare
    BY Handlers, WorkerAssumption
  <2>3. /\ Idle(<<"outside", o>>) /\ todo' = [todo EXCEPT ![<<"outside", o>>] = Code(kind)]
        /\ UNCHANGED <<writer, holds, readers>>
    BY <1>2 DEF Begin
  <2> QED BY <2>1, <2>2, <2>3, Started
<1>3. ASSUME NEW g \in Gs, Step(g)
      PROVE  PoolInv'
  BY <1>3, GoTaskStep, ReleaseStep, LockStep DEF Step
<1>4. CASE UNCHANGED vars
  BY <1>4 DEF vars, PoolInv, Plain, LockShape, PoolShape, Owner, At, Idle
<1> QED BY <1>1, <1>2, <1>3, <1>4 DEF Next

(* The inductive invariant, for pools of any size.                         *)
LEMMA PoolInvariant == Spec => []PoolInv
<1>1. Init => PoolInv
  BY PoolInit
<1>2. PoolInv /\ [Next]_vars => PoolInv'
  BY PoolStep
<1> QED BY <1>1, <1>2, PTL DEF Spec

(* Nobody reads the map of nodes while somebody writes it (sync.RWMutex,   *)
(* objLock4NodeInfoMap), and who is in the lock has its release to come.   *)
THEOREM TypeInvariant == Spec => []TypeOK
<1>1. ASSUME PoolInv
      PROVE  TypeOK
  <2>1. Plain /\ Owner
    BY <1>1 DEF PoolInv
  <2>2. ASSUME holds
        PROVE  Has(writer, "Unlock")
    <3>1. writer \in Gs
      BY <2>1, <2>2 DEF Plain, Owner
    <3>2. todo[writer] \in Writing
      BY <1>1, <2>2, <3>1 DEF PoolInv, LockShape
    <3> QED BY <3>2, WritingHead, NotNone DEF Has, Idle
  <2>3. ASSUME NEW g \in readers
        PROVE  Has(g, "RUnlock")
    <3>1. g \in Gs /\ ~holds
      BY <2>1, <2>3 DEF Plain, Owner
    <3>2. todo[g] \in Reading
      BY <1>1, <2>3, <3>1 DEF PoolInv, LockShape
    <3> QED BY <3>2, ReadingHead, NotNone DEF Has, Idle
  <2> QED BY <2>1, <2>2, <2>3 DEF TypeOK, Plain, Owner
<1> QED BY <1>1, PoolInvariant, PTL

(* GoTask has no deadline: a node whose lock is held by a goroutine that   *)
(* waits for a slot of a pool full of tasks that wait for the lock never   *)
(* gets out of that, whatever arrives.                                     *)
THEOREM NoWayOut == Spec => WedgedForEver
<1>1. ASSUME PoolInv, Wedged, [Next]_vars
      PROVE  Wedged'
  <2>1. PICK p \in Pools : /\ holds /\ At(writer, "Go") /\ Head(todo[writer]).pool = p
                           /\ \A s \in SlotsOf(p) : WaitsForLock(s)
    BY <1>1 DEF Wedged
  <2> DEFINE Stuck == SlotsOf(p) \cup {writer}
  <2>2. writer \in Gs /\ Stuck \subseteq Gs /\ writer # None
    BY <1>1, <2>1, Apart DEF PoolInv, Plain, Owner
  <2>3. \A g \in Stuck : ~Idle(g) /\ todo[g] # <<>>
    BY <2>1 DEF WaitsForLock, At
  <2>4. ASSUME NEW g \in Stuck, At(g, "Unlock") \/ At(g, "RUnlock")
        PROVE  FALSE
    BY <2>1, <2>4 DEF WaitsForLock, At
  <2>5. ASSUME \A g \in Stuck : todo'[g] = todo[g], writer' = writer, holds' = holds
        PROVE  Wedged'
    <3>1. At(writer, "Go")' /\ (Head(todo[writer]).pool = p)' /\ holds'
      BY <2>1, <2>5 DEF At, Idle
    <3>2. \A s \in SlotsOf(p) : WaitsForLock(s)'
      BY <2>1, <2>5 DEF WaitsForLock, At, Idle
    <3> QED BY <3>1, <3>2 DEF Wedged
  <2> HIDE DEF Stuck
  <2>6. DOMAIN todo = Gs
    BY <1>1 DEF PoolInv, Plain
  <2>7. ASSUME NEW kind \in Messages, OnRead(kind)
        PROVE  Wedged'
    <3> DEFINE f == FreeSlot("tcp_msg")
    <3>1. f \in Gs /\ Idle(f)
      BY <2>7, FreeSlotFacts DEF OnRead, Pools
    <3>2. todo' = [todo EXCEPT ![f] = Code(kind)] /\ writer' = writer /\ holds' = holds
      BY <2>7 DEF OnRead
    <3>3. f \notin Stuck
      BY <2>3, <3>1
    <3> HIDE DEF f
    <3>4. \A g \in Stuck : todo'[g] = todo[g]
      BY <2>2, <2>6, <3>2, <3>3
    <3> QED BY <2>5, <3>2, <3>4
  <2>8. ASSUME NEW o \in Outside, NEW kind \in Others, Begin(o, kind)
        PROVE  Wedged'
    <3> DEFINE f == <<"outside", o>>
    <3>1. f \in Gs /\ Idle(f)
      BY <2>8, Apart DEF Begin
    <3>2. todo' = [todo EXCEPT ![f] = Code(kind)] /\ writer' = writer /\ holds' = holds
      BY <2>8 DEF Begin
    <3>3. f \notin Stuck
      BY <2>3, <3>1
    <3> HIDE DEF f
    <3>4. \A g \in Stuck : todo'[g] = todo[g]
      BY <2>2, <2>6, <3>2, <3>3
    <3> QED BY <2>5, <3>2, <3>4
  <2>9. ASSUME NEW g \in Gs, GoTask(g)
        PROVE  Wedged'
    <3> DEFINE x == Head(todo[g])  f == FreeSlot(x.pool)
    <3>1. PICK kind \in x.kinds :
            /\ At(g, "Go") /\ Free(x.pool) # {}
            /\ todo' = [todo EXCEPT ![g] = Tail(@), ![f] = Code(kind)]
            /\ writer' = writer /\ holds' = holds
      BY <2>9 DEF GoTask
    <3>2. x \in Tasks
      <4>1. At(g, "Go")
        BY <3>1
      <4> QED BY <1>1, <4>1, AtFacts
    <3>3. x.pool \in Pools
      BY <3>1, <3>2, Starts
    <3>4. f \in SlotsOf(x.pool) /\ f \in Gs /\ Idle(f)
      BY <3>1, <3>3, FreeSlotFacts
    <3>5. f \notin Stuck
      BY <2>3, <3>4
    <3>6. g \notin Stuck
      <4>1. g # writer
        <5>1. ~(f \in SlotsOf(p))
          BY <3>4, <2>1 DEF WaitsForLock, At
        <5> QED BY <5>1, <2>1, <3>4
      <4>2. g \notin SlotsOf(p)
        BY <2>1, <3>1 DEF WaitsForLock, At
      <4> QED BY <4>1, <4>2 DEF Stuck
    <3> HIDE DEF x, f
    <3>7. \A h \in Stuck : todo'[h] = todo[h]
      BY <2>2, <2>6, <3>1, <3>5, <3>6
    <3> QED BY <2>5, <3>1, <3>7
  <2>10. ASSUME NEW g \in Gs, Release(g)
         PROVE  Wedged'
    <3>1. /\ todo[g] = <<>> /\ todo' = [todo EXCEPT ![g] = None]
          /\ writer' = writer /\ holds' = holds
      BY <2>10 DEF Release
    <3>2. g \notin Stuck
      BY <2>3, <3>1
    <3>3. \A h \in Stuck : todo'[h] = todo[h]
      BY <2>2, <2>6, <3>1, <3>2
    <3> QED BY <2>5, <3>1, <3>3
  <2>11. ASSUME NEW g \in Gs, LockWaits(g) \/ LockTaken(g) \/ RLocks(g)
         PROVE  FALSE
    BY <2>1, <2>2, <2>11 DEF LockWaits, LockTaken, RLocks
  <2>12. ASSUME NEW g \in Gs, Unlocks(g)
         PROVE  FALSE
    <3>1. At(g, "Unlock")
      BY <2>12 DEF Unlocks
    <3>2. g = writer
      BY <1>1, <3>1, AtFacts DEF Held
    <3> QED BY <2>1, <3>1, <3>2 DEF At
  <2>13. ASSUME NEW g \in Gs, RUnlocks(g)
         PROVE  Wedged'
    <3>1. /\ At(g, "RUnlock") /\ todo' = [todo EXCEPT ![g] = Tail(@)]
          /\ writer' = writer /\ holds' = holds
      BY <2>13 DEF RUnlocks, Does
    <3>2. g \notin Stuck
      BY <2>4, <3>1
    <3>3. \A h \in Stuck : todo'[h] = todo[h]
      BY <2>2, <2>6, <3>1, <3>2
    <3> QED BY <2>5, <3>1, <3>3
  <2>14. CASE UNCHANGED vars
    BY <2>5, <2>14 DEF vars
  <2> QED BY <1>1, <2>7, <2>8, <2>9, <2>10, <2>11, <2>12, <2>13, <2>14 DEF Next, Step
<1>2. PoolInv /\ [Next]_vars => [Wedged => Wedged']_vars
  BY <1>1
<1> QED BY <1>2, PoolInvariant, PTL DEF Spec, WedgedForEver

-----------------------------------------------------------------------------
(* What a task of a pool can be waiting for.                               *)
LEMMA ConnectGoesOn ==
  ASSUME PoolInv
  PROVE  <<"node_connect", 1>> \notin Waiting
<1>1. <<"node_connect", 1>> \in SlotsOf("node_connect") /\ "node_connect" \in Pools
  BY Apart DEF Pools
<1>2. todo[<<"node_connect", 1>>] \in Rests["node_connect"] \cup {None}
  BY <1>1 DEF PoolInv, PoolShape
<1>3. Rests["node_connect"] = {<<>>}
  BY DEF Rests, Pools
<1> QED BY <1>2, <1>3 DEF Waiting, At, Idle

LEMMA ManagerWaits ==
  ASSUME PoolInv, NEW s \in SlotsOf("node_manager")
  PROVE  ~At(s, "Lock") /\ (At(s, "Go") => Head(todo[s]) = Dial)
<1>1. "node_manager" \in Pools
  BY DEF Pools
<1>2. todo[s] \in Rests["node_manager"] \cup {None}
  BY <1>1 DEF PoolInv, PoolShape
<1>3. Rests["node_manager"] = {<<RLock, Dial, RUnlock>>, <<Dial, RUnlock>>, <<RUnlock>>, <<>>}
  BY DEF Rests, Pools, notifyEntry
<1>4. CASE todo[s] = <<RLock, Dial, RUnlock>>
  BY <1>4, Operations DEF At
<1>5. CASE todo[s] = <<Dial, RUnlock>>
  BY <1>5, Operations DEF At, Tasks
<1>6. CASE todo[s] = <<RUnlock>>
  BY <1>6, Operations DEF At
<1> QED BY <1>2, <1>3, <1>4, <1>5, <1>6 DEF At, Idle

LEMMA IntroduceWaits ==
  ASSUME PoolInv, NEW s \in SlotsOf("node_introduce"), At(s, "Go")
  PROVE  \/ Head(todo[s]) = Dial
         \/ Head(todo[s]) = DialInManager /\ Held(s)
<1>1. "node_introduce" \in Pools /\ s \in Gs
  BY Apart DEF Pools
<1>2. todo[s] \in Rests["node_introduce"] /\ todo[s] # None /\ todo[s] # <<>>
  BY <1>1 DEF PoolInv, PoolShape, At, Idle
<1>3. Head(todo[s]).op = "Go"
  BY DEF At
<1>4. Rests["node_introduce"] =
        {<<RLock, RUnlock, Dial>>, <<RUnlock, Dial>>, <<Dial>>, <<>>, <<RLock, RUnlock>>,
         <<RUnlock>>, <<RLock, RUnlock, Lock, DialInManager, Unlock>>,
         <<RUnlock, Lock, DialInManager, Unlock>>, <<Lock, DialInManager, Unlock>>,
         <<DialInManager, Unlock>>, <<Unlock>>}
  BY DEF Pools, Rests, tell, makefriendsKnown, makefriends, checkNeighbour, DialInManager
<1>5. todo[s] # <<RLock, RUnlock, Dial>> /\ todo[s] # <<RUnlock, Dial>>
  BY <1>3, Operations
<1>6. todo[s] # <<RLock, RUnlock>> /\ todo[s] # <<RUnlock>> /\ todo[s] # <<Unlock>>
  BY <1>3, Operations
<1>7. todo[s] # <<RLock, RUnlock, Lock, DialInManager, Unlock>>
  BY <1>3, Operations
<1>8. todo[s] # <<RUnlock, Lock, DialInManager, Unlock>>
  BY <1>3, Operations
<1>9. todo[s] # <<Lock, DialInManager, Unlock>>
  BY <1>3, Operations
<1>10. todo[s] = <<Dial>> \/ todo[s] = <<DialInManager, Unlock>>
  BY <1>2, <1>4, <1>5, <1>6, <1>7, <1>8, <1>9
<1>11. CASE todo[s] = <<Dial>>
  BY <1>11
<1>12. CASE todo[s] = <<DialInManager, Unlock>>
  <2>1. Head(todo[s]) = DialInManager /\ Tail(todo[s]) = <<Unlock>>
    BY <1>12
  <2>2. <<Unlock>> \notin Reading /\ <<Unlock>> \notin Bare
    <3>1. <<Unlock>> # <<>> /\ Head(<<Unlock>>) = Unlock
      OBVIOUS
    <3>2. Unlock \notin Tasks /\ Unlock # Lock /\ Unlock # RLock /\ Unlock # RUnlock /\ Unlock # Dial
      BY Operations DEF Tasks
    <3> QED BY <3>1, <3>2, ReadingHead, BareHead
  <2>3. Held(s)
    BY <1>1, <2>1, <2>2, AtFacts
  <2> QED BY <2>1, <2>3
<1> QED BY <1>10, <1>11, <1>12

(* handleSayHello and makefriends call GoTask while they hold the lock of  *)
(* the map of nodes: apart from what that can lead to (Wedged) no set of   *)
(* goroutines of a node ever waits for itself, whatever the pools' sizes.  *)
THEOREM NoOtherDeadlock == Spec => []OnlyDeadlock
<1>1. ASSUME PoolInv, NEW S \in SUBSET Waiting, HeldUp(S), S # {}
      PROVE  Wedged
  <2>1. ASSUME NEW g \in S, At(g, "Go")
        PROVE  /\ Head(todo[g]) \in Tasks /\ Head(todo[g]) # Dial
               /\ Head(todo[g]).pool \in {"node_introduce", "node_manager"}
               /\ SlotsOf(Head(todo[g]).pool) \subseteq S
    <3>1. g \in Gs /\ S \subseteq Waiting
      BY DEF Waiting
    <3>2. Head(todo[g]) \in Tasks
      BY <1>1, <2>1, <3>1, AtFacts
    <3>3. SlotsOf(Head(todo[g]).pool) \subseteq S
      BY <1>1, <2>1 DEF HeldUp, WaitsForLock, At
    <3>4. Head(todo[g]) # Dial
      <4>1. <<"node_connect", 1>> \in SlotsOf("node_connect")
        BY Apart DEF Pools
      <4>2. <<"node_connect", 1>> \notin S
        BY <1>1, <3>1, ConnectGoesOn
      <4> QED BY <3>3, <4>1, <4>2, WaitsFor
    <3> QED BY <3>2, <3>3, <3>4, WaitsFor
  <2>2. readers \cap S = {}
    <3>1. ASSUME NEW r \in readers, r \in S
          PROVE  FALSE
      <4>1. r \in Gs /\ ~Held(r)
        BY <1>1, <3>1 DEF PoolInv, Plain, Owner, Held
      <4>2. At(r, "Go") \/ At(r, "RLock") \/ At(r, "Lock")
        BY <3>1 DEF Waiting
      <4>3. At(r, "Go") /\ Head(todo[r]) = Dial
        BY <1>1, <3>1, <4>1, <4>2, AtFacts
      <4> QED BY <2>1, <3>1, <4>3
    <3> QED BY <3>1
  <2>3. ASSUME NEW g \in S, ~At(g, "Go")
        PROVE  WaitsForLock(g) /\ writer \in S
    BY <1>1, <2>2, <2>3 DEF HeldUp
  <2>4. ASSUME NEW g \in S, At(g, "Go"), Head(todo[g]).pool = "node_manager"
        PROVE  /\ \A s \in SlotsOf("node_manager") : WaitsForLock(s)
               /\ writer \in S
    <3>1. SlotsOf("node_manager") \subseteq S
      BY <2>1, <2>4
    <3>2. \A s \in SlotsOf("node_manager") : ~At(s, "Go")
      BY <1>1, <2>1, <3>1, ManagerWaits
    <3>3. <<"node_manager", 1>> \in SlotsOf("node_manager")
      BY Apart DEF Pools
    <3> QED BY <2>3, <3>1, <3>2, <3>3
  <2>5. writer \in S
    <3>1. PICK g \in S : TRUE
      BY <1>1
    <3>2. CASE ~At(g, "Go")
      BY <2>3, <3>2
    <3>3. CASE At(g, "Go") /\ Head(todo[g]).pool = "node_manager"
      BY <2>4, <3>3
    <3>4. CASE At(g, "Go") /\ Head(todo[g]).pool = "node_introduce"
      <4>1. <<"node_introduce", 1>> \in SlotsOf("node_introduce")
        BY Apart DEF Pools
      <4>2. <<"node_introduce", 1>> \in S
        BY <2>1, <3>4, <4>1
      <4>3. CASE ~At(<<"node_introduce", 1>>, "Go")
        BY <2>3, <4>2, <4>3
      <4>4. CASE At(<<"node_introduce", 1>>, "Go")
        <5>1. Held(<<"node_introduce", 1>>)
          BY <1>1, <2>1, <4>1, <4>2, <4>4, IntroduceWaits
        <5> QED BY <4>2, <5>1 DEF Held
      <4> QED BY <4>3, <4>4
    <3> QED BY <2>1, <3>2, <3>3, <3>4
  <2>6. writer \in Gs /\ writer # None
    BY <2>5, WorkerAssumption DEF Waiting
  <2>7. holds /\ At(writer, "Go")
    <3>1. ~WaitsForLock(writer)
      <4>1. ASSUME At(writer, "RLock")
            PROVE  FALSE
        <5>1. ~Held(writer)
          BY <1>1, <2>6, <4>1, AtFacts
        <5>2. ~holds
          BY <5>1 DEF Held
        <5>3. At(writer, "Lock")
          BY <1>1, <2>6, <5>2 DEF PoolInv, Owner
        <5> QED BY <4>1, <5>3 DEF At
      <4> QED BY <4>1 DEF WaitsForLock
    <3>2. At(writer, "Go")
      BY <2>3, <2>5, <3>1
    <3>3. holds
      <4>1. ~At(writer, "Lock")
        BY <3>2 DEF At
      <4> QED BY <1>1, <2>6, <4>1 DEF PoolInv, Owner
    <3> QED BY <3>2, <3>3
  <2>8. CASE Head(todo[writer]).pool = "node_manager"
    BY <2>4, <2>5, <2>7, <2>8 DEF Wedged, Pools
  <2>9. CASE Head(todo[writer]).pool = "node_introduce"
    <3>1. SlotsOf("node_introduce") \subseteq S
      BY <2>1, <2>5, <2>7, <2>9
    <3>2. ASSUME NEW s \in SlotsOf("node_introduce")
          PROVE  WaitsForLock(s)
      <4>1. s \in S
        BY <3>1
      <4>2. ASSUME At(s, "Go")
            PROVE  FALSE
        <5>1. Head(todo[s]) = DialInManager /\ s = writer
          BY <1>1, <2>1, <4>1, <4>2, IntroduceWaits DEF Held
        <5>2. DialInManager.pool = "node_manager"
          BY DEF DialInManager, Go
        <5> QED BY <2>9, <5>1, <5>2
      <4> QED BY <2>3, <4>1, <4>2
    <3> QED BY <2>7, <2>9, <3>2 DEF Wedged, Pools
  <2> QED BY <2>1, <2>5, <2>7, <2>8, <2>9
<1>2. PoolInv => OnlyDeadlock
  BY <1>1 DEF OnlyDeadlock
<1> QED BY <1>2, PoolInvariant, PTL

=============================================================================
