----------------------------- MODULE WorkerPools -----------------------------
(***************************************************************************)
(* The worker pools of a node (taskworker/taskworker.go) and the lock of   *)
(* its map of nodes (objLock4NodeInfoMap in node/manager.go).  GoTask      *)
(* waits for a slot of a pool of fixed size, several handlers call it      *)
(* while they hold the lock, and tasks in those pools wait for the lock.   *)
(*                                                                         *)
(* A goroutine is here the sequence of the locks it takes and the tasks it *)
(* starts; what it does in between always ends (calls have timeouts) and   *)
(* the other locks are taken and released around a few assignments.        *)
(***************************************************************************)
EXTENDS Naturals, Sequences

CONSTANTS
  Size,       \* pool -> number of slots
  Messages,   \* what peers send: kinds of tasks in tcp_msg
  Outside,    \* goroutines outside the pools: timers, read loops, AddEntry
  Others,     \* ... what they do, again and again
  None

Pools == {"tcp_msg", "node_introduce", "node_manager", "node_connect"}
SlotsOf(p) == {p} \X (1..Size[p])
Slots == UNION {SlotsOf(p) : p \in Pools}
Gs == Slots \cup ({"outside"} \X Outside)

Lock == [op |-> "Lock"]
Unlock == [op |-> "Unlock"]
RLock == [op |-> "RLock"]
RUnlock == [op |-> "RUnlock"]
Go(p, kinds) == [op |-> "Go", pool |-> p, kinds |-> kinds]

(* Info.getConnection has every cast and call start a reconnect.           *)
DialInManager == Go("node_manager", {"work"})
Dial == Go("node_connect", {"work"})

(* work: reconnect, or the close of a connection that is not authenticated *)
handleSayHello ==
  <<Lock, Go("node_introduce", {"sync", "work"}), Unlock, Go("node_introduce", {"tell"})>>
handleKeepAlive == <<Go("node_introduce", {"known", "friends"}), Dial>>
notAuth == <<Go("node_manager", {"work"})>>
tell == <<RLock, RUnlock, Dial>>
trySyncAll == <<Dial>>
makefriendsKnown == <<RLock, RUnlock>>
makefriends == <<RLock, RUnlock, Lock, Go("node_manager", {"work"}), Unlock>>
notifyEntry == <<RLock, Dial, RUnlock>>
checkNeighbour == <<Lock, Go("node_manager", {"work"}), Unlock>>
keepalive == <<RLock, Dial, RUnlock>>
OnCloseConnection == <<Lock, Unlock>>
cleanTimeout == <<RLock, RUnlock, RLock, RUnlock>>
AddEntry == <<Go("node_manager", {"notify"})>>

Code(kind) ==
  CASE kind = "hello" -> handleSayHello
    [] kind = "keepalive" -> handleKeepAlive
    [] kind = "stranger" -> notAuth
    [] kind = "tell" -> tell
    [] kind = "sync" -> trySyncAll
    [] kind = "known" -> makefriendsKnown
    [] kind = "friends" -> makefriends
    [] kind = "notify" -> notifyEntry
    [] kind = "neighbour" -> checkNeighbour
    [] kind = "beat" -> keepalive
    [] kind = "close" -> OnCloseConnection
    [] kind = "sweep" -> cleanTimeout
    [] kind = "entry" -> AddEntry
    [] kind = "work" -> <<>>

MessageKinds == {"hello", "keepalive", "stranger"}
OtherKinds == {"neighbour", "beat", "close", "sweep", "entry"}

Kinds == MessageKinds \cup OtherKinds \cup {"tell", "sync", "known", "friends", "notify", "work"}
Ops == [op : {"Lock", "Unlock", "RLock", "RUnlock"}]
         \cup [op : {"Go"}, pool : Pools, kinds : SUBSET Kinds]

ASSUME WorkerAssumption ==
  /\ Size \in [Pools -> Nat \ {0}]
  /\ Messages \subseteq MessageKinds /\ Others \subseteq OtherKinds
  /\ None \notin Gs /\ None \notin Seq(Ops)

VARIABLES
  todo,      \* what a goroutine has still to do, None when there is none
  writer,    \* the goroutine that holds the lock or is next to hold it
  holds,     \* ... it holds it
  readers    \* the goroutines that hold the lock for reading

vars == <<todo, writer, holds, readers>>

Init ==
  /\ todo = [g \in Gs |-> None]
  /\ writer = None /\ holds = FALSE /\ readers = {}

Idle(g) == todo[g] = None
At(g, op) == ~Idle(g) /\ todo[g] # <<>> /\ Head(todo[g]).op = op
Does(g) == todo' = [todo EXCEPT ![g] = Tail(@)]

(* Which free slot of a pool a task gets makes no difference.              *)
Free(p) == {s \in SlotsOf(p) : Idle(s)}
FreeSlot(p) == CHOOSE s \in Free(p) : TRUE

(* OnRead, in the read loop of a connection.                               *)
OnRead(kind) ==
  /\ Free("tcp_msg") # {}
  /\ todo' = [todo EXCEPT ![FreeSlot("tcp_msg")] = Code(kind)]
  /\ UNCHANGED <<writer, holds, readers>>
Begin(o, kind) ==
  /\ Idle(<<"outside", o>>)
  /\ todo' = [todo EXCEPT ![<<"outside", o>>] = Code(kind)]
  /\ UNCHANGED <<writer, holds, readers>>

(* GoTask waits for a slot and starts the task in it ...                   *)
GoTaskGivesUp(g) ==
  /\ At(g, "Go")
  /\ LET task == Head(todo[g])
     IN IF Free(task.pool) = {} THEN Does(g)
        ELSE \E kind \in task.kinds :
               todo' = [todo EXCEPT ![g] = Tail(@), ![FreeSlot(task.pool)] = Code(kind)]
  /\ UNCHANGED <<writer, holds, readers>>
GoTask(g) ==
  /\ At(g, "Go")
  /\ LET task == Head(todo[g])
     IN /\ Free(task.pool) # {}
        /\ \E kind \in task.kinds :
             todo' = [todo EXCEPT ![g] = Tail(@), ![FreeSlot(task.pool)] = Code(kind)]
  /\ UNCHANGED <<writer, holds, readers>>

(* ... and the slot is free when the task has ended.                       *)
Release(g) ==
  /\ todo[g] = <<>>
  /\ todo' = [todo EXCEPT ![g] = None]
  /\ UNCHANGED <<writer, holds, readers>>

(* sync.RWMutex: a waiting writer keeps new readers out and waits for the  *)
(* readers inside.                                                         *)
LockWaits(g) ==
  /\ At(g, "Lock") /\ writer = None
  /\ writer' = g
  /\ UNCHANGED <<todo, holds, readers>>
LockTaken(g) ==
  /\ writer = g /\ ~holds /\ readers = {}
  /\ holds' = TRUE /\ Does(g)
  /\ UNCHANGED <<writer, readers>>
Unlocks(g) ==
  /\ At(g, "Unlock")
  /\ writer' = None /\ holds' = FALSE /\ Does(g)
  /\ UNCHANGED readers
RLocksAnyway(g) ==
  /\ At(g, "RLock")
  /\ readers' = readers \cup {g} /\ Does(g)
  /\ UNCHANGED <<writer, holds>>
RLocks(g) ==
  /\ At(g, "RLock") /\ writer = None
  /\ readers' = readers \cup {g} /\ Does(g)
  /\ UNCHANGED <<writer, holds>>
RUnlocks(g) ==
  /\ At(g, "RUnlock")
  /\ readers' = readers \ {g} /\ Does(g)
  /\ UNCHANGED <<writer, holds>>

Step(g) ==
  \/ GoTask(g) \/ Release(g) \/ LockWaits(g) \/ LockTaken(g) \/ Unlocks(g)
  \/ RLocks(g) \/ RUnlocks(g)
Next ==
  \/ \E kind \in Messages : OnRead(kind)
  \/ \E o \in Outside, kind \in Others : Begin(o, kind)
  \/ \E g \in Gs : Step(g)

Spec == Init /\ [][Next]_vars

-----------------------------------------------------------------------------
(* Types; nobody reads while somebody writes, and who holds the lock has   *)
(* its release still to do.                                                *)
Has(g, op) == ~Idle(g) /\ \E i \in DOMAIN todo[g] : todo[g][i].op = op
TypeOK ==
  /\ DOMAIN todo = Gs /\ holds \in BOOLEAN
  /\ writer \in Gs \cup {None} /\ readers \subseteq Gs
  /\ holds => writer # None /\ readers = {} /\ Has(writer, "Unlock")
  /\ \A g \in readers : Has(g, "RUnlock")

(* The holder of the lock waits for a slot of a pool all of whose tasks    *)
(* wait for the lock.                                                      *)
WaitsForLock(g) == At(g, "RLock") \/ (At(g, "Lock") /\ writer # g)
Wedged ==
  \E p \in Pools : /\ holds /\ At(writer, "Go") /\ Head(todo[writer]).pool = p
                   /\ \A s \in SlotsOf(p) : WaitsForLock(s)

(* Goroutines that wait for a slot or for the lock, each of them for what  *)
(* only others of them can give: none of them ever goes on.                *)
Waiting == {g \in Gs : At(g, "Go") \/ At(g, "RLock") \/ At(g, "Lock")}
HeldUp(S) ==
  \A g \in S : \/ At(g, "Go") /\ SlotsOf(Head(todo[g]).pool) \subseteq S
               \/ WaitsForLock(g) /\ writer \in S
               \/ At(g, "Lock") /\ writer = g /\ readers \cap S # {}

(* That is the only deadlock of locks and pools a node can get into:       *)
(* unless it is wedged in this way no handler, timer or task is held up    *)
(* for ever.                                                               *)
OnlyDeadlock == Wedged \/ \A S \in SUBSET Waiting : HeldUp(S) => S = {}

(* And a wedged node stays wedged: GoTask has no deadline.                 *)
WedgedForEver == [][Wedged => Wedged']_vars
=============================================================================
