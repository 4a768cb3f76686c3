-------------------------- MODULE EntrySyncProofs --------------------------
(***************************************************************************)
(* Proofs about EntrySync for any entries, any number of concurrent        *)
(* handlers, changes and connections.                                      *)
(***************************************************************************)
EXTENDS EntrySync, TLAPS

\* What the code sends and what a goroutine starts from is well-formed.
LEMMA Wellformed ==
    /\ NoMsg \in Message /\ Idle \in Handling /\ SayGoodbyeNotify \in Message
    /\ \A v \in Nat : KeepAliveNotify(v) \in Message /\ SayHelloReq(v) \in Message
    /\ \A t \in [id : Nat, entry : Entries, isNew : BOOLEAN], v \in Nat :
          NewEntryNotify(t, v) \in Message
BY DEF Message, NoMsg, Idle, Handling, HandlerStates, KeepAliveNotify, SayHelloReq,
       SayGoodbyeNotify, NewEntryNotify

\* Every step of the owner and of the observer's handlers keeps the types.
LEMMA TypeStep == TypeOK /\ [Next]_vars => TypeOK'
<1> USE SyncAssumption, Wellformed
<1> SUFFICES ASSUME TypeOK, [Next]_vars PROVE TypeOK'
  OBVIOUS
<1> USE DEF TypeOK, ownerVars, stopVars, observerVars, SelfAlive
<1>1. ASSUME NEW e \in Entries, AddEntry(e) PROVE TypeOK'
  <2>1. OwnerTypes'
    BY <1>1 DEF AddEntry, NoOp, OwnerTypes
  <2>2. ObserverTypes'
    BY <1>1 DEF AddEntry, ObserverTypes, HandlerTypes, Handling, Message, At
  <2>3. HandlerTypes'
    BY <1>1 DEF AddEntry, OwnerTypes, ObserverTypes, HandlerTypes
  <2> QED
    BY <2>1, <2>2, <2>3
<1>2. ASSUME NEW e \in Entries, RemoveEntry(e) PROVE TypeOK'
  <2>1. OwnerTypes'
    BY <1>2 DEF RemoveEntry, NoOp, OwnerTypes
  <2>2. ObserverTypes'
    BY <1>2 DEF RemoveEntry, ObserverTypes, HandlerTypes, Handling, Message, At
  <2>3. HandlerTypes'
    BY <1>2 DEF RemoveEntry, OwnerTypes, ObserverTypes, HandlerTypes
  <2> QED
    BY <2>1, <2>2, <2>3
<1>3. ASSUME OpRoute PROVE TypeOK'
  <2>1. OwnerTypes'
    BY <1>3 DEF OpRoute, NoOp, Keys, getUri, bareUri, OwnerTypes
  <2>2. ObserverTypes'
    BY <1>3 DEF OpRoute, ObserverTypes, HandlerTypes, Handling, Message, At
  <2>3. HandlerTypes'
    BY <1>3 DEF OpRoute, OwnerTypes, ObserverTypes, HandlerTypes
  <2> QED
    BY <2>1, <2>2, <2>3
<1>4. ASSUME OpBump PROVE TypeOK'
  <2>1. OwnerTypes'
    BY <1>4 DEF OpBump, OwnerTypes
  <2>2. ObserverTypes'
    BY <1>4 DEF OpBump, ObserverTypes, HandlerTypes, Handling, Message, At
  <2>3. HandlerTypes'
    BY <1>4 DEF OpBump, OwnerTypes, ObserverTypes, HandlerTypes
  <2> QED
    BY <2>1, <2>2, <2>3
<1>5. ASSUME OpStore PROVE TypeOK'
  <2>1. OwnerTypes'
    <3>1. CASE nSequence = nVersion + 1
      BY <1>5, <3>1 DEF OpStore, OwnerTypes
    <3>2. CASE nSequence # nVersion + 1
      <4>1. op' = NoOp /\ UNCHANGED <<nSequence, nVersion, entries, ownRoutes, notifyTasks, stopVars, hellos>>
        BY <1>5, <3>2 DEF OpStore
      <4>2. NoOp \in [step : {"none", "route", "bump", "store", "map"},
                      entry : Entries \cup {NoEntry}, isNew : BOOLEAN] /\ NoOp.step = "none"
        BY DEF NoOp
      <4> QED
        BY <4>1, <4>2 DEF OwnerTypes
    <3> QED
      BY <3>1, <3>2
  <2>2. ObserverTypes'
    BY <1>5 DEF OpStore, ObserverTypes, HandlerTypes, Handling, Message, At
  <2>3. HandlerTypes'
    BY <1>5 DEF OpStore, OwnerTypes, ObserverTypes, HandlerTypes
  <2> QED
    BY <2>1, <2>2, <2>3
<1>6. ASSUME OpMap PROVE TypeOK'
  <2>1. OwnerTypes'
    BY <1>6 DEF OpMap, NoOp, OwnerTypes
  <2>2. ObserverTypes'
    BY <1>6 DEF OpMap, ObserverTypes, HandlerTypes, Handling, Message, At
  <2>3. HandlerTypes'
    BY <1>6 DEF OpMap, OwnerTypes, ObserverTypes, HandlerTypes
  <2> QED
    BY <2>1, <2>2, <2>3
<1>7. ASSUME KeepAlive PROVE TypeOK'
  <2>1. OwnerTypes'
    BY <1>7 DEF KeepAlive, OwnerTypes
  <2>2. ObserverTypes'
    BY <1>7 DEF KeepAlive, ObserverTypes, HandlerTypes, Handling, Message, At
  <2>3. HandlerTypes'
    BY <1>7 DEF KeepAlive, OwnerTypes, ObserverTypes, HandlerTypes
  <2> QED
    BY <2>1, <2>2, <2>3
<1>8. ASSUME Reconnect PROVE TypeOK'
  <2>1. OwnerTypes'
    BY <1>8 DEF Reconnect, OwnerTypes
  <2>2. ObserverTypes'
    BY <1>8 DEF Reconnect, ObserverTypes, HandlerTypes, Handling, Message, At
  <2>3. HandlerTypes'
    BY <1>8 DEF Reconnect, OwnerTypes, ObserverTypes, HandlerTypes
  <2> QED
    BY <2>1, <2>2, <2>3
<1>9. ASSUME Stop PROVE TypeOK'
  <2>1. OwnerTypes'
    BY <1>9 DEF Stop, Keys, OwnerTypes
  <2>2. ObserverTypes'
    BY <1>9 DEF Stop, ObserverTypes, HandlerTypes, Handling, Message, At
  <2>3. HandlerTypes'
    BY <1>9 DEF Stop, OwnerTypes, ObserverTypes, HandlerTypes
  <2> QED
    BY <2>1, <2>2, <2>3
<1>10. ASSUME NEW t \in notifyTasks, NotifyTask(t) PROVE TypeOK'
  <2>1. OwnerTypes'
    BY <1>10 DEF NotifyTask, OwnerTypes
  <2>2. ObserverTypes'
    BY <1>10 DEF NotifyTask, ObserverTypes, HandlerTypes, Handling, Message, At
  <2>3. HandlerTypes'
    BY <1>10 DEF NotifyTask, OwnerTypes, ObserverTypes, HandlerTypes
  <2> QED
    BY <2>1, <2>2, <2>3
<1>11. ASSUME NEW h \in Handlers, NEW m \in net, Take(h, m) PROVE TypeOK'
  <2>1. OwnerTypes'
    BY <1>11 DEF Take, OwnerTypes
  <2>2. ObserverTypes'
    BY <1>11 DEF Take, ObserverTypes, HandlerTypes, Handling, Message, At
  <2>3. HandlerTypes'
    <3> DEFINE started(pc) == [Idle EXCEPT !.pc = pc, !.msg = m]
    <3>1. m \in Message /\ net' \subseteq Message
      BY <1>11 DEF Take, HandlerTypes
    <3>2. started("check") \in Handling /\ started("need") \in Handling /\ started("dead") \in Handling
      BY <3>1 DEF Handling, HandlerStates, Idle, ObserverTypes
    <3>3. /\ started("check").pc = "check" /\ started("check").msg = m
          /\ started("need").pc = "need" /\ started("dead").pc = "dead"
      BY DEF Idle
    <3>4. \/ handler' = handler
          \/ handler' = [handler EXCEPT ![h] = started("check")] /\ m.type = "notify"
          \/ handler' = [handler EXCEPT ![h] = started("need")]
          \/ handler' = [handler EXCEPT ![h] = started("dead")]
      BY <1>11 DEF Take
    <3> HIDE DEF started
    <3> QED
      BY <3>1, <3>2, <3>3, <3>4 DEF HandlerTypes
  <2> QED
    BY <2>1, <2>2, <2>3
<1>12. ASSUME NEW h \in Handlers, SayGoodbye(h) PROVE TypeOK'
  <2>1. OwnerTypes'
    BY <1>12 DEF SayGoodbye, OwnerTypes
  <2>2. ObserverTypes'
    BY <1>12 DEF SayGoodbye, ObserverTypes, HandlerTypes, Handling, Message, At
  <2>3. HandlerTypes'
    BY <1>12 DEF SayGoodbye, OwnerTypes, ObserverTypes, HandlerTypes, Handling, HandlerStates, Goto, Done, At, Idle
  <2> QED
    BY <2>1, <2>2, <2>3
<1>13. ASSUME NEW h \in Handlers, ModifyCheck(h) PROVE TypeOK'
  <2>1. OwnerTypes'
    BY <1>13 DEF ModifyCheck, OwnerTypes
  <2>2. ObserverTypes'
    BY <1>13 DEF ModifyCheck, ObserverTypes, HandlerTypes, Handling, Message, At
  <2>3. HandlerTypes'
    BY <1>13 DEF ModifyCheck, OwnerTypes, ObserverTypes, HandlerTypes, Handling, HandlerStates, Goto, Done, At, Idle
  <2> QED
    BY <2>1, <2>2, <2>3
<1>14. ASSUME NEW h \in Handlers, ModifyStore(h) PROVE TypeOK'
  <2>1. OwnerTypes'
    BY <1>14 DEF ModifyStore, OwnerTypes
  <2>2. ObserverTypes'
    BY <1>14 DEF ModifyStore, ObserverTypes, HandlerTypes, Handling, Message, At
  <2>3. HandlerTypes'
    BY <1>14 DEF ModifyStore, OwnerTypes, ObserverTypes, HandlerTypes, Handling, HandlerStates, Goto, Done, At, Idle
  <2> QED
    BY <2>1, <2>2, <2>3
<1>15. ASSUME NEW h \in Handlers, ModifyMap(h) PROVE TypeOK'
  <2>1. OwnerTypes'
    BY <1>15 DEF ModifyMap, OwnerTypes
  <2>2. ObserverTypes'
    <3>1. handler[h].msg \in Message /\ handler[h].msg.type = "notify"
      BY <1>15 DEF ModifyMap, At, HandlerTypes, Handling
    <3>2. handler[h].msg.entry \in Entries
      BY <3>1 DEF Message
    <3> QED
      BY <1>15, <3>2 DEF ModifyMap, ObserverTypes
  <2>3. HandlerTypes'
    BY <1>15 DEF ModifyMap, OwnerTypes, ObserverTypes, HandlerTypes, Handling, HandlerStates, Goto, Done, At, Idle
  <2> QED
    BY <2>1, <2>2, <2>3
<1>16. ASSUME NEW h \in Handlers, NotifyRoute(h) PROVE TypeOK'
  <2>1. OwnerTypes'
    BY <1>16 DEF NotifyRoute, OwnerTypes
  <2>2. ObserverTypes'
    <3>1. handler[h].msg \in Message /\ handler[h].msg.type = "notify"
      BY <1>16 DEF NotifyRoute, At, HandlerTypes, Handling
    <3>2. handler[h].msg.entry \in Entries
      BY <3>1 DEF Message
    <3> QED
      BY <1>16, <3>2 DEF NotifyRoute, ObserverTypes
  <2>3. HandlerTypes'
    BY <1>16 DEF NotifyRoute, OwnerTypes, ObserverTypes, HandlerTypes, Handling, HandlerStates, Goto, Done, At, Idle
  <2> QED
    BY <2>1, <2>2, <2>3
<1>17. ASSUME NEW h \in Handlers, NeedSyncAll(h) PROVE TypeOK'
  <2>1. OwnerTypes'
    BY <1>17 DEF NeedSyncAll, OwnerTypes
  <2>2. ObserverTypes'
    BY <1>17 DEF NeedSyncAll, ObserverTypes, HandlerTypes, Handling, Message, At
  <2>3. HandlerTypes'
    BY <1>17 DEF NeedSyncAll, OwnerTypes, ObserverTypes, HandlerTypes, Handling, HandlerStates, Goto, Done, At, Idle
  <2> QED
    BY <2>1, <2>2, <2>3
<1>18. ASSUME NEW h \in Handlers, GetEntryVersion(h) PROVE TypeOK'
  <2>1. OwnerTypes'
    BY <1>18 DEF GetEntryVersion, OwnerTypes
  <2>2. ObserverTypes'
    BY <1>18 DEF GetEntryVersion, ObserverTypes, HandlerTypes, Handling, Message, At
  <2>3. HandlerTypes'
    BY <1>18 DEF GetEntryVersion, OwnerTypes, ObserverTypes, HandlerTypes, Handling, HandlerStates, Goto, Done, At, Idle
  <2> QED
    BY <2>1, <2>2, <2>3
<1>19. ASSUME NEW h \in Handlers, GetEntryAll(h) PROVE TypeOK'
  <2>1. OwnerTypes'
    BY <1>19 DEF GetEntryAll, OwnerTypes
  <2>2. ObserverTypes'
    BY <1>19 DEF GetEntryAll, ObserverTypes, HandlerTypes, Handling, Message, At
  <2>3. HandlerTypes'
    BY <1>19 DEF GetEntryAll, OwnerTypes, ObserverTypes, HandlerTypes, Handling, HandlerStates, Goto, Done, At, Idle
  <2> QED
    BY <2>1, <2>2, <2>3
<1>20. ASSUME NEW h \in Handlers, GetEntryFail(h) PROVE TypeOK'
  <2>1. OwnerTypes'
    BY <1>20 DEF GetEntryFail, OwnerTypes
  <2>2. ObserverTypes'
    BY <1>20 DEF GetEntryFail, ObserverTypes, HandlerTypes, Handling, Message, At
  <2>3. HandlerTypes'
    BY <1>20 DEF GetEntryFail, OwnerTypes, ObserverTypes, HandlerTypes, Handling, HandlerStates, Goto, Done, At, Idle
  <2> QED
    BY <2>1, <2>2, <2>3
<1>21. ASSUME NEW h \in Handlers, SyncOld(h) PROVE TypeOK'
  <2>1. OwnerTypes'
    BY <1>21 DEF SyncOld, OwnerTypes
  <2>2. ObserverTypes'
    BY <1>21 DEF SyncOld, ObserverTypes, HandlerTypes, Handling, Message, At
  <2>3. HandlerTypes'
    BY <1>21 DEF SyncOld, OwnerTypes, ObserverTypes, HandlerTypes, Handling, HandlerStates, Goto, Done, At, Idle
  <2> QED
    BY <2>1, <2>2, <2>3
<1>22. ASSUME NEW h \in Handlers, SyncVersion(h) PROVE TypeOK'
  <2>1. OwnerTypes'
    BY <1>22 DEF SyncVersion, OwnerTypes
  <2>2. ObserverTypes'
    BY <1>22 DEF SyncVersion, ObserverTypes, HandlerTypes, Handling, Message, At
  <2>3. HandlerTypes'
    BY <1>22 DEF SyncVersion, OwnerTypes, ObserverTypes, HandlerTypes, Handling, HandlerStates, Goto, Done, At, Idle
  <2> QED
    BY <2>1, <2>2, <2>3
<1>23. ASSUME NEW h \in Handlers, SyncStatus(h) PROVE TypeOK'
  <2>1. OwnerTypes'
    BY <1>23 DEF SyncStatus, OwnerTypes
  <2>2. ObserverTypes'
    BY <1>23 DEF SyncStatus, ObserverTypes, HandlerTypes, Handling, Message, At
  <2>3. HandlerTypes'
    BY <1>23 DEF SyncStatus, OwnerTypes, ObserverTypes, HandlerTypes, Handling, HandlerStates, Goto, Done, At, Idle
  <2> QED
    BY <2>1, <2>2, <2>3
<1>24. ASSUME NEW h \in Handlers, SyncMap(h) PROVE TypeOK'
  <2>1. OwnerTypes'
    BY <1>24 DEF SyncMap, OwnerTypes
  <2>2. ObserverTypes'
    BY <1>24 DEF SyncMap, ObserverTypes, HandlerTypes, Handling, Message, At
  <2>3. HandlerTypes'
    BY <1>24 DEF SyncMap, OwnerTypes, ObserverTypes, HandlerTypes, Handling, HandlerStates, Goto, Done, At, Idle
  <2> QED
    BY <2>1, <2>2, <2>3
<1>25. ASSUME NEW h \in Handlers, SyncDelete(h) PROVE TypeOK'
  <2>1. OwnerTypes'
    BY <1>25 DEF SyncDelete, OwnerTypes
  <2>2. ObserverTypes'
    BY <1>25 DEF SyncDelete, ObserverTypes, HandlerTypes, Handling, Message, At
  <2>3. HandlerTypes'
    BY <1>25 DEF SyncDelete, OwnerTypes, ObserverTypes, HandlerTypes, Handling, HandlerStates, Goto, Done, At, Idle
  <2> QED
    BY <2>1, <2>2, <2>3
<1>26. ASSUME NEW h \in Handlers, SyncAppend(h) PROVE TypeOK'
  <2>1. OwnerTypes'
    BY <1>26 DEF SyncAppend, OwnerTypes
  <2>2. ObserverTypes'
    BY <1>26 DEF SyncAppend, ObserverTypes, HandlerTypes, Handling, Message, At
  <2>3. HandlerTypes'
    BY <1>26 DEF SyncAppend, OwnerTypes, ObserverTypes, HandlerTypes, Handling, HandlerStates, Goto, Done, At, Idle
  <2> QED
    BY <2>1, <2>2, <2>3
<1>27. ASSUME NEW h \in Handlers, ListDead(h) PROVE TypeOK'
  <2>1. OwnerTypes'
    BY <1>27 DEF ListDead, OwnerTypes
  <2>2. ObserverTypes'
    BY <1>27 DEF ListDead, ObserverTypes, HandlerTypes, Handling, Message, At
  <2>3. HandlerTypes'
    BY <1>27 DEF ListDead, OwnerTypes, ObserverTypes, HandlerTypes, Handling, HandlerStates, Goto, Done, At, Idle
  <2> QED
    BY <2>1, <2>2, <2>3
<1>28. ASSUME NEW h \in Handlers, MarkSyncing(h) PROVE TypeOK'
  <2>1. OwnerTypes'
    BY <1>28 DEF MarkSyncing, OwnerTypes
  <2>2. ObserverTypes'
    BY <1>28 DEF MarkSyncing, ObserverTypes, HandlerTypes, Handling, Message, At
  <2>3. HandlerTypes'
    <3>1. CASE handler[h].msg.type = "notify"
      BY <1>28, <3>1 DEF MarkSyncing, HandlerTypes, Handling, Done, Idle
    <3>2. CASE handler[h].msg.type # "notify"
      <4>1. net' = net /\ handler' = [handler EXCEPT ![h].pc = "call"]
        BY <1>28, <3>2 DEF MarkSyncing, Goto
      <4>2. handler'[h].pc = "call" /\ handler'[h] \in Handling
        BY <4>1 DEF HandlerTypes, Handling, HandlerStates
      <4> QED
        BY <4>1, <4>2 DEF HandlerTypes
    <3> QED
      BY <3>1, <3>2
  <2> QED
    BY <2>1, <2>2, <2>3
<1>29. CASE UNCHANGED vars
  BY <1>29 DEF vars, OwnerTypes, ObserverTypes, HandlerTypes
<1> QED
  BY <1>1, <1>2, <1>3, <1>4, <1>5, <1>6, <1>7, <1>8, <1>9, <1>10, <1>11, <1>12, <1>13, <1>14, <1>15, <1>16, <1>17, <1>18, <1>19, <1>20, <1>21, <1>22, <1>23, <1>24, <1>25, <1>26, <1>27, <1>28, <1>29 DEF Next, OpStep, GoodbyeStep, NotifyStep, SyncStep

\* Type correctness of the replication protocol.
THEOREM TypeCorrect == Spec => []TypeOK
<1>1. Init => TypeOK
  <2> SUFFICES ASSUME Init PROVE TypeOK
    OBVIOUS
  <2>1. OwnerTypes
    BY SyncAssumption DEF Init, OwnerTypes, NoOp
  <2>2. ObserverTypes
    BY DEF Init, ObserverTypes
  <2>3. HandlerTypes
    <3>1. Idle.pc = "idle"
      BY DEF Idle
    <3> QED
      BY <3>1, Wellformed DEF Init, HandlerTypes
  <2> QED
    BY <2>1, <2>2, <2>3 DEF TypeOK
<1> QED
  BY <1>1, TypeStep, PTL DEF Spec

-----------------------------------------------------------------------------
\* Every step keeps the counters together and the versions reached.
LEMMA InvStep == TypeOK /\ IInv /\ [Next]_vars => IInv'
<1> SUFFICES ASSUME TypeOK, IInv, [Next]_vars PROVE IInv'
  OBVIOUS
<1> USE DEF TypeOK, OwnerTypes, ObserverTypes, HandlerTypes, IInv, OwnCountersAgree, VersionsReached, ObserverNeverAhead,
            ownerVars, stopVars, observerVars, NoMsg, Idle, NoOp, Goto, Done, At,
            KeepAliveNotify, SayHelloReq, SayGoodbyeNotify, NewEntryNotify
<1>1. ASSUME NEW e \in Entries, AddEntry(e) PROVE IInv'
  BY <1>1 DEF AddEntry
<1>2. ASSUME NEW e \in Entries, RemoveEntry(e) PROVE IInv'
  BY <1>2 DEF RemoveEntry
<1>3. ASSUME OpRoute PROVE IInv'
  BY <1>3 DEF OpRoute
<1>4. ASSUME OpBump PROVE IInv'
  BY <1>4 DEF OpBump
<1>5. ASSUME OpStore PROVE IInv'
  <2>1. nSequence = nVersion + 1
    BY <1>5 DEF OpStore
  <2>2. nVersion' = nVersion + 1 /\ nSequence' = nSequence /\ op'.step = "map"
    BY <1>5, <2>1 DEF OpStore
  <2>3. UNCHANGED <<net, handler, oVersion>>
    BY <1>5 DEF OpStore
  <2>4. \A v \in Nat : v <= nVersion => v <= nVersion'
    BY <2>2
  <2>5. OwnCountersAgree' /\ ObserverNeverAhead'
    BY <2>1, <2>2, <2>3
  <2>6. VersionsReached'
    BY <2>3, <2>4 DEF Handling, Message
  <2> QED
    BY <2>5, <2>6
<1>6. ASSUME OpMap PROVE IInv'
  BY <1>6 DEF OpMap
<1>7. ASSUME KeepAlive PROVE IInv'
  BY <1>7 DEF KeepAlive
<1>8. ASSUME Reconnect PROVE IInv'
  BY <1>8 DEF Reconnect
<1>9. ASSUME Stop PROVE IInv'
  BY <1>9 DEF Stop
<1>10. ASSUME NEW t \in notifyTasks, NotifyTask(t) PROVE IInv'
  BY <1>10 DEF NotifyTask
<1>11. ASSUME NEW h \in Handlers, NEW m \in net, Take(h, m) PROVE IInv'
  <2>1. UNCHANGED <<nSequence, nVersion, op, oVersion>> /\ net' \subseteq net
    BY <1>11 DEF Take
  <2>2. OwnCountersAgree' /\ ObserverNeverAhead'
    BY <2>1
  <2>3. ASSUME NEW g \in Handlers
        PROVE  \/ handler'[g] = handler[g]
               \/ handler'[g].pc = "check" /\ handler'[g].msg = m /\ m.type = "notify"
               \/ handler'[g].pc \in {"need", "dead"}
    BY <1>11 DEF Take
  <2>4. VersionsReached'
    BY <2>1, <2>3
  <2> QED
    BY <2>2, <2>4
<1>12. ASSUME NEW h \in Handlers, SayGoodbye(h) PROVE IInv'
  BY <1>12 DEF SayGoodbye, Handling
<1>13. ASSUME NEW h \in Handlers, ModifyCheck(h) PROVE IInv'
  BY <1>13 DEF ModifyCheck, Handling
<1>14. ASSUME NEW h \in Handlers, ModifyStore(h) PROVE IInv'
  BY <1>14 DEF ModifyStore, Handling
<1>15. ASSUME NEW h \in Handlers, ModifyMap(h) PROVE IInv'
  BY <1>15 DEF ModifyMap, Handling
<1>16. ASSUME NEW h \in Handlers, NotifyRoute(h) PROVE IInv'
  BY <1>16 DEF NotifyRoute, Handling
<1>17. ASSUME NEW h \in Handlers, NeedSyncAll(h) PROVE IInv'
  BY <1>17 DEF NeedSyncAll, Handling
<1>18. ASSUME NEW h \in Handlers, GetEntryVersion(h) PROVE IInv'
  BY <1>18 DEF GetEntryVersion, Handling
<1>19. ASSUME NEW h \in Handlers, GetEntryAll(h) PROVE IInv'
  BY <1>19 DEF GetEntryAll, Handling
<1>20. ASSUME NEW h \in Handlers, GetEntryFail(h) PROVE IInv'
  BY <1>20 DEF GetEntryFail, Handling
<1>21. ASSUME NEW h \in Handlers, SyncOld(h) PROVE IInv'
  BY <1>21 DEF SyncOld, Handling
<1>22. ASSUME NEW h \in Handlers, SyncVersion(h) PROVE IInv'
  BY <1>22 DEF SyncVersion, Handling
<1>23. ASSUME NEW h \in Handlers, SyncStatus(h) PROVE IInv'
  BY <1>23 DEF SyncStatus, Handling
<1>24. ASSUME NEW h \in Handlers, SyncMap(h) PROVE IInv'
  BY <1>24 DEF SyncMap, Handling
<1>25. ASSUME NEW h \in Handlers, SyncDelete(h) PROVE IInv'
  BY <1>25 DEF SyncDelete, Handling
<1>26. ASSUME NEW h \in Handlers, SyncAppend(h) PROVE IInv'
  BY <1>26 DEF SyncAppend, Handling
<1>27. ASSUME NEW h \in Handlers, ListDead(h) PROVE IInv'
  BY <1>27 DEF ListDead, Handling
<1>28. ASSUME NEW h \in Handlers, MarkSyncing(h) PROVE IInv'
  BY <1>28 DEF MarkSyncing, Handling
<1>29. CASE UNCHANGED vars
  BY <1>29 DEF vars
<1> QED
  BY <1>1, <1>2, <1>3, <1>4, <1>5, <1>6, <1>7, <1>8, <1>9, <1>10, <1>11, <1>12, <1>13, <1>14, <1>15, <1>16, <1>17, <1>18, <1>19, <1>20, <1>21, <1>22, <1>23, <1>24, <1>25, <1>26, <1>27, <1>28, <1>29 DEF Next, OpStep, GoodbyeStep, NotifyStep, SyncStep

\* The invariant that carries both theorems below holds in every state.
THEOREM InductiveInvariant == Spec => []IInv
<1>1. Init => IInv
  BY DEF Init, IInv, OwnCountersAgree, VersionsReached, ObserverNeverAhead, NoOp, Idle
<1> QED
  BY <1>1, InvStep, TypeCorrect, PTL DEF Spec

\* nSequence and the node's own nDataVersion never drift apart.
THEOREM CountersAgree == Spec => []OwnCountersAgree
<1>1. IInv => OwnCountersAgree
  BY DEF IInv
<1> QED
  BY <1>1, InductiveInvariant, PTL

\* No neighbour ever holds a version its owner has not reached.
THEOREM NeverAhead == Spec => []ObserverNeverAhead
<1>1. IInv => ObserverNeverAhead
  BY DEF IInv
<1> QED
  BY <1>1, InductiveInvariant, PTL

-----------------------------------------------------------------------------
(* The routes.  Handlers that overlap can leave a route too many or too few *)
(* (each step of modifyEntry, syncEntry and the route update is a critical  *)
(* section of its own); what is proved is that handlers that run one after  *)
(* the other do not, whatever the owner does meanwhile.                     *)
OneAtATime == \A g, h \in Handlers : g = h

Match == \A e \in Entries : routes[e] > 0 <=> e \in oEntries
Blank == \A e \in Entries : routes[e] = 0

\* How far the routes are behind the entries at each step of a handler.
InStep(s) ==
    /\ s.pc \in {"idle", "check", "mark", "store", "map", "need", "call", "answer", "resp", "dead",
                 "bye", "syncver", "syncstatus", "syncmap"} => Match
    /\ s.pc \in {"syncver", "syncstatus", "syncmap", "bye"} => s.old = oEntries
    /\ s.pc = "route" =>
          /\ s.msg.isNew <=> s.msg.entry \in oEntries
          /\ \A e \in Entries \ {s.msg.entry} : routes[e] > 0 <=> e \in oEntries
    /\ s.pc = "delete" => s.resp = oEntries /\ \A e \in Entries : routes[e] > 0 => e \in s.old
    /\ s.pc = "append" => s.resp = oEntries /\ Blank

\* After a goodbye nothing routes, and no handler can get as far as to change
\* that: the Info is not ALIVE, and the owner answers no call any more.
Parted(s) == Blank /\ status # "ALIVE" /\ s.pc \in {"idle", "need", "mark", "call", "dead", "bye"}

Local(s) ==
    /\ goodbyes = 0 => InStep(s)
    /\ goodbyes > 0 => Parted(s)
    /\ s.pc \in {"dead", "bye"} => stop = "stopped" /\ status = "DEAD"

RouteInv ==
    /\ \A h \in Handlers : Local(handler[h])
    /\ Handlers = {} => Match /\ goodbyes = 0
    /\ \A m \in net : m.type = "goodbye" => stop = "stopped"
    /\ goodbyes > 0 => stop = "stopped"

\* The owner's steps leave the observer alone, and say goodbye last.
LEMMA OwnerKeepsRoutes ==
    ASSUME TypeOK, RouteInv, UNCHANGED <<observerVars, handler>>,
           stop = "stopped" => stop' = "stopped",
           \A m \in net' : m \in net \/ m.type # "goodbye" \/ stop' = "stopped"
    PROVE  RouteInv'
<1>1. /\ status' = status /\ oEntries' = oEntries /\ routes' = routes /\ goodbyes' = goodbyes
      /\ handler' = handler
  BY DEF observerVars
<1>2. ASSUME NEW h \in Handlers
      PROVE  Local(handler[h])'
  <2>1. Local(handler[h])
    BY DEF RouteInv
  <2> QED
    BY <1>1, <2>1 DEF Local, InStep, Parted, Match, Blank
<1> QED
  BY <1>1, <1>2 DEF RouteInv, Match

LEMMA OwnerRouteStep ==
    ASSUME TypeOK, RouteInv,
           \/ \E e \in Entries : AddEntry(e) \/ RemoveEntry(e)
           \/ OpStep \/ KeepAlive \/ Reconnect \/ Stop
           \/ \E t \in notifyTasks : NotifyTask(t)
    PROVE  RouteInv'
<1>1. UNCHANGED <<observerVars, handler>>
  BY DEF AddEntry, RemoveEntry, OpStep, OpRoute, OpBump, OpStore, OpMap, KeepAlive, Reconnect, Stop,
         NotifyTask
<1>2. stop = "stopped" => stop' = "stopped"
  BY DEF AddEntry, RemoveEntry, OpStep, OpRoute, OpBump, OpStore, OpMap, KeepAlive, Reconnect, Stop,
         NotifyTask, stopVars
<1>3. /\ \A v : KeepAliveNotify(v).type = "keepalive" /\ SayHelloReq(v).type = "hello"
      /\ \A t, v : NewEntryNotify(t, v).type = "notify"
  BY DEF KeepAliveNotify, SayHelloReq, NewEntryNotify, NoMsg
<1>4. \A m \in net' : m \in net \/ m.type # "goodbye" \/ stop' = "stopped"
  BY <1>3 DEF AddEntry, RemoveEntry, OpStep, OpRoute, OpBump, OpStore, OpMap, KeepAlive, Reconnect,
              Stop, NotifyTask
<1> QED
  BY <1>1, <1>2, <1>4, OwnerKeepsRoutes

\* With one handler the invariant is about that one.
LEMMA OnlyHandler ==
    ASSUME OneAtATime, NEW h \in Handlers, RouteInv, Local(handler[h])', net' \subseteq net,
           stop' = stop, goodbyes' > 0 => stop' = "stopped"
    PROVE  RouteInv'
BY DEF OneAtATime, RouteInv

\* The fields of a handler after a step of its own.
LEMMA HandlerFields ==
    ASSUME TypeOK, NEW h \in Handlers
    PROVE  /\ \A pc : Goto(h, pc) =>
                 /\ handler'[h].pc = pc /\ handler'[h].msg = handler[h].msg
                 /\ handler'[h].resp = handler[h].resp /\ handler'[h].old = handler[h].old
           /\ Done(h) => handler'[h].pc = "idle"
           /\ handler[h].pc \in {"check", "store", "map", "route"} => handler[h].msg.entry \in Entries
           /\ handler[h].msg.isNew \in BOOLEAN
<1>1. handler \in [Handlers -> Handling] /\ handler[h] \in Handling
  BY DEF TypeOK, HandlerTypes
<1>2. ASSUME NEW pc, Goto(h, pc)
      PROVE  /\ handler'[h].pc = pc /\ handler'[h].msg = handler[h].msg
             /\ handler'[h].resp = handler[h].resp /\ handler'[h].old = handler[h].old
  BY <1>1, <1>2 DEF Goto, Handling
<1>3. ASSUME Done(h) PROVE handler'[h].pc = "idle"
  BY <1>1, <1>3 DEF Done, Idle
<1>4. handler[h].msg \in Message
  BY <1>1 DEF Handling
<1>5. handler[h].msg.isNew \in BOOLEAN
  BY <1>4 DEF Message
<1>6. ASSUME handler[h].pc \in {"check", "store", "map", "route"}
      PROVE  handler[h].msg.entry \in Entries
  <2>1. handler[h].msg.type = "notify"
    BY <1>6 DEF TypeOK, HandlerTypes
  <2> QED
    BY <1>4, <2>1 DEF Message
<1> QED
  BY <1>2, <1>3, <1>5, <1>6

\* A goroutine takes a message: a goodbye is the last the owner said, and a
\* notify is dropped once the node has parted.
LEMMA TakeRoute ==
    ASSUME OneAtATime, TypeOK, RouteInv, NEW h \in Handlers, NEW m \in net, Take(h, m)
    PROVE  RouteInv'
<1> DEFINE started(pc) == [Idle EXCEPT !.pc = pc, !.msg = m]
<1>1. /\ \A pc : started(pc).pc = pc
      /\ handler \in [Handlers -> Handling]
  BY DEF Idle, TypeOK, HandlerTypes
<1>2. /\ UNCHANGED <<oVersion, oEntries, routes, goodbyes, stop>> /\ net' \subseteq net
      /\ handler[h].pc = "idle"
  BY DEF Take, observerVars, stopVars, At
<1>3. Local(handler[h]) /\ (m.type = "goodbye" => stop = "stopped") /\ goodbyes \in Nat
  BY DEF RouteInv, TypeOK, ObserverTypes
<1>4. (goodbyes = 0 => Match) /\ (goodbyes > 0 => Blank /\ status # "ALIVE")
  BY <1>2, <1>3 DEF Local, InStep, Parted
<1>5. \/ handler' = handler /\ status' = status
      \/ /\ handler' = [handler EXCEPT ![h] = started("check")]
         /\ status' = status /\ status = "ALIVE"
      \/ handler' = [handler EXCEPT ![h] = started("need")] /\ status' = status
      \/ /\ handler' = [handler EXCEPT ![h] = started("dead")]
         /\ status' = "DEAD" /\ m.type = "goodbye"
  BY DEF Take, observerVars
<1> HIDE DEF started
<1>6. \/ handler'[h].pc = "idle" /\ status' = status
      \/ handler'[h].pc = "check" /\ status' = status /\ status = "ALIVE"
      \/ handler'[h].pc = "need" /\ status' = status
      \/ handler'[h].pc = "dead" /\ status' = "DEAD" /\ stop' = "stopped"
  BY <1>1, <1>2, <1>3, <1>5
<1>7. (goodbyes' = 0 => Match') /\ (goodbyes' > 0 => Blank')
  BY <1>2, <1>4 DEF Match, Blank
<1>8. Local(handler[h])'
  BY <1>2, <1>4, <1>6, <1>7 DEF Local, InStep, Parted
<1>9. goodbyes' > 0 => stop' = "stopped"
  BY <1>2 DEF RouteInv
<1> QED
  BY <1>2, <1>8, <1>9, OnlyHandler

\* The goodbye takes away the routes of what markDead listed, which is all.
LEMMA GoodbyeRoute ==
    ASSUME OneAtATime, TypeOK, RouteInv, NEW h \in Handlers, GoodbyeStep(h)
    PROVE  RouteInv'
<1> USE HandlerFields
<1>1. Local(handler[h]) /\ goodbyes \in Nat /\ routes \in [Entries -> Nat]
      /\ handler \in [Handlers -> Handling]
  BY DEF RouteInv, TypeOK, ObserverTypes, HandlerTypes
<1>2. CASE ListDead(h)
  <2>1. /\ UNCHANGED <<status, oEntries, routes, goodbyes, stop, net>>
        /\ handler'[h].pc = "bye" /\ handler'[h].old = oEntries /\ handler[h].pc = "dead"
    BY <1>1, <1>2 DEF ListDead, At, Handling, stopVars, observerVars
  <2>2. Local(handler[h])'
    BY <1>1, <2>1 DEF Local, InStep, Parted, Match, Blank
  <2>3. goodbyes' > 0 => stop' = "stopped"
    BY <2>1 DEF RouteInv
  <2> QED
    BY <2>1, <2>2, <2>3, OnlyHandler
<1>3. CASE SayGoodbye(h)
  <2>1. /\ UNCHANGED <<status, oEntries, stop, net>> /\ goodbyes' = goodbyes + 1
        /\ routes' = [e \in Entries |-> IF e \in handler[h].old THEN 0 ELSE routes[e]]
        /\ handler'[h].pc = "idle" /\ handler[h].pc = "bye"
    BY <1>3 DEF SayGoodbye, At, stopVars
  <2>2. stop = "stopped" /\ status = "DEAD"
    BY <1>1, <2>1 DEF Local
  <2>3. \A e \in Entries : e \notin handler[h].old => routes[e] = 0
    BY <1>1, <2>1 DEF Local, InStep, Parted, Match, Blank
  <2>4. Blank'
    BY <2>1, <2>3 DEF Blank
  <2>5. Local(handler[h])'
    BY <1>1, <2>1, <2>2, <2>4 DEF Local, Parted
  <2> QED
    BY <2>1, <2>2, <2>5, OnlyHandler
<1> QED
  BY <1>2, <1>3 DEF GoodbyeStep

\* handleNodeEntryNotify: the entry enters or leaves the table and then its
\* route follows; before that the routes match.
LEMMA NotifyRoutes ==
    ASSUME OneAtATime, TypeOK, RouteInv, NEW h \in Handlers, NotifyStep(h)
    PROVE  RouteInv'
<1> USE HandlerFields
<1>1. /\ Local(handler[h]) /\ goodbyes \in Nat /\ routes \in [Entries -> Nat]
      /\ goodbyes > 0 => stop = "stopped"
  BY DEF RouteInv, TypeOK, ObserverTypes
<1>2. CASE ModifyCheck(h)
  <2>1. /\ UNCHANGED <<status, oEntries, routes, goodbyes, stop, net>>
        /\ handler'[h].pc \in {"store", "mark"} /\ handler[h].pc = "check"
    BY <1>2 DEF ModifyCheck, At, stopVars, observerVars
  <2>2. Local(handler[h])'
    BY <1>1, <2>1 DEF Local, InStep, Parted, Match
  <2> QED
    BY <1>1, <2>1, <2>2, OnlyHandler
<1>3. CASE MarkSyncing(h)
  <2>1. /\ UNCHANGED <<oEntries, routes, goodbyes, stop, net>> /\ status' = "SYNCING"
        /\ handler'[h].pc \in {"idle", "call"} /\ handler[h].pc = "mark"
    BY <1>3 DEF MarkSyncing, At, stopVars
  <2>2. Local(handler[h])'
    BY <1>1, <2>1 DEF Local, InStep, Parted, Match, Blank
  <2> QED
    BY <1>1, <2>1, <2>2, OnlyHandler
<1>4. CASE ModifyStore(h)
  <2>1. /\ UNCHANGED <<status, oEntries, routes, goodbyes, stop, net>>
        /\ handler'[h].pc = "map" /\ handler[h].pc = "store"
    BY <1>4 DEF ModifyStore, At, stopVars
  <2>2. Local(handler[h])'
    BY <1>1, <2>1 DEF Local, InStep, Parted, Match
  <2> QED
    BY <1>1, <2>1, <2>2, OnlyHandler
<1>5. CASE ModifyMap(h)
  <2>1. /\ UNCHANGED <<status, routes, goodbyes, stop, net>> /\ handler[h].pc = "map"
        /\ handler[h].msg.entry \in Entries
    BY <1>5 DEF ModifyMap, At, stopVars
  <2>2. goodbyes = 0 /\ Match
    BY <1>1, <2>1 DEF Local, InStep, Parted
  <2>3. ASSUME oEntries' = oEntries, handler'[h].pc = "idle"
        PROVE  Local(handler[h])'
    BY <2>1, <2>2, <2>3 DEF Local, InStep, Match
  <2>4. ASSUME handler'[h].pc = "route", handler'[h].msg = handler[h].msg,
               oEntries' = IF handler[h].msg.isNew THEN oEntries \cup {handler[h].msg.entry}
                                                   ELSE oEntries \ {handler[h].msg.entry}
        PROVE  Local(handler[h])'
    BY <2>1, <2>2, <2>4 DEF Local, InStep, Match
  <2>5. Local(handler[h])'
    BY <1>5, <2>3, <2>4 DEF ModifyMap
  <2> QED
    BY <1>1, <2>1, <2>5, OnlyHandler
<1>6. CASE NotifyRoute(h)
  <2> DEFINE m == handler[h].msg
  <2>1. /\ UNCHANGED <<status, oEntries, goodbyes, stop, net>>
        /\ handler'[h].pc = "idle" /\ handler[h].pc = "route" /\ m.entry \in Entries
        /\ routes' = [routes EXCEPT ![m.entry] = IF m.isNew THEN @ + 1 ELSE 0]
    BY <1>6 DEF NotifyRoute, At, stopVars
  <2>2. /\ goodbyes = 0
        /\ m.isNew <=> m.entry \in oEntries
        /\ \A e \in Entries \ {m.entry} : routes[e] > 0 <=> e \in oEntries
    BY <1>1, <2>1 DEF Local, InStep, Parted
  <2> HIDE DEF m
  <2>3. /\ \A e \in Entries \ {m.entry} : routes'[e] = routes[e]
        /\ m.isNew => routes'[m.entry] > 0
        /\ ~m.isNew => ~ (routes'[m.entry] > 0)
    BY <1>1, <2>1
  <2>4. Match'
    BY <2>1, <2>2, <2>3 DEF Match
  <2>5. Local(handler[h])'
    BY <2>1, <2>2, <2>4 DEF Local, InStep
  <2> QED
    BY <1>1, <2>1, <2>5, OnlyHandler
<1> QED
  BY <1>2, <1>3, <1>4, <1>5, <1>6 DEF NotifyStep

\* trySyncAll: the old table's routes go and the answer's come.
LEMMA SyncRoutes ==
    ASSUME OneAtATime, TypeOK, RouteInv, NEW h \in Handlers, SyncStep(h) \/ GetEntryFail(h)
    PROVE  RouteInv'
<1> USE HandlerFields
<1>1. /\ Local(handler[h]) /\ goodbyes \in Nat /\ routes \in [Entries -> Nat]
      /\ goodbyes > 0 => stop = "stopped"
      /\ handler \in [Handlers -> Handling]
  BY DEF RouteInv, TypeOK, ObserverTypes, HandlerTypes
<1>2. CASE NeedSyncAll(h)
  <2>1. /\ UNCHANGED <<status, oEntries, routes, goodbyes, stop, net>>
        /\ handler'[h].pc \in {"mark", "idle"} /\ handler[h].pc = "need"
    BY <1>1, <1>2 DEF NeedSyncAll, At, Handling, stopVars, observerVars
  <2>2. Local(handler[h])'
    BY <1>1, <2>1 DEF Local, InStep, Parted, Match, Blank
  <2> QED
    BY <1>1, <2>1, <2>2, OnlyHandler
<1>3. CASE GetEntryVersion(h)
  <2>1. /\ UNCHANGED <<status, oEntries, routes, goodbyes, stop, net>>
        /\ handler'[h].pc = "answer" /\ handler[h].pc = "call" /\ stop = "running"
    BY <1>1, <1>3 DEF GetEntryVersion, At, Handling, stopVars, observerVars, SelfAlive
  <2>2. Local(handler[h])'
    BY <1>1, <2>1 DEF Local, InStep, Parted, Match, Blank
  <2> QED
    BY <1>1, <2>1, <2>2, OnlyHandler
<1>4. CASE GetEntryAll(h)
  <2>1. /\ UNCHANGED <<status, oEntries, routes, goodbyes, stop, net>>
        /\ handler'[h].pc = "resp" /\ handler[h].pc = "answer"
    BY <1>1, <1>4 DEF GetEntryAll, At, Handling, stopVars, observerVars
  <2>2. Local(handler[h])'
    BY <1>1, <2>1 DEF Local, InStep, Parted, Match, Blank
  <2> QED
    BY <1>1, <2>1, <2>2, OnlyHandler
<1>5. CASE GetEntryFail(h)
  <2>1. /\ UNCHANGED <<status, oEntries, routes, goodbyes, stop, net>>
        /\ handler'[h].pc = "idle" /\ handler[h].pc \in {"call", "answer", "resp"}
    BY <1>1, <1>5 DEF GetEntryFail, At, Handling, stopVars, observerVars
  <2>2. Local(handler[h])'
    BY <1>1, <2>1 DEF Local, InStep, Parted, Match, Blank
  <2> QED
    BY <1>1, <2>1, <2>2, OnlyHandler
<1>6. CASE SyncOld(h)
  <2>1. /\ UNCHANGED <<status, oEntries, routes, goodbyes, stop, net>>
        /\ handler'[h].pc = "syncver" /\ handler[h].pc = "resp" /\ handler'[h].old = oEntries
    BY <1>1, <1>6 DEF SyncOld, At, Handling, stopVars, observerVars
  <2>2. Local(handler[h])'
    BY <1>1, <2>1 DEF Local, InStep, Parted, Match, Blank
  <2> QED
    BY <1>1, <2>1, <2>2, OnlyHandler
<1>7. CASE SyncVersion(h)
  <2>1. /\ UNCHANGED <<status, oEntries, routes, goodbyes, stop, net>>
        /\ handler'[h].pc = "syncstatus" /\ handler[h].pc = "syncver" /\ handler'[h].old = handler[h].old
    BY <1>1, <1>7 DEF SyncVersion, At, Handling, stopVars, observerVars
  <2>2. Local(handler[h])'
    BY <1>1, <2>1 DEF Local, InStep, Parted, Match, Blank
  <2> QED
    BY <1>1, <2>1, <2>2, OnlyHandler
<1>8. CASE SyncStatus(h)
  <2>1. /\ UNCHANGED <<oEntries, routes, goodbyes, stop, net>>
        /\ handler'[h].pc = "syncmap" /\ handler[h].pc = "syncstatus" /\ handler'[h].old = handler[h].old
    BY <1>1, <1>8 DEF SyncStatus, At, Handling, stopVars, observerVars
  <2>2. Local(handler[h])'
    BY <1>1, <2>1 DEF Local, InStep, Parted, Match, Blank
  <2> QED
    BY <1>1, <2>1, <2>2, OnlyHandler
<1>9. CASE SyncMap(h)
  <2>1. /\ UNCHANGED <<status, routes, goodbyes, stop, net>>
        /\ handler'[h].pc = "delete" /\ handler[h].pc = "syncmap"
        /\ handler'[h].old = handler[h].old /\ handler'[h].resp = handler[h].resp
        /\ oEntries' = handler[h].resp
    BY <1>1, <1>9 DEF SyncMap, At, Handling, stopVars, observerVars
  <2>2. Local(handler[h])'
    BY <1>1, <2>1 DEF Local, InStep, Parted, Match, Blank
  <2> QED
    BY <1>1, <2>1, <2>2, OnlyHandler
<1>10. CASE SyncDelete(h)
  <2>1. /\ UNCHANGED <<status, oEntries, goodbyes, stop, net>>
        /\ handler'[h].pc = "append" /\ handler[h].pc = "delete"
        /\ handler'[h].resp = handler[h].resp
        /\ routes' = [e \in Entries |-> IF e \in handler[h].old THEN 0 ELSE routes[e]]
    BY <1>1, <1>10 DEF SyncDelete, At, Handling, stopVars, observerVars
  <2>2. Local(handler[h])'
    BY <1>1, <2>1 DEF Local, InStep, Parted, Match, Blank
  <2> QED
    BY <1>1, <2>1, <2>2, OnlyHandler
<1>11. CASE SyncAppend(h)
  <2>1. /\ UNCHANGED <<status, oEntries, goodbyes, stop, net>>
        /\ handler'[h].pc = "idle" /\ handler[h].pc = "append"
        /\ routes' = [e \in Entries |-> IF e \in handler[h].resp THEN routes[e] + 1 ELSE routes[e]]
    BY <1>1, <1>11 DEF SyncAppend, At, Handling, stopVars, observerVars
  <2>2. Local(handler[h])'
    BY <1>1, <2>1 DEF Local, InStep, Parted, Match, Blank
  <2> QED
    BY <1>1, <2>1, <2>2, OnlyHandler
<1> QED
  BY <1>2, <1>3, <1>4, <1>5, <1>6, <1>7, <1>8, <1>9, <1>10, <1>11 DEF SyncStep

\* Every step of one handler after the other keeps the routes in step.
LEMMA RouteStep == OneAtATime /\ TypeOK /\ RouteInv /\ [Next]_vars => RouteInv'
<1> SUFFICES ASSUME OneAtATime, TypeOK, RouteInv, [Next]_vars PROVE RouteInv'
  OBVIOUS
<1>1. CASE UNCHANGED vars
  BY <1>1, OwnerKeepsRoutes DEF vars, stopVars
<1> QED
  BY <1>1, OwnerRouteStep, TakeRoute, GoodbyeRoute, NotifyRoutes, SyncRoutes DEF Next

\* The invariant that carries the two theorems about the routes.
LEMMA RoutesInStep == ASSUME OneAtATime PROVE Spec => []RouteInv
<1>1. Init => RouteInv
  BY DEF Init, RouteInv, Local, InStep, Match, Idle
<1> QED
  BY <1>1, RouteStep, TypeCorrect, PTL DEF Spec

\* Handlers that run one after the other leave the router with exactly the
\* entries the Info holds, whatever was lost, overtaken, refused or answered
\* late before.
THEOREM RoutesMatch == ASSUME OneAtATime PROVE Spec => []RoutesMatchEntries
<1>1. RouteInv /\ TypeOK => RoutesMatchEntries
  <2> SUFFICES ASSUME RouteInv, TypeOK, HandlersIdle, stop = "running" PROVE Match
    BY DEF RoutesMatchEntries, Match
  <2>1. goodbyes = 0
    BY DEF RouteInv, TypeOK, ObserverTypes
  <2> QED
    BY <2>1 DEF RouteInv, HandlersIdle, At, Local, InStep
<1> QED
  BY <1>1, RoutesInStep, TypeCorrect, PTL

\* Handlers that run one after the other route nothing to a node that has said
\* goodbye, whatever is still on its way from it.
THEOREM NoRouteLeft == ASSUME OneAtATime PROVE Spec => []NoRouteAfterGoodbye
<1>1. RouteInv /\ TypeOK => NoRouteAfterGoodbye
  <2> SUFFICES ASSUME RouteInv, TypeOK, HandlersIdle, goodbyes > 0 PROVE Blank
    BY DEF NoRouteAfterGoodbye, Blank
  <2>1. PICK h \in Handlers : Local(handler[h])
    BY DEF RouteInv, TypeOK, ObserverTypes
  <2> QED
    BY <2>1 DEF Local, Parted
<1> QED
  BY <1>1, RoutesInStep, TypeCorrect, PTL
=============================================================================
