----------------------- MODULE ClientRegistryProofs -----------------------
(***************************************************************************)
(* Proofs about ClientRegistry for any finite set of connections and any   *)
(* instances, entries and connection limit.                                *)
(***************************************************************************)
EXTENDS ClientRegistry, FiniteSetTheorems, TLAPS

\* The goroutines that run deleteClient are told apart by their connection.
LEMMA DeleterNames ==
    /\ Timer \in Deleters
    /\ \A k \in Conns : <<"close", k>> \in Deleters /\ <<"unregister", k>> \in Deleters
    /\ \A j, k \in Conns : j # k => <<"close", j>> # <<"close", k>>
    /\ \A j, k \in Conns : <<"close", j>> # <<"unregister", k>> /\ <<"close", j>> # Timer
<1>1. \A k \in Conns : <<"close", k>> \in Deleters /\ <<"unregister", k>> \in Deleters
  BY DEF Deleters
<1>2. Timer \in Deleters
  BY DEF Deleters
<1> QED
  BY <1>1, <1>2 DEF Timer

\* A goroutine that starts deleteClient adds its ClientInfo, and no other, to
\* those being deleted.
LEMMA DeleteStarts ==
    ASSUME TypeOK, NEW d \in Deleters, NEW c \in Clients, delPc[d] = "idle",
           delPc' = [delPc EXCEPT ![d] = "mark"], delWho' = [delWho EXCEPT ![d] = c]
    PROVE  \A r \in Clients : Deleting(r)' <=> Deleting(r) \/ r = c
<1>1. \A e \in Deleters : e # d => delPc'[e] = delPc[e] /\ delWho'[e] = delWho[e]
  BY DEF TypeOK
<1>2. delPc'[d] # "idle" /\ delWho'[d] = c
  BY DEF TypeOK
<1> QED
  BY <1>1, <1>2 DEF Deleting

\* A readLoop that ends may start the deletion of the connection's ClientInfo,
\* which some registration made; it ends no deletion.
LEMMA LeaveDeletes ==
    ASSUME TypeOK, Structure, NEW k \in Conns, LeaveClient(k)
    PROVE  /\ ctxAgent[k] \in Clients /\ instID[ctxAgent[k]] = InstOf[k]
           /\ \A r \in Clients : Deleting(r)' => Deleting(r) \/ r = ctxAgent[k]
           /\ \A r \in Clients : Deleting(r) => Deleting(r)'
           /\ \A e \in Deleters : delPc'[e] # "idle" => delWho'[e] # NoClient
           /\ \A j \in Conns : j # k => delPc'[<<"close", j>>] = delPc[<<"close", j>>]
<1>1. PICK c \in Clients : c = ctxAgent[k] /\ instID[c] = InstOf[k]
  BY DEF TypeOK, Structure, Registration, LeaveClient
<1>2. PICK d \in Deleters : d = <<"close", k>>
  BY DeleterNames
<1>3. delPc[d] = "idle"
  BY <1>2 DEF Structure, Deletion, LeaveClient
<1>4. CASE UNCHANGED <<delPc, delWho>>
  BY <1>1, <1>4 DEF Deleting, Structure, Deletion
<1>5. CASE delPc' = [delPc EXCEPT ![d] = "mark"] /\ delWho' = [delWho EXCEPT ![d] = c]
  <2>1. \A r \in Clients : Deleting(r)' <=> Deleting(r) \/ r = c
    BY <1>3, <1>5, DeleteStarts
  <2>2. \A e \in Deleters : delPc'[e] # "idle" => delWho'[e] # NoClient
    BY <1>1, <1>5, RegistryAssumption DEF TypeOK, Structure, Deletion
  <2>3. \A j \in Conns : j # k => <<"close", j>> \in Deleters /\ <<"close", j>> # d
    BY <1>2, DeleterNames
  <2>4. \A j \in Conns : j # k => delPc'[<<"close", j>>] = delPc[<<"close", j>>]
    BY <1>5, <2>3 DEF TypeOK
  <2> QED
    BY <1>1, <2>1, <2>2, <2>4
<1> QED
  BY <1>1, <1>2, <1>4, <1>5 DEF LeaveClient

\* Every step keeps the types; that a registration lists a ClientInfo, and
\* not nothing, in mUri2Client is due to Registration.
LEMMA TypeStep == TypeOK /\ Structure /\ [Next]_vars => TypeOK'
<1> USE RegistryAssumption
<1> SUFFICES ASSUME TypeOK, Structure, [Next]_vars PROVE TypeOK'
  OBVIOUS
<1> USE DEF TypeOK, Structure, Registration, connVars, regVars, infoVars, uriVars, delVars, RegStates, DelStates
<1>1. ASSUME NEW k \in Conns, OnNewConnection(k) PROVE TypeOK'
  BY <1>1 DEF OnNewConnection
<1>2. ASSUME NEW k \in Conns, Disconnect(k) PROVE TypeOK'
  BY <1>2 DEF Disconnect
<1>3. ASSUME NEW k \in Conns, OnCloseConnection(k) PROVE TypeOK'
  BY <1>3 DEF OnCloseConnection
<1>4. ASSUME NEW k \in Conns, LeaveClient(k) PROVE TypeOK'
  <2>1. ctxAgent[k] \in Clients
    BY <1>4 DEF LeaveClient
  <2>2. <<"close", k>> \in Deleters
    BY DeleterNames
  <2>3. connList' \in [Clients -> SUBSET Conns] /\ reader' \in [Conns -> {"reading", "leaving", "ended"}]
    BY <1>4, <2>1 DEF LeaveClient
  <2>4. /\ delPc' \in [Deleters -> DelStates]
        /\ delWho' \in [Deleters -> Clients \cup {NoClient}]
    <3>1. PICK c \in Clients : c = ctxAgent[k]
      BY <2>1
    <3>2. PICK d \in Deleters : d = <<"close", k>>
      BY <2>2
    <3>3. CASE UNCHANGED <<delPc, delWho>>
      BY <3>3
    <3>4. CASE delPc' = [delPc EXCEPT ![d] = "mark"] /\ delWho' = [delWho EXCEPT ![d] = c]
      BY <3>4
    <3> QED
      BY <1>4, <3>1, <3>2, <3>3, <3>4 DEF LeaveClient
  <2> QED
    BY <1>4, <2>3, <2>4 DEF LeaveClient
<1>5. ASSUME NEW k \in Conns, ReadRegister(k) PROVE TypeOK'
  BY <1>5 DEF ReadRegister
<1>6. ASSUME NEW k \in Conns, RegRefuse(k) PROVE TypeOK'
  BY <1>6 DEF RegRefuse
<1>7. ASSUME NEW k \in Conns, RegFind(k) PROVE TypeOK'
  <2>1. mapLock' \in Conns \cup {NoConn} /\ regPc' \in [Conns -> RegStates]
    BY <1>7 DEF RegFind
  <2>2. regWho' \in [Conns -> Clients \cup {NoClient}]
    BY <1>7 DEF RegFind
  <2>3. instID' \in [Clients -> Instances \cup {NoInstance}]
    BY <1>7 DEF RegFind
  <2> QED
    BY <1>7, <2>1, <2>2, <2>3 DEF RegFind
<1>8. ASSUME NEW k \in Conns, RegAlive(k) \/ RegSize(k) PROVE TypeOK'
  BY <1>8 DEF RegAlive, RegSize
<1>9. ASSUME NEW k \in Conns, RegAppend(k) PROVE TypeOK'
  BY <1>9 DEF RegAppend
<1>10. ASSUME NEW k \in Conns, RegSync(k) PROVE TypeOK'
  BY <1>10 DEF RegSync
<1>11. ASSUME NEW k \in Conns, RegCtx(k) PROVE TypeOK'
  BY <1>11 DEF RegCtx
<1>12. ASSUME NEW k \in Conns, RegTemp(k) PROVE TypeOK'
  BY <1>12 DEF RegTemp
<1>13. ASSUME NEW k \in Conns, AddEntry(k) PROVE TypeOK'
  BY <1>13 DEF AddEntry
<1>14. ASSUME NEW k \in Conns, UnRegister(k) PROVE TypeOK'
  BY <1>14, DeleterNames DEF UnRegister
<1>15. ASSUME NEW k \in Conns, TempClose(k) PROVE TypeOK'
  BY <1>15 DEF TempClose
<1>16. ASSUME NEW d \in Deleters, DelMark(d) PROVE TypeOK'
  BY <1>16 DEF DelMark
<1>17. ASSUME NEW d \in Deleters, DelClose(d) PROVE TypeOK'
  BY <1>17 DEF DelClose
<1>18. ASSUME NEW d \in Deleters, RemoveEntry(d) PROVE TypeOK'
  BY <1>18 DEF RemoveEntry
<1>19. ASSUME NEW d \in Deleters, DelMap(d) PROVE TypeOK'
  BY <1>19 DEF DelMap
<1>20. ASSUME NEW cs \in SUBSET Clients, CleanTimeout(cs) PROVE TypeOK'
  BY <1>20 DEF CleanTimeout
<1>21. ASSUME NEW c \in Clients, TimeoutNext(c) PROVE TypeOK'
  BY <1>21 DEF TimeoutNext
<1>22. ASSUME LoopCheck PROVE TypeOK'
  BY <1>22 DEF LoopCheck
<1>23. ASSUME Stop PROVE TypeOK'
  BY <1>23 DEF Stop
<1>24. ASSUME NEW ks \in SUBSET Conns, TempTimeout(ks) PROVE TypeOK'
  BY <1>24 DEF TempTimeout
<1>25. CASE UNCHANGED vars
  BY <1>25 DEF vars
<1> QED
  BY <1>1, <1>2, <1>3, <1>4, <1>5, <1>6, <1>7, <1>8, <1>9, <1>10, <1>11, <1>12, <1>13, <1>14, <1>15, <1>16, <1>17, <1>18, <1>19, <1>20, <1>21, <1>22, <1>23, <1>24, <1>25 DEF Next, ConnStep, RegStep, DelStep

\* Every step keeps the relations between lock, map, registrations and
\* deletions: one case per action, split where an action disturbs several.
LEMMA StructureStep == TypeOK /\ Structure /\ [Next]_vars => Structure'
<1> USE RegistryAssumption
<1> SUFFICES ASSUME TypeOK, Structure, [Next]_vars PROVE Structure'
  OBVIOUS
<1> USE DEF TypeOK, Structure, LockHeld, Registration, Published, Deletion, MapKeys, Unmade, Deleting, Locked, connVars, regVars, infoVars, uriVars, delVars
<1>1. ASSUME NEW k \in Conns, OnNewConnection(k) PROVE Structure'
  BY <1>1 DEF OnNewConnection
<1>2. ASSUME NEW k \in Conns, Disconnect(k) PROVE Structure'
  BY <1>2 DEF Disconnect
<1>3. ASSUME NEW k \in Conns, OnCloseConnection(k) PROVE Structure'
  BY <1>3 DEF OnCloseConnection
<1>4. ASSUME NEW k \in Conns, LeaveClient(k) PROVE Structure'
  <2>1. LockHeld'
    BY <1>4 DEF LeaveClient
  <2>2. Registration'
    BY <1>4 DEF LeaveClient
  <2>3. Published'
    <3> HIDE DEF Deleting
    <3>1. UNCHANGED <<regPc, regWho, mClientInfo, status, ctxAgent, todo>>
      BY <1>4 DEF LeaveClient
    <3> QED
      BY <1>4, <3>1, LeaveDeletes
  <2>4. Deletion'
    <3> HIDE DEF Deleting
    <3>1. \A j \in Conns : reader'[j] # "ended" => j # k /\ reader[j] # "ended"
      BY <1>4 DEF LeaveClient
    <3>2. UNCHANGED <<instID, todo>>
      BY <1>4 DEF LeaveClient
    <3>3. \A j \in Conns : reader'[j] # "ended" => delPc'[<<"close", j>>] = "idle"
      BY <1>4, <3>1, LeaveDeletes
    <3>4. \A r \in Clients : Deleting(r)' \/ r \in todo' => instID'[r] # NoInstance
      BY <1>4, <3>2, LeaveDeletes
    <3> QED
      BY <1>4, <3>3, <3>4, LeaveDeletes
  <2>5. MapKeys'
    BY <1>4 DEF LeaveClient
  <2>6. Unmade'
    BY <1>4 DEF LeaveClient
  <2> QED
    BY <2>1, <2>2, <2>3, <2>4, <2>5, <2>6
<1>5. ASSUME NEW k \in Conns, ReadRegister(k) PROVE Structure'
  BY <1>5 DEF ReadRegister
<1>6. ASSUME NEW k \in Conns, RegRefuse(k) PROVE Structure'
  BY <1>6 DEF RegRefuse
<1>7. ASSUME NEW k \in Conns, RegFind(k) PROVE Structure'
  BY <1>7 DEF RegFind
<1>8. ASSUME NEW k \in Conns, RegAlive(k) \/ RegSize(k) PROVE Structure'
  BY <1>8 DEF RegAlive, RegSize
<1>9. ASSUME NEW k \in Conns, RegAppend(k) PROVE Structure'
  BY <1>9 DEF RegAppend
<1>10. ASSUME NEW k \in Conns, RegSync(k) PROVE Structure'
  BY <1>10 DEF RegSync
<1>11. ASSUME NEW k \in Conns, RegCtx(k) PROVE Structure'
  BY <1>11 DEF RegCtx
<1>12. ASSUME NEW k \in Conns, RegTemp(k) PROVE Structure'
  BY <1>12 DEF RegTemp
<1>13. ASSUME NEW k \in Conns, AddEntry(k) PROVE Structure'
  BY <1>13 DEF AddEntry
<1>14. ASSUME NEW k \in Conns, UnRegister(k) PROVE Structure'
  BY <1>14 DEF UnRegister
<1>15. ASSUME NEW k \in Conns, TempClose(k) PROVE Structure'
  BY <1>15 DEF TempClose
<1>16. ASSUME NEW d \in Deleters, DelMark(d) PROVE Structure'
  BY <1>16 DEF DelMark
<1>17. ASSUME NEW d \in Deleters, DelClose(d) PROVE Structure'
  BY <1>17 DEF DelClose
<1>18. ASSUME NEW d \in Deleters, RemoveEntry(d) PROVE Structure'
  BY <1>18 DEF RemoveEntry
<1>19. ASSUME NEW d \in Deleters, DelMap(d) PROVE Structure'
  BY <1>19 DEF DelMap
<1>20. ASSUME NEW cs \in SUBSET Clients, CleanTimeout(cs) PROVE Structure'
  BY <1>20 DEF CleanTimeout
<1>21. ASSUME NEW c \in Clients, TimeoutNext(c) PROVE Structure'
  <2>1. LockHeld'
    BY <1>21 DEF TimeoutNext
  <2>2. Registration'
    BY <1>21 DEF TimeoutNext
  <2>3. Published'
    BY <1>21 DEF TimeoutNext
  <2>4. Deletion'
    <3>1. PICK d \in Deleters : d = Timer /\ delPc[d] = "idle"
      BY <1>21, DeleterNames DEF TimeoutNext
    <3>2. PICK r \in Clients : r = c
      BY <1>21 DEF TimeoutNext
    <3>3. \A s \in Clients : Deleting(s)' <=> Deleting(s) \/ s = r
      BY <1>21, <3>1, <3>2, DeleteStarts DEF TimeoutNext
    <3> QED
      BY <1>21, <3>1, <3>2, <3>3, DeleterNames DEF TimeoutNext
  <2>5. MapKeys'
    BY <1>21 DEF TimeoutNext
  <2>6. Unmade'
    BY <1>21 DEF TimeoutNext
  <2> QED
    BY <2>1, <2>2, <2>3, <2>4, <2>5, <2>6
<1>22. ASSUME LoopCheck PROVE Structure'
  BY <1>22 DEF LoopCheck
<1>23. ASSUME Stop PROVE Structure'
  BY <1>23 DEF Stop
<1>24. ASSUME NEW ks \in SUBSET Conns, TempTimeout(ks) PROVE Structure'
  BY <1>24 DEF TempTimeout
<1>25. CASE UNCHANGED vars
  BY <1>25 DEF vars
<1> QED
  BY <1>1, <1>2, <1>3, <1>4, <1>5, <1>6, <1>7, <1>8, <1>9, <1>10, <1>11, <1>12, <1>13, <1>14, <1>15, <1>16, <1>17, <1>18, <1>19, <1>20, <1>21, <1>22, <1>23, <1>24, <1>25 DEF Next, ConnStep, RegStep, DelStep

\* A registration that takes a step and is not done is still under way.
LEMMA RegisteringKept ==
    ASSUME TypeOK, NEW k \in Conns, NEW p, p # "done",
           regPc' = [regPc EXCEPT ![k] = p], UNCHANGED regWho
    PROVE  \A c \in Clients : Registering(c) => Registering(c)'
BY DEF TypeOK, Registering

\* So is a deletion that takes a step and is not done.
LEMMA DeletingKept ==
    ASSUME TypeOK, NEW d \in Deleters, NEW p, p # "idle",
           delPc' = [delPc EXCEPT ![d] = p], UNCHANGED delWho
    PROVE  \A c \in Clients : Deleting(c) => Deleting(c)'
BY DEF TypeOK, Deleting

\* A step that changes neither routes nor map nor status, and ends neither a
\* registration nor a deletion of a ClientInfo, keeps the service.
LEMMA ServiceKept ==
    ASSUME Service, UNCHANGED <<mUri2Client, announced, mClientInfo, status>>,
           \A c \in Clients : Registering(c) => Registering(c)',
           \A c \in Clients : Deleting(c) => Deleting(c)',
           \A c \in Clients : InMap(c) => instID'[c] = instID[c]
    PROVE  Service'
<1>1. \A c \in Clients : InMap(c)' <=> InMap(c)
  BY DEF InMap
<1>2. AnnouncedIffServed'
  BY DEF Service, AnnouncedIffServed
<1>3. DeadIsLeaving'
  BY <1>1 DEF Service, DeadIsLeaving
<1>4. MappedIsServed'
  BY <1>1 DEF Service, MappedIsServed
<1> QED
  BY <1>2, <1>3, <1>4 DEF Service

\* Every step keeps what is announced, who is dead and who is served.
LEMMA ServiceStep == TypeOK /\ Structure /\ Service /\ [Next]_vars => Service'
<1> SUFFICES ASSUME TypeOK, Structure, Service, [Next]_vars PROVE Service'
  OBVIOUS
<1> USE RegistryAssumption DEF connVars, regVars, infoVars, uriVars, delVars
<1>1. CASE UNCHANGED <<regPc, regWho, delPc, delWho, infoVars, uriVars>>
  <2>1. \A c \in Clients : Registering(c) => Registering(c)'
    BY <1>1 DEF Registering
  <2>2. \A c \in Clients : Deleting(c) => Deleting(c)'
    BY <1>1 DEF Deleting
  <2> QED
    BY <1>1, <2>1, <2>2, ServiceKept
<1>2. ASSUME NEW k \in Conns,
             \/ OnNewConnection(k) \/ Disconnect(k) \/ OnCloseConnection(k) \/ TempClose(k)
      PROVE  Service'
  BY <1>1, <1>2 DEF OnNewConnection, Disconnect, OnCloseConnection, TempClose
<1>3. CASE \/ LoopCheck \/ Stop \/ UNCHANGED vars
           \/ \E ks \in SUBSET Conns : TempTimeout(ks)
           \/ \E cs \in SUBSET Clients : CleanTimeout(cs)
  BY <1>1, <1>3 DEF LoopCheck, Stop, vars, TempTimeout, CleanTimeout
<1>4. ASSUME NEW k \in Conns, LeaveClient(k) PROVE Service'
  <2>1. UNCHANGED <<regPc, regWho, mClientInfo, status, instID, uriVars>>
    BY <1>4 DEF LeaveClient
  <2>2. \A c \in Clients : Registering(c) => Registering(c)'
    BY <2>1 DEF Registering
  <2>3. \A c \in Clients : Deleting(c) => Deleting(c)'
    BY <1>4, LeaveDeletes
  <2> QED
    BY <2>1, <2>2, <2>3, ServiceKept
<1>5. ASSUME NEW k \in Conns,
             ReadRegister(k) \/ RegAlive(k) \/ RegSize(k) \/ RegAppend(k) \/ RegTemp(k)
      PROVE  Service'
  <2>1. UNCHANGED <<regWho, mClientInfo, status, instID, uriVars, delPc, delWho>>
    BY <1>5 DEF ReadRegister, RegAlive, RegSize, RegAppend, RegTemp
  <2>2. \E p \in RegStates \ {"done"} : regPc' = [regPc EXCEPT ![k] = p]
    BY <1>5 DEF ReadRegister, RegAlive, RegSize, RegAppend, RegTemp, RegStates
  <2>3. \A c \in Clients : Registering(c) => Registering(c)'
    BY <2>1, <2>2, RegisteringKept
  <2>4. \A c \in Clients : Deleting(c) => Deleting(c)'
    BY <2>1 DEF Deleting
  <2> QED
    BY <2>1, <2>3, <2>4, ServiceKept
<1>6. ASSUME NEW k \in Conns, RegRefuse(k) PROVE Service'
  <2>1. UNCHANGED <<regWho, mClientInfo, status, instID, uriVars, delPc, delWho>>
    BY <1>6 DEF RegRefuse
  <2>2. regWho[k] = NoClient
    BY <1>6 DEF RegRefuse, Structure, Registration
  <2>3. \A c \in Clients : Registering(c) => Registering(c)'
    BY <1>6, <2>1, <2>2 DEF RegRefuse, TypeOK, Registering
  <2>4. \A c \in Clients : Deleting(c) => Deleting(c)'
    BY <2>1 DEF Deleting
  <2> QED
    BY <2>1, <2>3, <2>4, ServiceKept
<1>7. ASSUME NEW k \in Conns, RegFind(k) PROVE Service'
  <2>1. UNCHANGED <<mClientInfo, status, uriVars, delPc, delWho>>
    BY <1>7 DEF RegFind
  <2>2. regWho[k] = NoClient
    BY <1>7 DEF RegFind, Structure, Registration
  <2>3. \A j \in Conns : j # k => regWho'[j] = regWho[j] /\ regPc'[j] = regPc[j]
    BY <1>7 DEF RegFind, TypeOK
  <2>4. \A c \in Clients : Registering(c) => Registering(c)'
    BY <2>2, <2>3 DEF Registering
  <2>5. \A c \in Clients : Deleting(c) => Deleting(c)'
    BY <2>1 DEF Deleting
  <2>6. \A c \in Clients : instID[c] # NoInstance => instID'[c] = instID[c]
    BY <1>7 DEF RegFind, TypeOK
  <2>7. \A c \in Clients : InMap(c) => instID[c] # NoInstance
    BY DEF InMap, Structure, MapKeys, TypeOK
  <2> QED
    BY <2>1, <2>4, <2>5, <2>6, <2>7, ServiceKept
<1>8. ASSUME NEW k \in Conns, RegSync(k) PROVE Service'
  <2>1. UNCHANGED <<regWho, mClientInfo, instID, uriVars, delPc, delWho>>
    BY <1>8 DEF RegSync
  <2>2. \A c \in Clients : Registering(c) => Registering(c)'
    BY <1>8, <2>1, RegisteringKept DEF RegSync
  <2>3. \A c \in Clients : Deleting(c) => Deleting(c)'
    BY <2>1 DEF Deleting
  <2>4. \A c \in Clients : InMap(c)' <=> InMap(c)
    BY <2>1 DEF InMap
  <2>5. \A c \in Clients : status'[c] = "DEAD" => status[c] = "DEAD"
    BY <1>8 DEF RegSync, TypeOK
  <2>6. AnnouncedIffServed'
    BY <2>1 DEF Service, AnnouncedIffServed
  <2>7. DeadIsLeaving'
    BY <2>3, <2>4, <2>5 DEF Service, DeadIsLeaving
  <2>8. MappedIsServed'
    BY <2>1, <2>2, <2>3, <2>4 DEF Service, MappedIsServed
  <2> QED
    BY <2>6, <2>7, <2>8 DEF Service
<1>9. ASSUME NEW k \in Conns, RegCtx(k) PROVE Service'
  <2>1. UNCHANGED <<regWho, status, instID, uriVars, delPc, delWho>>
    BY <1>9 DEF RegCtx
  <2>2. PICK w \in Clients : w = regWho[k]
    BY <1>9 DEF RegCtx, TypeOK, Structure, Registration
  <2>3. \A c \in Clients : Registering(c) => Registering(c)'
    BY <1>9, <2>1, RegisteringKept DEF RegCtx
  <2>4. Registering(w)'
    BY <1>9, <2>1, <2>2 DEF RegCtx, TypeOK, Registering
  <2>5. \A c \in Clients : Deleting(c) => Deleting(c)'
    BY <2>1 DEF Deleting
  <2>6. \A c \in Clients : InMap(c)' => InMap(c) \/ c = w
    BY <1>9, <2>2 DEF RegCtx, TypeOK, InMap
  <2>7. InMap(w) \/ status[w] = "ALIVE"
    BY <1>9, <2>2 DEF RegCtx, Structure, Published, Locked, InMap, TypeOK
  <2>8. AnnouncedIffServed'
    BY <2>1 DEF Service, AnnouncedIffServed
  <2>9. DeadIsLeaving'
    BY <2>1, <2>5, <2>6, <2>7 DEF Service, DeadIsLeaving
  <2>10. MappedIsServed'
    BY <2>1, <2>3, <2>4, <2>5, <2>6 DEF Service, MappedIsServed
  <2> QED
    BY <2>8, <2>9, <2>10 DEF Service
<1>10. ASSUME NEW k \in Conns, AddEntry(k) PROVE Service'
  <2>1. UNCHANGED <<regWho, mClientInfo, status, instID, delPc, delWho>>
    BY <1>10 DEF AddEntry
  <2>2. PICK w \in Clients : w = regWho[k] /\ instID[w] = InstOf[k]
    BY <1>10 DEF AddEntry, TypeOK, Structure, Registration
  <2>3. \A u \in Uris : mUri2Client'[u] = IF u \in EntriesOf[InstOf[k]]
                                          THEN mUri2Client[u] \cup {w} ELSE mUri2Client[u]
    BY <1>10, <2>2 DEF AddEntry
  <2>4. \A c \in Clients : c # w => (Registering(c) => Registering(c)')
    BY <1>10, <2>1, <2>2 DEF AddEntry, TypeOK, Registering
  <2>5. \A c \in Clients : Deleting(c)' <=> Deleting(c)
    BY <2>1 DEF Deleting
  <2>6. \A c \in Clients : InMap(c)' <=> InMap(c)
    BY <2>1 DEF InMap
  <2>7. AnnouncedIffServed'
    BY <1>10, <2>3 DEF AddEntry, Service, AnnouncedIffServed, TypeOK
  <2>8. DeadIsLeaving'
    BY <2>1, <2>5, <2>6 DEF Service, DeadIsLeaving
  <2>9. MappedIsServed'
    <3> SUFFICES ASSUME NEW c \in Clients, InMap(c), ~Registering(c)', ~Deleting(c),
                        NEW u \in EntriesOf[instID[c]]
                 PROVE  c \in mUri2Client'[u]
      BY <2>1, <2>5, <2>6 DEF MappedIsServed
    <3>1. u \in Uris
      BY DEF InMap, Structure, MapKeys, TypeOK
    <3>2. CASE c = w
      BY <2>2, <2>3, <3>1, <3>2
    <3>3. CASE c # w
      BY <2>3, <2>4, <3>1, <3>3 DEF Service, MappedIsServed
    <3> QED
      BY <3>2, <3>3
  <2> QED
    BY <2>7, <2>8, <2>9 DEF Service
<1>11. ASSUME NEW d \in Deleters, NEW c \in Clients, delPc[d] = "idle",
              delPc' = [delPc EXCEPT ![d] = "mark"], delWho' = [delWho EXCEPT ![d] = c],
              UNCHANGED <<regPc, regWho, infoVars, uriVars>>
       PROVE  Service'
  <2>1. \A r \in Clients : Registering(r) => Registering(r)'
    BY <1>11 DEF Registering
  <2>2. \A r \in Clients : Deleting(r) => Deleting(r)'
    BY <1>11, DeleteStarts
  <2> QED
    BY <1>11, <2>1, <2>2, ServiceKept
<1>12. ASSUME NEW k \in Conns, UnRegister(k) PROVE Service'
  <2>1. ctxAgent[k] \in Clients /\ <<"unregister", k>> \in Deleters
    BY <1>12, DeleterNames DEF UnRegister, TypeOK
  <2> QED
    BY <1>11, <1>12, <2>1 DEF UnRegister
<1>13. ASSUME NEW c \in Clients, TimeoutNext(c) PROVE Service'
  BY <1>11, <1>13, DeleterNames DEF TimeoutNext
<1>14. ASSUME NEW d \in Deleters, DelMark(d) PROVE Service'
  <2>1. UNCHANGED <<regPc, regWho, mClientInfo, instID, uriVars, delWho>>
    BY <1>14 DEF DelMark
  <2>2. PICK r \in Clients : r = delWho[d]
    BY <1>14 DEF DelMark, TypeOK, Structure, Deletion
  <2>3. \A c \in Clients : Registering(c) => Registering(c)'
    BY <2>1 DEF Registering
  <2>4. \A c \in Clients : Deleting(c) => Deleting(c)'
    BY <1>14, <2>1, DeletingKept DEF DelMark
  <2>5. Deleting(r)
    BY <1>14, <2>2 DEF DelMark, Deleting
  <2>6. \A c \in Clients : InMap(c)' <=> InMap(c)
    BY <2>1 DEF InMap
  <2>7. AnnouncedIffServed'
    BY <2>1 DEF Service, AnnouncedIffServed
  <2>8. \A c \in Clients : c # r => status'[c] = status[c]
    BY <1>14, <2>2 DEF DelMark, TypeOK
  <2>9. DeadIsLeaving'
    BY <2>4, <2>5, <2>6, <2>8 DEF Service, DeadIsLeaving
  <2>10. MappedIsServed'
    BY <2>1, <2>3, <2>4, <2>6 DEF Service, MappedIsServed
  <2> QED
    BY <2>7, <2>9, <2>10 DEF Service
<1>15. ASSUME NEW d \in Deleters, DelClose(d) PROVE Service'
  <2>1. UNCHANGED <<regPc, regWho, infoVars, uriVars, delWho>>
    BY <1>15 DEF DelClose
  <2>2. \A c \in Clients : Registering(c) => Registering(c)'
    BY <2>1 DEF Registering
  <2>3. \A c \in Clients : Deleting(c) => Deleting(c)'
    BY <1>15, <2>1, DeletingKept DEF DelClose
  <2> QED
    BY <2>1, <2>2, <2>3, ServiceKept
<1>16. ASSUME NEW d \in Deleters, RemoveEntry(d) PROVE Service'
  <2>1. UNCHANGED <<regPc, regWho, infoVars, delWho>>
    BY <1>16 DEF RemoveEntry
  <2>2. PICK r \in Clients : r = delWho[d]
    BY <1>16 DEF RemoveEntry, TypeOK, Structure, Deletion
  <2>3. \A c \in Clients : Registering(c) => Registering(c)'
    BY <2>1 DEF Registering
  <2>4. \A c \in Clients : Deleting(c) => Deleting(c)'
    BY <1>16, <2>1, DeletingKept DEF RemoveEntry
  <2>5. Deleting(r)
    BY <1>16, <2>2 DEF RemoveEntry, Deleting
  <2>6. \A c \in Clients : InMap(c)' <=> InMap(c)
    BY <2>1 DEF InMap
  <2>7. AnnouncedIffServed'
    BY <1>16 DEF RemoveEntry, Service, AnnouncedIffServed, TypeOK
  <2>8. DeadIsLeaving'
    BY <2>1, <2>4, <2>6 DEF Service, DeadIsLeaving
  <2>9. \A u \in Uris, c \in Clients : c # r /\ c \in mUri2Client[u] => c \in mUri2Client'[u]
    BY <1>16, <2>2 DEF RemoveEntry
  <2>10. MappedIsServed'
    <3> SUFFICES ASSUME NEW c \in Clients, InMap(c), ~Registering(c)', ~Deleting(c)',
                        NEW u \in EntriesOf[instID[c]]
                 PROVE  c \in mUri2Client'[u]
      BY <2>1, <2>6 DEF MappedIsServed
    <3>1. u \in Uris
      BY DEF InMap, Structure, MapKeys, TypeOK
    <3>2. c # r /\ c \in mUri2Client[u]
      BY <2>3, <2>4, <2>5 DEF Service, MappedIsServed
    <3> QED
      BY <2>9, <3>1, <3>2
  <2> QED
    BY <2>7, <2>8, <2>10 DEF Service
<1>17. ASSUME NEW d \in Deleters, DelMap(d) PROVE Service'
  <2>1. UNCHANGED <<regPc, regWho, instID, status, uriVars, delWho>>
    BY <1>17 DEF DelMap
  <2>2. PICK r \in Clients : r = delWho[d] /\ instID[r] \in Instances
    BY <1>17 DEF DelMap, TypeOK, Structure, Deletion, Deleting
  <2>3. \A c \in Clients : Registering(c) => Registering(c)'
    BY <2>1 DEF Registering
  <2>4. \A c \in Clients : c # r => (Deleting(c) => Deleting(c)')
    BY <1>17, <2>1, <2>2 DEF DelMap, TypeOK, Deleting
  <2>5. \A c \in Clients : InMap(c)' => InMap(c) /\ c # r
    BY <1>17, <2>2 DEF DelMap, TypeOK, InMap, Structure, MapKeys
  <2>6. AnnouncedIffServed'
    BY <2>1 DEF Service, AnnouncedIffServed
  <2>7. DeadIsLeaving'
    BY <2>1, <2>4, <2>5 DEF Service, DeadIsLeaving
  <2>8. MappedIsServed'
    BY <2>1, <2>3, <2>4, <2>5 DEF Service, MappedIsServed
  <2> QED
    BY <2>6, <2>7, <2>8 DEF Service
<1> QED
  BY <1>2, <1>3, <1>4, <1>5, <1>6, <1>7, <1>8, <1>9, <1>10, <1>12, <1>13, <1>14, <1>15, <1>16, <1>17 DEF Next, ConnStep, RegStep, DelStep

\* The connections of a ClientInfo are finitely many, and fewer when one goes.
LEMMA ListSizes ==
    ASSUME TypeOK, NEW c \in Clients, NEW k \in Conns
    PROVE  /\ Cardinality(connList[c]) \in Nat
           /\ Cardinality(connList[c] \ {k}) \in Nat
           /\ Cardinality(connList[c] \ {k}) <= Cardinality(connList[c])
           /\ Cardinality(connList[c] \cup {k}) \in Nat
           /\ Cardinality(connList[c] \cup {k}) <= Cardinality(connList[c]) + 1
<1>1. IsFiniteSet(connList[c])
  BY FS_Subset, RegistryAssumption DEF TypeOK
<1>2. Cardinality(connList[c]) \in Nat
  BY <1>1, FS_CardinalityType
<1>3. /\ IsFiniteSet(connList[c] \ {k})
      /\ Cardinality(connList[c] \ {k}) <= Cardinality(connList[c])
  BY <1>1, <1>2, FS_RemoveElement
<1>4. /\ IsFiniteSet(connList[c] \cup {k})
      /\ Cardinality(connList[c] \cup {k}) <= Cardinality(connList[c]) + 1
  BY <1>1, <1>2, FS_AddElement
<1> QED
  BY <1>2, <1>3, <1>4, FS_CardinalityType

\* Every step keeps the connection limit.  Only three actions matter: the check
\* finds a place, the append takes it, a connection that leaves frees one; no
\* second registration appends in between, since both hold the map's lock.
LEMMA LimitStep == TypeOK /\ Structure /\ Limit /\ [Next]_vars => Limit'
<1> USE RegistryAssumption
<1> SUFFICES ASSUME TypeOK, Structure, Limit, [Next]_vars PROVE Limit'
  OBVIOUS
<1> USE DEF Limit, PlaceLeft, ConnectionLimit, connVars, regVars, infoVars, uriVars, delVars
<1>1. ASSUME NEW k \in Conns, RegSize(k) PROVE Limit'
  <2>1. regWho[k] \in Clients
    BY <1>1 DEF RegSize, TypeOK, Structure, Registration
  <2>2. Cardinality(connList[regWho[k]]) \in Nat
    BY <2>1, ListSizes
  <2>3. ConnectionLimit'
    BY <1>1 DEF RegSize
  <2>4. PlaceLeft'
    BY <1>1, <2>2 DEF RegSize, TypeOK
  <2> QED
    BY <2>3, <2>4
<1>2. ASSUME NEW k \in Conns, RegAppend(k) PROVE Limit'
  <2>1. PICK c \in Clients : c = regWho[k]
    BY <1>2 DEF RegAppend, TypeOK, Structure, Registration
  <2>2. /\ connList'[c] = connList[c] \cup {k}
        /\ \A r \in Clients : r # c => connList'[r] = connList[r]
    BY <1>2, <2>1 DEF RegAppend, TypeOK
  <2>3. Cardinality(connList[c]) <= MaxConnection
    BY <1>2, <2>1 DEF RegAppend
  <2>4. /\ Cardinality(connList'[c]) \in Nat
        /\ Cardinality(connList[c]) \in Nat
        /\ Cardinality(connList'[c]) <= Cardinality(connList[c]) + 1
    BY <2>2, ListSizes
  <2>5. ConnectionLimit'
    <3> SUFFICES ASSUME NEW r \in Clients PROVE Cardinality(connList'[r]) <= MaxConnection + 1
      OBVIOUS
    <3>1. CASE r = c
      BY <2>3, <2>4, <3>1
    <3>2. CASE r # c
      BY <2>2, <3>2
    <3> QED
      BY <3>1, <3>2
  <2>6. \A j \in Conns : regPc'[j] # "append"
    BY <1>2 DEF RegAppend, TypeOK, Structure, LockHeld, Locked
  <2> QED
    BY <2>5, <2>6
<1>3. ASSUME NEW k \in Conns, LeaveClient(k) PROVE Limit'
  <2>1. PICK c \in Clients : c = ctxAgent[k]
    BY <1>3 DEF LeaveClient, TypeOK, Structure, Registration
  <2>2. /\ connList'[c] = connList[c] \ {k}
        /\ \A r \in Clients : r # c => connList'[r] = connList[r]
    BY <1>3, <2>1 DEF LeaveClient, TypeOK
  <2>3. /\ Cardinality(connList'[c]) \in Nat
        /\ Cardinality(connList[c]) \in Nat
        /\ Cardinality(connList'[c]) <= Cardinality(connList[c])
    BY <2>2, ListSizes
  <2>4. ConnectionLimit'
    <3> SUFFICES ASSUME NEW r \in Clients PROVE Cardinality(connList'[r]) <= MaxConnection + 1
      OBVIOUS
    <3>1. CASE r = c
      BY <2>3, <3>1
    <3>2. CASE r # c
      BY <2>2, <3>2
    <3> QED
      BY <3>1, <3>2
  <2>5. \A j \in Conns : regPc[j] = "append" => regWho[j] \in Clients
    BY DEF TypeOK, Structure, Registration
  <2>6. PlaceLeft'
    <3>1. UNCHANGED <<regPc, regWho>>
      BY <1>3 DEF LeaveClient
    <3> SUFFICES ASSUME NEW j \in Conns, regPc[j] = "append"
                 PROVE  Cardinality(connList'[regWho[j]]) <= MaxConnection
      BY <3>1
    <3>2. Cardinality(connList[regWho[j]]) <= MaxConnection
      OBVIOUS
    <3>3. CASE regWho[j] = c
      BY <2>3, <3>2, <3>3
    <3>4. CASE regWho[j] # c
      BY <2>2, <2>5, <3>2, <3>4
    <3> QED
      BY <3>3, <3>4
  <2> QED
    BY <2>4, <2>6
<1>4. ASSUME NEW k \in Conns, RegFind(k) PROVE Limit'
  <2>1. UNCHANGED connList
    BY <1>4 DEF RegFind
  <2>2. \A j \in Conns : regPc'[j] = "append" => regPc[j] = "append" /\ j # k
    BY <1>4 DEF RegFind, TypeOK
  <2>3. \A j \in Conns : j # k => regWho'[j] = regWho[j]
    BY <1>4 DEF RegFind, TypeOK
  <2> QED
    BY <2>1, <2>2, <2>3
<1>5. CASE /\ UNCHANGED <<connList, regWho>>
           /\ \A j \in Conns : regPc'[j] = "append" => regPc[j] = "append"
  BY <1>5
<1>6. ASSUME NEW k \in Conns,
             RegRefuse(k) \/ RegAlive(k) \/ RegSync(k) \/ RegCtx(k) \/ RegTemp(k) \/ AddEntry(k) \/ ReadRegister(k)
      PROVE  Limit'
  <2>1. /\ UNCHANGED <<connList, regWho>>
        /\ \A j \in Conns : regPc'[j] = "append" => regPc[j] = "append"
    BY <1>6 DEF RegRefuse, RegAlive, RegSync, RegCtx, RegTemp, AddEntry, ReadRegister, TypeOK
  <2> QED
    BY <2>1
<1>7. ASSUME NEW k \in Conns,
             \/ OnNewConnection(k) \/ Disconnect(k) \/ OnCloseConnection(k)
             \/ UnRegister(k) \/ TempClose(k)
      PROVE  Limit'
  BY <1>5, <1>7 DEF OnNewConnection, Disconnect, OnCloseConnection, UnRegister, TempClose
<1>8. ASSUME NEW d \in Deleters, DelStep(d) PROVE Limit'
  BY <1>5, <1>8 DEF DelStep, DelMark, DelClose, RemoveEntry, DelMap
<1>9. ASSUME NEW cs \in SUBSET Clients, CleanTimeout(cs) PROVE Limit'
  BY <1>5, <1>9 DEF CleanTimeout
<1>10. ASSUME NEW c \in Clients, TimeoutNext(c) PROVE Limit'
  BY <1>5, <1>10 DEF TimeoutNext
<1>11. ASSUME NEW ks \in SUBSET Conns, TempTimeout(ks) PROVE Limit'
  BY <1>5, <1>11 DEF TempTimeout
<1>12. CASE LoopCheck \/ Stop \/ UNCHANGED vars
  BY <1>5, <1>12 DEF LoopCheck, Stop, vars
<1> QED
  BY <1>1, <1>2, <1>3, <1>4, <1>6, <1>7, <1>8, <1>9, <1>10, <1>11, <1>12 DEF Next, ConnStep, RegStep

-----------------------------------------------------------------------------
\* The inductive invariant holds of the empty register.
LEMMA InitInv == Init => TypeOK /\ IInv
<1> SUFFICES ASSUME Init PROVE TypeOK /\ IInv
  OBVIOUS
<1> USE RegistryAssumption DEF Init
<1>1. TypeOK
  BY DEF TypeOK, RegStates, DelStates
<1>2. Structure
  BY DeleterNames DEF Structure, LockHeld, Registration, Published, Deletion, MapKeys, Unmade, Locked, Deleting
<1>3. Service
  BY DEF Service, AnnouncedIffServed, DeadIsLeaving, MappedIsServed, InMap
<1>4. Limit
  BY FS_EmptySet DEF Limit, PlaceLeft, ConnectionLimit
<1> QED
  BY <1>1, <1>2, <1>3, <1>4 DEF IInv

\* Types, locking and ownership of ClientInfos, service and limit hold of every
\* interleaving of registrations, lost connections, unregisters and timeouts.
THEOREM InductiveInvariant == Spec => [](TypeOK /\ IInv)
<1>1. TypeOK /\ IInv /\ [Next]_vars => (TypeOK /\ IInv)'
  BY TypeStep, StructureStep, ServiceStep, LimitStep DEF IInv
<1> QED
  BY <1>1, InitInv, PTL DEF Spec

\* Type correctness of the register.
THEOREM TypeCorrect == Spec => []TypeOK
  BY InductiveInvariant, PTL

\* The node announces exactly the entries that some ClientInfo serves.
THEOREM AnnouncedExactly == Spec => []AnnouncedIffServed
<1>1. TypeOK /\ IInv => AnnouncedIffServed
  BY DEF IInv, Service
<1> QED
  BY <1>1, InductiveInvariant, PTL

\* A dead ClientInfo is in the map only while its deletion is under way.
THEOREM NoDeadInMap == Spec => []DeadIsLeaving
<1>1. TypeOK /\ IInv => DeadIsLeaving
  BY DEF IInv, Service
<1> QED
  BY <1>1, InductiveInvariant, PTL

\* A ClientInfo in the map with nothing under way serves all its entries.
THEOREM MapIsServed == Spec => []MappedIsServed
<1>1. TypeOK /\ IInv => MappedIsServed
  BY DEF IInv, Service
<1> QED
  BY <1>1, InductiveInvariant, PTL

\* The check-then-append of addConnection never exceeds the limit by more than
\* the one place the comparison allows.
THEOREM LimitKept == Spec => []ConnectionLimit
<1>1. TypeOK /\ IInv => ConnectionLimit
  BY DEF IInv, Limit
<1> QED
  BY <1>1, InductiveInvariant, PTL
=============================================================================
