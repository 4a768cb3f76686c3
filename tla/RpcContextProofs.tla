-------------------------- MODULE RpcContextProofs --------------------------
(***************************************************************************)
(* Proofs about RpcContext for any number of calls, connections, maps,     *)
(* pool slots, answers and closes.                                         *)
(***************************************************************************)
EXTENDS RpcContext, TLAPS

\* The variables of a context, a connection and a cleaner keep their types
\* through every step of callers, router, readLoop and cleaning tasks.
LEMMA TypeStep == TypeOK /\ [Next]_vars => TypeOK'
<1> USE ConstantsAssumption
<1> SUFFICES ASSUME TypeOK, [Next]_vars PROVE TypeOK'
  OBVIOUS
<1> USE DEF TypeOK, callVars, ctxVars, routerVars, connVars, cleanVars,
            CallStates, ReaderStates, CleanStates
<1>1. ASSUME NEW c \in Calls, AddRpcContext(c) PROVE TypeOK'
  BY <1>1 DEF AddRpcContext
<1>2. ASSUME NEW c \in Calls, WriteOk(c) PROVE TypeOK'
  BY <1>2 DEF WriteOk
<1>3. ASSUME NEW c \in Calls, WriteFail(c) PROVE TypeOK'
  BY <1>3 DEF WriteFail
<1>4. ASSUME NEW c \in Calls, Deadline(c) PROVE TypeOK'
  BY <1>4 DEF Deadline
<1>5. ASSUME NEW c \in Calls, ReceiveClosed(c) PROVE TypeOK'
  BY <1>5 DEF ReceiveClosed
<1>6. ASSUME NEW c \in Calls, AfterReceive(c) PROVE TypeOK'
  BY <1>6 DEF AfterReceive
<1>7. ASSUME NEW c \in Calls, ReceiveDone(c) PROVE TypeOK'
  BY <1>7 DEF ReceiveDone
<1>8. ASSUME NEW c \in Calls, AfterDone(c) PROVE TypeOK'
  BY <1>8 DEF AfterDone
<1>9. ASSUME NEW c \in Calls, RemoveRpcContext(c) PROVE TypeOK'
  BY <1>9 DEF RemoveRpcContext
<1>10. ASSUME NEW c \in Calls, ReadReply(c) PROVE TypeOK'
  BY <1>10 DEF ReadReply
<1>11. ASSUME NEW c \in Calls, GetRpcContext(c) PROVE TypeOK'
  BY <1>11 DEF GetRpcContext
<1>12. ASSUME NEW c \in Calls, SendMsg(c) PROVE TypeOK'
  BY <1>12 DEF SendMsg
<1>13. ASSUME NEW k \in Conns, Close(k) PROVE TypeOK'
  BY <1>13 DEF Close
<1>14. ASSUME NEW k \in Conns, ReadFail(k) PROVE TypeOK'
  BY <1>14 DEF ReadFail
<1>15. ASSUME NEW k \in Conns, ReadLoopClose(k) PROVE TypeOK'
  BY <1>15 DEF ReadLoopClose
<1>16. ASSUME NEW k \in Conns, CleanLock(k) PROVE TypeOK'
  BY <1>16 DEF CleanLock
<1>17. ASSUME NEW t \in Tables, CleanSetError(t) PROVE TypeOK'
  BY <1>17 DEF CleanSetError, Entries, TableOfCall
<1>18. ASSUME NEW t \in Tables, CleanCancel(t) PROVE TypeOK'
  BY <1>18 DEF CleanCancel
<1>19. ASSUME NEW t \in Tables, CleanClose(t) PROVE TypeOK'
  BY <1>19 DEF CleanClose
<1>20. ASSUME NEW t \in Tables, CleanUnlock(t) PROVE TypeOK'
  BY <1>20 DEF CleanUnlock
<1>21. ASSUME NEW k \in Conns, GoTask(k) PROVE TypeOK'
  BY <1>21 DEF GoTask
<1>22. ASSUME NEW k \in Conns, CastFail(k) PROVE TypeOK'
  BY <1>22 DEF CastFail
<1>23. ASSUME NEW k \in Conns, BreakClose(k) PROVE TypeOK'
  BY <1>23 DEF BreakClose
<1>24. CASE UNCHANGED vars
  BY <1>24 DEF vars
<1> QED
  BY <1>1, <1>2, <1>3, <1>4, <1>5, <1>6, <1>7, <1>8, <1>9, <1>10, <1>11, <1>12, <1>13, <1>14, <1>15, <1>16, <1>17, <1>18, <1>19, <1>20, <1>21, <1>22, <1>23, <1>24 DEF Next, CallStep, RouterStep, CleanStep

\* Type correctness of the request-context protocol.
THEOREM TypeCorrect == Spec => []TypeOK
<1>1. Init => TypeOK
  BY ConstantsAssumption DEF Init, TypeOK, CallStates, ReaderStates, CleanStates
<1> QED
  BY <1>1, TypeStep, PTL DEF Spec

-----------------------------------------------------------------------------
\* Every step keeps the ownership of contexts and the progress of calls: one
\* case per action, one step per conjunct of the inductive invariant.
LEMMA InvStep == TypeOK /\ IInv /\ [Next]_vars => IInv'
<1> USE ConstantsAssumption
<1> SUFFICES ASSUME TypeOK, IInv, [Next]_vars PROVE IInv'
  OBVIOUS
<1> USE DEF TypeOK, IInv, OwnedOnce, CallProgress, AnswersRead, TrueMeansAnswered, NoContextLeak,
            CleanPending, Entries, TableOfCall, Unlocked, callVars, ctxVars,
            routerVars, connVars, cleanVars
<1>1. ASSUME NEW c \in Calls, AddRpcContext(c) PROVE IInv'
  <2>1. OwnedOnce'
    BY <1>1 DEF AddRpcContext
  <2>2. CallProgress'
    BY <1>1 DEF AddRpcContext
  <2>3. TrueMeansAnswered'
    BY <1>1 DEF AddRpcContext
  <2>4. NoContextLeak'
    BY <1>1 DEF AddRpcContext
  <2>5. AnswersRead'
    BY <1>1 DEF AddRpcContext
  <2> QED
    BY <2>1, <2>2, <2>3, <2>4, <2>5
<1>2. ASSUME NEW c \in Calls, WriteOk(c) PROVE IInv'
  <2>1. OwnedOnce'
    BY <1>2 DEF WriteOk
  <2>2. CallProgress'
    BY <1>2 DEF WriteOk
  <2>3. TrueMeansAnswered'
    BY <1>2 DEF WriteOk
  <2>4. NoContextLeak'
    BY <1>2 DEF WriteOk
  <2>5. AnswersRead'
    BY <1>2 DEF WriteOk
  <2> QED
    BY <2>1, <2>2, <2>3, <2>4, <2>5
<1>3. ASSUME NEW c \in Calls, WriteFail(c) PROVE IInv'
  <2>1. OwnedOnce'
    BY <1>3 DEF WriteFail
  <2>2. CallProgress'
    BY <1>3 DEF WriteFail
  <2>3. TrueMeansAnswered'
    BY <1>3 DEF WriteFail
  <2>4. NoContextLeak'
    BY <1>3 DEF WriteFail
  <2>5. AnswersRead'
    BY <1>3 DEF WriteFail
  <2> QED
    BY <2>1, <2>2, <2>3, <2>4, <2>5
<1>4. ASSUME NEW c \in Calls, Deadline(c) PROVE IInv'
  <2>1. OwnedOnce'
    BY <1>4 DEF Deadline
  <2>2. CallProgress'
    BY <1>4 DEF Deadline
  <2>3. TrueMeansAnswered'
    BY <1>4 DEF Deadline
  <2>4. NoContextLeak'
    BY <1>4 DEF Deadline
  <2>5. AnswersRead'
    BY <1>4 DEF Deadline
  <2> QED
    BY <2>1, <2>2, <2>3, <2>4, <2>5
<1>5. ASSUME NEW c \in Calls, ReceiveClosed(c) PROVE IInv'
  <2>1. OwnedOnce'
    BY <1>5 DEF ReceiveClosed
  <2>2. CallProgress'
    BY <1>5 DEF ReceiveClosed
  <2>3. TrueMeansAnswered'
    BY <1>5 DEF ReceiveClosed
  <2>4. NoContextLeak'
    BY <1>5 DEF ReceiveClosed
  <2>5. AnswersRead'
    BY <1>5 DEF ReceiveClosed
  <2> QED
    BY <2>1, <2>2, <2>3, <2>4, <2>5
<1>6. ASSUME NEW c \in Calls, AfterReceive(c) PROVE IInv'
  <2>1. OwnedOnce'
    BY <1>6 DEF AfterReceive
  <2>2. CallProgress'
    BY <1>6 DEF AfterReceive
  <2>3. TrueMeansAnswered'
    BY <1>6 DEF AfterReceive
  <2>4. NoContextLeak'
    BY <1>6 DEF AfterReceive
  <2>5. AnswersRead'
    BY <1>6 DEF AfterReceive
  <2> QED
    BY <2>1, <2>2, <2>3, <2>4, <2>5
<1>7. ASSUME NEW c \in Calls, ReceiveDone(c) PROVE IInv'
  <2>1. OwnedOnce'
    BY <1>7 DEF ReceiveDone
  <2>2. CallProgress'
    BY <1>7 DEF ReceiveDone
  <2>3. TrueMeansAnswered'
    BY <1>7 DEF ReceiveDone
  <2>4. NoContextLeak'
    BY <1>7 DEF ReceiveDone
  <2>5. AnswersRead'
    BY <1>7 DEF ReceiveDone
  <2> QED
    BY <2>1, <2>2, <2>3, <2>4, <2>5
<1>8. ASSUME NEW c \in Calls, AfterDone(c) PROVE IInv'
  <2>1. OwnedOnce'
    BY <1>8 DEF AfterDone
  <2>2. CallProgress'
    BY <1>8 DEF AfterDone
  <2>3. TrueMeansAnswered'
    BY <1>8 DEF AfterDone
  <2>4. NoContextLeak'
    BY <1>8 DEF AfterDone
  <2>5. AnswersRead'
    BY <1>8 DEF AfterDone
  <2> QED
    BY <2>1, <2>2, <2>3, <2>4, <2>5
<1>9. ASSUME NEW c \in Calls, RemoveRpcContext(c) PROVE IInv'
  <2>1. OwnedOnce'
    BY <1>9 DEF RemoveRpcContext
  <2>2. CallProgress'
    BY <1>9 DEF RemoveRpcContext
  <2>3. TrueMeansAnswered'
    BY <1>9 DEF RemoveRpcContext
  <2>4. NoContextLeak'
    BY <1>9 DEF RemoveRpcContext
  <2>5. AnswersRead'
    BY <1>9 DEF RemoveRpcContext
  <2> QED
    BY <2>1, <2>2, <2>3, <2>4, <2>5
<1>10. ASSUME NEW c \in Calls, ReadReply(c) PROVE IInv'
  <2>1. OwnedOnce'
    BY <1>10 DEF ReadReply
  <2>2. CallProgress'
    BY <1>10 DEF ReadReply
  <2>3. TrueMeansAnswered'
    BY <1>10 DEF ReadReply
  <2>4. NoContextLeak'
    BY <1>10 DEF ReadReply
  <2>5. AnswersRead'
    BY <1>10 DEF ReadReply
  <2> QED
    BY <2>1, <2>2, <2>3, <2>4, <2>5
<1>11. ASSUME NEW c \in Calls, GetRpcContext(c) PROVE IInv'
  <2>1. OwnedOnce'
    <3>1. Unlocked(TableOfCall(c)) /\ replies[c] > 0
      BY <1>11 DEF GetRpcContext
    <3>2. c \in registered => pc[c] # "writing" /\ ~errorMsg[c] /\ (pc[c] # "waiting" => ctxDone[c])
      BY <3>1 DEF CallStates
    <3>3. UNCHANGED <<pc, got, msgChan, errorMsg, ctxDone, replies, cleaner, target>>
      BY <1>11 DEF GetRpcContext
    <3>4. registered' = registered \ {c} /\ sending' \subseteq sending \cup ({c} \cap registered)
      BY <1>11 DEF GetRpcContext
    <3>5. ASSUME NEW t \in Tables, cleaner'[t] \in {"errset", "cancelled"}
          PROVE  target'[t] \in Entries(t)' /\ errorMsg'[target'[t]]
      <4>1. target[t] \in registered /\ TableOf[ConnOf[target[t]]] = t /\ errorMsg[target[t]]
        BY <3>3, <3>5
      <4>2. target[t] # c
        BY <4>1, <3>3, <3>1, <3>5
      <4> QED
        BY <4>1, <4>2, <3>3, <3>4
    <3> QED
      BY <3>1, <3>2, <3>3, <3>4, <3>5
  <2>2. CallProgress'
    BY <1>11 DEF GetRpcContext
  <2>3. TrueMeansAnswered'
    BY <1>11 DEF GetRpcContext
  <2>4. NoContextLeak'
    BY <1>11 DEF GetRpcContext
  <2>5. AnswersRead'
    BY <1>11 DEF GetRpcContext
  <2> QED
    BY <2>1, <2>2, <2>3, <2>4, <2>5
<1>12. ASSUME NEW c \in Calls, SendMsg(c) PROVE IInv'
  <2>1. OwnedOnce'
    BY <1>12 DEF SendMsg
  <2>2. CallProgress'
    BY <1>12 DEF SendMsg
  <2>3. TrueMeansAnswered'
    BY <1>12 DEF SendMsg
  <2>4. NoContextLeak'
    BY <1>12 DEF SendMsg
  <2>5. AnswersRead'
    BY <1>12 DEF SendMsg
  <2> QED
    BY <2>1, <2>2, <2>3, <2>4, <2>5
<1>13. ASSUME NEW k \in Conns, Close(k) PROVE IInv'
  <2>1. OwnedOnce'
    BY <1>13 DEF Close
  <2>2. CallProgress'
    BY <1>13 DEF Close
  <2>3. TrueMeansAnswered'
    BY <1>13 DEF Close
  <2>4. NoContextLeak'
    BY <1>13 DEF Close
  <2>5. AnswersRead'
    BY <1>13 DEF Close
  <2> QED
    BY <2>1, <2>2, <2>3, <2>4, <2>5
<1>14. ASSUME NEW k \in Conns, ReadFail(k) PROVE IInv'
  <2>1. OwnedOnce'
    BY <1>14 DEF ReadFail
  <2>2. CallProgress'
    BY <1>14 DEF ReadFail
  <2>3. TrueMeansAnswered'
    BY <1>14 DEF ReadFail
  <2>4. NoContextLeak'
    BY <1>14 DEF ReadFail
  <2>5. AnswersRead'
    BY <1>14 DEF ReadFail
  <2> QED
    BY <2>1, <2>2, <2>3, <2>4, <2>5
<1>15. ASSUME NEW k \in Conns, ReadLoopClose(k) PROVE IInv'
  <2>1. OwnedOnce'
    BY <1>15 DEF ReadLoopClose
  <2>2. CallProgress'
    BY <1>15 DEF ReadLoopClose
  <2>3. TrueMeansAnswered'
    BY <1>15 DEF ReadLoopClose
  <2>4. NoContextLeak'
    BY <1>15 DEF ReadLoopClose
  <2>5. AnswersRead'
    BY <1>15 DEF ReadLoopClose
  <2> QED
    BY <2>1, <2>2, <2>3, <2>4, <2>5
<1>16. ASSUME NEW k \in Conns, CleanLock(k) PROVE IInv'
  <2>1. OwnedOnce'
    BY <1>16 DEF CleanLock
  <2>2. CallProgress'
    BY <1>16 DEF CleanLock
  <2>3. TrueMeansAnswered'
    BY <1>16 DEF CleanLock
  <2>4. NoContextLeak'
    <3> SUFFICES ASSUME NEW c \in registered, pc[c] = "returned"
                 PROVE  CleanPending(TableOfCall(c))'
      BY <1>16 DEF CleanLock
    <3>1. CASE TableOfCall(c) = TableOf[k]
      BY <1>16, <3>1 DEF CleanLock
    <3>2. CASE TableOfCall(c) # TableOf[k]
      <4>1. CleanPending(TableOfCall(c))
        OBVIOUS
      <4>2. cleaner'[TableOfCall(c)] = cleaner[TableOfCall(c)]
        BY <1>16, <3>2 DEF CleanLock
      <4>3. \A k2 \in Conns : k2 # k => cleanJobs'[k2] = cleanJobs[k2] /\ breakJobs'[k2] = breakJobs[k2]
        BY <1>16 DEF CleanLock
      <4> QED
        BY <4>1, <4>2, <4>3, <3>2
    <3> QED
      BY <3>1, <3>2
  <2>5. AnswersRead'
    BY <1>16 DEF CleanLock
  <2> QED
    BY <2>1, <2>2, <2>3, <2>4, <2>5
<1>17. ASSUME NEW t \in Tables, CleanSetError(t) PROVE IInv'
  <2>1. OwnedOnce'
    BY <1>17 DEF CleanSetError
  <2>2. CallProgress'
    BY <1>17 DEF CleanSetError
  <2>3. TrueMeansAnswered'
    BY <1>17 DEF CleanSetError
  <2>4. NoContextLeak'
    BY <1>17 DEF CleanSetError
  <2>5. AnswersRead'
    BY <1>17 DEF CleanSetError
  <2> QED
    BY <2>1, <2>2, <2>3, <2>4, <2>5
<1>18. ASSUME NEW t \in Tables, CleanCancel(t) PROVE IInv'
  <2>1. OwnedOnce'
    BY <1>18 DEF CleanCancel
  <2>2. CallProgress'
    BY <1>18 DEF CleanCancel
  <2>3. TrueMeansAnswered'
    BY <1>18 DEF CleanCancel
  <2>4. NoContextLeak'
    BY <1>18 DEF CleanCancel
  <2>5. AnswersRead'
    BY <1>18 DEF CleanCancel
  <2> QED
    BY <2>1, <2>2, <2>3, <2>4, <2>5
<1>19. ASSUME NEW t \in Tables, CleanClose(t) PROVE IInv'
  <2>1. OwnedOnce'
    BY <1>19 DEF CleanClose
  <2>2. CallProgress'
    BY <1>19 DEF CleanClose
  <2>3. TrueMeansAnswered'
    BY <1>19 DEF CleanClose
  <2>4. NoContextLeak'
    BY <1>19 DEF CleanClose
  <2>5. AnswersRead'
    BY <1>19 DEF CleanClose
  <2> QED
    BY <2>1, <2>2, <2>3, <2>4, <2>5
<1>20. ASSUME NEW t \in Tables, CleanUnlock(t) PROVE IInv'
  <2>1. OwnedOnce'
    BY <1>20 DEF CleanUnlock
  <2>2. CallProgress'
    BY <1>20 DEF CleanUnlock
  <2>3. TrueMeansAnswered'
    BY <1>20 DEF CleanUnlock
  <2>4. NoContextLeak'
    BY <1>20 DEF CleanUnlock
  <2>5. AnswersRead'
    BY <1>20 DEF CleanUnlock
  <2> QED
    BY <2>1, <2>2, <2>3, <2>4, <2>5
<1>21. ASSUME NEW k \in Conns, GoTask(k) PROVE IInv'
  <2>1. OwnedOnce'
    BY <1>21 DEF GoTask
  <2>2. CallProgress'
    BY <1>21 DEF GoTask
  <2>3. TrueMeansAnswered'
    BY <1>21 DEF GoTask
  <2>4. NoContextLeak'
    BY <1>21 DEF GoTask
  <2>5. AnswersRead'
    BY <1>21 DEF GoTask
  <2> QED
    BY <2>1, <2>2, <2>3, <2>4, <2>5
<1>22. ASSUME NEW k \in Conns, CastFail(k) PROVE IInv'
  <2>1. OwnedOnce'
    BY <1>22 DEF CastFail
  <2>2. CallProgress'
    BY <1>22 DEF CastFail
  <2>3. TrueMeansAnswered'
    BY <1>22 DEF CastFail
  <2>4. NoContextLeak'
    BY <1>22 DEF CastFail
  <2>5. AnswersRead'
    BY <1>22 DEF CastFail
  <2> QED
    BY <2>1, <2>2, <2>3, <2>4, <2>5
<1>23. ASSUME NEW k \in Conns, BreakClose(k) PROVE IInv'
  <2>1. OwnedOnce'
    BY <1>23 DEF BreakClose
  <2>2. CallProgress'
    BY <1>23 DEF BreakClose
  <2>3. TrueMeansAnswered'
    BY <1>23 DEF BreakClose
  <2>4. NoContextLeak'
    BY <1>23 DEF BreakClose
  <2>5. AnswersRead'
    BY <1>23 DEF BreakClose
  <2> QED
    BY <2>1, <2>2, <2>3, <2>4, <2>5
<1>24. CASE UNCHANGED vars
  BY <1>24 DEF vars
<1> QED
  BY <1>1, <1>2, <1>3, <1>4, <1>5, <1>6, <1>7, <1>8, <1>9, <1>10, <1>11, <1>12, <1>13, <1>14, <1>15, <1>16, <1>17, <1>18, <1>19, <1>20, <1>21, <1>22, <1>23, <1>24 DEF Next, CallStep, RouterStep, CleanStep

\* Before the first call every map is empty and nothing is under way.
LEMMA InitInv == Init => IInv
BY DEF Init, IInv, OwnedOnce, CallProgress, AnswersRead, TrueMeansAnswered, NoContextLeak

\* The inductive invariant holds in every reachable state.
THEOREM InductiveInvariant == Spec => []IInv
BY InitInv, InvStep, TypeCorrect, PTL DEF Spec

\* No goroutine ever closes a closed channel or sends on one: GetRpcContext,
\* RemoveRpcContext and cleanAllRpcContext hand a context over under the mutex.
THEOREM ChannelSafety == Spec => []ChannelNeverMisused
<1>1. IInv => ChannelNeverMisused
  BY DEF IInv, OwnedOnce, ChannelNeverMisused, Entries
<1> QED
  BY <1>1, InductiveInvariant, PTL

\* CallContext.Start returns true only with the bytes of an answer.
THEOREM TrueIsAnswered == Spec => []TrueMeansAnswered
<1>1. IInv => TrueMeansAnswered
  BY DEF IInv
<1> QED
  BY <1>1, InductiveInvariant, PTL

\* A context that outlives its Start is always about to be cleaned.
THEOREM NoLeak == Spec => []NoContextLeak
<1>1. IInv => NoContextLeak
  BY DEF IInv
<1> QED
  BY <1>1, InductiveInvariant, PTL

\* A router goroutine blocks only on a live caller or after a deadline.
THEOREM SenderCause == Spec => []BlockedSenderCause
<1>1. IInv => BlockedSenderCause
  BY DEF IInv, OwnedOnce, BlockedSenderCause
<1> QED
  BY <1>1, InductiveInvariant, PTL
=============================================================================
