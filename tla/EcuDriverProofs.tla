-------------------------- MODULE EcuDriverProofs ---------------------------
(***************************************************************************)
(* Theorems about EcuDriver, for every number of threads, every capacity   *)
(* and every bound.                                                        *)
(***************************************************************************)
EXTENDS EcuDriver, FiniteSetTheorems, TLAPS

USE DriverAssumption

\* A put keeps the elements of a fifo in their type and its length within the
\* capacity.
LEMMA PutKeepsType ==
    ASSUME NEW S, NEW q \in Seq(S), NEW size \in Nat, NEW x \in S
    PROVE  /\ kfifo_put(q, size, x) \in Seq(S)
           /\ Len(q) <= size => Len(kfifo_put(q, size, x)) <= size
  BY DEF kfifo_put

\* What a race leaves in a fifo is a sequence of its elements.
LEMMA TornType ==
    ASSUME NEW S, NEW q \in Torn(S)
    PROVE  q \in Seq(S)
  BY DEF Torn

\* The end of an operation on a fifo: the record of the races is well typed,
\* and without a race in it this operation was not in one.
LEMMA OvertakeType ==
    ASSUME TypeOK, NEW t \in Threads, Overtake(t)
    PROVE  /\ overtaken' \subseteq Threads /\ raced' \in BOOLEAN
           /\ raced => raced'
           /\ ~raced' => ~Racing(t)
  <1>1. overtaken' \subseteq Threads
    BY DEF TypeOK, Overtake, Rivals
  <1>2. raced' \in BOOLEAN /\ (raced => raced') /\ (~raced' => ~Racing(t))
    BY Zenon DEF Overtake
  <1>3. QED
    BY <1>1, <1>2

\* Taking the head off a fifo keeps its type and does not lengthen it.
LEMMA TailType ==
    ASSUME NEW S, NEW q \in Seq(S), q # <<>>
    PROVE  Tail(q) \in Seq(S) /\ Len(Tail(q)) = Len(q) - 1 /\ Head(q) \in S
  OBVIOUS

\* Queueing a kind, in a race or not, leaves a fifo of kinds.
LEMMA PutTypeType ==
    ASSUME TypeOK, NEW t \in Threads, NEW type \in SentMsgTypes, PutType(t, type)
    PROVE  /\ overtaken' \subseteq Threads /\ raced' \in BOOLEAN
           /\ raced => raced'
           /\ fifo_send_types' \in Seq(SentMsgTypes)
           /\ ~raced' => Len(fifo_send_types') <= TypesSize
  <1>1. Overtake(t)
    BY DEF PutType
  <1>2. /\ overtaken' \subseteq Threads /\ raced' \in BOOLEAN
        /\ raced => raced'
        /\ ~raced' => ~Racing(t)
    BY <1>1, OvertakeType
  <1>3. \/ fifo_send_types' = kfifo_put(fifo_send_types, TypesSize, type)
        \/ Racing(t) /\ fifo_send_types' \in Torn(SentMsgTypes)
    BY DEF PutType
  <1>4. /\ fifo_send_types \in Seq(SentMsgTypes)
        /\ ~raced => Len(fifo_send_types) <= TypesSize
    BY DEF TypeOK
  <1>5. fifo_send_types' \in Seq(SentMsgTypes)
    BY <1>3, <1>4, PutKeepsType, TornType
  <1>6. ~raced' => Len(fifo_send_types') <= TypesSize
    BY <1>2, <1>3, <1>4, PutKeepsType
  <1>7. QED
    BY <1>2, <1>5, <1>6

\* Moving a thread on keeps pc well typed.
LEMMA GotoType ==
    ASSUME TypeOK, NEW t \in Threads, NEW l \in Labels, Goto(t, l)
    PROVE  pc' \in [Threads -> Labels]
  BY DEF TypeOK, Goto

\* A thread that returns is idle and holds a result.
LEMMA ReturnType ==
    ASSUME TypeOK, NEW t \in Threads, NEW r \in Results, Return(t, r)
    PROVE  pc' \in [Threads -> Labels] /\ ret' \in [Threads -> Results]
  <1>1. "idle" \in Labels
    BY DEF Labels
  <1>2. pc' \in [Threads -> Labels]
    BY <1>1, GotoType DEF Return
  <1>3. QED
    BY <1>2 DEF TypeOK, Return

\* What rpmsg_send() leaves behind is well typed, whichever way it ends.
LEMMA SendType ==
    ASSUME TypeOK, NEW t \in Threads, NEW type \in SentMsgTypes,
           NEW l \in Labels, NEW err \in Results,
           rpmsg_send(t, type, l, err), UNCHANGED done
    PROVE  /\ sent' \in Seq(SentMsgTypes) /\ Len(sent') <= MaxMsgs
           /\ done' \in 0..Len(sent')
           /\ pc' \in [Threads -> Labels] /\ ret' \in [Threads -> Results]
           /\ req' \in [Threads -> 0..MaxMsgs] /\ mishap' \in BOOLEAN
  <1>0. mishap' \in BOOLEAN
    BY DEF rpmsg_send, TypeOK
  <1>1. CASE /\ Len(sent) < MaxMsgs /\ sent' = Append(sent, type)
             /\ req' = [req EXCEPT ![t] = Len(sent) + 1]
             /\ Goto(t, l) /\ UNCHANGED ret
    <2>1. sent \in Seq(SentMsgTypes) /\ Len(sent) \in Nat /\ done \in 0..Len(sent)
      BY DEF TypeOK
    <2>2. /\ sent' \in Seq(SentMsgTypes) /\ Len(sent') = Len(sent) + 1
          /\ done' \in 0..Len(sent')
      BY <1>1, <2>1
    <2>3. req' \in [Threads -> 0..MaxMsgs]
      BY SMTT(40), <1>1, <2>1 DEF TypeOK
    <2>4. pc' \in [Threads -> Labels]
      BY <1>1, GotoType
    <2>5. ret' \in [Threads -> Results]
      BY <1>1 DEF TypeOK
    <2>6. QED
      BY <1>0, <1>1, <2>1, <2>2, <2>3, <2>4, <2>5
  <1>2. CASE Return(t, err) /\ UNCHANGED <<sent, req>>
    BY <1>0, <1>2, ReturnType DEF TypeOK
  <1>3. CASE Goto(t, "oops") /\ UNCHANGED <<sent, req, ret>>
    <2>1. "oops" \in Labels
      BY DEF Labels
    <2>2. QED
      BY <1>0, <1>3, <2>1, GotoType DEF TypeOK
  <1>4. QED
    BY <1>0, <1>1, <1>2, <1>3 DEF rpmsg_send

\* The constants the handlers use belong to the types of the variables.
LEMMA ConstantTypes ==
    /\ SENT_MSG_INTERNAL \in SentMsgTypes
    /\ SENT_MSG_EXTERNAL_UNIQUE \in SentMsgTypes
    /\ SENT_MSG_EXTERNAL_FIFO \in SentMsgTypes
    /\ \A l \in {"idle", "oops", "ping_send", "ping_put", "send_send",
                 "send_put", "send_alloc", "send_id", "recv_erase",
                 "write_first", "write_send", "write_put", "read_get"} : l \in Labels
    /\ \A r \in {"none", "OK", "SHORT", "EINVAL", "EAGAIN", "ESEND"} : r \in Results
  BY DEF SentMsgTypes, Labels, Results

\* Every variable keeps its type and every fifo stays within its capacity, in
\* every step of every handler.
LEMMA TypeStep == TypeOK /\ LocalsOK /\ [Next]_vars => TypeOK'
<1> USE ConstantTypes
<1> SUFFICES ASSUME TypeOK, LocalsOK, [Next]_vars PROVE TypeOK'
  OBVIOUS
<1>a. left \in [Threads -> 0..MaxBatch] /\ pc \in [Threads -> Labels]
  BY DEF TypeOK
<1>b. /\ fifo_send_types \in Seq(SentMsgTypes)
      /\ ~raced => Len(fifo_send_types) <= TypesSize
  BY DEF TypeOK
<1>c. /\ fifo_external_msg \in Seq(0..MaxMsgs)
      /\ ~raced => Len(fifo_external_msg) <= ExternalSize
  BY DEF TypeOK
<1>d. /\ fifo_unique_ids \in Seq(Index)
      /\ ~raced => Len(fifo_unique_ids) <= IdsSize
  BY DEF TypeOK
<1>e. /\ done \in 0..Len(sent) /\ Len(sent) \in 0..MaxMsgs
      /\ cb \in 0..MaxMsgs
  BY DEF TypeOK
<1>f. /\ rx_unique_buffer \in [Index -> {FREE, RESERVED} \cup 1..MaxMsgs]
      /\ next \in 1..MaxId + 1 /\ id \in [Threads -> Index]
      /\ owner \in [Index -> 0..MaxMsgs] /\ req \in [Threads -> 0..MaxMsgs]
  BY DEF TypeOK
<1>1. ASSUME NEW t \in Threads, PingCheck(t) PROVE TypeOK'
  <2>1. pc' \in [Threads -> Labels] /\ ret' \in [Threads -> Results]
    BY <1>1, GotoType, ReturnType DEF PingCheck, TypeOK
  <2>2. QED
    BY <1>1, <2>1 DEF PingCheck, TypeOK, driverVars, histVars
<1>2. ASSUME NEW t \in Threads, PingSend(t) PROVE TypeOK'
  <2>1. /\ sent' \in Seq(SentMsgTypes) /\ Len(sent') <= MaxMsgs
          /\ done' \in 0..Len(sent')
          /\ pc' \in [Threads -> Labels] /\ ret' \in [Threads -> Results]
          /\ req' \in [Threads -> 0..MaxMsgs] /\ mishap' \in BOOLEAN
    BY <1>2, SendType DEF PingSend
  <2>2. QED
    BY <1>2, <2>1 DEF PingSend, TypeOK, driverVars, histVars
<1>3. ASSUME NEW t \in Threads, PingPut(t) PROVE TypeOK'
  <2>1. pc' \in [Threads -> Labels] /\ ret' \in [Threads -> Results]
    BY <1>3, ReturnType DEF PingPut
  <2>2. /\ overtaken' \subseteq Threads /\ raced' \in BOOLEAN
        /\ raced => raced'
        /\ fifo_send_types' \in Seq(SentMsgTypes)
        /\ ~raced' => Len(fifo_send_types') <= TypesSize
    BY <1>3, PutTypeType DEF PingPut
  <2>3. mishap' \in BOOLEAN
    BY <1>3 DEF PingPut
  <2>4. QED
    BY <1>3, <2>1, <2>2, <2>3 DEF PingPut, TypeOK
<1>4. ASSUME NEW t \in Threads, SendBegin(t) PROVE TypeOK'
  <2>1. pc' \in [Threads -> Labels] /\ ret' \in [Threads -> Results]
    BY <1>4, GotoType, ReturnType DEF SendBegin, TypeOK
  <2>2. QED
    BY <1>4, <2>1 DEF SendBegin, TypeOK, driverVars, histVars
<1>5. ASSUME NEW t \in Threads, SendSend(t) PROVE TypeOK'
  <2>1. /\ sent' \in Seq(SentMsgTypes) /\ Len(sent') <= MaxMsgs
          /\ done' \in 0..Len(sent')
          /\ pc' \in [Threads -> Labels] /\ ret' \in [Threads -> Results]
          /\ req' \in [Threads -> 0..MaxMsgs] /\ mishap' \in BOOLEAN
    BY <1>5, SendType DEF SendSend
  <2>2. QED
    BY <1>5, <2>1 DEF SendSend, TypeOK, driverVars, histVars
<1>6. ASSUME NEW t \in Threads, SendPut(t) PROVE TypeOK'
  <2>1. pc' \in [Threads -> Labels] /\ ret' \in [Threads -> Results]
    BY <1>6, GotoType, ReturnType DEF SendPut, TypeOK
  <2>2. /\ overtaken' \subseteq Threads /\ raced' \in BOOLEAN
        /\ raced => raced'
        /\ fifo_send_types' \in Seq(SentMsgTypes)
        /\ ~raced' => Len(fifo_send_types') <= TypesSize
    BY <1>6, PutTypeType DEF SendPut
  <2>3. mishap' \in BOOLEAN
    BY <1>6 DEF SendPut
  <2>4. QED
    BY <1>6, <2>1, <2>2, <2>3 DEF SendPut, TypeOK
<1>7. ASSUME NEW t \in Threads, SendAlloc(t) PROVE TypeOK'
  <2>1. pc' \in [Threads -> Labels] /\ ret' \in [Threads -> Results]
    BY <1>7, GotoType, ReturnType DEF SendAlloc, TypeOK
  <2>2. Ids \subseteq Index /\ \A i \in Ids : i + 1 \in 1..MaxId + 1
    BY <1>7 DEF Ids, Index
  <2>3. rx_unique_buffer' \in [Index -> {FREE, RESERVED} \cup 1..MaxMsgs]
    BY <1>7, <1>f, <2>2 DEF SendAlloc
  <2>4. next' \in 1..MaxId + 1
    BY <1>7, <1>f, <2>2 DEF SendAlloc
  <2>5. id' \in [Threads -> Index]
    BY <1>7, <1>f, <2>2 DEF SendAlloc
  <2>6. owner' \in [Index -> 0..MaxMsgs]
    BY <1>7, <1>f, <2>2 DEF SendAlloc
  <2>7. QED
    BY <1>7, <2>1, <2>2, <2>3, <2>4, <2>5, <2>6 DEF SendAlloc, TypeOK
<1>8. ASSUME NEW t \in Threads, SendPutId(t) PROVE TypeOK'
  <2>1. pc' \in [Threads -> Labels] /\ ret' \in [Threads -> Results]
    BY <1>8, GotoType, ReturnType DEF SendPutId, TypeOK
  <2>2. id[t] \in Ids
    BY <1>8 DEF SendPutId, LocalsOK
  <2>3. /\ overtaken' \subseteq Threads /\ raced' \in BOOLEAN
        /\ raced => raced'
        /\ ~raced' => ~Racing(t)
    BY <1>8, OvertakeType DEF SendPutId
  <2>4. \/ fifo_unique_ids' = kfifo_put(fifo_unique_ids, IdsSize, id[t])
        \/ Racing(t) /\ fifo_unique_ids' \in Torn(Index)
    BY <1>8 DEF SendPutId
  <2>5. id[t] \in Index
    BY <2>2 DEF Ids, Index
  <2>6. fifo_unique_ids' \in Seq(Index)
    BY <1>d, <2>4, <2>5, PutKeepsType, TornType
  <2>7. ~raced' => Len(fifo_unique_ids') <= IdsSize
    BY <1>d, <2>3, <2>4, <2>5, PutKeepsType
  <2>8. mishap' \in BOOLEAN
    BY <1>8 DEF SendPutId
  <2>9. QED
    BY <1>8, <2>1, <2>3, <2>6, <2>7, <2>8 DEF SendPutId, TypeOK
<1>9. ASSUME NEW t \in Threads, NEW i \in Index, RecvLoad(t, i) PROVE TypeOK'
  <2>1. pc' \in [Threads -> Labels] /\ ret' \in [Threads -> Results]
    BY <1>9, GotoType, ReturnType DEF RecvLoad, TypeOK
  <2>2. id' \in [Threads -> Index]
    BY <1>9 DEF RecvLoad, TypeOK
  <2>3. QED
    BY <1>9, <2>1, <2>2 DEF RecvLoad, TypeOK, driverVars, histVars
<1>10. ASSUME NEW t \in Threads, RecvErase(t) PROVE TypeOK'
  <2>1. pc' \in [Threads -> Labels] /\ ret' \in [Threads -> Results]
    BY <1>10, GotoType, ReturnType DEF RecvErase, TypeOK
  <2>2. rx_unique_buffer' \in [Index -> {FREE, RESERVED} \cup 1..MaxMsgs]
    BY <1>10 DEF RecvErase, TypeOK
  <2>3. mishap' \in BOOLEAN
    BY <1>10 DEF RecvErase
  <2>4. QED
    BY <1>10, <2>1, <2>2, <2>3 DEF RecvErase, TypeOK
<1>11. ASSUME NEW t \in Threads, WriteBegin(t) PROVE TypeOK'
  <2>1. pc' \in [Threads -> Labels]
    BY <1>11, GotoType DEF WriteBegin
  <2>2. QED
    BY <1>11, <2>1 DEF WriteBegin, TypeOK, driverVars, histVars
<1>11a. ASSUME NEW t \in Threads, WriteFirst(t) PROVE TypeOK'
  <2>1. pc' \in [Threads -> Labels] /\ ret' \in [Threads -> Results]
    BY <1>11a, GotoType, ReturnType DEF WriteFirst, TypeOK
  <2>2. /\ overtaken' \subseteq Threads /\ raced' \in BOOLEAN
        /\ raced => raced'
        /\ fifo_send_types' \in Seq(SentMsgTypes)
        /\ ~raced' => Len(fifo_send_types') <= TypesSize
    BY <1>11a, PutTypeType DEF WriteFirst
  <2>3. left' \in [Threads -> 0..MaxBatch]
    BY <1>11a, <1>a DEF WriteFirst
  <2>4. QED
    BY <1>11a, <2>1, <2>2, <2>3 DEF WriteFirst, TypeOK
<1>12. ASSUME NEW t \in Threads, WriteSend(t) PROVE TypeOK'
  <2>1. /\ sent' \in Seq(SentMsgTypes) /\ Len(sent') <= MaxMsgs
          /\ done' \in 0..Len(sent')
          /\ pc' \in [Threads -> Labels] /\ ret' \in [Threads -> Results]
          /\ req' \in [Threads -> 0..MaxMsgs] /\ mishap' \in BOOLEAN
    BY <1>12, SendType DEF WriteSend
  <2>2. QED
    BY <1>12, <2>1 DEF WriteSend, TypeOK, driverVars, histVars
<1>13. ASSUME NEW t \in Threads, WritePut(t) PROVE TypeOK'
  <2>1. pc' \in [Threads -> Labels] /\ ret' \in [Threads -> Results]
    BY <1>13, GotoType, ReturnType DEF WritePut, TypeOK
  <2>2. /\ overtaken' \subseteq Threads /\ raced' \in BOOLEAN
        /\ raced => raced'
        /\ fifo_send_types' \in Seq(SentMsgTypes)
        /\ ~raced' => Len(fifo_send_types') <= TypesSize
    BY <1>13, PutTypeType DEF WritePut
  <2>3. left[t] \in 1..MaxBatch
    BY <1>13, <1>a DEF WritePut, LocalsOK
  <2>4. left' \in [Threads -> 0..MaxBatch]
    BY <1>13, <1>a, <2>3 DEF WritePut
  <2>5. QED
    BY <1>13, <2>1, <2>2, <2>4 DEF WritePut, TypeOK
<1>14. ASSUME NEW t \in Threads, ReadBegin(t) PROVE TypeOK'
  <2>1. pc' \in [Threads -> Labels] /\ ret' \in [Threads -> Results]
    BY <1>14, GotoType, ReturnType DEF ReadBegin, TypeOK
  <2>2. left' \in [Threads -> 0..MaxBatch]
    BY <1>14, <1>a DEF ReadBegin
  <2>3. QED
    BY <1>14, <2>1, <2>2 DEF ReadBegin, TypeOK, driverVars, histVars
<1>15. ASSUME NEW t \in Threads, ReadGet(t) PROVE TypeOK'
  <2>1. pc' \in [Threads -> Labels] /\ ret' \in [Threads -> Results]
    BY <1>15, GotoType, ReturnType DEF ReadGet, TypeOK
  <2>2. /\ overtaken' \subseteq Threads /\ raced' \in BOOLEAN
        /\ raced => raced'
        /\ ~raced' => ~Racing(t)
    BY <1>15, OvertakeType DEF ReadGet
  <2>3. \/ fifo_external_msg' = <<>>
        \/ fifo_external_msg # <<>> /\ fifo_external_msg' = Tail(fifo_external_msg)
        \/ Racing(t) /\ fifo_external_msg' \in Torn(0..Len(sent))
    BY <1>15 DEF ReadGet
  <2>4. \A q \in Seq(0..Len(sent)) : q \in Seq(0..MaxMsgs)
    BY <1>e
  <2>5. fifo_external_msg' \in Seq(0..MaxMsgs)
    <3>1. CASE fifo_external_msg' = <<>>
      BY <3>1
    <3>2. CASE fifo_external_msg # <<>> /\ fifo_external_msg' = Tail(fifo_external_msg)
      BY <1>c, <3>2, TailType
    <3>3. CASE fifo_external_msg' \in Torn(0..Len(sent))
      BY <2>4, <3>3, TornType
    <3>4. QED
      BY <2>3, <3>1, <3>2, <3>3
  <2>6. ~raced' => Len(fifo_external_msg') <= ExternalSize
    <3>1. Len(<<>>) = 0 /\ ExternalSize \in Nat /\ Len(fifo_external_msg) \in Nat
      BY <1>c
    <3>2. CASE fifo_external_msg' = <<>>
      BY <3>1, <3>2
    <3>3. CASE fifo_external_msg # <<>> /\ fifo_external_msg' = Tail(fifo_external_msg)
      <4>1. Len(fifo_external_msg') = Len(fifo_external_msg) - 1
        BY <1>c, <3>3, TailType
      <4>2. QED
        BY <1>c, <2>2, <3>1, <4>1
    <3>4. QED
      BY <2>2, <2>3, <3>2, <3>3
  <2>7. left[t] \in 1..MaxBatch
    BY <1>15, <1>a DEF ReadGet, LocalsOK
  <2>8. left' \in [Threads -> 0..MaxBatch]
    BY <1>15, <1>a, <2>7 DEF ReadGet
  <2>9. mishap' \in BOOLEAN /\ phantom' \in BOOLEAN
    BY <1>15 DEF ReadGet
  <2>10. QED
    BY <1>15, <2>1, <2>2, <2>5, <2>6, <2>8, <2>9 DEF ReadGet, TypeOK
<1>16. ASSUME NEW t \in Threads, StateCall(t) PROVE TypeOK'
  <2>1. pc' \in [Threads -> Labels] /\ ret' \in [Threads -> Results]
    BY <1>16, GotoType, ReturnType DEF StateCall, TypeOK
  <2>2. QED
    BY <1>16, <2>1 DEF StateCall, TypeOK, histVars
<1>17. CASE RemoteSilent
  BY SMTT(40), <1>17 DEF RemoteSilent, TypeOK, driverVars, threadVars, histVars
<1>18. ASSUME NEW a \in AllAnswers, CbMessage(a) PROVE TypeOK'
  <2>1. /\ fifo_send_types' \in Seq(SentMsgTypes)
        /\ ~raced => Len(fifo_send_types') <= TypesSize
    BY <1>18, <1>b, TailType DEF CbMessage
  <2>2. done + 1 \in 0..MaxMsgs
    BY <1>18, <1>e DEF CbMessage
  <2>3. /\ fifo_external_msg' \in Seq(0..MaxMsgs)
        /\ ~raced => Len(fifo_external_msg') <= ExternalSize
    BY <1>18, <1>c, <2>2, PutKeepsType DEF CbMessage
  <2>4. cb' \in 0..MaxMsgs /\ done' \in 0..Len(sent')
    BY <1>18, <1>e, <2>2 DEF CbMessage
  <2>5. mishap' \in BOOLEAN
    BY <1>18 DEF CbMessage
  <2>6. QED
    BY <1>18, <2>1, <2>2, <2>3, <2>4, <2>5 DEF CbMessage, TypeOK, threadVars
<1>19. CASE CbStore
  <2>1. /\ fifo_unique_ids' \in Seq(Index)
        /\ ~raced => Len(fifo_unique_ids') <= IdsSize
    BY SMTT(40), <1>19, <1>d, TailType DEF CbStore
  <2>2. rx_unique_buffer' \in [Index -> {FREE, RESERVED} \cup 1..MaxMsgs]
    BY <1>19, <1>e DEF CbStore, TypeOK
  <2>3. QED
    BY SMTT(40), <1>19, <2>1, <2>2 DEF CbStore, TypeOK, threadVars, histVars
<1>20. CASE Probe
  BY <1>20 DEF Probe, TypeOK, driverVars, threadVars, histVars
<1>21. CASE Remove
  BY SMTT(40), <1>21 DEF Remove, TypeOK, driverVars, threadVars, histVars
<1>22. CASE UNCHANGED vars
  BY <1>22 DEF vars, TypeOK, driverVars, threadVars, histVars
<1>23. QED
  BY <1>1, <1>2, <1>3, <1>4, <1>5, <1>6, <1>7, <1>8, <1>9, <1>10, <1>11,
     <1>12, <1>13, <1>14, <1>15, <1>16, <1>17, <1>18, <1>19, <1>20, <1>21,
     <1>22, <1>11a DEF Next, ThreadStep

\* Loop counters and ids are in range where a handler uses them.
LEMMA LocalsStep == TypeOK /\ LocalsOK /\ [Next]_vars => LocalsOK'
<1> SUFFICES ASSUME TypeOK, LocalsOK, [Next]_vars PROVE LocalsOK'
  OBVIOUS
<1>a. /\ left \in [Threads -> 0..MaxBatch] /\ pc \in [Threads -> Labels]
      /\ id \in [Threads -> Index]
  BY DEF TypeOK
<1>1. CASE \E t \in Threads : \/ PingCheck(t) \/ PingPut(t) \/ SendBegin(t)
                              \/ SendPut(t) \/ SendPutId(t) \/ RecvErase(t)
                              \/ StateCall(t)
  BY <1>1, <1>a DEF PingCheck, PingPut, SendBegin, SendPut, SendPutId,
     RecvErase, StateCall, Goto, Return, LocalsOK
<1>2. CASE \E t \in Threads : PingSend(t) \/ SendSend(t) \/ WriteSend(t)
  BY <1>2, <1>a DEF PingSend, SendSend, WriteSend, rpmsg_send, Goto, Return,
     LocalsOK
<1>3. CASE \E t \in Threads : SendAlloc(t)
  BY <1>3, <1>a DEF SendAlloc, Goto, Return, LocalsOK
<1>4. CASE \E t \in Threads, i \in Index : RecvLoad(t, i)
  BY <1>4, <1>a DEF RecvLoad, Goto, Return, LocalsOK
<1>5. CASE \E t \in Threads : WriteBegin(t) \/ WriteFirst(t) \/ ReadBegin(t)
  BY <1>5, <1>a DEF WriteBegin, WriteFirst, ReadBegin, Goto, Return, LocalsOK
<1>6. CASE \E t \in Threads : WritePut(t) \/ ReadGet(t)
  BY <1>6, <1>a DEF WritePut, ReadGet, Goto, Return, LocalsOK
<1>7. CASE \/ RemoteSilent \/ (\E a \in AllAnswers : CbMessage(a)) \/ CbStore
           \/ Probe \/ Remove \/ UNCHANGED vars
  BY <1>7 DEF RemoteSilent, CbMessage, CbStore, Probe, Remove, vars,
     threadVars, LocalsOK
<1>8. QED
  BY <1>1, <1>2, <1>3, <1>4, <1>5, <1>6, <1>7 DEF Next, ThreadStep

\* The driver starts well typed.
LEMMA TypeInit == Init => TypeOK /\ LocalsOK
  BY SMTT(40), ConstantTypes DEF Init, TypeOK, LocalsOK, Index, FREE, RESERVED

\* TypeOK is an invariant of the driver; LocalsOK is what makes it inductive.
THEOREM TypeCorrect == Spec => []TypeOK
<1>1. TypeOK /\ LocalsOK /\ [Next]_vars => (TypeOK /\ LocalsOK)'
  BY TypeStep, LocalsStep
<1>2. QED
  BY <1>1, TypeInit, PTL DEF Spec

-----------------------------------------------------------------------------
(***************************************************************************)
(* The matching of requests, kinds and ids until a mishap.                 *)
(***************************************************************************)

\* The control part of MatchInv: one thread is booking, its request is the
\* newest, and the answer being filed is the last one taken.
Control ==
    /\ OneBooking /\ NewestUnanswered
    /\ cb # 0 => cb = done

\* The data part: the queues mirror the unanswered requests.
Mirror ==
    /\ cb # 0 => sent[cb] = SENT_MSG_EXTERNAL_UNIQUE
    /\ TypesMirrorLog /\ IdsMirrorLog /\ AllocatedReserved /\ FiledRight

\* MatchInv consists of these two parts and the absence of write().
LEMMA MatchInvParts ==
    MatchInv <=> (~mishap => Control /\ NoWrites /\ Mirror)
  BY DEF MatchInv, Control, Mirror, FilingLast

\* A mishap is never forgotten.
LEMMA MishapStays == TypeOK /\ [Next]_vars /\ mishap => mishap'
  BY ZenonT(40) DEF Next, ThreadStep, PingCheck, PingSend, PingPut, SendBegin, SendSend,
     SendPut, SendAlloc, SendPutId, RecvLoad, RecvErase, WriteBegin, WriteFirst,
     WriteSend, WritePut, ReadBegin, ReadGet, StateCall, RemoteSilent, CbMessage,
     CbStore, Probe, Remove, rpmsg_send, histVars, vars, TypeOK

\* The steps that are no mishap: write() has not sent anything, and the remote
\* leaves nothing unanswered.
LEMMA CleanSteps ==
    ASSUME Control, Next, ~mishap'
    PROVE  \/ \E t \in Threads :
                \/ PingCheck(t) \/ PingSend(t) \/ PingPut(t) \/ SendBegin(t)
                \/ SendSend(t) \/ SendPut(t) \/ SendAlloc(t) \/ SendPutId(t)
                \/ \E i \in Index : RecvLoad(t, i)
                \/ RecvErase(t) \/ WriteBegin(t) \/ ReadBegin(t) \/ ReadGet(t)
                \/ StateCall(t)
           \/ (\E a \in AllAnswers : CbMessage(a)) \/ CbStore \/ Probe \/ Remove
<1>1. ~RemoteSilent
  BY Zenon DEF RemoteSilent
<1>2. \A t \in Threads : ~WriteFirst(t)
  BY Zenon DEF WriteFirst
<1>3. \A t \in Threads : ~WriteSend(t) /\ ~WritePut(t)
  BY Zenon DEF Control, OneBooking, WriteSend, WritePut
<1>4. QED
  BY Zenon, <1>1, <1>2, <1>3 DEF Next, ThreadStep

\* A step of a thread outside its booking leaves the control part alone.
LEMMA QuietControl ==
    ASSUME Control, UNCHANGED <<sent, done, cb, req>>, NEW t \in Threads,
           \A u \in Threads : u # t => pc'[u] = pc[u],
           pc'[t] \notin BookingLabels \cup {"write_send", "write_put"}
    PROVE  Control'
<1>1. \A u \in Threads : pc'[u] \in BookingLabels => pc[u] \in BookingLabels /\ u # t
  OBVIOUS
<1>2. OneBooking'
  BY <1>1 DEF Control, OneBooking
<1>3. NewestUnanswered'
  BY <1>1 DEF Control, NewestUnanswered, BookingLabels
<1>4. QED
  BY <1>2, <1>3 DEF Control

\* A thread that goes on with its booking leaves the control part alone.
LEMMA BookingControl ==
    ASSUME Control, UNCHANGED <<sent, done, cb, req>>, NEW t \in Threads,
           \A u \in Threads : u # t => pc'[u] = pc[u],
           \/ pc[t] = "send_put" /\ pc'[t] = "send_alloc"
           \/ pc[t] = "send_alloc" /\ pc'[t] = "send_id"
    PROVE  Control'
<1>1. \A u \in Threads : pc'[u] \in BookingLabels => pc[u] \in BookingLabels
  BY DEF BookingLabels
<1>2. OneBooking'
  BY <1>1 DEF Control, OneBooking
<1>3. NewestUnanswered'
  BY <1>1 DEF Control, NewestUnanswered, BookingLabels
<1>4. QED
  BY <1>2, <1>3 DEF Control

\* A thread that sends while no other is booking becomes the one that is.
LEMMA SendControl ==
    ASSUME TypeOK, Control, UNCHANGED <<done, cb>>, NEW t \in Threads,
           NEW type \in {SENT_MSG_INTERNAL, SENT_MSG_EXTERNAL_UNIQUE},
           \A u \in Threads : pc[u] \notin BookingLabels,
           sent' = Append(sent, type),
           req' = [req EXCEPT ![t] = Len(sent) + 1],
           pc' = [pc EXCEPT ![t] = IF type = SENT_MSG_INTERNAL THEN "ping_put"
                                                               ELSE "send_put"]
    PROVE  Control'
<1>a. pc \in [Threads -> Labels] /\ req \in [Threads -> 0..MaxMsgs]
  BY DEF TypeOK
<1>b. sent \in Seq(SentMsgTypes) /\ Len(sent) \in Nat /\ done \in 0..Len(sent)
  BY DEF TypeOK
<1>1. Len(sent') = Len(sent) + 1 /\ sent'[Len(sent')] = type
  BY <1>b, ConstantTypes
<1>2. \A u \in Threads : u # t => pc[u] \notin BookingLabels /\ pc'[u] = pc[u]
  BY <1>a
<1>3. req'[t] = Len(sent')
  BY <1>1, <1>a
<1>4. \/ pc'[t] = "ping_put" /\ type = SENT_MSG_INTERNAL
      \/ pc'[t] = "send_put" /\ type = SENT_MSG_EXTERNAL_UNIQUE
  BY <1>a
<1>5. OneBooking'
  BY <1>2, <1>4 DEF Control, OneBooking
<1>6. done < Len(sent')
  BY <1>1, <1>b
<1>7. NewestUnanswered'
  BY <1>1, <1>2, <1>3, <1>4, <1>6 DEF NewestUnanswered, BookingLabels
<1>8. QED
  BY <1>5, <1>7 DEF Control

\* Every step that is no mishap preserves the control part.
LEMMA ControlStep ==
    ASSUME TypeOK, Control, Next, ~mishap'
    PROVE  Control'
<1>a. pc \in [Threads -> Labels]
  BY DEF TypeOK
<1>b. Len(sent) \in Nat /\ done \in 0..Len(sent) /\ cb \in 0..MaxMsgs
  BY DEF TypeOK
<1>1. ASSUME NEW t \in Threads,
             \/ PingCheck(t) \/ PingPut(t) \/ SendBegin(t) \/ SendPutId(t)
             \/ (\E i \in Index : RecvLoad(t, i)) \/ RecvErase(t)
             \/ WriteBegin(t) \/ ReadBegin(t) \/ ReadGet(t) \/ StateCall(t)
      PROVE  Control'
  <2>1. UNCHANGED <<sent, done, cb, req>>
    BY Zenon, <1>1 DEF PingCheck, PingPut, SendBegin, SendPutId, RecvLoad, RecvErase,
       WriteBegin, ReadBegin, ReadGet, StateCall
  <2>2. /\ pc'[t] \in {"idle", "oops", "ping_send", "send_send", "recv_erase",
                       "write_first", "read_get"}
        /\ \A u \in Threads : u # t => pc'[u] = pc[u]
    BY <1>1, <1>a DEF PingCheck, PingPut, SendBegin, SendPutId, RecvLoad, RecvErase,
       WriteBegin, ReadBegin, ReadGet, StateCall, Goto, Return
  <2>3. QED
    BY <2>1, <2>2, QuietControl DEF BookingLabels
<1>2. ASSUME NEW t \in Threads, PingSend(t) PROVE Control'
  <2>1. UNCHANGED <<done, cb>>
    BY <1>2 DEF PingSend
  <2>2. CASE /\ sent' = Append(sent, SENT_MSG_INTERNAL)
             /\ req' = [req EXCEPT ![t] = Len(sent) + 1] /\ Goto(t, "ping_put")
             /\ mishap' = (mishap \/ \E u \in Threads : pc[u] \in BookingLabels)
    BY <2>1, <2>2, SendControl DEF Goto
  <2>3. CASE UNCHANGED <<sent, req>> /\ (Goto(t, "idle") \/ Goto(t, "oops"))
    BY <2>1, <2>3, <1>a, QuietControl DEF Goto, BookingLabels
  <2>4. QED
    BY Zenon, <1>2, <2>2, <2>3 DEF PingSend, rpmsg_send, Return
<1>3. ASSUME NEW t \in Threads, SendSend(t) PROVE Control'
  <2>1. UNCHANGED <<done, cb>>
    BY <1>3 DEF SendSend
  <2>2. CASE /\ sent' = Append(sent, SENT_MSG_EXTERNAL_UNIQUE)
             /\ req' = [req EXCEPT ![t] = Len(sent) + 1] /\ Goto(t, "send_put")
             /\ mishap' = (mishap \/ \E u \in Threads : pc[u] \in BookingLabels)
    <3>1. SENT_MSG_EXTERNAL_UNIQUE # SENT_MSG_INTERNAL
      BY DEF SENT_MSG_EXTERNAL_UNIQUE, SENT_MSG_INTERNAL
    <3>2. QED
      BY <2>1, <2>2, <3>1, SendControl DEF Goto
  <2>3. CASE UNCHANGED <<sent, req>> /\ (Goto(t, "idle") \/ Goto(t, "oops"))
    BY <2>1, <2>3, <1>a, QuietControl DEF Goto, BookingLabels
  <2>4. QED
    BY Zenon, <1>3, <2>2, <2>3 DEF SendSend, rpmsg_send, Return
<1>4. ASSUME NEW t \in Threads, SendPut(t) PROVE Control'
  <2>1. UNCHANGED <<sent, done, cb, req>> /\ pc[t] = "send_put"
    BY <1>4 DEF SendPut
  <2>2. Goto(t, "idle") \/ Goto(t, "send_alloc")
    BY Zenon, <1>4 DEF SendPut, Return
  <2>3. /\ pc'[t] \in {"idle", "send_alloc"}
        /\ \A u \in Threads : u # t => pc'[u] = pc[u]
    BY <2>2, <1>a DEF Goto
  <2>4. QED
    BY <2>1, <2>3, QuietControl, BookingControl DEF BookingLabels
<1>5. ASSUME NEW t \in Threads, SendAlloc(t) PROVE Control'
  <2>1. UNCHANGED <<sent, done, cb, req>> /\ pc[t] = "send_alloc"
    BY <1>5 DEF SendAlloc
  <2>2. Goto(t, "idle") \/ Goto(t, "send_id")
    BY Zenon, <1>5 DEF SendAlloc, Return
  <2>3. /\ pc'[t] \in {"idle", "send_id"}
        /\ \A u \in Threads : u # t => pc'[u] = pc[u]
    BY <2>2, <1>a DEF Goto
  <2>4. QED
    BY <2>1, <2>3, QuietControl, BookingControl DEF BookingLabels
<1>6. ASSUME NEW a \in AllAnswers, CbMessage(a) PROVE Control'
  <2>1. /\ UNCHANGED <<sent, pc, req>> /\ done' = done + 1 /\ done < Len(sent)
        /\ cb = 0 /\ cb' \in {0, done + 1}
    BY <1>6 DEF CbMessage, threadVars
  <2>2. \A t \in Threads : ~Booking(t, done + 1)
    BY Zenon, <1>6 DEF CbMessage
  <2>3. \A t \in Threads : pc[t] \in BookingLabels => done + 1 < Len(sent)
    BY <2>1, <2>2, <1>b DEF Booking, Control, NewestUnanswered
  <2>4. NewestUnanswered'
    BY <2>1, <2>3 DEF Control, NewestUnanswered
  <2>5. OneBooking' /\ (cb' # 0 => cb' = done')
    BY <2>1 DEF Control, OneBooking
  <2>6. QED
    BY <2>4, <2>5 DEF Control
<1>7. CASE CbStore \/ Probe
  BY <1>7 DEF CbStore, Probe, threadVars, Control, OneBooking, NewestUnanswered
<1>8. CASE Remove
  <2>1. UNCHANGED <<sent, pc, req, cb>> /\ cb = 0 /\ done' = Len(sent)
    BY <1>8 DEF Remove, threadVars
  <2>2. ~(done < Len(sent))
    BY Zenon, <1>8 DEF Remove
  <2>3. done' = done
    BY <2>1, <2>2, <1>b
  <2>4. QED
    BY <2>1, <2>3 DEF Control, OneBooking, NewestUnanswered
<1>9. QED
  BY Zenon, <1>1, <1>2, <1>3, <1>4, <1>5, <1>6, <1>7, <1>8, CleanSteps

\* A step that only moves threads between labels outside the bookkeeping
\* leaves the data part alone.
LEMMA QuietStep ==
    ASSUME Mirror,
           UNCHANGED <<sent, done, fifo_send_types, fifo_external_msg,
                       fifo_unique_ids, rx_unique_buffer, req, cb, owner>>,
           \A t \in Threads :
              \/ pc'[t] = pc[t] /\ id'[t] = id[t]
              \/ {pc[t], pc'[t]} \cap
                   {"ping_put", "send_put", "send_alloc", "send_id"} = {}
    PROVE  Mirror'
<1>1. TypeUnqueued' <=> TypeUnqueued
  BY DEF TypeUnqueued
<1>2. \A n : IdUnqueued(n)' <=> IdUnqueued(n)
  BY DEF IdUnqueued
<1>3. TypesMirrorLog'
  BY <1>1 DEF Mirror, TypesMirrorLog
<1>4. IdsMirrorLog'
  BY <1>2 DEF Mirror, IdsMirrorLog, Unfiled
<1>5. AllocatedReserved' /\ FiledRight'
  BY DEF Mirror, AllocatedReserved, FiledRight
<1>6. QED
  BY <1>3, <1>4, <1>5 DEF Mirror

\* A request that enters the log is the one whose kind, and for SEND_MSG whose
\* id, is not queued yet.
LEMMA SendMirror ==
    ASSUME TypeOK, Control, Mirror, NEW t \in Threads,
           NEW type \in {SENT_MSG_INTERNAL, SENT_MSG_EXTERNAL_UNIQUE},
           \A u \in Threads : pc[u] \notin BookingLabels,
           sent' = Append(sent, type),
           req' = [req EXCEPT ![t] = Len(sent) + 1],
           Goto(t, IF type = SENT_MSG_INTERNAL THEN "ping_put" ELSE "send_put"),
           UNCHANGED <<done, fifo_send_types, fifo_external_msg,
                       fifo_unique_ids, rx_unique_buffer, id, cb, owner>>
    PROVE  Mirror'
<1>a. /\ pc \in [Threads -> Labels] /\ req \in [Threads -> 0..MaxMsgs]
      /\ owner \in [Index -> 0..MaxMsgs] /\ cb \in 0..MaxMsgs
  BY DEF TypeOK
<1>b. /\ sent \in Seq(SentMsgTypes) /\ Len(sent) \in Nat /\ done \in 0..Len(sent)
      /\ Len(fifo_send_types) \in Nat /\ Len(fifo_unique_ids) \in Nat
  BY SMTT(40) DEF TypeOK
<1>1. \A u \in Threads : u # t => pc[u] \notin BookingLabels /\ pc'[u] = pc[u]
  BY <1>a DEF Goto
<1>2. /\ Len(sent') = Len(sent) + 1 /\ sent'[Len(sent) + 1] = type
      /\ \A n \in 1..Len(sent) : sent'[n] = sent[n]
  BY <1>b, ConstantTypes
<1>3. ~TypeUnqueued /\ TypeUnqueued'
  BY <1>1, <1>a DEF TypeUnqueued, Goto, BookingLabels
<1>4. TypesMirrorLog'
  <2>1. Len(fifo_send_types) = Len(sent) - done
    BY <1>3, <1>b DEF Mirror, TypesMirrorLog
  <2>2. \A k \in 1..Len(fifo_send_types) :
          done + k \in 1..Len(sent) /\ fifo_send_types[k] = sent[done + k]
    <3>1. \A k \in 1..Len(fifo_send_types) : done + k \in 1..Len(sent)
      BY <2>1, <1>b
    <3>2. \A k \in 1..Len(fifo_send_types) : fifo_send_types[k] = sent[done + k]
      BY Zenon DEF Mirror, TypesMirrorLog
    <3>3. QED
      BY <3>1, <3>2
  <2>3. QED
    BY <2>1, <2>2, <1>2, <1>3, <1>b DEF TypesMirrorLog
<1>5. \A n \in 1..Len(sent) : ~IdUnqueued(n) /\ ~IdUnqueued(n)'
  <2>1. \A u \in Threads : pc[u] \notin {"send_put", "send_alloc", "send_id"}
    BY DEF BookingLabels
  <2>2. req'[t] = Len(sent) + 1
    BY <1>a
  <2>3. \A u \in Threads : pc'[u] \in {"send_put", "send_alloc", "send_id"} => u = t
    BY <1>1 DEF BookingLabels
  <2>4. \A n \in 1..Len(sent) : n # Len(sent) + 1
    BY <1>b
  <2>5. QED
    BY <2>1, <2>2, <2>3, <2>4 DEF IdUnqueued
<1>5a. type = SENT_MSG_EXTERNAL_UNIQUE =>
         \A n : n = Len(sent) + 1 => IdUnqueued(n)'
  <2>1. type = SENT_MSG_EXTERNAL_UNIQUE => pc'[t] = "send_put"
    BY <1>a DEF Goto, SENT_MSG_INTERNAL, SENT_MSG_EXTERNAL_UNIQUE
  <2>2. req'[t] = Len(sent) + 1
    BY <1>a
  <2>3. QED
    BY <2>1, <2>2 DEF IdUnqueued
<1>6. IdsMirrorLog'
  <2>1. \A j \in 1..Len(fifo_unique_ids) : owner[fifo_unique_ids[j]] \in 1..Len(sent)
    BY DEF Mirror, IdsMirrorLog
  <2>2. \A n \in 1..Len(sent) : Unfiled(n)' <=> Unfiled(n)
    BY DEF Unfiled
  <2>3. \A n \in 1..Len(sent') : n \in 1..Len(sent) \/ n = Len(sent) + 1
    BY <1>2, <1>b
  <2>4. \A n \in 1..Len(sent) : n \in 1..Len(sent')
    BY <1>2, <1>b
  <2>5. \A j \in 1..Len(fifo_unique_ids) :
          LET n == owner[fifo_unique_ids[j]] IN
            /\ fifo_unique_ids[j] \in Ids
            /\ n \in 1..Len(sent') /\ sent'[n] = SENT_MSG_EXTERNAL_UNIQUE
            /\ Unfiled(n)' /\ ~IdUnqueued(n)'
            /\ rx_unique_buffer[fifo_unique_ids[j]] = RESERVED
    BY <2>1, <2>2, <2>4, <1>2, <1>5 DEF Mirror, IdsMirrorLog
  <2>6. \A n \in 1..Len(sent') :
          Unfiled(n)' /\ sent'[n] = SENT_MSG_EXTERNAL_UNIQUE /\ ~IdUnqueued(n)' =>
            \E j \in 1..Len(fifo_unique_ids) : owner[fifo_unique_ids[j]] = n
    BY <2>2, <2>3, <1>2, <1>5, <1>5a DEF Mirror, IdsMirrorLog
  <2>7. QED
    BY <2>5, <2>6 DEF Mirror, IdsMirrorLog
<1>7. AllocatedReserved'
  BY <1>1, <1>a DEF AllocatedReserved, Goto, BookingLabels
<1>8. FiledRight'
  <2>1. \A i \in Ids : rx_unique_buffer[i] > 0 => owner[i] \in 1..Len(sent)
    BY SMTT(40), <1>a, <1>b DEF Mirror, FiledRight, Ids, Index
  <2>2. QED
    BY <2>1, <1>2, <1>b DEF Mirror, FiledRight
<1>9. cb # 0 => sent'[cb] = SENT_MSG_EXTERNAL_UNIQUE
  BY <1>2, <1>a, <1>b DEF Mirror, Control
<1>10. QED
  BY <1>4, <1>6, <1>7, <1>8, <1>9 DEF Mirror

\* Queueing the kind of the newest request completes the mirror of the log.
LEMMA PutMirror ==
    ASSUME TypeOK, Control, Mirror, NEW t \in Threads,
           NEW type \in {SENT_MSG_INTERNAL, SENT_MSG_EXTERNAL_UNIQUE},
           pc[t] = (IF type = SENT_MSG_INTERNAL THEN "ping_put" ELSE "send_put"),
           Len(fifo_send_types) < TypesSize,
           PutType(t, type), ~Racing(t),
           Goto(t, IF type = SENT_MSG_INTERNAL THEN "idle" ELSE "send_alloc"),
           UNCHANGED <<sent, done, fifo_external_msg, fifo_unique_ids,
                       rx_unique_buffer, req, id, cb, owner>>
    PROVE  Mirror'
<1>a. pc \in [Threads -> Labels]
  BY DEF TypeOK
<1>b. /\ sent \in Seq(SentMsgTypes) /\ Len(sent) \in Nat /\ done \in 0..Len(sent)
      /\ fifo_send_types \in Seq(SentMsgTypes) /\ Len(fifo_send_types) \in Nat
  BY SMTT(40) DEF TypeOK
<1>c. SENT_MSG_INTERNAL # SENT_MSG_EXTERNAL_UNIQUE
  BY DEF SENT_MSG_INTERNAL, SENT_MSG_EXTERNAL_UNIQUE
<1>d. pc[t] \in {"ping_put", "send_put"} /\ pc'[t] \in {"idle", "send_alloc"}
  BY <1>a, <1>c DEF Goto
<1>1. \A u \in Threads : u # t => pc[u] \notin BookingLabels /\ pc'[u] = pc[u]
  BY <1>a, <1>d DEF Goto, Control, OneBooking, BookingLabels
<1>2. /\ Len(fifo_send_types') = Len(fifo_send_types) + 1
      /\ fifo_send_types'[Len(fifo_send_types) + 1] = type
      /\ \A k \in 1..Len(fifo_send_types) : fifo_send_types'[k] = fifo_send_types[k]
  <2>1. fifo_send_types' = kfifo_put(fifo_send_types, TypesSize, type)
    BY Zenon DEF PutType
  <2>2. fifo_send_types' = Append(fifo_send_types, type)
    BY <2>1 DEF kfifo_put
  <2>3. QED
    BY <1>b, <2>2, ConstantTypes
<1>3. TypeUnqueued /\ ~TypeUnqueued'
  BY <1>1, <1>d DEF TypeUnqueued, BookingLabels
<1>4. TypesMirrorLog'
  <2>1. Len(fifo_send_types) + 1 = Len(sent) - done
    BY <1>3, <1>b DEF Mirror, TypesMirrorLog
  <2>2. sent[Len(sent)] = type
    BY <1>c DEF Control, NewestUnanswered
  <2>3. \A k \in 1..Len(fifo_send_types') :
          k \in 1..Len(fifo_send_types) \/ (k = Len(fifo_send_types) + 1 /\ done + k = Len(sent))
    BY <2>1, <1>2, <1>b
  <2>4. \A k \in 1..Len(fifo_send_types') : fifo_send_types'[k] = sent[done + k]
    BY <2>2, <2>3, <1>2 DEF Mirror, TypesMirrorLog
  <2>5. QED
    BY <2>1, <2>4, <1>2, <1>3, <1>b DEF TypesMirrorLog
<1>5. \A n : IdUnqueued(n)' <=> IdUnqueued(n)
  BY <1>1, <1>c, <1>a DEF IdUnqueued, Goto, BookingLabels
<1>6. IdsMirrorLog'
  BY <1>5 DEF Mirror, IdsMirrorLog, Unfiled
<1>7. AllocatedReserved' /\ FiledRight'
  BY <1>1, <1>d DEF Mirror, AllocatedReserved, FiledRight, BookingLabels
<1>8. QED
  BY <1>4, <1>6, <1>7 DEF Mirror

\* A freshly allocated id disturbs neither the queued ids nor the messages.
LEMMA AllocMirror ==
    ASSUME TypeOK, Control, Mirror, NEW t \in Threads, SendAlloc(t), ~mishap'
    PROVE  Mirror'
<1>a. /\ pc \in [Threads -> Labels] /\ req \in [Threads -> 0..MaxMsgs]
      /\ id \in [Threads -> Index] /\ owner \in [Index -> 0..MaxMsgs]
      /\ rx_unique_buffer \in [Index -> {FREE, RESERVED} \cup 1..MaxMsgs]
  BY DEF TypeOK
<1>b. fifo_unique_ids \in Seq(Index) /\ Len(fifo_unique_ids) \in Nat
  BY DEF TypeOK
<1>c. Ids \subseteq Index /\ 0 \notin Ids
  BY DEF Ids, Index
<1>d. FREE # RESERVED /\ ~(RESERVED > 0) /\ ~(FREE > 0)
  BY DEF FREE, RESERVED
<1>1. PICK i \in Ids :
        /\ rx_unique_buffer[i] = FREE
        /\ rx_unique_buffer' = [rx_unique_buffer EXCEPT ![i] = RESERVED]
        /\ id' = [id EXCEPT ![t] = i]
        /\ owner' = [owner EXCEPT ![i] = req[t]]
        /\ Goto(t, "send_id")
  BY DEF SendAlloc, xa_alloc_cyclic, FreeIds
<1>2. /\ pc[t] = "send_alloc"
      /\ UNCHANGED <<sent, done, fifo_send_types, fifo_external_msg,
                     fifo_unique_ids, req, cb>>
  BY DEF SendAlloc
<1>3. \A u \in Threads : u # t => pc[u] \notin BookingLabels /\ pc'[u] = pc[u]
  BY <1>1, <1>2, <1>a DEF Goto, Control, OneBooking, BookingLabels
<1>4. pc'[t] = "send_id" /\ id'[t] = i
  BY <1>1, <1>a DEF Goto
<1>5. TypeUnqueued' <=> TypeUnqueued
  BY <1>2, <1>3, <1>4 DEF TypeUnqueued, BookingLabels
<1>6. \A n : IdUnqueued(n)' <=> IdUnqueued(n)
  BY <1>2, <1>3, <1>4 DEF IdUnqueued, BookingLabels
<1>7. \A j \in 1..Len(fifo_unique_ids) :
        /\ fifo_unique_ids[j] \in Ids /\ fifo_unique_ids[j] # i
        /\ owner'[fifo_unique_ids[j]] = owner[fifo_unique_ids[j]]
        /\ rx_unique_buffer'[fifo_unique_ids[j]] = rx_unique_buffer[fifo_unique_ids[j]]
  <2>1. \A j \in 1..Len(fifo_unique_ids) :
          fifo_unique_ids[j] \in Ids /\ rx_unique_buffer[fifo_unique_ids[j]] = RESERVED
    BY <1>b DEF Mirror, IdsMirrorLog
  <2>2. QED
    BY <2>1, <1>1, <1>a, <1>c, <1>d
<1>8. TypesMirrorLog'
  BY <1>2, <1>5 DEF Mirror, TypesMirrorLog
<1>9. IdsMirrorLog'
  <2>1. \A n : Unfiled(n)' <=> Unfiled(n)
    BY <1>2 DEF Unfiled
  <2>2. QED
    BY SMTT(40), <2>1, <1>2, <1>6, <1>7 DEF Mirror, IdsMirrorLog
<1>10. AllocatedReserved'
  BY <1>1, <1>2, <1>3, <1>4, <1>a, <1>c DEF AllocatedReserved, BookingLabels
<1>11. FiledRight'
  <2>1. \A k \in Ids : k # i => rx_unique_buffer'[k] = rx_unique_buffer[k]
                                /\ owner'[k] = owner[k]
    BY <1>1, <1>a, <1>c
  <2>2. rx_unique_buffer'[i] = RESERVED /\ rx_unique_buffer'[0] = rx_unique_buffer[0]
    BY <1>1, <1>a, <1>c DEF Index
  <2>3. QED
    BY <2>1, <2>2, <1>2, <1>d DEF Mirror, FiledRight
<1>12. QED
  BY <1>2, <1>8, <1>9, <1>10, <1>11 DEF Mirror

\* Queueing the id of the newest request appends the largest request number.
LEMMA PutIdMirror ==
    ASSUME TypeOK, Control, Mirror, NEW t \in Threads, SendPutId(t),
           Len(fifo_unique_ids) < IdsSize, ~Racing(t)
    PROVE  Mirror'
<1>a. /\ pc \in [Threads -> Labels] /\ req \in [Threads -> 0..MaxMsgs]
      /\ id \in [Threads -> Index] /\ owner \in [Index -> 0..MaxMsgs]
  BY DEF TypeOK
<1>b. /\ fifo_unique_ids \in Seq(Index) /\ Len(fifo_unique_ids) \in Nat
      /\ Len(sent) \in Nat /\ done \in 0..Len(sent)
  BY SMTT(40) DEF TypeOK
<1>1. /\ pc[t] = "send_id" /\ Goto(t, "idle")
      /\ UNCHANGED <<sent, done, fifo_send_types, fifo_external_msg,
                     rx_unique_buffer, req, id, cb, owner>>
  BY DEF SendPutId, Return
<1>2. \A u \in Threads : u # t => pc[u] \notin BookingLabels /\ pc'[u] = pc[u]
  BY <1>1, <1>a DEF Goto, Control, OneBooking, BookingLabels
<1>3. pc'[t] = "idle"
  BY <1>1, <1>a DEF Goto
<1>4. /\ id[t] \in Ids /\ rx_unique_buffer[id[t]] = RESERVED
      /\ owner[id[t]] = Len(sent) /\ req[t] = Len(sent) /\ done < Len(sent)
      /\ sent[Len(sent)] = SENT_MSG_EXTERNAL_UNIQUE
  BY <1>1 DEF Mirror, AllocatedReserved, Control, NewestUnanswered, BookingLabels
<1>5. /\ Len(fifo_unique_ids') = Len(fifo_unique_ids) + 1
      /\ fifo_unique_ids'[Len(fifo_unique_ids) + 1] = id[t]
      /\ \A j \in 1..Len(fifo_unique_ids) : fifo_unique_ids'[j] = fifo_unique_ids[j]
  <2>1. fifo_unique_ids' = Append(fifo_unique_ids, id[t])
    BY DEF SendPutId, kfifo_put
  <2>2. QED
    BY <2>1, <1>4, <1>b DEF Ids, Index
<1>6. ~TypeUnqueued /\ ~TypeUnqueued'
  BY <1>1, <1>2, <1>3 DEF TypeUnqueued, BookingLabels
<1>7. TypesMirrorLog'
  BY <1>1, <1>6 DEF Mirror, TypesMirrorLog
<1>8. /\ \A n : ~IdUnqueued(n)'
      /\ \A n : IdUnqueued(n) <=> n = Len(sent)
  BY <1>1, <1>2, <1>3, <1>4 DEF IdUnqueued, BookingLabels
<1>9. \A n : Unfiled(n)' <=> Unfiled(n)
  BY <1>1 DEF Unfiled
<1>10. \A j \in 1..Len(fifo_unique_ids') :
         j \in 1..Len(fifo_unique_ids) \/ j = Len(fifo_unique_ids) + 1
  BY <1>5, <1>b
<1>11. \A j \in 1..Len(fifo_unique_ids) :
         owner[fifo_unique_ids[j]] \in 1..Len(sent)
         /\ owner[fifo_unique_ids[j]] # Len(sent)
  BY <1>8 DEF Mirror, IdsMirrorLog
<1>12. IdsMirrorLog'
  <2>1. ASSUME NEW j \in 1..Len(fifo_unique_ids')
        PROVE  /\ fifo_unique_ids'[j] \in Ids
               /\ owner[fifo_unique_ids'[j]] \in 1..Len(sent)
               /\ sent[owner[fifo_unique_ids'[j]]] = SENT_MSG_EXTERNAL_UNIQUE
               /\ Unfiled(owner[fifo_unique_ids'[j]])
               /\ rx_unique_buffer[fifo_unique_ids'[j]] = RESERVED
    <3>1. CASE j \in 1..Len(fifo_unique_ids)
      BY <3>1, <1>5 DEF Mirror, IdsMirrorLog
    <3>2. CASE j = Len(fifo_unique_ids) + 1
      BY <3>2, <1>4, <1>5, <1>b DEF Unfiled
    <3>3. QED
      BY <3>1, <3>2, <1>10
  <2>2. ASSUME NEW j \in 1..Len(fifo_unique_ids'),
               NEW k \in 1..Len(fifo_unique_ids'), j < k
        PROVE  owner[fifo_unique_ids'[j]] < owner[fifo_unique_ids'[k]]
    <3>1. j \in 1..Len(fifo_unique_ids)
      BY <2>2, <1>5, <1>b
    <3>2. CASE k \in 1..Len(fifo_unique_ids)
      BY <2>2, <3>1, <3>2, <1>5 DEF Mirror, IdsMirrorLog
    <3>3. CASE k = Len(fifo_unique_ids) + 1
      BY <3>1, <3>3, <1>4, <1>5, <1>11, <1>b
    <3>4. QED
      BY <3>2, <3>3, <1>10
  <2>3. ASSUME NEW n \in 1..Len(sent), Unfiled(n),
               sent[n] = SENT_MSG_EXTERNAL_UNIQUE
        PROVE  \E j \in 1..Len(fifo_unique_ids') : owner[fifo_unique_ids'[j]] = n
    <3>1. CASE n = Len(sent)
      BY <3>1, <1>4, <1>5, <1>b
    <3>2. CASE n # Len(sent)
      <4>1. PICK j \in 1..Len(fifo_unique_ids) : owner[fifo_unique_ids[j]] = n
        BY <2>3, <3>2, <1>8 DEF Mirror, IdsMirrorLog
      <4>2. QED
        BY <4>1, <1>5, <1>b
    <3>3. QED
      BY <3>1, <3>2
  <2>4. QED
    <3>1. UNCHANGED <<sent, owner, rx_unique_buffer, done, cb>>
      BY <1>1
    <3>2. QED
      BY <2>1, <2>2, <2>3, <3>1, <1>8, <1>9 DEF IdsMirrorLog, Unfiled
<1>13. AllocatedReserved' /\ FiledRight'
  BY <1>1, <1>2, <1>3 DEF Mirror, AllocatedReserved, FiledRight, BookingLabels
<1>14. QED
  BY <1>1, <1>7, <1>12, <1>13 DEF Mirror

\* Taking a message out does not touch the ids still waiting for one.
LEMMA EraseMirror ==
    ASSUME TypeOK, Control, Mirror, NEW t \in Threads, RecvErase(t), ~mishap'
    PROVE  Mirror'
<1>a. /\ pc \in [Threads -> Labels] /\ id \in [Threads -> Index]
      /\ rx_unique_buffer \in [Index -> {FREE, RESERVED} \cup 1..MaxMsgs]
  BY DEF TypeOK
<1>b. Ids \subseteq Index /\ 0 \notin Ids /\ 0 \in Index
  BY DEF Ids, Index
<1>c. FREE # RESERVED /\ ~(RESERVED > 0) /\ ~(FREE > 0)
  BY DEF FREE, RESERVED
<1>1. /\ pc[t] = "recv_erase"
      /\ rx_unique_buffer' = [rx_unique_buffer EXCEPT ![id[t]] = FREE]
      /\ Goto(t, "idle") \/ Goto(t, "oops")
      /\ UNCHANGED <<sent, done, fifo_send_types, fifo_external_msg,
                     fifo_unique_ids, req, id, cb, owner>>
  BY DEF RecvErase, Return, histVars
<1>2. \A u \in Threads : u # t => pc'[u] = pc[u]
  BY <1>1, <1>a DEF Goto
<1>3. pc'[t] \in {"idle", "oops"}
  BY <1>1, <1>a DEF Goto
<1>4. rx_unique_buffer[id[t]] # RESERVED
  BY Zenon DEF RecvErase
<1>5. \A k \in Index : rx_unique_buffer'[k] = rx_unique_buffer[k]
                        \/ (rx_unique_buffer'[k] = FREE /\ rx_unique_buffer[k] # RESERVED)
  BY <1>1, <1>4, <1>a
<1>6. \A j \in 1..Len(fifo_unique_ids) :
        rx_unique_buffer'[fifo_unique_ids[j]] = RESERVED
  <2>1. \A j \in 1..Len(fifo_unique_ids) :
          fifo_unique_ids[j] \in Ids /\ rx_unique_buffer[fifo_unique_ids[j]] = RESERVED
    BY DEF Mirror, IdsMirrorLog
  <2>2. QED
    BY <2>1, <1>5, <1>b, <1>c
<1>7. TypeUnqueued' <=> TypeUnqueued
  BY <1>1, <1>2, <1>3 DEF TypeUnqueued
<1>8. \A n : (IdUnqueued(n)' <=> IdUnqueued(n)) /\ (Unfiled(n)' <=> Unfiled(n))
  BY <1>1, <1>2, <1>3 DEF IdUnqueued, Unfiled
<1>9. TypesMirrorLog'
  BY <1>1, <1>7 DEF Mirror, TypesMirrorLog
<1>10. IdsMirrorLog'
  BY <1>1, <1>6, <1>8 DEF Mirror, IdsMirrorLog
<1>11. AllocatedReserved'
  BY <1>1, <1>2, <1>3, <1>5, <1>b, <1>c DEF Mirror, AllocatedReserved
<1>12. FiledRight'
  BY <1>1, <1>5, <1>b, <1>c DEF Mirror, FiledRight
<1>13. QED
  BY <1>1, <1>9, <1>10, <1>11, <1>12 DEF Mirror

\* Only write() sends requests of the FIFO kind.
LEMMA NoWritesStep ==
    ASSUME TypeOK, Control, NoWrites, Next, ~mishap'
    PROVE  NoWrites'
<1>a. sent \in Seq(SentMsgTypes) /\ Len(sent) \in Nat
  BY DEF TypeOK
<1>1. \/ UNCHANGED sent
      \/ \E type \in {SENT_MSG_INTERNAL, SENT_MSG_EXTERNAL_UNIQUE} :
            sent' = Append(sent, type)
  BY Zenon, CleanSteps
     DEF PingCheck, PingSend, PingPut, SendBegin, SendSend, SendPut, SendAlloc,
         SendPutId, RecvLoad, RecvErase, WriteBegin, ReadBegin, ReadGet,
         StateCall, CbMessage, CbStore, Probe, Remove, rpmsg_send
<1>2. ASSUME NEW type \in {SENT_MSG_INTERNAL, SENT_MSG_EXTERNAL_UNIQUE},
             sent' = Append(sent, type)
      PROVE  NoWrites'
  <2>1. type # SENT_MSG_EXTERNAL_FIFO /\ type \in SentMsgTypes
    BY ConstantTypes DEF SENT_MSG_INTERNAL, SENT_MSG_EXTERNAL_UNIQUE,
                         SENT_MSG_EXTERNAL_FIFO
  <2>2. /\ Len(sent') = Len(sent) + 1 /\ sent'[Len(sent) + 1] = type
        /\ \A n \in 1..Len(sent) : sent'[n] = sent[n]
    BY <1>2, <2>1, <1>a
  <2>3. \A n \in 1..Len(sent') : n \in 1..Len(sent) \/ n = Len(sent) + 1
    BY <2>2, <1>a
  <2>4. QED
    BY <2>1, <2>2, <2>3 DEF NoWrites
<1>3. QED
  BY <1>1, <1>2 DEF NoWrites

\* The answer to the oldest unanswered request finds the kind of that request
\* at the head of the fifo.
LEMMA CbMessageMirror ==
    ASSUME TypeOK, Control, NoWrites, Mirror, NEW a \in AllAnswers,
           CbMessage(a), ~mishap'
    PROVE  Mirror'
<1>a. /\ sent \in Seq(SentMsgTypes) /\ Len(sent) \in Nat /\ done \in 0..Len(sent)
      /\ fifo_send_types \in Seq(SentMsgTypes) /\ Len(fifo_send_types) \in Nat
      /\ Len(fifo_unique_ids) \in Nat
  BY DEF TypeOK
<1>b. /\ SENT_MSG_INTERNAL # SENT_MSG_EXTERNAL_UNIQUE
      /\ SENT_MSG_EXTERNAL_FIFO # SENT_MSG_EXTERNAL_UNIQUE
  BY DEF SENT_MSG_INTERNAL, SENT_MSG_EXTERNAL_UNIQUE, SENT_MSG_EXTERNAL_FIFO
<1>1. /\ done < Len(sent) /\ cb = 0 /\ done' = done + 1
      /\ UNCHANGED <<sent, fifo_unique_ids, rx_unique_buffer, pc, req, id, owner>>
  BY DEF CbMessage, threadVars
<1>1a. /\ \A t \in Threads : ~Booking(t, done + 1)
       /\ a = "badcrc" => sent[done + 1] # SENT_MSG_EXTERNAL_UNIQUE
       /\ a \in {"valid", "badcrc"}
  <2>1. a \in {"valid", "badcrc"}
    BY DEF CbMessage, AllAnswers
  <2>2. QED
    BY Zenon, <2>1 DEF CbMessage
<1>2. fifo_send_types # <<>>
  <2>1. CASE TypeUnqueued
    <3>1. PICK t \in Threads : pc[t] \in {"ping_put", "send_put"}
      BY <2>1 DEF TypeUnqueued
    <3>2. req[t] = Len(sent) /\ req[t] # done + 1
      BY <3>1, <1>1a DEF Control, NewestUnanswered, Booking, BookingLabels
    <3>3. Len(fifo_send_types) = Len(sent) - done - 1
      BY <2>1 DEF Mirror, TypesMirrorLog
    <3>4. Len(fifo_send_types) > 0
      BY <3>2, <3>3, <1>1, <1>a
    <3>5. QED
      BY <3>4
  <2>2. CASE ~TypeUnqueued
    <3>1. Len(fifo_send_types) = Len(sent) - done - 0
      BY <2>2 DEF Mirror, TypesMirrorLog
    <3>2. Len(fifo_send_types) > 0
      BY <3>1, <1>1, <1>a
    <3>3. QED
      BY <3>2
  <2>3. QED
    BY <2>1, <2>2
<1>3. /\ Len(fifo_send_types) \in Nat \ {0}
      /\ Head(fifo_send_types) = fifo_send_types[1]
      /\ Len(Tail(fifo_send_types)) = Len(fifo_send_types) - 1
      /\ \A k \in 1..Len(fifo_send_types) - 1 :
            Tail(fifo_send_types)[k] = fifo_send_types[k + 1]
  BY <1>2, <1>a
<1>4. Head(fifo_send_types) = sent[done + 1]
  BY <1>3 DEF Mirror, TypesMirrorLog
<1>5. done + 1 \in 1..Len(sent) /\ done + 1 # 0
  BY <1>1, <1>a
<1>6. Head(fifo_send_types) # SENT_MSG_EXTERNAL_FIFO
  BY <1>4, <1>5 DEF NoWrites
<1>7. /\ fifo_send_types' = Tail(fifo_send_types)
      /\ fifo_external_msg' = fifo_external_msg
      /\ cb' = IF sent[done + 1] = SENT_MSG_EXTERNAL_UNIQUE THEN done + 1 ELSE 0
  BY <1>1a, <1>2, <1>4, <1>6 DEF CbMessage
<1>8. TypesMirrorLog'
  <2>1. TypeUnqueued' <=> TypeUnqueued
    BY <1>1 DEF TypeUnqueued
  <2>2. Len(fifo_send_types') = Len(sent) - done' - (IF TypeUnqueued THEN 1 ELSE 0)
    <3>1. CASE TypeUnqueued
      BY <3>1, <1>1, <1>3, <1>7, <1>a DEF Mirror, TypesMirrorLog
    <3>2. CASE ~TypeUnqueued
      BY <3>2, <1>1, <1>3, <1>7, <1>a DEF Mirror, TypesMirrorLog
    <3>3. QED
      BY <3>1, <3>2
  <2>3. ASSUME NEW k \in 1..Len(fifo_send_types')
        PROVE  fifo_send_types'[k] = sent[done' + k]
    <3>1. k \in 1..Len(fifo_send_types) - 1 /\ k + 1 \in 1..Len(fifo_send_types)
      BY <1>3, <1>7, <1>a
    <3>2. fifo_send_types'[k] = fifo_send_types[k + 1]
      BY <3>1, <1>3, <1>7
    <3>3. fifo_send_types[k + 1] = sent[done + (k + 1)]
      BY <3>1 DEF Mirror, TypesMirrorLog
    <3>4. done + (k + 1) = done' + k
      BY <3>1, <1>1, <1>a
    <3>5. QED
      BY <3>2, <3>3, <3>4
  <2>4. QED
    BY <2>1, <2>2, <2>3, <1>1 DEF TypesMirrorLog
<1>9. IdsMirrorLog'
  <2>1. \A n \in 1..Len(sent) : sent[n] = SENT_MSG_EXTERNAL_UNIQUE =>
          (Unfiled(n)' <=> Unfiled(n))
    <3>1. \A n \in 1..Len(sent) : Unfiled(n) <=> n > done
      BY <1>1 DEF Unfiled
    <3>2. \A n \in 1..Len(sent) : n > done <=> n > done + 1 \/ n = done + 1
      BY <1>a
    <3>3. \A n \in 1..Len(sent) : Unfiled(n)' <=> n > done + 1 \/ n = cb'
      BY <1>1 DEF Unfiled
    <3>4. QED
      BY <3>1, <3>2, <3>3, <1>7
  <2>2. \A n : IdUnqueued(n)' <=> IdUnqueued(n)
    BY <1>1 DEF IdUnqueued
  <2>3. QED
    BY <2>1, <2>2, <1>1 DEF Mirror, IdsMirrorLog
<1>10. AllocatedReserved' /\ FiledRight'
  BY <1>1, <1>7 DEF Mirror, AllocatedReserved, FiledRight
<1>11. cb' # 0 => sent'[cb'] = SENT_MSG_EXTERNAL_UNIQUE
  BY <1>1, <1>7
<1>12. QED
  BY <1>8, <1>9, <1>10, <1>11 DEF Mirror

\* The id at the head of the fifo is the one given out for the request whose
\* answer is being filed: it is queued, and no older request can be ahead.
LEMMA CbStoreMirror ==
    ASSUME TypeOK, Control, Mirror, CbStore
    PROVE  Mirror'
<1>a. /\ sent \in Seq(SentMsgTypes) /\ Len(sent) \in Nat /\ done \in 0..Len(sent)
      /\ fifo_unique_ids \in Seq(Index) /\ Len(fifo_unique_ids) \in Nat
      /\ cb \in 0..MaxMsgs
      /\ owner \in [Index -> 0..MaxMsgs]
      /\ rx_unique_buffer \in [Index -> {FREE, RESERVED} \cup 1..MaxMsgs]
  BY DEF TypeOK
<1>b. Ids \subseteq Index /\ 0 \notin Ids /\ 0 \in Index
  BY DEF Ids, Index
<1>c. ~(RESERVED > 0)
  BY DEF RESERVED
<1>1. /\ cb # 0 /\ cb' = 0
      /\ UNCHANGED <<sent, done, fifo_send_types, fifo_external_msg, pc, req, id,
                     owner>>
  BY DEF CbStore, threadVars, histVars
<1>2. /\ cb = done /\ cb \in 1..Len(sent) /\ sent[cb] = SENT_MSG_EXTERNAL_UNIQUE
      /\ Unfiled(cb)
  BY <1>1, <1>a DEF Control, Mirror, Unfiled
<1>3. ~IdUnqueued(cb)
  BY <1>2, <1>a DEF IdUnqueued, Control, NewestUnanswered, BookingLabels
<1>4. PICK j \in 1..Len(fifo_unique_ids) : owner[fifo_unique_ids[j]] = cb
  BY <1>2, <1>3 DEF Mirror, IdsMirrorLog
<1>5. \A n \in 1..Len(sent) : Unfiled(n) => n >= cb
  BY <1>2, <1>a DEF Unfiled
<1>6. /\ 1 \in 1..Len(fifo_unique_ids) /\ fifo_unique_ids # <<>>
      /\ j = 1 \/ 1 < j
  BY <1>4, <1>a
<1>7. j = 1
  <2>1. owner[fifo_unique_ids[1]] \in 1..Len(sent) /\ Unfiled(owner[fifo_unique_ids[1]])
    BY <1>6 DEF Mirror, IdsMirrorLog
  <2>2. 1 < j => owner[fifo_unique_ids[1]] < owner[fifo_unique_ids[j]]
    BY <1>4, <1>6 DEF Mirror, IdsMirrorLog
  <2>3. QED
    BY <2>1, <2>2, <1>2, <1>4, <1>5, <1>6, <1>a
<1>8. /\ Head(fifo_unique_ids) = fifo_unique_ids[1] /\ fifo_unique_ids[1] \in Ids
      /\ Len(Tail(fifo_unique_ids)) = Len(fifo_unique_ids) - 1
      /\ \A k \in 1..Len(fifo_unique_ids) - 1 :
            Tail(fifo_unique_ids)[k] = fifo_unique_ids[k + 1]
  BY <1>6, <1>a DEF Mirror, IdsMirrorLog
<1>9. PICK h \in Ids : h = fifo_unique_ids[1]
  BY <1>8
<1>10. /\ fifo_unique_ids' = Tail(fifo_unique_ids)
       /\ rx_unique_buffer' = [rx_unique_buffer EXCEPT ![h] = cb]
  BY <1>6, <1>8, <1>9 DEF CbStore
<1>11. \A k \in 1..Len(fifo_unique_ids') :
         /\ k + 1 \in 1..Len(fifo_unique_ids)
         /\ fifo_unique_ids'[k] = fifo_unique_ids[k + 1]
  BY <1>8, <1>10, <1>a
<1>12. \A k \in 1..Len(fifo_unique_ids') :
         /\ owner[fifo_unique_ids'[k]] # cb
         /\ fifo_unique_ids'[k] # h
         /\ fifo_unique_ids'[k] \in Ids
  <2>1. ASSUME NEW k \in 1..Len(fifo_unique_ids')
        PROVE  owner[fifo_unique_ids'[k]] # cb /\ fifo_unique_ids'[k] \in Ids
    <3>1. /\ k + 1 \in 1..Len(fifo_unique_ids) /\ 1 < k + 1
          /\ fifo_unique_ids'[k] = fifo_unique_ids[k + 1]
      BY <1>11, <1>8, <1>10, <1>a
    <3>2. owner[fifo_unique_ids[1]] < owner[fifo_unique_ids[k + 1]]
      BY <3>1, <1>6 DEF Mirror, IdsMirrorLog
    <3>3. fifo_unique_ids[k + 1] \in Ids
      BY <3>1 DEF Mirror, IdsMirrorLog
    <3>4. owner[fifo_unique_ids[k + 1]] \in 0..MaxMsgs
      BY <3>3, <1>a, <1>b
    <3>5. owner[fifo_unique_ids[1]] = cb /\ cb \in 0..MaxMsgs
      BY <1>4, <1>7, <1>a
    <3>6. owner[fifo_unique_ids[k + 1]] # cb
      BY <3>2, <3>4, <3>5
    <3>7. QED
      BY <3>1, <3>3, <3>6
  <2>2. owner[h] = cb
    BY <1>4, <1>7, <1>9
  <2>3. QED
    BY <2>1, <2>2
<1>13. \A k \in 1..Len(fifo_unique_ids') :
         rx_unique_buffer'[fifo_unique_ids'[k]] = rx_unique_buffer[fifo_unique_ids'[k]]
  BY <1>10, <1>12, <1>a, <1>b
<1>14. \A n : IdUnqueued(n)' <=> IdUnqueued(n)
  BY <1>1 DEF IdUnqueued
<1>15. \A n \in 1..Len(sent) : Unfiled(n)' <=> Unfiled(n) /\ n # cb
  BY <1>1, <1>2, <1>a DEF Unfiled
<1>16. IdsMirrorLog'
  <2>1. ASSUME NEW k \in 1..Len(fifo_unique_ids')
        PROVE  /\ fifo_unique_ids'[k] \in Ids
               /\ owner[fifo_unique_ids'[k]] \in 1..Len(sent)
               /\ owner[fifo_unique_ids'[k]] # cb
               /\ sent[owner[fifo_unique_ids'[k]]] = SENT_MSG_EXTERNAL_UNIQUE
               /\ Unfiled(owner[fifo_unique_ids'[k]])
               /\ ~IdUnqueued(owner[fifo_unique_ids'[k]])
               /\ rx_unique_buffer'[fifo_unique_ids'[k]] = RESERVED
    <3>1. owner[fifo_unique_ids'[k]] # cb /\ fifo_unique_ids'[k] \in Ids
      BY <1>12
    <3>2. PICK m \in 1..Len(fifo_unique_ids) : fifo_unique_ids'[k] = fifo_unique_ids[m]
      BY <1>11
    <3>3. /\ owner[fifo_unique_ids[m]] \in 1..Len(sent)
          /\ sent[owner[fifo_unique_ids[m]]] = SENT_MSG_EXTERNAL_UNIQUE
          /\ Unfiled(owner[fifo_unique_ids[m]])
          /\ ~IdUnqueued(owner[fifo_unique_ids[m]])
          /\ rx_unique_buffer[fifo_unique_ids[m]] = RESERVED
      BY DEF Mirror, IdsMirrorLog
    <3>4. QED
      BY <3>1, <3>2, <3>3, <1>13
  <2>2. ASSUME NEW k \in 1..Len(fifo_unique_ids'),
               NEW m \in 1..Len(fifo_unique_ids'), k < m
        PROVE  owner[fifo_unique_ids'[k]] < owner[fifo_unique_ids'[m]]
    <3>1. k + 1 < m + 1
      BY <2>2, <1>8, <1>10, <1>a
    <3>2. QED
      BY SMTT(40), <3>1, <1>11 DEF Mirror, IdsMirrorLog
  <2>3. ASSUME NEW n \in 1..Len(sent), Unfiled(n), n # cb,
               sent[n] = SENT_MSG_EXTERNAL_UNIQUE, ~IdUnqueued(n)
        PROVE  \E k \in 1..Len(fifo_unique_ids') : owner[fifo_unique_ids'[k]] = n
    <3>1. PICK m \in 1..Len(fifo_unique_ids) : owner[fifo_unique_ids[m]] = n
      BY <2>3 DEF Mirror, IdsMirrorLog
    <3>2. m # 1
      BY <2>3, <3>1, <1>4, <1>7
    <3>3. m - 1 \in 1..Len(fifo_unique_ids') /\ (m - 1) + 1 = m
      <4>1. Len(fifo_unique_ids') = Len(fifo_unique_ids) - 1
        BY <1>8, <1>10
      <4>2. Len(fifo_unique_ids) \in Nat
        BY <1>a
      <4>3. QED
        BY <3>2, <4>1, <4>2
    <3>4. QED
      BY <3>1, <3>3, <1>11
  <2>4. QED
    BY <2>1, <2>2, <2>3, <1>1, <1>14, <1>15 DEF IdsMirrorLog
<1>17. TypesMirrorLog'
  BY <1>1 DEF Mirror, TypesMirrorLog, TypeUnqueued
<1>18. AllocatedReserved'
  <2>1. \A t \in Threads : pc[t] = "send_id" => owner[id[t]] # owner[h]
    <3>1. owner[h] = done /\ Len(sent) \in Nat /\ done \in 0..Len(sent)
      BY <1>2, <1>4, <1>7, <1>9, <1>a
    <3>2. \A t \in Threads : pc[t] = "send_id" =>
            owner[id[t]] = Len(sent) /\ done < Len(sent)
      BY DEF Mirror, AllocatedReserved, Control, NewestUnanswered, BookingLabels
    <3>3. QED
      BY <3>1, <3>2
  <2>2. \A t \in Threads : pc[t] = "send_id" =>
          rx_unique_buffer'[id[t]] = rx_unique_buffer[id[t]]
    BY <2>1, <1>10, <1>a, <1>b DEF Mirror, AllocatedReserved
  <2>3. QED
    BY <2>2, <1>1 DEF Mirror, AllocatedReserved
<1>19. FiledRight'
  <2>1. rx_unique_buffer'[0] = rx_unique_buffer[0]
    BY <1>10, <1>a, <1>b
  <2>2. \A i \in Ids : i # h => rx_unique_buffer'[i] = rx_unique_buffer[i]
    BY <1>10, <1>a, <1>b
  <2>3. rx_unique_buffer'[h] = cb /\ owner[h] = cb
    BY <1>4, <1>7, <1>9, <1>10, <1>a, <1>b
  <2>4. QED
    BY <2>1, <2>2, <2>3, <1>1, <1>2, <1>a DEF Mirror, FiledRight
<1>20. QED
  BY <1>1, <1>16, <1>17, <1>18, <1>19 DEF Mirror

\* Every step that is no mishap keeps the mirror.
LEMMA MirrorStep ==
    ASSUME TypeOK, Control, NoWrites, Mirror, Next, ~mishap'
    PROVE  Mirror'
<1>a. pc \in [Threads -> Labels] /\ id \in [Threads -> Index]
  BY DEF TypeOK
<1>b. /\ Len(fifo_send_types) \in Nat /\ Len(fifo_unique_ids) \in Nat
      /\ Len(sent) \in Nat /\ done \in 0..Len(sent)
  BY DEF TypeOK
<1>1. ASSUME NEW t \in Threads,
             \/ PingCheck(t) \/ SendBegin(t) \/ StateCall(t)
             \/ WriteBegin(t) \/ ReadBegin(t)
             \/ \E i \in Index : RecvLoad(t, i)
      PROVE  Mirror'
  <2>1. /\ pc[t] = "idle"
        /\ pc'[t] \in {"idle", "ping_send", "send_send", "recv_erase",
                       "write_first", "read_get"}
        /\ \A u \in Threads : u # t => pc'[u] = pc[u] /\ id'[u] = id[u]
    BY <1>1, <1>a DEF PingCheck, SendBegin, StateCall, WriteBegin, ReadBegin,
       RecvLoad, Calling, Goto, Return
  <2>2. UNCHANGED <<sent, done, fifo_send_types, fifo_external_msg,
                    fifo_unique_ids, rx_unique_buffer, req, cb, owner>>
    BY <1>1 DEF PingCheck, SendBegin, StateCall, WriteBegin, ReadBegin, RecvLoad,
       driverVars, histVars
  <2>3. QED
    BY <2>1, <2>2, QuietStep
<1>2. ASSUME NEW t \in Threads, PingSend(t) \/ SendSend(t) PROVE Mirror'
  <2>1. /\ pc[t] \in {"ping_send", "send_send"}
        /\ UNCHANGED <<done, fifo_send_types, fifo_external_msg,
                       fifo_unique_ids, rx_unique_buffer, id, cb, owner>>
    BY <1>2 DEF PingSend, SendSend, driverVars
  <2>2. CASE UNCHANGED <<sent, req>> /\ (Goto(t, "idle") \/ Goto(t, "oops"))
    <3>1. /\ pc'[t] \in {"idle", "oops"}
          /\ \A u \in Threads : u # t => pc'[u] = pc[u]
      BY <2>2, <1>a DEF Goto
    <3>2. QED
      BY <2>1, <2>2, <3>1, QuietStep
  <2>3. CASE /\ sent' = Append(sent, SENT_MSG_INTERNAL)
             /\ req' = [req EXCEPT ![t] = Len(sent) + 1]
             /\ Goto(t, "ping_put")
             /\ mishap' = (mishap \/ \E u \in Threads : pc[u] \in BookingLabels)
    <3>1. SENT_MSG_INTERNAL \in {SENT_MSG_INTERNAL, SENT_MSG_EXTERNAL_UNIQUE}
      OBVIOUS
    <3>2. Goto(t, IF SENT_MSG_INTERNAL = SENT_MSG_INTERNAL
                    THEN "ping_put" ELSE "send_put")
      BY <2>3
    <3>3. QED
      BY <2>1, <2>3, <3>1, <3>2, SendMirror
  <2>4. CASE /\ sent' = Append(sent, SENT_MSG_EXTERNAL_UNIQUE)
             /\ req' = [req EXCEPT ![t] = Len(sent) + 1]
             /\ Goto(t, "send_put")
             /\ mishap' = (mishap \/ \E u \in Threads : pc[u] \in BookingLabels)
    <3>1. SENT_MSG_INTERNAL # SENT_MSG_EXTERNAL_UNIQUE
      BY DEF SENT_MSG_INTERNAL, SENT_MSG_EXTERNAL_UNIQUE
    <3>2. QED
      BY <2>1, <2>4, <3>1, SendMirror
  <2>5. QED
    BY Zenon, <1>2, <2>2, <2>3, <2>4 DEF PingSend, SendSend, rpmsg_send, Return
<1>3. ASSUME NEW t \in Threads, PingPut(t) PROVE Mirror'
  <2>1. PICK full \in FullTests(t, fifo_send_types, TypesSize) : ~full /\ ~Racing(t)
    BY Zenon, <1>3 DEF PingPut
  <2>1a. ~(Len(fifo_send_types) >= TypesSize)
    BY Zenon, <2>1 DEF FullTests
  <2>2. Len(fifo_send_types) < TypesSize
    BY <2>1a, <1>b
  <2>3. QED
    BY <1>3, <2>1, <2>2, PutMirror DEF PingPut, Return
<1>4. ASSUME NEW t \in Threads, SendPut(t) PROVE Mirror'
  <2>1. PICK full \in FullTests(t, fifo_send_types, TypesSize) :
          ~full /\ ~Racing(t) /\ Goto(t, "send_alloc")
    BY Zenon, <1>4 DEF SendPut
  <2>1a. ~(Len(fifo_send_types) >= TypesSize)
    BY Zenon, <2>1 DEF FullTests
  <2>2. Len(fifo_send_types) < TypesSize
    BY <2>1a, <1>b
  <2>3. SENT_MSG_INTERNAL # SENT_MSG_EXTERNAL_UNIQUE
    BY DEF SENT_MSG_INTERNAL, SENT_MSG_EXTERNAL_UNIQUE
  <2>4. QED
    BY <1>4, <2>1, <2>2, <2>3, PutMirror DEF SendPut
<1>5. ASSUME NEW t \in Threads, SendAlloc(t) PROVE Mirror'
  BY <1>5, AllocMirror
<1>6. ASSUME NEW t \in Threads, SendPutId(t) PROVE Mirror'
  <2>1. PICK full \in FullTests(t, fifo_unique_ids, IdsSize) : ~full /\ ~Racing(t)
    BY Zenon, <1>6 DEF SendPutId
  <2>1a. ~(Len(fifo_unique_ids) >= IdsSize)
    BY Zenon, <2>1 DEF FullTests
  <2>2. Len(fifo_unique_ids) < IdsSize
    BY <2>1a, <1>b
  <2>3. QED
    BY <1>6, <2>1, <2>2, PutIdMirror
<1>7. ASSUME NEW t \in Threads, RecvErase(t) PROVE Mirror'
  BY <1>7, EraseMirror
<1>8. ASSUME NEW a \in AllAnswers, CbMessage(a) PROVE Mirror'
  BY <1>8, CbMessageMirror
<1>9. CASE CbStore
  BY <1>9, CbStoreMirror
<1>10. CASE Probe
  BY <1>10, QuietStep DEF Probe, threadVars, histVars
<1>11. CASE Remove
  <2>1. ~(done < Len(sent)) /\ done' = Len(sent)
    BY Zenon, <1>11 DEF Remove
  <2>2. done' = done
    BY <2>1, <1>b
  <2>3. QED
    BY <1>11, <2>2, QuietStep DEF Remove, threadVars
<1>12. ASSUME NEW t \in Threads, ReadGet(t) PROVE Mirror'
  <2>1. ~Racing(t)
    BY Zenon, <1>12 DEF ReadGet
  <2>2. fifo_external_msg = <<>>
    BY DEF Mirror, FiledRight
  <2>3. fifo_external_msg' = fifo_external_msg
    BY <1>12, <2>1, <2>2 DEF ReadGet
  <2>4. /\ pc[t] = "read_get" /\ pc'[t] \in {"idle", "read_get"}
        /\ \A u \in Threads : u # t => pc'[u] = pc[u]
        /\ UNCHANGED <<sent, done, fifo_send_types, fifo_unique_ids,
                       rx_unique_buffer, req, id, cb, owner>>
    BY <1>12, <1>a DEF ReadGet, Goto, Return
  <2>5. QED
    BY <2>3, <2>4, QuietStep
<1>13. QED
  BY Zenon, <1>1, <1>2, <1>3, <1>4, <1>5, <1>6, <1>7, <1>8, <1>9, <1>10,
     <1>11, <1>12, CleanSteps

\* MatchInv is inductive.
LEMMA MatchStep ==
    ASSUME TypeOK, MatchInv, [Next]_vars
    PROVE  MatchInv'
<1>1. CASE Next
  <2>1. ASSUME ~mishap' PROVE Control' /\ NoWrites' /\ Mirror'
    <3>1. ~mishap
      BY <2>1, MishapStays
    <3>2. Control /\ NoWrites /\ Mirror
      BY Zenon, <3>1, MatchInvParts
    <3>3. QED
      BY <1>1, <2>1, <3>2, ControlStep, NoWritesStep, MirrorStep
  <2>2. QED
    BY <2>1 DEF MatchInv, Control, Mirror, FilingLast
<1>2. CASE UNCHANGED vars
  BY <1>2 DEF vars, driverVars, threadVars, histVars, MatchInv, OneBooking,
     NewestUnanswered, NoWrites, FilingLast,
     TypesMirrorLog, TypeUnqueued, IdsMirrorLog, IdUnqueued, Unfiled,
     AllocatedReserved, FiledRight
<1>3. QED
  BY <1>1, <1>2

\* The queues start empty, as does the log they mirror.
LEMMA MatchInit == Init => MatchInv
  BY DEF Init, MatchInv, OneBooking, BookingLabels, NewestUnanswered, NoWrites,
     FilingLast, TypesMirrorLog, TypeUnqueued, IdsMirrorLog,
     IdUnqueued, Unfiled, AllocatedReserved, FiledRight, FREE, RESERVED, Ids,
     Index

\* Until a mishap fifo_send_types and fifo_unique_ids mirror the unanswered part
\* of the log, whatever the calls the threads make at the same time, and
\* whatever the number of threads and the capacities.
THEOREM MatchKept == Spec => []MatchInv
<1>1. TypeOK /\ MatchInv /\ [Next]_vars => MatchInv'
  BY MatchStep
<1>2. QED
  BY <1>1, MatchInit, TypeCorrect, PTL DEF Spec

\* Until a mishap a message waiting under an id is the answer to the SEND_MSG
\* that was given the id.
THEOREM OwnersKept == Spec => []UniqueToOwner
<1>1. MatchInv => UniqueToOwner
  BY DEF MatchInv, FiledRight, UniqueToOwner, AnswerToOwner
<1>2. QED
  BY <1>1, MatchKept, PTL

\* Until a mishap every answer is filed by the kind of its request.
THEOREM FilingKept == Spec => []FiledByKind
<1>1. TypeOK /\ MatchInv => FiledByKind
  <2>1. SUFFICES ASSUME TypeOK, MatchInv, ~mishap PROVE FiledByKind
    BY DEF FiledByKind
  <2>2. FiledRight
    BY <2>1 DEF MatchInv
  <2>3. \A i \in Index : i = 0 \/ i \in Ids
    BY DEF Ids, Index
  <2>4. ~(FREE > 0) /\ Len(<<>>) = 0
    BY DEF FREE
  <2>5. QED
    BY <2>2, <2>3, <2>4 DEF FiledRight, FiledByKind
<1>2. QED
  BY <1>1, MatchKept, TypeCorrect, PTL

\* Until a mishap a stored message stays until RECV_MSG takes it: a new id is a
\* free one, and an answer goes to a reserved one.
THEOREM StoredKept == Spec => StoredUntilClaimed
<1> DEFINE Kept(i) ==
      \/ rx_unique_buffer'[i] = rx_unique_buffer[i]
      \/ /\ rx_unique_buffer'[i] = FREE
         /\ \E t \in Threads : pc[t] = "recv_erase" /\ id[t] = i
<1>1. ASSUME TypeOK, MatchInv, [Next]_vars, ~mishap', NEW i \in Ids,
             rx_unique_buffer[i] > 0
      PROVE  Kept(i)
  <2>a. /\ rx_unique_buffer \in [Index -> {FREE, RESERVED} \cup 1..MaxMsgs]
        /\ id \in [Threads -> Index] /\ fifo_unique_ids \in Seq(Index)
        /\ Len(fifo_unique_ids) \in Nat
    BY <1>1 DEF TypeOK
  <2>b. Ids \subseteq Index /\ ~(FREE > 0) /\ ~(RESERVED > 0)
    BY DEF Ids, Index, FREE, RESERVED
  <2>c. Control /\ Mirror
    BY Zenon, <1>1, MatchInvParts, MishapStays
  <2>1. CASE UNCHANGED rx_unique_buffer
    BY <2>1
  <2>2. ASSUME NEW t \in Threads, SendAlloc(t) PROVE Kept(i)
    <3>1. CASE UNCHANGED rx_unique_buffer
      BY <3>1
    <3>2. CASE \E k \in Ids :
                 /\ rx_unique_buffer[k] = FREE
                 /\ rx_unique_buffer' = [rx_unique_buffer EXCEPT ![k] = RESERVED]
      BY <3>2, <1>1, <2>a, <2>b
    <3>3. QED
      BY <2>2, <3>1, <3>2 DEF SendAlloc, xa_alloc_cyclic, FreeIds
  <2>3. ASSUME NEW t \in Threads, RecvErase(t) PROVE Kept(i)
    <3>1. /\ pc[t] = "recv_erase"
          /\ rx_unique_buffer' = [rx_unique_buffer EXCEPT ![id[t]] = FREE]
      BY <2>3 DEF RecvErase
    <3>2. QED
      BY <3>1, <2>a, <2>b
  <2>4. CASE CbStore
    <3>1. fifo_unique_ids # <<>>
      <4>1. /\ cb # 0 /\ cb \in 1..Len(sent) /\ cb = done
            /\ sent[cb] = SENT_MSG_EXTERNAL_UNIQUE
        BY <2>4, <2>c, <1>1 DEF CbStore, Control, Mirror, TypeOK
      <4>2. Unfiled(cb)
        BY <4>1 DEF Unfiled
      <4>3. ~IdUnqueued(cb)
        BY <4>1, <2>c DEF Control, NewestUnanswered, IdUnqueued, BookingLabels
      <4>4. PICK j \in 1..Len(fifo_unique_ids) : owner[fifo_unique_ids[j]] = cb
        BY <4>1, <4>2, <4>3, <2>c DEF Mirror, IdsMirrorLog
      <4>5. QED
        BY <4>4, <2>a
    <3>2. 1 \in 1..Len(fifo_unique_ids) /\ Head(fifo_unique_ids) = fifo_unique_ids[1]
      BY <3>1, <2>a
    <3>3. rx_unique_buffer[fifo_unique_ids[1]] = RESERVED
      BY <3>2, <2>c DEF Mirror, IdsMirrorLog
    <3>4. PICK k \in Index :
            /\ k = Head(fifo_unique_ids)
            /\ rx_unique_buffer' = [rx_unique_buffer EXCEPT ![k] = cb]
      BY <2>4, <3>1 DEF CbStore
    <3>5. QED
      BY <3>2, <3>3, <3>4, <1>1, <2>a, <2>b
  <2>5. QED
    BY <1>1, <2>1, <2>2, <2>3, <2>4
       DEF Next, ThreadStep, vars, driverVars, PingCheck, PingSend, PingPut,
           SendBegin, SendSend, SendPut, SendPutId, RecvLoad, WriteBegin,
           WriteFirst, WriteSend, WritePut, ReadBegin, ReadGet, StateCall,
           RemoteSilent, CbMessage, Probe, Remove
<1>2. TypeOK /\ MatchInv /\ [Next]_vars =>
        [~mishap' => \A i \in Ids : rx_unique_buffer[i] > 0 => Kept(i)]_vars
  BY <1>1
<1>3. QED
  BY <1>2, MatchKept, TypeCorrect, PTL DEF Spec, StoredUntilClaimed

-----------------------------------------------------------------------------
(***************************************************************************)
(* An answer finds a kind.                                                 *)
(***************************************************************************)

\* The vrings bound the unanswered requests, and those have their kinds queued
\* or about to be.  A kind that finds no room was not needed: by VringsFit the
\* fifo then holds one for every unanswered request.
KindInv == Len(sent) - done <= InFlight /\ KindForEveryAnswer

\* The threads that are about to queue a kind can be counted.
LEMMA UnqueuedFinite == IsFiniteSet(Unqueued) /\ Cardinality(Unqueued) \in Nat
<1>1. Unqueued \in SUBSET Threads /\ IsFiniteSet(Threads)
  BY DEF Unqueued
<1>2. QED
  BY <1>1, FS_Subset, FS_CardinalityType

\* A thread that has sent is one more of them.
LEMMA UnqueuedJoin ==
    ASSUME NEW t \in Threads, pc \in [Threads -> Labels],
           NEW l \in {"ping_put", "send_put", "write_put"}, Goto(t, l),
           pc[t] \notin {"ping_put", "send_put", "write_put"}
    PROVE  Cardinality(Unqueued') = Cardinality(Unqueued) + 1
<1>1. Unqueued' = Unqueued \cup {t} /\ t \notin Unqueued
  BY DEF Unqueued, Goto
<1>2. IsFiniteSet(Unqueued)
  BY UnqueuedFinite
<1>3. QED
  BY <1>1, <1>2, FS_AddElement

\* A thread that goes on elsewhere is none of them.
LEMMA UnqueuedLeave ==
    ASSUME NEW t \in Threads, pc \in [Threads -> Labels], NEW l,
           l \notin {"ping_put", "send_put", "write_put"}, Goto(t, l)
    PROVE  Cardinality(Unqueued') =
             IF pc[t] \in {"ping_put", "send_put", "write_put"}
               THEN Cardinality(Unqueued) - 1 ELSE Cardinality(Unqueued)
<1>1. /\ Unqueued' = Unqueued \ {t}
      /\ t \in Unqueued <=> pc[t] \in {"ping_put", "send_put", "write_put"}
  BY DEF Unqueued, Goto
<1>2. IsFiniteSet(Unqueued)
  BY UnqueuedFinite
<1>3. QED
  BY <1>1, <1>2, FS_RemoveElement

\* Every step keeps a kind for every answer.
LEMMA KindStep ==
    ASSUME TypeOK, LocalsOK, KindInv, [Next]_vars
    PROVE  KindInv'
<1> USE ConstantTypes
<1>a. /\ pc \in [Threads -> Labels] /\ Len(sent) \in Nat /\ done \in 0..Len(sent)
      /\ fifo_send_types \in Seq(SentMsgTypes) /\ Len(fifo_send_types) \in Nat
      /\ sent \in Seq(SentMsgTypes)
  BY DEF TypeOK
<1>b. Cardinality(Unqueued) \in Nat
  BY UnqueuedFinite
<1>c. InFlight \in Nat /\ TypesSize \in Nat /\ InFlight <= TypesSize
  BY VringsFit
<1> DEFINE U == Cardinality(Unqueued)
           Q == Len(fifo_send_types)
           Putting == {"ping_put", "send_put", "write_put"}
<1>d. Len(sent) - done <= InFlight /\ (~raced => Len(sent) - done <= Q + U)
  BY DEF KindInv, KindForEveryAnswer
\* A thread that puts a kind and goes on.
<1>1. ASSUME NEW t \in Threads, NEW type \in SentMsgTypes, PutType(t, type),
             NEW l, l \notin Putting, Goto(t, l), UNCHANGED <<sent, done>>
      PROVE  KindInv'
  <2>1. U' = IF pc[t] \in Putting THEN U - 1 ELSE U
    BY <1>1, <1>a, UnqueuedLeave
  <2>2. U' >= U - 1
    BY <1>b, <2>1
  <2>3. (raced => raced') /\ (~raced' => ~Racing(t))
    BY <1>1, OvertakeType DEF PutType
  <2>4. ~raced' => fifo_send_types' = kfifo_put(fifo_send_types, TypesSize, type)
    BY Zenon, <1>1, <2>3 DEF PutType
  <2>5. kfifo_put(fifo_send_types, TypesSize, type) =
          IF Q < TypesSize THEN Append(fifo_send_types, type) ELSE fifo_send_types
    BY DEF kfifo_put
  <2>6. ~raced' => Q' = Q + 1 \/ (Q' = Q /\ Q >= TypesSize)
    BY <1>a, <1>c, <2>4, <2>5
  <2>7. U' \in Nat
    <3>1. Unqueued' \in SUBSET Threads /\ IsFiniteSet(Threads)
      BY DEF Unqueued
    <3>2. QED
      BY <3>1, FS_Subset, FS_CardinalityType
  <2>8. ~raced' => Len(sent) - done <= Q' + U'
    BY <1>a, <1>b, <1>c, <1>d, <2>2, <2>3, <2>6, <2>7
  <2>9. QED
    BY <1>1, <1>d, <2>8 DEF KindInv, KindForEveryAnswer
\* A thread that goes on without touching the queue or the log.
<1>2. ASSUME NEW t \in Threads, NEW l, l \notin Putting, Goto(t, l),
             pc[t] \notin Putting, UNCHANGED <<sent, done, fifo_send_types>>,
             raced => raced'
      PROVE  KindInv'
  <2>1. U' = U
    BY <1>2, <1>a, UnqueuedLeave
  <2>2. QED
    BY <1>2, <1>d, <2>1 DEF KindInv, KindForEveryAnswer
\* A thread that sends.
<1>3. ASSUME NEW t \in Threads, NEW type \in SentMsgTypes, NEW l \in Putting,
             NEW err, rpmsg_send(t, type, l, err), pc[t] \notin Putting,
             UNCHANGED <<done, fifo_send_types, raced>>
      PROVE  KindInv'
  <2>1. CASE /\ Len(sent) - done < InFlight /\ sent' = Append(sent, type)
             /\ Goto(t, l)
    <3>1. U' = U + 1
      BY <1>3, <1>a, <2>1, UnqueuedJoin
    <3>2. Len(sent') = Len(sent) + 1
      BY <1>a, <2>1
    <3>3. QED
      BY <1>3, <1>a, <1>b, <1>c, <1>d, <2>1, <3>1, <3>2
         DEF KindInv, KindForEveryAnswer
  <2>2. CASE UNCHANGED sent /\ (Goto(t, "idle") \/ Goto(t, "oops"))
    BY <1>2, <1>3, <2>2
  <2>3. QED
    BY Zenon, <1>3, <2>1, <2>2 DEF rpmsg_send, Return
<1>4. ASSUME NEW t \in Threads,
             \/ PingCheck(t) \/ SendBegin(t) \/ SendAlloc(t) \/ SendPutId(t)
             \/ (\E i \in Index : RecvLoad(t, i)) \/ RecvErase(t)
             \/ WriteBegin(t) \/ ReadBegin(t) \/ StateCall(t)
      PROVE  KindInv'
  <2>1. UNCHANGED <<sent, done, fifo_send_types>>
    BY Zenon, <1>4 DEF PingCheck, SendBegin, SendAlloc, SendPutId, RecvLoad, RecvErase,
       WriteBegin, ReadBegin, StateCall, driverVars
  <2>2. raced => raced'
    BY Zenon, <1>4 DEF PingCheck, SendBegin, SendAlloc, SendPutId, RecvLoad, RecvErase,
       WriteBegin, ReadBegin, StateCall, histVars, Overtake
  <2>3. pc[t] \in {"idle", "send_alloc", "send_id", "recv_erase"}
    BY <1>4 DEF PingCheck, SendBegin, SendAlloc, SendPutId, RecvLoad, RecvErase,
       WriteBegin, ReadBegin, StateCall, Calling
  <2>4. \E l \in {"idle", "oops", "ping_send", "send_send", "send_id", "recv_erase",
                  "write_first", "read_get"} : Goto(t, l)
    BY <1>4 DEF PingCheck, SendBegin, SendAlloc, SendPutId, RecvLoad, RecvErase,
       WriteBegin, ReadBegin, StateCall, Return
  <2>5. QED
    BY <1>2, <2>1, <2>2, <2>3, <2>4
<1>5. ASSUME NEW t \in Threads, PingSend(t) PROVE KindInv'
  BY <1>3, <1>5 DEF PingSend, driverVars
<1>6. ASSUME NEW t \in Threads, SendSend(t) PROVE KindInv'
  BY <1>3, <1>6 DEF SendSend, driverVars
<1>7. ASSUME NEW t \in Threads, WriteSend(t) PROVE KindInv'
  BY <1>3, <1>7 DEF WriteSend, driverVars
<1>8. ASSUME NEW t \in Threads, PingPut(t) PROVE KindInv'
  BY <1>1, <1>8 DEF PingPut, Return
<1>9. ASSUME NEW t \in Threads, SendPut(t) PROVE KindInv'
  <2>1. Goto(t, "idle") \/ Goto(t, "send_alloc")
    BY Zenon, <1>9 DEF SendPut, Return
  <2>2. QED
    BY <1>1, <1>9, <2>1 DEF SendPut
<1>10. ASSUME NEW t \in Threads, WriteFirst(t) \/ WritePut(t) PROVE KindInv'
  <2>1. Goto(t, "idle") \/ Goto(t, "write_send")
    BY Zenon, <1>10 DEF WriteFirst, WritePut, Return
  <2>2. PutType(t, SENT_MSG_EXTERNAL_FIFO) /\ UNCHANGED <<sent, done>>
    BY Zenon, <1>10 DEF WriteFirst, WritePut
  <2>3. QED
    BY <1>1, <2>1, <2>2
<1>11. ASSUME NEW t \in Threads, ReadGet(t) PROVE KindInv'
  <2>1. raced => raced'
    BY Zenon, <1>11 DEF ReadGet, Overtake
  <2>2. CASE Goto(t, "idle")
    BY <1>2, <1>11, <2>1, <2>2 DEF ReadGet
  <2>3. CASE UNCHANGED pc
    BY <1>11, <2>1, <2>3 DEF ReadGet, KindInv, KindForEveryAnswer, Unqueued
  <2>4. QED
    BY Zenon, <1>11, <2>2, <2>3 DEF ReadGet, Return
<1>12. CASE RemoteSilent
  <2>1. UNCHANGED <<pc, sent, fifo_send_types, raced>> /\ done' = done + 1
    BY <1>12 DEF RemoteSilent, driverVars, threadVars
  <2>2. U' = U
    BY <2>1 DEF Unqueued
  <2>3. QED
    BY <1>a, <1>b, <1>c, <1>d, <2>1, <2>2 DEF KindInv, KindForEveryAnswer
<1>13. ASSUME NEW a \in AllAnswers, CbMessage(a) PROVE KindInv'
  <2>1. UNCHANGED <<pc, sent, raced>> /\ done' = done + 1 /\ done < Len(sent)
    BY <1>13 DEF CbMessage, threadVars
  <2>2. U' = U
    BY <2>1 DEF Unqueued
  <2>3. Q' \in Nat /\ Q' >= Q - 1
    BY <1>13, <1>a, TailType DEF CbMessage
  <2>4. QED
    BY <1>a, <1>b, <1>c, <1>d, <2>1, <2>2, <2>3 DEF KindInv, KindForEveryAnswer
<1>14. CASE CbStore \/ Probe \/ UNCHANGED vars
  BY <1>14 DEF CbStore, Probe, vars, driverVars, threadVars, histVars, KindInv,
     KindForEveryAnswer, Unqueued
<1>15. CASE Remove
  <2>1. UNCHANGED <<pc, sent, fifo_send_types, raced>> /\ done' = Len(sent)
    BY <1>15 DEF Remove, threadVars
  <2>2. U' = U
    BY <2>1 DEF Unqueued
  <2>3. QED
    BY <1>a, <1>b, <1>c, <2>1, <2>2 DEF KindInv, KindForEveryAnswer
<1>16. QED
  BY Zenon, <1>4, <1>5, <1>6, <1>7, <1>8, <1>9, <1>10, <1>11, <1>12, <1>13,
     <1>14, <1>15 DEF Next, ThreadStep

\* As long as no race has torn fifo_send_types, there is a kind for every
\* unanswered request, or a thread about to queue one: whatever the calls, the
\* failures and the restarts, and although kinds are dropped from a full fifo
\* without a word.
THEOREM KindsSuffice == Spec => []KindForEveryAnswer
<1>1. Init => KindInv
  <2> SUFFICES ASSUME Init PROVE KindInv
    OBVIOUS
  <2>1. Len(sent) = 0 /\ done = 0 /\ fifo_send_types = <<>>
    BY DEF Init
  <2>2. Cardinality(Unqueued) \in Nat
    BY UnqueuedFinite
  <2>3. QED
    BY <2>1, <2>2 DEF KindInv, KindForEveryAnswer
<1>2. TypeOK /\ LocalsOK /\ KindInv /\ [Next]_vars => KindInv'
  BY KindStep
<1>3. KindInv => KindForEveryAnswer
  BY DEF KindInv
<1>4. QED
  BY <1>1, <1>2, <1>3, TypeInit, TypeStep, LocalsStep, PTL DEF Spec

=============================================================================
