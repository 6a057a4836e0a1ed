-------------------------- MODULE LinuxCommsProofs --------------------------
(***************************************************************************)
(* Theorems about LinuxComms, for every number of buffers and of requests: *)
(* no buffer leaks, no reply lies unannounced, every request is covered by *)
(* a signal unless one was swallowed, and the task and the rings implement *)
(* RequestChannel.                                                         *)
(***************************************************************************)
EXTENDS LinuxComms, SequenceTheorems, TLAPS

USE CommsAssumption

-----------------------------------------------------------------------------
\* Types and buffers.

\* Where the task is: to where a send returns, which request it is working on,
\* and that a buffer of ring 0 that was found free stays free until it is filled.
Control ==
    /\ pc \in {"txbuf", "enqueue"} => back \in {"poll1", "return"} /\ answer # "none"
    /\ pc = "notify" => back \in {"poll1", "return", "clear2"}
    /\ Handling => cur = taken /\ taken > 0
    /\ pc = "enqueue" => Len(replies) - recvd < TxBufs

BufferInv == TypeOK /\ Control /\ BuffersReturned

\* MX_OPENAMP_Init() leaves empty rings and free channels.
LEMMA BufferInit == Init => BufferInv
  <1> SUFFICES ASSUME Init PROVE BufferInv
    OBVIOUS
  <1>1. BuffersReturned
    BY DEF Init, BuffersReturned, Handling
  <1>2. Control
    BY DEF Init, Control, Handling
  <1>3. posted \in Seq(Commands) /\ Len(posted) = 0
    BY DEF Init
  <1>4. /\ replies \in Seq([req : 0..MaxMsgs, kind : {"ns", "valid", "badcrc"}])
        /\ Len(replies) = 0
    BY DEF Init
  <1>5. occupied \in [{"toM4", "toA7"} -> [1..2 -> BOOLEAN]] /\ kicks \in [1..2 -> Nat]
    BY DEF Init
  <1>6. /\ probed \in BOOLEAN /\ waiting \in BOOLEAN /\ work \in BOOLEAN
        /\ lost \in BOOLEAN /\ swallowed \in BOOLEAN
    BY Zenon DEF Init
  <1>7. TypeOK
    BY <1>3, <1>4, <1>5, <1>6
       DEF Init, TypeOK, Labels, MBOX_NO_MSG, MBOX_BUF_FREE, MBOX_NEW_MSG
  <1>8. QED
    BY <1>1, <1>2, <1>7 DEF BufferInv

\* The steps of runLinuxComms() and MAILBOX_Poll(), which leave the rings alone.
LEMMA BufferPoll ==
    ASSUME BufferInv,
           Boot \/ Parked \/ CreateEndpoint \/ Delay \/ PollCh1 \/ ClearCh1 \/ PollCh2
             \/ ClearCh2
    PROVE  BufferInv'
  <1> USE DEF BufferInv, TypeOK, Control, BuffersReturned, Handling, Labels,
              MBOX_NO_MSG, MBOX_BUF_FREE, MBOX_NEW_MSG, ringVars, flagVars,
              linuxVars, histVars
  <1>1. CASE Boot
    BY <1>1 DEF Boot
  <1>2. CASE Parked
    BY <1>2 DEF Parked, vars
  <1>3. CASE CreateEndpoint
    BY <1>3 DEF CreateEndpoint
  <1>4. CASE Delay
    BY <1>4 DEF Delay
  <1>5. CASE PollCh1
    BY <1>5 DEF PollCh1
  <1>6. CASE ClearCh1
    BY <1>6 DEF ClearCh1
  <1>7. CASE PollCh2
    BY <1>7 DEF PollCh2
  <1>8. CASE ClearCh2
    BY <1>8 DEF ClearCh2
  <1>9. QED
    BY <1>1, <1>2, <1>3, <1>4, <1>5, <1>6, <1>7, <1>8

\* rpmsg_virtio_rx_callback() and stm32ecu_recv_cb(): a buffer is taken and given back.
LEMMA BufferRx ==
    ASSUME BufferInv, RxGet \/ RecvCb \/ RxReturn
    PROVE  BufferInv'
  <1> USE DEF BufferInv, TypeOK, Control, BuffersReturned, Handling, Labels
  <1>1. CASE RxGet
    <2>1. /\ taken' \in 0..Len(posted) /\ returned' \in 0..taken'
          /\ pc' \in Labels /\ cur' \in 0..MaxMsgs /\ chan' \in 1..2 /\ back' \in Labels
      BY <1>1 DEF RxGet
    <2>2. TypeOK'
      BY <1>1, <2>1 DEF RxGet, flagVars, linuxVars, histVars
    <2>3. Control'
      BY <1>1 DEF RxGet
    <2>4. BuffersReturned'
      BY <1>1 DEF RxGet
    <2>5. QED
      BY <2>2, <2>3, <2>4
  <1>2. CASE RecvCb
    <2>1. /\ pc' \in Labels /\ answer' \in {"none", "ns", "valid", "badcrc"}
          /\ back' \in Labels
      BY <1>2 DEF RecvCb, AnswersTo
    <2>2. TypeOK'
      BY <1>2, <2>1 DEF RecvCb, ringVars, flagVars, linuxVars, histVars
    <2>3. Control' /\ BuffersReturned'
      BY <1>2 DEF RecvCb, AnswersTo, ringVars
    <2>4. QED
      BY <2>2, <2>3
  <1>3. CASE RxReturn
    BY <1>3 DEF RxReturn, linuxVars, histVars
  <1>4. QED
    BY <1>1, <1>2, <1>3

\* rpmsg_send() and MAILBOX_Notify(): the send uses a buffer that is free.
LEMMA BufferTx ==
    ASSUME BufferInv, TxGetBuffer \/ TxEnqueue \/ Notify
    PROVE  BufferInv'
  <1> USE DEF BufferInv, TypeOK, Control, BuffersReturned, Handling, Labels
  <1>1. CASE TxGetBuffer
    <2>1. pc' \in Labels
      BY <1>1 DEF TxGetBuffer
    <2>2. lost' \in BOOLEAN
      BY Zenon, <1>1 DEF TxGetBuffer
    <2>3. TypeOK'
      BY <1>1, <2>1, <2>2 DEF TxGetBuffer, ringVars, flagVars, linuxVars, histVars
    <2>4. Control' /\ BuffersReturned'
      BY <1>1 DEF TxGetBuffer, ringVars
    <2>5. QED
      BY <2>3, <2>4
  <1>2. CASE TxEnqueue
    BY <1>2 DEF TxEnqueue, flagVars, linuxVars, histVars
  <1>3. CASE Notify
    BY <1>3 DEF Notify, ringVars, flagVars, linuxVars, histVars
  <1>4. QED
    BY <1>1, <1>2, <1>3

\* The interrupts.
LEMMA BufferIrq ==
    ASSUME BufferInv, IrqCh1 \/ IrqCh2
    PROVE  BufferInv'
  <1> USE DEF BufferInv, TypeOK, Control, BuffersReturned, Handling, Labels,
              MBOX_NO_MSG, MBOX_BUF_FREE, MBOX_NEW_MSG, ringVars, linuxVars, histVars
  <1>1. CASE IrqCh1
    BY <1>1 DEF IrqCh1
  <1>2. CASE IrqCh2
    BY <1>2 DEF IrqCh2
  <1>3. QED
    BY <1>1, <1>2

\* Linux: it posts only into a buffer that has come back.
LEMMA BufferLinux ==
    ASSUME BufferInv, Linux
    PROVE  BufferInv'
  <1> USE DEF BufferInv, TypeOK, Control, BuffersReturned, Handling, Labels
  <1>1. ASSUME NEW c \in Commands, LinuxPost(c)
        PROVE  BufferInv'
    <2>1. /\ posted' \in Seq(Commands) /\ Len(posted') = Len(posted) + 1
          /\ kicks' \in [1..2 -> Nat]
      BY <1>1 DEF LinuxPost
    <2>2. waiting' \in BOOLEAN
      BY Zenon, <1>1 DEF LinuxPost
    <2>3. TypeOK'
      BY <1>1, <2>1, <2>2 DEF LinuxPost, flagVars, histVars
    <2>4. Control' /\ BuffersReturned'
      BY <1>1 DEF LinuxPost
    <2>5. QED
      BY <2>3, <2>4
  <1>2. CASE LinuxWait
    BY <1>2 DEF LinuxWait, ringVars, flagVars, histVars
  <1>3. ASSUME NEW ch \in 1..2, LinuxKick(ch)
        PROVE  BufferInv'
    BY <1>3 DEF LinuxKick, ringVars, flagVars, histVars
  <1>4. ASSUME NEW ch \in 1..2, LinuxIrq(ch)
        PROVE  BufferInv'
    BY <1>4 DEF LinuxIrq, ringVars, flagVars, histVars
  <1>5. CASE LinuxReceive
    <2>1. \/ recvd < Len(replies) /\ recvd' = recvd + 1 /\ UNCHANGED kicks
          \/ recvd' = recvd /\ kicks' = [kicks EXCEPT ![1] = IF @ = 0 THEN 1 ELSE @]
      BY Zenon, <1>5 DEF LinuxReceive
    <2>2. recvd' \in recvd..Len(replies) /\ kicks' \in [1..2 -> Nat]
      BY <2>1
    <2>3. work' \in BOOLEAN /\ probed' \in BOOLEAN
      <3>1. work \in BOOLEAN /\ probed \in BOOLEAN
        OBVIOUS
      <3>2. /\ work' = work \/ work' = FALSE
            /\ probed' = probed \/ probed' = (probed \/ replies[recvd + 1].kind = "ns")
        BY Zenon, <1>5 DEF LinuxReceive
      <3>3. QED
        BY Zenon, <3>1, <3>2
    <2>4. TypeOK'
      BY <1>5, <2>2, <2>3, SMTT(30) DEF LinuxReceive, flagVars, histVars
    <2>5. QED
      BY <1>5, <2>2, <2>4 DEF LinuxReceive
  <1>6. QED
    BY Zenon, <1>1, <1>2, <1>3, <1>4, <1>5 DEF Linux

\* Every step.
LEMMA BufferStep == BufferInv /\ [Next]_vars => BufferInv'
  <1> SUFFICES ASSUME BufferInv, [Next]_vars PROVE BufferInv'
    OBVIOUS
  <1>1. CASE Task
    BY Zenon, <1>1, BufferPoll, BufferRx, BufferTx DEF Task
  <1>2. CASE UNCHANGED vars
    BY <1>2 DEF BufferInv, TypeOK, Control, BuffersReturned, Handling, vars, ringVars,
                flagVars, linuxVars, histVars
  <1>3. QED
    BY Zenon, <1>1, <1>2, BufferIrq, BufferLinux DEF Next

\* BufferInv is an invariant.
LEMMA BufferAlways == Spec => []BufferInv
  BY BufferInit, BufferStep, PTL DEF Spec

\* The rings never hold more than their buffers, whatever the task, its
\* interrupts and Linux do.
THEOREM CommsTypes == Spec => []TypeOK
  <1>1. BufferInv => TypeOK
    BY DEF BufferInv
  <1>2. QED
    BY <1>1, BufferAlways, PTL

\* rpmsg_virtio_rx_callback() gives back every buffer it takes, whether the
\* request is answered, refused, or its answer finds no buffer.
THEOREM BuffersComeBack == Spec => []BuffersReturned
  <1>1. BufferInv => BuffersReturned
    BY DEF BufferInv
  <1>2. QED
    BY <1>1, BufferAlways, PTL

-----------------------------------------------------------------------------
\* Signals.

\* MAILBOX_Notify() and the interrupt of Linux never leave a gap: a reply is put
\* into the ring before its signal is given, and Linux stops looking only at an
\* empty ring.
LEMMA ReplyStep == TypeOK /\ ReplySignalled /\ [Next]_vars => ReplySignalled'
  <1> SUFFICES ASSUME TypeOK, ReplySignalled, [Next]_vars PROVE ReplySignalled'
    OBVIOUS
  <1> USE DEF ReplySignalled
  <1>1. ASSUME UNCHANGED <<replies, recvd, work, occupied, chan>>, pc # "notify"
        PROVE  ReplySignalled'
    BY <1>1
  <1>2. CASE Task
    <2>1. CASE TxEnqueue
      BY <2>1 DEF TxEnqueue
    <2>2. CASE Notify
      BY <2>2 DEF Notify, TypeOK, ringVars, linuxVars
    <2>3. CASE RxGet
      BY <2>3 DEF RxGet, linuxVars
    <2>4. CASE Boot \/ Parked \/ CreateEndpoint \/ Delay \/ PollCh1 \/ ClearCh1 \/ PollCh2
                 \/ ClearCh2 \/ RecvCb \/ RxReturn \/ TxGetBuffer
      BY <1>1, <2>4 DEF Boot, Parked, CreateEndpoint, Delay, PollCh1, ClearCh1, PollCh2,
            ClearCh2, RecvCb, RxReturn, TxGetBuffer, ringVars, linuxVars, vars
    <2>5. QED
      BY Zenon, <1>2, <2>1, <2>2, <2>3, <2>4 DEF Task
  <1>3. CASE IrqCh1 \/ IrqCh2
    BY <1>3 DEF IrqCh1, IrqCh2, TypeOK, ringVars, linuxVars
  <1>4. CASE Linux
    <2>1. ASSUME NEW c \in Commands, LinuxPost(c)
          PROVE  ReplySignalled'
      BY <2>1 DEF LinuxPost
    <2>2. CASE LinuxWait
      BY <2>2 DEF LinuxWait, ringVars
    <2>3. ASSUME NEW ch \in 1..2, LinuxKick(ch)
          PROVE  ReplySignalled'
      BY <2>3 DEF LinuxKick, TypeOK, ringVars
    <2>4. ASSUME NEW ch \in 1..2, LinuxIrq(ch)
          PROVE  ReplySignalled'
      BY <2>4 DEF LinuxIrq, TypeOK, ringVars
    <2>5. CASE LinuxReceive
      BY <2>5 DEF LinuxReceive, TypeOK
    <2>6. QED
      BY Zenon, <1>4, <2>1, <2>2, <2>3, <2>4, <2>5 DEF Linux
  <1>5. CASE UNCHANGED vars
    BY <1>5 DEF vars, ringVars, linuxVars
  <1>6. QED
    BY Zenon, <1>2, <1>3, <1>4, <1>5 DEF Next

\* No reply lies in ring 0 without Linux being told of it.
THEOREM RepliesSignalled == Spec => []ReplySignalled
  <1>1. Init => ReplySignalled
    BY DEF Init, ReplySignalled
  <1>2. QED
    BY <1>1, ReplyStep, CommsTypes, PTL DEF Spec

\* Between the last look into ring 1 and the reset of the flag, the flag does
\* not count: a request in the ring has another signal, or it was swallowed.
LateSignal ==
    PastLastLook /\ taken < Len(posted) =>
        kicks[2] > 0 \/ occupied["toM4"][2] \/ swallowed

SignalInv == RequestSignalled /\ LateSignal

\* Only ClearCh2 takes a signal away without looking into the ring, and
\* PastLastLook begins with an empty ring.
LEMMA SignalStep == BufferInv /\ SignalInv /\ [Next]_vars => SignalInv'
  <1> SUFFICES ASSUME BufferInv, SignalInv, [Next]_vars PROVE SignalInv'
    OBVIOUS
  <1> USE DEF SignalInv, RequestSignalled, LateSignal, PastLastLook
  <1>1. CASE Task
    <2>1. CASE ClearCh2
      BY <2>1 DEF ClearCh2, ringVars, linuxVars, histVars
    <2>2. CASE RxGet
      BY <2>2 DEF RxGet, flagVars, linuxVars, histVars, BufferInv, TypeOK
    <2>3. CASE Notify
      BY <2>3 DEF Notify, ringVars, flagVars, linuxVars, histVars, BufferInv, TypeOK, Control
    <2>4. CASE TxGetBuffer
      BY <2>4 DEF TxGetBuffer, ringVars, flagVars, linuxVars, BufferInv, Control
    <2>5. CASE TxEnqueue
      BY <2>5 DEF TxEnqueue, flagVars, linuxVars, histVars, BufferInv, Control
    <2>6. CASE Boot \/ Parked \/ CreateEndpoint \/ Delay \/ PollCh1 \/ ClearCh1 \/ PollCh2
                 \/ RecvCb \/ RxReturn
      BY <2>6 DEF Boot, Parked, CreateEndpoint, Delay, PollCh1, ClearCh1, PollCh2, RecvCb,
            RxReturn, ringVars, flagVars, linuxVars, histVars, vars
    <2>7. QED
      BY Zenon, <1>1, <2>1, <2>2, <2>3, <2>4, <2>5, <2>6 DEF Task
  <1>2. CASE IrqCh1
    BY <1>2 DEF IrqCh1, BufferInv, TypeOK, ringVars, linuxVars, histVars
  <1>3. CASE IrqCh2
    BY <1>3 DEF IrqCh2, BufferInv, TypeOK, ringVars, linuxVars
  <1>4. CASE Linux
    <2>1. ASSUME NEW c \in Commands, LinuxPost(c)
          PROVE  SignalInv'
      <3>1. kicks'[2] > 0
        BY <2>1 DEF LinuxPost, BufferInv, TypeOK
      <3>2. QED
        BY <3>1
    <2>2. CASE LinuxWait
      BY <2>2 DEF LinuxWait, ringVars, flagVars, histVars
    <2>3. ASSUME NEW ch \in 1..2, LinuxKick(ch)
          PROVE  SignalInv'
      BY <2>3 DEF LinuxKick, BufferInv, TypeOK, ringVars, flagVars, histVars
    <2>4. ASSUME NEW ch \in 1..2, LinuxIrq(ch)
          PROVE  SignalInv'
      BY <2>4 DEF LinuxIrq, BufferInv, TypeOK, ringVars, flagVars, histVars
    <2>5. CASE LinuxReceive
      <3>1. UNCHANGED <<posted, taken, occupied, msg_received_ch2, pc, back, swallowed>>
        BY Zenon, <2>5 DEF LinuxReceive, flagVars, histVars
      <3>2. kicks' = kicks \/ kicks' = [kicks EXCEPT ![1] = IF @ = 0 THEN 1 ELSE @]
        BY Zenon, <2>5 DEF LinuxReceive
      <3>3. kicks'[2] = kicks[2]
        BY <3>2 DEF BufferInv, TypeOK
      <3>4. QED
        BY <3>1, <3>3
    <2>6. QED
      BY Zenon, <1>4, <2>1, <2>2, <2>3, <2>4, <2>5 DEF Linux
  <1>5. CASE UNCHANGED vars
    BY <1>5 DEF vars, ringVars, flagVars, linuxVars, histVars
  <1>6. QED
    BY Zenon, <1>1, <1>2, <1>3, <1>4, <1>5 DEF Next

\* The window between the last look and the reset of the flag is the only way for
\* MAILBOX_Poll() to miss a request, with any number of them.
THEOREM RequestsSignalled == Spec => []RequestSignalled
  <1>1. Init => SignalInv
    BY DEF Init, SignalInv, RequestSignalled, LateSignal
  <1>2. SignalInv => RequestSignalled
    BY DEF SignalInv
  <1>3. QED
    BY <1>1, <1>2, SignalStep, BufferAlways, PTL DEF Spec

-----------------------------------------------------------------------------
\* The refinement of RequestChannel.

\* A send is under way and its message is not yet in the ring.
Sending == pc \in {"txbuf", "enqueue"}
Reply == [req : 0..MaxMsgs, kind : {"ns", "valid", "badcrc"}]

\* The announcement is the first reply.  The others answer requests that have
\* been taken, in the order of the requests; the next one to be sent answers the
\* request taken last, which has no answer yet.
AnswerInv ==
    /\ pc \in {"boot", "announce"} \/ (Sending /\ back = "poll1") => replies = <<>>
    /\ Sending /\ back = "return" => answer \in AnswersTo(posted[taken])
    /\ \A k \in 2..Len(replies) :
          /\ replies[k].req \in 1..taken
          /\ replies[k].kind \in AnswersTo(posted[replies[k].req])
          /\ k > 2 => replies[k - 1].req < replies[k].req
          /\ pc = "callback" \/ (Sending /\ back = "return") => replies[k].req < taken

\* A step that leaves the rings alone and starts no send.
LEMMA AnswerQuiet ==
    ASSUME AnswerInv, UNCHANGED <<taken, posted, replies>>,
           \/ UNCHANGED <<pc, back, answer>>
           \/ pc' \notin {"boot", "announce", "callback", "txbuf", "enqueue"}
           \/ pc' = "enqueue" /\ pc = "txbuf" /\ UNCHANGED <<back, answer>>
    PROVE  AnswerInv'
  BY DEF AnswerInv, Sending

\* Every step: an answer is added only by TxEnqueue, for the request taken last.
LEMMA AnswerStep == BufferInv /\ AnswerInv /\ [Next]_vars => AnswerInv'
  <1> SUFFICES ASSUME BufferInv, AnswerInv, [Next]_vars PROVE AnswerInv'
    OBVIOUS
  <1>1. CASE Task
    <2>1. CASE Boot
      BY <2>1 DEF Boot, AnswerInv, Sending, ringVars
    <2>2. CASE CreateEndpoint
      BY <2>2 DEF CreateEndpoint, AnswerInv, Sending, ringVars
    <2>3. CASE RxGet
      <3>1. CASE taken < Len(posted)
        <4>1. /\ taken' = taken + 1 /\ pc' = "callback" /\ taken \in Nat
              /\ UNCHANGED <<posted, replies>>
          BY <2>3, <3>1 DEF RxGet, BufferInv, TypeOK
        <4>2. QED
          BY <4>1 DEF AnswerInv, Sending
      <3>2. CASE ~(taken < Len(posted))
        BY <2>3, <3>2, AnswerQuiet DEF RxGet
      <3>3. QED
        BY <3>1, <3>2
    <2>4. CASE RecvCb
      <3>1. cur = taken
        BY <2>4 DEF RecvCb, BufferInv, Control, Handling
      <3>2. UNCHANGED <<posted, taken, replies>>
        BY <2>4 DEF RecvCb, ringVars
      <3>3. CASE AnswersTo(posted[cur]) = {}
        BY <2>4, <3>2, <3>3, AnswerQuiet DEF RecvCb
      <3>4. CASE AnswersTo(posted[cur]) # {}
        <4>1. /\ answer' \in AnswersTo(posted[taken]) /\ back' = "return" /\ pc' = "txbuf"
              /\ pc = "callback"
          BY <2>4, <3>1, <3>4 DEF RecvCb
        <4>2. QED
          BY <3>2, <4>1 DEF AnswerInv, Sending
      <3>5. QED
        BY <3>3, <3>4
    <2>5. CASE TxEnqueue
      <3> DEFINE e == [req |-> cur, kind |-> answer]
      <3>1. replies \in Seq(Reply) /\ e \in Reply
        BY <2>5 DEF TxEnqueue, BufferInv, TypeOK, Control, Reply
      <3>2. /\ replies' = Append(replies, e) /\ pc = "enqueue" /\ pc' = "notify"
            /\ UNCHANGED <<posted, taken, back, answer>>
        BY <2>5 DEF TxEnqueue
      <3>3. /\ Len(replies') = Len(replies) + 1
            /\ \A k \in 1..Len(replies) : replies'[k] = replies[k]
            /\ replies'[Len(replies) + 1] = e
        BY <3>1, <3>2, AppendProperties
      <3>4. CASE back = "poll1"
        <4>1. Len(replies') = 1
          BY <3>1, <3>2, <3>3, <3>4 DEF AnswerInv, Sending
        <4>2. QED
          BY <3>2, <4>1 DEF AnswerInv, Sending
      <3>5. CASE back = "return"
        <4>1. /\ cur = taken /\ taken \in Nat /\ taken > 0
              /\ answer \in AnswersTo(posted[taken])
          BY <3>2, <3>5 DEF BufferInv, TypeOK, Control, Handling, AnswerInv, Sending
        <4>2. ASSUME NEW k \in 2..Len(replies')
              PROVE  /\ replies'[k].req \in 1..taken
                     /\ replies'[k].kind \in AnswersTo(posted[replies'[k].req])
                     /\ k > 2 => replies'[k - 1].req < replies'[k].req
          <5>1. Len(replies) \in Nat
            BY <3>1
          <5>2. CASE k = Len(replies) + 1
            <6>1. replies'[k].req = taken /\ replies'[k].kind = answer
              BY <3>3, <4>1, <5>2
            <6>2. k > 2 => replies'[k - 1].req < taken
              BY <3>2, <3>3, <3>5, <5>1, <5>2 DEF AnswerInv, Sending
            <6>3. QED
              BY <4>1, <6>1, <6>2
          <5>3. CASE k \in 2..Len(replies)
            BY <3>3, <5>1, <5>3 DEF AnswerInv
          <5>4. QED
            BY <3>3, <5>1, <5>2, <5>3
        <4>3. QED
          BY <3>2, <4>2 DEF AnswerInv, Sending
      <3>6. QED
        BY <3>2, <3>4, <3>5 DEF BufferInv, Control
    <2>6. CASE TxGetBuffer
      BY <2>6, AnswerQuiet DEF TxGetBuffer, ringVars, BufferInv, Control
    <2>7. CASE Notify
      BY <2>7, AnswerQuiet DEF Notify, ringVars, BufferInv, Control
    <2>8. CASE RxReturn
      BY <2>8, AnswerQuiet DEF RxReturn
    <2>9. CASE Parked \/ Delay \/ PollCh1 \/ ClearCh1 \/ PollCh2 \/ ClearCh2
      BY <2>9, AnswerQuiet DEF Parked, Delay, PollCh1, ClearCh1, PollCh2, ClearCh2, ringVars,
            vars
    <2>10. QED
      BY Zenon, <1>1, <2>1, <2>2, <2>3, <2>4, <2>5, <2>6, <2>7, <2>8, <2>9 DEF Task
  <1>2. CASE IrqCh1 \/ IrqCh2
    BY <1>2, AnswerQuiet DEF IrqCh1, IrqCh2, ringVars
  <1>3. CASE Linux
    <2>1. ASSUME NEW c \in Commands, LinuxPost(c)
          PROVE  AnswerInv'
      <3>1. posted' = Append(posted, c) /\ UNCHANGED <<taken, replies, pc, back, answer>>
        BY <2>1 DEF LinuxPost
      <3>2. posted \in Seq(Commands) /\ taken \in 0..Len(posted)
        BY DEF BufferInv, TypeOK
      <3>3. \A n \in 1..taken : posted'[n] = posted[n]
        BY <3>1, <3>2, AppendProperties
      <3>4. Sending /\ back = "return" => taken \in 1..taken
        BY <3>2 DEF BufferInv, Control, Handling, Sending
      <3>5. QED
        BY <3>1, <3>3, <3>4 DEF AnswerInv, Sending
    <2>2. CASE LinuxWait
      BY <2>2, AnswerQuiet DEF LinuxWait, ringVars
    <2>3. ASSUME NEW ch \in 1..2, LinuxKick(ch) \/ LinuxIrq(ch)
          PROVE  AnswerInv'
      BY <2>3, AnswerQuiet DEF LinuxKick, LinuxIrq, ringVars
    <2>4. CASE LinuxReceive
      BY <2>4, AnswerQuiet DEF LinuxReceive
    <2>5. QED
      BY Zenon, <1>3, <2>1, <2>2, <2>3, <2>4 DEF Linux
  <1>4. CASE UNCHANGED vars
    BY <1>4, AnswerQuiet DEF vars, ringVars
  <1>5. QED
    BY Zenon, <1>1, <1>2, <1>3, <1>4 DEF Next

\* One more element of a sequence without its first.
LEMMA NextOfSubSeq ==
    ASSUME NEW S, NEW s \in Seq(S), NEW n \in 1..(Len(s) - 1)
    PROVE  SubSeq(s, 2, n + 1) = Append(SubSeq(s, 2, n), s[n + 1])
  <1> DEFINE a == SubSeq(s, 2, n)
             b == SubSeq(s, 2, n + 1)
             c == Append(a, s[n + 1])
  <1>1. n \in Int /\ n + 1 \in Int /\ n + 1 \in 1..Len(s)
    OBVIOUS
  <1>2. \A i \in 2..(n + 1) : s[i] \in S
    BY <1>1, ElementOfSeq
  <1>3. /\ a \in Seq(S) /\ Len(a) = n - 1
        /\ \A i \in 1..(n - 1) : a[i] = s[i + 1]
    BY <1>1, <1>2, SubSeqProperties
  <1>4. /\ b \in Seq(S) /\ Len(b) = n
        /\ \A i \in 1..n : b[i] = s[i + 1]
    BY <1>1, <1>2, SubSeqProperties
  <1>5. /\ c \in Seq(S) /\ Len(c) = n
        /\ \A i \in 1..(n - 1) : c[i] = a[i]
        /\ c[n] = s[n + 1]
    BY <1>1, <1>2, <1>3, AppendProperties
  <1>6. \A i \in 1..n : b[i] = c[i]
    BY <1>3, <1>4, <1>5
  <1> HIDE DEF a, b, c
  <1>7. b = c
    BY <1>4, <1>5, <1>6, SeqEqual
  <1>8. QED
    BY <1>7 DEF a, b, c

\* What Linux has received does not depend on what is added behind it.
LEMMA SubSeqOfAppend ==
    ASSUME NEW S, NEW s \in Seq(S), NEW e \in S, NEW n \in 0..Len(s)
    PROVE  SubSeq(Append(s, e), 2, n) = SubSeq(s, 2, n)
  <1> DEFINE a == SubSeq(s, 2, n)
             b == SubSeq(Append(s, e), 2, n)
  <1>1. \A i \in 1..Len(s) : Append(s, e)[i] = s[i] /\ s[i] \in S
    BY AppendProperties, ElementOfSeq
  <1>2. \A i \in 2..n : s[i] \in S /\ Append(s, e)[i] \in S
    BY <1>1
  <1>3. /\ a \in Seq(S) /\ Len(a) = IF 2 <= n THEN n - 1 ELSE 0
        /\ \A i \in 1..(n - 1) : a[i] = s[i + 1]
    BY <1>2, SubSeqProperties
  <1>4. /\ b \in Seq(S) /\ Len(b) = IF 2 <= n THEN n - 1 ELSE 0
        /\ \A i \in 1..(n - 1) : b[i] = Append(s, e)[i + 1]
    BY <1>2, SubSeqProperties
  <1>5. \A i \in 1..Len(a) : a[i] = b[i]
    BY <1>1, <1>3, <1>4
  <1> HIDE DEF a, b
  <1>6. a = b
    BY <1>3, <1>4, <1>5, SeqEqual
  <1>7. QED
    BY <1>6 DEF a, b

\* What Linux receives next is the answer to a request later than those answered.
LEMMA ReceiveDelivers ==
    ASSUME BufferInv, AnswerInv, LinuxReceive, recvd < Len(replies), recvd > 0
    PROVE  Channel!Next
  <1> DEFINE n == replies[recvd + 1].req
             a == replies[recvd + 1].kind
  <1>1. replies \in Seq(Reply) /\ recvd \in 1..(Len(replies) - 1)
    BY DEF BufferInv, TypeOK, Reply
  <1>2. recvd' = recvd + 1 /\ UNCHANGED <<replies, posted>>
    BY Zenon DEF LinuxReceive
  <1>3. n \in 1..Len(posted) /\ a \in AnswersTo(posted[n])
    <2>1. recvd + 1 \in 2..Len(replies) /\ taken \in 0..Len(posted)
      BY <1>1 DEF BufferInv, TypeOK
    <2>2. n \in 1..taken /\ a \in AnswersTo(posted[n])
      BY <2>1 DEF AnswerInv
    <2>3. QED
      BY <2>1, <2>2
  <1>4. replies[recvd + 1] = [req |-> n, kind |-> a]
    <2>1. recvd + 1 \in 1..Len(replies)
      BY <1>1
    <2>2. replies[recvd + 1] \in Reply
      BY <1>1, <2>1, ElementOfSeq
    <2>3. QED
      BY <2>2 DEF Reply
  <1>5. Answers' = Append(Answers, [req |-> n, kind |-> a])
    BY <1>1, <1>2, <1>4, NextOfSubSeq DEF Answers
  <1>6. Answers # <<>> => Answers[Len(Answers)].req < n
    <2>1. \A i \in 2..recvd : replies[i] \in Reply
      BY <1>1
    <2>2. /\ Len(Answers) = recvd - 1
          /\ \A i \in 1..(recvd - 1) : Answers[i] = replies[i + 1]
          /\ recvd = 1 => Answers = <<>>
      BY <1>1, <2>1, SubSeqProperties, SubSeqEmpty DEF Answers
    <2>3. CASE recvd > 1
      <3>1. Answers[Len(Answers)] = replies[recvd]
        BY <1>1, <2>2, <2>3
      <3>2. replies[recvd].req < n
        BY <1>1, <2>3 DEF AnswerInv
      <3>3. QED
        BY <3>1, <3>2
    <2>4. QED
      BY <1>1, <2>2, <2>3
  <1>7. Channel!Deliver(n, a)
    BY <1>2, <1>3, <1>5, <1>6 DEF Channel!Deliver
  <1>8. QED
    BY <1>3, <1>7 DEF Channel!Next

\* Every step is one of the channel or leaves it alone.
LEMMA ChannelStep ==
    ASSUME BufferInv, AnswerInv, [Next]_vars
    PROVE  [Channel!Next]_<<posted, Answers>>
  <1>1. ASSUME UNCHANGED <<posted, replies, recvd>>
        PROVE  UNCHANGED <<posted, Answers>>
    BY <1>1 DEF Answers
  <1>2. CASE Task
    <2>1. CASE TxEnqueue
      <3>1. replies \in Seq(Reply) /\ recvd \in 0..Len(replies)
        BY DEF BufferInv, TypeOK, Reply
      <3>2. [req |-> cur, kind |-> answer] \in Reply
        BY <2>1 DEF TxEnqueue, BufferInv, TypeOK, Control, Reply
      <3>3. /\ replies' = Append(replies, [req |-> cur, kind |-> answer])
            /\ UNCHANGED <<recvd, posted>>
        BY <2>1 DEF TxEnqueue
      <3>4. QED
        BY <3>1, <3>2, <3>3, SubSeqOfAppend DEF Answers
    <2>2. CASE Boot \/ Parked \/ CreateEndpoint \/ Delay \/ PollCh1 \/ ClearCh1 \/ PollCh2
                 \/ ClearCh2 \/ RxGet \/ RecvCb \/ RxReturn \/ TxGetBuffer \/ Notify
      <3>1. UNCHANGED <<posted, replies, recvd>>
        BY <2>2 DEF Boot, Parked, CreateEndpoint, Delay, PollCh1, ClearCh1, PollCh2,
              ClearCh2, RxGet, RecvCb, RxReturn, TxGetBuffer, Notify, ringVars, vars
      <3>2. QED
        BY <1>1, <3>1
    <2>3. QED
      BY Zenon, <1>2, <2>1, <2>2 DEF Task
  <1>3. CASE IrqCh1 \/ IrqCh2
    BY <1>1, <1>3 DEF IrqCh1, IrqCh2, ringVars
  <1>4. CASE Linux
    <2>1. ASSUME NEW c \in Commands, LinuxPost(c)
          PROVE  Channel!Next
      <3>1. posted' = Append(posted, c) /\ UNCHANGED Answers
        BY <2>1 DEF LinuxPost, Answers
      <3>2. QED
        BY <3>1 DEF Channel!Next, Channel!Post
    <2>2. CASE LinuxWait
      BY <1>1, <2>2 DEF LinuxWait, ringVars
    <2>3. ASSUME NEW ch \in 1..2, LinuxKick(ch) \/ LinuxIrq(ch)
          PROVE  UNCHANGED <<posted, Answers>>
      BY <1>1, <2>3 DEF LinuxKick, LinuxIrq, ringVars
    <2>4. CASE LinuxReceive
      <3>1. recvd \in 0..Len(replies) /\ Len(replies) \in Nat
        BY DEF BufferInv, TypeOK
      <3>2. CASE recvd < Len(replies) /\ recvd > 0
        BY <2>4, <3>2, ReceiveDelivers
      <3>3. CASE recvd < Len(replies) /\ recvd = 0
        <4>1. recvd' = 1 /\ UNCHANGED <<posted, replies>>
          BY <2>4, <3>3 DEF LinuxReceive
        <4>2. Answers = <<>> /\ Answers' = <<>>
          BY <3>3, <4>1, SubSeqEmpty DEF Answers
        <4>3. QED
          BY <4>1, <4>2
      <3>4. CASE ~(recvd < Len(replies))
        BY <1>1, <2>4, <3>4 DEF LinuxReceive
      <3>5. QED
        BY <3>1, <3>2, <3>3, <3>4
    <2>5. QED
      BY Zenon, <1>4, <2>1, <2>2, <2>3, <2>4 DEF Linux
  <1>5. CASE UNCHANGED vars
    BY <1>1, <1>5 DEF vars, ringVars
  <1>6. QED
    BY Zenon, <1>2, <1>3, <1>4, <1>5 DEF Next

\* What Linux receives are answers in the order of the requests, at most one for
\* each and only to requests that have one: RequestChannel, which is all that the
\* driver relies on, is implemented by the task and the rings.
THEOREM ImplementsChannel == Spec => ChannelSpec
  <1>1. Init => Channel!Init
    <2>1. SubSeq(<<>>, 2, 0) = <<>>
      BY SubSeqEmpty
    <2>2. QED
      BY <2>1 DEF Init, Channel!Init, Answers
  <1>2. Init => AnswerInv
    BY DEF Init, AnswerInv, Sending
  <1>3. Spec => []AnswerInv
    BY <1>2, AnswerStep, BufferAlways, PTL DEF Spec
  <1>4. BufferInv /\ AnswerInv /\ [Next]_vars => [Channel!Next]_<<posted, Answers>>
    BY ChannelStep
  <1>5. QED
    BY <1>1, <1>3, <1>4, BufferAlways, PTL DEF Spec, ChannelSpec, Channel!Spec

=============================================================================
