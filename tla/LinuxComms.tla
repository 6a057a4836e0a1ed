----------------------------- MODULE LinuxComms ------------------------------
(***************************************************************************)
(* The communication task of the Cortex-M4: runLinuxComms() polls the      *)
(* mailbox, MAILBOX_Poll() lets OpenAMP drain the receive ring when the    *)
(* IPCC interrupt has raised a flag, and stm32ecu_recv_cb() answers each   *)
(* request while the ring is drained.                                      *)
(*                                                                         *)
(* Three parties interleave: the task; the IPCC interrupts that preempt it *)
(* on the same core; and Linux on the Cortex-A7, which is external and     *)
(* modelled by what the rings and the mailbox let it do.                   *)
(*                                                                         *)
(*   ring 1: posted, requests from Linux; the task has taken the first     *)
(*           `taken' of them and has given back `returned' buffers         *)
(*   ring 0: replies, from the task; Linux has consumed the first `recvd'  *)
(*   occupied[d][ch]: the flag of IPCC channel ch in direction d           *)
(***************************************************************************)
EXTENDS Integers, Sequences

CONSTANTS
    Commands,      \* the requests Linux sends, a subset of AllCommands
    RxBufs,        \* buffers of ring 1 (requests)
    TxBufs,        \* buffers of ring 0 (replies)
    MaxMsgs        \* bound: requests in one behaviour

\* A request as stm32ecu_recv_cb() tells them apart: PING and RESET, PARAM_GET,
\* all commands without an answer, and messages of bad length or checksum.
AllCommands == {"ping", "get", "quiet", "corrupt"}

ASSUME CommsAssumption ==
    /\ Commands \subseteq AllCommands
    /\ RxBufs \in Nat \ {0} /\ TxBufs \in Nat \ {0} /\ MaxMsgs \in Nat

VARIABLES
    posted, taken, returned,     \* ring 1
    replies, recvd,              \* ring 0
    occupied,                    \* IPCC: "toM4" and "toA7", channels 1 and 2
    msg_received_ch1, msg_received_ch2, message_received,
    pc, cur,                     \* the task: next step, request being handled
    answer,                      \* the reply being sent
    chan, back,                  \* MAILBOX_Notify(): channel, where it returns
    probed, waiting,             \* Linux: channel announced, asleep for a buffer
    kicks,                       \* Linux: signals not yet in the IPCC, per channel
    work,                        \* Linux: ring 0 is to be looked at
    lost,                        \* history: replies dropped for want of a buffer
    swallowed                    \* history: the last signal came too late (IrqCh2)

ringVars  == <<posted, taken, returned, replies, recvd>>
flagVars  == <<msg_received_ch1, msg_received_ch2, message_received>>
linuxVars == <<probed, waiting, kicks, work>>
histVars  == <<lost, swallowed>>
vars == <<ringVars, occupied, flagVars, pc, cur, answer, chan, back, linuxVars,
          histVars>>

MBOX_NO_MSG   == 0
MBOX_NEW_MSG  == 1
MBOX_BUF_FREE == 2

\* CMD_ACK for a PING; for a PARAM_GET the checksum that was calculated is not
\* stored, so it is the right one only by chance.
AnswersTo(c) ==
    CASE c = "ping" -> {"valid"} [] c = "get" -> {"valid", "badcrc"} [] OTHER -> {}

Labels == {"boot", "parked", "announce", "poll1", "clear1", "poll2", "rx",
           "callback", "txbuf", "enqueue", "notify", "return", "clear2", "delay"}

TypeOK ==
    /\ posted \in Seq(Commands) /\ Len(posted) <= MaxMsgs
    /\ taken \in 0..Len(posted) /\ returned \in 0..taken
    /\ Len(posted) - returned <= RxBufs
    /\ replies \in Seq([req : 0..MaxMsgs, kind : {"ns", "valid", "badcrc"}])
    /\ recvd \in 0..Len(replies) /\ Len(replies) - recvd <= TxBufs
    /\ occupied \in [{"toM4", "toA7"} -> [1..2 -> BOOLEAN]]
    /\ msg_received_ch1 \in {MBOX_NO_MSG, MBOX_BUF_FREE}
    /\ msg_received_ch2 \in {MBOX_NO_MSG, MBOX_NEW_MSG}
    /\ message_received \in {0, 1}
    /\ pc \in Labels /\ cur \in 0..MaxMsgs
    /\ answer \in {"none", "ns", "valid", "badcrc"}
    /\ chan \in 1..2 /\ back \in Labels
    /\ probed \in BOOLEAN /\ waiting \in BOOLEAN /\ work \in BOOLEAN
    /\ kicks \in [1..2 -> Nat]
    /\ lost \in BOOLEAN /\ swallowed \in BOOLEAN

\* MX_OPENAMP_Init() is done: interrupts are unmasked and the rings set up.
Init ==
    /\ posted = <<>> /\ taken = 0 /\ returned = 0
    /\ replies = <<>> /\ recvd = 0
    /\ occupied = [d \in {"toM4", "toA7"} |-> [ch \in 1..2 |-> FALSE]]
    /\ msg_received_ch1 = MBOX_NO_MSG /\ msg_received_ch2 = MBOX_NO_MSG
    /\ message_received = 0
    /\ pc = "boot" /\ cur = 0 /\ answer = "none" /\ chan = 1 /\ back = "poll1"
    /\ probed = FALSE /\ waiting = FALSE /\ work = FALSE
    /\ kicks = [ch \in 1..2 |-> 0]
    /\ lost = FALSE /\ swallowed = FALSE

-----------------------------------------------------------------------------
\* The task: runLinuxComms().

\* In engineering boot mode there is no Linux, and the task only sleeps.
Boot ==
    /\ pc = "boot"
    /\ pc' \in {"announce", "parked"}
    /\ UNCHANGED <<ringVars, occupied, flagVars, cur, answer, chan, back,
                   linuxVars, histVars>>

Parked == pc = "parked" /\ UNCHANGED vars

\* create_endpoint(): the name service message tells Linux of the channel.
CreateEndpoint ==
    /\ pc = "announce"
    /\ answer' = "ns"
    /\ back' = "poll1"
    /\ pc' = "txbuf"
    /\ UNCHANGED <<ringVars, occupied, flagVars, cur, chan, linuxVars, histVars>>

\* After the sleep between two polls, message_received only costs one more.
Delay ==
    /\ pc = "delay"
    /\ message_received' = 0
    /\ pc' = "poll1"
    /\ UNCHANGED <<ringVars, occupied, msg_received_ch1, msg_received_ch2, cur,
                   answer, chan, back, linuxVars, histVars>>

-----------------------------------------------------------------------------
\* MAILBOX_Poll().  Each flag is tested before the ring is processed and reset
\* afterwards.

\* The callback of ring 0, rpmsg_virtio_tx_callback(), does nothing.
PollCh1 ==
    /\ pc = "poll1"
    /\ pc' = IF msg_received_ch1 = MBOX_BUF_FREE THEN "clear1" ELSE "poll2"
    /\ UNCHANGED <<ringVars, occupied, flagVars, cur, answer, chan, back,
                   linuxVars, histVars>>

ClearCh1 ==
    /\ pc = "clear1"
    /\ msg_received_ch1' = MBOX_NO_MSG
    /\ pc' = "poll2"
    /\ UNCHANGED <<ringVars, occupied, msg_received_ch2, message_received, cur,
                   answer, chan, back, linuxVars, histVars>>

PollCh2 ==
    /\ pc = "poll2"
    /\ pc' = IF msg_received_ch2 = MBOX_NEW_MSG THEN "rx" ELSE "delay"
    /\ UNCHANGED <<ringVars, occupied, flagVars, cur, answer, chan, back,
                   linuxVars, histVars>>

ClearCh2 ==
    /\ pc = "clear2"
    /\ msg_received_ch2' = MBOX_NO_MSG
    /\ cur' = 0
    /\ pc' = "delay"
    /\ UNCHANGED <<ringVars, occupied, msg_received_ch1, message_received,
                   answer, chan, back, linuxVars, histVars>>

-----------------------------------------------------------------------------
\* rpmsg_virtio_rx_callback(): drain ring 1.

\* Mutant: one request is handled for each signal.
RxGetOne ==
    /\ pc = "rx"
    /\ IF taken < Len(posted) /\ cur = 0
          THEN /\ taken' = taken + 1 /\ cur' = taken + 1
               /\ pc' = "callback"
          ELSE UNCHANGED <<taken, cur>> /\ pc' = "clear2"
    /\ UNCHANGED <<posted, returned, replies, recvd, occupied, flagVars, answer,
                   chan, back, linuxVars, histVars>>
\* When the ring is found empty after some buffers went back, Linux is told,
\* if it has asked to be (VRING_AVAIL_F_NO_INTERRUPT is clear).
RxGet ==
    /\ pc = "rx"
    /\ \/ /\ taken < Len(posted)
          /\ taken' = taken + 1 /\ cur' = taken + 1
          /\ pc' = "callback"
          /\ UNCHANGED <<chan, back>>
       \/ /\ taken = Len(posted)
          /\ UNCHANGED <<taken, cur>>
          /\ IF cur # 0 /\ waiting
                THEN pc' = "notify" /\ chan' = 2 /\ back' = "clear2"
                ELSE pc' = "clear2" /\ UNCHANGED <<chan, back>>
    /\ UNCHANGED <<posted, returned, replies, recvd, occupied, flagVars, answer,
                   linuxVars, histVars>>

\* Mutant: commands without a case of their own are acknowledged too.
RecvCbAckAll ==
    /\ pc = "callback"
    /\ IF posted[cur] = "corrupt"
          THEN pc' = "return" /\ UNCHANGED <<answer, back>>
          ELSE answer' = "valid" /\ back' = "return" /\ pc' = "txbuf"
    /\ UNCHANGED <<ringVars, occupied, flagVars, cur, chan, linuxVars, histVars>>
\* stm32ecu_recv_cb(): which answer the request gets, if any.
RecvCb ==
    /\ pc = "callback"
    /\ LET as == AnswersTo(posted[cur]) IN
          IF as = {} THEN pc' = "return" /\ UNCHANGED <<answer, back>>
                     ELSE answer' \in as /\ back' = "return" /\ pc' = "txbuf"
    /\ UNCHANGED <<ringVars, occupied, flagVars, cur, chan, linuxVars, histVars>>

\* Mutant: the buffer of a message that was refused is kept.
RxReturnValid ==
    /\ pc = "return"
    /\ message_received' = IF posted[cur] = "corrupt" THEN message_received ELSE 1
    /\ returned' = IF posted[cur] = "corrupt" THEN returned ELSE returned + 1
    /\ pc' = "rx"
    /\ UNCHANGED <<posted, taken, replies, recvd, occupied, msg_received_ch1,
                   msg_received_ch2, cur, answer, chan, back, linuxVars, histVars>>
\* The callback is over and the buffer goes back.
RxReturn ==
    /\ pc = "return"
    /\ message_received' = IF posted[cur] = "corrupt" THEN message_received ELSE 1
    /\ returned' = returned + 1
    /\ pc' = "rx"
    /\ UNCHANGED <<posted, taken, replies, recvd, occupied, msg_received_ch1,
                   msg_received_ch2, cur, answer, chan, back, linuxVars, histVars>>

-----------------------------------------------------------------------------
\* rpmsg_send() on the M4: get a buffer of ring 0, fill it, signal.

\* Mutant: a buffer is taken for granted.
TxGetBufferAlways ==
    /\ pc = "txbuf"
    /\ pc' = "enqueue"
    /\ UNCHANGED <<ringVars, occupied, flagVars, cur, answer, chan, back,
                   linuxVars, histVars>>
\* With no buffer for 15 seconds the send fails, which nobody looks at; until
\* then the task waits here.  (The announcement always finds a buffer.)
TxGetBuffer ==
    /\ pc = "txbuf"
    /\ IF Len(replies) - recvd < TxBufs
          THEN pc' = "enqueue" /\ UNCHANGED lost
          ELSE pc' = back /\ lost' = TRUE
    /\ UNCHANGED <<ringVars, occupied, flagVars, cur, answer, chan, back,
                   linuxVars, swallowed>>

\* Mutant: an answer is left in the ring without a signal.
TxEnqueueQuietly ==
    /\ pc = "enqueue"
    /\ replies' = Append(replies, [req |-> cur, kind |-> answer])
    /\ pc' = IF answer = "ns" THEN "notify" ELSE back
    /\ UNCHANGED <<posted, taken, returned, recvd, occupied, flagVars, cur,
                   answer, chan, back, linuxVars, histVars>>
TxEnqueue ==
    /\ pc = "enqueue"
    /\ replies' = Append(replies, [req |-> cur, kind |-> answer])
    /\ chan' = 1
    /\ pc' = "notify"
    /\ UNCHANGED <<posted, taken, returned, recvd, occupied, flagVars, cur,
                   answer, back, linuxVars, histVars>>

\* MAILBOX_Notify(): wait until the channel is free, then occupy it.
Notify ==
    /\ pc = "notify"
    /\ ~occupied["toA7"][chan]
    /\ occupied' = [occupied EXCEPT !["toA7"][chan] = TRUE]
    /\ pc' = back
    /\ UNCHANGED <<ringVars, flagVars, cur, answer, chan, back, linuxVars,
                   histVars>>

-----------------------------------------------------------------------------
\* The IPCC interrupts of the M4: raise the flag, free the channel.

IrqCh1 ==
    /\ occupied["toM4"][1]
    /\ msg_received_ch1' = MBOX_BUF_FREE
    /\ occupied' = [occupied EXCEPT !["toM4"][1] = FALSE]
    /\ UNCHANGED <<ringVars, msg_received_ch2, message_received, pc, cur, answer,
                   chan, back, linuxVars, histVars>>

\* The task has found ring 1 empty and is about to reset the flag: a signal that
\* comes now for a request that came now is swallowed, unless another follows.
PastLastLook == pc = "clear2" \/ (pc = "notify" /\ back = "clear2")

\* Mutant: the signal is acknowledged but the flag is not raised.
IrqCh2NoFlag ==
    /\ occupied["toM4"][2]
    /\ occupied' = [occupied EXCEPT !["toM4"][2] = FALSE]
    /\ swallowed' = FALSE
    /\ UNCHANGED <<ringVars, flagVars, pc, cur, answer, chan, back, linuxVars, lost>>
IrqCh2 ==
    /\ occupied["toM4"][2]
    /\ msg_received_ch2' = MBOX_NEW_MSG
    /\ occupied' = [occupied EXCEPT !["toM4"][2] = FALSE]
    /\ swallowed' = (PastLastLook /\ taken < Len(posted) /\ kicks[2] = 0)
    /\ UNCHANGED <<ringVars, msg_received_ch1, message_received, pc, cur, answer,
                   chan, back, linuxVars, lost>>

-----------------------------------------------------------------------------
\* Linux (external): rpmsg_send(), the mailbox controller, the ring 0 worker.

LinuxPost(c) ==
    /\ probed /\ Len(posted) < MaxMsgs /\ Len(posted) - returned < RxBufs
    /\ posted' = Append(posted, c)
    /\ kicks' = [kicks EXCEPT ![2] = @ + 1]
    /\ waiting' = FALSE
    /\ UNCHANGED <<taken, returned, replies, recvd, occupied, flagVars, pc, cur,
                   answer, chan, back, probed, work, histVars>>

\* All buffers are out: the sender enables the interrupt of the ring and sleeps.
LinuxWait ==
    /\ Len(posted) < MaxMsgs /\ Len(posted) - returned = RxBufs /\ ~waiting
    /\ waiting' = TRUE
    /\ UNCHANGED <<ringVars, occupied, flagVars, pc, cur, answer, chan, back,
                   probed, kicks, work, histVars>>

\* The mailbox controller holds a signal back while its channel is occupied.
LinuxKick(ch) ==
    /\ kicks[ch] > 0 /\ ~occupied["toM4"][ch]
    /\ kicks' = [kicks EXCEPT ![ch] = @ - 1]
    /\ occupied' = [occupied EXCEPT !["toM4"][ch] = TRUE]
    /\ UNCHANGED <<ringVars, flagVars, pc, cur, answer, chan, back, probed,
                   waiting, work, histVars>>

LinuxIrq(ch) ==
    /\ occupied["toA7"][ch]
    /\ occupied' = [occupied EXCEPT !["toA7"][ch] = FALSE]
    /\ work' = (work \/ ch = 1)
    /\ UNCHANGED <<ringVars, flagVars, pc, cur, answer, chan, back, probed,
                   waiting, kicks, histVars>>

\* The worker hands a reply to the driver (or probes it), or has found the ring
\* empty and tells the M4 that buffers went back.
LinuxReceive ==
    /\ work
    /\ IF recvd < Len(replies)
          THEN /\ recvd' = recvd + 1
               /\ probed' = (probed \/ replies[recvd + 1].kind = "ns")
               /\ UNCHANGED <<kicks, work>>
          ELSE /\ work' = FALSE
               /\ kicks' = [kicks EXCEPT ![1] = IF @ = 0 THEN 1 ELSE @]
               /\ UNCHANGED <<recvd, probed>>
    /\ UNCHANGED <<posted, taken, returned, replies, occupied, flagVars, pc, cur,
                   answer, chan, back, waiting, histVars>>

-----------------------------------------------------------------------------
Task ==
    \/ Boot \/ Parked \/ CreateEndpoint \/ Delay
    \/ PollCh1 \/ ClearCh1 \/ PollCh2 \/ ClearCh2
    \/ RxGet \/ RecvCb \/ RxReturn
    \/ TxGetBuffer \/ TxEnqueue \/ Notify

Linux ==
    \/ \E c \in Commands : LinuxPost(c)
    \/ LinuxWait
    \/ \E ch \in 1..2 : LinuxKick(ch) \/ LinuxIrq(ch)
    \/ LinuxReceive

Next == Task \/ IrqCh1 \/ IrqCh2 \/ Linux

Spec == Init /\ [][Next]_vars

\* The task runs whenever it can, interrupts are taken, and Linux serves its
\* mailbox and its work queue; it need not send anything.
Fairness ==
    /\ WF_vars(Task) /\ WF_vars(IrqCh1) /\ WF_vars(IrqCh2)
    /\ \A ch \in 1..2 : WF_vars(LinuxKick(ch)) /\ WF_vars(LinuxIrq(ch))
    /\ WF_vars(LinuxReceive)

FairSpec == Spec /\ Fairness

-----------------------------------------------------------------------------
\* A reply never lies in ring 0 unannounced: Linux is looking, or its mailbox
\* channel is occupied, or MAILBOX_Notify() is about to occupy it.
ReplySignalled ==
    recvd < Len(replies) =>
        work \/ occupied["toA7"][1] \/ (pc = "notify" /\ chan = 1)

\* The task is working on a request it has taken.
Handling == \/ pc \in {"callback", "return"}
            \/ pc \in {"txbuf", "enqueue", "notify"} /\ back = "return"

\* The task gives back every buffer it takes: none is out while it polls.
BuffersReturned == returned = IF Handling THEN taken - 1 ELSE taken

\* A signal for ring 1 that is pending, or that the task has seen and not yet
\* cleared, covers every request in the ring, unless it came too late.
RequestSignalled ==
    taken < Len(posted) =>
        \/ kicks[2] > 0 \/ occupied["toM4"][2]
        \/ msg_received_ch2 = MBOX_NEW_MSG
        \/ swallowed

\* "If we got an interrupt, ask for the corresponding virtqueue processing":
\* every request put into ring 1 is taken out of it.
RequestsServed ==
    \A n \in 1..MaxMsgs : Len(posted) >= n ~> taken >= n

\* The only way to miss a request: its signal came between the last look into
\* the ring and the reset of the flag.
ServedOrSwallowed ==
    \A n \in 1..MaxMsgs : Len(posted) >= n ~> (taken >= n \/ swallowed)

\* A ping is answered once it has been taken, if no reply was ever dropped.
PingAnswered ==
    \A n \in 1..MaxMsgs :
        (taken >= n /\ posted[n] = "ping") ~>
            (lost \/ \E k \in 1..recvd : replies[k].req = n)

\* "Note: the OpenAMP framework never notifies this": no signal on channel 2.
NeverNotifiesRing1 == ~(pc = "notify" /\ chan = 2)

\* The name service message is the first reply; the rest are answers.
Answers == SubSeq(replies, 2, recvd)

Channel == INSTANCE RequestChannel WITH sent <- posted, answers <- Answers

\* The task and the rings give the driver what RequestChannel promises.
ChannelSpec == Channel!Spec

=============================================================================
