------------------------------ MODULE EcuDriver ------------------------------
(***************************************************************************)
(* The request/response bookkeeping of the Linux driver stm32ecu.c.        *)
(*                                                                         *)
(* User threads share one file descriptor and call ioctl(), write() and    *)
(* read() without any lock (unlocked_ioctl).  A request leaves through     *)
(* rpmsg_send() and carries no identity, so the driver remembers what it   *)
(* sent in two queues: fifo_send_types, the kind of each request, and      *)
(* fifo_unique_ids, the index under which the response to a                *)
(* STM32ECU_SEND_MSG is to be filed in the XArray rx_unique_buffer.        *)
(* rpmsg_sample_cb() pops both when a response arrives.                    *)
(*                                                                         *)
(* A step is a maximal piece of a handler that touches shared state once:  *)
(* the threads, and the callback, interleave between any two of them.      *)
(* kfifo_put() and kfifo_get() are single steps as long as one thread at a *)
(* time is in them.  They are made for one producer and one consumer       *)
(* (module Kfifo), but fifo_send_types and fifo_unique_ids have a producer *)
(* in every thread and fifo_external_msg a consumer: with two threads in   *)
(* the same operation the fifo can come out with any contents.             *)
(***************************************************************************)
EXTENDS Integers, Sequences, FiniteSets

CONSTANTS
    Threads,       \* user threads that call into the driver
    TypesSize,     \* capacity of fifo_send_types (512)
    ExternalSize,  \* capacity of fifo_external_msg (256)
    IdsSize,       \* capacity of fifo_unique_ids (256)
    MaxId,         \* XA_LIMIT(1, 1024): ids are 1..MaxId
    InFlight,      \* requests the vrings hold before rpmsg_send() fails
    MaxMsgs,       \* bound: requests sent in one behaviour
    MaxBatch,      \* bound: messages in the buffer of one write() or read()
    MaxRestarts,   \* bound: times the remote processor goes away
    MaxTorn,       \* bound: length of a fifo after a race on it
    Calls,         \* the calls user space makes
    Answers,       \* what the remote does with a request
    OneAtATime,    \* TRUE: a call starts only when no other is in progress
    RepliesWait    \* TRUE: no reply before its sender finished bookkeeping

AllCalls   == {"ping", "send", "recv", "write", "read", "state"}
AllAnswers == {"valid", "badcrc", "none"}

ASSUME DriverAssumption ==
    /\ Threads # {} /\ IsFiniteSet(Threads)
    /\ TypesSize \in Nat \ {0} /\ ExternalSize \in Nat \ {0}
    /\ IdsSize \in Nat \ {0} /\ MaxId \in Nat \ {0}
    /\ InFlight \in Nat \ {0} /\ MaxMsgs \in Nat
    /\ MaxBatch \in Nat /\ MaxRestarts \in Nat /\ MaxTorn \in Nat
    /\ Calls \subseteq AllCalls /\ Answers \subseteq AllAnswers
    /\ OneAtATime \in BOOLEAN /\ RepliesWait \in BOOLEAN

\* The vrings have 16 buffers each, fifo_send_types has 512 elements.
ASSUME VringsFit == InFlight <= TypesSize

\* enum sent_msg_t
SENT_MSG_INTERNAL        == 0
SENT_MSG_EXTERNAL_UNIQUE == 1
SENT_MSG_EXTERNAL_FIFO   == 2
SentMsgTypes == {SENT_MSG_INTERNAL, SENT_MSG_EXTERNAL_UNIQUE,
                 SENT_MSG_EXTERNAL_FIFO}

\* A slot of the XArray: free, reserved by xa_alloc_cyclic() with a NULL entry,
\* or holding the response to request number n > 0.
FREE     == -1
RESERVED == 0

\* Index 0 stands for every XArray index outside the allocation limit.
Ids   == 1..MaxId
Index == 0..MaxId

VARIABLES
    sent,              \* log: kind of every request rpmsg_send() accepted
    done,              \* how many of them the remote has dealt with, in order
    fifo_send_types, fifo_external_msg, fifo_unique_ids, rx_unique_buffer,
    next,              \* static u32 next of STM32ECU_SEND_MSG
    value,             \* the word SET_STATE stores and GET_STATE returns
    global_rproc_ref,  \* "null", "live", or "gone": freed but still pointed to
    restarts,          \* how often the remote has gone away (see MaxRestarts)
    pc, ret,           \* per thread: next step, result of the last call
    req, id, left,     \* per thread: request number, XArray index, loop count
    cb,                \* number of the response rpmsg_sample_cb() is filing, or 0
    overtaken,         \* threads in a fifo operation that another thread has
                       \* completed meanwhile
    owner,             \* history: request for which an id was last allocated
    mishap,            \* history: requests, kinds and ids need not match any more
    raced,             \* history: two threads were in one fifo operation
    phantom            \* history: read() counted a message it did not get

driverVars == <<fifo_send_types, fifo_external_msg, fifo_unique_ids,
                rx_unique_buffer, next, value, global_rproc_ref>>
threadVars == <<pc, ret, req, id, left>>
histVars   == <<overtaken, owner, mishap, raced, phantom>>
vars == <<sent, done, driverVars, restarts, threadVars, cb, histVars>>

Labels == {"idle", "oops", "ping_send", "ping_put", "send_send", "send_put",
           "send_alloc", "send_id", "recv_erase", "write_first", "write_send",
           "write_put", "read_get"}
Results == {"none", "OK", "SHORT", "EINVAL", "EAGAIN", "ESEND"}

TypeOK ==
    /\ sent \in Seq(SentMsgTypes) /\ Len(sent) <= MaxMsgs
    /\ done \in 0..Len(sent)
    /\ fifo_send_types \in Seq(SentMsgTypes)
    /\ fifo_external_msg \in Seq(0..MaxMsgs)
    /\ fifo_unique_ids \in Seq(Index)
    /\ ~raced => /\ Len(fifo_send_types) <= TypesSize
                 /\ Len(fifo_external_msg) <= ExternalSize
                 /\ Len(fifo_unique_ids) <= IdsSize
    /\ rx_unique_buffer \in [Index -> {FREE, RESERVED} \cup 1..MaxMsgs]
    /\ next \in 1..MaxId + 1
    /\ value \in {0, 1}
    /\ global_rproc_ref \in {"null", "live", "gone"}
    /\ restarts \in 0..MaxRestarts
    /\ pc \in [Threads -> Labels]
    /\ ret \in [Threads -> Results]
    /\ req \in [Threads -> 0..MaxMsgs]
    /\ id \in [Threads -> Index]
    /\ left \in [Threads -> 0..MaxBatch]
    /\ cb \in 0..MaxMsgs
    /\ owner \in [Index -> 0..MaxMsgs]
    /\ overtaken \subseteq Threads
    /\ mishap \in BOOLEAN /\ raced \in BOOLEAN /\ phantom \in BOOLEAN

\* Locals of a thread where they are used: a loop has iterations left, and an
\* id that is about to be queued lies within the limit of the allocation.
LocalsOK ==
    \A t \in Threads :
        /\ pc[t] \in {"write_send", "write_put", "read_get"} => left[t] > 0
        /\ pc[t] = "send_id" => id[t] \in Ids

\* The module is loaded (DEFINE_KFIFO, DEFINE_XARRAY_ALLOC1) and no channel
\* has been probed yet.
Init ==
    /\ sent = <<>> /\ done = 0
    /\ fifo_send_types = <<>> /\ fifo_external_msg = <<>>
    /\ fifo_unique_ids = <<>>
    /\ rx_unique_buffer = [i \in Index |-> FREE]
    /\ next = 1 /\ value = 0
    /\ global_rproc_ref = "null" /\ restarts = 0
    /\ pc = [t \in Threads |-> "idle"] /\ ret = [t \in Threads |-> "none"]
    /\ req = [t \in Threads |-> 0] /\ id = [t \in Threads |-> 0]
    /\ left = [t \in Threads |-> 0]
    /\ cb = 0
    /\ owner = [i \in Index |-> 0] /\ overtaken = {}
    /\ mishap = FALSE /\ raced = FALSE /\ phantom = FALSE

-----------------------------------------------------------------------------
\* Library and kernel services the handlers use.

\* Mutant: the capacity is not looked at.
kfifo_put_unchecked(q, size, x) == Append(q, x)

\* kfifo_put(): an element is added unless the fifo is full.
kfifo_put(q, size, x) == IF Len(q) < size THEN Append(q, x) ELSE q

\* The places where a thread is in an operation on the same end of a fifo:
\* kfifo_put() of a kind, kfifo_put() of an id, kfifo_get() of a message.
Ends == {{"ping_put", "send_put", "write_first", "write_put"},
         {"send_id"}, {"read_get"}}

\* The threads that are in the same operation as t; t races with them, and
\* with those that have been there and gone while t was in it.
Rivals(t) == {u \in Threads \ {t} : \E e \in Ends : {pc[t], pc[u]} \subseteq e}
Racing(t) == t \in overtaken \/ Rivals(t) # {}

\* What a race leaves in a fifo: a slot written twice or not at all, an index
\* incremented once instead of twice or set back, past the other one even.
Torn(S) == UNION {[1..k -> S] : k \in 0..MaxTorn}

\* The operation of t on a fifo is over.
Overtake(t) ==
    /\ overtaken' = (overtaken \ {t}) \cup Rivals(t)
    /\ raced' = (raced \/ Racing(t))

\* What kfifo_put() can tell t: whether the fifo is full, or, in a race, was.
FullTests(t, q, size) ==
    IF Racing(t) THEN BOOLEAN ELSE {Len(q) >= size}

\* xa_alloc_cyclic(): the first free id at or after next, else the first free.
FreeIds == {i \in Ids : rx_unique_buffer[i] = FREE}
\* Mutant: the next id is taken without looking whether it is free.
xa_alloc_blind(i) == FreeIds # {} /\ i = IF next > MaxId THEN 1 ELSE next
xa_alloc_cyclic(i) ==
    /\ i \in FreeIds
    /\ \/ i >= next /\ \A j \in FreeIds : j >= next => i <= j
       \/ \A j \in FreeIds : j < next /\ i <= j

\* Control flow of a thread: go to the next step, return, or die in the kernel.
Goto(t, l) == pc' = [pc EXCEPT ![t] = l]
Return(t, r) == Goto(t, "idle") /\ ret' = [ret EXCEPT ![t] = r]

\* User space may start a call.
Calling(t, c) ==
    /\ c \in Calls
    /\ pc[t] = "idle"
    /\ OneAtATime => \A u \in Threads : pc[u] \in {"idle", "oops"}

\* rpmsg_send(global_rproc_ref->ept, ...): the request enters the vring and the
\* thread goes on at l; or no buffer comes free in time (result err); or the reference is
\* NULL or dangling and the dereference kills the thread (a dangling one may
\* also still look like an endpoint that refuses the message).  A request
\* sent while another thread has not queued all it has to for its own may be
\* overtaken in the queues.
BookingLabels == {"ping_put", "send_put", "send_alloc", "send_id", "write_put"}
rpmsg_send(t, type, l, err) ==
    \/ /\ global_rproc_ref = "live"
       /\ Len(sent) < MaxMsgs /\ Len(sent) - done < InFlight
       /\ sent' = Append(sent, type)
       /\ req' = [req EXCEPT ![t] = Len(sent) + 1]
       /\ Goto(t, l)
       /\ mishap' = (mishap \/ \E u \in Threads : pc[u] \in BookingLabels)
       /\ UNCHANGED ret
    \/ /\ global_rproc_ref # "null"
       /\ Return(t, err)
       /\ UNCHANGED <<sent, req, mishap>>
    \/ /\ global_rproc_ref # "live"
       /\ Goto(t, "oops")
       /\ UNCHANGED <<sent, req, ret, mishap>>

-----------------------------------------------------------------------------
\* STM32ECU_PING_RPROC

\* The reference is tested first; the test of a dangling one can go either way.
PingCheck(t) ==
    /\ Calling(t, "ping")
    /\ \/ global_rproc_ref # "live" /\ Return(t, "EINVAL")
       \/ global_rproc_ref # "null" /\ Goto(t, "ping_send") /\ UNCHANGED ret
    /\ UNCHANGED <<sent, done, driverVars, restarts, req, id, left, cb, histVars>>

PingSend(t) ==
    /\ pc[t] = "ping_send"
    /\ rpmsg_send(t, SENT_MSG_INTERNAL, "ping_put", "ESEND")
    /\ UNCHANGED <<done, driverVars, restarts, id, left, cb,
                   overtaken, owner, raced, phantom>>

\* The kind of the request is queued once it has been sent.
PutType(t, type) ==
    /\ \/ fifo_send_types' = kfifo_put(fifo_send_types, TypesSize, type)
       \/ Racing(t) /\ fifo_send_types' \in Torn(SentMsgTypes)
    /\ Overtake(t)

\* Mutant: a ping is not recorded, as it expects no stored answer.
PingPutForgotten(t) ==
    /\ pc[t] = "ping_put"
    /\ Return(t, "OK")
    /\ UNCHANGED <<sent, done, driverVars, restarts, req, id, left, cb, histVars>>
\* Mutant: a ping is recorded as the message of a user.
PingPutUnique(t) ==
    /\ pc[t] = "ping_put"
    /\ PutType(t, SENT_MSG_EXTERNAL_UNIQUE)
    /\ \E full \in FullTests(t, fifo_send_types, TypesSize) :
          /\ Return(t, IF full THEN "EINVAL" ELSE "OK")
          /\ mishap' = (mishap \/ full \/ Racing(t))
    /\ UNCHANGED <<sent, done, fifo_external_msg, fifo_unique_ids,
                   rx_unique_buffer, next, value, global_rproc_ref, restarts,
                   req, id, left, cb, owner, phantom>>
PingPut(t) ==
    /\ pc[t] = "ping_put"
    /\ PutType(t, SENT_MSG_INTERNAL)
    /\ \E full \in FullTests(t, fifo_send_types, TypesSize) :
          /\ Return(t, IF full THEN "EINVAL" ELSE "OK")
          /\ mishap' = (mishap \/ full \/ Racing(t))
    /\ UNCHANGED <<sent, done, fifo_external_msg, fifo_unique_ids,
                   rx_unique_buffer, next, value, global_rproc_ref, restarts,
                   req, id, left, cb, owner, phantom>>

-----------------------------------------------------------------------------
\* STM32ECU_SEND_MSG: send, queue the kind, allocate an id, queue the id.

SendBegin(t) ==
    /\ Calling(t, "send")
    /\ \/ Return(t, "EINVAL")                        \* copy_from_user() faults
       \/ Goto(t, "send_send") /\ UNCHANGED ret
    /\ UNCHANGED <<sent, done, driverVars, restarts, req, id, left, cb, histVars>>

SendSend(t) ==
    /\ pc[t] = "send_send"
    /\ rpmsg_send(t, SENT_MSG_EXTERNAL_UNIQUE, "send_put", "ESEND")
    /\ UNCHANGED <<done, driverVars, restarts, id, left, cb,
                   overtaken, owner, raced, phantom>>

SendPut(t) ==
    /\ pc[t] = "send_put"
    /\ PutType(t, SENT_MSG_EXTERNAL_UNIQUE)
    /\ \E full \in FullTests(t, fifo_send_types, TypesSize) :
          /\ IF full THEN Return(t, "EINVAL")
                     ELSE Goto(t, "send_alloc") /\ UNCHANGED ret
          /\ mishap' = (mishap \/ full \/ Racing(t))
    /\ UNCHANGED <<sent, done, fifo_external_msg, fifo_unique_ids,
                   rx_unique_buffer, next, value, global_rproc_ref, restarts,
                   req, id, left, cb, owner, phantom>>

SendAlloc(t) ==
    /\ pc[t] = "send_alloc"
    /\ \/ /\ FreeIds = {}
          /\ Return(t, "EINVAL") /\ mishap' = TRUE
          /\ UNCHANGED <<rx_unique_buffer, next, id, owner>>
       \/ \E i \in Ids :
          /\ xa_alloc_cyclic(i)
          /\ rx_unique_buffer' = [rx_unique_buffer EXCEPT ![i] = RESERVED]
          /\ next' = i + 1
          /\ id' = [id EXCEPT ![t] = i]
          /\ owner' = [owner EXCEPT ![i] = req[t]]
          /\ Goto(t, "send_id")
          /\ UNCHANGED <<ret, mishap>>
    /\ UNCHANGED <<sent, done, fifo_send_types, fifo_external_msg,
                   fifo_unique_ids, value, global_rproc_ref, restarts, req,
                   left, cb, overtaken, raced, phantom>>

\* The id is queued and copied to the caller; a fault in that copy is reported,
\* with the request sent and the id queued all the same.
SendPutId(t) ==
    /\ pc[t] = "send_id"
    /\ \/ fifo_unique_ids' = kfifo_put(fifo_unique_ids, IdsSize, id[t])
       \/ Racing(t) /\ fifo_unique_ids' \in Torn(Index)
    /\ Overtake(t)
    /\ \E full \in FullTests(t, fifo_unique_ids, IdsSize) :
          /\ \E r \in {"OK", "EINVAL"} : (full => r = "EINVAL") /\ Return(t, r)
          /\ mishap' = (mishap \/ full \/ Racing(t))
    /\ UNCHANGED <<sent, done, fifo_send_types, fifo_external_msg,
                   rx_unique_buffer, next, value, global_rproc_ref, restarts,
                   req, id, left, cb, owner, phantom>>

-----------------------------------------------------------------------------
\* STM32ECU_RECV_MSG: look the id up, then take the entry out and copy it.

RecvLoad(t, i) ==
    /\ Calling(t, "recv")
    /\ \/ Return(t, "EINVAL") /\ UNCHANGED id        \* copy_from_user() faults
       \/ /\ rx_unique_buffer[i] \in {FREE, RESERVED}
          /\ Return(t, "EAGAIN")
          /\ UNCHANGED id
       \/ /\ rx_unique_buffer[i] \notin {FREE, RESERVED}
          /\ id' = [id EXCEPT ![t] = i]
          /\ Goto(t, "recv_erase")
          /\ UNCHANGED ret
    /\ UNCHANGED <<sent, done, driverVars, restarts, req, left, cb, histVars>>

\* Whatever is at the index by now is erased; if that is no message,
\* copy_to_user() reads from NULL, and if it is reserved for another request,
\* the id of that request is free again.
RecvErase(t) ==
    /\ pc[t] = "recv_erase"
    /\ rx_unique_buffer' = [rx_unique_buffer EXCEPT ![id[t]] = FREE]
    /\ IF rx_unique_buffer[id[t]] \in {FREE, RESERVED}
          THEN Goto(t, "oops") /\ UNCHANGED ret
          ELSE \E r \in {"OK", "EINVAL"} : Return(t, r)
    /\ mishap' = (mishap \/ rx_unique_buffer[id[t]] = RESERVED)
    /\ UNCHANGED <<sent, done, fifo_send_types, fifo_external_msg,
                   fifo_unique_ids, next, value, global_rproc_ref, restarts,
                   req, id, left, cb, overtaken, owner, raced, phantom>>

-----------------------------------------------------------------------------
\* write(): one kind is queued up front, before the buffer is looked at (a bad
\* length, a fault, a bad CRC or an empty buffer end the call there), and then
\* one more after every message that was sent.  Full fifos go unnoticed.

WriteBegin(t) ==
    /\ Calling(t, "write")
    /\ Goto(t, "write_first")
    /\ UNCHANGED <<sent, done, driverVars, restarts, ret, req, id, left, cb,
                   histVars>>

WriteFirst(t) ==
    /\ pc[t] = "write_first"
    /\ PutType(t, SENT_MSG_EXTERNAL_FIFO)
    /\ \/ Return(t, "SHORT") /\ UNCHANGED left
       \/ \E n \in 1..MaxBatch :
             /\ left' = [left EXCEPT ![t] = n]
             /\ Goto(t, "write_send")
             /\ UNCHANGED ret
    /\ mishap' = TRUE
    /\ UNCHANGED <<sent, done, fifo_external_msg, fifo_unique_ids,
                   rx_unique_buffer, next, value, global_rproc_ref, restarts,
                   req, id, cb, owner, phantom>>

WriteSend(t) ==
    /\ pc[t] = "write_send"
    /\ rpmsg_send(t, SENT_MSG_EXTERNAL_FIFO, "write_put", "SHORT")
    /\ UNCHANGED <<done, driverVars, restarts, id, left, cb,
                   overtaken, owner, raced, phantom>>

WritePut(t) ==
    /\ pc[t] = "write_put"
    /\ PutType(t, SENT_MSG_EXTERNAL_FIFO)
    /\ left' = [left EXCEPT ![t] = @ - 1]
    /\ IF left[t] = 1 THEN Return(t, "OK")
                      ELSE Goto(t, "write_send") /\ UNCHANGED ret
    /\ UNCHANGED <<sent, done, fifo_external_msg, fifo_unique_ids,
                   rx_unique_buffer, next, value, global_rproc_ref, restarts,
                   req, id, cb, owner, mishap, phantom>>

-----------------------------------------------------------------------------
\* read(): the number of messages is bounded by the capacity of the fifo
\* (kfifo_size), so the loop runs, and counts, whether or not there are any.

ReadBegin(t) ==
    /\ Calling(t, "read")
    /\ \/ Return(t, "SHORT") /\ UNCHANGED left      \* not whole messages
       \/ \E n \in 1..MaxBatch :
             /\ n <= ExternalSize
             /\ left' = [left EXCEPT ![t] = n]
             /\ Goto(t, "read_get")
             /\ UNCHANGED ret
    /\ UNCHANGED <<sent, done, driverVars, restarts, req, id, cb, histVars>>

ReadGet(t) ==
    /\ pc[t] = "read_get"
    /\ \/ fifo_external_msg' = IF fifo_external_msg = <<>> THEN <<>>
                               ELSE Tail(fifo_external_msg)
       \/ Racing(t) /\ fifo_external_msg' \in Torn(0..Len(sent))
    /\ Overtake(t)
    /\ mishap' = (mishap \/ Racing(t))
    /\ phantom' = (phantom \/ fifo_external_msg = <<>>)
    /\ left' = [left EXCEPT ![t] = @ - 1]
    /\ IF left[t] = 1 THEN Return(t, "OK") ELSE UNCHANGED <<pc, ret>>
    /\ UNCHANGED <<sent, done, fifo_send_types, fifo_unique_ids,
                   rx_unique_buffer, next, value, global_rproc_ref, restarts,
                   req, id, cb, owner>>

\* STM32ECU_SET_STATE stores a word; RESET, OFFLINE, GET_STATE and unknown
\* commands change nothing; a faulting copy is -EINVAL.
StateCall(t) ==
    /\ Calling(t, "state")
    /\ \/ Return(t, "EINVAL") /\ UNCHANGED value
       \/ Return(t, "OK") /\ value' \in {0, 1}
    /\ UNCHANGED <<sent, done, fifo_send_types, fifo_external_msg,
                   fifo_unique_ids, rx_unique_buffer, next, global_rproc_ref,
                   restarts, req, id, left, cb, histVars>>

-----------------------------------------------------------------------------
\* rpmsg_sample_cb(), and the remote whose answers it receives in order.

\* A thread that has sent request n and not yet finished its bookkeeping.
Booking(t, n) == pc[t] \in BookingLabels /\ req[t] = n

\* The remote leaves the next request unanswered.
RemoteSilent ==
    /\ "none" \in Answers
    /\ done < Len(sent) /\ global_rproc_ref = "live" /\ cb = 0
    /\ done' = done + 1
    /\ mishap' = TRUE
    /\ UNCHANGED <<sent, driverVars, restarts, threadVars, cb,
                   overtaken, owner, raced, phantom>>

\* Mutant: a bad CRC is found before the kind is taken out.
CbMessageCrcFirst(a) ==
    /\ a \in Answers \ {"none"}
    /\ done < Len(sent) /\ global_rproc_ref = "live" /\ cb = 0
    /\ RepliesWait => \A t \in Threads : ~Booking(t, done + 1)
    /\ done' = done + 1
    /\ IF fifo_send_types = <<>> \/ a = "badcrc"
          THEN UNCHANGED <<fifo_send_types, fifo_external_msg, cb>>
          ELSE /\ fifo_send_types' = Tail(fifo_send_types)
               /\ fifo_external_msg' =
                    IF a = "valid" /\ Head(fifo_send_types) = SENT_MSG_EXTERNAL_FIFO
                      THEN kfifo_put(fifo_external_msg, ExternalSize, done + 1)
                      ELSE fifo_external_msg
               /\ cb' = IF a = "valid" /\ Head(fifo_send_types) = SENT_MSG_EXTERNAL_UNIQUE
                          THEN done + 1 ELSE 0
    /\ mishap' = \/ mishap
                 \/ \E t \in Threads : Booking(t, done + 1)
                 \/ a = "badcrc" /\ sent[done + 1] = SENT_MSG_EXTERNAL_UNIQUE
    /\ UNCHANGED <<sent, fifo_unique_ids, rx_unique_buffer, next, value,
                   global_rproc_ref, restarts, threadVars,
                   overtaken, owner, raced, phantom>>

\* The answer to the next request arrives.  The kind at the head of the fifo
\* decides what becomes of it; with no kind queued, or a bad CRC, it is dropped.
CbMessage(a) ==
    /\ a \in Answers \ {"none"}
    /\ done < Len(sent) /\ global_rproc_ref = "live" /\ cb = 0
    /\ RepliesWait => \A t \in Threads : ~Booking(t, done + 1)
    /\ done' = done + 1
    /\ IF fifo_send_types = <<>>
          THEN UNCHANGED <<fifo_send_types, fifo_external_msg, cb>>
          ELSE /\ fifo_send_types' = Tail(fifo_send_types)
               /\ fifo_external_msg' =
                    IF a = "valid" /\ Head(fifo_send_types) = SENT_MSG_EXTERNAL_FIFO
                      THEN kfifo_put(fifo_external_msg, ExternalSize, done + 1)
                      ELSE fifo_external_msg
               /\ cb' = IF a = "valid" /\ Head(fifo_send_types) = SENT_MSG_EXTERNAL_UNIQUE
                          THEN done + 1 ELSE 0
    /\ mishap' = \/ mishap
                 \/ \E t \in Threads : Booking(t, done + 1)
                 \/ a = "badcrc" /\ sent[done + 1] = SENT_MSG_EXTERNAL_UNIQUE
    /\ UNCHANGED <<sent, fifo_unique_ids, rx_unique_buffer, next, value,
                   global_rproc_ref, restarts, threadVars,
                   overtaken, owner, raced, phantom>>

\* Mutant: the id is read and left in the fifo.
CbStorePeek ==
    /\ cb # 0
    /\ fifo_unique_ids # <<>>
    /\ rx_unique_buffer' = [rx_unique_buffer EXCEPT ![Head(fifo_unique_ids)] = cb]
    /\ cb' = 0
    /\ UNCHANGED <<sent, done, fifo_send_types, fifo_external_msg,
                   fifo_unique_ids, next, value, global_rproc_ref, restarts,
                   threadVars, histVars>>
\* The answer to a SEND_MSG is filed under the id at the head of the fifo; with
\* no id queued the variable id is uninitialised and any index can be hit.
CbStore ==
    /\ cb # 0
    /\ \E i \in Index :
          /\ IF fifo_unique_ids = <<>>
                THEN UNCHANGED fifo_unique_ids
                ELSE /\ i = Head(fifo_unique_ids)
                     /\ fifo_unique_ids' = Tail(fifo_unique_ids)
          /\ rx_unique_buffer' = [rx_unique_buffer EXCEPT ![i] = cb]
    /\ cb' = 0
    /\ UNCHANGED <<sent, done, fifo_send_types, fifo_external_msg, next, value,
                   global_rproc_ref, restarts, threadVars, histVars>>

-----------------------------------------------------------------------------
\* The channel comes up, and goes down with the remote processor: requests in
\* the vrings are lost, the reference and the fifos stay as they are.

Probe ==
    /\ global_rproc_ref # "live"
    /\ global_rproc_ref' = "live"
    /\ UNCHANGED <<sent, done, fifo_send_types, fifo_external_msg,
                   fifo_unique_ids, rx_unique_buffer, next, value, restarts,
                   threadVars, cb, histVars>>

Remove ==
    /\ global_rproc_ref = "live" /\ cb = 0
    /\ restarts < MaxRestarts
    /\ restarts' = restarts + 1
    /\ global_rproc_ref' = "gone"
    /\ done' = Len(sent)
    /\ mishap' = (mishap \/ done < Len(sent))
    /\ UNCHANGED <<sent, fifo_send_types, fifo_external_msg, fifo_unique_ids,
                   rx_unique_buffer, next, value, threadVars, cb,
                   overtaken, owner, raced, phantom>>

-----------------------------------------------------------------------------
ThreadStep(t) ==
    \/ PingCheck(t) \/ PingSend(t) \/ PingPut(t)
    \/ SendBegin(t) \/ SendSend(t) \/ SendPut(t) \/ SendAlloc(t) \/ SendPutId(t)
    \/ \E i \in Index : RecvLoad(t, i)
    \/ RecvErase(t)
    \/ WriteBegin(t) \/ WriteFirst(t) \/ WriteSend(t) \/ WritePut(t)
    \/ ReadBegin(t) \/ ReadGet(t)
    \/ StateCall(t)

Next ==
    \/ \E t \in Threads : ThreadStep(t)
    \/ RemoteSilent
    \/ \E a \in AllAnswers : CbMessage(a)
    \/ CbStore
    \/ Probe
    \/ Remove

Spec == Init /\ [][Next]_vars

-----------------------------------------------------------------------------
(***************************************************************************)
(* Correctness.  Nothing in a request or an answer says to which request   *)
(* an answer belongs; the driver relies on the order.  mishap records the  *)
(* first event that this reliance does not survive:                        *)
(*   - a request is sent while another thread is still booking its own;    *)
(*   - two threads are in the same fifo operation;                         *)
(*   - an answer comes before its sender has finished its booking;         *)
(*   - a request is not answered, lost with the remote, or a SEND_MSG is   *)
(*     answered with a bad CRC;                                            *)
(*   - write() queues its kind in advance;                                 *)
(*   - a fifo is full, or the ids have run out, after a request went out;  *)
(*   - RECV_MSG erases an entry that is reserved for another request.      *)
(* Until one of these happens the matching properties below hold, whatever *)
(* else the threads do at the same time.                                   *)
(***************************************************************************)

\* "Give a UID to userspace so we can give them their msg once it's received":
\* a message waiting under an id is the answer to the SEND_MSG that was given
\* this id, never the answer to some other request.
AnswerToOwner ==
    \A i \in Ids : rx_unique_buffer[i] > 0 => rx_unique_buffer[i] = owner[i]

\* Until a mishap, rpmsg_sample_cb() stores every answer under the id of its
\* own SEND_MSG: a failing ping, a claim by another thread, a restart of the
\* idle remote and reused ids do not disturb that.
UniqueToOwner == ~mishap => AnswerToOwner

\* "Used to track whether the msg was sent internally, or externally using
\* write() or ioctl()": until a mishap, an answer is filed where the kind of its
\* own request says: in the fifo for write(), in the XArray for SEND_MSG.
FiledByKind ==
    ~mishap =>
        /\ \A k \in 1..Len(fifo_external_msg) :
              sent[fifo_external_msg[k]] = SENT_MSG_EXTERNAL_FIFO
        /\ \A i \in Index : rx_unique_buffer[i] > 0 =>
              sent[rx_unique_buffer[i]] = SENT_MSG_EXTERNAL_UNIQUE

\* A message waiting under an id stays there until RECV_MSG takes it: until a
\* mishap, no later answer and no later allocation of an id overwrites it.
StoredUntilClaimed ==
    [][~mishap' => \A i \in Ids : rx_unique_buffer[i] > 0 =>
          \/ rx_unique_buffer'[i] = rx_unique_buffer[i]
          \/ /\ rx_unique_buffer'[i] = FREE
             /\ \E t \in Threads : pc[t] = "recv_erase" /\ id[t] = i]_vars

\* rpmsg_sample_cb() throws an answer away when fifo_send_types is empty.  As
\* long as no race has torn that fifo, only an answer that is faster than the
\* bookkeeping of its sender can meet it empty: whatever calls are made, and
\* fail, at the same time, there is a kind for every request that is not
\* answered, or a thread about to queue one.
Unqueued == {t \in Threads : pc[t] \in {"ping_put", "send_put", "write_put"}}
KindForEveryAnswer ==
    ~raced => Len(sent) - done <= Len(fifo_send_types) + Cardinality(Unqueued)

(***************************************************************************)
(* Why the matching properties hold: until a mishap, the queues mirror the *)
(* unanswered part of the log.                                             *)
(***************************************************************************)

Busy(t) == pc[t] \notin {"idle", "oops"}

\* At most one thread is between its rpmsg_send() and the end of its booking,
\* and no write() has got as far as sending.
OneBooking ==
    /\ \A t, u \in Threads :
          pc[t] \in BookingLabels /\ pc[u] \in BookingLabels => t = u
    /\ \A t \in Threads : pc[t] \notin {"write_send", "write_put"}

\* The thread that is booking sent the newest request, which is unanswered.
NewestUnanswered ==
    \A t \in Threads :
        /\ pc[t] \in BookingLabels => req[t] = Len(sent) /\ done < Len(sent)
        /\ pc[t] = "ping_put" => sent[Len(sent)] = SENT_MSG_INTERNAL
        /\ pc[t] \in {"send_put", "send_alloc", "send_id"} =>
              sent[Len(sent)] = SENT_MSG_EXTERNAL_UNIQUE

\* No request has been sent by write().
NoWrites == \A n \in 1..Len(sent) : sent[n] # SENT_MSG_EXTERNAL_FIFO

\* The callback is filing the answer to the last request dealt with.
FilingLast == cb # 0 => cb = done /\ sent[cb] = SENT_MSG_EXTERNAL_UNIQUE

\* fifo_send_types holds the kinds of the unanswered requests, in order,
\* except that of a request whose sender is about to queue it.
TypeUnqueued == \E t \in Threads : pc[t] \in {"ping_put", "send_put"}
TypesMirrorLog ==
    /\ Len(fifo_send_types) = Len(sent) - done - (IF TypeUnqueued THEN 1 ELSE 0)
    /\ \A k \in 1..Len(fifo_send_types) : fifo_send_types[k] = sent[done + k]

\* fifo_unique_ids holds the ids of the unfiled SEND_MSG requests, in order,
\* except that of a request whose sender has not queued it yet.
Unfiled(n) == n > done \/ n = cb
IdUnqueued(n) ==
    \E t \in Threads :
        pc[t] \in {"send_put", "send_alloc", "send_id"} /\ req[t] = n
IdsMirrorLog ==
    /\ \A j \in 1..Len(fifo_unique_ids) :
          LET n == owner[fifo_unique_ids[j]] IN
            /\ fifo_unique_ids[j] \in Ids
            /\ n \in 1..Len(sent) /\ sent[n] = SENT_MSG_EXTERNAL_UNIQUE
            /\ Unfiled(n) /\ ~IdUnqueued(n)
            /\ rx_unique_buffer[fifo_unique_ids[j]] = RESERVED
    /\ \A j, k \in 1..Len(fifo_unique_ids) : j < k =>
          owner[fifo_unique_ids[j]] < owner[fifo_unique_ids[k]]
    /\ \A n \in 1..Len(sent) :
          Unfiled(n) /\ sent[n] = SENT_MSG_EXTERNAL_UNIQUE /\ ~IdUnqueued(n) =>
            \E j \in 1..Len(fifo_unique_ids) : owner[fifo_unique_ids[j]] = n

\* An id allocated and not yet queued is reserved for its request.
AllocatedReserved ==
    \A t \in Threads : pc[t] = "send_id" =>
        /\ id[t] \in Ids /\ rx_unique_buffer[id[t]] = RESERVED
        /\ owner[id[t]] = req[t]

\* What has been filed: nothing outside the limit, nothing for write(), and
\* every message under the id of its own request.
FiledRight ==
    /\ fifo_external_msg = <<>> /\ rx_unique_buffer[0] = FREE
    /\ \A i \in Ids : rx_unique_buffer[i] > 0 =>
          /\ rx_unique_buffer[i] = owner[i] /\ owner[i] <= Len(sent)
          /\ sent[owner[i]] = SENT_MSG_EXTERNAL_UNIQUE

\* Until a mishap, the queues and the XArray hold exactly what the log of the
\* requests, the callback and the one thread that is booking say: the inductive
\* invariant behind the three properties above.
MatchInv ==
    ~mishap => /\ OneBooking /\ NewestUnanswered /\ NoWrites /\ FilingLast
               /\ TypesMirrorLog /\ IdsMirrorLog
               /\ AllocatedReserved /\ FiledRight

\* RECV_MSG finds between xa_load() and xa_erase() what it has looked up
\* (otherwise copy_to_user() would read from NULL).
RecvNeverNull ==
    \A t \in Threads : pc[t] = "recv_erase" => rx_unique_buffer[id[t]] > 0

\* "no messages to read": read() reports only messages it has delivered.
NoPhantomRead == ~phantom

=============================================================================
