----------------------------- MODULE EcuManager -----------------------------
(***************************************************************************)
(* The ECU manager (server/main.cpp) on top of the driver, and its client  *)
(* (client/main.cpp).                                                      *)
(*                                                                         *)
(* main() opens /dev/stm32ecu, tries every call once, and starts the gRPC  *)
(* server.  A handler runs in a thread of its own and makes its system     *)
(* calls on the one global descriptor fd; when a call fails it closes the  *)
(* descriptor and leaves its number in fd.  What a system call does is the *)
(* driver's business: its steps are the actions of EcuDriver.              *)
(***************************************************************************)
EXTENDS EcuDriver

CONSTANTS
    Main,          \* the thread that runs main()
    Tries,         \* loop_count < 10
    MaxSessions    \* bound: times the server is started

ASSUME ManagerAssumption ==
    Main \in Threads /\ Tries \in Nat /\ MaxSessions \in Nat

\* One handler thread for each client.
Handlers == Threads \ {Main}

VARIABLES
    fd,          \* "none": no server; "open"; "closed"; "reused": its number
                 \* was given to a connection of the server
    session,     \* how often the server has been started
    serving,     \* RunServer() has been reached
    todo,        \* per thread: the system calls still to be made, in order
    busy,        \* per thread: the first of them has been made
    status,      \* per thread: what the last handler returned
    loop_count,  \* per thread
    rpc,         \* per client: how many of its calls it has made
    got,         \* history: request whose answer RECV_MSG or read() delivered
    late         \* history: the handler began after the device was closed

serverVars == <<fd, session, serving>>
callVars   == <<todo, busy, status, loop_count, rpc, late>>
managerVars == <<vars, serverVars, callVars, got>>

\* RESET, OFFLINE and GET_STATE ("get") leave the driver alone, SET_STATE does not.
SysCalls == {"get", "set", "ping", "send", "recv", "write", "read"}

ManagerTypeOK ==
    /\ TypeOK
    /\ fd \in {"none", "open", "closed", "reused"}
    /\ session \in 0..MaxSessions /\ serving \in BOOLEAN
    /\ \A t \in Threads : \A k \in 1..Len(todo[t]) : todo[t][k] \in SysCalls
    /\ busy \in [Threads -> BOOLEAN]
    /\ status \in [Threads -> {"none", "OK", "CANCELLED"}]
    /\ loop_count \in [Threads -> 0..Tries]
    /\ rpc \in [Handlers -> 0..5]
    /\ got \in [Threads -> 0..MaxMsgs] /\ late \in [Threads -> BOOLEAN]

ManagerInit ==
    /\ Init
    /\ fd = "none" /\ session = 0 /\ serving = FALSE
    /\ todo = [t \in Threads |-> <<>>] /\ busy = [t \in Threads |-> FALSE]
    /\ status = [t \in Threads |-> "none"]
    /\ loop_count = [t \in Threads |-> 0] /\ rpc = [h \in Handlers |-> 0]
    /\ got = [t \in Threads |-> 0] /\ late = [t \in Threads |-> FALSE]

-----------------------------------------------------------------------------
\* The programs.

\* Mutant: nobody asks whether the remote is there.
StartUpNoPing == <<"get", "get", "get", "set", "write", "read">>

\* main() before RunServer().
StartUp == <<"get", "get", "get", "set", "ping", "write", "read">>

\* The six handlers: reset, offline, getState, setState, ping, sendMsg, called
\* by the client in this order.
ClientScript == <<<<"get">>, <<"get">>, <<"get">>, <<"set">>, <<"ping">>,
                  <<"send", "recv">>>>

-----------------------------------------------------------------------------
\* System calls.

\* The call enters the driver.  Buffers are the program's own, so that no copy
\* faults and no length is wrong; RECV_MSG passes the id SEND_MSG returned.
Enter(t, c) ==
    /\ \/ c = "get" /\ StateCall(t) /\ value' = value
       \/ c = "set" /\ StateCall(t) /\ value' = 1
       \/ c = "ping" /\ PingCheck(t)
       \/ c = "send" /\ SendBegin(t)
       \/ c = "recv" /\ RecvLoad(t, id[t])
       \/ c = "write" /\ WriteBegin(t)
       \/ c = "read" /\ ReadBegin(t)
    /\ pc'[t] = "idle" => ret'[t] \in {"OK", "EAGAIN"} \/ c = "ping"

SysCall(t) ==
    /\ todo[t] # <<>> /\ ~busy[t]
    /\ fd = "open"
    /\ Enter(t, Head(todo[t]))
    /\ busy' = [busy EXCEPT ![t] = TRUE]
    /\ UNCHANGED <<serverVars, todo, status, loop_count, rpc, late, got>>

\* The thread goes on in the kernel; RECV_MSG and read() hand over a message,
\* and write() finds nothing wrong with the one it is given.
InKernel(t) ==
    /\ pc[t] \notin {"idle", "oops"}
    /\ ThreadStep(t)
    /\ pc[t] = "write_first" => pc'[t] # "idle"
    /\ got' = [got EXCEPT ![t] =
                 CASE pc[t] = "recv_erase" /\ rx_unique_buffer[id[t]] > 0 ->
                        rx_unique_buffer[id[t]]
                   [] pc[t] = "read_get" /\ fifo_external_msg # <<>> ->
                        Head(fifo_external_msg)
                   [] OTHER -> @]
    /\ UNCHANGED <<serverVars, callVars>>

-----------------------------------------------------------------------------
\* What the programs do with the result.

\* A descriptor that is not the device's fails with -1 (EBADF, ENOTTY); so does,
\* in user space, every ioctl() the driver refuses: the code is in errno.
EAGAIN == 11
\* Mutant: an ioctl() on a descriptor that is not the device's passes for success.
FailedInDriver(t) == busy[t] /\ ret[t] # "OK"
Failed(t) == IF busy[t] THEN ret[t] # "OK" ELSE fd # "open"
Result(t) == IF Failed(t) THEN -1 ELSE 0

\* The loops around RECV_MSG and around read().
\* Mutant: the result is looked at properly, but the rounds are not counted.
AgainForever(t) == Head(todo[t]) = "recv" /\ busy[t] /\ ret[t] = "EAGAIN"
Again(t) ==
    /\ loop_count[t] < Tries
    /\ \/ Head(todo[t]) = "recv" /\ Result(t) = -EAGAIN
       \/ Head(todo[t]) = "read" /\ busy[t] /\ ret[t] = "SHORT"

\* main() goes on after read() only with a message that has a good checksum and
\* is an ACK; if read() delivered none, rx_msg is still all zero.
\* Mutant: the message is not looked at.
PassedUnchecked(t) == ~Failed(t)
Passed(t) == ~Failed(t) /\ (Head(todo[t]) = "read" => got[t] # 0)

\* The process ends, and with it its descriptor.
EndSession ==
    /\ fd' = "none" /\ serving' = FALSE
    /\ todo' = [t \in Threads |-> <<>>] /\ busy' = [t \in Threads |-> FALSE]

\* A handler gives up: it closes whatever fd stands for.
\* Mutant: the handler does not return after closing the descriptor.
HandlerFailNoReturn(t) ==
    /\ fd' = "closed"
    /\ busy' = [busy EXCEPT ![t] = FALSE]
    /\ UNCHANGED <<todo, status, serving>>
HandlerFail(t) ==
    /\ fd' = "closed"
    /\ todo' = [todo EXCEPT ![t] = <<>>] /\ busy' = [busy EXCEPT ![t] = FALSE]
    /\ status' = [status EXCEPT ![t] = "CANCELLED"]
    /\ UNCHANGED serving

\* The next call, or the end: main() serves, a handler returns OK.
Proceed(t) ==
    /\ todo' = [todo EXCEPT ![t] = Tail(@)] /\ busy' = [busy EXCEPT ![t] = FALSE]
    /\ IF Len(todo[t]) > 1 THEN UNCHANGED <<serving, status>>
       ELSE IF t = Main THEN serving' = TRUE /\ UNCHANGED status
       ELSE status' = [status EXCEPT ![t] = "OK"] /\ UNCHANGED serving
    /\ UNCHANGED fd

CallDone(t) ==
    /\ todo[t] # <<>> /\ pc[t] = "idle" /\ (busy[t] \/ fd # "open")
    /\ IF Again(t)
         THEN /\ loop_count' = [loop_count EXCEPT ![t] = (@ + 1) % 256]  \* uint8_t
              /\ busy' = [busy EXCEPT ![t] = FALSE]
              /\ UNCHANGED <<fd, serving, todo, status>>
         ELSE /\ IF Passed(t) THEN Proceed(t)
                 ELSE IF t = Main THEN EndSession /\ UNCHANGED status
                 ELSE HandlerFail(t)
              /\ UNCHANGED loop_count
    /\ UNCHANGED <<vars, session, rpc, late, got>>

-----------------------------------------------------------------------------
\* The server's life.

\* main() starts.  open() succeeds: no call of an earlier session is left that
\* would hold the device (module DeviceFile is about open()).
MainStart ==
    /\ fd = "none" /\ session < MaxSessions
    /\ pc[Main] = "idle" /\ \A t \in Threads : ~Busy(t)
    /\ fd' = "open" /\ session' = session + 1
    /\ todo' = [todo EXCEPT ![Main] = StartUp]
    /\ got' = [t \in Threads |-> 0] /\ loop_count' = [t \in Threads |-> 0]
    /\ status' = [t \in Threads |-> "none"]
    /\ UNCHANGED <<vars, serving, busy, rpc, late>>

\* A client makes its next call; after the last one another client takes over.
HandlerStart(h) ==
    /\ serving /\ todo[h] = <<>> /\ pc[h] = "idle"
    /\ todo' = [todo EXCEPT ![h] = ClientScript[rpc[h] + 1]]
    /\ rpc' = [rpc EXCEPT ![h] = (@ + 1) % 6]
    /\ status' = [status EXCEPT ![h] = "none"]
    /\ loop_count' = [loop_count EXCEPT ![h] = 0]
    /\ got' = [got EXCEPT ![h] = 0]
    /\ late' = [late EXCEPT ![h] = fd # "open"]
    /\ UNCHANGED <<vars, serverVars, busy>>

\* sig_handler(): close and exit, whatever is going on.  Calls that are in the
\* kernel are completed there.
Signal ==
    /\ fd # "none"
    /\ EndSession
    /\ UNCHANGED <<vars, session, status, loop_count, rpc, late, got>>

\* The server accepts a connection and is given the number that fd still holds;
\* the connection ends.
Reuse  == serving /\ fd = "closed" /\ fd' = "reused"
HangUp == fd = "reused" /\ fd' = "closed"
Connection ==
    /\ Reuse \/ HangUp
    /\ UNCHANGED <<vars, session, serving, callVars, got>>

\* The remote, the callback and the channel.
Background ==
    /\ \/ RemoteSilent \/ CbStore \/ Probe \/ Remove
       \/ \E a \in AllAnswers : CbMessage(a)
    /\ UNCHANGED <<serverVars, callVars, got>>

ThreadNext(t) == SysCall(t) \/ InKernel(t) \/ CallDone(t)

ManagerNext ==
    \/ MainStart \/ Signal \/ Connection \/ Background
    \/ \E h \in Handlers : HandlerStart(h)
    \/ \E t \in Threads : ThreadNext(t)

ManagerSpec == ManagerInit /\ [][ManagerNext]_managerVars

\* A runnable thread runs: every system call ends, rpmsg_send() gives up after
\* 15 seconds, and the loops are counted.
ManagerFairSpec ==
    ManagerSpec /\ \A t \in Threads : WF_managerVars(ThreadNext(t))

-----------------------------------------------------------------------------
(***************************************************************************)
(* Correctness.                                                            *)
(***************************************************************************)

\* main() reaches RunServer() only with the answer to the message it has just
\* written: not with nothing, and not with the answer to another request.
StartedOnOwnAnswer ==
    serving => got[Main] = req[Main] /\ sent[req[Main]] = SENT_MSG_EXTERNAL_FIFO

\* PING is the only call that tests global_rproc_ref, and main() makes it before
\* the first call that does not: as long as the remote stays, no thread of the
\* server dies in the driver.
NoThreadDies == restarts = 0 => \A t \in Threads : pc[t] # "oops"

\* When a handler has closed the device every handler that begins later fails,
\* until the server is started anew; whatever the number in fd stands for.
ClosedForGood == \A h \in Handlers : late[h] => status[h] # "OK"

\* Every call of a client is answered, with OK or with CANCELLED, unless its
\* thread died in the driver (which takes a restart of the remote).
HandlersReturn ==
    \A h \in Handlers : todo[h] # <<>> ~> todo[h] = <<>> \/ pc[h] = "oops"

\* What the code does not keep (MCEcuManager_timeout.cfg refutes it).
\* "Couldn't ioctl MY_RECV_MSG_RPROC, timeout!": sendMsg gives up on an answer
\* that is not there yet only after its ten tries.
TimeoutAfterTries ==
    [][\A h \in Handlers :
          /\ busy[h] /\ Head(todo[h]) = "recv" /\ ret[h] = "EAGAIN"
          /\ status'[h] = "CANCELLED"
          => loop_count[h] = Tries]_managerVars

=============================================================================
