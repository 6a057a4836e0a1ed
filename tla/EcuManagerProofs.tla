-------------------------- MODULE EcuManagerProofs --------------------------
(***************************************************************************)
(* Theorems about EcuManager: the server on top of the driver, for every   *)
(* number of clients, every capacity of the driver's queues and every      *)
(* bound.                                                                  *)
(***************************************************************************)
EXTENDS EcuManager, EcuDriverProofs

USE DriverAssumption, ManagerAssumption

-----------------------------------------------------------------------------
(***************************************************************************)
(* The server uses the driver as it is.                                    *)
(***************************************************************************)

\* A system call is a step of the driver.
LEMMA EnterIsStep ==
    ASSUME TypeOK, NEW t \in Threads, NEW c, Enter(t, c)
    PROVE  ThreadStep(t)
<1>1. id[t] \in Index
  BY DEF TypeOK
<1>2. QED
  BY Zenon, <1>1 DEF Enter, ThreadStep

\* Every step of the system is a step of the driver or leaves it alone.
LEMMA DriverStep ==
    ASSUME TypeOK, [ManagerNext]_managerVars
    PROVE  [Next]_vars
<1>1. ASSUME NEW t \in Threads, SysCall(t) PROVE Next
  <2>1. Enter(t, Head(todo[t]))
    BY Zenon, <1>1 DEF SysCall
  <2>2. QED
    BY <2>1, EnterIsStep DEF Next
<1>2. ASSUME NEW t \in Threads, InKernel(t) PROVE Next
  BY Zenon, <1>2 DEF InKernel, Next
<1>3. ASSUME NEW t \in Threads, CallDone(t) PROVE UNCHANGED vars
  BY Zenon, <1>3 DEF CallDone
<1>4. CASE MainStart \/ Signal \/ Connection \/ (\E h \in Handlers : HandlerStart(h))
  BY Zenon, <1>4 DEF MainStart, Signal, Connection, HandlerStart
<1>5. CASE Background
  BY Zenon, <1>5 DEF Background, Next
<1>6. CASE UNCHANGED managerVars
  BY Zenon, <1>6 DEF managerVars
<1>7. QED
  BY Zenon, <1>1, <1>2, <1>3, <1>4, <1>5, <1>6 DEF ManagerNext, ThreadNext

\* The server and its clients use the driver only through its calls: what they
\* do to it is a behaviour of EcuDriver, and all that is proved of EcuDriver
\* holds under the server.
THEOREM ManagerRunsDriver == ManagerSpec => Spec
<1>1. TypeOK /\ LocalsOK /\ [ManagerNext]_managerVars => [Next]_vars
  BY DriverStep
<1>2. ManagerInit => Init
  BY DEF ManagerInit
<1>3. TypeOK /\ LocalsOK /\ [Next]_vars => (TypeOK /\ LocalsOK)'
  BY TypeStep, LocalsStep
<1>4. QED
  BY <1>1, <1>2, <1>3, TypeInit, PTL DEF ManagerSpec, Spec

-----------------------------------------------------------------------------
(***************************************************************************)
(* The life of the server.                                                 *)
(***************************************************************************)

\* The types, with the programs as sequences.
ServerTypes ==
    /\ fd \in {"none", "open", "closed", "reused"}
    /\ session \in 0..MaxSessions /\ serving \in BOOLEAN
    /\ todo \in [Threads -> Seq(SysCalls)]
    /\ busy \in [Threads -> BOOLEAN]
    /\ status \in [Threads -> {"none", "OK", "CANCELLED"}]
    /\ loop_count \in [Threads -> 0..Tries]
    /\ rpc \in [Handlers -> 0..5]
    /\ got \in [Threads -> 0..MaxMsgs] /\ late \in [Threads -> BOOLEAN]

\* Without a server no program runs; a thread without a program is in no call.
Life ==
    /\ fd = "none" => ~serving /\ \A t \in Threads : todo[t] = <<>>
    /\ \A t \in Threads : busy[t] => todo[t] # <<>>

\* A handler that began after the device was closed makes no call and does not
\* succeed.
Late ==
    \A h \in Handlers : late[h] =>
        /\ status[h] # "OK"
        /\ todo[h] # <<>> => fd # "open" /\ ~busy[h]

ServerInv == TypeOK /\ LocalsOK /\ ServerTypes /\ Life /\ Late

\* How a call ends.
LEMMA DoneCases ==
    ASSUME NEW t \in Threads, CallDone(t)
    PROVE  /\ todo[t] # <<>> /\ pc[t] = "idle" /\ (busy[t] \/ fd # "open")
           /\ UNCHANGED <<vars, session, rpc, late, got>>
           /\ \/ /\ Again(t)
                 /\ loop_count' = [loop_count EXCEPT ![t] = (@ + 1) % 256]
                 /\ busy' = [busy EXCEPT ![t] = FALSE]
                 /\ UNCHANGED <<fd, serving, todo, status>>
              \/ Passed(t) /\ Proceed(t) /\ UNCHANGED loop_count
              \/ t = Main /\ EndSession /\ UNCHANGED <<status, loop_count>>
              \/ t # Main /\ HandlerFail(t) /\ UNCHANGED loop_count
  BY Zenon DEF CallDone

\* How a program goes on.
LEMMA ProceedCases ==
    ASSUME NEW t \in Threads, Proceed(t)
    PROVE  /\ todo' = [todo EXCEPT ![t] = Tail(todo[t])]
           /\ busy' = [busy EXCEPT ![t] = FALSE] /\ fd' = fd
           /\ \/ Len(todo[t]) > 1 /\ UNCHANGED <<serving, status>>
              \/ /\ ~(Len(todo[t]) > 1) /\ t = Main /\ serving' = TRUE
                 /\ UNCHANGED status
              \/ /\ ~(Len(todo[t]) > 1) /\ t # Main
                 /\ status' = [status EXCEPT ![t] = "OK"] /\ UNCHANGED serving
  BY Zenon DEF Proceed

\* The programs are made of system calls.
LEMMA ProgramTypes ==
    /\ StartUp \in Seq(SysCalls) /\ StartUp # <<>>
    /\ \A k \in 0..5 : ClientScript[k + 1] \in Seq(SysCalls)
<1>1. ASSUME NEW c \in SysCalls PROVE <<c>> \in Seq(SysCalls)
  OBVIOUS
<1>2. /\ "get" \in SysCalls /\ "set" \in SysCalls /\ "ping" \in SysCalls
      /\ "send" \in SysCalls /\ "recv" \in SysCalls /\ "write" \in SysCalls
      /\ "read" \in SysCalls
  BY DEF SysCalls
<1>3. StartUp \in Seq(SysCalls) /\ StartUp # <<>>
  BY <1>2 DEF StartUp
<1>4. /\ ClientScript[1] = <<"get">> /\ ClientScript[2] = <<"get">>
      /\ ClientScript[3] = <<"get">> /\ ClientScript[4] = <<"set">>
      /\ ClientScript[5] = <<"ping">> /\ ClientScript[6] = <<"send", "recv">>
  BY DEF ClientScript
<1>5. <<"send", "recv">> \in Seq(SysCalls)
  BY <1>2
<1>6. \A k \in 0..5 : k + 1 \in 1..6 /\ (k + 1 = 1 \/ k + 1 = 2 \/ k + 1 = 3 \/ k + 1 = 4 \/ k + 1 = 5 \/ k + 1 = 6)
  OBVIOUS
<1>7. QED
  BY <1>1, <1>2, <1>3, <1>4, <1>5, <1>6

\* The server starts with nothing running.
LEMMA ServerInit == ManagerInit => ServerInv
<1> SUFFICES ASSUME ManagerInit PROVE ServerInv
  OBVIOUS
<1>1. TypeOK /\ LocalsOK
  BY TypeInit DEF ManagerInit
<1>2. ServerTypes
  <2>1. /\ busy \in [Threads -> BOOLEAN] /\ late \in [Threads -> BOOLEAN]
        /\ serving \in BOOLEAN
    BY Zenon DEF ManagerInit
  <2>2. QED
    BY <2>1 DEF ManagerInit, ServerTypes
<1>3. Life /\ Late
  <2>1. \A h \in Handlers : ~late[h]
    BY Zenon DEF ManagerInit, Handlers
  <2>2. \A t \in Threads : todo[t] = <<>> /\ ~busy[t]
    BY Zenon DEF ManagerInit
  <2>3. ~serving
    BY Zenon DEF ManagerInit
  <2>4. QED
    BY <2>1, <2>2, <2>3 DEF Life, Late
<1>4. QED
  BY <1>1, <1>2, <1>3 DEF ServerInv

\* When the process ends nothing is left running.
LEMMA EndStep ==
    ASSUME ServerInv, EndSession,
           UNCHANGED <<session, status, loop_count, rpc, late, got>>
    PROVE  ServerTypes' /\ Life' /\ Late'
<1>1. /\ fd' = "none" /\ serving' = FALSE
      /\ \A t \in Threads : todo'[t] = <<>> /\ ~busy'[t]
  BY Zenon DEF EndSession
<1>2. busy' \in [Threads -> BOOLEAN] /\ serving' \in BOOLEAN
  BY Zenon DEF EndSession
<1>3. todo' \in [Threads -> Seq(SysCalls)]
  BY DEF EndSession
<1>4. ServerTypes'
  BY <1>1, <1>2, <1>3 DEF ServerInv, ServerTypes
<1>5. Life' /\ Late'
  BY <1>1 DEF ServerInv, Life, Late, Handlers
<1>6. QED
  BY <1>4, <1>5

\* The end of a call keeps the server's state in order.
LEMMA DoneStep ==
    ASSUME ServerInv, NEW t \in Threads, CallDone(t)
    PROVE  ServerTypes' /\ Life' /\ Late'
<1> USE DEF ServerInv
<1>a. /\ todo[t] # <<>> /\ pc[t] = "idle" /\ (busy[t] \/ fd # "open")
      /\ UNCHANGED <<session, rpc, late, got>>
      /\ todo \in [Threads -> Seq(SysCalls)] /\ fd # "none"
  BY DoneCases DEF ServerTypes, Life
<1>1. CASE /\ Again(t)
           /\ loop_count' = [loop_count EXCEPT ![t] = (loop_count[t] + 1) % 256]
           /\ busy' = [busy EXCEPT ![t] = FALSE]
           /\ UNCHANGED <<fd, serving, todo, status>>
  <2>1. loop_count' \in [Threads -> 0..Tries]
    <3>1. loop_count[t] \in 0..Tries /\ loop_count[t] < Tries
      BY <1>1 DEF Again, ServerTypes
    <3>2. (loop_count[t] + 1) % 256 \in 0..Tries
      BY <3>1
    <3>3. QED
      BY <1>1, <3>2 DEF ServerTypes
  <2>2. busy' \in [Threads -> BOOLEAN]
    BY <1>1 DEF ServerTypes
  <2>3. \A u \in Threads : busy'[u] => busy[u]
    BY <1>1 DEF ServerTypes
  <2>4. ServerTypes'
    BY <1>1, <1>a, <2>1, <2>2 DEF ServerTypes
  <2>5. Life' /\ Late'
    BY <1>1, <1>a, <2>3 DEF Life, Late, Handlers
  <2>6. QED
    BY <2>4, <2>5
<1>2. CASE Passed(t) /\ Proceed(t) /\ UNCHANGED loop_count
  <2>1. /\ todo' = [todo EXCEPT ![t] = Tail(todo[t])]
        /\ busy' = [busy EXCEPT ![t] = FALSE] /\ fd' = fd
    BY <1>2, ProceedCases
  <2>2. todo' \in [Threads -> Seq(SysCalls)] /\ busy' \in [Threads -> BOOLEAN]
    BY <1>a, <2>1 DEF ServerTypes
  <2>3. serving' \in BOOLEAN /\ status' \in [Threads -> {"none", "OK", "CANCELLED"}]
    BY <1>2, ProceedCases DEF ServerTypes
  <2>4. ServerTypes'
    BY <1>2, <1>a, <2>1, <2>2, <2>3 DEF ServerTypes
  <2>5. Life'
    BY <1>a, <2>1, <2>2 DEF Life, ServerTypes
  <2>6. ASSUME NEW h \in Handlers, late[h]
        PROVE  status'[h] # "OK" /\ (todo'[h] # <<>> => fd' # "open" /\ ~busy'[h])
    <3>1. h # t
      <4>1. Failed(t) => FALSE
        BY <1>2 DEF Passed
      <4>2. busy[t]
        BY <4>1, <1>a DEF Failed
      <4>3. QED
        BY <2>6, <4>2, <1>a DEF Late
    <3>2. todo'[h] = todo[h] /\ busy'[h] = busy[h]
      BY <2>1, <3>1, <1>a DEF Handlers, ServerTypes
    <3>3. status'[h] = status[h]
      BY <1>2, <3>1, ProceedCases DEF Handlers, ServerTypes
    <3>4. QED
      BY <2>1, <2>6, <3>2, <3>3 DEF Late
  <2>7. Late'
    BY <1>a, <2>6 DEF Late
  <2>8. QED
    BY <2>4, <2>5, <2>7
<1>3. CASE EndSession /\ UNCHANGED <<status, loop_count>>
  BY <1>3, <1>a, EndStep
<1>4. CASE t # Main /\ HandlerFail(t) /\ UNCHANGED loop_count
  <2>1. ServerTypes'
    BY <1>4, <1>a DEF HandlerFail, ServerTypes
  <2>2. Life' /\ Late'
    BY <1>4, <1>a DEF HandlerFail, ServerTypes, Life, Late, Handlers
  <2>3. QED
    BY <2>1, <2>2
<1>5. QED
  BY <1>1, <1>2, <1>3, <1>4, DoneCases

\* What goes on below the server leaves its state alone.
LEMMA QuietServer ==
    ASSUME ServerInv, UNCHANGED <<serverVars, callVars, got>>
    PROVE  ServerTypes' /\ Life' /\ Late'
<1>1. UNCHANGED <<fd, session, serving, todo, busy, status, loop_count, rpc, late, got>>
  BY Zenon DEF serverVars, callVars
<1>2. ServerTypes'
  BY <1>1 DEF ServerInv, ServerTypes
<1>3. Life' /\ Late'
  BY <1>1 DEF ServerInv, Life, Late
<1>4. QED
  BY <1>2, <1>3

\* Every step keeps the server's state in order.
LEMMA ServerStep ==
    ASSUME ServerInv, [ManagerNext]_managerVars
    PROVE  ServerInv'
<1> USE DEF ServerInv
<1> SUFFICES ServerTypes' /\ Life' /\ Late'
  BY DriverStep, TypeStep, LocalsStep
<1>1. ASSUME NEW t \in Threads, SysCall(t) PROVE ServerTypes' /\ Life' /\ Late'
  <2>1. /\ todo[t] # <<>> /\ fd = "open" /\ busy' = [busy EXCEPT ![t] = TRUE]
        /\ UNCHANGED <<fd, session, serving, todo, status, loop_count, rpc, late, got>>
    BY Zenon, <1>1 DEF SysCall, serverVars
  <2>2. QED
    BY <2>1 DEF ServerTypes, Life, Late, Handlers
<1>2. ASSUME NEW t \in Threads, InKernel(t) PROVE ServerTypes' /\ Life' /\ Late'
  <2>1. UNCHANGED <<fd, session, serving, todo, busy, status, loop_count, rpc, late>>
    BY Zenon, <1>2 DEF InKernel, serverVars, callVars
  <2>2. got' \in [Threads -> 0..MaxMsgs]
    <3>1. \/ got' = got
          \/ /\ rx_unique_buffer[id[t]] > 0
             /\ got' = [got EXCEPT ![t] = rx_unique_buffer[id[t]]]
          \/ /\ fifo_external_msg # <<>>
             /\ got' = [got EXCEPT ![t] = Head(fifo_external_msg)]
      <4>1. got' = [got EXCEPT ![t] =
                 CASE pc[t] = "recv_erase" /\ rx_unique_buffer[id[t]] > 0 ->
                        rx_unique_buffer[id[t]]
                   [] pc[t] = "read_get" /\ fifo_external_msg # <<>> ->
                        Head(fifo_external_msg)
                   [] OTHER -> got[t]]
        BY Zenon, <1>2 DEF InKernel
      <4>2. got = [got EXCEPT ![t] = got[t]]
        BY DEF ServerTypes
      <4>3. CASE pc[t] = "recv_erase" /\ rx_unique_buffer[id[t]] > 0
        BY <4>1, <4>3
      <4>4. CASE pc[t] = "read_get" /\ fifo_external_msg # <<>>
        BY <4>1, <4>4
      <4>5. CASE /\ ~(pc[t] = "recv_erase" /\ rx_unique_buffer[id[t]] > 0)
                 /\ ~(pc[t] = "read_get" /\ fifo_external_msg # <<>>)
        BY <4>1, <4>2, <4>5
      <4>6. QED
        BY <4>3, <4>4, <4>5
    <3>2. rx_unique_buffer[id[t]] > 0 => rx_unique_buffer[id[t]] \in 0..MaxMsgs
      <4>1. rx_unique_buffer[id[t]] \in {FREE, RESERVED} \cup 1..MaxMsgs
        BY DEF TypeOK
      <4>2. ~(FREE > 0) /\ ~(RESERVED > 0)
        BY DEF FREE, RESERVED
      <4>3. QED
        BY <4>1, <4>2
    <3>3. fifo_external_msg # <<>> => Head(fifo_external_msg) \in 0..MaxMsgs
      <4>1. fifo_external_msg \in Seq(0..MaxMsgs)
        BY DEF TypeOK
      <4>2. QED
        BY <4>1, TailType
    <3>4. QED
      BY <3>1, <3>2, <3>3 DEF ServerTypes
  <2>3. QED
    BY <2>1, <2>2 DEF ServerTypes, Life, Late
<1>3. ASSUME NEW t \in Threads, CallDone(t) PROVE ServerTypes' /\ Life' /\ Late'
  BY <1>3, DoneStep
<1>4. CASE MainStart
  <2>1. todo' = [todo EXCEPT ![Main] = StartUp] /\ todo' \in [Threads -> Seq(SysCalls)]
    BY <1>4, ProgramTypes DEF MainStart, ServerTypes
  <2>2. /\ fd = "none" /\ fd' = "open" /\ session' = session + 1 /\ session < MaxSessions
        /\ got' = [t \in Threads |-> 0] /\ loop_count' = [t \in Threads |-> 0]
        /\ status' = [t \in Threads |-> "none"]
        /\ UNCHANGED <<serving, busy, rpc, late>>
    BY <1>4 DEF MainStart
  <2>3. ServerTypes'
    BY <2>1, <2>2 DEF ServerTypes
  <2>4. Life'
    BY <2>1, <2>2 DEF Life, ServerTypes
  <2>5. Late'
    <3>1. \A h \in Handlers : todo'[h] = <<>> /\ status'[h] = "none"
      BY <2>1, <2>2 DEF Life, ServerTypes, Handlers
    <3>2. QED
      BY <3>1 DEF Late
  <2>6. QED
    BY <2>3, <2>4, <2>5
<1>5. CASE Signal
  BY <1>5, EndStep DEF Signal
<1>6. CASE Connection
  <2>1. UNCHANGED <<session, serving, todo, busy, status, loop_count, rpc, late, got>>
    BY Zenon, <1>6 DEF Connection, callVars
  <2>2. fd \in {"closed", "reused"} /\ fd' \in {"closed", "reused"}
    BY <1>6 DEF Connection, Reuse, HangUp
  <2>3. ServerTypes'
    BY <2>1, <2>2 DEF ServerTypes
  <2>4. Life' /\ Late'
    BY <2>1, <2>2 DEF Life, Late
  <2>5. QED
    BY <2>3, <2>4
<1>7. CASE Background
  <2>1. UNCHANGED <<serverVars, callVars, got>>
    BY Zenon, <1>7 DEF Background
  <2>2. QED
    BY <2>1, QuietServer
<1>8. ASSUME NEW h \in Handlers, HandlerStart(h) PROVE ServerTypes' /\ Life' /\ Late'
  <2>1. /\ serving /\ todo[h] = <<>>
        /\ todo' = [todo EXCEPT ![h] = ClientScript[rpc[h] + 1]]
        /\ rpc' = [rpc EXCEPT ![h] = (rpc[h] + 1) % 6]
        /\ status' = [status EXCEPT ![h] = "none"]
        /\ loop_count' = [loop_count EXCEPT ![h] = 0]
        /\ got' = [got EXCEPT ![h] = 0]
        /\ late' = [late EXCEPT ![h] = (fd # "open")]
        /\ UNCHANGED <<fd, session, serving, busy>>
    BY Zenon, <1>8 DEF HandlerStart, serverVars
  <2>2. rpc[h] \in 0..5 /\ h \in Threads
    BY DEF ServerTypes, Handlers
  <2>3. todo' \in [Threads -> Seq(SysCalls)]
    BY <2>1, <2>2, ProgramTypes DEF ServerTypes
  <2>4. late' \in [Threads -> BOOLEAN]
    BY Zenon, <2>1 DEF ServerTypes
  <2>5. rpc' \in [Handlers -> 0..5]
    BY <2>1, <2>2 DEF ServerTypes
  <2>6. ServerTypes'
    BY <2>1, <2>2, <2>3, <2>4, <2>5 DEF ServerTypes
  <2>7. Life'
    BY <2>1, <2>2, <2>3 DEF Life, ServerTypes
  <2>8. ~busy[h]
    BY <2>1, <2>2 DEF Life
  <2>9. late'[h] => fd # "open"
    BY Zenon, <2>1, <2>2 DEF ServerTypes
  <2>10. \A g \in Handlers : g # h => late'[g] = late[g] /\ status'[g] = status[g] /\ todo'[g] = todo[g]
    BY <2>1, <2>2 DEF ServerTypes, Handlers
  <2>11. status'[h] = "none"
    BY <2>1, <2>2 DEF ServerTypes
  <2>12. Late'
    BY <2>1, <2>8, <2>9, <2>10, <2>11 DEF Late
  <2>13. QED
    BY <2>6, <2>7, <2>12
<1>9. CASE UNCHANGED managerVars
  BY <1>9, QuietServer DEF managerVars
<1>10. QED
  BY Zenon, <1>1, <1>2, <1>3, <1>4, <1>5, <1>6, <1>7, <1>8, <1>9 DEF ManagerNext, ThreadNext

\* The server's invariant holds throughout.
LEMMA ServerAlways == ManagerSpec => []ServerInv
  BY ServerInit, ServerStep, PTL DEF ManagerSpec

\* Every variable of the server, of its clients and of the driver below them
\* keeps its type; the loops around RECV_MSG and read() are bounded.
THEOREM ManagerTypes == ManagerSpec => []ManagerTypeOK
<1>1. ServerInv => ManagerTypeOK
  BY DEF ServerInv, ServerTypes, ManagerTypeOK
<1>2. QED
  BY <1>1, ServerAlways, PTL

\* Once a handler has closed the device no handler that begins later succeeds
\* until the server is started anew, whatever connection is given the number
\* that is left in fd.
THEOREM StaysClosed == ManagerSpec => []ClosedForGood
<1>1. ServerInv => ClosedForGood
  BY DEF ServerInv, Late, ClosedForGood
<1>2. QED
  BY <1>1, ServerAlways, PTL

-----------------------------------------------------------------------------
(***************************************************************************)
(* Which calls are made when.                                              *)
(***************************************************************************)

\* What a handler has left to do.
HandlerPrograms ==
    {<<>>, <<"get">>, <<"set">>, <<"ping">>, <<"send", "recv">>, <<"recv">>}

\* main() has a last part of StartUp to do; handlers run only while the server
\* serves.
Programs ==
    /\ Len(todo[Main]) <= 7
    /\ \A k \in 1..Len(todo[Main]) : todo[Main][k] = StartUp[7 - Len(todo[Main]) + k]
    /\ \A h \in Handlers : /\ todo[h] \in HandlerPrograms
                           /\ todo[h] # <<>> => serving

\* The steps of the driver that belong to a call.
CallLabels(c) ==
    {l \in Labels : \/ c = "ping" /\ l \in {"ping_send", "ping_put"}
                    \/ c = "send" /\ l \in {"send_send", "send_put", "send_alloc", "send_id"}
                    \/ c = "recv" /\ l = "recv_erase"
                    \/ c = "write" /\ l \in {"write_first", "write_send", "write_put"}
                    \/ c = "read" /\ l = "read_get"}

\* A thread of the server that is in the kernel is there for the call it is at.
InCall ==
    \A t \in Threads : Busy(t) /\ todo[t] # <<>> =>
        busy[t] /\ pc[t] \in CallLabels(Head(todo[t]))

\* What is left of a handler's program after a call.
LEMMA HandlerTail ==
    ASSUME NEW p \in HandlerPrograms, p # <<>>
    PROVE  /\ Tail(p) \in HandlerPrograms
           /\ Head(p) \in {"get", "set", "ping", "send", "recv"}
           /\ Tail(p) # <<>> => Head(p) = "send" /\ Head(Tail(p)) = "recv"
           /\ Tail(p) = <<>> => Head(p) # "send"
<1>1. /\ Tail(<<"get">>) = <<>> /\ Tail(<<"set">>) = <<>> /\ Tail(<<"ping">>) = <<>>
      /\ Tail(<<"recv">>) = <<>> /\ Tail(<<"send", "recv">>) = <<"recv">>
  OBVIOUS
<1>2. /\ Head(<<"get">>) = "get" /\ Head(<<"set">>) = "set" /\ Head(<<"ping">>) = "ping"
      /\ Head(<<"recv">>) = "recv" /\ Head(<<"send", "recv">>) = "send"
  OBVIOUS
<1>3. <<"recv">> # <<>>
  OBVIOUS
<1>4. QED
  BY <1>1, <1>2, <1>3 DEF HandlerPrograms

\* The handlers' programs are these, and none begins with RECV_MSG.
LEMMA ScriptPrograms ==
    \A k \in 0..5 : /\ ClientScript[k + 1] \in HandlerPrograms
                    /\ ClientScript[k + 1] # <<>>
                    /\ Head(ClientScript[k + 1]) # "recv"
<1>1. /\ ClientScript[1] = <<"get">> /\ ClientScript[2] = <<"get">>
      /\ ClientScript[3] = <<"get">> /\ ClientScript[4] = <<"set">>
      /\ ClientScript[5] = <<"ping">> /\ ClientScript[6] = <<"send", "recv">>
  BY DEF ClientScript
<1>2. \A k \in 0..5 : \/ k + 1 = 1 \/ k + 1 = 2 \/ k + 1 = 3
                      \/ k + 1 = 4 \/ k + 1 = 5 \/ k + 1 = 6
  OBVIOUS
<1>3. /\ Head(<<"get">>) = "get" /\ Head(<<"set">>) = "set" /\ Head(<<"ping">>) = "ping"
      /\ Head(<<"send", "recv">>) = "send"
  OBVIOUS
<1>4. /\ <<"get">> # <<>> /\ <<"set">> # <<>> /\ <<"ping">> # <<>>
      /\ <<"send", "recv">> # <<>>
  OBVIOUS
<1>5. QED
  BY <1>1, <1>2, <1>3, <1>4 DEF HandlerPrograms

\* The lengths of what main() has left to do.
LEMMA OneToSeven == \A n \in Nat : n >= 1 /\ n <= 7 => n \in 1..7
  OBVIOUS

\* A program that is not empty has a first call.
LEMMA FirstOf ==
    ASSUME NEW S, NEW q \in Seq(S), q # <<>>
    PROVE  /\ Len(q) \in Nat /\ Len(q) >= 1 /\ Head(q) = q[1]
           /\ Len(Tail(q)) = Len(q) - 1
           /\ \A k \in 1..Len(q) - 1 : Tail(q)[k] = q[k + 1]
  OBVIOUS

\* The calls of main(), by how many of them are left.
LEMMA MainHead ==
    ASSUME ServerTypes, Programs, todo[Main] # <<>>
    PROVE  /\ Len(todo[Main]) \in 1..7
           /\ Len(todo[Main]) \in {7, 6, 5} => Head(todo[Main]) = "get"
           /\ Len(todo[Main]) = 4 => Head(todo[Main]) = "set"
           /\ Len(todo[Main]) = 3 => Head(todo[Main]) = "ping"
           /\ Len(todo[Main]) = 2 => Head(todo[Main]) = "write"
           /\ Len(todo[Main]) = 1 => Head(todo[Main]) = "read"
<1>1. todo[Main] \in Seq(SysCalls)
  BY DEF ServerTypes
<1>2. Len(todo[Main]) \in 1..7 /\ Head(todo[Main]) = todo[Main][1]
  <2>1. Len(todo[Main]) \in Nat /\ Len(todo[Main]) >= 1 /\ Head(todo[Main]) = todo[Main][1]
    BY Zenon, <1>1, FirstOf
  <2>2. Len(todo[Main]) <= 7
    BY Zenon DEF Programs
  <2>3. QED
    BY Zenon, <2>1, <2>2, OneToSeven
<1>3. Head(todo[Main]) = StartUp[8 - Len(todo[Main])]
  <2>1. 1 \in 1..Len(todo[Main]) /\ 7 - Len(todo[Main]) + 1 = 8 - Len(todo[Main])
    BY <1>2
  <2>2. QED
    BY <1>2, <2>1 DEF Programs
<1>4. /\ StartUp[1] = "get" /\ StartUp[2] = "get" /\ StartUp[3] = "get"
      /\ StartUp[4] = "set" /\ StartUp[5] = "ping" /\ StartUp[6] = "write"
      /\ StartUp[7] = "read"
  BY DEF StartUp
<1> DEFINE n == Len(todo[Main])
<1>5. n \in 1..7 /\ Head(todo[Main]) = StartUp[8 - n]
  BY <1>2, <1>3
<1> HIDE DEF n
<1>6. /\ n \in {7, 6, 5} => 8 - n \in {1, 2, 3}
      /\ n = 4 => 8 - n = 4
      /\ n = 3 => 8 - n = 5
      /\ n = 2 => 8 - n = 6
      /\ n = 1 => 8 - n = 7
  BY <1>5
<1>7. /\ n \in {7, 6, 5} => Head(todo[Main]) = "get"
      /\ n = 4 => Head(todo[Main]) = "set"
      /\ n = 3 => Head(todo[Main]) = "ping"
      /\ n = 2 => Head(todo[Main]) = "write"
      /\ n = 1 => Head(todo[Main]) = "read"
  BY <1>4, <1>5, <1>6
<1>8. QED
  BY <1>2, <1>7 DEF n

\* What is left of a suffix of StartUp after a call is one.
LEMMA MainTail ==
    ASSUME NEW p \in Seq(SysCalls), p # <<>>, Len(p) <= 7,
           \A k \in 1..Len(p) : p[k] = StartUp[7 - Len(p) + k]
    PROVE  /\ Len(Tail(p)) = Len(p) - 1
           /\ \A k \in 1..Len(Tail(p)) : Tail(p)[k] = StartUp[7 - Len(Tail(p)) + k]
<1>a. /\ Len(p) \in Nat /\ Len(p) >= 1 /\ Len(Tail(p)) = Len(p) - 1
      /\ \A k \in 1..Len(p) - 1 : Tail(p)[k] = p[k + 1]
  BY Zenon, FirstOf
<1>1. /\ Len(p) \in 1..7 /\ Len(Tail(p)) = Len(p) - 1
      /\ \A k \in 1..Len(p) - 1 : Tail(p)[k] = p[k + 1]
  BY Zenon, <1>a, OneToSeven
<1>2. ASSUME NEW k \in 1..Len(p) - 1
      PROVE  Tail(p)[k] = StartUp[7 - (Len(p) - 1) + k]
  <2>1. k + 1 \in 1..Len(p) /\ 7 - Len(p) + (k + 1) = 7 - (Len(p) - 1) + k
    BY <1>1
  <2>2. p[k + 1] = StartUp[7 - Len(p) + (k + 1)]
    BY <2>1
  <2>3. QED
    BY <1>1, <2>1, <2>2
<1>3. QED
  BY <1>1, <1>2

\* How the driver is entered.
LEMMA EnterEffect ==
    ASSUME TypeOK, NEW t \in Threads, NEW c \in SysCalls, Enter(t, c)
    PROVE  /\ pc[t] = "idle" /\ id' = id
           /\ \A u \in Threads : u # t => pc'[u] = pc[u] /\ ret'[u] = ret[u]
           /\ UNCHANGED <<sent, done, fifo_external_msg, rx_unique_buffer,
                          global_rproc_ref, restarts, req, cb, fifo_send_types,
                          overtaken>>
           /\ pc'[t] \in {"idle"} \cup CallLabels(c)
           /\ pc'[t] = "recv_erase" => rx_unique_buffer[id[t]] \notin {FREE, RESERVED}
           /\ c = "send" => pc'[t] = "send_send"
           /\ c = "ping" /\ global_rproc_ref = "null" => pc'[t] = "idle" /\ ret'[t] # "OK"
           /\ c = "ping" => pc'[t] \in {"idle", "ping_send"}
           /\ c = "ping" /\ pc'[t] = "idle" => ret'[t] # "OK"
           /\ c = "write" => pc'[t] = "write_first"
           /\ c = "read" => pc'[t] = "read_get"
<1>a. /\ pc \in [Threads -> Labels] /\ ret \in [Threads -> Results]
      /\ id \in [Threads -> Index]
  BY DEF TypeOK
<1>b. pc'[t] = "idle" => ret'[t] \in {"OK", "EAGAIN"} \/ c = "ping"
  BY Zenon DEF Enter
<1>c. "idle" \in Labels
  BY ConstantTypes
<1>1. CASE c \in {"get", "set"} /\ StateCall(t)
  BY <1>1, <1>a DEF StateCall, Calling, Goto, Return, histVars
<1>2. CASE c = "ping" /\ PingCheck(t)
  BY <1>2, <1>a DEF PingCheck, Calling, Goto, Return, histVars, driverVars, CallLabels, Labels
<1>3. CASE c = "send" /\ SendBegin(t)
  BY <1>3, <1>a, <1>b DEF SendBegin, Calling, Goto, Return, histVars, driverVars, CallLabels, Labels
<1>4. CASE c = "recv" /\ RecvLoad(t, id[t])
  <2>1. id' = id
    BY <1>4, <1>a DEF RecvLoad
  <2>2. QED
    BY <1>4, <1>a, <2>1 DEF RecvLoad, Calling, Goto, Return, histVars, driverVars, CallLabels, Labels
<1>5. CASE c = "write" /\ WriteBegin(t)
  BY <1>5, <1>a, <1>b DEF WriteBegin, Calling, Goto, Return, histVars, driverVars, CallLabels, Labels
<1>6. CASE c = "read" /\ ReadBegin(t)
  BY <1>6, <1>a, <1>b DEF ReadBegin, Calling, Goto, Return, histVars, driverVars, CallLabels, Labels
<1>7. QED
  BY Zenon, <1>1, <1>2, <1>3, <1>4, <1>5, <1>6 DEF Enter

\* The steps a thread takes in the kernel.
LEMMA KernelCases ==
    ASSUME NEW t \in Threads, InKernel(t)
    PROVE  /\ Busy(t) /\ UNCHANGED <<fd, session, serving, todo, busy, status>>
           /\ \/ PingSend(t) \/ PingPut(t) \/ SendSend(t) \/ SendPut(t) \/ SendAlloc(t)
              \/ SendPutId(t) \/ RecvErase(t) \/ WriteFirst(t) \/ WriteSend(t) \/ WritePut(t)
              \/ ReadGet(t)
<1>1. UNCHANGED <<fd, session, serving, todo, busy, status>>
  BY Zenon DEF InKernel, serverVars, callVars
<1>2. pc[t] \notin {"idle", "oops"} /\ ThreadStep(t)
  BY Zenon DEF InKernel
<1>3. QED
  BY <1>1, <1>2 DEF Busy, ThreadStep, PingCheck, SendBegin, RecvLoad, WriteBegin, ReadBegin,
     StateCall, Calling

\* A step in the kernel leaves the other threads alone; it ends the call, or goes
\* on to a step of the same call, or kills the thread.
LEMMA KernelEffect ==
    ASSUME TypeOK, NEW t \in Threads, InKernel(t)
    PROVE  /\ \A u \in Threads : u # t => pc'[u] = pc[u] /\ ret'[u] = ret[u] /\ id'[u] = id[u]
           /\ UNCHANGED <<global_rproc_ref, restarts>>
           /\ \A c : pc[t] \in CallLabels(c) => pc'[t] \in {"idle", "oops"} \cup CallLabels(c)
<1>a. /\ pc \in [Threads -> Labels] /\ ret \in [Threads -> Results]
      /\ id \in [Threads -> Index]
  BY DEF TypeOK
<1>1. CASE PingSend(t) \/ SendSend(t) \/ WriteSend(t)
  BY <1>1, <1>a DEF PingSend, SendSend, WriteSend, rpmsg_send, Goto, Return, driverVars,
     CallLabels, Labels
<1>2. CASE PingPut(t) \/ SendPut(t) \/ SendPutId(t)
  BY <1>2, <1>a DEF PingPut, SendPut, SendPutId, Goto, Return, CallLabels, Labels
<1>3. CASE SendAlloc(t)
  BY <1>3, <1>a DEF SendAlloc, Goto, Return, CallLabels, Labels
<1>4. CASE RecvErase(t) \/ WritePut(t)
  BY <1>4, <1>a DEF RecvErase, WritePut, Goto, Return, CallLabels, Labels
<1>5. CASE ReadGet(t) \/ WriteFirst(t)
  BY <1>5, <1>a DEF ReadGet, WriteFirst, Goto, Return, CallLabels, Labels
<1>6. QED
  BY <1>1, <1>2, <1>3, <1>4, <1>5, KernelCases

-----------------------------------------------------------------------------
\* A thread that has returned is not in the kernel.
LEMMA IdleNotInCall == \A c : "idle" \notin CallLabels(c) /\ "oops" \notin CallLabels(c)
  BY DEF CallLabels

\* When the process ends no program is left.
LEMMA EndPrograms ==
    ASSUME EndSession
    PROVE  Programs'
<1>1. \A t \in Threads : todo'[t] = <<>>
  BY Zenon DEF EndSession
<1>2. todo'[Main] = <<>> /\ \A h \in Handlers : todo'[h] = <<>>
  BY <1>1 DEF Handlers
<1>3. Len(<<>>) = 0 /\ 0 <= 7 /\ \A k \in 1..0 : FALSE
  OBVIOUS
<1>4. <<>> \in HandlerPrograms
  BY DEF HandlerPrograms
<1>5. QED
  BY Zenon, <1>2, <1>3, <1>4 DEF Programs

\* The effect of the end of a call on the programs.
LEMMA DonePrograms ==
    ASSUME ServerInv, Programs, NEW t \in Threads, CallDone(t)
    PROVE  Programs'
<1>a. /\ todo[t] # <<>> /\ todo \in [Threads -> Seq(SysCalls)]
      /\ Len(todo[Main]) <= 7 /\ fd # "none"
  BY DoneCases DEF ServerInv, ServerTypes, Programs, Life
<1>1. CASE UNCHANGED <<fd, serving, todo, status>>
  BY <1>1 DEF Programs
<1>2. CASE Proceed(t)
  <2>1. /\ todo' = [todo EXCEPT ![t] = Tail(todo[t])]
        /\ serving => serving'
    BY <1>2, ProceedCases DEF ServerInv, ServerTypes
  <2>2. \A u \in Threads : u # t => todo'[u] = todo[u]
    BY <2>1, <1>a
  <2>3. todo'[t] = Tail(todo[t])
    BY <2>1, <1>a
  <2>4. /\ Len(todo'[Main]) <= 7
        /\ \A k \in 1..Len(todo'[Main]) : todo'[Main][k] = StartUp[7 - Len(todo'[Main]) + k]
    <3>1. CASE t = Main
      <4>1. todo[Main] \in Seq(SysCalls) /\ todo[Main] # <<>>
        BY <3>1, <1>a
      <4>2. \A k \in 1..Len(todo[Main]) : todo[Main][k] = StartUp[7 - Len(todo[Main]) + k]
        BY Zenon DEF Programs
      <4>3. /\ Len(Tail(todo[Main])) = Len(todo[Main]) - 1
            /\ \A k \in 1..Len(Tail(todo[Main])) :
                 Tail(todo[Main])[k] = StartUp[7 - Len(Tail(todo[Main])) + k]
        BY Zenon, <4>1, <4>2, <1>a, MainTail
      <4>4. Len(todo[Main]) \in Nat
        BY <4>1
      <4>5. Len(Tail(todo[Main])) <= 7
        <5>1. \A n \in Nat : n <= 7 => n - 1 <= 7
          OBVIOUS
        <5>2. QED
          BY Zenon, <5>1, <4>3, <4>4, <1>a
      <4>6. QED
        BY Zenon, <2>3, <3>1, <4>3, <4>5
    <3>2. CASE t # Main
      BY Zenon, <3>2, <2>2, ManagerAssumption DEF Programs
    <3>3. QED
      BY <3>1, <3>2
  <2>5. ASSUME NEW h \in Handlers
        PROVE  todo'[h] \in HandlerPrograms /\ (todo'[h] # <<>> => serving')
    <3>1. CASE h = t
      <4>1. todo[h] \in HandlerPrograms /\ serving
        BY <3>1, <1>a DEF Programs
      <4>2. QED
        BY <3>1, <4>1, <2>1, <2>3, <1>a, HandlerTail
    <3>2. CASE h # t
      BY <3>2, <2>1, <2>2 DEF Programs, Handlers
    <3>3. QED
      BY <3>1, <3>2
  <2>6. QED
    BY Zenon, <2>4, <2>5 DEF Programs
<1>3. CASE EndSession
  BY <1>3, EndPrograms
<1>4. CASE t # Main /\ HandlerFail(t)
  <2>1. /\ todo' = [todo EXCEPT ![t] = <<>>] /\ serving' = serving
    BY <1>4 DEF HandlerFail
  <2>2. todo'[Main] = todo[Main]
    BY <1>4, <2>1, <1>a
  <2>3. \A h \in Handlers : todo'[h] = <<>> \/ todo'[h] = todo[h]
    BY <2>1, <1>a DEF Handlers
  <2>4. <<>> \in HandlerPrograms
    BY DEF HandlerPrograms
  <2>5. QED
    BY Zenon, <2>1, <2>2, <2>3, <2>4 DEF Programs
<1>5. QED
  BY <1>1, <1>2, <1>3, <1>4, DoneCases

\* Every step keeps the programs.
LEMMA ProgramsStep ==
    ASSUME ServerInv, Programs, [ManagerNext]_managerVars
    PROVE  Programs'
<1>a. todo \in [Threads -> Seq(SysCalls)] /\ rpc \in [Handlers -> 0..5]
  BY DEF ServerInv, ServerTypes
<1>1. ASSUME NEW t \in Threads, SysCall(t) \/ InKernel(t) PROVE Programs'
  <2>1. UNCHANGED <<todo, serving>>
    BY Zenon, <1>1 DEF SysCall, InKernel, serverVars, callVars
  <2>2. QED
    BY <2>1 DEF Programs
<1>2. ASSUME NEW t \in Threads, CallDone(t) PROVE Programs'
  BY <1>2, DonePrograms
<1>3. CASE MainStart
  <2>1. todo' = [todo EXCEPT ![Main] = StartUp] /\ serving' = serving
    BY Zenon, <1>3 DEF MainStart
  <2>2. todo'[Main] = StartUp /\ \A h \in Handlers : todo'[h] = todo[h]
    BY <2>1, <1>a DEF Handlers
  <2>3. Len(StartUp) = 7
    BY DEF StartUp
  <2>4. \A k \in 1..7 : 7 - 7 + k = k
    OBVIOUS
  <2>5. \A k \in 1..7 : StartUp[k] = StartUp[7 - 7 + k]
    BY <2>4
  <2>6. 7 <= 7
    OBVIOUS
  <2>7. QED
    BY Zenon, <2>1, <2>2, <2>3, <2>5, <2>6 DEF Programs
<1>4. CASE Signal
  BY <1>4, EndPrograms DEF Signal
<1>5. CASE Connection \/ Background \/ UNCHANGED managerVars
  <2>1. UNCHANGED <<todo, serving>>
    BY Zenon, <1>5 DEF Connection, Background, managerVars, serverVars, callVars
  <2>2. QED
    BY <2>1 DEF Programs
<1>6. ASSUME NEW h \in Handlers, HandlerStart(h) PROVE Programs'
  <2>1. /\ serving /\ serving' = serving
        /\ todo' = [todo EXCEPT ![h] = ClientScript[rpc[h] + 1]]
    BY Zenon, <1>6 DEF HandlerStart, serverVars
  <2>2. ClientScript[rpc[h] + 1] \in HandlerPrograms
    BY <1>a, ScriptPrograms
  <2>3. todo'[Main] = todo[Main]
    BY <2>1, <1>a DEF Handlers
  <2>4. \A g \in Handlers : todo'[g] = todo[g] \/ todo'[g] = ClientScript[rpc[h] + 1]
    BY <2>1, <1>a DEF Handlers
  <2>5. QED
    BY Zenon, <2>1, <2>2, <2>3, <2>4 DEF Programs
<1>7. QED
  BY Zenon, <1>1, <1>2, <1>3, <1>4, <1>5, <1>6 DEF ManagerNext, ThreadNext

\* Every step keeps a thread in the call it is at.
LEMMA InCallStep ==
    ASSUME ServerInv, InCall, [ManagerNext]_managerVars
    PROVE  InCall'
<1>a. todo \in [Threads -> Seq(SysCalls)] /\ TypeOK /\ pc \in [Threads -> Labels]
      /\ busy \in [Threads -> BOOLEAN]
  BY DEF ServerInv, ServerTypes, TypeOK
<1>1. ASSUME NEW t \in Threads, SysCall(t) PROVE InCall'
  <2>1. /\ todo[t] # <<>> /\ Enter(t, Head(todo[t])) /\ todo' = todo
        /\ busy' = [busy EXCEPT ![t] = TRUE]
    BY Zenon, <1>1 DEF SysCall
  <2>2. Head(todo[t]) \in SysCalls
    BY <2>1, <1>a, TailType
  <2>3. /\ pc'[t] \in {"idle"} \cup CallLabels(Head(todo[t]))
        /\ \A u \in Threads : u # t => pc'[u] = pc[u]
    BY <1>a, <2>1, <2>2, EnterEffect
  <2>4. busy'[t] /\ \A u \in Threads : u # t => busy'[u] = busy[u]
    BY <1>a, <2>1
  <2>5. QED
    BY <2>1, <2>3, <2>4 DEF InCall, Busy
<1>2. ASSUME NEW t \in Threads, InKernel(t) PROVE InCall'
  <2>1. todo' = todo /\ busy' = busy /\ Busy(t)
    BY <1>2, KernelCases
  <2>2. /\ \A u \in Threads : u # t => pc'[u] = pc[u]
        /\ todo[t] # <<>> => pc'[t] \in {"idle", "oops"} \cup CallLabels(Head(todo[t]))
    BY <1>2, <1>a, <2>1, KernelEffect DEF InCall
  <2>3. QED
    BY <2>1, <2>2 DEF InCall, Busy
<1>3. ASSUME NEW t \in Threads, CallDone(t) PROVE InCall'
  <2>1. pc[t] = "idle" /\ pc' = pc
    BY <1>3, DoneCases DEF vars, threadVars
  <2>2. (\A u \in Threads : todo'[u] = <<>>) \/ (\A u \in Threads : u # t => todo'[u] = todo[u] /\ busy'[u] = busy[u])
    BY <1>3, <1>a, DoneCases DEF Proceed, EndSession, HandlerFail
  <2>3. QED
    BY <2>1, <2>2 DEF InCall, Busy
<1>4. CASE MainStart
  <2>1. pc[Main] = "idle" /\ pc' = pc /\ busy' = busy
    BY <1>4 DEF MainStart, vars, threadVars
  <2>2. \A u \in Threads : u # Main => todo'[u] = todo[u]
    BY <1>4, <1>a DEF MainStart
  <2>3. QED
    BY <2>1, <2>2 DEF InCall, Busy
<1>5. CASE Signal
  <2>1. \A u \in Threads : todo'[u] = <<>>
    BY <1>5 DEF Signal, EndSession
  <2>2. QED
    BY <2>1 DEF InCall
<1>6. CASE Connection \/ Background \/ UNCHANGED managerVars
  <2>1. UNCHANGED <<todo, busy>>
    BY Zenon, <1>6 DEF Connection, Background, managerVars, callVars
  <2>2. pc' = pc
    BY <1>6 DEF Connection, Background, managerVars, vars, RemoteSilent, CbStore, Probe,
       Remove, CbMessage, threadVars
  <2>3. QED
    BY <2>1, <2>2 DEF InCall, Busy
<1>7. ASSUME NEW h \in Handlers, HandlerStart(h) PROVE InCall'
  <2>1. pc[h] = "idle" /\ pc' = pc /\ busy' = busy
    BY <1>7 DEF HandlerStart, vars, threadVars
  <2>2. \A u \in Threads : u # h => todo'[u] = todo[u]
    BY <1>7, <1>a DEF HandlerStart, Handlers
  <2>3. QED
    BY <2>1, <2>2 DEF InCall, Busy
<1>8. QED
  BY Zenon, <1>1, <1>2, <1>3, <1>4, <1>5, <1>6, <1>7 DEF ManagerNext, ThreadNext

-----------------------------------------------------------------------------
(***************************************************************************)
(* No thread of the server dies in the driver while the remote stays.      *)
(***************************************************************************)

\* The thread holds an id: SEND_MSG has allocated it, and RECV_MSG has not yet
\* erased it.
Claim(t) ==
    \/ pc[t] \in {"send_id", "recv_erase"}
    \/ todo[t] # <<>> /\ Head(todo[t]) = "recv" /\ ~busy[t]
    \/ /\ todo[t] # <<>> /\ Head(todo[t]) = "send" /\ busy[t]
       /\ pc[t] = "idle" /\ ret[t] = "OK"

\* An id that is held is not free, is held by one thread only, and is erased
\* only while a message is stored under it.
ClaimInv ==
    /\ \A t \in Threads : Claim(t) => rx_unique_buffer[id[t]] # FREE
    /\ \A t, u \in Threads : Claim(t) /\ Claim(u) /\ id[t] = id[u] => t = u
    /\ RecvNeverNull

\* A step that hands out no id and erases none keeps the claims.
LEMMA ClaimsKept ==
    ASSUME TypeOK, ClaimInv,
           \A t \in Threads : Claim(t)' => Claim(t) /\ id'[t] = id[t],
           \A i \in Index : rx_unique_buffer'[i] = rx_unique_buffer[i] \/ rx_unique_buffer'[i] > 0,
           \A t \in Threads : pc'[t] = "recv_erase" =>
               pc[t] = "recv_erase" \/ rx_unique_buffer'[id'[t]] > 0
    PROVE  ClaimInv'
<1>1. \A t \in Threads : id[t] \in Index
  BY DEF TypeOK
<1>2. ~(FREE > 0)
  BY DEF FREE
<1>3. \A t \in Threads : Claim(t)' => rx_unique_buffer'[id'[t]] # FREE
  BY <1>1, <1>2 DEF ClaimInv
<1>4. \A t, u \in Threads : Claim(t)' /\ Claim(u)' /\ id'[t] = id'[u] => t = u
  BY Zenon DEF ClaimInv
<1>5. \A t \in Threads : pc'[t] = "recv_erase" => Claim(t)'
  BY DEF Claim
<1>6. RecvNeverNull'
  BY <1>1, <1>5 DEF ClaimInv, RecvNeverNull
<1>7. QED
  BY Zenon, <1>3, <1>4, <1>6 DEF ClaimInv

\* Entering the driver keeps the claims.
LEMMA EnterClaims ==
    ASSUME ServerInv, ClaimInv, NEW t \in Threads, SysCall(t)
    PROVE  ClaimInv'
<1>a. /\ TypeOK /\ todo \in [Threads -> Seq(SysCalls)] /\ busy \in [Threads -> BOOLEAN]
      /\ pc \in [Threads -> Labels]
  BY DEF ServerInv, ServerTypes, TypeOK
<1>1. /\ todo[t] # <<>> /\ ~busy[t] /\ Enter(t, Head(todo[t])) /\ todo' = todo
      /\ busy' = [busy EXCEPT ![t] = TRUE]
  BY Zenon DEF SysCall
<1>2. Head(todo[t]) \in SysCalls
  BY <1>1, <1>a, TailType
<1>3. /\ id' = id /\ rx_unique_buffer' = rx_unique_buffer
      /\ \A u \in Threads : u # t => pc'[u] = pc[u] /\ ret'[u] = ret[u]
      /\ pc'[t] \in {"idle"} \cup CallLabels(Head(todo[t]))
      /\ pc'[t] = "recv_erase" => rx_unique_buffer[id[t]] \notin {FREE, RESERVED}
      /\ Head(todo[t]) = "send" => pc'[t] = "send_send"
  BY <1>a, <1>1, <1>2, EnterEffect
<1>4. busy'[t] /\ \A u \in Threads : u # t => busy'[u] = busy[u]
  BY <1>a, <1>1
<1>5. ASSUME NEW u \in Threads, Claim(u)' PROVE Claim(u)
  <2>1. CASE u # t
    BY <2>1, <1>1, <1>3, <1>4, <1>5 DEF Claim
  <2>2. CASE u = t
    <3>1. pc'[t] \in {"send_id", "recv_erase"}
      BY <2>2, <1>1, <1>3, <1>4, <1>5 DEF Claim
    <3>2. Head(todo[t]) = "recv"
      BY <3>1, <1>3 DEF CallLabels
    <3>3. QED
      BY <2>2, <3>2, <1>1 DEF Claim
  <2>3. QED
    BY <2>1, <2>2
<1>6. pc'[t] = "recv_erase" => rx_unique_buffer'[id'[t]] > 0
  <2>1. rx_unique_buffer[id[t]] \in {FREE, RESERVED} \cup 1..MaxMsgs
    BY <1>a DEF TypeOK
  <2>2. \A x \in 1..MaxMsgs : x > 0
    OBVIOUS
  <2>3. QED
    BY <1>3, <2>1, <2>2
<1>7. QED
  BY <1>a, <1>3, <1>5, <1>6, ClaimsKept

\* A step in the kernel keeps the claims.
LEMMA KernelClaims ==
    ASSUME ServerInv, InCall, ClaimInv, NEW t \in Threads, InKernel(t)
    PROVE  ClaimInv'
<1>a. /\ TypeOK /\ busy \in [Threads -> BOOLEAN] /\ pc \in [Threads -> Labels]
      /\ ret \in [Threads -> Results] /\ id \in [Threads -> Index]
      /\ rx_unique_buffer \in [Index -> {FREE, RESERVED} \cup 1..MaxMsgs]
  BY DEF ServerInv, ServerTypes, TypeOK
<1>b. Busy(t) /\ todo' = todo /\ busy' = busy
  BY KernelCases
<1>c. /\ \A u \in Threads : u # t => pc'[u] = pc[u] /\ ret'[u] = ret[u] /\ id'[u] = id[u]
      /\ \A u \in Threads : u # t => (Claim(u)' <=> Claim(u))
  <2>1. \A u \in Threads : u # t => pc'[u] = pc[u] /\ ret'[u] = ret[u] /\ id'[u] = id[u]
    BY <1>a, KernelEffect
  <2>2. QED
    BY <2>1, <1>b DEF Claim
<1>d. Busy(t) => pc[t] # "idle"
  BY DEF Busy
<1>e. todo[t] # <<>> => busy[t] /\ pc[t] \in CallLabels(Head(todo[t]))
  BY <1>b DEF InCall
<1>f. Claim(t)' => \/ pc'[t] \in {"send_id", "recv_erase"}
                   \/ pc[t] \in CallLabels("send") /\ pc'[t] = "idle" /\ ret'[t] = "OK"
  BY <1>b, <1>e DEF Claim
<1>1. CASE SendAlloc(t)
  <2>1. CASE FreeIds = {} /\ Return(t, "EINVAL") /\ UNCHANGED <<rx_unique_buffer, id>>
    <3>1. pc'[t] = "idle" /\ ret'[t] = "EINVAL"
      BY <2>1, <1>a DEF Return, Goto
    <3>2. QED
      BY <2>1, <3>1, <1>a, <1>c, <1>f, ClaimsKept
  <2>2. ASSUME NEW i \in Ids, xa_alloc_cyclic(i),
               rx_unique_buffer' = [rx_unique_buffer EXCEPT ![i] = RESERVED],
               id' = [id EXCEPT ![t] = i], Goto(t, "send_id")
        PROVE  ClaimInv'
    <3>1. rx_unique_buffer[i] = FREE /\ i \in Index
      BY <2>2 DEF xa_alloc_cyclic, FreeIds, Ids, Index
    <3>2. id'[t] = i /\ pc'[t] = "send_id" /\ rx_unique_buffer'[i] = RESERVED
      BY <2>2, <3>1, <1>a DEF Goto
    <3>3. \A j \in Index : j # i => rx_unique_buffer'[j] = rx_unique_buffer[j]
      BY <2>2, <3>1, <1>a
    <3>4. RESERVED # FREE
      BY DEF RESERVED, FREE
    <3>5. \A u \in Threads : u # t /\ Claim(u) => id[u] # i /\ id[u] \in Index
      BY <3>1, <1>a DEF ClaimInv
    <3>6. \A u \in Threads : Claim(u)' => rx_unique_buffer'[id'[u]] # FREE
      BY <3>2, <3>3, <3>4, <3>5, <1>c DEF ClaimInv
    <3>7. \A u, v \in Threads : Claim(u)' /\ Claim(v)' /\ id'[u] = id'[v] => u = v
      BY <3>2, <3>5, <1>c DEF ClaimInv
    <3>8. \A u \in Threads : pc[u] = "recv_erase" => Claim(u)
      BY DEF Claim
    <3>9. RecvNeverNull'
      BY <3>2, <3>3, <3>5, <3>8, <1>c DEF ClaimInv, RecvNeverNull
    <3>10. QED
      BY Zenon, <3>6, <3>7, <3>9 DEF ClaimInv
  <2>3. QED
    BY Zenon, <1>1, <2>1, <2>2 DEF SendAlloc
<1>2. CASE RecvErase(t)
  <2>1. /\ pc[t] = "recv_erase" /\ id' = id
        /\ rx_unique_buffer' = [rx_unique_buffer EXCEPT ![id[t]] = FREE]
        /\ pc'[t] \in {"idle", "oops"}
    BY <1>2, <1>a DEF RecvErase, Goto, Return
  <2>2. Claim(t) /\ ~Claim(t)'
    BY <2>1, <1>f DEF Claim, CallLabels
  <2>3. \A u \in Threads : Claim(u)' => Claim(u) /\ u # t /\ id[u] # id[t]
    BY <2>2, <1>c DEF ClaimInv
  <2>4. \A i \in Index : i # id[t] => rx_unique_buffer'[i] = rx_unique_buffer[i]
    BY <2>1, <1>a
  <2>5. \A u \in Threads : Claim(u)' => rx_unique_buffer'[id'[u]] # FREE
    BY <2>1, <2>3, <2>4, <1>a DEF ClaimInv
  <2>6. \A u, v \in Threads : Claim(u)' /\ Claim(v)' /\ id'[u] = id'[v] => u = v
    BY <2>1, <2>3 DEF ClaimInv
  <2>7. \A u \in Threads : pc'[u] = "recv_erase" => Claim(u)' /\ pc[u] = "recv_erase"
    BY <2>1, <1>c DEF Claim
  <2>8. RecvNeverNull'
    BY <2>1, <2>3, <2>4, <2>7, <1>a DEF ClaimInv, RecvNeverNull
  <2>9. QED
    BY Zenon, <2>5, <2>6, <2>8 DEF ClaimInv
<1>3. CASE SendPutId(t)
  <2>1. pc[t] = "send_id" /\ id' = id /\ rx_unique_buffer' = rx_unique_buffer /\ pc'[t] = "idle"
    BY <1>3, <1>a DEF SendPutId, Goto, Return
  <2>2. Claim(t)
    BY <2>1 DEF Claim
  <2>3. QED
    BY <2>1, <2>2, <1>a, <1>c, ClaimsKept
<1>4. CASE PingSend(t) \/ PingPut(t) \/ SendSend(t) \/ SendPut(t) \/ WriteFirst(t)
           \/ WriteSend(t) \/ WritePut(t) \/ ReadGet(t)
  <2>1. id' = id /\ rx_unique_buffer' = rx_unique_buffer
    BY Zenon, <1>4 DEF PingSend, PingPut, SendSend, SendPut, WriteFirst, WriteSend, WritePut,
       ReadGet, driverVars
  <2>2. /\ pc'[t] \notin {"send_id", "recv_erase"}
        /\ pc[t] \in CallLabels("send") /\ pc'[t] = "idle" => ret'[t] # "OK"
    <3>1. CASE PingSend(t) \/ SendSend(t) \/ WriteSend(t)
      BY <3>1, <1>a DEF PingSend, SendSend, WriteSend, rpmsg_send, Goto, Return, CallLabels
    <3>2. CASE PingPut(t) \/ SendPut(t)
      BY <3>2, <1>a DEF PingPut, SendPut, Goto, Return, CallLabels
    <3>3. CASE WriteFirst(t) \/ WritePut(t) \/ ReadGet(t)
      BY <3>3, <1>a DEF WriteFirst, WritePut, ReadGet, Goto, Return, CallLabels
    <3>4. QED
      BY <1>4, <3>1, <3>2, <3>3
  <2>3. ~Claim(t)'
    BY <2>2, <1>f
  <2>4. QED
    BY <2>1, <2>2, <2>3, <1>a, <1>c, ClaimsKept
<1>5. QED
  BY <1>1, <1>2, <1>3, <1>4, KernelCases

\* main() makes neither a SEND_MSG nor a RECV_MSG.
LEMMA MainCalls ==
    ASSUME NEW p \in Seq(SysCalls), p # <<>>, Len(p) <= 7,
           \A k \in 1..Len(p) : p[k] = StartUp[7 - Len(p) + k]
    PROVE  Head(p) \in {"get", "set", "ping", "write", "read"}
<1>1. Len(p) \in Nat /\ Len(p) >= 1 /\ Head(p) = p[1]
  BY Zenon, FirstOf
<1> DEFINE n == Len(p)
<1>2. n \in 1..7
  BY Zenon, <1>1, OneToSeven
<1>3. Head(p) = StartUp[7 - n + 1]
  <2>1. 1 \in 1..Len(p)
    BY <1>1
  <2>2. QED
    BY <1>1, <2>1
<1> HIDE DEF n
<1>4. 7 - n + 1 \in {1, 2, 3, 4, 5, 6, 7}
  BY <1>2
<1>5. \A k \in {1, 2, 3, 4, 5, 6, 7} : StartUp[k] \in {"get", "set", "ping", "write", "read"}
  BY DEF StartUp
<1>6. QED
  BY <1>3, <1>4, <1>5

\* When a call has failed there is no success to go on with.
LEMMA PassedOK ==
    ASSUME NEW t \in Threads, CallDone(t), Passed(t), busy[t] \in BOOLEAN
    PROVE  busy[t] /\ ret[t] = "OK"
<1>1. ~Failed(t)
  BY DEF Passed
<1>2. busy[t] \/ fd # "open"
  BY DoneCases
<1>3. QED
  BY <1>1, <1>2 DEF Failed

\* RECV_MSG is not tried again: in user space its result is -1, never -EAGAIN.
LEMMA RecvOnce ==
    ASSUME NEW t \in Threads, Again(t)
    PROVE  Head(todo[t]) = "read"
<1>1. Result(t) = -1 \/ Result(t) = 0
  BY Zenon DEF Result
<1>2. Result(t) # -EAGAIN
  BY <1>1 DEF EAGAIN
<1>3. QED
  BY <1>2 DEF Again

\* The end of a call keeps the claims.
LEMMA DoneClaims ==
    ASSUME ServerInv, Programs, ClaimInv, ServerInv', Programs',
           NEW t \in Threads, CallDone(t)
    PROVE  ClaimInv'
<1>a. /\ TypeOK /\ todo \in [Threads -> Seq(SysCalls)] /\ busy \in [Threads -> BOOLEAN]
      /\ todo' \in [Threads -> Seq(SysCalls)] /\ busy' \in [Threads -> BOOLEAN]
  BY DEF ServerInv, ServerTypes
<1>b. /\ todo[t] # <<>> /\ pc[t] = "idle" /\ UNCHANGED <<pc, ret, id, rx_unique_buffer>>
  BY DoneCases DEF vars, threadVars, driverVars
<1>c. ~Again(t) => (Claim(t)' => Claim(t))
  <2>1. CASE Passed(t) /\ Proceed(t)
    <3>1. todo'[t] = Tail(todo[t]) /\ ~busy'[t]
      BY <2>1, <1>a, ProceedCases
    <3>2. busy[t] /\ ret[t] = "OK"
      BY <2>1, <1>a, PassedOK
    <3>3. Claim(t)' => todo'[t] # <<>> /\ Head(todo'[t]) = "recv"
      BY <3>1, <1>b DEF Claim
    <3>4. CASE t = Main
      <4>1. todo'[t] # <<>> => Head(todo'[t]) # "recv"
        <5>1. ASSUME todo'[Main] # <<>>
              PROVE  Head(todo'[Main]) \in {"get", "set", "ping", "write", "read"}
          <6>1. todo'[Main] \in Seq(SysCalls)
            BY <1>a
          <6>2. /\ Len(todo'[Main]) <= 7
                /\ \A k \in 1..Len(todo'[Main]) : todo'[Main][k] = StartUp[7 - Len(todo'[Main]) + k]
            BY Zenon DEF Programs
          <6>3. QED
            BY Zenon, <5>1, <6>1, <6>2, MainCalls
        <5>2. QED
          BY <5>1, <3>4
      <4>2. QED
        BY <3>3, <4>1
    <3>5. CASE t # Main
      <4>1. todo[t] \in HandlerPrograms
        BY <3>5 DEF Programs, Handlers
      <4>2. todo'[t] # <<>> => Head(todo[t]) = "send"
        BY <4>1, <3>1, <1>b, HandlerTail
      <4>3. QED
        BY <3>2, <3>3, <4>2, <1>b DEF Claim
    <3>6. QED
      BY <3>4, <3>5
  <2>2. CASE EndSession \/ HandlerFail(t)
    <3>1. todo'[t] = <<>>
      BY <2>2, <1>a DEF EndSession, HandlerFail
    <3>2. QED
      BY <3>1, <1>b DEF Claim
  <2>3. QED
    BY <2>1, <2>2, DoneCases
<1>d. Again(t) => (Claim(t)' => Claim(t))
  <2>1. ASSUME Again(t) PROVE Head(todo[t]) = "read"
    BY <2>1, RecvOnce
  <2>2. ASSUME Again(t) PROVE UNCHANGED todo
    BY Zenon, <2>2 DEF CallDone
  <2>3. QED
    BY <2>1, <2>2, <1>b DEF Claim
<1>e. \A u \in Threads : u # t => (Claim(u)' => Claim(u))
  <2>1. (\A u \in Threads : todo'[u] = <<>>) \/ (\A u \in Threads : u # t => todo'[u] = todo[u] /\ busy'[u] = busy[u])
    BY <1>a, DoneCases DEF Proceed, EndSession, HandlerFail
  <2>2. QED
    BY <2>1, <1>b DEF Claim
<1>f. QED
  BY <1>a, <1>b, <1>c, <1>d, <1>e, ClaimsKept

\* Every step keeps the claims.
LEMMA ClaimStep ==
    ASSUME ServerInv, Programs, InCall, ClaimInv, ServerInv', Programs',
           [ManagerNext]_managerVars
    PROVE  ClaimInv'
<1>a. /\ TypeOK /\ todo \in [Threads -> Seq(SysCalls)] /\ busy \in [Threads -> BOOLEAN]
      /\ rpc \in [Handlers -> 0..5]
  BY DEF ServerInv, ServerTypes
<1>1. ASSUME NEW t \in Threads, SysCall(t) PROVE ClaimInv'
  BY <1>1, EnterClaims
<1>2. ASSUME NEW t \in Threads, InKernel(t) PROVE ClaimInv'
  BY <1>2, KernelClaims
<1>3. ASSUME NEW t \in Threads, CallDone(t) PROVE ClaimInv'
  BY <1>3, DoneClaims
<1>4. CASE MainStart
  <2>1. /\ UNCHANGED <<pc, ret, id, rx_unique_buffer, busy>> /\ pc[Main] = "idle" /\ fd = "none"
        /\ todo' = [todo EXCEPT ![Main] = StartUp]
    BY <1>4 DEF MainStart, vars, threadVars, driverVars
  <2>2. todo'[Main] = StartUp /\ \A u \in Threads : u # Main => todo'[u] = todo[u]
    BY <2>1, <1>a
  <2>3. Head(StartUp) = "get"
    BY DEF StartUp
  <2>4. \A u \in Threads : Claim(u)' => Claim(u)
    BY <2>1, <2>2, <2>3 DEF Claim
  <2>5. QED
    BY <2>1, <2>4, <1>a, ClaimsKept
<1>5. CASE Signal
  <2>1. UNCHANGED <<pc, ret, id, rx_unique_buffer>> /\ \A u \in Threads : todo'[u] = <<>>
    BY <1>5 DEF Signal, EndSession, vars, threadVars, driverVars
  <2>2. \A u \in Threads : Claim(u)' => Claim(u)
    BY <2>1 DEF Claim
  <2>3. QED
    BY <2>1, <2>2, <1>a, ClaimsKept
<1>6. CASE Connection \/ UNCHANGED managerVars
  <2>1. UNCHANGED <<pc, ret, id, rx_unique_buffer, todo, busy>>
    BY <1>6 DEF Connection, managerVars, callVars, vars, threadVars, driverVars
  <2>2. \A u \in Threads : Claim(u)' => Claim(u)
    BY <2>1 DEF Claim
  <2>3. QED
    BY <2>1, <2>2, <1>a, ClaimsKept
<1>7. CASE Background
  <2>1. UNCHANGED <<todo, busy>>
    BY Zenon, <1>7 DEF Background, callVars
  <2>2. UNCHANGED <<pc, ret, id>>
    BY <1>7 DEF Background, RemoteSilent, CbStore, Probe, Remove, CbMessage, threadVars
  <2>3. \A i \in Index : rx_unique_buffer'[i] = rx_unique_buffer[i] \/ rx_unique_buffer'[i] > 0
    <3>1. CASE CbStore
      <4>1. PICK i \in Index : rx_unique_buffer' = [rx_unique_buffer EXCEPT ![i] = cb]
        BY Zenon, <3>1 DEF CbStore
      <4>2. cb > 0
        BY <3>1, <1>a DEF CbStore, TypeOK
      <4>3. QED
        BY <4>1, <4>2, <1>a DEF TypeOK
    <3>2. CASE RemoteSilent \/ Probe \/ Remove \/ \E a \in AllAnswers : CbMessage(a)
      <4>1. rx_unique_buffer' = rx_unique_buffer
        BY Zenon, <3>2 DEF RemoteSilent, Probe, Remove, CbMessage, driverVars
      <4>2. QED
        BY <4>1
    <3>3. QED
      BY Zenon, <1>7, <3>1, <3>2 DEF Background
  <2>4. \A u \in Threads : Claim(u)' => Claim(u)
    BY <2>1, <2>2 DEF Claim
  <2>5. QED
    BY <2>2, <2>3, <2>4, <1>a, ClaimsKept
<1>8. ASSUME NEW h \in Handlers, HandlerStart(h) PROVE ClaimInv'
  <2>1. /\ UNCHANGED <<pc, ret, id, rx_unique_buffer, busy>> /\ pc[h] = "idle" /\ todo[h] = <<>>
        /\ todo' = [todo EXCEPT ![h] = ClientScript[rpc[h] + 1]]
    BY <1>8 DEF HandlerStart, vars, threadVars, driverVars
  <2>2. /\ todo'[h] = ClientScript[rpc[h] + 1]
        /\ \A u \in Threads : u # h => todo'[u] = todo[u]
    BY <2>1, <1>a DEF Handlers
  <2>3. Head(ClientScript[rpc[h] + 1]) # "recv"
    BY <1>a, ScriptPrograms
  <2>4. ~busy[h]
    BY <2>1 DEF ServerInv, Life, Handlers
  <2>5. \A u \in Threads : Claim(u)' => Claim(u)
    BY <2>1, <2>2, <2>3, <2>4 DEF Claim
  <2>6. QED
    BY <2>1, <2>5, <1>a, ClaimsKept
<1>9. QED
  BY Zenon, <1>1, <1>2, <1>3, <1>4, <1>5, <1>6, <1>7, <1>8 DEF ManagerNext, ThreadNext

\* Until the remote has appeared, main() has not got past its PING and no thread
\* is inside the driver; and the reference dangles only after a restart.
RefInv ==
    /\ global_rproc_ref = "null" =>
          /\ ~serving
          /\ todo[Main] # <<>> => Len(todo[Main]) >= 3
          /\ Len(todo[Main]) = 3 /\ busy[Main] => ret[Main] # "OK"
          /\ \A t \in Threads : pc[t] = "idle"
    /\ restarts = 0 => global_rproc_ref # "gone"
    /\ NoThreadDies

\* Entering the driver is safe.
LEMMA EnterRef ==
    ASSUME ServerInv, Programs, RefInv, NEW t \in Threads, SysCall(t)
    PROVE  RefInv'
<1>a. /\ TypeOK /\ todo \in [Threads -> Seq(SysCalls)] /\ busy \in [Threads -> BOOLEAN]
      /\ ServerTypes
  BY DEF ServerInv, ServerTypes
<1>1. /\ todo[t] # <<>> /\ Enter(t, Head(todo[t])) /\ todo' = todo /\ serving' = serving
  BY Zenon DEF SysCall, serverVars
<1>2. Head(todo[t]) \in SysCalls
  BY <1>1, <1>a, TailType
<1>3. /\ \A u \in Threads : u # t => pc'[u] = pc[u] /\ ret'[u] = ret[u]
      /\ UNCHANGED <<global_rproc_ref, restarts>>
      /\ pc'[t] \in {"idle"} \cup CallLabels(Head(todo[t]))
      /\ Head(todo[t]) = "ping" /\ global_rproc_ref = "null" => pc'[t] = "idle" /\ ret'[t] # "OK"
  BY <1>a, <1>1, <1>2, EnterEffect
<1>4. pc'[t] # "oops"
  BY <1>3 DEF CallLabels
<1>5. NoThreadDies'
  BY <1>3, <1>4 DEF RefInv, NoThreadDies
<1>6. ASSUME global_rproc_ref = "null"
      PROVE  pc'[t] = "idle" /\ (Len(todo[Main]) = 3 => ret'[Main] # "OK")
  <2>1. t = Main
    BY <1>1, <1>6 DEF RefInv, Programs, Handlers
  <2>2. Len(todo[Main]) >= 3
    BY <1>1, <1>6, <2>1 DEF RefInv
  <2>3. /\ Len(todo[Main]) \in 1..7
        /\ Len(todo[Main]) \in {7, 6, 5} => Head(todo[Main]) = "get"
        /\ Len(todo[Main]) = 4 => Head(todo[Main]) = "set"
        /\ Len(todo[Main]) = 3 => Head(todo[Main]) = "ping"
    BY <1>1, <1>a, <2>1, MainHead
  <2>4. \A n \in 1..7 : n >= 3 => n \in {7, 6, 5} \/ n = 4 \/ n = 3
    OBVIOUS
  <2>5. Head(todo[Main]) \in {"get", "set", "ping"}
    BY Zenon, <2>2, <2>3, <2>4
  <2>6. CallLabels("get") = {} /\ CallLabels("set") = {}
    BY DEF CallLabels
  <2>7. QED
    BY <1>3, <1>6, <2>1, <2>3, <2>5, <2>6
<1>7. QED
  BY <1>1, <1>3, <1>5, <1>6 DEF RefInv

\* Inside the driver nothing is dereferenced that is not there.
LEMMA KernelRef ==
    ASSUME ServerInv, RefInv, RecvNeverNull, NEW t \in Threads, InKernel(t)
    PROVE  RefInv'
<1>a. /\ TypeOK /\ pc \in [Threads -> Labels]
      /\ rx_unique_buffer \in [Index -> {FREE, RESERVED} \cup 1..MaxMsgs]
      /\ global_rproc_ref \in {"null", "live", "gone"}
  BY DEF ServerInv, TypeOK
<1>b. /\ Busy(t) /\ UNCHANGED <<global_rproc_ref, restarts>>
      /\ \A u \in Threads : u # t => pc'[u] = pc[u]
  BY <1>a, KernelCases, KernelEffect
<1>1. global_rproc_ref # "null"
  BY <1>b DEF RefInv, Busy
<1>2. ASSUME restarts = 0 PROVE pc'[t] # "oops"
  <2>1. global_rproc_ref = "live"
    BY <1>1, <1>2, <1>a DEF RefInv
  <2>2. CASE PingSend(t) \/ SendSend(t) \/ WriteSend(t)
    BY <2>1, <2>2, <1>a DEF PingSend, SendSend, WriteSend, rpmsg_send, Goto, Return
  <2>3. CASE RecvErase(t)
    <3>1. rx_unique_buffer[id[t]] > 0
      BY <2>3 DEF RecvErase, RecvNeverNull
    <3>2. rx_unique_buffer[id[t]] \notin {FREE, RESERVED}
      BY <3>1 DEF FREE, RESERVED
    <3>3. QED
      BY <2>3, <3>2, <1>a DEF RecvErase, Goto, Return
  <2>4. CASE PingPut(t) \/ SendPut(t) \/ SendPutId(t)
    BY <2>4, <1>a DEF PingPut, SendPut, SendPutId, Goto, Return
  <2>5. CASE SendAlloc(t)
    BY <2>5, <1>a DEF SendAlloc, Goto, Return
  <2>6. CASE WriteFirst(t) \/ WritePut(t) \/ ReadGet(t)
    BY <2>6, <1>a DEF WriteFirst, WritePut, ReadGet, Goto, Return
  <2>7. QED
    BY <2>2, <2>3, <2>4, <2>5, <2>6, KernelCases
<1>3. NoThreadDies'
  BY <1>2, <1>b DEF RefInv, NoThreadDies
<1>4. QED
  BY <1>1, <1>3, <1>b DEF RefInv

\* main() gets past its PING only if the remote is there.
LEMMA DoneRef ==
    ASSUME ServerInv, Programs, RefInv, NEW t \in Threads, CallDone(t)
    PROVE  RefInv'
<1>a. /\ TypeOK /\ todo \in [Threads -> Seq(SysCalls)] /\ busy \in [Threads -> BOOLEAN]
      /\ ServerTypes
  BY DEF ServerInv, ServerTypes
<1>b. /\ todo[t] # <<>> /\ UNCHANGED <<pc, ret, global_rproc_ref, restarts>>
  BY DoneCases DEF vars, threadVars, driverVars
<1>1. NoThreadDies' /\ (restarts' = 0 => global_rproc_ref' # "gone")
  BY <1>b DEF RefInv, NoThreadDies
<1>2. ASSUME global_rproc_ref = "null"
      PROVE  /\ ~serving'
             /\ todo'[Main] # <<>> => Len(todo'[Main]) >= 3
             /\ ~busy'[Main]
  <2>1. t = Main
    BY <1>b, <1>2 DEF RefInv, Programs, Handlers
  <2>2. Len(todo[Main]) >= 3 /\ ~serving
    BY <1>b, <1>2, <2>1 DEF RefInv
  <2>3. /\ Len(todo[Main]) \in 1..7
        /\ Len(todo[Main]) \in {7, 6, 5} => Head(todo[Main]) = "get"
        /\ Len(todo[Main]) = 4 => Head(todo[Main]) = "set"
        /\ Len(todo[Main]) = 3 => Head(todo[Main]) = "ping"
    BY <1>b, <1>a, <2>1, MainHead
  <2>4. \A n \in 1..7 : n >= 3 => n \in {7, 6, 5} \/ n = 4 \/ n = 3
    OBVIOUS
  <2>5. ~Again(t)
    <3>1. Head(todo[Main]) # "read"
      BY Zenon, <2>2, <2>3, <2>4
    <3>2. QED
      BY <3>1, <2>1, RecvOnce
  <2>6. CASE Passed(t) /\ Proceed(t)
    <3>1. busy[Main] /\ ret[Main] = "OK"
      BY <2>6, <2>1, <1>a, PassedOK
    <3>2. Len(todo[Main]) # 3
      BY <3>1, <1>2 DEF RefInv
    <3>3. Len(todo[Main]) > 3
      <4>1. \A n \in 1..7 : n >= 3 /\ n # 3 => n > 3
        OBVIOUS
      <4>2. QED
        BY Zenon, <4>1, <2>2, <2>3, <3>2
    <3>4. todo'[Main] = Tail(todo[Main]) /\ ~busy'[Main] /\ serving' = serving
      <4>1. Len(todo[Main]) > 1
        BY <2>3, <3>3
      <4>2. QED
        BY <2>6, <2>1, <4>1, <1>a, ProceedCases
    <3>5. Len(todo'[Main]) = Len(todo[Main]) - 1
      BY <3>4, <1>a, <1>b, <2>1, FirstOf
    <3>6. QED
      BY <2>2, <2>3, <3>3, <3>4, <3>5
  <2>7. CASE EndSession
    <3>1. \A u \in Threads : todo'[u] = <<>> /\ ~busy'[u]
      BY Zenon, <2>7 DEF EndSession
    <3>2. ~serving'
      BY Zenon, <2>7 DEF EndSession
    <3>3. QED
      BY <3>1, <3>2
  <2>8. QED
    BY <2>1, <2>5, <2>6, <2>7, DoneCases
<1>3. QED
  BY <1>1, <1>2, <1>b DEF RefInv

\* Every step keeps this.
LEMMA RefStep ==
    ASSUME ServerInv, Programs, RefInv, RecvNeverNull, [ManagerNext]_managerVars
    PROVE  RefInv'
<1>a. TypeOK /\ todo \in [Threads -> Seq(SysCalls)]
  BY DEF ServerInv, ServerTypes
<1>1. ASSUME NEW t \in Threads, SysCall(t) PROVE RefInv'
  BY <1>1, EnterRef
<1>2. ASSUME NEW t \in Threads, InKernel(t) PROVE RefInv'
  BY <1>2, KernelRef
<1>3. ASSUME NEW t \in Threads, CallDone(t) PROVE RefInv'
  BY <1>3, DoneRef
<1>4. CASE MainStart
  <2>1. /\ UNCHANGED <<pc, ret, global_rproc_ref, restarts, serving, busy>> /\ fd = "none"
        /\ todo' = [todo EXCEPT ![Main] = StartUp]
    BY <1>4 DEF MainStart, vars, threadVars, driverVars
  <2>2. todo'[Main] = StartUp
    BY <2>1, <1>a
  <2>3. Len(StartUp) = 7
    BY DEF StartUp
  <2>4. NoThreadDies'
    BY <2>1 DEF RefInv, NoThreadDies
  <2>5. Len(todo'[Main]) >= 3 /\ Len(todo'[Main]) # 3
    BY <2>2, <2>3
  <2>6. QED
    BY <2>1, <2>4, <2>5 DEF RefInv
<1>5. CASE Signal
  <2>1. /\ UNCHANGED <<pc, ret, global_rproc_ref, restarts>>
        /\ \A u \in Threads : todo'[u] = <<>> /\ ~busy'[u]
    BY <1>5 DEF Signal, EndSession, vars, threadVars, driverVars
  <2>2. ~serving'
    BY Zenon, <1>5 DEF Signal, EndSession
  <2>3. NoThreadDies'
    BY <2>1 DEF RefInv, NoThreadDies
  <2>4. QED
    BY <2>1, <2>2, <2>3 DEF RefInv
<1>6. CASE Connection \/ UNCHANGED managerVars
  <2>1. UNCHANGED <<pc, ret, global_rproc_ref, restarts, todo, busy, serving>>
    BY <1>6 DEF Connection, managerVars, serverVars, callVars, vars, threadVars, driverVars
  <2>2. QED
    BY <2>1 DEF RefInv, NoThreadDies
<1>7. CASE Background
  <2>1. UNCHANGED <<todo, busy, serving>>
    BY Zenon, <1>7 DEF Background, callVars, serverVars
  <2>2. UNCHANGED <<pc, ret>>
    BY <1>7 DEF Background, RemoteSilent, CbStore, Probe, Remove, CbMessage, threadVars
  <2>3. \/ UNCHANGED <<global_rproc_ref, restarts>>
        \/ global_rproc_ref' = "live" /\ restarts' = restarts
        \/ global_rproc_ref' = "gone" /\ restarts' = restarts + 1
    BY <1>7 DEF Background, RemoteSilent, CbStore, Probe, Remove, CbMessage, driverVars
  <2>4. restarts + 1 # 0
    BY <1>a DEF TypeOK
  <2>5. QED
    BY <2>1, <2>2, <2>3, <2>4 DEF RefInv, NoThreadDies
<1>8. ASSUME NEW h \in Handlers, HandlerStart(h) PROVE RefInv'
  <2>1. /\ UNCHANGED <<pc, ret, global_rproc_ref, restarts>> /\ serving
    BY <1>8 DEF HandlerStart, vars, threadVars, driverVars
  <2>2. QED
    BY <2>1 DEF RefInv, NoThreadDies
<1>9. QED
  BY Zenon, <1>1, <1>2, <1>3, <1>4, <1>5, <1>6, <1>7, <1>8 DEF ManagerNext, ThreadNext

\* Nothing is claimed and nothing runs at the start.
LEMMA ClaimInit == ManagerInit => Programs /\ InCall /\ ClaimInv /\ RefInv
<1> SUFFICES ASSUME ManagerInit PROVE Programs /\ InCall /\ ClaimInv /\ RefInv
  OBVIOUS
<1>1. \A t \in Threads : todo[t] = <<>> /\ ~busy[t]
  BY Zenon DEF ManagerInit
<1>2. ~serving
  BY Zenon DEF ManagerInit
<1>3. /\ \A t \in Threads : pc[t] = "idle"
      /\ global_rproc_ref = "null" /\ restarts = 0
  BY DEF ManagerInit, Init
<1>4. Programs
  <2>1. todo[Main] = <<>> /\ \A h \in Handlers : todo[h] = <<>>
    BY <1>1 DEF Handlers
  <2>2. Len(<<>>) = 0 /\ 0 <= 7 /\ \A k \in 1..0 : FALSE
    OBVIOUS
  <2>3. <<>> \in HandlerPrograms
    BY DEF HandlerPrograms
  <2>4. QED
    BY Zenon, <2>1, <2>2, <2>3 DEF Programs
<1>5. InCall
  BY <1>1 DEF InCall
<1>6. ClaimInv
  BY <1>1, <1>3 DEF ClaimInv, Claim, RecvNeverNull
<1>7. RefInv
  BY <1>1, <1>2, <1>3 DEF RefInv, NoThreadDies
<1>8. QED
  BY <1>4, <1>5, <1>6, <1>7

\* As long as the remote stays, no thread of the server dies in the driver,
\* however many clients there are and however often the server is restarted:
\* main() has asked for the remote before anybody sends, and no two threads
\* claim the same message.
THEOREM ThreadsSurvive == ManagerSpec => []NoThreadDies
<1> DEFINE I == ServerInv /\ Programs /\ InCall /\ ClaimInv /\ RefInv
<1>1. ManagerInit => I
  BY ServerInit, ClaimInit
<1>2. I /\ [ManagerNext]_managerVars => I'
  <2>1. SUFFICES ASSUME I, [ManagerNext]_managerVars PROVE I'
    OBVIOUS
  <2>2. ServerInv' /\ Programs' /\ InCall'
    BY <2>1, ServerStep, ProgramsStep, InCallStep
  <2>3. ClaimInv'
    BY <2>1, <2>2, ClaimStep
  <2>4. RecvNeverNull
    BY <2>1 DEF ClaimInv
  <2>5. RefInv'
    BY <2>1, <2>4, RefStep
  <2>6. QED
    BY <2>2, <2>3, <2>5
<1>3. I => NoThreadDies
  BY DEF RefInv
<1>4. QED
  BY <1>1, <1>2, <1>3, PTL DEF ManagerSpec

-----------------------------------------------------------------------------
(***************************************************************************)
(* A server that is started once, and writes one message, starts with the  *)
(* answer to that message.                                                 *)
(***************************************************************************)

\* The server is started once after the driver was loaded, and main() writes one
\* message.
OneStart == MaxSessions <= 1 /\ MaxBatch <= 1

\* The server has not been started yet: the driver is untouched.
Fresh ==
    session = 0 =>
        /\ fd = "none" /\ \A t \in Threads : pc[t] = "idle"
        /\ sent = <<>> /\ fifo_send_types = <<>> /\ fifo_external_msg = <<>>
        /\ overtaken = {}

\* The kind of the PING is at the head of the queue until its answer comes.
PingKind ==
    done = 0 => /\ fifo_send_types # <<>>
                /\ Head(fifo_send_types) = SENT_MSG_INTERNAL

NothingSent == sent = <<>> /\ fifo_send_types = <<>>
PingSent    == Len(sent) = 1 /\ PingKind
Written     == /\ Len(sent) = 2 /\ PingKind
               /\ sent[2] = SENT_MSG_EXTERNAL_FIFO /\ req[Main] = 2

\* The calls main() has made, and what it has sent by then.
Stages ==
    /\ Len(todo[Main]) \in {7, 6, 5, 4} => NothingSent
    /\ Len(todo[Main]) = 3 =>
          /\ ~busy[Main] \/ pc[Main] = "ping_send" => NothingSent
          /\ pc[Main] = "ping_put" => Len(sent) = 1 /\ fifo_send_types = <<>>
          /\ busy[Main] /\ pc[Main] = "idle" /\ ret[Main] = "OK" => PingSent
    /\ Len(todo[Main]) = 2 =>
          /\ ~busy[Main] \/ pc[Main] \in {"write_first", "write_send"} => PingSent
          /\ pc[Main] = "write_put" => Written
          /\ busy[Main] /\ pc[Main] = "idle" /\ ret[Main] = "OK" => Written
    /\ Len(todo[Main]) = 1 => Written

\* The answer to the PING is never filed for read().
OnlySecondFiled ==
    /\ Len(sent) <= 2
    /\ sent # <<>> /\ done = 0 =>
          \/ fifo_send_types = <<>>
          \/ Head(fifo_send_types) # SENT_MSG_EXTERNAL_FIFO
    /\ \A k \in 1..Len(fifo_external_msg) : fifo_external_msg[k] = 2

\* While main() makes its calls it is alone, and only its written message can
\* be read.
Boot ==
    todo[Main] # <<>> =>
        /\ ~serving /\ \A h \in Handlers : pc[h] = "idle"
        /\ got[Main] \in {0, 2} /\ OnlySecondFiled /\ Stages /\ overtaken = {}

\* Once the server runs, main() makes no more calls.
Served ==
    serving =>
        /\ todo[Main] = <<>> /\ ~Busy(Main)
        /\ req[Main] \in 1..Len(sent) /\ StartedOnOwnAnswer

StartInv == Fresh /\ Boot /\ Served

\* What a queue of the driver has at its head after a put.
LEMMA PutHead ==
    ASSUME NEW S, NEW q \in Seq(S), NEW x \in S, NEW n \in Nat, q # <<>>
    PROVE  kfifo_put(q, n, x) # <<>> /\ Head(kfifo_put(q, n, x)) = Head(q)
<1>1. Append(q, x) # <<>> /\ Head(Append(q, x)) = Head(q)
  OBVIOUS
<1>2. QED
  BY <1>1 DEF kfifo_put

\* What an empty queue of the driver has at its head after a put.
LEMMA PutFirst ==
    ASSUME NEW x, NEW n \in Nat \ {0}
    PROVE  kfifo_put(<<>>, n, x) # <<>> /\ Head(kfifo_put(<<>>, n, x)) = x
<1>1. Append(<<>>, x) # <<>> /\ Head(Append(<<>>, x)) = x /\ Len(<<>>) < n
  OBVIOUS
<1>2. QED
  BY <1>1 DEF kfifo_put

\* While main() is in a call, the call is told by where it is.
LEMMA MainAt ==
    ASSUME ServerTypes, Programs, InCall, todo[Main] # <<>>, Busy(Main)
    PROVE  /\ busy[Main]
           /\ \/ Len(todo[Main]) = 3 /\ pc[Main] \in {"ping_send", "ping_put"}
              \/ Len(todo[Main]) = 2 /\ pc[Main] \in {"write_first", "write_send", "write_put"}
              \/ Len(todo[Main]) = 1 /\ pc[Main] = "read_get"
<1>1. busy[Main] /\ pc[Main] \in CallLabels(Head(todo[Main]))
  BY DEF InCall
<1>2. /\ Len(todo[Main]) \in 1..7
      /\ Len(todo[Main]) \in {7, 6, 5} => Head(todo[Main]) = "get"
      /\ Len(todo[Main]) = 4 => Head(todo[Main]) = "set"
      /\ Len(todo[Main]) = 3 => Head(todo[Main]) = "ping"
      /\ Len(todo[Main]) = 2 => Head(todo[Main]) = "write"
      /\ Len(todo[Main]) = 1 => Head(todo[Main]) = "read"
  BY MainHead
<1>3. \A n \in 1..7 : n \in {7, 6, 5} \/ n = 4 \/ n = 3 \/ n = 2 \/ n = 1
  OBVIOUS
<1>4. Len(todo[Main]) \in {7, 6, 5} \/ Len(todo[Main]) = 4 \/ Len(todo[Main]) = 3
      \/ Len(todo[Main]) = 2 \/ Len(todo[Main]) = 1
  BY Zenon, <1>2, <1>3
<1>5. /\ CallLabels("get") = {} /\ CallLabels("set") = {}
      /\ CallLabels("ping") \subseteq {"ping_send", "ping_put"}
      /\ CallLabels("write") \subseteq {"write_first", "write_send", "write_put"}
      /\ CallLabels("read") \subseteq {"read_get"}
  BY DEF CallLabels
<1>6. QED
  BY Zenon, <1>1, <1>2, <1>4, <1>5

\* main() enters the driver.
LEMMA MainEnterBoot ==
    ASSUME ServerInv, Programs, Boot, SysCall(Main)
    PROVE  Boot'
<1>a. /\ TypeOK /\ todo \in [Threads -> Seq(SysCalls)] /\ busy \in [Threads -> BOOLEAN]
      /\ ServerTypes
  BY DEF ServerInv, ServerTypes
<1>1. /\ todo[Main] # <<>> /\ Enter(Main, Head(todo[Main]))
      /\ UNCHANGED <<todo, serving, got>> /\ ~busy[Main]
      /\ busy' = [busy EXCEPT ![Main] = TRUE]
  BY Zenon DEF SysCall, serverVars
<1>2. Head(todo[Main]) \in SysCalls
  BY <1>1, <1>a, TailType
<1>3. busy'[Main]
  BY <1>1, <1>a
<1>4. /\ \A u \in Threads : u # Main => pc'[u] = pc[u]
      /\ UNCHANGED <<sent, done, fifo_send_types, fifo_external_msg, req, overtaken>>
      /\ Head(todo[Main]) = "ping" => pc'[Main] \in {"idle", "ping_send"}
      /\ Head(todo[Main]) = "ping" /\ pc'[Main] = "idle" => ret'[Main] # "OK"
      /\ Head(todo[Main]) = "write" => pc'[Main] = "write_first"
  BY <1>1, <1>2, <1>a, EnterEffect
<1>5. /\ Len(todo[Main]) = 3 => Head(todo[Main]) = "ping"
      /\ Len(todo[Main]) = 2 => Head(todo[Main]) = "write"
      /\ Len(todo[Main]) # 2 => Head(todo[Main]) # "write"
  <2>1. /\ Len(todo[Main]) \in 1..7
        /\ Len(todo[Main]) \in {7, 6, 5} => Head(todo[Main]) = "get"
        /\ Len(todo[Main]) = 4 => Head(todo[Main]) = "set"
        /\ Len(todo[Main]) = 3 => Head(todo[Main]) = "ping"
        /\ Len(todo[Main]) = 2 => Head(todo[Main]) = "write"
        /\ Len(todo[Main]) = 1 => Head(todo[Main]) = "read"
    BY <1>1, <1>a, MainHead
  <2>2. \A n \in 1..7 : n \in {7, 6, 5} \/ n = 4 \/ n = 3 \/ n = 2 \/ n = 1
    OBVIOUS
  <2>3. QED
    BY Zenon, <2>1, <2>2
<1>6. /\ ~serving /\ (\A h \in Handlers : pc[h] = "idle") /\ got[Main] \in {0, 2}
      /\ OnlySecondFiled /\ Stages /\ overtaken = {}
  BY <1>1 DEF Boot
<1>7. \A h \in Handlers : pc'[h] = "idle"
  BY <1>4, <1>6 DEF Handlers
<1>8. OnlySecondFiled'
  BY <1>4, <1>6 DEF OnlySecondFiled
<1>9. /\ NothingSent => NothingSent'
      /\ PingSent => PingSent'
      /\ Written => Written'
  BY <1>4 DEF NothingSent, PingSent, Written, PingKind
<1>10. Stages'
  BY <1>1, <1>3, <1>4, <1>5, <1>6, <1>9 DEF Stages
<1>11. QED
  BY <1>1, <1>4, <1>6, <1>7, <1>8, <1>10 DEF Boot

\* While every handler is out of the driver, main() races with nobody.
LEMMA AloneNoRace ==
    ASSUME InKernel(Main), overtaken = {}, \A h \in Handlers : pc[h] = "idle"
    PROVE  ~Racing(Main) /\ overtaken' = {}
<1>1. \A e \in Ends : "idle" \notin e
  BY DEF Ends
<1>2. Rivals(Main) = {}
  <2>1. \A u \in Threads \ {Main} : pc[u] = "idle"
    BY Zenon DEF Handlers
  <2>2. \A u \in Threads \ {Main} : \A e \in Ends : ~({pc[Main], pc[u]} \subseteq e)
    BY <1>1, <2>1
  <2>3. QED
    BY <2>2 DEF Rivals
<1>3. overtaken' = overtaken \/ Overtake(Main)
  <2>1. \/ PingSend(Main) \/ PingPut(Main) \/ SendSend(Main) \/ SendPut(Main)
        \/ SendAlloc(Main) \/ SendPutId(Main) \/ RecvErase(Main) \/ WriteFirst(Main)
        \/ WriteSend(Main) \/ WritePut(Main) \/ ReadGet(Main)
    BY Zenon, ManagerAssumption, KernelCases
  <2>2. QED
    BY Zenon, <2>1 DEF PingSend, PingPut, SendSend, SendPut, SendAlloc, SendPutId, RecvErase,
       WriteFirst, WriteSend, WritePut, ReadGet, PutType, histVars
<1>4. QED
  BY <1>2, <1>3 DEF Racing, Overtake

\* main() goes on inside the driver.
LEMMA MainKernelBoot ==
    ASSUME ServerInv, Programs, InCall, Boot, OneStart, InKernel(Main)
    PROVE  Boot'
<1> SUFFICES ASSUME todo'[Main] # <<>> PROVE Boot'
  BY DEF Boot
<1>a. /\ TypeOK /\ ServerTypes /\ LocalsOK /\ pc \in [Threads -> Labels]
      /\ ret \in [Threads -> Results] /\ req \in [Threads -> 0..MaxMsgs]
      /\ left \in [Threads -> 0..MaxBatch] /\ got \in [Threads -> 0..MaxMsgs]
      /\ sent \in Seq(SentMsgTypes) /\ done \in 0..Len(sent)
      /\ fifo_send_types \in Seq(SentMsgTypes) /\ fifo_external_msg \in Seq(0..MaxMsgs)
  BY DEF ServerInv, ServerTypes, TypeOK
<1>b. Busy(Main) /\ UNCHANGED <<todo, busy, serving>>
  BY KernelCases
<1>c. /\ busy[Main]
      /\ \/ Len(todo[Main]) = 3 /\ pc[Main] \in {"ping_send", "ping_put"}
         \/ Len(todo[Main]) = 2 /\ pc[Main] \in {"write_first", "write_send", "write_put"}
         \/ Len(todo[Main]) = 1 /\ pc[Main] = "read_get"
  BY <1>a, <1>b, MainAt
<1>d. /\ ~serving /\ (\A h \in Handlers : pc[h] = "idle") /\ got[Main] \in {0, 2}
      /\ OnlySecondFiled /\ Stages /\ overtaken = {}
  BY <1>b DEF Boot
<1>e. \A h \in Handlers : pc'[h] = "idle"
  BY <1>a, <1>d, KernelEffect DEF Handlers
<1>f. pc[Main] # "read_get" => got'[Main] = got[Main]
  <2>1. pc[Main] # "recv_erase"
    BY <1>c
  <2>2. pc[Main] # "read_get" => got' = [got EXCEPT ![Main] = got[Main]]
    BY Zenon, <2>1 DEF InKernel
  <2>3. QED
    BY <2>2, <1>a
<1>g. SENT_MSG_INTERNAL \in SentMsgTypes /\ SENT_MSG_EXTERNAL_FIFO \in SentMsgTypes
      /\ SENT_MSG_INTERNAL # SENT_MSG_EXTERNAL_FIFO
  BY DEF SENT_MSG_INTERNAL, SENT_MSG_EXTERNAL_FIFO, SentMsgTypes
<1>i. /\ 3 \notin {7, 6, 5, 4} /\ 3 # 2 /\ 3 # 1 /\ 2 \notin {7, 6, 5, 4} /\ 2 # 3 /\ 2 # 1
      /\ 1 \notin {7, 6, 5, 4} /\ 1 # 3 /\ 1 # 2
  OBVIOUS
<1>j. Len(todo'[Main]) = Len(todo[Main]) /\ busy'[Main]
  BY <1>b, <1>c
<1>k. ~Racing(Main) /\ overtaken' = {}
  BY <1>b, <1>c, <1>d, AloneNoRace
<1>h. SUFFICES OnlySecondFiled' /\ Stages' /\ got'[Main] \in {0, 2}
  BY <1>b, <1>d, <1>e, <1>k DEF Boot
<1>1. CASE PingSend(Main)
  <2>0. pc[Main] = "ping_send" /\ Len(todo[Main]) = 3
    BY <1>1, <1>c DEF PingSend
  <2>1. NothingSent
    BY <2>0, <1>d DEF Stages
  <2>2. UNCHANGED <<done, fifo_send_types, fifo_external_msg>>
    BY <1>1 DEF PingSend, driverVars
  <2>3. \/ sent' = Append(sent, SENT_MSG_INTERNAL) /\ pc'[Main] = "ping_put"
        \/ sent' = sent /\ pc'[Main] = "idle" /\ ret'[Main] = "ESEND"
        \/ sent' = sent /\ pc'[Main] = "oops"
    BY <1>1, <1>a DEF PingSend, rpmsg_send, Goto, Return, Labels, Results
  <2>4. Len(sent') <= 2 /\ (sent' = Append(sent, SENT_MSG_INTERNAL) => Len(sent') = 1)
    <3>1. sent = <<>> /\ Len(Append(<<>>, SENT_MSG_INTERNAL)) = 1 /\ Len(<<>>) = 0
      BY <2>1 DEF NothingSent
    <3>2. 1 <= 2 /\ 0 <= 2
      OBVIOUS
    <3>3. sent' = sent \/ sent' = Append(sent, SENT_MSG_INTERNAL)
      BY <2>3
    <3>4. sent' = <<>> \/ sent' = Append(<<>>, SENT_MSG_INTERNAL)
      BY Zenon, <3>1, <3>3
    <3>5. QED
      BY Zenon, <3>1, <3>2, <3>4
  <2>5. OnlySecondFiled'
    BY <2>1, <2>2, <2>4, <1>d DEF NothingSent, OnlySecondFiled
  <2>6. Stages'
    <3>1. /\ pc'[Main] = "ping_put" => Len(sent') = 1 /\ fifo_send_types' = <<>>
          /\ pc'[Main] # "ping_send" /\ ~(pc'[Main] = "idle" /\ ret'[Main] = "OK")
      BY <2>1, <2>2, <2>3, <2>4 DEF NothingSent
    <3>2. QED
      BY Zenon, <2>0, <3>1, <1>i, <1>j DEF Stages
  <2>7. QED
    BY <2>0, <2>5, <2>6, <1>d, <1>f
<1>2. CASE PingPut(Main)
  <2>0. pc[Main] = "ping_put" /\ Len(todo[Main]) = 3
    BY <1>2, <1>c DEF PingPut
  <2>1. Len(sent) = 1 /\ fifo_send_types = <<>>
    BY <2>0, <1>d DEF Stages
  <2>2. UNCHANGED <<sent, done, fifo_external_msg>> /\ pc'[Main] = "idle"
    BY <1>2, <1>a DEF PingPut, Return, Goto
  <2>3. fifo_send_types' = kfifo_put(fifo_send_types, TypesSize, SENT_MSG_INTERNAL)
    BY <1>2, <1>k DEF PingPut, PutType
  <2>4. fifo_send_types' # <<>> /\ Head(fifo_send_types') = SENT_MSG_INTERNAL
    <3>1. TypesSize \in Nat \ {0}
      OBVIOUS
    <3>2. fifo_send_types' = kfifo_put(<<>>, TypesSize, SENT_MSG_INTERNAL)
      BY Zenon, <2>1, <2>3
    <3>3. QED
      BY Zenon, <3>1, <3>2, PutFirst
  <2>5. OnlySecondFiled'
    BY <2>2, <2>4, <1>d, <1>g DEF OnlySecondFiled
  <2>6. PingSent'
    BY <2>1, <2>2, <2>4 DEF PingSent, PingKind
  <2>7. Stages'
    <3>1. pc'[Main] # "ping_put" /\ pc'[Main] # "ping_send"
      BY <2>2
    <3>2. QED
      BY Zenon, <2>0, <2>6, <3>1, <1>i, <1>j DEF Stages
  <2>8. QED
    BY <2>0, <2>5, <2>7, <1>d, <1>f
<1>3. CASE WriteSend(Main)
  <2>0. pc[Main] = "write_send" /\ Len(todo[Main]) = 2
    BY <1>3, <1>c DEF WriteSend
  <2>1. PingSent
    BY <2>0, <1>d DEF Stages
  <2>2. UNCHANGED <<done, fifo_send_types, fifo_external_msg>>
    BY <1>3 DEF WriteSend, driverVars
  <2>3. \/ /\ sent' = Append(sent, SENT_MSG_EXTERNAL_FIFO) /\ pc'[Main] = "write_put"
           /\ req'[Main] = Len(sent) + 1
        \/ sent' = sent /\ pc'[Main] = "idle" /\ ret'[Main] = "SHORT"
        \/ sent' = sent /\ pc'[Main] = "oops"
    BY <1>3, <1>a DEF WriteSend, rpmsg_send, Goto, Return, Labels, Results
  <2>4. PingKind' /\ sent # <<>>
    BY <2>1, <2>2 DEF PingSent, PingKind
  <2>5. sent' = Append(sent, SENT_MSG_EXTERNAL_FIFO) =>
          Len(sent') = 2 /\ sent'[2] = SENT_MSG_EXTERNAL_FIFO
    <3>1. Len(sent) = 1
      BY <2>1 DEF PingSent
    <3>2. /\ Len(Append(sent, SENT_MSG_EXTERNAL_FIFO)) = Len(sent) + 1
          /\ Append(sent, SENT_MSG_EXTERNAL_FIFO)[Len(sent) + 1] = SENT_MSG_EXTERNAL_FIFO
      BY <1>a, <1>g
    <3>3. 1 + 1 = 2
      OBVIOUS
    <3>4. QED
      BY Zenon, <3>1, <3>2, <3>3
  <2>6. OnlySecondFiled'
    <3>1. Len(sent') <= 2
      BY <2>1, <2>3, <2>5, <1>d DEF OnlySecondFiled
    <3>2. QED
      BY <2>2, <2>4, <3>1, <1>d, <1>g DEF OnlySecondFiled, PingKind
  <2>7. pc'[Main] = "write_put" => Written'
    BY <2>1, <2>3, <2>4, <2>5 DEF PingSent, Written
  <2>8. Stages'
    <3>1. /\ pc'[Main] \notin {"write_first", "write_send"}
          /\ ~(pc'[Main] = "idle" /\ ret'[Main] = "OK")
      BY <2>3
    <3>2. QED
      BY Zenon, <2>0, <2>7, <3>1, <1>i, <1>j DEF Stages
  <2>9. QED
    BY <2>0, <2>6, <2>8, <1>d, <1>f
<1>4. CASE WritePut(Main)
  <2>0. pc[Main] = "write_put" /\ Len(todo[Main]) = 2
    BY <1>4, <1>c DEF WritePut
  <2>1. Written
    BY <2>0, <1>d DEF Stages
  <2>2. left[Main] = 1
    <3>1. left[Main] > 0 /\ left[Main] \in 0..MaxBatch
      BY <2>0, <1>a DEF LocalsOK
    <3>2. QED
      BY <3>1 DEF OneStart
  <2>3. UNCHANGED <<sent, done, fifo_external_msg, req>> /\ pc'[Main] = "idle"
    BY <1>4, <2>2, <1>a DEF WritePut, Return, Goto
  <2>4. fifo_send_types' = kfifo_put(fifo_send_types, TypesSize, SENT_MSG_EXTERNAL_FIFO)
    BY <1>4, <1>k DEF WritePut, PutType
  <2>5. fifo_send_types # <<>> =>
          fifo_send_types' # <<>> /\ Head(fifo_send_types') = Head(fifo_send_types)
    BY <2>4, <1>a, <1>g, PutHead
  <2>6. PingKind'
    BY <2>1, <2>3, <2>5 DEF Written, PingKind
  <2>7. OnlySecondFiled'
    BY <2>3, <2>6, <1>d, <1>g DEF OnlySecondFiled, PingKind
  <2>8. Written'
    BY <2>1, <2>3, <2>6 DEF Written
  <2>9. Stages'
    <3>1. pc'[Main] \notin {"write_first", "write_send"}
      BY <2>3
    <3>2. QED
      BY Zenon, <2>0, <2>8, <3>1, <1>i, <1>j DEF Stages
  <2>10. QED
    BY <2>0, <2>7, <2>9, <1>d, <1>f
<1>5. CASE ReadGet(Main)
  <2>0. pc[Main] = "read_get" /\ Len(todo[Main]) = 1
    BY <1>5, <1>c DEF ReadGet
  <2>1. Written
    BY <2>0, <1>d DEF Stages
  <2>2. UNCHANGED <<sent, done, fifo_send_types, req>>
    BY <1>5 DEF ReadGet
  <2>3. /\ fifo_external_msg # <<>> => fifo_external_msg' = Tail(fifo_external_msg)
        /\ fifo_external_msg = <<>> => fifo_external_msg' = <<>>
    BY <1>5, <1>k DEF ReadGet
  <2>4. \A k \in 1..Len(fifo_external_msg') : fifo_external_msg'[k] = 2
    <3>1. CASE fifo_external_msg = <<>>
      BY <2>3, <3>1
    <3>2. CASE fifo_external_msg # <<>>
      <4>1. /\ Len(Tail(fifo_external_msg)) = Len(fifo_external_msg) - 1
            /\ \A k \in 1..Len(fifo_external_msg) - 1 :
                 Tail(fifo_external_msg)[k] = fifo_external_msg[k + 1]
        BY <3>2, <1>a, FirstOf
      <4>2. Len(fifo_external_msg) \in Nat
        BY <1>a
      <4>3. \A k \in 1..Len(fifo_external_msg) - 1 : k + 1 \in 1..Len(fifo_external_msg)
        BY <4>2
      <4>4. QED
        BY <2>3, <3>2, <4>1, <4>3, <1>d DEF OnlySecondFiled
    <3>3. QED
      BY <3>1, <3>2
  <2>5. OnlySecondFiled'
    BY <2>2, <2>4, <1>d DEF OnlySecondFiled
  <2>6. Written'
    BY <2>1, <2>2 DEF Written, PingKind
  <2>7. Stages'
    BY Zenon, <2>0, <2>6, <1>i, <1>j DEF Stages
  <2>8. got'[Main] \in {0, 2}
    <3>1. got' = [got EXCEPT ![Main] =
                 CASE pc[Main] = "recv_erase" /\ rx_unique_buffer[id[Main]] > 0 ->
                        rx_unique_buffer[id[Main]]
                   [] pc[Main] = "read_get" /\ fifo_external_msg # <<>> ->
                        Head(fifo_external_msg)
                   [] OTHER -> got[Main]]
      BY Zenon DEF InKernel
    <3>2. CASE fifo_external_msg = <<>>
      <4>1. got' = [got EXCEPT ![Main] = got[Main]]
        BY <2>0, <3>1, <3>2
      <4>2. QED
        BY <4>1, <1>a, <1>d
    <3>3. CASE fifo_external_msg # <<>>
      <4>1. got' = [got EXCEPT ![Main] = Head(fifo_external_msg)]
        BY <2>0, <3>1, <3>3
      <4>2. Head(fifo_external_msg) = 2
        <5>1. Len(fifo_external_msg) \in Nat /\ Len(fifo_external_msg) >= 1
              /\ Head(fifo_external_msg) = fifo_external_msg[1]
          BY <3>3, <1>a, FirstOf
        <5>2. 1 \in 1..Len(fifo_external_msg)
          BY <5>1
        <5>3. QED
          BY <5>1, <5>2, <1>d DEF OnlySecondFiled
      <4>3. QED
        BY <4>1, <4>2, <1>a
    <3>4. QED
      BY <3>2, <3>3
  <2>9. QED
    BY <2>5, <2>7, <2>8
<1>6. CASE SendSend(Main) \/ SendPut(Main) \/ SendAlloc(Main) \/ SendPutId(Main) \/ RecvErase(Main)
  <2>1. pc[Main] \in {"send_send", "send_put", "send_alloc", "send_id", "recv_erase"}
    BY <1>6 DEF SendSend, SendPut, SendAlloc, SendPutId, RecvErase
  <2>2. QED
    BY <2>1, <1>c
<1>7. CASE WriteFirst(Main)
  <2>0. pc[Main] = "write_first" /\ Len(todo[Main]) = 2
    BY <1>7, <1>c DEF WriteFirst
  <2>1. PingSent
    BY <2>0, <1>d DEF Stages
  <2>2. UNCHANGED <<sent, done, fifo_external_msg, req>> /\ pc'[Main] = "write_send"
    <3>1. pc'[Main] # "idle"
      BY <2>0 DEF InKernel
    <3>2. pc'[Main] \in {"idle", "write_send"}
      BY <1>7, <1>a DEF WriteFirst, Return, Goto
    <3>3. QED
      BY <1>7, <3>1, <3>2 DEF WriteFirst
  <2>3. fifo_send_types' = kfifo_put(fifo_send_types, TypesSize, SENT_MSG_EXTERNAL_FIFO)
    BY <1>7, <1>k DEF WriteFirst, PutType
  <2>4. fifo_send_types # <<>> =>
          fifo_send_types' # <<>> /\ Head(fifo_send_types') = Head(fifo_send_types)
    BY <2>3, <1>a, <1>g, PutHead
  <2>5. PingSent' /\ PingKind'
    BY <2>1, <2>2, <2>4 DEF PingSent, PingKind
  <2>6. OnlySecondFiled'
    BY <2>2, <2>5, <1>d, <1>g DEF OnlySecondFiled, PingKind
  <2>7. Stages'
    <3>1. pc'[Main] # "write_put" /\ pc'[Main] # "idle"
      BY <2>2
    <3>2. QED
      BY Zenon, <2>0, <2>5, <3>1, <1>i, <1>j DEF Stages
  <2>8. QED
    BY <2>0, <2>6, <2>7, <1>d, <1>f
<1>8. QED
  BY <1>1, <1>2, <1>3, <1>4, <1>5, <1>6, <1>7, KernelCases

\* main() looks at the result of a call.
LEMMA MainDoneStart ==
    ASSUME ServerInv, Programs, StartInv, CallDone(Main)
    PROVE  Boot' /\ Served'
<1>a. /\ TypeOK /\ ServerTypes /\ todo \in [Threads -> Seq(SysCalls)]
      /\ busy \in [Threads -> BOOLEAN]
  BY DEF ServerInv, ServerTypes
<1>b. /\ todo[Main] # <<>> /\ pc[Main] = "idle"
      /\ UNCHANGED <<pc, ret, req, sent, done, fifo_send_types, fifo_external_msg, got, overtaken>>
  BY DoneCases DEF vars, threadVars, driverVars, histVars
<1>c. /\ ~serving /\ (\A h \in Handlers : pc[h] = "idle") /\ got[Main] \in {0, 2}
      /\ OnlySecondFiled /\ Stages /\ overtaken = {}
  BY <1>b DEF StartInv, Boot
<1>d. /\ OnlySecondFiled' /\ (\A h \in Handlers : pc'[h] = "idle") /\ got'[Main] \in {0, 2}
      /\ overtaken' = {}
  BY <1>b, <1>c DEF OnlySecondFiled
<1>e. /\ NothingSent => NothingSent'
      /\ PingSent => PingSent'
      /\ Written => Written'
  BY <1>b DEF NothingSent, PingSent, Written, PingKind
<1>f. /\ Len(todo[Main]) \in 1..7
      /\ Len(todo[Main]) \in {7, 6, 5} => Head(todo[Main]) = "get"
      /\ Len(todo[Main]) = 4 => Head(todo[Main]) = "set"
      /\ Len(todo[Main]) = 3 => Head(todo[Main]) = "ping"
      /\ Len(todo[Main]) = 2 => Head(todo[Main]) = "write"
      /\ Len(todo[Main]) = 1 => Head(todo[Main]) = "read"
  BY <1>a, <1>b, MainHead
<1>1. CASE /\ Again(Main) /\ busy' = [busy EXCEPT ![Main] = FALSE]
           /\ UNCHANGED <<fd, serving, todo, status>>
  <2>1. Len(todo[Main]) = 1
    <3>1. Head(todo[Main]) = "read"
      BY <1>1, RecvOnce
    <3>2. \A n \in 1..7 : n \in {7, 6, 5} \/ n = 4 \/ n = 3 \/ n = 2 \/ n = 1
      OBVIOUS
    <3>3. QED
      BY Zenon, <3>1, <3>2, <1>f
  <2>2. Written'
    BY <2>1, <1>c, <1>e DEF Stages
  <2>3. Stages'
    <3>1. Len(todo'[Main]) = 1
      BY <2>1, <1>1
    <3>2. 1 \notin {7, 6, 5, 4} /\ 1 # 3 /\ 1 # 2
      OBVIOUS
    <3>3. QED
      BY Zenon, <2>2, <3>1, <3>2 DEF Stages
  <2>4. QED
    BY <2>3, <1>1, <1>c, <1>d DEF Boot, Served
<1>2. CASE Passed(Main) /\ Proceed(Main) /\ Len(todo[Main]) > 1
  <2>1. busy[Main] /\ ret[Main] = "OK"
    BY <1>2, <1>a, PassedOK
  <2>2. todo'[Main] = Tail(todo[Main]) /\ ~busy'[Main] /\ serving' = serving
    BY <1>2, <1>a, ProceedCases
  <2>3. Len(todo'[Main]) = Len(todo[Main]) - 1
    BY <2>2, <1>a, <1>b, FirstOf
  <2> DEFINE n == Len(todo[Main])  m == Len(todo'[Main])
  <2>4. n \in 1..7 /\ m = n - 1
    BY <2>3, <1>f
  <2> HIDE DEF n, m
  <2>5. /\ m \in {7, 6, 5, 4} => n \in {7, 6, 5, 4}
        /\ m = 3 => n \in {7, 6, 5, 4}
        /\ m = 2 => n = 3
        /\ m = 1 => n = 2
    BY <2>4
  <2>6. /\ Len(todo'[Main]) \in {7, 6, 5, 4} => Len(todo[Main]) \in {7, 6, 5, 4}
        /\ Len(todo'[Main]) = 3 => Len(todo[Main]) \in {7, 6, 5, 4}
        /\ Len(todo'[Main]) = 2 => Len(todo[Main]) = 3
        /\ Len(todo'[Main]) = 1 => Len(todo[Main]) = 2
    BY Zenon, <2>5 DEF n, m
  <2>7. /\ Len(todo'[Main]) \in {7, 6, 5, 4} => NothingSent'
        /\ Len(todo'[Main]) = 3 => NothingSent'
        /\ Len(todo'[Main]) = 2 => PingSent'
        /\ Len(todo'[Main]) = 1 => Written'
    BY Zenon, <2>1, <2>6, <1>b, <1>c, <1>e DEF Stages
  <2>8. pc'[Main] = "idle"
    BY <1>b
  <2>9. Stages'
    BY Zenon, <2>2, <2>7, <2>8 DEF Stages
  <2>10. QED
    BY <2>2, <2>9, <1>c, <1>d DEF Boot, Served
<1>3. CASE Passed(Main) /\ Proceed(Main) /\ ~(Len(todo[Main]) > 1)
  <2>1. Len(todo[Main]) = 1
    BY <1>3, <1>f
  <2>2. Written'
    BY <2>1, <1>c, <1>e DEF Stages
  <2>3. got[Main] = 2
    <3>1. got[Main] # 0
      BY <2>1, <1>3, <1>f DEF Passed
    <3>2. QED
      BY <3>1, <1>c
  <2>4. todo'[Main] = <<>>
    <3>1. todo'[Main] = Tail(todo[Main])
      BY <1>3, <1>a, ProceedCases
    <3>2. Tail(todo[Main]) \in Seq(SysCalls) /\ Len(Tail(todo[Main])) = 0
      BY <2>1, <1>a, <1>b
    <3>3. \A q \in Seq(SysCalls) : Len(q) = 0 => q = <<>>
      OBVIOUS
    <3>4. QED
      BY Zenon, <3>1, <3>2, <3>3
  <2>5. 2 \in 1..2
    OBVIOUS
  <2>6. got'[Main] = req'[Main] /\ req'[Main] = 2 /\ Len(sent') = 2
        /\ sent'[2] = SENT_MSG_EXTERNAL_FIFO
    BY <2>2, <2>3, <1>b DEF Written
  <2>7. StartedOnOwnAnswer' /\ req'[Main] \in 1..Len(sent')
    BY Zenon, <2>5, <2>6 DEF StartedOnOwnAnswer
  <2>8. ~Busy(Main)'
    BY <1>b DEF Busy
  <2>9. QED
    BY Zenon, <2>4, <2>7, <2>8 DEF Boot, Served
<1>4. CASE EndSession
  <2>1. todo'[Main] = <<>>
    BY Zenon, <1>4, ManagerAssumption DEF EndSession
  <2>2. ~serving'
    BY Zenon, <1>4 DEF EndSession
  <2>3. QED
    BY <2>1, <2>2 DEF Boot, Served
<1>5. QED
  BY Zenon, <1>1, <1>2, <1>3, <1>4, DoneCases, ManagerAssumption

\* What goes on below the server while main() makes its calls.
LEMMA BackgroundBoot ==
    ASSUME ServerInv, Boot, Background
    PROVE  Boot'
<1> SUFFICES ASSUME todo'[Main] # <<>> PROVE Boot'
  BY DEF Boot
<1>a. /\ TypeOK /\ sent \in Seq(SentMsgTypes) /\ done \in 0..Len(sent)
      /\ fifo_send_types \in Seq(SentMsgTypes) /\ fifo_external_msg \in Seq(0..MaxMsgs)
      /\ Len(sent) \in Nat
  BY DEF ServerInv, TypeOK
<1>b. UNCHANGED <<todo, busy, serving, got>>
  BY Zenon DEF Background, callVars, serverVars
<1>c. UNCHANGED <<pc, ret, req, sent, overtaken>>
  BY DEF Background, RemoteSilent, CbStore, Probe, Remove, CbMessage, threadVars, histVars
<1>d. /\ ~serving /\ (\A h \in Handlers : pc[h] = "idle") /\ got[Main] \in {0, 2}
      /\ OnlySecondFiled /\ Stages /\ overtaken = {}
  BY <1>b DEF Boot
<1>1. \/ UNCHANGED <<done, fifo_send_types, fifo_external_msg>>
      \/ /\ sent # <<>> /\ done' # 0 /\ UNCHANGED <<fifo_send_types, fifo_external_msg>>
      \/ /\ sent # <<>> /\ done' # 0 /\ fifo_send_types # <<>>
         /\ \A k \in 1..Len(fifo_external_msg') : fifo_external_msg'[k] = 2
      \/ /\ sent = <<>> /\ UNCHANGED <<fifo_send_types, fifo_external_msg>>
  <2>1. CASE CbStore \/ Probe
    BY <2>1 DEF CbStore, Probe
  <2>2. CASE RemoteSilent \/ Remove
    BY <2>2, <1>a DEF RemoteSilent, Remove, driverVars
  <2>3. ASSUME NEW a \in AllAnswers, CbMessage(a)
        PROVE  /\ sent # <<>> /\ done' # 0
               /\ \/ UNCHANGED <<fifo_send_types, fifo_external_msg>>
                  \/ /\ fifo_send_types # <<>>
                     /\ \A k \in 1..Len(fifo_external_msg') : fifo_external_msg'[k] = 2
    <3>1. done < Len(sent) /\ done' = done + 1
      BY <2>3 DEF CbMessage
    <3>2. sent # <<>> /\ done' # 0
      BY <3>1, <1>a
    <3>3. CASE fifo_send_types = <<>>
      BY <2>3, <3>2, <3>3 DEF CbMessage
    <3>4. CASE /\ fifo_send_types # <<>>
               /\ Head(fifo_send_types) = SENT_MSG_EXTERNAL_FIFO
               /\ fifo_external_msg' = kfifo_put(fifo_external_msg, ExternalSize, done + 1)
      <4>1. done # 0
        BY <3>2, <3>4, <1>d DEF OnlySecondFiled
      <4>2. Len(sent) <= 2
        BY <1>d DEF OnlySecondFiled
      <4>3. done + 1 = 2
        BY <3>1, <4>1, <4>2, <1>a
      <4>4. fifo_external_msg' = fifo_external_msg
            \/ fifo_external_msg' = Append(fifo_external_msg, 2)
        BY <3>4, <4>3 DEF kfifo_put
      <4>5. \A k \in 1..Len(fifo_external_msg) : fifo_external_msg[k] = 2
        BY <1>d DEF OnlySecondFiled
      <4>6. \A k \in 1..Len(Append(fifo_external_msg, 2)) : Append(fifo_external_msg, 2)[k] = 2
        <5>1. /\ Len(Append(fifo_external_msg, 2)) = Len(fifo_external_msg) + 1
              /\ Append(fifo_external_msg, 2)[Len(fifo_external_msg) + 1] = 2
              /\ \A k \in 1..Len(fifo_external_msg) :
                   Append(fifo_external_msg, 2)[k] = fifo_external_msg[k]
          BY <1>a
        <5>2. Len(fifo_external_msg) \in Nat
          BY <1>a
        <5>3. \A k \in 1..Len(fifo_external_msg) + 1 :
                k \in 1..Len(fifo_external_msg) \/ k = Len(fifo_external_msg) + 1
          BY <5>2
        <5>4. QED
          BY Zenon, <5>1, <5>3, <4>5
      <4>7. \A k \in 1..Len(fifo_external_msg') : fifo_external_msg'[k] = 2
        BY Zenon, <4>4, <4>5, <4>6
      <4>8. QED
        BY <3>2, <3>4, <4>7
    <3>5. CASE fifo_send_types # <<>> /\ fifo_external_msg' = fifo_external_msg
      BY <3>2, <3>5, <1>d DEF OnlySecondFiled
    <3>6. \/ fifo_send_types = <<>>
          \/ /\ fifo_send_types # <<>> /\ Head(fifo_send_types) = SENT_MSG_EXTERNAL_FIFO
             /\ fifo_external_msg' = kfifo_put(fifo_external_msg, ExternalSize, done + 1)
          \/ fifo_send_types # <<>> /\ fifo_external_msg' = fifo_external_msg
      BY Zenon, <2>3 DEF CbMessage
    <3>7. QED
      BY <3>3, <3>4, <3>5, <3>6
  <2>4. QED
    BY Zenon, <2>1, <2>2, <2>3 DEF Background
<1>2. OnlySecondFiled'
  BY <1>1, <1>c, <1>d DEF OnlySecondFiled
<1>3. /\ NothingSent => NothingSent'
      /\ PingSent => PingSent'
      /\ Written => Written'
      /\ Len(sent) = 1 /\ fifo_send_types = <<>> => Len(sent') = 1 /\ fifo_send_types' = <<>>
  BY <1>1, <1>c DEF NothingSent, PingSent, Written, PingKind
<1>4. Stages'
  BY <1>3, <1>b, <1>c, <1>d DEF Stages
<1>5. QED
  BY <1>2, <1>4, <1>b, <1>c, <1>d DEF Boot

\* A step in the kernel at most adds a request to the log, and it is the
\* thread's own.
LEMMA KernelLog ==
    ASSUME TypeOK, NEW t \in Threads, InKernel(t)
    PROVE  /\ sent' = sent \/ \E type \in SentMsgTypes : sent' = Append(sent, type)
           /\ \A u \in Threads : u # t => req'[u] = req[u]
<1>a. req \in [Threads -> 0..MaxMsgs]
  BY DEF TypeOK
<1>b. /\ SENT_MSG_INTERNAL \in SentMsgTypes /\ SENT_MSG_EXTERNAL_UNIQUE \in SentMsgTypes
      /\ SENT_MSG_EXTERNAL_FIFO \in SentMsgTypes
  BY DEF SentMsgTypes
<1>1. CASE PingSend(t) \/ SendSend(t) \/ WriteSend(t)
  BY <1>1, <1>a, <1>b DEF PingSend, SendSend, WriteSend, rpmsg_send
<1>2. CASE ~(PingSend(t) \/ SendSend(t) \/ WriteSend(t))
  <2>1. UNCHANGED <<sent, req>>
    BY Zenon, <1>2, KernelCases DEF PingPut, SendPut, SendAlloc, SendPutId, RecvErase,
       WriteFirst, WritePut, ReadGet
  <2>2. QED
    BY <2>1
<1>3. QED
  BY <1>1, <1>2

\* While the server serves, its start stays what it was.
LEMMA ServedKept ==
    ASSUME TypeOK, Served, serving,
           UNCHANGED <<serving>>, todo'[Main] = todo[Main], got'[Main] = got[Main],
           pc'[Main] = pc[Main], req'[Main] = req[Main],
           sent' = sent \/ \E type \in SentMsgTypes : sent' = Append(sent, type)
    PROVE  Served'
<1>a. sent \in Seq(SentMsgTypes)
  BY DEF TypeOK
<1>1. /\ todo[Main] = <<>> /\ ~Busy(Main) /\ req[Main] \in 1..Len(sent)
      /\ got[Main] = req[Main] /\ sent[req[Main]] = SENT_MSG_EXTERNAL_FIFO
  BY DEF Served, StartedOnOwnAnswer
<1>2. req[Main] \in 1..Len(sent') /\ sent'[req[Main]] = sent[req[Main]]
  <2>1. CASE sent' = sent
    BY <2>1, <1>1
  <2>2. ASSUME NEW type \in SentMsgTypes, sent' = Append(sent, type)
        PROVE  req[Main] \in 1..Len(sent') /\ sent'[req[Main]] = sent[req[Main]]
    <3>1. Len(sent') = Len(sent) + 1 /\ Len(sent) \in Nat
      BY <2>2, <1>a
    <3>2. QED
      BY <2>2, <3>1, <1>a, <1>1
  <2>3. QED
    BY <2>1, <2>2
<1>3. ~Busy(Main)'
  BY <1>1 DEF Busy
<1>4. QED
  BY <1>1, <1>2, <1>3 DEF Served, StartedOnOwnAnswer

\* A handler's step keeps the start of the server.
LEMMA HandlerKeepsStart ==
    ASSUME ServerInv, Programs, InCall, StartInv, NEW h \in Handlers, ThreadNext(h)
    PROVE  Boot' /\ Served'
<1>a. /\ TypeOK /\ todo \in [Threads -> Seq(SysCalls)] /\ got \in [Threads -> 0..MaxMsgs]
      /\ h \in Threads /\ h # Main
  BY DEF ServerInv, ServerTypes, Handlers
<1>1. CASE SysCall(h)
  <2>1. todo[h] # <<>> /\ Enter(h, Head(todo[h])) /\ UNCHANGED <<todo, serving, got>>
    BY Zenon, <1>1 DEF SysCall, serverVars
  <2>2. Head(todo[h]) \in SysCalls
    BY <2>1, <1>a, TailType
  <2>3. UNCHANGED <<sent, req>> /\ pc'[Main] = pc[Main]
    BY <2>1, <2>2, <1>a, EnterEffect
  <2>4. serving
    BY <2>1 DEF Programs
  <2>5. Served'
    BY <2>1, <2>3, <2>4, <1>a, ServedKept DEF StartInv
  <2>6. QED
    BY <2>1, <2>4, <2>5 DEF Boot, Served
<1>2. CASE InKernel(h)
  <2>1. Busy(h) /\ UNCHANGED <<todo, serving>>
    BY <1>2, <1>a, KernelCases
  <2>2. todo[Main] = <<>>
    BY <2>1 DEF StartInv, Boot, Busy
  <2>3. /\ sent' = sent \/ \E type \in SentMsgTypes : sent' = Append(sent, type)
        /\ req'[Main] = req[Main] /\ pc'[Main] = pc[Main]
    BY <1>2, <1>a, KernelLog, KernelEffect
  <2>4. got'[Main] = got[Main]
    BY <1>2, <1>a DEF InKernel
  <2>5. serving => Served'
    BY <2>1, <2>3, <2>4, <1>a, ServedKept DEF StartInv
  <2>6. ~serving => Served'
    BY <2>1 DEF Served
  <2>7. QED
    BY <2>1, <2>2, <2>5, <2>6 DEF Boot
<1>3. CASE CallDone(h)
  <2>1. /\ todo[h] # <<>> /\ UNCHANGED <<got, sent, req, pc>>
    BY <1>3, <1>a, DoneCases DEF vars, threadVars
  <2>2. serving
    BY <2>1 DEF Programs
  <2>3. todo'[Main] = todo[Main] /\ serving' = serving
    <3>1. CASE Proceed(h)
      BY <3>1, <1>a, ProceedCases
    <3>2. CASE HandlerFail(h)
      BY <3>2, <1>a DEF HandlerFail
    <3>3. CASE UNCHANGED <<fd, serving, todo, status>>
      BY <3>3
    <3>4. QED
      BY <3>1, <3>2, <3>3, <1>3, <1>a, DoneCases
  <2>4. Served'
    BY <2>1, <2>2, <2>3, <1>a, ServedKept DEF StartInv
  <2>5. QED
    BY <2>2, <2>3, <2>4 DEF Boot, Served
<1>4. QED
  BY Zenon, <1>1, <1>2, <1>3 DEF ThreadNext

\* main()'s own step keeps the start of the server.
LEMMA MainKeepsStart ==
    ASSUME ServerInv, Programs, InCall, StartInv, OneStart, ThreadNext(Main)
    PROVE  Boot' /\ Served'
<1>a. TypeOK /\ serving \in BOOLEAN
  BY DEF ServerInv, ServerTypes
<1>1. CASE SysCall(Main)
  <2>1. Boot'
    BY <1>1, MainEnterBoot DEF StartInv
  <2>2. todo[Main] # <<>> /\ serving' = serving
    BY Zenon, <1>1 DEF SysCall, serverVars
  <2>3. ~serving'
    BY <2>2 DEF StartInv, Served
  <2>4. QED
    BY <2>1, <2>3 DEF Served
<1>2. CASE InKernel(Main)
  <2>1. Boot'
    BY <1>2, MainKernelBoot DEF StartInv
  <2>2. Busy(Main) /\ serving' = serving
    BY <1>2, KernelCases
  <2>3. ~serving'
    BY <2>2 DEF StartInv, Served
  <2>4. QED
    BY <2>1, <2>3 DEF Served
<1>3. CASE CallDone(Main)
  BY <1>3, MainDoneStart
<1>4. QED
  BY Zenon, <1>1, <1>2, <1>3 DEF ThreadNext

\* Every step keeps the start of the server.
LEMMA StartStep ==
    ASSUME ServerInv, Programs, InCall, StartInv, OneStart, [ManagerNext]_managerVars
    PROVE  StartInv'
<1>a. /\ TypeOK /\ session \in 0..MaxSessions /\ todo \in [Threads -> Seq(SysCalls)]
      /\ got \in [Threads -> 0..MaxMsgs]
  BY DEF ServerInv, ServerTypes
<1>b. session = 0 => ~serving /\ \A t \in Threads : todo[t] = <<>> /\ pc[t] = "idle"
  BY DEF StartInv, Fresh, ServerInv, Life
<1>1. ASSUME NEW t \in Threads, ThreadNext(t) PROVE StartInv'
  <2>1. todo[t] # <<>> \/ Busy(t)
    BY Zenon, <1>1 DEF ThreadNext, SysCall, CallDone, InKernel, Busy
  <2>2. session # 0 /\ session' = session
    <3>1. session' = session
      BY Zenon, <1>1 DEF ThreadNext, SysCall, CallDone, InKernel, serverVars
    <3>2. QED
      BY <2>1, <3>1, <1>b DEF Busy
  <2>3. Fresh'
    BY <2>2 DEF Fresh
  <2>4. CASE t = Main
    BY <1>1, <2>3, <2>4, MainKeepsStart DEF StartInv
  <2>5. CASE t # Main
    <3>1. t \in Handlers
      BY <2>5 DEF Handlers
    <3>2. QED
      BY <1>1, <2>3, <3>1, HandlerKeepsStart DEF StartInv
  <2>6. QED
    BY <2>4, <2>5
<1>2. CASE MainStart
  <2>1. /\ session < MaxSessions /\ session' = session + 1 /\ fd = "none"
        /\ todo' = [todo EXCEPT ![Main] = StartUp] /\ got' = [t \in Threads |-> 0]
        /\ UNCHANGED <<sent, done, fifo_send_types, fifo_external_msg, pc, serving, overtaken>>
    BY <1>2 DEF MainStart, vars, threadVars, driverVars, histVars
  <2>2. session = 0 /\ session' # 0
    BY <2>1, <1>a DEF OneStart
  <2>3. /\ sent = <<>> /\ fifo_send_types = <<>> /\ fifo_external_msg = <<>>
        /\ overtaken = {}
    BY <2>2 DEF StartInv, Fresh
  <2>4. todo'[Main] = StartUp /\ Len(StartUp) = 7
    BY <2>1, <1>a DEF StartUp
  <2>5. Stages'
    <3>1. 7 # 3 /\ 7 # 2 /\ 7 # 1
      OBVIOUS
    <3>2. NothingSent'
      BY <2>1, <2>3 DEF NothingSent
    <3>3. Len(todo'[Main]) = 7
      BY <2>4
    <3>4. QED
      BY Zenon, <3>1, <3>2, <3>3 DEF Stages
  <2>6. OnlySecondFiled'
    BY <2>1, <2>3 DEF OnlySecondFiled
  <2>7. /\ \A h \in Handlers : pc'[h] = "idle"
        /\ ~serving' /\ got'[Main] \in {0, 2}
    BY <2>1, <2>2, <1>b DEF Handlers
  <2>8. Boot' /\ Served'
    BY <2>1, <2>3, <2>5, <2>6, <2>7 DEF Boot, Served
  <2>9. QED
    BY <2>2, <2>8 DEF StartInv, Fresh
<1>3. CASE Signal
  <2>1. fd # "none" /\ session' = session
    BY <1>3 DEF Signal
  <2>2. todo'[Main] = <<>>
    BY Zenon, <1>3, ManagerAssumption DEF Signal, EndSession
  <2>3. ~serving'
    BY Zenon, <1>3 DEF Signal, EndSession
  <2>4. QED
    BY <2>1, <2>2, <2>3 DEF StartInv, Fresh, Boot, Served
<1>4. CASE Connection \/ UNCHANGED managerVars
  <2>1. UNCHANGED <<session, serving, todo, busy, got, pc, ret, req, sent, done,
                    fifo_send_types, fifo_external_msg, overtaken>>
    BY <1>4 DEF Connection, managerVars, serverVars, callVars, vars, threadVars, driverVars,
       histVars
  <2>2. fd' = fd \/ fd \in {"closed", "reused"}
    BY <1>4 DEF Connection, Reuse, HangUp, managerVars, serverVars
  <2>3. Fresh'
    BY <2>1, <2>2 DEF StartInv, Fresh
  <2>4. Boot'
    BY <2>1 DEF StartInv, Boot, OnlySecondFiled, Stages, NothingSent, PingSent, Written, PingKind
  <2>5. Served'
    BY <2>1 DEF StartInv, Served, StartedOnOwnAnswer, Busy
  <2>6. QED
    BY <2>3, <2>4, <2>5 DEF StartInv
<1>5. CASE Background
  <2>1. Boot'
    BY <1>5, BackgroundBoot DEF StartInv
  <2>2. UNCHANGED <<fd, session, todo, serving, got>>
    BY Zenon, <1>5 DEF Background, callVars, serverVars
  <2>3. UNCHANGED <<pc, req, sent, overtaken>>
    BY <1>5 DEF Background, RemoteSilent, CbStore, Probe, Remove, CbMessage, threadVars, histVars
  <2>4. Served'
    BY <2>2, <2>3 DEF StartInv, Served, StartedOnOwnAnswer, Busy
  <2>5. ASSUME session = 0
        PROVE  UNCHANGED <<fifo_send_types, fifo_external_msg>>
    <3>1. sent = <<>>
      BY <2>5 DEF StartInv, Fresh
    <3>2. ~(done < Len(sent))
      BY <3>1, <1>a DEF TypeOK
    <3>3. QED
      BY <3>2, <1>5 DEF Background, RemoteSilent, CbStore, Probe, Remove, CbMessage, driverVars
  <2>6. Fresh'
    BY <2>2, <2>3, <2>5 DEF StartInv, Fresh
  <2>7. QED
    BY <2>1, <2>4, <2>6 DEF StartInv
<1>6. ASSUME NEW h \in Handlers, HandlerStart(h) PROVE StartInv'
  <2>1. /\ serving /\ UNCHANGED <<session, serving, pc, req, sent>>
        /\ todo' = [todo EXCEPT ![h] = ClientScript[rpc[h] + 1]]
        /\ got' = [got EXCEPT ![h] = 0]
    BY Zenon, <1>6 DEF HandlerStart, serverVars, vars, threadVars
  <2>2. todo'[Main] = todo[Main] /\ got'[Main] = got[Main]
    BY <2>1, <1>a DEF Handlers
  <2>3. session # 0
    BY <2>1, <1>b
  <2>4. Served'
    BY <2>1, <2>2, <1>a, ServedKept DEF StartInv
  <2>5. Boot'
    BY <2>1, <2>4 DEF Boot, Served
  <2>6. QED
    BY <2>1, <2>3, <2>4, <2>5 DEF StartInv, Fresh
<1>7. QED
  BY Zenon, <1>1, <1>2, <1>3, <1>4, <1>5, <1>6 DEF ManagerNext

\* Before the server is started nothing has been sent.
LEMMA StartInit == ManagerInit => StartInv
<1> SUFFICES ASSUME ManagerInit PROVE StartInv
  OBVIOUS
<1>1. \A t \in Threads : todo[t] = <<>>
  BY Zenon DEF ManagerInit
<1>2. ~serving
  BY Zenon DEF ManagerInit
<1>3. Fresh
  BY DEF ManagerInit, Init, Fresh
<1>4. QED
  BY <1>1, <1>2, <1>3 DEF StartInv, Boot, Served

\* main(), started once since the remote came up, serves only with the answer to
\* the message it has just written, whatever the remote answers, drops or delays
\* and however early its answers come, for every capacity of the queues.
THEOREM StartsOnOwnAnswer == ASSUME OneStart PROVE ManagerSpec => []StartedOnOwnAnswer
<1> DEFINE I == ServerInv /\ Programs /\ InCall /\ StartInv
<1>1. ManagerInit => I
  BY ServerInit, ClaimInit, StartInit
<1>2. I /\ [ManagerNext]_managerVars => I'
  BY ServerStep, ProgramsStep, InCallStep, StartStep
<1>3. I => StartedOnOwnAnswer
  BY DEF StartInv, Served, StartedOnOwnAnswer
<1>4. QED
  BY <1>1, <1>2, <1>3, PTL DEF ManagerSpec

=============================================================================
