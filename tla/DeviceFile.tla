----------------------------- MODULE DeviceFile -----------------------------
(***************************************************************************)
(* The life cycle of /dev/stm32ecu in stm32ecu.c: loading and unloading of *)
(* the module, the counter device_open that admits one opener, and poll(). *)
(*                                                                         *)
(* Nothing locks device_open: ioctl_open() tests it and then increments    *)
(* it, ioctl_release() decrements it, each in its own time, so that two    *)
(* open() calls can both find it zero.                                     *)
(***************************************************************************)
EXTENDS Integers, FiniteSets

CONSTANTS
    Procs,      \* processes that open the device
    MaxStored,  \* capacity of fifo_external_msg (256)
    Timeouts    \* TRUE: poll() is called with a timeout

ASSUME DeviceAssumption ==
    /\ Procs # {} /\ IsFiniteSet(Procs) /\ MaxStored \in Nat \ {0}
    /\ Timeouts \in BOOLEAN

\* What the module registers with the kernel.
Things == {"region", "cdev", "class", "device", "rpmsg"}

VARIABLES
    reg,          \* what is registered
    load,         \* next step of stm32ecu_init() or stm32ecu_exit()
    device_open,
    r,            \* per process: the value it loaded from device_open, or 0
    pc,           \* per process
    msgs,         \* messages in fifo_external_msg
    stored,       \* rx_unique_buffer holds messages
    overlap       \* history: an open() was admitted while another one was
                  \* between its test and its increment of device_open

openVars == <<device_open, r, pc, overlap>>
vars == <<reg, load, openVars, msgs, stored>>

InitSteps == {"absent", "cdev", "class", "device", "rpmsg", "r_class"}
ExitSteps == {"x_device", "x_class", "x_region", "x_rpmsg", "x_oops"}
Gone      == {"absent", "failed", "unloaded"}

TypeOK ==
    /\ reg \subseteq Things
    /\ load \in InitSteps \cup ExitSteps \cup Gone \cup {"live"}
    /\ device_open \in Int
    /\ r \in [Procs -> Int]
    /\ pc \in [Procs -> {"closed", "busy", "testing", "opening", "open",
                         "asleep", "closing", "oops"}]
    /\ msgs \in 0..MaxStored /\ stored \in BOOLEAN /\ overlap \in BOOLEAN

Init ==
    /\ reg = {} /\ load = "absent"
    /\ device_open = 0 /\ r = [p \in Procs |-> 0]
    /\ pc = [p \in Procs |-> "closed"]
    /\ msgs = 0 /\ stored = FALSE /\ overlap = FALSE

-----------------------------------------------------------------------------
\* stm32ecu_init(): one registration after the other; each can fail.  A device
\* needs its class.  class_create() and device_create() report a failure with an
\* error pointer, the code tests for NULL: it goes on as if they had succeeded,
\* and the label r_device is never reached.

InitCall(from, thing, to, err) ==
    /\ load = from
    /\ \/ /\ thing = "device" => "class" \in reg
          /\ reg' = reg \cup {thing} /\ load' = to
       \/ load' = err /\ UNCHANGED reg
    /\ UNCHANGED <<openVars, msgs, stored>>

\* Mutant: the node appears before the device behind it.
NodeFirst ==
    \/ InitCall("absent", "region", "class", "failed")
    \/ InitCall("class", "class", "device", "device")
    \/ InitCall("device", "device", "cdev", "cdev")
    \/ InitCall("cdev", "cdev", "rpmsg", "r_class")
    \/ InitCall("rpmsg", "rpmsg", "live", "failed")
stm32ecu_init ==
    \/ InitCall("absent", "region", "cdev", "failed")
    \/ InitCall("cdev", "cdev", "class", "r_class")
    \/ InitCall("class", "class", "device", "device")
    \/ InitCall("device", "device", "rpmsg", "rpmsg")
    \/ InitCall("rpmsg", "rpmsg", "live", "failed")

Unregister(from, thing, to) ==
    /\ load = from
    /\ reg' = reg \ {thing} /\ load' = to
    /\ UNCHANGED <<openVars, msgs, stored>>

\* The labels at its end.
InitUnwind == Unregister("r_class", "region", "failed")

\* stm32ecu_exit(): the kernel calls it when no file of the module is open.  The
\* stored messages are freed first, the rpmsg driver is unregistered last.
\* device_destroy() follows the pointer to the class, an error pointer or not.
HasFile(p) == pc[p] \in {"testing", "opening", "open", "asleep", "closing"}
ExitFree ==
    /\ load = "live" /\ \A p \in Procs : ~HasFile(p)
    /\ stored' = FALSE /\ load' = "x_device"
    /\ UNCHANGED <<reg, openVars, msgs>>
ExitUnregister ==
    \/ "class" \in reg /\ Unregister("x_device", "device", "x_class")
    \/ "class" \notin reg /\ Unregister("x_device", "device", "x_oops")
    \/ Unregister("x_class", "class", "x_region")
    \/ Unregister("x_region", "region", "x_rpmsg")
    \/ Unregister("x_rpmsg", "rpmsg", "unloaded")

\* rpmsg_sample_cb(): a message for read(), or one for RECV_MSG.
Callback ==
    /\ "rpmsg" \in reg
    /\ \/ msgs' = (IF msgs < MaxStored THEN msgs + 1 ELSE msgs) /\ UNCHANGED stored
       \/ stored' = TRUE /\ UNCHANGED msgs
    /\ UNCHANGED <<reg, load, openVars>>

-----------------------------------------------------------------------------
\* open() and close().  The device can be opened from cdev_add() on, until the
\* module begins to go away; the kernel knows nothing of a cdev that is left
\* behind in freed memory.

Goto(p, l) == pc' = [pc EXCEPT ![p] = l]

\* An open() that has found device_open zero and not incremented it yet.
Admitted(p) == pc[p] \in {"testing", "opening"}

\* Mutant: the counter is not tested.
OpenUntested(p) ==
    /\ pc[p] = "closed" /\ "cdev" \in reg /\ load \notin Gone \cup ExitSteps
    /\ Goto(p, "testing")
    /\ overlap' = (overlap \/ \E q \in Procs : Admitted(q))
    /\ UNCHANGED <<reg, load, device_open, r, msgs, stored>>
OpenTest(p) ==
    /\ pc[p] = "closed" /\ "cdev" \in reg /\ load \notin Gone \cup ExitSteps
    /\ \/ device_open # 0 /\ Goto(p, "busy") /\ UNCHANGED overlap
       \/ /\ device_open = 0 /\ Goto(p, "testing")
          /\ overlap' = (overlap \/ \E q \in Procs : Admitted(q))
    /\ UNCHANGED <<reg, load, device_open, r, msgs, stored>>

OpenFreed(p) ==
    /\ pc[p] = "closed" /\ "cdev" \in reg /\ load \in Gone
    /\ Goto(p, "oops")
    /\ UNCHANGED <<reg, load, device_open, r, msgs, stored, overlap>>

\* device_open++ : the value is loaded again, or the one just tested is used.
OpenLoad(p) ==
    /\ pc[p] = "testing"
    /\ Goto(p, "opening")
    /\ \E v \in {0, device_open} : r' = [r EXCEPT ![p] = v]
    /\ UNCHANGED <<reg, load, device_open, msgs, stored, overlap>>

OpenStore(p) ==
    /\ pc[p] = "opening"
    /\ device_open' = r[p] + 1 /\ r' = [r EXCEPT ![p] = 0]
    /\ Goto(p, "open")
    /\ UNCHANGED <<reg, load, msgs, stored, overlap>>

\* The caller of a refused open() may try again.
Refused(p) ==
    /\ pc[p] = "busy"
    /\ Goto(p, "closed")
    /\ UNCHANGED <<reg, load, device_open, r, msgs, stored, overlap>>

ReleaseLoad(p) ==
    /\ pc[p] = "open"
    /\ Goto(p, "closing")
    /\ r' = [r EXCEPT ![p] = device_open]
    /\ UNCHANGED <<reg, load, device_open, msgs, stored, overlap>>

\* Mutant: the counter is not decremented.
ReleaseForgotten(p) ==
    /\ pc[p] = "closing"
    /\ Goto(p, "closed")
    /\ UNCHANGED <<reg, load, device_open, r, msgs, stored, overlap>>
ReleaseStore(p) ==
    /\ pc[p] = "closing"
    /\ device_open' = r[p] - 1 /\ r' = [r EXCEPT ![p] = 0]
    /\ Goto(p, "closed")
    /\ UNCHANGED <<reg, load, msgs, stored, overlap>>

-----------------------------------------------------------------------------
\* poll() for POLLIN: the caller sleeps on wait_queue_poll_data unless there is
\* a message.  Nobody ever wakes that queue; only a timeout ends the sleep.

poll_cb(p) == msgs > 0

Poll(p) ==
    /\ \/ pc[p] = "open" /\ Goto(p, IF poll_cb(p) THEN "open" ELSE "asleep")
       \/ pc[p] = "asleep" /\ Timeouts /\ Goto(p, "open")
    /\ UNCHANGED <<reg, load, device_open, r, msgs, stored, overlap>>

\* read() of one message, whether or not there is one.
Read(p) ==
    /\ pc[p] = "open"
    /\ msgs' = IF msgs > 0 THEN msgs - 1 ELSE 0
    /\ UNCHANGED <<reg, load, openVars, stored>>

-----------------------------------------------------------------------------
OpenStep(p)  == OpenTest(p) \/ OpenFreed(p) \/ OpenLoad(p) \/ OpenStore(p) \/ Refused(p)
CloseStep(p) == ReleaseLoad(p) \/ ReleaseStore(p)

Next ==
    \/ stm32ecu_init \/ InitUnwind \/ ExitFree \/ ExitUnregister \/ Callback
    \/ \E p \in Procs : OpenStep(p) \/ CloseStep(p) \/ Poll(p) \/ Read(p)

Spec == Init /\ [][Next]_vars

\* A poll() that sleeps with a timeout wakes up.
FairSpec ==
    Spec /\ \A p \in Procs : WF_vars(pc[p] = "asleep" /\ Poll(p))

-----------------------------------------------------------------------------
(***************************************************************************)
(* Correctness.  The counter is to admit one opener.  It does until two    *)
(* open() calls overlap: overlap records that.  Nothing else disturbs it,  *)
(* neither a close() during an open() nor refused calls, nor loading,      *)
(* polling or reading at the same time.                                    *)
(***************************************************************************)

\* The processes the kernel has given a file that is not yet released.
Holders == {p \in Procs : pc[p] \in {"open", "asleep", "closing"}}

\* Until two open() calls overlap, at most one process has the device open, and
\* device_open is the number of processes that have: no increment and no
\* decrement is lost.
Exclusive ==
    ~overlap => /\ \A p, q \in Holders : p = q
                /\ device_open = Cardinality(Holders)

\* "Device or resource busy": until two open() calls overlap, open() is refused
\* with -EBUSY only if somebody else has the device open.
BusyMeansBusy ==
    [][~overlap => \A p \in Procs : pc[p] = "closed" /\ pc'[p] = "busy" =>
          Holders \ {p} # {}]_vars

\* In every state, while loading, unwinding and unloading too, a device node
\* that can be seen has its class, its numbers and the cdev behind it.
NodeIsBacked == "device" \in reg => {"class", "cdev", "region"} \subseteq reg

(***************************************************************************)
(* What one would wish, and the code does not achieve (the README names    *)
(* the configuration that refutes each).                                   *)
(***************************************************************************)

\* One opener at a time, however open() calls overlap.
AlwaysExclusive == \A p, q \in Holders : p = q

\* A device that nobody has open, is opening or closing can be opened.
IdleIsFree == (\A p \in Procs : ~HasFile(p)) => device_open = 0

\* A caller that sleeps in poll() while a message is there is woken.
PollWakes == \A p \in Procs : pc[p] = "asleep" /\ msgs > 0 ~> pc[p] # "asleep" \/ msgs = 0

\* "Kernel Module Inserted Successfully...": everything is registered, the device
\* node in particular.
InsertedComplete == load = "live" => reg = Things

\* "Kernel Module Removed Successfully...": nothing of the module is left, no
\* registration and no memory.
CleanExit == load = "unloaded" => reg = {} /\ ~stored

=============================================================================
