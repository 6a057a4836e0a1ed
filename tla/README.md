# A TLA+ development for stm32-ecu

stm32-ecu is an electronic control unit on an STM32MP1: a dual Cortex-A7 that
runs Linux and a Cortex-M4 that runs FreeRTOS firmware. User space on the A7
talks to the firmware through a character device, a kernel driver, shared-memory
rings and a hardware mailbox. These modules model the path of a request from a
client of the ECU manager through the server, the driver, the rings and the
mailbox to the firmware and of its answer back, and two parts of the firmware
that share hardware: the CAN controller and the hardware semaphore.

## 1. Inventory

| Component | Source | State it keeps | Operations |
|---|---|---|---|
| Driver, requests and responses | `CA7/CustomKernel/drivers/stm32ecu/stm32ecu.c` | `fifo_send_types`, `fifo_unique_ids`, `fifo_external_msg`, `rx_unique_buffer`, `next`, `global_rproc_ref`, `value` | `ioctl_call`, `ioctl_write`, `ioctl_read`, `rpmsg_sample_cb`, probe, remove |
| Driver queues | kfifo, `CA7/linux-5.10.61/linux-5.10.61/lib/kfifo.c` | `in`, `out`, `data` of three queues | put, get |
| Driver, device life cycle | `stm32ecu.c` | `device_open`, the wait queue, registrations | `ioctl_open`, `ioctl_release`, `poll_cb`, init, exit |
| M4 communication task | `CM4/mms/bsw/linuxComms/src/rpmsgManager.cpp` | `message_received`, the endpoint | `runLinuxComms`, `create_endpoint`, `stm32ecu_recv_cb` |
| M4 mailbox | `CM4/OPENAMP/mbox_ipcc.c` | `msg_received_ch1`, `msg_received_ch2` | `MAILBOX_Poll`, `MAILBOX_Notify`, two interrupt callbacks |
| OpenAMP rings | `Middlewares/Third_Party/OpenAMP/open-amp/lib/{rpmsg,virtio}` | two vrings in shared memory | drain the receive ring, send |
| OpenAMP set-up | `CM4/OPENAMP/openamp.c`, `rsc_table.c` | resource table, virtio device | `MX_OPENAMP_Init` |
| ECU manager server | `CA7/stm32-ecu-manager/server/main.cpp` | one global file descriptor `fd` | start-up sequence, six gRPC handlers |
| ECU manager client | `CA7/stm32-ecu-manager/client/main.cpp` | none | six calls in a row |
| Autonomous state, ASSI | `CM4/mms/app/**` | two coupled state variables | transitions, periodic routines |
| CAN controller | `CM4/Drivers/MCP2515/src` | buffers of the MCP2515 | send, receive, mode changes |
| Hardware semaphores | `CM4/Core/Src/lock_resource.c` | HSEM | `Periph_Lock`, `Periph_Unlock` |
| System layer, start-up, C runtime, scripts | `CM4/mms/bsw/stm32System`, `CM4/Core/Src`, `*.sh` | | |

How they interact. The server's gRPC threads share one descriptor and call into
the driver without a lock (`unlocked_ioctl`). The driver calls `rpmsg_send()` of
the Linux rpmsg bus, which puts the message into ring 1 and signals the mailbox.
The IPCC interrupt of the M4 raises a flag; the communication task polls the
flag, lets OpenAMP drain the ring, and OpenAMP calls `stm32ecu_recv_cb()` for
each message. The answer goes into ring 0, the mailbox is signalled the other
way, and the Linux worker calls `rpmsg_sample_cb()` of the driver. A message
carries no identity, so the driver finds out which request an answer belongs to
from the order of two queues alone.

What is hard here, and what makes each part correct:

* **Driver.** Threads and the callback interleave between any two accesses to
  the queues; a call can fail after its request went out; answers can come
  early, be missing or be damaged; the remote can be restarted with requests in
  flight. Correct means: the answer a caller gets is the answer to its own
  request, is filed where the kind of the request says, and stays there until it
  is claimed.
* **M4 task and mailbox.** Interrupts preempt the task between the test and the
  reset of a flag, and Linux works on the rings all the while. Correct means: no
  request and no reply is forgotten, no buffer leaks, and answers leave in the
  order of the requests.
* **Rings and queues.** Indices that wrap, and two sides that publish a slot and
  its index in separate steps. Correct means: they are bounded queues, and no
  descriptor is in two places.
* **Device life cycle.** A counter without a lock; registrations that fail half
  way; messages that arrive while the module goes away. Correct means: one file
  at a time, no node without a device behind it, and a poll that is woken.
* **Server.** Several handlers share a descriptor that each of them closes on an
  error. Correct means: the server starts only on its own answer, a closed device
  never passes for a working one, and every call returns.
* **Hardware semaphore.** Two cores write the same registers, one of them at first
  without the semaphore; the wait is measured with a counter that wraps, and that
  stands still before the scheduler runs. Correct means: no configuration is lost,
  and the wait ends, neither early nor late.
* **CAN.** The controller works between any two transfers of the driver, with
  three buffers one way and two the other, changes its mode or does not, and is
  woken by the bus. Correct means: what is received was sent, once, what is accepted
  is transmitted, and every call returns.
* **Autonomous state, system layer.** Sequential code around single assignments.

`PROJECT.json` lists the hazards line by line.

## 2. Modules

| Module | What it is |
|---|---|
| `EcuDriver` | the driver's request and response bookkeeping, all threads and the callback |
| `EcuManager` | the server and its clients; extends `EcuDriver`, whose actions are its system calls |
| `DeviceFile` | loading, unloading, `open()`, `close()` and `poll()` of the device |
| `RequestChannel` | abstract: what the remote promises the driver |
| `LinuxComms` | the M4 task, the mailbox and the rings; implements `RequestChannel` |
| `BoundedFifo` | abstract: a bounded queue |
| `Kfifo`, `Virtqueue` | the queues of the driver and the rings of OpenAMP; implement `BoundedFifo` |
| `LockResource` | the hardware semaphore between the two cores |
| `CanSpi` | the driver of the CAN controller |
| `EcuDriverProofs`, `EcuManagerProofs`, `DeviceFileProofs`, `LinuxCommsProofs`, `KfifoProofs`, `VirtqueueProofs`, `LockResourceProofs`, `CanSpiProofs` | theorems and their proofs (section 4) |
| `MC...` | the instances TLC checks |

Operators marked *Mutant* in a comment are plausible mistakes in the code next to
them; they are not part of a specification. `PROJECT.json` names the property
each of them breaks.

### EcuDriver

The variables carry the names of the C variables. `sent` is a log of the kinds
of the requests `rpmsg_send()` has accepted; a request is identified by its
position in it. `done` is how many of them the remote has dealt with: the rings
are first-in first-out, so the unanswered requests are a suffix of the log.
A slot of `rx_unique_buffer` is `FREE`, `RESERVED` (the NULL entry that
`xa_alloc_cyclic()` leaves) or the number of the request whose answer it holds.

Each handler is cut wherever it touches shared state a second time, so that
other threads and the callback can run in between:

| Handler | Actions |
|---|---|
| `STM32ECU_PING_RPROC` | `PingCheck`, `PingSend`, `PingPut` |
| `STM32ECU_SEND_MSG` | `SendBegin`, `SendSend`, `SendPut`, `SendAlloc`, `SendPutId` |
| `STM32ECU_RECV_MSG` | `RecvLoad`, `RecvErase` |
| `ioctl_write()` | `WriteBegin`, `WriteFirst`, then `WriteSend` and `WritePut` for each message |
| `ioctl_read()` | `ReadBegin`, then `ReadGet` for each message |
| remaining commands | `StateCall` |
| `rpmsg_sample_cb()` | `CbMessage`, then `CbStore` for an answer to `SEND_MSG` |
| probe, remove | `Probe`, `Remove` |

Every failure path is there: faulting copies, full queues, no free id, a send
that finds no buffer, a missing or dangling `global_rproc_ref`. The last one is
undefined behaviour, modelled as a choice: the thread dies in the kernel
(`"oops"`), or the freed memory still looks like an endpoint that refuses the
message. The same goes for the uninitialised `id` in the callback: `CbStore`
then hits any index, 0 standing for all those outside the limit of 1 to `MaxId`.

Races in the queues. `kfifo_put()` and `kfifo_get()` need no lock with one producer
and one consumer (module `Kfifo`), but every thread puts into `fifo_send_types` and
`fifo_unique_ids` (`stm32ecu.c:141`, `182`, `235`, `257`, `270`) and gets from
`fifo_external_msg` (`:125`), and nothing locks. A thread is in the operation while
its `pc` is at it. If no other thread is in the same operation (`Rivals`) or has
completed it meanwhile (`overtaken`), the operation has the effect of an atomic one.
Otherwise it is `Racing`, and the fifo comes out with *any* contents up to `MaxTorn`
elements (`Torn`), and the answer whether it was full is a choice too (`FullTests`).
That includes everything `MCKfifo_producers` shows: an element overwritten, a stale
one delivered, an increment lost, a fifo overfilled. The callback is the only consumer
of the first two and the only producer of the third, so it races with nobody.

Abstractions. Messages are reduced to their request number and to whether the CRC is
right. Allocation failures and leaked memory are left out. An answer of the wrong
length returns from the callback before anything is touched, which is what
`RemoteSilent` does. In `CbMessage` taking the kind and filing a message for `read()`
are one step: nobody else takes kinds, nobody else adds to `fifo_external_msg`, and a
reader that runs in between sees the fifo as it was before. `VringsFit` says that the
rings hold no more requests than `fifo_send_types` has elements (16 against 512).

The history variables carry what the properties talk about: `owner` (for which request
an id was allocated), `phantom` (`read()` counted a message it did not get), `raced` (two
threads were in one fifo operation) and `mishap`. A message has no identity, so the driver
relies on the order of its queues, and `mishap` records the first event that this
reliance does not survive:

* a request is sent while another thread is still booking its own (queueing kind and id);
* two threads are in the same fifo operation;
* an answer comes before its sender has finished its booking;
* a request is not answered, or lost with the remote, or a `SEND_MSG` is answered with a
  bad CRC;
* `write()` queues its kind in advance;
* a fifo is full, or the ids have run out, after a request went out;
* `RECV_MSG` erases an entry that is reserved for another request.

None of these events is excluded from the model. The matching properties say that until
the first of them nothing goes wrong, whatever threads do at the same time: so the list is
complete. The configurations of section 3 show for the commonest of them that the answers
do go astray afterwards.

Two constants describe how the driver is used rather than how it works, and let
a configuration ask for one event at a time: `OneAtATime` (a call starts only when no
other is in progress) and `RepliesWait` (an answer is not processed before its
sender has finished its bookkeeping). In the passing runs both are `FALSE`, and in the
theorems both are arbitrary. `Calls` and `Answers` say which calls are made and
what the remote does with a request, `MaxRestarts` how often it goes away.

### LinuxComms and RequestChannel

`posted` is the log of requests in ring 1, `taken` and `returned` how far the
task has got with taking messages and giving buffers back; `replies` and `recvd`
are the same for ring 0. `occupied` holds the four flags of the IPCC. The task
is one process with a program counter: `poll1`, `clear1`, `poll2`, `clear2` are
the lines of `MAILBOX_Poll()`; `rx`, `callback`, `return` the loop of
`rpmsg_virtio_rx_callback()`; `txbuf`, `enqueue`, `notify` a send, entered from
the callback or from the name service announcement (`back` says which).
`IrqCh1` and `IrqCh2` are the interrupts; they are atomic with respect to the
task, as they preempt it on the same core. The history variable `swallowed` says
that the last signal for ring 1 came when the task had found the ring empty and
had not yet reset the flag (`PastLastLook`), with no other signal to follow;
`lost` that a reply found no buffer.

Linux is external: `LinuxPost`, `LinuxWait`, `LinuxKick`, `LinuxIrq` and
`LinuxReceive` are what the rings and the mailbox let it do.

Commands are reduced to what the callback tells apart: `ping` (answered with
`CMD_ACK`), `get` (answered, but the checksum that is calculated is not stored
into the message, so that it is right only by chance), `quiet` (no answer) and
`corrupt` (refused). The 15 seconds `rpmsg_send()` waits for a buffer are the
time the task may stay at `txbuf`; giving up is possible whenever there is none.

`RequestChannel` states what the driver relies on: answers come in the order of
the requests, at most one for each, and only for requests that have an answer.
`LinuxComms` implements it with `sent <- posted` and `answers` the replies Linux
has consumed after the announcement. This is the assumption under which
`EcuDriver` lets its remote answer request `done + 1` or skip it.

### EcuManager

The server of `server/main.cpp`. `todo` is the list of system calls a thread has
yet to make: main() works through `StartUp`, a handler through one entry of
`ClientScript`, which is also the order of the client's calls. `SysCall` enters
the driver, `InKernel` is any step of the thread in there (an action of
`EcuDriver`), `CallDone` is what the program does with the result: it tries again,
goes on, returns, or closes `fd` and gives up. `fd` keeps its number when it is
closed; `Connection` lets the server accept a connection under that number, on
which a driver call then fails with ENOTTY instead of EBADF. `Signal` ends the
process at any time, with threads still in the kernel.

User space sees -1 from a call that fails, and the code in `errno`. `Result` says
so, and `Again` compares it with `-EAGAIN` as the code does: it is never true, and the
loops never go round, in the model as in the code. `MCEcuManager_timeout` shows what that
does; no property of the passing runs is about the retries.

Abstractions. gRPC is external; it runs each call in a thread of its own. main()
clears `rx_msg` before `read()`, and a message of zeros is taken to fail the tests
for checksum and `CMD_ACK`. main() repeats `read()` while it returns 0, which it does
not for an empty fifo (see `MCEcuDriver_phantom`), so that this loop ends at once.
The answer to the first `sendMsg` is filed as that of a `write()`, so with a single
client that call fails; this closes `fd` and takes all calls down until the server
is restarted. The threads of the server race in the driver's queues as any others do.

### DeviceFile

`reg` is what the module has registered, `load` the next step of `stm32ecu_init()`
or `stm32ecu_exit()`; each registration can fail. `class_create()` and
`device_create()` report a failure with an error pointer, the code tests for NULL,
so that it goes on and the label `r_device` is never reached. `device_open++` and
`device_open--` are a load and a store each, and all processes interleave between them.
The history variable `overlap` says that an `open()` was admitted while another was between
its test and its increment. `poll_cb()` puts the caller on a wait queue
that nobody wakes; a timeout, if there is one (`Timeouts`), ends the sleep. `kfifo_free()`
does nothing for a queue declared with `DEFINE_KFIFO`, and is left out. A `cdev` that stays
behind lies in freed memory: `OpenFreed` is the undefined behaviour of opening it.

### Kfifo, Virtqueue and BoundedFifo

`BoundedFifo` is a queue of numbered elements with a capacity: element `n + 1` is
appended, or the first one is removed.

`Kfifo` is a put and a get of one element: test, copy, load of the index, store of
the index. `kfifo_put()` and `kfifo_get()` are macros of a header that is not part of
the repository; the model follows `__kfifo_in()` and `__kfifo_out()` of `lib/kfifo.c`,
which do the same for one element. Its indices run modulo `Wrap` and are masked.

`Virtqueue` has both sides of `virtqueue.c`: `AddBuffer`, `UpdateAvail` and
`GetBuffer` of the master, `GetAvailable`, `AddConsumed` and `UpdateUsed` of the
slave. In this system Linux is the master of both rings, with code of its own that
follows the same protocol; the master half of `virtqueue.c`, which the firmware does not
compile in (`VIRTIO_SLAVE_ONLY`), stands for it. Slot and
index are written in separate steps. rpmsg uses one descriptor for a buffer.

`LinuxComms` takes the rings for queues and `EcuDriver` its fifos for sequences;
these two modules show when they may, and `EcuDriver` does not where they may not.

### LockResource

One GPIO port, and what the M4 does with it in the order of `main()`: `UnlockedInit` is a
`HAL_GPIO_Init()` of `HAL_FDCAN_MspInit()` (`stm32mp1xx_hal_msp.c:184`, `191`), which takes no
lock although Linux is running; there are `Early` of them in `MX_FDCAN1_Init()` and `Late` in
`system_run()`, which initialises FDCAN1 again. `CreateObjects` are the FreeRTOS calls from
`main.c:215` on: `uxCriticalNesting` starts at 0xaaaaaaaa, so that leaving a critical section
leaves BASEPRI raised (`port.c:403-428`) and TIM1, with priority 15, is `masked` until
`osKernelStart`. `Periph_Lock()` is called for the green LED in between and for the orange one
in a task: take the semaphore, look at the time, `Error_Handler()` after the timeout
(`"halted"`). `HAL_GPIO_Init()` is `GpioRead` and `GpioWrite`: the four read-modify-writes of
the code as one. The unlocked calls on other ports (`main.c:753`; I2C, SPI, UART) are the same
code on registers that the LEDs do not share. `HAL_IncTick` is the tick interrupt, which does
not come while it is masked; `lag` bounds for how many ticks the thread is preempted. Linux
takes the semaphore at any time and need not release it (external). The history variable
`overlap` says that an access overlaps one that is made without the lock.

### CanSpi

`CANSPI_Transmit()` is `TransmitStatus`, `TransmitLoad`, `RequestToSend`;
`CANSPI_Receive()` is `ReceiveStatus`, `ReceiveRead`; `ModeStep` holds
`CANSPI_Initialize()` and `CANSPI_Sleep()` with their loops for the mode to change.
Any of them may be called at any time, also after a failure and in any mode of the
controller. The conversions between identifiers and the four registers are the
arithmetic of the code with its widths. The controller is external: it changes its mode
some time after the request, or never (`ChipMode`); in the loopback mode the driver selects,
it moves a pending frame to a receive buffer (`ChipSend`), rolls over from the first to the
second, and drops it when both are full (`Arrive`); asleep, it is woken by the bus, since
`CANSPI_Sleep()` enables that (`ChipWake`), and then hears frames of others (`ChipHear`).
Length and data of a frame are one tag. The driver transmits no remote frames, so none are
received. RXB0 is read before RXB1 even if it was refilled later, so that frames can be
received in another order than they were sent; nothing in the repository depends on it.

*Assumption:* SPI transfers are whole and lossless. The code does not see to it:
`MCP2515.c:250-273` ignores the results of `HAL_SPI_Transmit()` and `HAL_SPI_Receive()`, the
chip select macros are empty (`MCP2515.c:8-9`), and `main.c:584` and `593` configure SPI4 with
frames of 4 bits and NSS pulses. With transfers cut at every frame nothing the driver does
would reach the controller; the properties are about the driver's logic. No code in the
repository calls `CANSPI_...()`.

## 3. Runs

| Run | Result | What it shows |
|---|---|---|
| `driver_calls` | holds | All calls from two threads at once, with everything that can go wrong: until a mishap the two queues mirror the unanswered requests (`MatchInv`), answers reach their owners (`UniqueToOwner`), are filed by kind (`FiledByKind`) and are not lost (`StoredUntilClaimed`); until a race in a queue, the queues keep their capacity (`TypeOK`) and there is a kind for every answer, through failures, early answers, `write()` and restarts (`KindForEveryAnswer`). |
| `driver_surplus` | violated | One `write()` and then `SEND_MSG`, one call at a time, all answers good: the kind queued in advance (`stm32ecu.c:141`) lets an answer be stored under the id of another request (`AnswerToOwner`). |
| `comms_safe` | holds | No reply lies in its ring unannounced, no receive buffer leaks, every request in the ring is covered by a signal unless one was swallowed, and `RequestChannel` is implemented. |
| `comms_live` | holds | A request is taken unless its signal was swallowed; a ping that was taken is answered unless a reply found no buffer. |
| `comms_swallow` | violated | `MAILBOX_Poll()` resets the flag after draining the ring, and a signal in between is lost. |
| `manager_server` | holds | One session of the server, with everything that can go wrong below it: it starts only on the answer to its own message (`StartedOnOwnAnswer`), no thread dies in the driver while the remote stays (`NoThreadDies`), and a closed device stays closed for every later call, whatever its number stands for (`ClosedForGood`). |
| `manager_live` | holds | Every handler returns unless its thread died in the driver (`HandlersReturn`). |
| `device_open` | holds | Three processes in any interleaving: until two `open()` calls overlap, one process has the device and the counter counts it (`Exclusive`), and EBUSY is true (`BusyMeansBusy`); a node is always backed (`NodeIsBacked`). |
| `kfifo_single` | holds | With one producer and one consumer the ring implements `BoundedFifo`, and the consumer gets every element once and in order. |
| `vq_rings` | holds | Each descriptor is in one place, the free chain is as long as its counter says, and the slave is given the buffers as by a `BoundedFifo`. |
| `lock_port` | holds | A write that no unlocked access overlaps loses no pin of either core (`LockedWritesKeep`); the M4 stops not before the timeout (`NeverEarly`) and waits not long after it (`DecidedInTime`), and with the tick running the wait ends also when Linux never releases the semaphore (`Decided`). |
| `can_frames` | holds | What is received was sent or on the bus (`ReceivedWasSent`); no frame is duplicated or overwritten (`InOnePlace`); every accepted frame reaches a receive buffer or is lost to an overflow, unless the controller is taken out of loopback mode (`AllSent`); every call returns, whether or not the controller reaches the mode it is asked for (`CallsReturn`). |

The violated runs check what a comment or a message in the source says; the
findings in `PROJECT.json` quote it.

### Further configurations

Each of these varies the use of a component in one respect and lets TLC find a
counterexample. They show why the passing runs and the theorems have the
conditions they have. `tlc -config <file> <module>` reproduces them.

| Configuration | Property TLC finds violated | What the source says, and what happens |
|---|---|---|
| `MCEcuDriver_overtake` | `AnswerToOwner` | "Store our idx for this message, so we know where to place it when it's received" (`stm32ecu.c:269`). An answer that comes before `SEND_MSG` has queued its kind (`:257`) is dropped and shifts all later ones. |
| `MCEcuDriver_race` | `AnswerToOwner` | "Give a UID to userspace so we can give them their msg once it's received" (`:261`). Nothing locks the steps from `:249` on; two concurrent `SEND_MSG` get each other's answers. |
| `MCEcuDriver_badcrc` | `AnswerToOwner` | The same comment. A damaged answer takes its kind and leaves its id (`:404`). Every answer to `PARAM_GET` is damaged (`rpmsgManager.cpp:60`). |
| `MCEcuDriver_restart` | `AnswerToOwner` | The same comment. Kinds of requests that died with the remote decide about the next session (`:439`). |
| `MCEcuDriver_claim` | `RecvNeverNull` | `RECV_MSG` looks an entry up (`:295`) and erases it (`:301`) in two steps; a second caller for the same id copies from NULL. |
| `MCEcuDriver_phantom` | `NoPhantomRead` | "no messages to read!" (`:117`). `kfifo_size()` is the capacity (`:115`), so `read()` on an empty fifo reports a message. |
| `MCLinuxComms_ring1` | `NeverNotifiesRing1` | "the OpenAMP framework never notifies this" (`mbox_ipcc.c:165`). It does, when Linux has enabled that interrupt. |
| `MCEcuManager_rerun` | `StartedOnOwnAnswer` | "Used to store response msgs, when the tx used write()" (`stm32ecu.c:47`); `ioctl_release()` (`:92`) leaves them there. A server started a second time starts on an answer to the first. |
| `MCEcuManager_timeout` | `TimeoutAfterTries` | "timeout!" (`server/main.cpp:128`). The loop compares with `-EAGAIN` (`:119`), user space gets -1: `sendMsg` gives up at once. |
| `MCDeviceFile_race` | `AlwaysExclusive` | "if (device_open) return -EBUSY" (`:81`). Nothing locks `device_open`: two overlapping `open()` both succeed. |
| `MCDeviceFile_stuck` | `IdleIsFree` | The same two leave the counter at a value other than zero (`:84`, `:94`), and the device is busy with nobody having it. |
| `MCDeviceFile_poll` | `PollWakes` | `poll_cb()` sleeps on a queue (`:323`) that `rpmsg_sample_cb()` does not wake: without a timeout the caller sleeps on with a message there. |
| `MCDeviceFile_exit` | `CleanExit` | "Kernel Module Removed Successfully" (`:532`). `cdev_del()` is missing, and messages that arrive until the rpmsg driver is unregistered (`:528`, `:530`) are never freed. |
| `MCDeviceFile_insert` | `InsertedComplete` | "Kernel Module Inserted Successfully" (`:499`). An error pointer passes the test for NULL (`:481`), and the module is loaded without a device node. |
| `MCKfifo_producers` | `UpToDate` | Several threads put into `fifo_send_types` (`:182`) without a lock. An element overwrites another, and a stale slot is delivered. |
| `MCLockResource_unlocked` | `NoLostPin` | "Periph_Lock ... shall be called before accessing registers of this shared @Peripheral" (`lock_resource.c`). `HAL_FDCAN_MspInit()` does not, and undoes what Linux has configured meanwhile. |
| `MCLockResource_frozen` | `GivesUp` | "give up after @Timeout msecs have elapsed" (`lock_resource.c:54`). In `system_run()` (`main.c:251`) the tick is masked: if Linux keeps the semaphore the M4 spins for ever. |

The `MCEcuDriver` ones let one kind of mishap happen each and find `AnswerToOwner`
violated, which is what `UniqueToOwner` says without the proviso of a mishap;
`driver_surplus` does it for the kind that `write()` queues in advance.

### Bounds

Every bound is a named constant.

* Driver. The capacities 512, 256, 256 and 1024 become 1 or 2, so that full
  queues and exhausted ids, which a test would hardly reach, are reached in a few
  calls. `MaxMsgs` = 4 in `driver_calls` is twice the number of ids, so that they are
  exhausted, claimed, wrapped around and reused. Two threads race with each other;
  `MaxTorn` = 2 lets a race overfill a queue of one and empty or fill one of two. After a
  mishap the matching properties claim nothing, and after a race only types remain: the
  constraint `MishapBound` then ends the exploration after `MaxMishapMsgs` = 2 and
  `MaxRacedMsgs` = 1 requests. The view `Live` leaves out locals that are not used again,
  results and the word of `SET_STATE`, which no step and no property reads. The theorems
  have none of these bounds.
* `LinuxComms`: two request buffers and one reply buffer, so that both sides run
  out, and three requests, so that one is in the ring while another is handled and
  a third one waits.
* `EcuManager`: main() and two handlers, four messages (the start-up's two and one
  `sendMsg` or ping of each client; three in `manager_live`), one restart of the remote,
  `Tries` 2 for 10, one session. `ServerView` leaves out the driver's history variables.
* `DeviceFile`: three processes (one has the device, two try), one message. After an
  overlap the counter can drift without end; `CountBound` stops it at 3.
* `Kfifo`: four slots, indices modulo 8, 20 elements, so that the indices wrap
  twice and the ring five times. `Virtqueue`: four descriptors, indices modulo 8,
  eight buffers, so that both indices wrap.
* `LockResource`: timeout 3, a counter modulo 10 that starts anywhere, two ticks of
  preemption, two unlocked configurations before and two after the objects are created,
  as in the code, and two of Linux.
* `CanSpi`: one identifier of each type with bits set in every field, three frames (as
  many as there are transmit buffers, one more than receive buffers), two readings of the
  mode for ten.

Symmetry (`ThreadSymmetry`, `HandlerSymmetry`, `ProcSymmetry`) is used in runs without
liveness properties only; no step depends on which thread or process it is.

Deadlock is checked in the `LinuxComms` runs. In the others the bounds end a
behaviour, and a thread that died in the kernel, a core that was halted and a
sleeping controller never go on.

### Fairness

* `LinuxComms`. FreeRTOS runs the task again after each `osDelay()`, so `WF` of its
  step (it can be stuck only in `MAILBOX_Notify()`, where `Notify` is not enabled);
  unmasked interrupts are taken; the Linux mailbox controller and the worker of
  ring 0 run eventually. Linux need not send anything, so there is no fairness on
  `LinuxPost` and `LinuxWait`.
* `EcuManager`: `WF` of each thread. A system call ends (`rpmsg_send()` gives up
  after 15 seconds), and the loops are counted. None for clients, signals, the
  remote or its answers.
* `LockResource`: the M4's steps, and its tick while it is not masked. None for Linux, which
  may keep the semaphore for ever. So `Decided` is stated for the tick running.
* `CanSpi`: a call that was begun is finished, and the controller transmits what is pending
  while it is in loopback mode. Nobody has to call anything, `CANSPI_Receive()` in particular,
  and the controller need not change its mode when it is asked to.
* `DeviceFile` (`MCDeviceFile_poll` only): a `poll()` with a timeout wakes up.

## 4. Proofs

Checked by TLAPS for every value of the constants, from the named assumptions of
the modules alone. Every invariant, action property and refinement that a passing run
checks is also a theorem, and `StartsOnOwnAnswer` is the only one with a hypothesis about the
program's use beyond those assumptions (besides `Single` for `Kfifo`); section 3 has a
configuration for each that shows why.

**`EcuDriverProofs`** (from `DriverAssumption`: finite, non-empty `Threads`, positive
capacities; `KindsSuffice` also from `VringsFit`). Any number of threads call at the same time,
with races in the queues.

* `TypeCorrect`: `Spec => []TypeOK`. `TypeOK` alone is not inductive: `WritePut` counts
  `left` down and `SendPutId` queues `id`. `LocalsOK` says that a loop still has iterations
  left where it counts, and that an id about to be queued is within the limit. That a
  capacity is kept until a race rests on `OvertakeType`: an operation that does not set
  `raced` was not `Racing`.
* `MatchKept`: `Spec => []MatchInv`. `MatchInv` is the inductive invariant.
  `UniqueToOwner` is not inductive, since the next answer is filed under whatever id
  heads its queue. One has to know that this id belongs to the request being answered,
  hence that the ids in the queue are, in order, those of the unfiled `SEND_MSG`
  requests (`IdsMirrorLog`), hence that the callback files an answer only when its kind
  is right (`TypesMirrorLog`), hence where the calls in progress stand: without a mishap
  one thread at most is between its send and the end of its booking (`OneBooking`), it sent
  the newest request (`NewestUnanswered`), its id is reserved (`AllocatedReserved`), and
  nothing was sent by `write()` (`NoWrites`). Other threads may be anywhere else, about to
  send, in `RECV_MSG`, in `read()`. The proof has one lemma for each action that moves the
  mirror (`SendMirror`, `PutMirror`, `AllocMirror`, `PutIdMirror`, `EraseMirror`,
  `CbMessageMirror`, `CbStoreMirror`), and `QuietStep` for those that do not touch it;
  `CleanSteps` says what a step that is no mishap cannot have been.
* `OwnersKept`, `FilingKept`, `StoredKept`: `UniqueToOwner`, `FiledByKind` and
  `StoredUntilClaimed`, from it.
* `KindsSuffice`: `KindForEveryAnswer`, by counting (`KindStep`): a send adds a request and a thread
  about to queue a kind, a put moves one from the threads to the queue or finds it full, and
  a full queue has a kind for every request in the rings (`VringsFit`). Kinds that failed
  writes and restarts leave behind only add to it.

**`EcuManagerProofs`** (from `DriverAssumption` and `ManagerAssumption`: `Main` is a
thread). It extends `EcuDriverProofs`.

* `ManagerRunsDriver`: `ManagerSpec => Spec`. The server uses the driver through its
  calls alone, so the theorems about `EcuDriver` hold below it.
* `ManagerTypes` and `StaysClosed` (`ClosedForGood`) with the invariant `ServerInv`. Its
  part `Late` says that a handler that began after the device was closed is in no
  call and will not be in one: without it a call under way could still succeed.
* `ThreadsSurvive`: `NoThreadDies`, with no hypothesis on how many clients call, or
  when. A thread can die in three places: when it sends without a remote, when
  the remote has gone, and when `RECV_MSG` copies from a NULL entry. `RefInv` says that
  before the remote has appeared `main()` is not past its ping, so that no handler
  runs. `ClaimInv` says that an id that `SEND_MSG` returned is held by one thread and
  stays allocated until the same thread's `RECV_MSG` erases it, so that no other
  thread empties the entry between the load and the copy. Both need to know which
  calls a thread makes in which order (`Programs`) and where in the driver it is for
  each (`InCall`).
* `StartsOnOwnAnswer`: `StartedOnOwnAnswer` for a server that is started once and
  writes one message (`OneStart`; `MCEcuManager_rerun` shows what a second start does).
  `StartInv` follows `main()` through its calls: the kind of the ping stays at the head
  of the queue until its answer comes (`PingKind`), so that only the second request
  can be filed for `read()` (`OnlySecondFiled`). Until it serves, `main()` is alone in the
  driver and races with nobody (`AloneNoRace`); what handlers tear later comes too late.

**`DeviceFileProofs`** (from `DeviceAssumption`: finite, non-empty `Procs`).

* `DeviceTypes`: `TypeOK`, however calls interleave.
* `NodesAreBacked`: `NodeIsBacked` with the invariant `Stages`, which says for each
  step of loading and unloading what is certainly registered by then.
* `OneFile`, `BusyIsTrue`: `Exclusive` and `BusyMeansBusy`. The invariant `OpenInv` says that
  until two `open()` calls overlap at most one process has a file or is opening it, that the
  counter is 1 exactly while one has stored its increment and not yet its decrement,
  and that a value loaded in order to be changed is still current (`OneOpener`).

**`LockResourceProofs`** (from `LockAssumption`: the counter is wide enough to tell
the timeout and two preemptions).

* `LockTypes`, `PinsAreKept` (`LockedWritesKeep`), `NotEarly`, `InTime` from one invariant,
  `LockInv`, for any number of locked and unlocked accesses. `Holds`: who works on the registers
  has the semaphore, or is the M4 in an access without it. `Current`: a copy is the current
  value of the registers unless an unlocked access overlaps. `Clock`: the counter is ahead of
  its value at the start by the ticks that have passed, once around or not. Without it the
  test for the timeout could be right or wrong.

**`CanSpiProofs`** (from `CanAssumption`: identifiers of 11 and 29 bits).

* `RoundTrip`: converting an identifier to registers and back loses nothing, for
  all identifiers.
* `DeliversWhatWasSent`: `ReceivedWasSent` with the invariant `CarryInv`: a buffer
  that is pending or full holds the encoding of an accepted or heard frame, a buffer that
  is being loaded is not pending, and the one that is being read stays as it was
  when its type was read.

* `CanTypes`: `TypeOK`; while the mode is awaited there is a reading left.
* `FramesInOnePlace`: `InOnePlace` with the invariant `PlaceInv`. The property says of
  each frame that it is in one place; to keep that, the invariant says of each two
  buffers that they hold different frames (`Apart`) and that a frame on its way to
  the controller is newer than all others (`Fresh`).

**`LinuxCommsProofs`** (from `CommsAssumption`: at least one buffer in each ring).

* `CommsTypes` and `BuffersComeBack` (`BuffersReturned`) from `BufferInv`: the types,
  where a send returns to, and that a buffer found free stays free until it is
  filled (`Control`).
* `RepliesSignalled`: `ReplySignalled`.
* `RequestsSignalled`: `RequestSignalled` with `LateSignal`: once the task has found the
  ring empty and until it has reset the flag, the flag covers no request; another
  signal does, or it was swallowed.
* `ImplementsChannel`: the refinement of `RequestChannel`. `AnswerInv` says that the
  replies after the announcement answer requests that were taken, in increasing
  order, and that the one about to be sent answers the request taken last.

**`KfifoProofs`** (from `KfifoAssumption`: `Size` divides `Wrap`), for one producer and
one consumer (`Single`; `MCKfifo_producers` shows what two do).

* `RingTypes`, `RingInOrder` (`DeliveredInOrder`) and `ImplementsFifo` (the refinement of
  `BoundedFifo`) from `KInv`: the indices are the numbers of elements stored and taken,
  wrapped, and at most `Size` apart; the slots between them hold the elements in
  order; a put or get under way still has the room, or the element, it found.

**`VirtqueueProofs`** (from `VirtqueueAssumption`: `nentries` divides `Wrap` and is less).

* `RingTypesKept`, `DescriptorsInOnePlace` (`EachInOnePlace`), `ChainEndsRight`
  (`ChainEnds`), `NoStaleCookie` and `ImplementsAvail` (the refinement of `BoundedFifo`) from
  `VInv`. `EachInOnePlace` counts descriptors and is not inductive. `Located` says that
  there is a map from descriptors to places, and that the free chain and the part
  of each ring between its indices list, without repetition, the descriptors of
  their place; each action moves one descriptor. `Count` gives the room: while the
  chain is not empty the avail ring has a free slot, and while the slave holds a
  descriptor the used ring has one. `Written` says that the slot behind the last entry
  holds what is being published.
* The lemmas about rings (`WindowGrow`, `WindowShrink`, `WindowWrite`) reduce the wrapped
  indices to remainders: two indices less than `nentries` apart have different slots,
  across the wrap too, because `nentries` divides `Wrap`.
* `FreeIs`: the recursive function `Free` is the list of the invariant, by the
  principle of the least natural number (`LeastNatural`).
* `NoStaleCookie` is not a property of a run: exactly the free descriptors are without
  a cookie, which is what `virtqueue_add_buffer()` asserts.

Only model-checked: the six liveness properties `ServedOrSwallowed`, `PingAnswered`,
`HandlersReturn`, `Decided`, `AllSent` and `CallsReturn`. Liveness under fairness, and
statements with `ENABLED`, are outside what the installed provers can do. The theorems
above give the safety half of two of them: `RequestsSignalled` says that a request in
the ring is always covered by a signal unless one was swallowed, and `InTime` that
the M4 does not wait longer than the timeout and its preemptions.

## 5. Plan

Done: `EcuDriver`, `LinuxComms`, `RequestChannel`, `EcuManager`, `DeviceFile`,
`Kfifo`, `Virtqueue`, `LockResource` and `CanSpi` with their runs; the theorems of
section 4.

Left:

1. `EcuSystem`: `EcuDriver` on top of `RequestChannel` in one specification, so that the
   assumption of `EcuDriver` about its remote is no longer stated twice.
2. A version of `StartsOnOwnAnswer` for a server that is started again after the driver
   was loaded again.

## 6. Not modelled

* *Autonomous state and ASSI.* One routine toggles between two states and sets a
  light; every property would restate an assignment.
* *M4 system layer.* Glue between the submodule `System`, which is not part of the
  repository, and the HAL.
* *Start-up and interrupt dispatch of the M4*, but for the order of pin configurations,
  FreeRTOS objects and scheduler in `LockResource`. Generated; what it leaves behind is
  the initial state of `LinuxComms`.
* *SPI transfers that fail or are cut* (see `CanSpi`).
* *Failures of the OpenAMP set-up.* `main()` ignores the result of
  `MX_OPENAMP_Init()`; what a task does with an endpoint that was never set up is
  undefined in too many ways to be of use.
* *Suppression of interrupts by event index* in the rings: not negotiated.
* *C runtime* (`_sbrk()` is one test, the rest are stubs) and *scripts* (their effect
  is `Probe` and `Remove`).
* *Vendored code*: Linux, HAL, FreeRTOS, CMSIS, libmetal, device trees, beyond the
  few functions the models use. It is nearly all of the lines in the repository.
* *The shared message library*, a submodule that is not part of the repository. The
  checksum function lives there, so that the models know of a checksum only
  whether it is right.
