---------------------------- MODULE LockResource ----------------------------
(***************************************************************************)
(* lock_resource.c: the two cores share the GPIO ports, and the hardware   *)
(* semaphore 0 protects the registers of all of them.  The M4 enters with  *)
(* Periph_Lock(), which polls the semaphore and gives up by calling        *)
(* Error_Handler(); Linux on the A7 uses its own driver (external).        *)
(*                                                                         *)
(* What the M4 does with GPIOA, in order: MX_FDCAN1_Init() configures two  *)
(* pins WITHOUT the lock; main() creates the FreeRTOS objects, whose       *)
(* critical sections leave BASEPRI raised until the scheduler runs and so  *)
(* mask TIM1, the tick's interrupt; system_run() configures the two pins   *)
(* again, without the lock, and then the green LED's with it; the          *)
(* scheduler starts; and the task ledAlive configures the orange LED's pin *)
(* with the lock.  (The last is on GPIOH, under the same semaphore: it is  *)
(* not told apart.  The other unlocked HAL_GPIO_Init()s, MX_GPIO_Init()    *)
(* and those of I2C, SPI and UART, are the same on other ports.)           *)
(***************************************************************************)
EXTENDS Integers

CONSTANTS
    Timeout,     \* LOCK_RESOURCE_TIMEOUT (100), in ticks
    Wrap,        \* uwTick counts modulo Wrap (2^32)
    MaxPreempt,  \* ticks that pass at most between two steps of the poll loop
    Early, Late, \* unlocked HAL_GPIO_Init()s before and after the objects (2 and 2)
    MaxCalls     \* bound: pins Linux configures

ASSUME LockAssumption ==
    /\ Timeout \in Nat /\ Wrap \in Nat /\ MaxPreempt \in Nat \ {0}
    /\ Early \in Nat /\ Late \in Nat /\ MaxCalls \in Nat
    /\ Timeout + 2 * MaxPreempt + 1 < Wrap

VARIABLES
    hsem,        \* core in the semaphore's register, or "free"
    pc,          \* per core
    moder,       \* pins configured in the port's registers
    copy,        \* per core: registers as read by HAL_GPIO_Init()
    done,        \* per core: pins configured so far
    overlap,     \* history, per core: its access overlaps one without the lock
    masked,      \* BASEPRI masks the interrupt of TIM1
    uwTick, tickstart,
    waited, lag  \* ticks since Periph_Lock() began, since its loop's last step

cores == {"cm4", "ca7"}
timeVars == <<uwTick, tickstart, waited, lag>>
portVars == <<moder, copy, done, overlap>>
vars == <<hsem, pc, portVars, masked, timeVars>>

MaxWait == Timeout + 2 * MaxPreempt + 1  \* longer waits are not told apart
Unlocked == Early + Late
Calls(c) == IF c = "cm4" THEN Unlocked + 2 ELSE MaxCalls
Pins == cores \X (1..(Unlocked + 2 + MaxCalls))
Labels == {"idle", "take", "test", "read", "write", "unlock", "halted"}

TypeOK ==
    /\ hsem \in cores \cup {"free"}
    /\ pc \in [cores -> Labels]
    /\ moder \subseteq Pins /\ copy \in [cores -> SUBSET Pins]
    /\ done \in [cores -> Nat] /\ \A c \in cores : done[c] <= Calls(c)
    /\ overlap \in [cores -> BOOLEAN] /\ masked \in BOOLEAN
    /\ uwTick \in 0..(Wrap - 1) /\ tickstart \in 0..(Wrap - 1)
    /\ waited \in 0..MaxWait /\ lag \in 0..MaxPreempt

Init ==
    /\ hsem = "free" /\ pc = [c \in cores |-> "idle"]
    /\ moder = {} /\ copy = [c \in cores |-> {}] /\ done = [c \in cores |-> 0]
    /\ overlap = [c \in cores |-> FALSE] /\ masked = FALSE
    /\ uwTick \in 0..(Wrap - 1) /\ tickstart = 0
    /\ waited = 0 /\ lag = 0

Goto(c, l) == pc' = [pc EXCEPT ![c] = l]

-----------------------------------------------------------------------------
\* The M4's way through main().

\* HAL_GPIO_Init() without the lock: MX_FDCAN1_Init(), and system_run() later.
UnlockedInit ==
    /\ pc["cm4"] = "idle"
    /\ done["cm4"] < Early \/ (masked /\ done["cm4"] < Unlocked)
    /\ Goto("cm4", "read")
    /\ UNCHANGED <<hsem, portVars, masked, timeVars>>

\* osMutexNew(), osTimerNew(), osThreadNew(): vPortExitCritical() does not unmask,
\* uxCriticalNesting being 0xaaaaaaaa before the scheduler starts.
CreateObjects ==
    /\ pc["cm4"] = "idle" /\ done["cm4"] = Early /\ ~masked
    /\ masked' = TRUE
    /\ UNCHANGED <<hsem, pc, portVars, timeVars>>

\* osKernelStart(): the first task runs with BASEPRI 0.
osKernelStart ==
    /\ pc["cm4"] = "idle" /\ done["cm4"] = Unlocked + 1 /\ masked
    /\ masked' = FALSE
    /\ UNCHANGED <<hsem, pc, portVars, timeVars>>

-----------------------------------------------------------------------------
\* uint32_t arithmetic.

Inc(t) == IF t = Wrap - 1 THEN 0 ELSE t + 1
Minus(a, b) == IF a >= b THEN a - b ELSE a - b + Wrap

\* HAL_IncTick() in the interrupt of TIM1.  Error_Handler() disables it.
HAL_IncTick ==
    /\ ~masked /\ pc["cm4"] # "halted"
    /\ pc["cm4"] \in {"take", "test"} => lag < MaxPreempt
    /\ uwTick' = Inc(uwTick)
    /\ IF pc["cm4"] \in {"take", "test"}
       THEN waited' = (IF waited < MaxWait THEN waited + 1 ELSE waited) /\ lag' = lag + 1
       ELSE UNCHANGED <<waited, lag>>
    /\ UNCHANGED <<hsem, pc, portVars, masked, tickstart>>

\* Periph_Lock(): the start time.  The green LED before the scheduler starts,
\* the orange one after it.
Periph_Lock ==
    /\ pc["cm4"] = "idle"
    /\ done["cm4"] = IF masked THEN Unlocked ELSE Unlocked + 1
    /\ Goto("cm4", "take")
    /\ tickstart' = uwTick
    /\ waited' = 0 /\ lag' = 0
    /\ UNCHANGED <<hsem, portVars, masked, uwTick>>

\* Reading RLR takes a free semaphore; the value read tells who has it.
\* Mutant: the core in the value read is not compared.
FastTakeAnyCore ==
    /\ pc["cm4"] = "take"
    /\ hsem' = IF hsem = "free" THEN "cm4" ELSE hsem
    /\ Goto("cm4", IF hsem' # "free" THEN "read" ELSE "test")
    /\ lag' = 0
    /\ UNCHANGED <<portVars, masked, uwTick, tickstart, waited>>
HAL_HSEM_FastTake ==
    /\ pc["cm4"] = "take"
    /\ hsem' = IF hsem = "free" THEN "cm4" ELSE hsem
    /\ Goto("cm4", IF hsem' = "cm4" THEN "read" ELSE "test")
    /\ lag' = 0
    /\ UNCHANGED <<portVars, masked, uwTick, tickstart, waited>>

\* Mutant: the end of the wait is computed and compared, and wraps.
TimedOutAbsolute == Timeout = 0 \/ uwTick > (tickstart + Timeout) % Wrap
TimedOut == Timeout = 0 \/ Minus(uwTick, tickstart) > Timeout

\* The test in the loop's body.  Error_Handler() does not return.
\* Mutant: an Error_Handler() that returns.
TimeTestForever ==
    /\ pc["cm4"] = "test"
    /\ Goto("cm4", "take")
    /\ lag' = 0
    /\ UNCHANGED <<hsem, portVars, masked, uwTick, tickstart, waited>>
TimeTest ==
    /\ pc["cm4"] = "test"
    /\ Goto("cm4", IF TimedOut THEN "halted" ELSE "take")
    /\ lag' = 0
    /\ UNCHANGED <<hsem, portVars, masked, uwTick, tickstart, waited>>

-----------------------------------------------------------------------------
\* Inside: HAL_GPIO_Init() reads the configuration of all pins of the port,
\* changes its own and writes all back.

WithoutLock == done["cm4"] < Unlocked

GpioRead(c) ==
    /\ pc[c] = "read"
    /\ copy' = [copy EXCEPT ![c] = moder]
    /\ overlap' = IF WithoutLock /\ \E d \in cores \ {c} : pc[d] = "write"
                  THEN [d \in cores |-> TRUE] ELSE overlap
    /\ Goto(c, "write")
    /\ UNCHANGED <<hsem, moder, done, masked, timeVars>>

GpioWrite(c) ==
    /\ pc[c] = "write"
    /\ moder' = copy[c] \cup {<<c, done[c] + 1>>}
    /\ done' = [done EXCEPT ![c] = done[c] + 1]
    /\ overlap' = [overlap EXCEPT ![c] = FALSE]
    /\ Goto(c, IF c = "cm4" /\ WithoutLock THEN "idle" ELSE "unlock")
    /\ UNCHANGED <<hsem, copy, masked, timeVars>>

\* Writing R with the core's number frees the semaphore if the core has it.
Periph_Unlock(c) ==
    /\ pc[c] = "unlock"
    /\ hsem' = IF hsem = c THEN "free" ELSE hsem
    /\ Goto(c, "idle")
    /\ UNCHANGED <<portVars, masked, timeVars>>

\* The driver in Linux: it gets in when the semaphore is free.
LinuxTake ==
    /\ pc["ca7"] = "idle" /\ done["ca7"] < MaxCalls
    /\ hsem = "free" /\ hsem' = "ca7"
    /\ Goto("ca7", "read")
    /\ UNCHANGED <<portVars, masked, timeVars>>

-----------------------------------------------------------------------------
M4Step ==
    \/ UnlockedInit \/ CreateObjects \/ osKernelStart
    \/ Periph_Lock \/ HAL_HSEM_FastTake \/ TimeTest
Inside(c) == GpioRead(c) \/ GpioWrite(c) \/ Periph_Unlock(c)
Next == HAL_IncTick \/ M4Step \/ LinuxTake \/ \E c \in cores : Inside(c)

Spec == Init /\ [][Next]_vars

\* The M4 runs, and its timer ticks unless it is masked; nothing is assumed of Linux.
FairSpec == Spec /\ WF_vars(M4Step) /\ WF_vars(Inside("cm4")) /\ WF_vars(HAL_IncTick)

-----------------------------------------------------------------------------
\* A write to the port's registers loses no pin that either core has configured,
\* unless an access without the lock overlaps it: accesses under the semaphore
\* never write back a configuration the other core has changed meanwhile.
LockedWritesKeep == [][overlap = [c \in cores |-> FALSE] => moder \subseteq moder']_vars

\* The M4 stops for good only if more than Timeout ticks have really passed,
\* also when uwTick wraps meanwhile.
NeverEarly == pc["cm4"] = "halted" => Timeout = 0 \/ waited > Timeout

\* The loop is over Timeout ticks after its start plus the time for which the
\* thread was not running.
DecidedInTime == pc["cm4"] \in {"take", "test"} => waited <= Timeout + 2 * MaxPreempt

\* Once the scheduler runs, and with it the tick, the M4 gets the semaphore or stops
\* whether Linux releases it or not.
Decided == (pc["cm4"] = "take" /\ ~masked) ~> pc["cm4"] \in {"read", "halted"}

-----------------------------------------------------------------------------
\* What the code does not keep; each has a configuration that refutes it.

\* "Periph_Lock ... shall be called before accessing registers of this shared
\* @Peripheral" (lock_resource.c): every pin that was configured stays configured.
NoLostPin == \A c \in cores : \A i \in 1..done[c] : <<c, i>> \in moder

\* "... busy loop waiting for it to be released, but give up after @Timeout msecs
\* have elapsed" (lock_resource.c), in system_run() too.
GivesUp == pc["cm4"] = "take" ~> pc["cm4"] \in {"read", "halted"}

=============================================================================
