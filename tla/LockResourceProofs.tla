------------------------- MODULE LockResourceProofs -------------------------
(***************************************************************************)
(* Theorems about LockResource, for every timeout, every range of the tick *)
(* counter and every number of calls.                                      *)
(***************************************************************************)
EXTENDS LockResource, TLAPS

USE LockAssumption

\* Who works on the registers has the semaphore, or is the M4 in an access without
\* the lock, and works on the current value unless such an access overlaps; a call
\* that is under way has not been counted yet.
Holds ==
    /\ pc["ca7"] \in {"read", "write", "unlock"} => hsem = "ca7"
    /\ pc["cm4"] \in {"read", "write"} /\ ~WithoutLock => hsem = "cm4"
    /\ pc["cm4"] = "unlock" => hsem = "cm4" /\ ~WithoutLock
    /\ pc["cm4"] \in {"take", "test"} => ~WithoutLock
    /\ \A c \in cores : pc[c] \in {"take", "test", "read", "write"} => done[c] < Calls(c)

\* A copy is stale only in an access marked as overlapping.
Current ==
    /\ \A c \in cores : pc[c] = "write" /\ ~overlap[c] => copy[c] = moder
    /\ pc["cm4"] = "write" /\ pc["ca7"] = "write" => overlap["cm4"] /\ overlap["ca7"]

\* The counter is ahead of its value at the start by the ticks that have passed,
\* once around or not, and these are few: the test is reached again in time.
Clock ==
    /\ pc["cm4"] \in {"take", "test", "halted"} =>
          uwTick = tickstart + waited \/ uwTick = tickstart + waited - Wrap
    /\ pc["cm4"] = "take" => waited <= Timeout + lag
    /\ pc["cm4"] = "test" => waited <= Timeout + MaxPreempt + lag

LockInv == TypeOK /\ Holds /\ Current /\ Clock /\ NeverEarly

\* The initial state, with any value of uwTick.
LEMMA LockInit == Init => LockInv
  <1>1. SUFFICES ASSUME Init PROVE LockInv
    OBVIOUS
  <1>2. \A c \in cores : Calls(c) \in Nat
    BY DEF Calls, Unlocked
  <1>3. /\ hsem \in cores \cup {"free"} /\ pc \in [cores -> Labels]
        /\ \A c \in cores : pc[c] = "idle"
    BY <1>1 DEF Init, Labels
  <1>4. done \in [cores -> Nat] /\ \A c \in cores : done[c] <= Calls(c)
    BY <1>1, <1>2 DEF Init
  <1>5. TypeOK
    <2>1. moder \subseteq Pins /\ copy \in [cores -> SUBSET Pins]
      BY <1>1 DEF Init
    <2>2. overlap \in [cores -> BOOLEAN] /\ masked \in BOOLEAN
      BY <1>1 DEF Init
    <2>3. /\ uwTick \in 0..(Wrap - 1) /\ tickstart \in 0..(Wrap - 1)
          /\ waited \in 0..MaxWait /\ lag \in 0..MaxPreempt
      BY <1>1 DEF Init, MaxWait
    <2>4. QED
      BY <1>3, <1>4, <2>1, <2>2, <2>3 DEF TypeOK
  <1>6. Holds /\ Current /\ Clock /\ NeverEarly
    BY <1>3 DEF Holds, Current, Clock, NeverEarly, cores
  <1>7. QED
    BY <1>5, <1>6 DEF LockInv

\* Moving a core on leaves the other where it is.
LEMMA GotoType ==
    ASSUME TypeOK, NEW c \in cores, NEW l \in Labels, Goto(c, l)
    PROVE  /\ pc' \in [cores -> Labels] /\ pc'[c] = l
           /\ \A d \in cores : d # c => pc'[d] = pc[d]
  BY DEF TypeOK, Goto

\* A tick counts in uwTick and in the two measures of the wait alike.
LEMMA TickStep ==
    ASSUME LockInv, HAL_IncTick
    PROVE  LockInv'
  <1>1. TypeOK'
    BY DEF LockInv, TypeOK, HAL_IncTick, Inc, MaxWait, portVars
  <1>2. (Holds /\ Current /\ NeverEarly)'
    BY DEF LockInv, Holds, Current, NeverEarly, HAL_IncTick, WithoutLock, portVars
  <1>3. Clock'
    BY DEF LockInv, TypeOK, Clock, HAL_IncTick, Inc, MaxWait
  <1>4. QED
    BY <1>1, <1>2, <1>3 DEF LockInv

\* The M4 goes on in main(): an access without the lock begins, and the tick's
\* interrupt is masked and unmasked.
LEMMA MainStep ==
    ASSUME LockInv, UnlockedInit \/ CreateObjects \/ osKernelStart
    PROVE  LockInv'
  <1>1. "cm4" \in cores /\ "ca7" \in cores /\ "read" \in Labels
    BY DEF cores, Labels
  <1>2. CASE UnlockedInit
    <2>1. /\ pc' \in [cores -> Labels] /\ pc'["cm4"] = "read"
          /\ \A d \in cores : d # "cm4" => pc'[d] = pc[d]
      BY <1>1, <1>2, GotoType DEF LockInv, UnlockedInit
    <2>2. TypeOK'
      BY <1>2, <2>1 DEF LockInv, TypeOK, UnlockedInit, timeVars, portVars
    <2>3. done["cm4"] < Unlocked /\ done["cm4"] < Calls("cm4")
      BY <1>1, <1>2 DEF LockInv, TypeOK, UnlockedInit, Calls, Unlocked
    <2>4. (Holds /\ Current /\ Clock /\ NeverEarly)'
      BY <1>1, <1>2, <2>1, <2>3 DEF LockInv, Holds, Current, Clock, NeverEarly, UnlockedInit,
         WithoutLock, timeVars, portVars, cores
    <2>5. QED
      BY <2>2, <2>4 DEF LockInv
  <1>3. CASE CreateObjects \/ osKernelStart
    <2>1. masked' \in BOOLEAN /\ UNCHANGED <<hsem, pc, portVars, timeVars>>
      BY <1>3 DEF CreateObjects, osKernelStart
    <2>2. QED
      BY <2>1 DEF LockInv, TypeOK, Holds, Current, Clock, NeverEarly, WithoutLock, timeVars, portVars
  <1>4. QED
    BY <1>2, <1>3

\* Periph_Lock() starts both measures of the wait.
LEMMA LockStep ==
    ASSUME LockInv, Periph_Lock
    PROVE  LockInv'
  <1>1. "cm4" \in cores /\ "ca7" \in cores /\ "take" \in Labels
    BY DEF cores, Labels
  <1>2. /\ pc' \in [cores -> Labels] /\ pc'["cm4"] = "take"
        /\ \A d \in cores : d # "cm4" => pc'[d] = pc[d]
    BY <1>1, GotoType DEF LockInv, Periph_Lock
  <1>3. TypeOK'
    BY <1>2 DEF LockInv, TypeOK, Periph_Lock, MaxWait, portVars
  <1>4. done["cm4"] >= Unlocked /\ done["cm4"] < Calls("cm4")
    BY <1>1 DEF LockInv, TypeOK, Periph_Lock, Calls, Unlocked
  <1>5. (Holds /\ Current /\ NeverEarly)'
    BY <1>1, <1>2, <1>4 DEF LockInv, TypeOK, Holds, Current, NeverEarly, Periph_Lock, WithoutLock,
       Unlocked, portVars
  <1>6. Clock'
    BY <1>2 DEF LockInv, TypeOK, Clock, Periph_Lock
  <1>7. QED
    BY <1>3, <1>5, <1>6 DEF LockInv

\* The semaphore goes to the M4 only when it is free.
LEMMA TakeStep ==
    ASSUME LockInv, HAL_HSEM_FastTake
    PROVE  LockInv'
  <1>1. "cm4" \in cores /\ "ca7" \in cores /\ "read" \in Labels /\ "test" \in Labels
    BY DEF cores, Labels
  <1>2. /\ pc' \in [cores -> Labels]
        /\ pc'["cm4"] = IF hsem' = "cm4" THEN "read" ELSE "test"
        /\ \A d \in cores : d # "cm4" => pc'[d] = pc[d]
    BY <1>1, GotoType DEF LockInv, HAL_HSEM_FastTake
  <1>3. TypeOK'
    BY <1>1, <1>2 DEF LockInv, TypeOK, HAL_HSEM_FastTake, portVars
  <1>4. (Holds /\ Current)'
    BY <1>1, <1>2 DEF LockInv, TypeOK, Holds, Current, HAL_HSEM_FastTake, WithoutLock, portVars, cores
  <1>5. NeverEarly'
    BY <1>2 DEF LockInv, NeverEarly, HAL_HSEM_FastTake
  <1>6. Clock'
    BY <1>2 DEF LockInv, TypeOK, Clock, HAL_HSEM_FastTake
  <1>7. QED
    BY <1>3, <1>4, <1>5, <1>6 DEF LockInv

\* The difference of the two readings is the number of ticks that have passed.
LEMMA MinusIsWaited ==
    ASSUME LockInv, pc["cm4"] = "test"
    PROVE  Minus(uwTick, tickstart) = waited
  BY DEF LockInv, TypeOK, Clock, Minus

\* The M4 stops exactly when the difference of the ticks exceeds the timeout.
LEMMA TestStep ==
    ASSUME LockInv, TimeTest
    PROVE  LockInv'
  <1>1. "cm4" \in cores /\ "ca7" \in cores /\ "halted" \in Labels /\ "take" \in Labels
    BY DEF cores, Labels
  <1>2. /\ pc' \in [cores -> Labels]
        /\ pc'["cm4"] = IF TimedOut THEN "halted" ELSE "take"
        /\ \A d \in cores : d # "cm4" => pc'[d] = pc[d]
    BY <1>1, GotoType DEF LockInv, TimeTest
  <1>3. TimedOut <=> Timeout = 0 \/ waited > Timeout
    BY MinusIsWaited DEF TimeTest, TimedOut
  <1>4. TypeOK'
    BY <1>2 DEF LockInv, TypeOK, TimeTest, portVars
  <1>5. (Holds /\ Current)'
    BY <1>1, <1>2 DEF LockInv, Holds, Current, TimeTest, WithoutLock, portVars
  <1>6. (Clock /\ NeverEarly)'
    BY <1>2, <1>3 DEF LockInv, TypeOK, Clock, NeverEarly, TimeTest
  <1>7. QED
    BY <1>4, <1>5, <1>6 DEF LockInv

\* A read makes the copy current; the other core is between its read and its write
\* only if the M4 is there without the lock, and then both accesses are marked.
LEMMA ReadStep ==
    ASSUME LockInv, NEW c \in cores, GpioRead(c)
    PROVE  LockInv'
  <1>1. "cm4" \in cores /\ "ca7" \in cores /\ "write" \in Labels
    BY DEF cores, Labels
  <1>2. /\ pc' \in [cores -> Labels] /\ pc'[c] = "write"
        /\ \A d \in cores : d # c => pc'[d] = pc[d]
    BY <1>1, GotoType DEF LockInv, GpioRead
  <1>3. TypeOK'
    BY <1>2 DEF LockInv, TypeOK, GpioRead, timeVars
  <1>4. Holds'
    BY <1>1, <1>2 DEF LockInv, Holds, GpioRead, WithoutLock
  <1>5. ASSUME NEW d \in cores, d # c, pc[d] = "write"
        PROVE  WithoutLock
    BY <1>5 DEF LockInv, Holds, GpioRead, cores
  <1>6. Current'
    <2>1. copy' = [copy EXCEPT ![c] = moder] /\ moder' = moder /\ copy \in [cores -> SUBSET Pins]
      BY DEF GpioRead, LockInv, TypeOK
    <2>2. CASE \E d \in cores \ {c} : pc[d] = "write"
      <3>1. overlap' = [d \in cores |-> TRUE]
        BY <1>5, <2>2 DEF GpioRead
      <3>2. QED
        BY <1>1, <3>1 DEF Current
    <2>3. CASE ~ \E d \in cores \ {c} : pc[d] = "write"
      BY <1>1, <1>2, <2>1, <2>3 DEF Current, cores
    <2>4. QED
      BY <2>2, <2>3
  <1>7. (Clock /\ NeverEarly)'
    BY <1>1, <1>2 DEF LockInv, Clock, NeverEarly, GpioRead, timeVars, cores
  <1>8. QED
    BY <1>3, <1>4, <1>6, <1>7 DEF LockInv

\* A write ends an access without the lock, or leaves the unlocking to be done; the
\* other core is then not at work, or is marked.
LEMMA WriteStep ==
    ASSUME LockInv, NEW c \in cores, GpioWrite(c)
    PROVE  LockInv'
  <1>1. "cm4" \in cores /\ "ca7" \in cores /\ "idle" \in Labels /\ "unlock" \in Labels
    BY DEF cores, Labels
  <1>2. /\ pc' \in [cores -> Labels]
        /\ pc'[c] = IF c = "cm4" /\ WithoutLock THEN "idle" ELSE "unlock"
        /\ \A d \in cores : d # c => pc'[d] = pc[d]
    BY <1>1, GotoType DEF LockInv, GpioWrite
  <1>3. done[c] < Calls(c) /\ done[c] \in Nat /\ Calls(c) \in Nat
    BY DEF LockInv, TypeOK, Holds, GpioWrite, Calls, Unlocked
  <1>4. done' \in [cores -> Nat] /\ done'[c] = done[c] + 1 /\ \A d \in cores : d # c => done'[d] = done[d]
    BY <1>3 DEF LockInv, TypeOK, GpioWrite
  <1>5. TypeOK'
    <2>1. \A d \in cores : done'[d] <= Calls(d)
      BY <1>3, <1>4 DEF LockInv, TypeOK
    <2>2. done[c] + 1 \in 1..(Unlocked + 2 + MaxCalls)
      BY <1>3 DEF Calls, Unlocked
    <2>3. moder' \subseteq Pins
      BY <2>2 DEF LockInv, TypeOK, GpioWrite, Pins
    <2>4. overlap' \in [cores -> BOOLEAN]
      BY DEF LockInv, TypeOK, GpioWrite
    <2>5. QED
      BY <1>2, <1>4, <2>1, <2>3, <2>4 DEF LockInv, TypeOK, GpioWrite, timeVars
  <1>6. Holds'
    <2>1. CASE c = "ca7"
      BY <1>1, <1>2, <1>4, <2>1 DEF LockInv, Holds, GpioWrite, WithoutLock, cores
    <2>2. CASE c = "cm4"
      <3>1. ~WithoutLock => ~WithoutLock'
        BY <1>3, <1>4, <2>2 DEF WithoutLock, Unlocked
      <3>2. QED
        BY <1>1, <1>2, <1>4, <2>2, <3>1 DEF LockInv, Holds, GpioWrite, cores
    <2>3. QED
      BY <2>1, <2>2 DEF cores
  <1>7. Current'
    <2>1. \A d \in cores : d # c => overlap'[d] = overlap[d] /\ copy'[d] = copy[d]
      BY DEF LockInv, TypeOK, GpioWrite
    <2>2. \A d \in cores : d # c /\ pc[d] = "write" => overlap[d]
      BY DEF LockInv, Current, GpioWrite, cores
    <2>3. QED
      BY <1>1, <1>2, <2>1, <2>2 DEF Current, cores
  <1>8. (Clock /\ NeverEarly)'
    BY <1>1, <1>2 DEF LockInv, Clock, NeverEarly, GpioWrite, timeVars, cores
  <1>9. QED
    BY <1>5, <1>6, <1>7, <1>8 DEF LockInv

\* Unlocking frees the semaphore of the core that had it.
LEMMA UnlockStep ==
    ASSUME LockInv, NEW c \in cores, Periph_Unlock(c)
    PROVE  LockInv'
  <1>1. "cm4" \in cores /\ "ca7" \in cores /\ "idle" \in Labels
    BY DEF cores, Labels
  <1>2. /\ pc' \in [cores -> Labels] /\ pc'[c] = "idle"
        /\ \A d \in cores : d # c => pc'[d] = pc[d]
    BY <1>1, GotoType DEF LockInv, Periph_Unlock
  <1>3. TypeOK'
    BY <1>2 DEF LockInv, TypeOK, Periph_Unlock, timeVars, portVars
  <1>4. (Holds /\ Current)'
    BY <1>1, <1>2 DEF LockInv, Holds, Current, Periph_Unlock, WithoutLock, portVars, cores
  <1>5. (Clock /\ NeverEarly)'
    BY <1>1, <1>2 DEF LockInv, Clock, NeverEarly, Periph_Unlock, timeVars, cores
  <1>6. QED
    BY <1>3, <1>4, <1>5 DEF LockInv

\* Linux enters only when the semaphore is free.
LEMMA LinuxStep ==
    ASSUME LockInv, LinuxTake
    PROVE  LockInv'
  <1>1. "ca7" \in cores /\ "cm4" \in cores /\ "read" \in Labels
    BY DEF cores, Labels
  <1>2. /\ pc' \in [cores -> Labels] /\ pc'["ca7"] = "read"
        /\ \A d \in cores : d # "ca7" => pc'[d] = pc[d]
    BY <1>1, GotoType DEF LockInv, LinuxTake
  <1>3. TypeOK'
    BY <1>1, <1>2 DEF LockInv, TypeOK, LinuxTake, timeVars, portVars
  <1>4. (Holds /\ Current)'
    BY <1>1, <1>2 DEF LockInv, Holds, Current, LinuxTake, WithoutLock, Calls, portVars, cores
  <1>5. (Clock /\ NeverEarly)'
    BY <1>1, <1>2 DEF LockInv, Clock, NeverEarly, LinuxTake, timeVars, cores
  <1>6. QED
    BY <1>3, <1>4, <1>5 DEF LockInv

\* The invariant holds in every reachable state.
THEOREM LockInvariant == Spec => []LockInv
  <1>1. ASSUME LockInv, [Next]_vars
        PROVE  LockInv'
    <2>1. CASE UNCHANGED vars
      BY <1>1, <2>1 DEF LockInv, TypeOK, Holds, Current, Clock, NeverEarly, WithoutLock, vars,
         timeVars, portVars
    <2>2. QED
      BY <1>1, <2>1, TickStep, MainStep, LockStep, TakeStep, TestStep, ReadStep, WriteStep,
         UnlockStep, LinuxStep
      DEF Next, M4Step, Inside
  <1>2. QED
    BY LockInit, <1>1, PTL DEF Spec

\* The variables keep their types.
THEOREM LockTypes == Spec => []TypeOK
  <1>1. LockInv => TypeOK
    BY DEF LockInv
  <1>2. QED
    BY LockInvariant, <1>1, PTL

\* The write of an access that no access without the lock overlaps keeps every
\* configured pin, for any number of accesses of both kinds.
THEOREM PinsAreKept == Spec => LockedWritesKeep
  <1>1. ASSUME LockInv, [Next]_vars, overlap = [c \in cores |-> FALSE]
        PROVE  moder \subseteq moder'
    <2>1. ASSUME NEW c \in cores, GpioWrite(c)
          PROVE  moder \subseteq moder'
      BY <1>1, <2>1 DEF LockInv, Current, GpioWrite
    <2>2. CASE moder' = moder
      BY <2>2
    <2>3. (\E c \in cores : GpioWrite(c)) \/ moder' = moder
      BY <1>1 DEF Next, M4Step, Inside, HAL_IncTick, UnlockedInit, CreateObjects, osKernelStart,
         Periph_Lock, HAL_HSEM_FastTake, TimeTest, LinuxTake, GpioRead, Periph_Unlock, portVars, vars
    <2>4. QED
      BY <2>1, <2>2, <2>3
  <1>2. LockInv /\ [Next]_vars => [overlap = [c \in cores |-> FALSE] => moder \subseteq moder']_vars
    BY <1>1
  <1>3. QED
    BY LockInvariant, <1>2, PTL DEF Spec, LockedWritesKeep

\* Periph_Lock() never gives up before its timeout, for every range of the tick
\* counter and wherever it stands when the wait begins.
THEOREM NotEarly == Spec => []NeverEarly
  <1>1. LockInv => NeverEarly
    BY DEF LockInv
  <1>2. QED
    BY LockInvariant, <1>1, PTL

\* Periph_Lock() is over in time: Timeout ticks and twice the longest preemption.
THEOREM InTime == Spec => []DecidedInTime
  <1>1. LockInv => DecidedInTime
    BY DEF LockInv, TypeOK, Clock, DecidedInTime
  <1>2. QED
    BY LockInvariant, <1>1, PTL

=============================================================================
