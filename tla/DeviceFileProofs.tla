-------------------------- MODULE DeviceFileProofs --------------------------
(***************************************************************************)
(* Theorems about DeviceFile, for every number of processes: the counter   *)
(* device_open does its work until two open() calls overlap, and the       *)
(* device node is always backed.                                           *)
(***************************************************************************)
EXTENDS DeviceFile, FiniteSetTheorems, TLAPS

USE DeviceAssumption

Labels == {"closed", "busy", "testing", "opening", "open", "asleep", "closing", "oops"}

\* Moving one process keeps the type of pc.
LEMMA GotoType ==
    ASSUME TypeOK, NEW p \in Procs, NEW l \in Labels, Goto(p, l)
    PROVE  /\ pc' \in [Procs -> Labels] /\ pc'[p] = l
           /\ \A q \in Procs : q # p => pc'[q] = pc[q]
  BY DEF TypeOK, Goto, Labels

\* The steps of the processes leave what the module has registered alone, and
\* the steps of the module leave the processes alone.
ModuleStep == stm32ecu_init \/ InitUnwind \/ ExitFree \/ ExitUnregister \/ Callback
ProcStep(p) == OpenStep(p) \/ CloseStep(p) \/ Poll(p) \/ Read(p)

\* Loading, unloading and the callback leave open files and the counter alone.
LEMMA ModuleLeavesOpen ==
    ASSUME ModuleStep
    PROVE  UNCHANGED openVars
  BY DEF ModuleStep, stm32ecu_init, InitCall, InitUnwind, Unregister, ExitFree,
         ExitUnregister, Callback

\* A process that uses the device leaves the registrations alone.
LEMMA ProcLeavesModule ==
    ASSUME NEW p \in Procs, ProcStep(p)
    PROVE  UNCHANGED <<reg, load>>
  BY DEF ProcStep, OpenStep, CloseStep, OpenTest, OpenFreed, OpenLoad, OpenStore,
         Refused, ReleaseLoad, ReleaseStore, Poll, Read

-----------------------------------------------------------------------------
\* Types.

\* The initial state has the types.
LEMMA InitTypes == Init => TypeOK
  <1>1. ASSUME Init PROVE overlap \in BOOLEAN
    BY Zenon, <1>1 DEF Init
  <1>2. ASSUME Init PROVE msgs \in 0..MaxStored /\ r \in [Procs -> Int] /\ device_open \in Int
    BY <1>2 DEF Init
  <1>3. ASSUME Init PROVE pc \in [Procs -> Labels] /\ stored \in BOOLEAN
    BY <1>3 DEF Init, Labels
  <1>4. ASSUME Init PROVE reg \subseteq Things /\ load \in InitSteps
    BY <1>4 DEF Init, InitSteps
  <1>5. QED
    BY Zenon, <1>1, <1>2, <1>3, <1>4 DEF TypeOK, Labels

\* Loading, unloading and the callback keep the types.
LEMMA ModuleTypes ==
    ASSUME TypeOK, ModuleStep
    PROVE  TypeOK'
  <1>1. reg' \subseteq Things
    BY DEF TypeOK, ModuleStep, stm32ecu_init, InitCall, InitUnwind, Unregister,
           ExitFree, ExitUnregister, Callback, Things
  <1>2. load' \in InitSteps \cup ExitSteps \cup Gone \cup {"live"}
    BY DEF TypeOK, ModuleStep, stm32ecu_init, InitCall, InitUnwind, Unregister,
           ExitFree, ExitUnregister, Callback, InitSteps, ExitSteps, Gone
  <1>3. msgs' \in 0..MaxStored
    BY DEF TypeOK, ModuleStep, stm32ecu_init, InitCall, InitUnwind, Unregister,
           ExitFree, ExitUnregister, Callback
  <1>4. stored' \in BOOLEAN
    BY DEF TypeOK, ModuleStep, stm32ecu_init, InitCall, InitUnwind, Unregister,
           ExitFree, ExitUnregister, Callback
  <1>5. QED
    BY <1>1, <1>2, <1>3, <1>4, ModuleLeavesOpen DEF TypeOK, openVars

\* Opening, closing, polling and reading keep the types.
LEMMA ProcTypes ==
    ASSUME TypeOK, NEW p \in Procs, ProcStep(p)
    PROVE  TypeOK'
  <1>1. pc' \in [Procs -> Labels]
    <2>1. pc \in [Procs -> Labels]
      BY DEF TypeOK, Labels
    <2>2. (\E l \in Labels : pc' = [pc EXCEPT ![p] = l]) \/ UNCHANGED pc
      BY DEF ProcStep, OpenStep, CloseStep, OpenTest, OpenFreed, OpenLoad, OpenStore,
             Refused, ReleaseLoad, ReleaseStore, Poll, Read, Goto, Labels, openVars
    <2>3. QED
      BY <2>1, <2>2
  <1>2. device_open' \in Int /\ r' \in [Procs -> Int]
    BY DEF TypeOK, ProcStep, OpenStep, CloseStep, OpenTest, OpenFreed, OpenLoad, OpenStore,
           Refused, ReleaseLoad, ReleaseStore, Poll, Read, openVars
  <1>3. overlap' \in BOOLEAN
    <2>1. overlap' = overlap \/ overlap' = (overlap \/ \E q \in Procs : Admitted(q))
      BY Zenon DEF ProcStep, OpenStep, CloseStep, OpenTest, OpenFreed, OpenLoad, OpenStore,
             Refused, ReleaseLoad, ReleaseStore, Poll, Read, openVars
    <2>2. overlap \in BOOLEAN
      BY DEF TypeOK
    <2>3. QED
      BY Zenon, <2>1, <2>2
  <1>4. msgs' \in 0..MaxStored /\ UNCHANGED stored
    BY DEF TypeOK, ProcStep, OpenStep, CloseStep, OpenTest, OpenFreed, OpenLoad, OpenStore,
           Refused, ReleaseLoad, ReleaseStore, Poll, Read
  <1>5. QED
    BY <1>1, <1>2, <1>3, <1>4, ProcLeavesModule DEF TypeOK, Labels

\* The variables keep their types, whether open() calls overlap or not.
THEOREM DeviceTypes == Spec => []TypeOK
  <1>1. Init => TypeOK
    BY InitTypes
  <1>2. ASSUME TypeOK, [Next]_vars
        PROVE  TypeOK'
    <2>1. CASE UNCHANGED vars
      BY <1>2, <2>1 DEF TypeOK, vars, openVars
    <2>2. CASE ModuleStep
      BY <1>2, <2>2, ModuleTypes
    <2>3. ASSUME NEW p \in Procs, ProcStep(p)
          PROVE  TypeOK'
      BY <1>2, <2>3, ProcTypes
    <2>4. QED
      BY <1>2, <2>1, <2>2, <2>3 DEF Next, ModuleStep, ProcStep
  <1>3. QED
    BY <1>1, <1>2, PTL DEF Spec

-----------------------------------------------------------------------------
\* What is registered at each step of loading and unloading.
Stages ==
    /\ load = "absent" => reg = {}
    /\ load \in {"cdev", "r_class"} => reg = {"region"}
    /\ load \in {"class", "device"} => {"region", "cdev"} \subseteq reg /\ "device" \notin reg
    /\ load = "rpmsg" => {"region", "cdev"} \subseteq reg
    /\ load \in {"x_class", "x_region", "x_rpmsg", "x_oops", "unloaded"} => "device" \notin reg
    /\ NodeIsBacked

\* A device node that can be seen has its class, its numbers and its cdev, while
\* the module is loaded, fails to load and is unloaded.
THEOREM NodesAreBacked == Spec => []NodeIsBacked
  <1>1. Init => Stages
    BY DEF Init, Stages, NodeIsBacked
  <1>2. ASSUME Stages, [Next]_vars
        PROVE  Stages'
    <2>1. CASE stm32ecu_init
      BY <1>2, <2>1 DEF Stages, NodeIsBacked, stm32ecu_init, InitCall
    <2>2. CASE InitUnwind \/ ExitUnregister
      BY <1>2, <2>2 DEF Stages, NodeIsBacked, InitUnwind, ExitUnregister, Unregister
    <2>3. CASE ExitFree
      BY <1>2, <2>3 DEF Stages, NodeIsBacked, ExitFree
    <2>4. CASE Callback \/ UNCHANGED vars
      BY <1>2, <2>4 DEF Stages, NodeIsBacked, Callback, vars
    <2>5. ASSUME NEW p \in Procs, ProcStep(p)
          PROVE  Stages'
      BY <1>2, <2>5, ProcLeavesModule DEF Stages, NodeIsBacked
    <2>6. QED
      BY <1>2, <2>1, <2>2, <2>3, <2>4, <2>5 DEF Next, ProcStep
  <1>3. Stages => NodeIsBacked
    BY DEF Stages
  <1>4. QED
    BY <1>1, <1>2, <1>3, PTL DEF Spec

-----------------------------------------------------------------------------
\* Until open() calls overlap one process at most has the file or is opening it,
\* and the counter tells whether one has it.
Holder(p) == pc[p] \in {"open", "asleep", "closing"}
OneOpener ==
    /\ \A p, q \in Procs : HasFile(p) /\ HasFile(q) => p = q
    /\ device_open \in {0, 1}
    /\ device_open = 1 <=> \E p \in Procs : Holder(p)
    /\ \A p \in Procs : /\ pc[p] = "opening" => r[p] = 0
                        /\ pc[p] = "closing" => r[p] = 1
OpenInv == TypeOK /\ (~overlap => OneOpener)

\* At first nobody holds the device and the counter is zero.
LEMMA OpenInit == Init => OpenInv
  <1>1. Init => TypeOK
    BY InitTypes
  <1>2. QED
    BY <1>1 DEF Init, OpenInv, OneOpener, HasFile, Holder

\* A step of p that does not overlap keeps it so: only the counter and the place
\* of p count.
LEMMA OpenProc ==
    ASSUME TypeOK, OneOpener, NEW p \in Procs, ProcStep(p), ~overlap'
    PROVE  OneOpener'
  <1>2. CASE OpenTest(p)
    <2>1. CASE device_open # 0 /\ Goto(p, "busy") /\ UNCHANGED <<device_open, r>>
      <3>1. /\ pc'[p] = "busy" /\ \A q \in Procs : q # p => pc'[q] = pc[q]
        BY <2>1, GotoType DEF Labels
      <3>2. pc[p] = "closed"
        BY <1>2 DEF OpenTest
      <3>3. QED
        BY <2>1, <3>1, <3>2 DEF OneOpener, HasFile, Holder
    <2>2. CASE /\ device_open = 0 /\ Goto(p, "testing") /\ UNCHANGED <<device_open, r>>
               /\ overlap' = (overlap \/ \E q \in Procs : Admitted(q))
      <3>1. /\ pc'[p] = "testing" /\ \A q \in Procs : q # p => pc'[q] = pc[q]
        BY <2>2, GotoType DEF Labels
      <3>2. \A q \in Procs : ~Admitted(q)
        BY Zenon, <2>2
      <3>3. \A q \in Procs : ~HasFile(q)
        BY <2>2, <3>2 DEF OneOpener, HasFile, Holder, Admitted
      <3>4. QED
        BY <2>2, <3>1, <3>3 DEF OneOpener, HasFile, Holder
    <2>3. QED
      BY Zenon, <1>2, <2>1, <2>2 DEF OpenTest
  <1>3. CASE OpenFreed(p) \/ Refused(p)
    <2>1. /\ pc'[p] \in {"oops", "closed"} /\ pc[p] \in {"closed", "busy"}
          /\ \A q \in Procs : q # p => pc'[q] = pc[q]
          /\ UNCHANGED <<device_open, r>>
      BY <1>3, GotoType DEF OpenFreed, Refused, Labels
    <2>2. QED
      BY <2>1 DEF OneOpener, HasFile, Holder
  <1>4. CASE OpenLoad(p)
    <2>1. /\ pc'[p] = "opening" /\ pc[p] = "testing"
          /\ \A q \in Procs : q # p => pc'[q] = pc[q]
          /\ UNCHANGED device_open
      BY <1>4, GotoType DEF OpenLoad, Labels
    <2>2. device_open = 0
      BY <2>1 DEF OneOpener, HasFile, Holder
    <2>3. r'[p] = 0 /\ \A q \in Procs : q # p => r'[q] = r[q]
      BY <1>4, <2>2 DEF TypeOK, OpenLoad
    <2>4. QED
      BY <2>1, <2>2, <2>3 DEF OneOpener, HasFile, Holder
  <1>5. CASE OpenStore(p)
    <2>1. /\ pc'[p] = "open" /\ pc[p] = "opening"
          /\ \A q \in Procs : q # p => pc'[q] = pc[q] /\ r'[q] = r[q]
          /\ device_open' = r[p] + 1
      BY <1>5, GotoType DEF TypeOK, OpenStore, Labels
    <2>2. device_open' = 1
      BY <2>1 DEF OneOpener
    <2>3. QED
      BY <2>1, <2>2 DEF OneOpener, HasFile, Holder
  <1>6. CASE ReleaseLoad(p)
    <2>1. /\ pc'[p] = "closing" /\ pc[p] = "open"
          /\ \A q \in Procs : q # p => pc'[q] = pc[q]
          /\ UNCHANGED device_open
      BY <1>6, GotoType DEF ReleaseLoad, Labels
    <2>2. device_open = 1
      BY <2>1 DEF OneOpener, Holder
    <2>3. r'[p] = 1 /\ \A q \in Procs : q # p => r'[q] = r[q]
      BY <1>6, <2>2 DEF TypeOK, ReleaseLoad
    <2>4. QED
      BY <2>1, <2>2, <2>3 DEF OneOpener, HasFile, Holder
  <1>7. CASE ReleaseStore(p)
    <2>1. /\ pc'[p] = "closed" /\ pc[p] = "closing"
          /\ \A q \in Procs : q # p => pc'[q] = pc[q] /\ r'[q] = r[q]
          /\ device_open' = r[p] - 1
      BY <1>7, GotoType DEF TypeOK, ReleaseStore, Labels
    <2>2. device_open' = 0
      BY <2>1 DEF OneOpener
    <2>3. \A q \in Procs : q # p => ~HasFile(q)
      BY <2>1 DEF OneOpener, HasFile
    <2>4. QED
      BY <2>1, <2>2, <2>3 DEF OneOpener, HasFile, Holder
  <1>8. CASE Poll(p)
    <2>1. /\ pc'[p] \in {"open", "asleep"} /\ pc[p] \in {"open", "asleep"}
          /\ \A q \in Procs : q # p => pc'[q] = pc[q]
          /\ UNCHANGED <<device_open, r>>
      BY <1>8, GotoType DEF Poll, Labels
    <2>2. QED
      BY <2>1 DEF OneOpener, HasFile, Holder
  <1>9. CASE Read(p)
    BY <1>9 DEF Read, openVars, OneOpener, HasFile, Holder
  <1>10. QED
    BY <1>2, <1>3, <1>4, <1>5, <1>6, <1>7, <1>8, <1>9 DEF ProcStep, OpenStep, CloseStep

\* Overlapping calls are not forgotten.
LEMMA OverlapStays ==
    ASSUME TypeOK, [Next]_vars, ~overlap'
    PROVE  ~overlap
  <1>1. CASE UNCHANGED vars
    BY <1>1 DEF vars, openVars
  <1>2. CASE ModuleStep
    BY <1>2, ModuleLeavesOpen DEF openVars
  <1>3. ASSUME NEW p \in Procs, ProcStep(p)
        PROVE  ~overlap
    <2>1. overlap' = overlap \/ overlap' = (overlap \/ \E q \in Procs : Admitted(q))
      BY Zenon, <1>3 DEF ProcStep, OpenStep, CloseStep, OpenTest, OpenFreed, OpenLoad,
             OpenStore, Refused, ReleaseLoad, ReleaseStore, Poll, Read, openVars
    <2>2. QED
      BY Zenon, <2>1
  <1>4. QED
    BY Zenon, <1>1, <1>2, <1>3 DEF Next, ModuleStep, ProcStep

\* Every step keeps the counter and its holder together.
LEMMA OpenNext ==
    ASSUME OpenInv, [Next]_vars
    PROVE  OpenInv'
  <1>1. CASE UNCHANGED vars
    BY <1>1 DEF OpenInv, OneOpener, TypeOK, HasFile, Holder, vars, openVars
  <1>2. CASE ModuleStep
    <2>1. TypeOK'
      BY <1>2, ModuleTypes DEF OpenInv
    <2>2. UNCHANGED <<device_open, r, pc, overlap>>
      BY <1>2, ModuleLeavesOpen DEF openVars
    <2>3. QED
      BY <2>1, <2>2 DEF OpenInv, OneOpener, HasFile, Holder
  <1>3. ASSUME NEW p \in Procs, ProcStep(p)
        PROVE  OpenInv'
    <2>1. TypeOK'
      BY <1>3, ProcTypes DEF OpenInv
    <2>2. ASSUME ~overlap' PROVE OneOpener'
      <3>1. OneOpener
        BY <2>2, OverlapStays DEF OpenInv
      <3>2. QED
        BY <1>3, <2>2, <3>1, OpenProc DEF OpenInv
    <2>3. QED
      BY <2>1, <2>2 DEF OpenInv
  <1>4. QED
    BY <1>1, <1>2, <1>3 DEF Next, ModuleStep, ProcStep

\* Under every interleaving of any number of open(), close(), poll() and read()
\* calls with loading and unloading: the first thing that can go wrong with
\* device_open is that two open() calls overlap.  Before that one process at
\* most has the device and the counter counts it.
THEOREM OneFile == Spec => []Exclusive
  <1>1. ASSUME OpenInv
        PROVE  Exclusive
    <2>1. SUFFICES ASSUME ~overlap
                   PROVE  /\ \A p, q \in Holders : p = q
                          /\ device_open = Cardinality(Holders)
      BY DEF Exclusive
    <2>2. OneOpener
      BY <1>1, <2>1 DEF OpenInv
    <2>3. \A p, q \in Holders : p = q
      BY <2>2 DEF OneOpener, HasFile, Holders
    <2>4. CASE Holders = {}
      <3>1. device_open = 0
        BY <2>2, <2>4 DEF OneOpener, Holder, Holders
      <3>2. QED
        BY <2>3, <2>4, <3>1, FS_EmptySet
    <2>5. CASE Holders # {}
      <3>1. PICK p : p \in Holders
        BY <2>5
      <3>2. Holders = {p}
        BY <2>3, <3>1
      <3>3. device_open = 1
        BY <2>2, <3>1 DEF OneOpener, Holder, Holders
      <3>4. QED
        BY <2>3, <3>2, <3>3, FS_Singleton
    <2>6. QED
      BY <2>4, <2>5
  <1>2. QED
    BY OpenInit, OpenNext, <1>1, PTL DEF Spec

\* Until two open() calls have overlapped -EBUSY tells the truth: the call is
\* refused only while another process has the device.
THEOREM BusyIsTrue == Spec => BusyMeansBusy
  <1> DEFINE Refusal == ~overlap => \A p \in Procs : pc[p] = "closed" /\ pc'[p] = "busy" =>
                           Holders \ {p} # {}
  <1>1. ASSUME OpenInv, [Next]_vars
        PROVE  [Refusal]_vars
    <2>1. SUFFICES ASSUME ~overlap, NEW p \in Procs, pc[p] = "closed", pc'[p] = "busy"
                   PROVE  Holders \ {p} # {}
      OBVIOUS
    <2>2. device_open # 0
      <3>1. PICK q \in Procs : ProcStep(q)
        BY <1>1, <2>1, ModuleLeavesOpen DEF Next, ModuleStep, ProcStep, vars, openVars
      <3>2. OpenTest(q) /\ q = p /\ device_open # 0
        BY <1>1, <2>1, <3>1 DEF OpenInv, TypeOK, ProcStep, OpenStep, CloseStep, OpenTest,
           OpenFreed, OpenLoad, OpenStore, Refused, ReleaseLoad, ReleaseStore, Poll, Read, Goto,
           openVars
      <3>3. QED
        BY <3>2
    <2>3. PICK q \in Procs : Holder(q)
      BY <1>1, <2>1, <2>2 DEF OpenInv, OneOpener
    <2>4. QED
      BY <2>1, <2>3 DEF Holder, Holders
  <1>2. QED
    BY OpenInit, OpenNext, <1>1, PTL DEF Spec, BusyMeansBusy

=============================================================================
