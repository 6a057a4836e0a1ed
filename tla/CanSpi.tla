------------------------------- MODULE CanSpi -------------------------------
(***************************************************************************)
(* CANSPI.c and MCP2515.c: the driver of the CAN controller MCP2515.  The  *)
(* controller has three transmit and two receive buffers; the driver       *)
(* leaves it in loopback mode, in which it receives what it transmits.     *)
(* Asleep, it is woken by traffic on the bus and then listens to it.       *)
(*                                                                         *)
(* The controller is external: it works on its own between any two SPI     *)
(* transfers.  Assumed of the SPI: every transfer arrives whole and        *)
(* unaltered.  The code does not see to it: MCP2515.c ignores the results  *)
(* of HAL_SPI_Transmit() and HAL_SPI_Receive(), its chip select macros are *)
(* empty, and main() sets SPI4 to frames of 4 bits with NSS pulses.        *)
(*                                                                         *)
(* One task uses the driver (its work area idReg and its status words are  *)
(* global); it may call any function at any time, also after a failure.    *)
(* Data length and bytes of a frame are a tag.                             *)
(***************************************************************************)
EXTENDS Integers

CONSTANTS
    Ids,       \* identifiers in use: pairs of idType and id
    MaxSends,  \* bound: frames CANSPI_Transmit() takes or that are seen on the bus
    MaxLoop    \* readings of CANSTAT while the mode changes (10)

dSTANDARD == 1
dEXTENDED == 2

\* A caller passes an identifier of 11 or of 29 bits.
ValidIds == ({dSTANDARD} \X (0..(2^11 - 1))) \cup ({dEXTENDED} \X (0..(2^29 - 1)))

ASSUME CanAssumption ==
    /\ Ids \subseteq ValidIds
    /\ MaxSends \in Nat /\ MaxLoop \in Nat \ {0}

-----------------------------------------------------------------------------
\* Identifiers and the four registers that hold one.

Reg(sidh, sidl, eid8, eid0) == [sidh |-> sidh, sidl |-> sidl, eid8 |-> eid8, eid0 |-> eid0]

\* Mutant: the upper three bits of SIDL are cut.
convertCANid2RegCut(id, idType) ==
    IF idType = dEXTENDED
    THEN Reg((id \div 2^21) % 256, ((id \div 2^16) % 4) + 8, (id \div 2^8) % 256, id % 256)
    ELSE Reg((id \div 8) % 256, (id * 32) % 256, 0, 0)
convertCANid2Reg(id, idType) ==
    IF idType = dEXTENDED
    THEN LET hi == id \div 2^16
         IN  Reg(((hi * 8) \div 2^8) % 256,
                 (hi % 4) + (((hi * 8) \div 32) % 8) * 32 + 8,
                 (id \div 2^8) % 256,
                 id % 256)
    ELSE Reg(((id * 32) \div 2^8) % 256, (id * 32) % 256, 0, 0)

convertReg2ExtendedCANid(g) ==
    (((g.sidh * 8 + (g.sidl \div 32)) * 4 + (g.sidl % 4)) * 256 + g.eid8) * 256 + g.eid0
convertReg2StandardCANid(g) == g.sidh * 8 + (g.sidl \div 32)

\* The bit of SIDL by which the controller tells an extended frame.
msgType(g) == IF (g.sidl \div 8) % 2 = 1 THEN dEXTENDED ELSE 0

\* Reading a frame back from its registers.
Decode(type, g) ==
    IF type = dEXTENDED THEN <<dEXTENDED, convertReg2ExtendedCANid(g)>>
                        ELSE <<dSTANDARD, convertReg2StandardCANid(g)>>

-----------------------------------------------------------------------------
TxBuffers == 0..2
RxBuffers == 0..1
None == [reg |-> Reg(0, 0, 0, 0), data |-> 0]
NoFrame == [id |-> <<0, 0>>, data |-> 0]

VARIABLES
    pc,
    loop,          \* readings of CANSTAT left
    reqop, opmod,  \* mode requested in CANCTRL, mode in CANSTAT
    txb, req,      \* contents of the transmit buffers (None: sent); TXBnREQ
    rxb,           \* contents of the receive buffers; None: RXnIF is clear
    frame,         \* local: frame that is being transmitted
    sel,           \* local: buffer chosen from the status
    type,          \* local: msgType of the status
    n,             \* frames taken by CANSPI_Transmit() or seen on the bus so far
    accepted, received,  \* frames for which it and CANSPI_Receive() returned 1
    heard,         \* frames of other nodes, put into a receive buffer
    lost           \* data of frames that found both receive buffers full

callVars == <<frame, sel, type, accepted, received>>
chipVars == <<txb, req, rxb, n, heard, lost>>
modeVars == <<loop, reqop, opmod>>
vars == <<pc, modeVars, callVars, chipVars>>

Modes == {"config", "loopback", "sleep", "listen"}
Data == 1..MaxSends
Bytes == 0..255
Regs == [sidh : Bytes, sidl : Bytes, eid8 : Bytes, eid0 : Bytes]
Frames == [id : Ids, data : Data]

TypeOK ==
    /\ pc \in {"ready", "cfg", "lpb", "slp", "load", "rts", "read"}
    /\ loop \in 0..MaxLoop /\ reqop \in Modes /\ opmod \in Modes
    /\ DOMAIN txb = TxBuffers /\ \A b \in TxBuffers : txb[b].reg \in Regs
    /\ req \in [TxBuffers -> BOOLEAN]
    /\ DOMAIN rxb = RxBuffers /\ \A b \in RxBuffers : rxb[b].reg \in Regs
    /\ sel \in 0..2 /\ type \in {0, dEXTENDED}
    /\ n \in 0..MaxSends /\ accepted \subseteq Frames /\ heard \subseteq Frames
    /\ lost \subseteq Data

\* After power-up the controller is in configuration mode.
Init ==
    /\ pc = "ready" /\ loop = 0 /\ reqop = "config" /\ opmod = "config"
    /\ txb = [b \in TxBuffers |-> None] /\ req = [b \in TxBuffers |-> FALSE]
    /\ rxb = [b \in RxBuffers |-> None]
    /\ frame = NoFrame /\ sel = 0 /\ type = 0 /\ n = 0
    /\ accepted = {} /\ received = {} /\ heard = {} /\ lost = {}

-----------------------------------------------------------------------------
\* MCP2515_Set...Mode(): the request, then up to MaxLoop readings of CANSTAT.

Request(mode, next) ==
    /\ reqop' = mode /\ loop' = MaxLoop /\ pc' = next
    /\ UNCHANGED <<opmod, callVars, chipVars>>

Reading(at, mode) == pc = at /\ opmod = mode
\* Mutant: one reading too many.
NotYetLate(at, mode) ==
    /\ pc = at /\ opmod # mode
    /\ loop' = loop - 1
    /\ pc' = IF loop = 0 THEN "ready" ELSE at
    /\ UNCHANGED <<reqop, opmod, callVars, chipVars>>
\* Mutant: the readings are not counted.
NotYetForever(at, mode) ==
    /\ pc = at /\ opmod # mode
    /\ UNCHANGED vars
NotYet(at, mode) ==
    /\ pc = at /\ opmod # mode
    /\ loop' = loop - 1
    /\ pc' = IF loop' = 0 THEN "ready" ELSE at
    /\ UNCHANGED <<reqop, opmod, callVars, chipVars>>

\* CANSPI_Initialize(): it fails at once if the SPI is not ready; masks, filters
\* and bit timing are written in configuration mode, then loopback is requested.
InitStart == pc = "ready" /\ Request("config", "cfg")
InitNoSpi == pc = "ready" /\ UNCHANGED vars
InitConfigured == Reading("cfg", "config") /\ Request("loopback", "lpb")
InitDone ==
    /\ Reading("lpb", "loopback") /\ pc' = "ready" /\ loop' = 0
    /\ UNCHANGED <<reqop, opmod, callVars, chipVars>>

\* CANSPI_Sleep() enables the wake-up by the bus, and does not look at the result.
Sleep == pc = "ready" /\ Request("sleep", "slp")
SleepDone ==
    /\ Reading("slp", "sleep") /\ pc' = "ready" /\ loop' = 0
    /\ UNCHANGED <<reqop, opmod, callVars, chipVars>>

ModeStep ==
    \/ InitStart \/ InitNoSpi \/ Sleep
    \/ InitConfigured \/ InitDone \/ SleepDone
    \/ NotYet("cfg", "config") \/ NotYet("lpb", "loopback") \/ NotYet("slp", "sleep")

-----------------------------------------------------------------------------
\* CANSPI_Transmit(): the status is read, the first buffer without a pending
\* transmission is loaded and its transmission requested.

\* Mutant: a pending transmission is not looked at.
FirstFreeAlways == 0
FirstFree == CHOOSE b \in TxBuffers : ~req[b] /\ \A a \in 0..(b - 1) : req[a]

\* All three pending: the result is 0.
TransmitFull == pc = "ready" /\ (\A b \in TxBuffers : req[b]) /\ UNCHANGED vars

TransmitStatus(id) ==
    /\ pc = "ready" /\ n < MaxSends
    /\ \E b \in TxBuffers : ~req[b]
    /\ n' = n + 1 /\ frame' = [id |-> id, data |-> n']
    /\ sel' = FirstFree /\ pc' = "load"
    /\ UNCHANGED <<modeVars, type, accepted, received, txb, req, rxb, heard, lost>>

TransmitLoad ==
    /\ pc = "load" /\ pc' = "rts"
    /\ txb' = [txb EXCEPT ![sel] = [reg |-> convertCANid2Reg(frame.id[2], frame.id[1]),
                                   data |-> frame.data]]
    /\ UNCHANGED <<modeVars, callVars, req, rxb, n, heard, lost>>

\* Mutant: buffer 0 is requested whichever was loaded.
RequestToSend0 ==
    /\ pc = "rts" /\ pc' = "ready"
    /\ req' = [req EXCEPT ![0] = TRUE]
    /\ accepted' = accepted \cup {frame}
    /\ frame' = NoFrame /\ sel' = 0
    /\ UNCHANGED <<modeVars, type, received, txb, rxb, n, heard, lost>>
RequestToSend ==
    /\ pc = "rts" /\ pc' = "ready"
    /\ req' = [req EXCEPT ![sel] = TRUE]
    /\ accepted' = accepted \cup {frame}
    /\ frame' = NoFrame /\ sel' = 0
    /\ UNCHANGED <<modeVars, type, received, txb, rxb, n, heard, lost>>

\* CANSPI_Receive(): the status tells which buffers are full, and the type of the
\* frame in the one that is read next, RXB0 before RXB1.  Reading empties it.
ReceiveStatus ==
    /\ pc = "ready" /\ \E b \in RxBuffers : rxb[b] # None
    /\ sel' = IF rxb[0] # None THEN 0 ELSE 1
    /\ type' = msgType(rxb[sel'].reg)
    /\ pc' = "read"
    /\ UNCHANGED <<modeVars, frame, accepted, received, chipVars>>

ReceiveRead ==
    /\ pc = "read" /\ pc' = "ready"
    /\ received' = received \cup {[id |-> Decode(type, rxb[sel].reg), data |-> rxb[sel].data]}
    /\ rxb' = [rxb EXCEPT ![sel] = None]
    /\ sel' = 0 /\ type' = 0
    /\ UNCHANGED <<modeVars, frame, accepted, txb, req, n, heard, lost>>

Transmit ==
    \/ TransmitFull \/ TransmitLoad \/ RequestToSend
    \/ \E id \in Ids : TransmitStatus(id)
Receive == ReceiveStatus \/ ReceiveRead

-----------------------------------------------------------------------------
\* The controller: it changes its mode some time after the request, in loopback
\* mode carries a pending frame to a free receive buffer, and is woken by the bus.

ChipMode ==
    /\ opmod # reqop /\ opmod' = reqop
    /\ UNCHANGED <<pc, loop, reqop, callVars, chipVars>>

\* A frame goes to RXB0, or rolls over to RXB1 (BUKT), or is lost.
Arrive(e) ==
    IF \A a \in RxBuffers : rxb[a] # None
    THEN lost' = lost \cup {e.data} /\ UNCHANGED rxb
    ELSE /\ rxb' = [rxb EXCEPT ![IF rxb[0] = None THEN 0 ELSE 1] = e]
         /\ UNCHANGED lost

ChipSend(b) ==
    /\ opmod = "loopback" /\ req[b]
    /\ req' = [req EXCEPT ![b] = FALSE]
    /\ Arrive(txb[b])
    /\ txb' = [txb EXCEPT ![b] = None]
    /\ UNCHANGED <<pc, modeVars, callVars, n, heard>>

ChipWake ==
    /\ opmod = "sleep" /\ opmod' = "listen" /\ reqop' = "listen"
    /\ UNCHANGED <<pc, loop, callVars, chipVars>>

\* Every frame passes the filters.  Its registers are those the sender's give.
ChipHear(id) ==
    /\ opmod = "listen" /\ n < MaxSends
    /\ n' = n + 1
    /\ heard' = heard \cup {[id |-> id, data |-> n']}
    /\ Arrive([reg |-> convertCANid2Reg(id[2], id[1]), data |-> n'])
    /\ UNCHANGED <<pc, modeVars, callVars, txb, req>>

Chip ==
    \/ ChipMode \/ ChipWake
    \/ \E b \in TxBuffers : ChipSend(b)
    \/ \E id \in Ids : ChipHear(id)

Next == ModeStep \/ Transmit \/ Receive \/ Chip
Spec == Init /\ [][Next]_vars

\* A call that was begun goes on; nobody has to call anything.
CallStep ==
    \/ InitConfigured \/ InitDone \/ SleepDone
    \/ NotYet("cfg", "config") \/ NotYet("lpb", "loopback") \/ NotYet("slp", "sleep")
    \/ TransmitLoad \/ RequestToSend \/ ReceiveRead

\* The calling task runs; the controller transmits, but need not change its mode.
FairSpec ==
    /\ Spec /\ WF_vars(CallStep)
    /\ \A b \in TxBuffers : WF_vars(ChipSend(b))

-----------------------------------------------------------------------------
\* What CANSPI_Receive() returns is a frame that was transmitted or was on the bus,
\* with the type, the identifier and the data it had, whatever arrives while it is
\* read.
Known == accepted \cup heard
ReceivedWasSent == received \subseteq Known

\* A frame that was accepted or heard is in one place: it waits in a transmit buffer,
\* or in a receive buffer, or has been received, or was lost to an overflow.  None
\* is overwritten before it has been sent, none is received twice.
Pending == {txb[b].data : b \in {b \in TxBuffers : req[b]}}
Arrived == {rxb[b].data : b \in {b \in RxBuffers : rxb[b] # None}}
InOnePlace ==
    \A f \in Known :
        /\ f.data \in Pending \cup Arrived \cup lost \cup {g.data : g \in received}
        /\ f.data \notin Pending \/ f.data \notin Arrived \cup {g.data : g \in received}
        /\ f.data \notin Arrived \/ f.data \notin {g.data : g \in received}

\* Every accepted frame reaches a receive buffer or is lost to an overflow, unless
\* the controller is taken out of loopback mode while the frame is pending
\* (CANSPI_Sleep() and CANSPI_Initialize() do not look for pending frames).
AllSent ==
    \A d \in Data : (\E f \in accepted : f.data = d) ~>
                    \/ d \in Arrived \cup lost \cup {g.data : g \in received}
                    \/ opmod # "loopback"

\* Every call returns, also when the controller never reaches the mode it was asked
\* for, or leaves it again: each loop ends after MaxLoop readings.
CallsReturn == pc # "ready" ~> pc = "ready"

=============================================================================
