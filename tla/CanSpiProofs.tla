---------------------------- MODULE CanSpiProofs ----------------------------
(***************************************************************************)
(* Theorems about CanSpi: the conversion of identifiers for all of them,   *)
(* and that the driver delivers what was sent, for every number of frames. *)
(***************************************************************************)
EXTENDS CanSpi, TLAPS

\* Eleven bits survive the way through the registers, and so does the type.
LEMMA StandardRoundTrip ==
    ASSUME NEW id \in 0..(2^11 - 1)
    PROVE  LET g == convertCANid2Reg(id, dSTANDARD)
           IN  Decode(msgType(g), g) = <<dSTANDARD, id>>
  BY DEF convertCANid2Reg, Decode, msgType, convertReg2StandardCANid, Reg,
         dSTANDARD, dEXTENDED

\* Twenty-nine bits do too.
LEMMA ExtendedRoundTrip ==
    ASSUME NEW id \in 0..(2^29 - 1)
    PROVE  LET g == convertCANid2Reg(id, dEXTENDED)
           IN  Decode(msgType(g), g) = <<dEXTENDED, id>>
  BY DEF convertCANid2Reg, Decode, msgType, convertReg2ExtendedCANid, Reg,
         dSTANDARD, dEXTENDED

\* An identifier of one type is a pair of the type and a number.
LEMMA PairWith ==
    ASSUME NEW D, NEW S, NEW i \in {D} \X S
    PROVE  \E id \in S : i = <<D, id>>
  OBVIOUS

\* convertCANid2Reg() loses nothing: the receiver gets back the identifier and
\* its type, for every identifier of 11 and of 29 bits.
THEOREM RoundTrip ==
    ASSUME NEW i \in ValidIds
    PROVE  LET g == convertCANid2Reg(i[2], i[1])
           IN  Decode(msgType(g), g) = i
  <1>1. \/ \E id \in 0..(2^11 - 1) : i = <<dSTANDARD, id>>
        \/ \E id \in 0..(2^29 - 1) : i = <<dEXTENDED, id>>
    <2> DEFINE S11 == 0..(2^11 - 1)
               S29 == 0..(2^29 - 1)
    <2>1. i \in {dSTANDARD} \X S11 \/ i \in {dEXTENDED} \X S29
      BY Zenon DEF ValidIds
    <2> HIDE DEF S11, S29
    <2>2. (\E id \in S11 : i = <<dSTANDARD, id>>) \/ (\E id \in S29 : i = <<dEXTENDED, id>>)
      BY <2>1, PairWith
    <2>3. QED
      BY Zenon, <2>2 DEF S11, S29
  <1>2. ASSUME NEW id \in 0..(2^11 - 1), i = <<dSTANDARD, id>>
        PROVE  LET g == convertCANid2Reg(i[2], i[1]) IN Decode(msgType(g), g) = i
    <2>1. i[1] = dSTANDARD /\ i[2] = id
      BY <1>2
    <2>2. QED
      BY Zenon, <1>2, <2>1, StandardRoundTrip
  <1>3. ASSUME NEW id \in 0..(2^29 - 1), i = <<dEXTENDED, id>>
        PROVE  LET g == convertCANid2Reg(i[2], i[1]) IN Decode(msgType(g), g) = i
    <2>1. i[1] = dEXTENDED /\ i[2] = id
      BY <1>3
    <2>2. QED
      BY Zenon, <1>3, <2>1, ExtendedRoundTrip
  <1>4. QED
    BY <1>1, <1>2, <1>3

-----------------------------------------------------------------------------
\* What a buffer holds for a frame.
Encode(f) == [reg |-> convertCANid2Reg(f.id[2], f.id[1]), data |-> f.data]
AnyFrame == [id : Ids, data : Nat \ {0}]
Carries(e) == \E f \in Known : e = Encode(f)

\* Buffers hold frames that were accepted or heard; the buffer that is being loaded has no
\* pending transmission; the buffer to be read is full, and of the type noted.
CarryInv ==
    /\ req \in [TxBuffers -> BOOLEAN]
    /\ txb = [b \in TxBuffers |-> txb[b]] /\ rxb = [b \in RxBuffers |-> rxb[b]]
    /\ sel \in 0..2 /\ n \in Nat
    /\ Known \subseteq AnyFrame /\ received \subseteq Known
    /\ pc \in {"load", "rts"} => frame \in AnyFrame /\ ~req[sel]
    /\ pc = "rts" => txb[sel] = Encode(frame)
    /\ \A b \in TxBuffers : req[b] => Carries(txb[b])
    /\ \A b \in RxBuffers : rxb[b] # None => Carries(rxb[b])
    /\ pc = "read" => /\ sel \in RxBuffers /\ rxb[sel] # None
                      /\ type = msgType(rxb[sel].reg)

\* No frame looks like an empty buffer.
LEMMA FrameIsNotNone ==
    ASSUME NEW f \in AnyFrame
    PROVE  Encode(f) # None
  BY DEF AnyFrame, Encode, None

\* Reading the registers of a frame gives the frame.
LEMMA DecodeEncode ==
    ASSUME NEW f \in AnyFrame
    PROVE  [id |-> Decode(msgType(Encode(f).reg), Encode(f).reg),
            data |-> Encode(f).data] = f
  <1>1. f = [id |-> f.id, data |-> f.data] /\ f.id \in ValidIds
    BY CanAssumption DEF AnyFrame
  <1>2. Decode(msgType(Encode(f).reg), Encode(f).reg) = f.id
    BY <1>1, RoundTrip DEF Encode
  <1>3. QED
    BY <1>1, <1>2 DEF Encode

\* The buffer that CANSPI_Transmit() chooses has no pending transmission.
LEMMA FirstFreeIsFree ==
    ASSUME req \in [TxBuffers -> BOOLEAN], NEW c \in TxBuffers, ~req[c]
    PROVE  FirstFree \in TxBuffers /\ ~req[FirstFree]
  <1> DEFINE P(b) == ~req[b] /\ \A a \in 0..(b - 1) : req[a]
  <1>1. \E b \in TxBuffers : P(b)
    <2>1. CASE ~req[0]
      <3>1. P(0)
        BY <2>1
      <3>2. QED
        BY <3>1 DEF TxBuffers
    <2>2. CASE req[0] /\ ~req[1]
      <3>1. P(1)
        BY <2>2
      <3>2. QED
        BY <3>1 DEF TxBuffers
    <2>3. CASE req[0] /\ req[1]
      <3>1. c = 2
        BY <2>3 DEF TxBuffers
      <3>2. P(2)
        BY <2>3, <3>1
      <3>3. QED
        BY <3>2 DEF TxBuffers
    <2>4. QED
      BY <2>1, <2>2, <2>3 DEF TxBuffers
  <1>2. FirstFree = CHOOSE b \in TxBuffers : P(b)
    BY DEF FirstFree
  <1> HIDE DEF P
  <1>3. FirstFree \in TxBuffers /\ P(FirstFree)
    BY <1>1, <1>2
  <1>4. QED
    BY <1>3 DEF P

\* Before the controller is set up nothing is carried.
LEMMA CarryInit == Init => CarryInv
  BY DEF Init, CarryInv, AnyFrame, TxBuffers, RxBuffers, Known

\* CANSPI_Transmit() loads a buffer that is not pending, with the frame it was given.
LEMMA CarryTransmit ==
    ASSUME CarryInv, Transmit
    PROVE  CarryInv'
  <1>1. ASSUME NEW id \in Ids, TransmitStatus(id)
        PROVE  CarryInv'
    <2>1. sel' \in TxBuffers /\ ~req[sel']
      BY <1>1, FirstFreeIsFree DEF CarryInv, TransmitStatus
    <2>2. frame' \in AnyFrame
      BY <1>1 DEF CarryInv, TransmitStatus, AnyFrame
    <2>3. QED
      BY <1>1, <2>1, <2>2
      DEF CarryInv, TransmitStatus, modeVars, Carries, Known, TxBuffers
  <1>2. CASE TransmitLoad
    <2>1. sel \in TxBuffers /\ txb'[sel] = Encode(frame)
      BY <1>2 DEF CarryInv, TransmitLoad, TxBuffers, Encode
    <2>2. \A b \in TxBuffers \ {sel} : txb'[b] = txb[b]
      BY <1>2 DEF CarryInv, TransmitLoad
    <2>3. txb' = [b \in TxBuffers |-> txb'[b]]
      BY <1>2 DEF CarryInv, TransmitLoad
    <2>4. QED
      BY <1>2, <2>1, <2>2, <2>3
      DEF CarryInv, TransmitLoad, modeVars, callVars, Carries, Known
  <1>3. CASE RequestToSend
    <2>1. /\ sel \in TxBuffers /\ frame \in Known' /\ Known \subseteq Known'
          /\ Known' \subseteq AnyFrame
      BY <1>3 DEF CarryInv, RequestToSend, TxBuffers, Known
    <2>2. \A e : Carries(e) => Carries(e)'
      BY <2>1 DEF Carries, Encode
    <2>3. \A b \in TxBuffers : req'[b] => b = sel \/ req[b]
      BY <1>3 DEF CarryInv, RequestToSend
    <2>4. \A b \in TxBuffers : req'[b] => Carries(txb[b])'
      BY <1>3, <2>1, <2>2, <2>3 DEF CarryInv, RequestToSend, Carries, Encode
    <2>5. \A b \in RxBuffers : rxb[b] # None => Carries(rxb[b])'
      BY <1>3, <2>2 DEF CarryInv, RequestToSend, Carries, Encode
    <2>6. QED
      BY <1>3, <2>1, <2>4, <2>5 DEF CarryInv, RequestToSend, modeVars
  <1>4. CASE TransmitFull
    BY <1>4 DEF TransmitFull, CarryInv, vars, callVars, chipVars, Carries, Known
  <1>5. QED
    BY <1>1, <1>2, <1>3, <1>4 DEF Transmit

\* CANSPI_Receive() reads the buffer and the type that the status told.
LEMMA CarryReceive ==
    ASSUME CarryInv, Receive
    PROVE  CarryInv'
  <1>1. CASE ReceiveStatus
    BY <1>1 DEF CarryInv, ReceiveStatus, modeVars, chipVars, Carries, Known, RxBuffers
  <1>2. CASE ReceiveRead
    <2>1. PICK f \in Known : rxb[sel] = Encode(f)
      BY <1>2 DEF CarryInv, ReceiveRead, Carries
    <2>2. f \in AnyFrame /\ type = msgType(Encode(f).reg)
      BY <1>2, <2>1 DEF CarryInv, ReceiveRead
    <2>3. received' = received \cup {f}
      BY <1>2, <2>1, <2>2, DecodeEncode DEF ReceiveRead
    <2>4. \A b \in RxBuffers : rxb'[b] # None => rxb'[b] = rxb[b]
      BY <1>2 DEF CarryInv, ReceiveRead
    <2>5. rxb' = [b \in RxBuffers |-> rxb'[b]]
      BY <1>2 DEF CarryInv, ReceiveRead
    <2>6. QED
      BY <1>2, <2>1, <2>3, <2>4, <2>5 DEF CarryInv, ReceiveRead, modeVars, Carries, Known
  <1>3. QED
    BY <1>1, <1>2 DEF Receive

\* What arrives goes into an empty buffer, or into none.
LEMMA ArriveWhere ==
    ASSUME rxb = [b \in RxBuffers |-> rxb[b]], NEW e, Arrive(e)
    PROVE  /\ rxb' = [a \in RxBuffers |-> rxb'[a]]
           /\ \A a \in RxBuffers : rxb'[a] = rxb[a] \/ rxb'[a] = e
           /\ \A a \in RxBuffers : rxb[a] # None => rxb'[a] = rxb[a]
  BY DEF Arrive, RxBuffers

\* The controller moves frames without changing them, never into a full buffer.
LEMMA CarryChip ==
    ASSUME CarryInv, Chip
    PROVE  CarryInv'
  <1>1. CASE ChipMode \/ ChipWake
    BY <1>1 DEF CarryInv, ChipMode, ChipWake, callVars, chipVars, Carries, Known
  <1>2. ASSUME NEW b \in TxBuffers, ChipSend(b)
        PROVE  CarryInv'
    <2>1. \A a \in TxBuffers : req'[a] => req[a] /\ txb'[a] = txb[a]
      BY <1>2 DEF CarryInv, ChipSend
    <2>2. req' \in [TxBuffers -> BOOLEAN] /\ txb' = [a \in TxBuffers |-> txb'[a]]
      BY <1>2 DEF CarryInv, ChipSend
    <2>3. /\ rxb' = [a \in RxBuffers |-> rxb'[a]]
          /\ \A a \in RxBuffers : rxb'[a] = rxb[a] \/ rxb'[a] = txb[b]
          /\ \A a \in RxBuffers : rxb[a] # None => rxb'[a] = rxb[a]
      BY <1>2, ArriveWhere DEF CarryInv, ChipSend
    <2>4. Carries(txb[b])
      BY <1>2 DEF CarryInv, ChipSend
    <2>5. pc \in {"load", "rts"} => ~req[sel] /\ ~req'[sel] /\ b # sel /\ txb'[sel] = txb[sel]
      BY <1>2, <2>1 DEF CarryInv, ChipSend, TxBuffers
    <2>6. QED
      BY <1>2, <2>1, <2>2, <2>3, <2>4, <2>5
      DEF CarryInv, ChipSend, modeVars, callVars, Carries, Known
  <1>3. ASSUME NEW id \in Ids, ChipHear(id)
        PROVE  CarryInv'
    <2>1. n \in Nat /\ n' \in Nat /\ [id |-> id, data |-> n'] \in AnyFrame
      BY <1>3 DEF CarryInv, ChipHear, AnyFrame
    <2>2. PICK f \in AnyFrame : f = [id |-> id, data |-> n']
      BY <2>1
    <2>3. Known' = Known \cup {f}
      BY <1>3, <2>2 DEF ChipHear, Known, callVars
    <2>4. PICK e : e = Encode(f)
      OBVIOUS
    <2>5. Arrive(e)
      BY <1>3, <2>2, <2>4 DEF ChipHear, Encode
    <2>6. /\ rxb' = [a \in RxBuffers |-> rxb'[a]]
          /\ \A a \in RxBuffers : rxb'[a] = rxb[a] \/ rxb'[a] = e
          /\ \A a \in RxBuffers : rxb[a] # None => rxb'[a] = rxb[a]
      BY <2>5, ArriveWhere DEF CarryInv
    <2>7. \A x : Carries(x) => \E g \in Known' : x = Encode(g)
      BY <2>3 DEF Carries
    <2>8. \E g \in Known' : e = Encode(g)
      BY <2>3, <2>4
    <2>9. \A a \in TxBuffers : req'[a] => \E g \in Known' : txb'[a] = Encode(g)
      BY <1>3, <2>7 DEF CarryInv, ChipHear
    <2>10. \A a \in RxBuffers : rxb'[a] # None => \E g \in Known' : rxb'[a] = Encode(g)
      BY <2>6, <2>7, <2>8 DEF CarryInv
    <2>11. Known' \subseteq AnyFrame /\ received' \subseteq Known'
      BY <1>3, <2>3 DEF CarryInv, ChipHear, callVars
    <2>12. QED
      BY <1>3, <2>1, <2>6, <2>9, <2>10, <2>11
      DEF CarryInv, ChipHear, modeVars, callVars, Carries, Encode
  <1>4. QED
    BY <1>1, <1>2, <1>3 DEF Chip

\* The functions that set the mode touch no buffer.
LEMMA ModeAlone ==
    ASSUME ModeStep
    PROVE  UNCHANGED <<callVars, chipVars>> /\ pc' \notin {"load", "rts", "read"}
  <1>1. \/ InitStart \/ InitNoSpi \/ Sleep \/ InitConfigured \/ InitDone \/ SleepDone
        \/ NotYet("cfg", "config") \/ NotYet("lpb", "loopback") \/ NotYet("slp", "sleep")
    BY Zenon DEF ModeStep
  <1>2. QED
    BY <1>1 DEF InitStart, InitNoSpi, InitConfigured, InitDone, NotYet, Sleep, SleepDone,
       Request, Reading, vars

\* Changing the mode leaves every buffer alone.
LEMMA CarryMode ==
    ASSUME CarryInv, ModeStep
    PROVE  CarryInv'
  <1>1. UNCHANGED <<callVars, chipVars>> /\ pc' \notin {"load", "rts", "read"}
    BY ModeAlone
  <1>2. QED
    BY <1>1 DEF CarryInv, callVars, chipVars, Carries, Known

\* Every step preserves what the buffers carry.
LEMMA CarryStep ==
    ASSUME CarryInv, [Next]_vars
    PROVE  CarryInv'
  <1>1. CASE UNCHANGED vars
    BY <1>1 DEF CarryInv, vars, callVars, chipVars, Carries, Known
  <1>2. QED
    BY <1>1, CarryTransmit, CarryReceive, CarryChip, CarryMode DEF Next

\* What CANSPI_Receive() hands out was accepted by CANSPI_Transmit() or was on the
\* bus, with the same type, identifier and data, however the controller's steps fall between
\* the transfers of the driver.
THEOREM DeliversWhatWasSent == Spec => []ReceivedWasSent
  <1>1. CarryInv => ReceivedWasSent
    BY DEF CarryInv, ReceivedWasSent
  <1>2. QED
    BY CarryInit, CarryStep, <1>1, PTL DEF Spec

-----------------------------------------------------------------------------
(***************************************************************************)
(* Types: what the registers can hold, and the countdown of CANSTAT.       *)
(***************************************************************************)

\* Each of the four registers is a byte.
LEMMA RegsAreBytes ==
    ASSUME NEW i \in ValidIds
    PROVE  convertCANid2Reg(i[2], i[1]) \in Regs
  <1>1. i[2] \in Nat
    <2>1. \A x \in 0..(2^11 - 1) : x \in Nat
      OBVIOUS
    <2>2. \A x \in 0..(2^29 - 1) : x \in Nat
      OBVIOUS
    <2> DEFINE S11 == 0..(2^11 - 1)
               S29 == 0..(2^29 - 1)
    <2>3. i \in {dSTANDARD} \X S11 \/ i \in {dEXTENDED} \X S29
      BY Zenon DEF ValidIds
    <2>4. (\A x \in S11 : x \in Nat) /\ (\A x \in S29 : x \in Nat)
      BY <2>1, <2>2
    <2> HIDE DEF S11, S29
    <2>5. QED
      BY <2>3, <2>4
  <1>2. ASSUME NEW id \in Nat, NEW t
        PROVE  convertCANid2Reg(id, t) \in Regs
    <2>1. /\ ((id * 32) \div 2^8) % 256 \in Bytes /\ (id * 32) % 256 \in Bytes
          /\ (id \div 2^8) % 256 \in Bytes /\ id % 256 \in Bytes /\ 0 \in Bytes
      BY DEF Bytes
    <2>2. ASSUME NEW hi \in Nat
          PROVE  /\ ((hi * 8) \div 2^8) % 256 \in Bytes
                 /\ (hi % 4) + (((hi * 8) \div 32) % 8) * 32 + 8 \in Bytes
      BY DEF Bytes
    <2>3. id \div 2^16 \in Nat
      OBVIOUS
    <2>4. /\ (((id \div 2^16) * 8) \div 2^8) % 256 \in Bytes
          /\ ((id \div 2^16) % 4) + ((((id \div 2^16) * 8) \div 32) % 8) * 32 + 8 \in Bytes
      BY <2>2, <2>3
    <2>5. QED
      BY Zenon, <2>1, <2>4 DEF convertCANid2Reg, Reg, Regs
  <1>3. QED
    BY <1>1, <1>2

\* While the mode is awaited there is a reading left; a frame that is being
\* transmitted has a number of its own.
TypeInv ==
    /\ TypeOK
    /\ pc \in {"cfg", "lpb", "slp"} => loop > 0
    /\ pc \in {"load", "rts"} => frame \in Frames

\* None has registers, too.
LEMMA NoneHasRegs == None.reg \in Regs
  BY DEF None, Reg, Regs, Bytes

\* Before the controller is set up.
LEMMA TypeInit == Init => TypeInv
  <1> SUFFICES ASSUME Init PROVE TypeInv
    OBVIOUS
  <1>1. /\ DOMAIN txb = TxBuffers /\ \A b \in TxBuffers : txb[b].reg \in Regs
        /\ DOMAIN rxb = RxBuffers /\ \A b \in RxBuffers : rxb[b].reg \in Regs
    BY NoneHasRegs DEF Init
  <1>2. QED
    BY <1>1, CanAssumption DEF Init, TypeInv, TypeOK, Modes

\* Every step preserves the types.
LEMMA TypeStep ==
    ASSUME TypeInv, CarryInv, [Next]_vars
    PROVE  TypeInv'
  <1>1. CASE ModeStep
    <2>1. UNCHANGED <<callVars, chipVars>> /\ pc' \notin {"load", "rts", "read"}
      BY <1>1, ModeAlone
    <2>2. \/ InitStart \/ InitNoSpi \/ Sleep \/ InitConfigured \/ InitDone \/ SleepDone
          \/ NotYet("cfg", "config") \/ NotYet("lpb", "loopback") \/ NotYet("slp", "sleep")
      BY <1>1, Zenon DEF ModeStep
    <2>3. /\ reqop' \in Modes /\ opmod' \in Modes /\ loop' \in 0..MaxLoop
          /\ pc' \in {"ready", "cfg", "lpb", "slp", "load", "rts", "read"}
          /\ pc' \in {"cfg", "lpb", "slp"} => loop' > 0
      BY <2>2, CanAssumption
      DEF InitStart, InitNoSpi, InitConfigured, InitDone, NotYet, Sleep,
          SleepDone, Request, Reading, TypeInv, TypeOK, Modes, modeVars, vars
    <2>4. QED
      BY <2>1, <2>3 DEF TypeInv, TypeOK, callVars, chipVars
  <1>2. ASSUME NEW id \in Ids, TransmitStatus(id)
        PROVE  TypeInv'
    <2>1. n' \in 1..MaxSends /\ n' \in 0..MaxSends /\ frame' \in Frames
      BY <1>2, CanAssumption DEF TransmitStatus, TypeInv, TypeOK, Frames, Data
    <2>2. sel' \in 0..2 /\ pc' = "load"
      BY <1>2, FirstFreeIsFree DEF TransmitStatus, TypeInv, TypeOK, TxBuffers
    <2>3. QED
      BY <1>2, <2>1, <2>2 DEF TransmitStatus, TypeInv, TypeOK, modeVars
  <1>3. CASE TransmitLoad
    <2>1. frame.id \in ValidIds
      BY <1>3, CanAssumption DEF TransmitLoad, TypeInv, Frames
    <2>2. DOMAIN txb' = TxBuffers /\ \A b \in TxBuffers : txb'[b].reg \in Regs
      BY <1>3, <2>1, RegsAreBytes DEF TransmitLoad, TypeInv, TypeOK, CarryInv
    <2>3. QED
      BY <1>3, <2>2 DEF TransmitLoad, TypeInv, TypeOK, modeVars, callVars
  <1>4. CASE RequestToSend
    <2>1. frame \in Frames /\ sel' = 0 /\ accepted' = accepted \cup {frame}
      BY <1>4 DEF RequestToSend, TypeInv
    <2>2. accepted' \subseteq Frames /\ sel' \in 0..2
      BY <2>1 DEF TypeInv, TypeOK
    <2>3. req' \in [TxBuffers -> BOOLEAN]
      BY <1>4 DEF RequestToSend, TypeInv, TypeOK
    <2>4. QED
      BY <1>4, <2>2, <2>3 DEF RequestToSend, TypeInv, TypeOK, modeVars
  <1>5. CASE ReceiveStatus
    BY <1>5 DEF ReceiveStatus, TypeInv, TypeOK, modeVars, chipVars, msgType, RxBuffers
  <1>6. CASE ReceiveRead
    <2>1. DOMAIN rxb' = RxBuffers /\ \A b \in RxBuffers : rxb'[b].reg \in Regs
      BY <1>6, NoneHasRegs DEF ReceiveRead, TypeInv, TypeOK, CarryInv
    <2>2. QED
      BY <1>6, <2>1 DEF ReceiveRead, TypeInv, TypeOK, modeVars
  <1>7. CASE ChipMode \/ ChipWake
    BY <1>7 DEF ChipMode, ChipWake, TypeInv, TypeOK, callVars, chipVars, Modes
  <1>8. ASSUME NEW b \in TxBuffers, ChipSend(b)
        PROVE  TypeInv'
    <2>1. req' \in [TxBuffers -> BOOLEAN]
      BY <1>8 DEF ChipSend, TypeInv, TypeOK
    <2>2. lost' \subseteq Data
      <3>1. PICK f \in Known : txb[b] = Encode(f)
        BY <1>8 DEF ChipSend, CarryInv, Carries
      <3>2. txb[b].data \in Data
        BY <3>1 DEF Encode, TypeInv, TypeOK, Frames, Known
      <3>3. QED
        BY <1>8, <3>2 DEF ChipSend, Arrive, TypeInv, TypeOK
    <2>3. DOMAIN rxb' = RxBuffers /\ \A a \in RxBuffers : rxb'[a].reg \in Regs
      BY <1>8, ArriveWhere DEF ChipSend, TypeInv, TypeOK, CarryInv
    <2>4. DOMAIN txb' = TxBuffers /\ \A a \in TxBuffers : txb'[a].reg \in Regs
      BY <1>8, NoneHasRegs DEF ChipSend, TypeInv, TypeOK, CarryInv
    <2>5. QED
      BY <1>8, <2>1, <2>2, <2>3, <2>4 DEF ChipSend, TypeInv, TypeOK, modeVars, callVars
  <1>9. ASSUME NEW id \in Ids, ChipHear(id)
        PROVE  TypeInv'
    <2> DEFINE e == [reg |-> convertCANid2Reg(id[2], id[1]), data |-> n']
    <2>1. n' \in Data /\ n' \in 0..MaxSends
      BY <1>9, CanAssumption DEF ChipHear, TypeInv, TypeOK, Data
    <2>2. e.reg \in Regs /\ e.data = n' /\ Arrive(e)
      BY <1>9, RegsAreBytes, CanAssumption DEF ChipHear
    <2> HIDE DEF e
    <2>3. lost' \subseteq Data
      BY <2>1, <2>2 DEF Arrive, TypeInv, TypeOK
    <2>4. DOMAIN rxb' = RxBuffers /\ \A a \in RxBuffers : rxb'[a].reg \in Regs
      BY <2>2, ArriveWhere DEF TypeInv, TypeOK, CarryInv
    <2>5. heard' \subseteq Frames
      BY <1>9, <2>1 DEF ChipHear, TypeInv, TypeOK, Frames
    <2>6. QED
      BY <1>9, <2>1, <2>3, <2>4, <2>5 DEF ChipHear, TypeInv, TypeOK, modeVars, callVars
  <1>10. CASE UNCHANGED vars \/ TransmitFull
    BY <1>10 DEF TransmitFull, TypeInv, TypeOK, vars, modeVars, callVars, chipVars
  <1>11. QED
    BY <1>1, <1>2, <1>3, <1>4, <1>5, <1>6, <1>7, <1>8, <1>9, <1>10
    DEF Next, Transmit, Receive, Chip

\* The driver stops reading CANSTAT before its counter would pass zero, uses
\* no buffer the controller does not have, and writes bytes to its registers.
THEOREM CanTypes == Spec => []TypeOK
  <1>1. TypeInv => TypeOK
    BY DEF TypeInv
  <1>2. QED
    BY CarryInit, CarryStep, TypeInit, TypeStep, <1>1, PTL DEF Spec

-----------------------------------------------------------------------------
(***************************************************************************)
(* No frame is in two places.                                              *)
(***************************************************************************)

Full(b) == rxb[b] # None

Somewhere(d) ==
    \/ \E a \in TxBuffers : req[a] /\ txb[a].data = d
    \/ \E b \in RxBuffers : Full(b) /\ rxb[b].data = d
    \/ d \in lost
    \/ \E g \in received : g.data = d

\* The frame that is being transmitted has another number than all that were
\* accepted or heard.
Fresh ==
    /\ \A f \in Known : f.data \in 1..n
    /\ pc \in {"load", "rts"} => /\ frame.data \in 1..n
                                 /\ \A f \in Known : f.data # frame.data

\* Two buffers hold different frames, and no buffer holds a received one.
Apart ==
    /\ \A a, b \in TxBuffers : req[a] /\ req[b] /\ txb[a].data = txb[b].data => a = b
    /\ \A a, b \in RxBuffers : Full(a) /\ Full(b) /\ rxb[a].data = rxb[b].data => a = b
    /\ \A a \in TxBuffers, b \in RxBuffers : req[a] /\ Full(b) => txb[a].data # rxb[b].data
    /\ \A a \in TxBuffers, g \in received : req[a] => txb[a].data # g.data
    /\ \A b \in RxBuffers, g \in received : Full(b) => rxb[b].data # g.data

PlaceInv ==
    /\ CarryInv /\ Fresh /\ Apart
    /\ \A f \in Known : Somewhere(f.data)

\* The invariant is what the property says, place by place.
LEMMA PlaceImplies == PlaceInv => InOnePlace
  <1> SUFFICES ASSUME PlaceInv, NEW f \in Known
               PROVE  /\ f.data \in Pending \cup Arrived \cup lost \cup {g.data : g \in received}
                      /\ f.data \notin Pending \/ f.data \notin Arrived \cup {g.data : g \in received}
                      /\ f.data \notin Arrived \/ f.data \notin {g.data : g \in received}
    BY DEF InOnePlace
  <1>1. \A d : d \in Pending <=> \E a \in TxBuffers : req[a] /\ txb[a].data = d
    BY DEF Pending
  <1>2. \A d : d \in Arrived <=> \E b \in RxBuffers : Full(b) /\ rxb[b].data = d
    BY DEF Arrived, Full
  <1>3. Somewhere(f.data) /\ Apart
    BY DEF PlaceInv
  <1>4. QED
    BY <1>1, <1>2, <1>3 DEF Somewhere, Apart

\* The data of what is in a transmit or a receive buffer is that of a known frame.
LEMMA DataAccepted ==
    ASSUME CarryInv
    PROVE  /\ \A a \in TxBuffers : req[a] => \E f \in Known : txb[a].data = f.data
           /\ \A b \in RxBuffers : Full(b) => \E f \in Known : rxb[b].data = f.data
  BY DEF CarryInv, Carries, Encode, Full

\* While a receive buffer is empty, what arrives goes into one and nothing is lost.
LEMMA ArrivePlace ==
    ASSUME rxb = [b \in RxBuffers |-> rxb[b]], NEW e, Arrive(e),
           ~ \A a \in RxBuffers : rxb[a] # None
    PROVE  \E c \in RxBuffers :
              /\ ~Full(c) /\ rxb'[c] = e /\ lost' = lost
              /\ \A a \in RxBuffers : a # c => rxb'[a] = rxb[a]
  BY DEF Arrive, RxBuffers, Full

\* Every step keeps the frames apart, and none gets lost unnoticed.
LEMMA PlaceStep ==
    ASSUME PlaceInv, [Next]_vars
    PROVE  PlaceInv'
  <1>1. CarryInv /\ CarryInv'
    BY CarryStep DEF PlaceInv
  <1>2. CASE ModeStep
    <2>1. UNCHANGED <<callVars, chipVars>> /\ pc' \notin {"load", "rts", "read"}
      BY <1>2, ModeAlone
    <2>2. QED
      BY <1>1, <2>1 DEF PlaceInv, Fresh, Apart, Somewhere, Full, Known, callVars, chipVars
  <1>3. ASSUME NEW id \in Ids, TransmitStatus(id)
        PROVE  PlaceInv'
    <2>1. Fresh'
      BY <1>1, <1>3 DEF TransmitStatus, PlaceInv, Fresh, Known, CarryInv
    <2>2. QED
      BY <1>1, <1>3, <2>1 DEF TransmitStatus, PlaceInv, Apart, Somewhere, Full, Known
  <1>4. CASE TransmitLoad
    <2>1. \A b \in TxBuffers : req[b] => txb'[b] = txb[b]
      BY <1>1, <1>4 DEF TransmitLoad, CarryInv
    <2>2. Fresh'
      BY <1>4 DEF TransmitLoad, PlaceInv, Fresh, Known, callVars
    <2>3. Apart'
      BY <1>4, <2>1 DEF TransmitLoad, PlaceInv, Apart, Full, callVars
    <2>4. \A f \in Known' : Somewhere(f.data)'
      BY <1>4, <2>1 DEF TransmitLoad, PlaceInv, Somewhere, Full, Known, callVars
    <2>5. QED
      BY <1>1, <2>2, <2>3, <2>4 DEF PlaceInv
  <1>5. CASE RequestToSend
    <2>0. PICK d : d = frame.data
      OBVIOUS
    <2>1. /\ sel \in TxBuffers /\ txb[sel].data = d /\ d \in 1..n
          /\ \A f \in Known : f.data # d
          /\ ~req[sel] /\ req'[sel]
      BY <1>1, <1>5, <2>0 DEF RequestToSend, CarryInv, PlaceInv, Fresh, Encode, AnyFrame, TxBuffers
    <2>2. \A b \in TxBuffers : b # sel => req'[b] = req[b]
      BY <1>1, <1>5 DEF RequestToSend, CarryInv
    <2>3. /\ \A b \in RxBuffers : Full(b) => rxb[b].data # d
          /\ \A g \in received : g.data # d
          /\ \A b \in TxBuffers : req[b] => txb[b].data # d
      BY <1>1, <2>1, DataAccepted DEF CarryInv
    <2>4. Known' = Known \cup {frame}
      BY <1>5 DEF RequestToSend, Known
    <2>5. Fresh'
      BY <1>5, <2>0, <2>1, <2>4 DEF RequestToSend, PlaceInv, Fresh
    <2>6. Apart'
      BY <1>5, <2>1, <2>2, <2>3 DEF RequestToSend, PlaceInv, Apart, Full
    <2>7. \A f \in Known : Somewhere(f.data)'
      BY <1>5, <2>1, <2>2 DEF RequestToSend, PlaceInv, Somewhere, Full
    <2>8. Somewhere(d)'
      BY <1>5, <2>1 DEF RequestToSend, Somewhere
    <2>9. QED
      BY <1>1, <2>0, <2>4, <2>5, <2>6, <2>7, <2>8 DEF PlaceInv
  <1>6. CASE ReceiveStatus
    BY <1>1, <1>6 DEF ReceiveStatus, PlaceInv, Fresh, Apart, Somewhere, Full, Known, chipVars
  <1>7. CASE ReceiveRead
    <2>1. PICK f \in Known : rxb[sel] = Encode(f)
      BY <1>1, <1>7 DEF CarryInv, ReceiveRead, Carries
    <2>2. f \in AnyFrame /\ type = msgType(Encode(f).reg)
      BY <1>1, <1>7, <2>1 DEF CarryInv, ReceiveRead
    <2>3. received' = received \cup {f} /\ rxb[sel].data = f.data
      BY <1>7, <2>1, <2>2, DecodeEncode DEF ReceiveRead, Encode
    <2>4. /\ sel \in RxBuffers /\ Full(sel) /\ rxb'[sel] = None
          /\ \A b \in RxBuffers : b # sel => rxb'[b] = rxb[b]
      BY <1>1, <1>7 DEF CarryInv, ReceiveRead, Full
    <2>5. \A b \in RxBuffers : Full(b)' => b # sel /\ Full(b) /\ rxb'[b] = rxb[b]
      BY <2>4 DEF Full
    <2>6. Fresh'
      BY <1>7 DEF ReceiveRead, PlaceInv, Fresh, Known
    <2>7. Apart'
      BY <1>7, <2>3, <2>4, <2>5 DEF ReceiveRead, PlaceInv, Apart
    <2>8. ASSUME NEW g \in Known PROVE Somewhere(g.data)'
      BY <1>7, <2>3, <2>4 DEF ReceiveRead, PlaceInv, Somewhere, Full
    <2>9. QED
      BY <1>1, <1>7, <2>6, <2>7, <2>8 DEF PlaceInv, ReceiveRead, Known
  <1>8. CASE ChipMode \/ ChipWake
    BY <1>1, <1>8
    DEF ChipMode, ChipWake, PlaceInv, Fresh, Apart, Somewhere, Full, Known, callVars, chipVars
  <1>9. ASSUME NEW b \in TxBuffers, ChipSend(b)
        PROVE  PlaceInv'
    <2>1. /\ req[b] /\ ~req'[b]
          /\ \A a \in TxBuffers : a # b => req'[a] = req[a] /\ txb'[a] = txb[a]
      BY <1>1, <1>9 DEF ChipSend, CarryInv
    <2>2. UNCHANGED <<pc, frame, n, received, accepted, heard>>
      BY <1>9 DEF ChipSend, callVars
    <2>3. Fresh'
      BY <2>2 DEF PlaceInv, Fresh, Known
    <2>4. CASE \A a \in RxBuffers : rxb[a] # None
      <3>1. lost' = lost \cup {txb[b].data} /\ rxb' = rxb
        BY <1>9, <2>4 DEF ChipSend, Arrive
      <3>2. Apart'
        BY <2>1, <2>2, <3>1 DEF PlaceInv, Apart, Full
      <3>3. \A f \in Known' : Somewhere(f.data)'
        BY <2>1, <2>2, <3>1 DEF PlaceInv, Somewhere, Full, Known
      <3>4. QED
        BY <1>1, <2>3, <3>2, <3>3 DEF PlaceInv
    <2>5. CASE ~ \A a \in RxBuffers : rxb[a] # None
      <3>1. PICK c \in RxBuffers :
              /\ ~Full(c) /\ rxb'[c] = txb[b] /\ lost' = lost
              /\ \A a \in RxBuffers : a # c => rxb'[a] = rxb[a]
        BY <1>1, <1>9, <2>5, ArrivePlace DEF ChipSend, CarryInv
      <3>2. Full(c)'
        <4>1. PICK f \in Known : txb[b] = Encode(f)
          BY <1>1, <2>1 DEF CarryInv, Carries
        <4>2. txb[b] # None
          BY <1>1, <4>1, FrameIsNotNone DEF CarryInv
        <4>3. QED
          BY <3>1, <4>2 DEF Full
      <3>3. \A a \in RxBuffers : a # c => (Full(a)' <=> Full(a)) /\ rxb'[a] = rxb[a]
        BY <3>1 DEF Full
      <3>4. Apart'
        BY <2>1, <2>2, <3>1, <3>2, <3>3 DEF PlaceInv, Apart
      <3>5. \A f \in Known' : Somewhere(f.data)'
        BY <2>1, <2>2, <3>1, <3>2, <3>3 DEF PlaceInv, Somewhere, Known
      <3>6. QED
        BY <1>1, <2>3, <3>4, <3>5 DEF PlaceInv
    <2>6. QED
      BY <2>4, <2>5
  <1>10. ASSUME NEW id \in Ids, ChipHear(id)
         PROVE  PlaceInv'
    <2>0. PICK d, e, h : d = n' /\ h = [id |-> id, data |-> d] /\ e = Encode(h)
      OBVIOUS
    <2>1. /\ n \in Nat /\ d = n + 1 /\ n' = d /\ e.data = d /\ h.data = d
          /\ UNCHANGED <<pc, frame, received, accepted, txb, req>> /\ Arrive(e)
          /\ Known' = Known \cup {h}
      BY <1>1, <1>10, <2>0 DEF ChipHear, CarryInv, callVars, Encode, Known
    <2>2. e # None
      BY <2>1 DEF None
    <2>3. \A f \in Known : f.data \in 1..n /\ f.data # d
      BY <2>1 DEF PlaceInv, Fresh
    <2>4. /\ \A b \in RxBuffers : Full(b) => rxb[b].data # d
          /\ \A g \in received : g.data # d
          /\ \A b \in TxBuffers : req[b] => txb[b].data # d
      BY <1>1, <2>3, DataAccepted DEF CarryInv
    <2>5. Fresh'
      BY <2>1, <2>3 DEF PlaceInv, Fresh
    <2>6. CASE \A a \in RxBuffers : rxb[a] # None
      <3>1. lost' = lost \cup {d} /\ rxb' = rxb
        BY <2>1, <2>6 DEF Arrive
      <3>2. Apart'
        BY <2>1, <3>1 DEF PlaceInv, Apart, Full
      <3>3. \A f \in Known : Somewhere(f.data)'
        BY <2>1, <3>1 DEF PlaceInv, Somewhere, Full
      <3>4. Somewhere(d)'
        BY <3>1 DEF Somewhere
      <3>5. QED
        BY <1>1, <2>1, <2>5, <3>2, <3>3, <3>4 DEF PlaceInv
    <2>7. CASE ~ \A a \in RxBuffers : rxb[a] # None
      <3>1. PICK c \in RxBuffers :
              /\ ~Full(c) /\ rxb'[c] = e /\ lost' = lost
              /\ \A a \in RxBuffers : a # c => rxb'[a] = rxb[a]
        BY <1>1, <2>1, <2>7, ArrivePlace DEF CarryInv
      <3>2. Full(c)' /\ rxb'[c].data = d
        BY <2>1, <2>2, <3>1 DEF Full
      <3>3. \A a \in RxBuffers : a # c => (Full(a)' <=> Full(a)) /\ rxb'[a] = rxb[a]
        BY <3>1 DEF Full
      <3>4. Apart'
        BY <2>1, <2>4, <3>1, <3>2, <3>3 DEF PlaceInv, Apart
      <3>5. \A f \in Known : Somewhere(f.data)'
        BY <2>1, <3>1, <3>2, <3>3 DEF PlaceInv, Somewhere
      <3>6. Somewhere(d)'
        BY <3>2 DEF Somewhere
      <3>7. QED
        BY <1>1, <2>1, <2>5, <3>4, <3>5, <3>6 DEF PlaceInv
    <2>8. QED
      BY <2>6, <2>7
  <1>11. CASE UNCHANGED vars \/ TransmitFull
    BY <1>1, <1>11
    DEF TransmitFull, PlaceInv, Fresh, Apart, Somewhere, Full, Known, vars, callVars, chipVars
  <1>12. QED
    BY <1>2, <1>3, <1>4, <1>5, <1>6, <1>7, <1>8, <1>9, <1>10, <1>11
    DEF Next, Transmit, Receive, Chip

\* A frame that CANSPI_Transmit() accepted or that came from the bus is in one place: it is never
\* overwritten before it was sent and never received twice, for every number of
\* frames and however the controller's steps fall between the transfers.
THEOREM FramesInOnePlace == Spec => []InOnePlace
  <1>1. Init => PlaceInv
    BY CarryInit DEF Init, PlaceInv, Fresh, Apart, Somewhere, Full, Known
  <1>2. QED
    BY <1>1, PlaceStep, PlaceImplies, PTL DEF Spec

=============================================================================
