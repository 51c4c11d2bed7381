------------------------ MODULE FujiAcSerialLineProofs ------------------------
(***************************************************************************)
(* Proofs about FujiAcSerialLine for every value the user and the remote   *)
(* may set and every way the line cuts a frame.                            *)
(***************************************************************************)
EXTENDS FujiAcSerialLine, FujiAcProtocolHandlerProofs, FujiAcUnitRegistersProofs

\* The payload built from a copy is five bytes.
LEMMA StatusPayloadTyped ==
  ASSUME NEW c \in AcStates
  PROVE  StatusPayload(c) \in FiveBytes
<1> DEFINE empty == <<0, 0, 0, 47, 0>>
           start == R!SetFan(R!SetMode(R!SetEnabled(empty, c.enabled), c.mode), c.fan)
           setpoint == IF c.mode = "FAN" THEN start
                       ELSE R!SetTemperature(R!SetEconomy(start, c.economy), c.temperature)
<1>1. /\ c.enabled \in BOOLEAN /\ c.economy \in BOOLEAN
      /\ c.swing \in BOOLEAN /\ c.swingStep \in BOOLEAN
      /\ c.mode \in Modes /\ c.fan \in Fans /\ c.temperature \in Byte
  BY DEF AcStates
<1>2. empty \in FiveBytes
  BY DEF FiveBytes, Byte
<1> HIDE DEF empty
<1>3. start \in FiveBytes
  BY <1>1, <1>2, SettersKeepBytes
<1> HIDE DEF start
<1>4. setpoint \in FiveBytes
  BY <1>1, <1>3, SettersKeepBytes
<1> HIDE DEF setpoint
<1>5. R!SetSwingStep(R!SetSwing(setpoint, c.swing), c.swingStep) \in FiveBytes
  BY <1>1, <1>4, SettersKeepBytes
<1> QED
  BY <1>5 DEF StatusPayload, setpoint, start, empty

\* The handler's answer is a frame, and its address is nobody's the unit uses:
\* read back from the wire it is not taken for a frame of the unit.
LEMMA ReplyBytesTyped ==
  ASSUME HandlerTypeOK, NEW mf \in MasterFrames
  PROVE  ReplyBytes(mf) \in Frames /\ ReplyBytes(mf)[2] % 128 # 32
<1> DEFINE cf == Reply(mf)
           copy == IF mf.type = "LOGIN" THEN acState ELSE Merged(mf)
           asked == WithQueryRegister(EmptyFrame, cf.query)
           login == WithLoginBit(asked, cf.login)
           head == WithWriteBit(login, cf.write)
<1>1. cf.query \in RegisterTypes /\ cf.login \in BOOLEAN /\ cf.write \in BOOLEAN
  BY ReplyTyped DEF ControllerFrames
<1>2. copy \in AcStates
  BY MergedTyped DEF HandlerTypeOK
<1>3. \A v \in BOOLEAN : R!Bit(v) \in 0..1
  BY DEF R!Bit
<1>4. EmptyFrame \in Frames /\ EmptyFrame[2] = 129
  BY SMTT(20) DEF EmptyFrame, Frames, Byte
<1>5. asked \in Frames /\ asked[2] = 129
  <2>1. R!WithBits(EmptyFrame[3], 16, 4, RegisterCode[cf.query]) \in Byte
    BY <1>1, <1>4, CodesFit, FieldsFit, ByteTyped
  <2> QED
    BY <1>4, <2>1, ByteTyped DEF WithQueryRegister, Frames
<1>6. login \in Frames /\ login[2] \in {129, 161}
  <2>1. R!Bit(cf.login) \in 0..1
    BY <1>1, <1>3
  <2>2. R!WithBits(129, 32, 2, R!Bit(cf.login)) \in {129, 161}
    BY <2>1 DEF R!WithBits, R!Bits
  <2>3. 129 \in Byte /\ 161 \in Byte
    BY DEF Byte
  <2> HIDE DEF asked
  <2> QED
    BY <1>5, <2>2, <2>3, ByteTyped DEF WithLoginBit, Frames
<1>7. head \in Frames /\ head[2] \in {129, 161}
  <2>1. R!Bit(cf.write) \in 0..1
    BY <1>1, <1>3
  <2> HIDE DEF login
  <2>2. R!WithBits(login[3], 8, 2, R!Bit(cf.write)) \in Byte
    BY <1>6, <2>1, FieldsFit, ByteTyped
  <2> QED
    BY <1>6, <2>2, ByteTyped DEF WithWriteBit, Frames
<1>8. /\ WithPayload(head, StatusPayload(copy)) \in Frames
      /\ WithPayload(head, StatusPayload(copy))[2] = head[2]
  BY <1>2, <1>7, StatusPayloadTyped, WithPayloadTyped
<1>9. ReplyBytes(mf) = IF cf.query = "STATUS" THEN WithPayload(head, StatusPayload(copy)) ELSE head
  BY DEF ReplyBytes
<1> HIDE DEF head
<1> QED
  BY <1>7, <1>8, <1>9

-----------------------------------------------------------------------------
(***************************************************************************)
(* Types.  TypeInv adds to LineTypeOK that a frame is in hand while the    *)
(* loop handles it.                                                        *)
(***************************************************************************)
TypeInv == LineTypeOK /\ (loop = "handle" => inbox \in Frames)

HandleStep(mf) ==
  \/ ~Replies(mf) /\ HandleInbox(mf) /\ UNCHANGED <<unitVars, wire>>
  \/ \E f \in {ReplyBytes(mf)} :
       /\ Replies(mf) /\ HandleInbox(mf)
       /\ PushControllerFrame(f) \/ UNCHANGED unitVars
       /\ wire' = IF Echo THEN wire \o Inverted(f) ELSE wire

\* The start is typed.
LEMMA InitTyped == Init => TypeInv
<1> SUFFICES ASSUME Init PROVE TypeInv
  OBVIOUS
<1>1. HandlerTypeOK
  BY InitialCopyTyped DEF Init, HandlerInit, HandlerTypeOK
<1>2. statusRegister \in Frames /\ nextQuery \in RegisterTypes
  BY DEF Init, UnitInit, Frames, Byte, RegisterTypes
<1>3. wire \in Seq(Byte) /\ rx \in Seq(Byte)
  BY EmptySeq DEF Init
<1> QED
  BY <1>1, <1>2, <1>3 DEF Init, TypeInv, LineTypeOK

\* Bytes moved or cut off are bytes.
LEMMA SubSeqTyped ==
  ASSUME NEW s \in Seq(Byte), NEW m \in 1..Len(s) + 1, NEW n \in Nat, n <= Len(s)
  PROVE  /\ SubSeq(s, m, n) \in Seq(Byte)
         /\ Len(SubSeq(s, m, n)) = IF m <= n THEN n - m + 1 ELSE 0
         /\ \A i \in 1..n - m + 1 : SubSeq(s, m, n)[i] = s[m + i - 1]
<1>1. Len(s) \in Nat /\ m \in Int /\ n \in Int
  BY LenProperties
<1>2. \A i \in m..n : s[i] \in Byte
  BY <1>1, ElementOfSeq
<1> QED
  BY <1>1, <1>2, SubSeqProperties

\* The first eight bytes of the buffer, inverted, are a frame.
LEMMA ReadTyped ==
  ASSUME rx \in Seq(Byte), Len(rx) >= 8
  PROVE  /\ Inverted(SubSeq(rx, 1, 8)) \in Frames
         /\ \A i \in 1..8 : Inverted(SubSeq(rx, 1, 8))[i] = 255 - rx[i]
<1> DEFINE read == SubSeq(rx, 1, 8)
<1>1. Len(rx) \in Nat
  BY LenProperties
<1>2. read \in Seq(Byte) /\ Len(read) = 8 /\ \A i \in 1..8 : read[i] = rx[i]
  BY <1>1, SubSeqTyped
<1> HIDE DEF read
<1>3. read \in Frames
  BY <1>2, LenProperties DEF Frames
<1>4. Inverted(read) \in Frames /\ \A i \in 1..8 : Inverted(read)[i] = 255 - read[i]
  BY <1>3, InvertedTyped
<1> QED
  BY <1>2, <1>4 DEF read

\* What HandleWithoutReply and HandleAndReply do to the frame in hand.
LEMMA HandleSteps ==
  ASSUME HandleWithoutReply \/ HandleAndReply
  PROVE  loop = "handle" /\ HandleStep(MasterFrame(inbox))
BY DEF HandleWithoutReply, HandleAndReply, HandleStep

\* Handling a frame keeps the types.
LEMMA HandleStepTyped ==
  ASSUME TypeInv, loop = "handle", HandleStep(MasterFrame(inbox))
  PROVE  TypeInv'
<1> DEFINE mf == MasterFrame(inbox)
<1>1. mf \in MasterFrames
  BY MasterFrameTyped DEF TypeInv
<1> HIDE DEF mf
<1>2. HandleStep(mf) /\ HandlerTypeOK
  BY DEF mf, TypeInv, LineTypeOK
<1>3. HandlerTypeOK' /\ loop' = "read" /\ inbox' = <<>> /\ UNCHANGED <<rx, lastSent>>
  BY <1>1, <1>2, HandleTyped DEF HandleStep, HandleInbox
<1>4. CASE UNCHANGED <<unitVars, wire>>
  BY <1>3, <1>4 DEF TypeInv, LineTypeOK, unitVars
<1>5. ASSUME NEW f \in {ReplyBytes(mf)}, PushControllerFrame(f) \/ UNCHANGED unitVars,
             wire' = IF Echo THEN wire \o Inverted(f) ELSE wire
      PROVE  TypeInv'
  <2>1. f \in Frames
    BY <1>1, <1>2, ReplyBytesTyped
  <2>2. UnitBytesOK
    BY DEF TypeInv, LineTypeOK, UnitBytesOK
  <2>3. UnitBytesOK'
    BY <1>5, <2>1, <2>2, UnitPushKeeps DEF UnitBytesOK, unitVars
  <2>4. wire \in Seq(Byte) /\ Inverted(f) \in Seq(Byte)
    BY <2>1, InvertedTyped DEF TypeInv, LineTypeOK
  <2>5. wire' \in Seq(Byte)
    BY <1>5, <2>4, ConcatProperties
  <2> QED
    BY <1>3, <2>3, <2>5 DEF TypeInv, LineTypeOK, UnitBytesOK
<1> QED
  BY <1>2, <1>4, <1>5 DEF HandleStep

\* So does what moves bytes between unit, wire and buffer.
LEMMA LineStepTyped ==
  ASSUME TypeInv,
         \/ UnitSends \/ DeliverSome \/ Lose \/ ReadMasterFrame \/ SkipIncomplete
  PROVE  TypeInv'
<1>1. wire \in Seq(Byte) /\ rx \in Seq(Byte) /\ Len(wire) \in Nat /\ Len(rx) \in Nat
  BY LenProperties DEF TypeInv, LineTypeOK
<1>2. CASE UnitSends
  <2>1. UnitBytesOK
    BY DEF TypeInv, LineTypeOK, UnitBytesOK
  <2>2. UnitBytesOK' /\ NextFrame \in Frames /\ Inverted(NextFrame) \in Seq(Byte)
    BY <1>2, <2>1, UnitSendKeeps, NextFrameTyped, InvertedTyped DEF UnitSends
  <2> QED
    BY <1>2, <2>2 DEF UnitSends, handlerVars, TypeInv, LineTypeOK, HandlerTypeOK, UnitBytesOK
<1>3. CASE DeliverSome
  <2>1. PICK n \in Chunks : Deliver(n)
    BY <1>3 DEF DeliverSome
  <2>2. n \in 1..8 /\ n <= Len(wire)
    BY <2>1, SerialAssumption DEF SerialAssumption, Deliver
  <2>3. SubSeq(wire, 1, n) \in Seq(Byte) /\ SubSeq(wire, n + 1, Len(wire)) \in Seq(Byte)
    BY <1>1, <2>2, SubSeqTyped
  <2>4. rx' \in Seq(Byte) /\ wire' \in Seq(Byte)
    BY <1>1, <2>1, <2>3, ConcatProperties DEF Deliver
  <2> QED
    BY <2>1, <2>4 DEF Deliver, handlerVars, unitVars, TypeInv, LineTypeOK, HandlerTypeOK
<1>4. CASE Lose
  <2>1. wire' \in Seq(Byte)
    BY <1>1, <1>4, HeadTailProperties, EmptySeq DEF Lose
  <2> QED
    BY <1>4, <2>1 DEF Lose, handlerVars, unitVars, TypeInv, LineTypeOK, HandlerTypeOK
<1>5. CASE ReadMasterFrame
  <2>1. inbox' \in Frames
    BY <1>1, <1>5, ReadTyped DEF ReadMasterFrame
  <2>2. rx' \in Seq(Byte)
    BY <1>1, <1>5, SubSeqTyped DEF ReadMasterFrame
  <2> QED
    BY <1>5, <2>1, <2>2
       DEF ReadMasterFrame, handlerVars, unitVars, TypeInv, LineTypeOK, HandlerTypeOK
<1>6. CASE SkipIncomplete
  BY <1>6, EmptySeq DEF SkipIncomplete, handlerVars, unitVars, TypeInv, LineTypeOK, HandlerTypeOK
<1> QED
  BY <1>2, <1>3, <1>4, <1>5, <1>6

\* And what user, remote, fault and restart do.
LEMMA WorldStepTyped ==
  ASSUME TypeInv, UserStep \/ RemoteStep \/ UnitFault \/ Restart
  PROVE  TypeInv'
<1>1. UnitBytesOK /\ acState \in AcStates
  BY DEF TypeInv, LineTypeOK, UnitBytesOK, HandlerTypeOK
<1>2. CASE UserStep
  <2>1. PICK setting \in DOMAIN User : \E v \in User[setting] :
               acState' = [acState EXCEPT ![setting] = v, !.merged = FALSE]
    BY <1>2 DEF UserStep
  <2>2. PICK v \in User[setting] :
               acState' = [acState EXCEPT ![setting] = v, !.merged = FALSE]
    BY <2>1
  <2>3. setting \in {"enabled", "mode", "fan", "economy", "temperature", "swing", "swingStep"}
    BY UserAssumption DEF UserAssumption
  <2>4. acState' \in AcStates
    <3>1. CASE setting \in {"enabled", "economy", "swing", "swingStep"}
      <4>1. v \in BOOLEAN
        BY <3>1, UserAssumption DEF UserAssumption
      <4> QED
        BY <1>1, <2>2, <3>1, <4>1 DEF AcStates
    <3>2. CASE setting \in {"mode", "fan", "temperature"}
      BY <1>1, <2>2, <3>2, UserAssumption DEF AcStates, UserAssumption
    <3> QED
      BY <2>3, <3>1, <3>2
  <2> QED
    BY <1>2, <2>4 DEF UserStep, unitVars, lineVars, TypeInv, LineTypeOK, HandlerTypeOK
<1>3. CASE RemoteStep
  <2>1. UnitBytesOK'
    BY <1>1, <1>3, UnitRemoteKeeps DEF RemoteStep
  <2> QED
    BY <1>3, <2>1 DEF RemoteStep, handlerVars, lineVars, TypeInv, LineTypeOK, HandlerTypeOK,
                      UnitBytesOK
<1>4. CASE UnitFault
  <2>1. UnitBytesOK'
    BY <1>1, <1>4, UnitFaultKeeps DEF UnitFault
  <2> QED
    BY <1>4, <2>1 DEF UnitFault, handlerVars, lineVars, TypeInv, LineTypeOK, HandlerTypeOK,
                      UnitBytesOK
<1>5. CASE Restart
  BY <1>5, InitialCopyTyped, EmptySeq
     DEF Restart, unitVars, TypeInv, LineTypeOK, HandlerTypeOK
<1> QED
  BY <1>2, <1>3, <1>4, <1>5

\* Every step keeps the types.
LEMMA StepTyped == TypeInv /\ [Next]_vars => TypeInv'
<1> SUFFICES ASSUME TypeInv, [Next]_vars PROVE TypeInv'
  OBVIOUS
<1>1. CASE HandleWithoutReply \/ HandleAndReply
  BY <1>1, HandleSteps, HandleStepTyped
<1>2. CASE UNCHANGED vars
  BY <1>2 DEF vars, handlerVars, unitVars, lineVars, TypeInv, LineTypeOK, HandlerTypeOK
<1> QED
  BY <1>1, <1>2, LineStepTyped, WorldStepTyped DEF Next

\* TypeInv, on every line.
THEOREM TypeInvHolds == Spec => []TypeInv
BY InitTyped, StepTyped, PTL DEF Spec

\* LineTypeOK: whatever the line does, every byte is a byte, every register eight
\* of them, and the copy has its types.
THEOREM LineTypeCorrect == Spec => []LineTypeOK
<1>1. TypeInv => LineTypeOK
  BY DEF TypeInv
<1> QED
  BY <1>1, TypeInvHolds, PTL

-----------------------------------------------------------------------------
(***************************************************************************)
(* WholeFramesOnly, of a unit that waits for its reader.  At most eight    *)
(* bytes are under way.  When they are eight they are one frame: the last  *)
(* one of the unit, or an echoed reply.                                    *)
(***************************************************************************)
Carried(f) ==
  \A i \in 1..8 : (IF i <= Len(rx) THEN rx[i] ELSE wire[i - Len(rx)]) = 255 - f[i]

OneFrameAtMost == Len(rx) + Len(wire) <= 8

FullMeansFrame ==
  Len(rx) + Len(wire) = 8 =>
    \E f \in Frames : Carried(f) /\ (f[2] % 128 = 32 => f = lastSent)

QuietWhileHandling == loop = "handle" => rx = <<>> /\ wire = <<>>

LineInv ==
  /\ TypeInv
  /\ OneFrameAtMost /\ FullMeansFrame /\ QuietWhileHandling
  /\ WholeFramesOnly

\* Byte 2 alone tells whether the handler takes a frame for its own.
LEMMA AddressedByByte2 ==
  ASSUME NEW f
  PROVE  Addressed(MasterFrame(f)) => f[2] % 128 = 32
<1>1. MasterFrame(f).destination = Destination(f)
  BY DEF MasterFrame
<1>2. Destination(f) = "WIRED_CONTROLLER_ADDR" => f[2] % 128 = 32
  BY DEF Destination
<1> QED
  BY <1>1, <1>2 DEF Addressed

\* A sequence of length zero is empty.
LEMMA LenZero ==
  ASSUME NEW S, NEW s \in Seq(S)
  PROVE  Len(s) \in Nat /\ (Len(s) = 0 <=> s = <<>>)
BY LenProperties, EmptySeq

\* The start: nothing is under way.
LEMMA LineInit == Init => LineInv
<1> SUFFICES ASSUME Init PROVE LineInv
  OBVIOUS
<1>1. Len(rx) = 0 /\ Len(wire) = 0 /\ loop = "read"
  BY EmptySeq DEF Init
<1> QED
  BY <1>1, InitTyped DEF LineInv, OneFrameAtMost, FullMeansFrame, QuietWhileHandling,
                         WholeFramesOnly

\* Sending starts a frame on an empty line.
LEMMA UnitSendsWhole ==
  ASSUME KeepsUp, LineInv, UnitSends
  PROVE  OneFrameAtMost' /\ FullMeansFrame' /\ QuietWhileHandling' /\ WholeFramesOnly'
<1>1. rx = <<>> /\ rx' = <<>> /\ loop' = "read"
  BY DEF UnitSends, CaughtUp
<1>2. NextFrame \in Frames
  BY NextFrameTyped DEF LineInv, TypeInv, LineTypeOK, UnitBytesOK
<1>3. Len(wire') = 8 /\ (\A i \in 1..8 : wire'[i] = 255 - NextFrame[i]) /\ Len(rx') = 0
  BY <1>1, <1>2, InvertedTyped, EmptySeq DEF UnitSends
<1>4. lastSent' = NextFrame
  BY DEF UnitSends
<1>5. \A i \in 1..8 : (IF i <= Len(rx') THEN rx'[i] ELSE wire'[i - Len(rx')]) = 255 - NextFrame[i]
  BY <1>3
<1>6. FullMeansFrame'
  BY <1>2, <1>4, <1>5 DEF FullMeansFrame, Carried
<1> QED
  BY <1>1, <1>3, <1>6 DEF OneFrameAtMost, QuietWhileHandling, WholeFramesOnly

\* Delivering moves bytes from wire to buffer and changes none.
LEMMA DeliverWhole ==
  ASSUME LineInv, NEW n \in Chunks, Deliver(n)
  PROVE  OneFrameAtMost' /\ FullMeansFrame' /\ QuietWhileHandling' /\ WholeFramesOnly'
<1>1. n \in 1..8 /\ n <= Len(wire)
  BY SerialAssumption DEF SerialAssumption, Deliver
<1>2. wire \in Seq(Byte) /\ rx \in Seq(Byte) /\ Len(wire) \in Nat /\ Len(rx) \in Nat
  BY LenProperties DEF LineInv, TypeInv, LineTypeOK
<1> DEFINE chunk == SubSeq(wire, 1, n)
<1>3. /\ chunk \in Seq(Byte) /\ Len(chunk) = n
      /\ \A i \in 1..n : chunk[i] = wire[i]
  BY <1>1, <1>2, SubSeqTyped
<1>4. rx' = rx \o chunk
  BY DEF Deliver
<1> HIDE DEF chunk
<1>5. /\ Len(rx') = Len(rx) + n
      /\ \A i \in 1..Len(rx) + n : rx'[i] = IF i <= Len(rx) THEN rx[i] ELSE chunk[i - Len(rx)]
  BY <1>2, <1>3, <1>4, ConcatProperties
<1>6. /\ Len(wire') = Len(wire) - n
      /\ \A i \in 1..Len(wire) - n : wire'[i] = wire[n + i]
  <2>1. wire' = SubSeq(wire, n + 1, Len(wire))
    BY DEF Deliver
  <2>2. n + 1 \in 1..Len(wire) + 1
    BY <1>1, <1>2
  <2>3. /\ Len(wire') = IF n + 1 <= Len(wire) THEN Len(wire) - (n + 1) + 1 ELSE 0
        /\ \A i \in 1..Len(wire) - (n + 1) + 1 : wire'[i] = wire[n + 1 + i - 1]
    BY <1>2, <2>1, <2>2, SubSeqTyped
  <2>4. /\ n \in Int /\ Len(wire) \in Int /\ n <= Len(wire)
        /\ Len(wire) - (n + 1) + 1 = Len(wire) - n
    BY <1>1, <1>2
  <2>5. Len(wire') = Len(wire) - n
    <3>1. Len(wire') = IF n + 1 <= Len(wire) THEN Len(wire) - (n + 1) + 1 ELSE 0
      BY <2>3
    <3>2. \A a, b \in Int : b <= a => (IF b + 1 <= a THEN a - (b + 1) + 1 ELSE 0) = a - b
      OBVIOUS
    <3>3. (IF n + 1 <= Len(wire) THEN Len(wire) - (n + 1) + 1 ELSE 0) = Len(wire) - n
      BY <2>4, <3>2
    <3> QED
      BY <3>1, <3>3
  <2>6. ASSUME NEW i \in 1..Len(wire) - n
        PROVE  wire'[i] = wire[n + i]
    <3>1. wire'[i] = wire[n + 1 + i - 1]
      BY <2>3, <2>4
    <3>2. n + 1 + i - 1 = n + i
      BY <2>4
    <3> QED
      BY <3>1, <3>2
  <2> QED
    BY <2>5, <2>6
<1>7. loop # "handle"
  BY <1>1, EmptySeq DEF LineInv, QuietWhileHandling
<1>8. FullMeansFrame'
  <2>1. SUFFICES ASSUME Len(rx') + Len(wire') = 8
                 PROVE  \E f \in Frames : Carried(f)' /\ (f[2] % 128 = 32 => f = lastSent')
    BY DEF FullMeansFrame
  <2>2. Len(rx) + Len(wire) = 8
    BY <1>1, <1>2, <1>5, <1>6, <2>1
  <2>3. PICK f \in Frames : Carried(f) /\ (f[2] % 128 = 32 => f = lastSent)
    BY <2>2 DEF LineInv, FullMeansFrame
  <2>4. ASSUME NEW i \in 1..8
        PROVE  (IF i <= Len(rx') THEN rx'[i] ELSE wire'[i - Len(rx')]) = 255 - f[i]
    <3>1. CASE i <= Len(rx)
      <4>1. i \in 1..Len(rx) + n /\ i <= Len(rx')
        BY <1>1, <1>2, <1>5, <3>1
      <4>2. rx'[i] = rx[i]
        BY <1>5, <3>1, <4>1
      <4>3. rx[i] = 255 - f[i]
        BY <2>3, <3>1 DEF Carried
      <4> QED
        BY <4>1, <4>2, <4>3
    <3>2. CASE i > Len(rx) /\ i <= Len(rx) + n
      <4>1. i \in 1..Len(rx) + n /\ i - Len(rx) \in 1..n /\ ~(i <= Len(rx)) /\ i <= Len(rx')
        BY <1>1, <1>2, <1>5, <3>2
      <4>2. rx'[i] = wire[i - Len(rx)]
        BY <1>3, <1>5, <4>1
      <4>3. wire[i - Len(rx)] = 255 - f[i]
        BY <2>3, <4>1 DEF Carried
      <4> QED
        BY <4>1, <4>2, <4>3
    <3>3. CASE i > Len(rx) + n
      <4>1. i - (Len(rx) + n) \in 1..Len(wire) - n /\ ~(i <= Len(rx)) /\ ~(i <= Len(rx'))
        BY <1>1, <1>2, <1>5, <2>2, <3>3
      <4>2. wire'[i - (Len(rx) + n)] = wire[n + (i - (Len(rx) + n))]
        BY <1>6, <4>1
      <4>3. n + (i - (Len(rx) + n)) = i - Len(rx)
        BY <1>1, <1>2
      <4>4. wire'[i - Len(rx')] = wire[i - Len(rx)]
        BY <1>5, <4>2, <4>3
      <4>5. wire[i - Len(rx)] = 255 - f[i]
        BY <2>3, <4>1 DEF Carried
      <4>6. (IF i <= Len(rx') THEN rx'[i] ELSE wire'[i - Len(rx')]) = wire'[i - Len(rx')]
        BY <4>1, Zenon
      <4> QED
        BY <4>4, <4>5, <4>6, Zenon
    <3> QED
      BY <1>1, <1>2, <3>1, <3>2, <3>3
  <2>5. Carried(f)'
    BY <2>4 DEF Carried
  <2> QED
    BY <2>3, <2>5 DEF Deliver
<1>9. OneFrameAtMost'
  BY <1>1, <1>2, <1>5, <1>6 DEF LineInv, OneFrameAtMost
<1> QED
  BY <1>7, <1>8, <1>9 DEF Deliver, QuietWhileHandling, WholeFramesOnly

\* What is lost, dropped or cleared leaves less than a frame; a restart of a
\* reader that has read nothing leaves the frame on the wire.
LEMMA ShorterWhole ==
  ASSUME LineInv, Lose \/ SkipIncomplete \/ Restart
  PROVE  OneFrameAtMost' /\ FullMeansFrame' /\ QuietWhileHandling' /\ WholeFramesOnly'
<1>1. wire \in Seq(Byte) /\ rx \in Seq(Byte) /\ Len(wire) \in Nat /\ Len(rx) \in Nat
  BY LenProperties DEF LineInv, TypeInv, LineTypeOK
<1>2. Len(<<>>) = 0
  BY EmptySeq
<1>3. CASE Lose
  <2>1. Len(wire') < Len(wire) /\ Len(wire') \in Nat /\ rx' = rx
    BY <1>1, <1>2, <1>3, LenZero, HeadTailProperties DEF Lose
  <2>2. loop # "handle"
    BY <1>3 DEF Lose, LineInv, QuietWhileHandling
  <2> QED
    BY <1>1, <1>3, <2>1, <2>2
       DEF Lose, LineInv, OneFrameAtMost, FullMeansFrame, QuietWhileHandling, WholeFramesOnly
<1>4. CASE SkipIncomplete
  <2>1. rx' = <<>> /\ wire' = wire /\ loop' = "read" /\ Len(rx) > 0
    <3>1. loop = "read" /\ Len(rx) \in 1..7 /\ rx' = <<>> /\ UNCHANGED <<wire, loop>>
      BY <1>4 DEF SkipIncomplete
    <3>2. \A m \in 1..7 : m > 0
      OBVIOUS
    <3> QED
      BY <3>1, <3>2
  <2>2. Len(rx') + Len(wire') < 8
    BY <1>1, <1>2, <2>1 DEF LineInv, OneFrameAtMost
  <2> QED
    BY <2>1, <2>2 DEF OneFrameAtMost, FullMeansFrame, QuietWhileHandling, WholeFramesOnly
<1>5. CASE Restart
  <2>1. rx' = <<>> /\ wire' = wire /\ lastSent' = lastSent /\ loop' = "read"
    BY <1>5 DEF Restart
  <2>2. CASE Len(rx) = 0
    <3>1. rx' = rx
      BY <1>1, <2>1, <2>2, LenZero
    <3> QED
      BY <2>1, <3>1 DEF LineInv, OneFrameAtMost, FullMeansFrame, Carried, QuietWhileHandling,
                        WholeFramesOnly
  <2>3. CASE Len(rx) > 0
    <3>1. Len(rx') + Len(wire') < 8
      BY <1>1, <1>2, <2>1, <2>3 DEF LineInv, OneFrameAtMost
    <3> QED
      BY <2>1, <3>1 DEF OneFrameAtMost, FullMeansFrame, QuietWhileHandling, WholeFramesOnly
  <2> QED
    BY <1>1, <2>2, <2>3
<1> QED
  BY <1>3, <1>4, <1>5

\* A read of eight bytes takes one frame and leaves nothing behind.
LEMMA ReadWhole ==
  ASSUME LineInv, ReadMasterFrame
  PROVE  OneFrameAtMost' /\ FullMeansFrame' /\ QuietWhileHandling' /\ WholeFramesOnly'
<1>1. wire \in Seq(Byte) /\ rx \in Seq(Byte) /\ Len(wire) \in Nat /\ Len(rx) \in Nat
  BY LenProperties DEF LineInv, TypeInv, LineTypeOK
<1>2. Len(rx) = 8 /\ Len(wire) = 0
  <2>1. Len(rx) >= 8
    BY DEF ReadMasterFrame
  <2>2. Len(rx) + Len(wire) <= 8
    BY DEF LineInv, OneFrameAtMost
  <2>3. \A m, k \in Nat : m >= 8 /\ m + k <= 8 => m = 8 /\ k = 0
    OBVIOUS
  <2> QED
    BY <1>1, <2>1, <2>2, <2>3
<1>3. wire' = <<>> /\ rx' = <<>>
  <2>1. SubSeq(rx, 9, Len(rx)) = <<>>
    BY <1>2, SubSeqEmpty
  <2> QED
    BY <1>1, <1>2, <2>1, LenZero DEF ReadMasterFrame
<1>4. PICK f \in Frames : Carried(f) /\ (f[2] % 128 = 32 => f = lastSent)
  BY <1>2 DEF LineInv, FullMeansFrame
<1>5. inbox' = f
  <2>1. inbox' \in Frames /\ \A i \in 1..8 : inbox'[i] = 255 - rx[i]
    BY <1>1, <1>2, ReadTyped DEF ReadMasterFrame
  <2>2. \A i \in 1..8 : rx[i] = 255 - f[i]
    BY <1>2, <1>4 DEF Carried
  <2>3. \A i \in 1..8 : f[i] \in Int
    <3>1. \A i \in 1..8 : f[i] \in Byte
      BY <1>4, ByteTyped
    <3>2. Byte \subseteq Int
      BY DEF Byte
    <3> QED
      BY <3>1, <3>2
  <2>4. \A i \in 1..8 : inbox'[i] = f[i]
    BY <2>1, <2>2, <2>3
  <2> QED
    BY <2>1, <2>4 DEF Frames
<1>6. lastSent' = lastSent
  BY DEF ReadMasterFrame
<1>7. WholeFramesOnly'
  BY <1>4, <1>5, <1>6, AddressedByByte2 DEF WholeFramesOnly
<1>8. Len(rx') + Len(wire') = 0
  BY <1>3, EmptySeq
<1> QED
  BY <1>3, <1>7, <1>8 DEF OneFrameAtMost, FullMeansFrame, QuietWhileHandling

\* An echoed reply is a frame on an empty line, with an address of its own.
LEMMA HandleWhole ==
  ASSUME LineInv, loop = "handle", HandleStep(MasterFrame(inbox))
  PROVE  OneFrameAtMost' /\ FullMeansFrame' /\ QuietWhileHandling' /\ WholeFramesOnly'
<1> DEFINE mf == MasterFrame(inbox)
<1>1. mf \in MasterFrames /\ HandlerTypeOK
  BY MasterFrameTyped DEF LineInv, TypeInv, LineTypeOK
<1>2. rx = <<>> /\ wire = <<>>
  BY DEF LineInv, QuietWhileHandling
<1>3. rx' = <<>> /\ loop' = "read"
  BY <1>2 DEF HandleStep, HandleInbox
<1>4. Len(rx') = 0
  BY <1>3, EmptySeq
<1> HIDE DEF mf
<1>5. wire' = <<>> \/ \E f \in {ReplyBytes(mf)} : wire' = <<>> \o Inverted(f)
  BY <1>2 DEF HandleStep, mf
<1>6. CASE wire' = <<>>
  <2>1. Len(wire') = 0
    BY <1>6, EmptySeq
  <2> QED
    BY <1>3, <1>4, <2>1 DEF OneFrameAtMost, FullMeansFrame, QuietWhileHandling, WholeFramesOnly
<1>7. ASSUME NEW f \in {ReplyBytes(mf)}, wire' = <<>> \o Inverted(f)
      PROVE  OneFrameAtMost' /\ FullMeansFrame' /\ QuietWhileHandling' /\ WholeFramesOnly'
  <2>1. f \in Frames /\ f[2] % 128 # 32
    BY <1>1, ReplyBytesTyped
  <2>2. wire' = Inverted(f)
    <3>1. Inverted(f) \in Seq(Byte)
      BY <2>1, InvertedTyped
    <3> QED
      BY <1>7, <3>1, ConcatEmptySeq, Zenon
  <2>3. Len(wire') = 8 /\ \A i \in 1..8 : wire'[i] = 255 - f[i]
    <3>1. Len(Inverted(f)) = 8 /\ \A i \in 1..8 : Inverted(f)[i] = 255 - f[i]
      BY <2>1, InvertedTyped
    <3> QED
      BY <2>2, <3>1, Zenon
  <2>4. Carried(f)'
    BY <1>4, <2>3 DEF Carried
  <2>5. FullMeansFrame'
    BY <2>1, <2>4 DEF FullMeansFrame
  <2> QED
    BY <1>3, <1>4, <2>3, <2>5 DEF OneFrameAtMost, QuietWhileHandling, WholeFramesOnly
<1> QED
  BY <1>5, <1>6, <1>7

\* Every step of a line whose unit waits keeps frames whole.
LEMMA LineStep == KeepsUp /\ LineInv /\ [Next]_vars => LineInv'
<1> SUFFICES ASSUME KeepsUp, LineInv, [Next]_vars PROVE LineInv'
  OBVIOUS
<1>1. TypeInv'
  BY StepTyped DEF LineInv
<1>2. CASE UNCHANGED lineVars
  BY <1>1, <1>2 DEF lineVars, LineInv, OneFrameAtMost, FullMeansFrame, Carried,
                    QuietWhileHandling, WholeFramesOnly
<1>3. CASE UnitSends
  BY <1>1, <1>3, UnitSendsWhole DEF LineInv
<1>4. CASE DeliverSome
  BY <1>1, <1>4, DeliverWhole DEF LineInv, DeliverSome
<1>5. CASE Lose \/ SkipIncomplete \/ Restart
  BY <1>1, <1>5, ShorterWhole DEF LineInv
<1>6. CASE ReadMasterFrame
  BY <1>1, <1>6, ReadWhole DEF LineInv
<1>7. CASE HandleWithoutReply \/ HandleAndReply
  BY <1>1, <1>7, HandleSteps, HandleWhole DEF LineInv
<1>8. UserStep \/ RemoteStep \/ UnitFault => UNCHANGED lineVars
  BY DEF UserStep, RemoteStep, UnitFault
<1> QED
  BY <1>2, <1>3, <1>4, <1>5, <1>6, <1>7, <1>8 DEF Next, vars

\* WholeFramesOnly: a unit that waits for its reader is never misread, however
\* its frames are cut, lost, or mixed with echoes of the replies.
THEOREM FramesStayWhole == ASSUME KeepsUp PROVE Spec => []WholeFramesOnly
<1>1. Init => LineInv
  BY LineInit
<1>2. LineInv /\ [Next]_vars => LineInv'
  BY LineStep
<1>3. LineInv => WholeFramesOnly
  BY DEF LineInv
<1> QED
  BY <1>1, <1>2, <1>3, PTL DEF Spec

-----------------------------------------------------------------------------
(***************************************************************************)
(* BytesMeanRecords.  The reply's bytes are built setter by setter; what   *)
(* they read as is Reply(mf), the setpoint's spilled top bit included.     *)
(***************************************************************************)
\* Equal fields make equal payloads.
LEMMA PayloadEqual ==
  ASSUME NEW p \in Payloads, NEW q,
         q = [enabled |-> p.enabled, mode |-> p.mode, fan |-> p.fan, economy |-> p.economy,
              temperature |-> p.temperature, swing |-> p.swing, swingStep |-> p.swingStep,
              sensor |-> p.sensor]
  PROVE  q = p
BY DEF Payloads

\* The setters of a status payload leave the sensor byte.
LEMMA SettersKeepSensor ==
  ASSUME NEW b \in FiveBytes, NEW v
  PROVE  /\ R!SetEnabled(b, v)[4] = b[4] /\ R!SetMode(b, v)[4] = b[4]
         /\ R!SetFan(b, v)[4] = b[4] /\ R!SetEconomy(b, v)[4] = b[4]
         /\ R!SetTemperature(b, v)[4] = b[4] /\ R!SetSwing(b, v)[4] = b[4]
         /\ R!SetSwingStep(b, v)[4] = b[4]
BY DEF FiveBytes, R!SetEnabled, R!SetMode, R!SetFan, R!SetEconomy, R!SetTemperature,
       R!SetSwing, R!SetSwingStep

\* StatusPayload reads as BuildStatusRegisterResponse, field by field.
LEMMA StatusPayloadRead ==
  ASSUME NEW c \in AcStates
  PROVE  LET p == StatusPayload(c)
             r == BuildStatusRegisterResponse(c)
         IN  /\ R!Enabled(p) = r.enabled /\ R!Mode(p) = r.mode /\ R!Fan(p) = r.fan
             /\ R!Economy(p) = r.economy /\ R!Temperature(p) = r.temperature
             /\ R!Swing(p) = r.swing /\ R!SwingStep(p) = r.swingStep /\ p[4] = r.sensor
<1> DEFINE b == <<0, 0, 0, 47, 0>>
           c1 == R!SetEnabled(b, c.enabled)
           c2 == R!SetMode(c1, c.mode)
           c3 == R!SetFan(c2, c.fan)
           c4 == R!SetEconomy(c3, c.economy)
           c5 == R!SetTemperature(c4, c.temperature)
           c6 == IF c.mode = "FAN" THEN c3 ELSE c5
           c7 == R!SetSwing(c6, c.swing)
           c8 == R!SetSwingStep(c7, c.swingStep)
           r == BuildStatusRegisterResponse(c)
<1>1. /\ c.enabled \in BOOLEAN /\ c.economy \in BOOLEAN
      /\ c.swing \in BOOLEAN /\ c.swingStep \in BOOLEAN
      /\ c.mode \in Modes /\ c.fan \in Fans /\ c.temperature \in Byte
  BY DEF AcStates
<1>2. StatusPayload(c) = c8
  BY DEF StatusPayload
<1>3. b \in FiveBytes /\ b[4] = 47 /\ b[2] = 0
  BY DEF FiveBytes, Byte
<1> HIDE DEF b
<1>4. R!Economy(b) = FALSE /\ R!Temperature(b) = 0
  BY <1>3 DEF R!Economy, R!Temperature, R!Bits
<1>5. /\ c1 \in FiveBytes /\ Same(c1, b, {"enabled"}) /\ R!Enabled(c1) = c.enabled
      /\ c1[4] = b[4]
  BY <1>1, <1>3, SettersKeepBytes, SetEnabledRead, SettersKeepSensor
<1> HIDE DEF c1
<1>6. /\ c2 \in FiveBytes /\ Same(c2, c1, {"mode"}) /\ R!Mode(c2) = c.mode
      /\ c2[4] = c1[4]
  BY <1>1, <1>5, SettersKeepBytes, SetModeRead, SettersKeepSensor
<1> HIDE DEF c2
<1>7. /\ c3 \in FiveBytes /\ Same(c3, c2, {"fan"}) /\ R!Fan(c3) = c.fan
      /\ c3[4] = c2[4]
  BY <1>1, <1>6, SettersKeepBytes, SetFanRead, SettersKeepSensor
<1> HIDE DEF c3
<1>8. /\ c4 \in FiveBytes /\ Same(c4, c3, {"economy"}) /\ R!Economy(c4) = c.economy
      /\ c4[4] = c3[4]
  BY <1>1, <1>7, SettersKeepBytes, SetEconomyRead, SettersKeepSensor
<1> HIDE DEF c4
<1>9. /\ c5 \in FiveBytes /\ Same(c5, c4, {"temperature", "economy"})
      /\ R!Temperature(c5) = c.temperature % 128
      /\ R!Economy(c5) <=> R!Economy(c4) \/ c.temperature >= 128
      /\ c5[4] = c4[4]
  BY <1>1, <1>8, SettersKeepBytes, SetTemperatureSpills, SettersKeepSensor
<1> HIDE DEF c5
<1>10. /\ R!Enabled(c3) = c.enabled /\ R!Mode(c3) = c.mode /\ R!Fan(c3) = c.fan
       /\ R!Economy(c3) = FALSE /\ R!Temperature(c3) = 0
  <2>1. R!Enabled(c3) = c.enabled /\ R!Mode(c3) = c.mode /\ R!Fan(c3) = c.fan
    BY <1>5, <1>6, <1>7, Zenon DEF Same
  <2>2. R!Economy(c3) = R!Economy(b) /\ R!Temperature(c3) = R!Temperature(b)
    BY <1>5, <1>6, <1>7, Zenon DEF Same
  <2> QED
    BY <1>4, <2>1, <2>2
<1>11. /\ R!Enabled(c5) = c.enabled /\ R!Mode(c5) = c.mode /\ R!Fan(c5) = c.fan
  BY <1>8, <1>9, <1>10, Zenon DEF Same
<1>12. R!Economy(c3) \in BOOLEAN /\ R!Economy(c5) \in BOOLEAN
  BY DEF R!Economy
<1>13. c6 \in FiveBytes /\ c6[4] = 47
  BY <1>3, <1>5, <1>6, <1>7, <1>8, <1>9
<1>14. /\ R!Enabled(c6) = c.enabled /\ R!Mode(c6) = c.mode /\ R!Fan(c6) = c.fan
       /\ R!Economy(c6) = (c.mode # "FAN" /\ (c.economy \/ c.temperature >= 128))
       /\ R!Temperature(c6) = IF c.mode # "FAN" THEN c.temperature % 128 ELSE 0
  <2>1. CASE c.mode = "FAN"
    <3>1. c6 = c3
      BY <2>1
    <3> HIDE DEF c6
    <3> QED
      BY <1>10, <2>1, <3>1
  <2>2. CASE c.mode # "FAN"
    <3>1. c6 = c5
      BY <2>2
    <3> HIDE DEF c6
    <3>2. R!Economy(c5) <=> (c.economy \/ c.temperature >= 128)
      BY <1>8, <1>9
    <3> QED
      BY <1>1, <1>9, <1>11, <1>12, <2>2, <3>1, <3>2
  <2> QED
    BY <2>1, <2>2
<1> HIDE DEF c6
<1>15. /\ c7 \in FiveBytes /\ Same(c7, c6, {"swing"}) /\ R!Swing(c7) = c.swing
       /\ c7[4] = c6[4]
  BY <1>1, <1>13, SettersKeepBytes, SetSwingRead, SettersKeepSensor
<1> HIDE DEF c7
<1>16. /\ c8 \in FiveBytes /\ Same(c8, c7, {"swingStep"}) /\ R!SwingStep(c8) = c.swingStep
       /\ c8[4] = c7[4]
  BY <1>1, <1>15, SettersKeepBytes, SetSwingStepRead, SettersKeepSensor
<1> HIDE DEF c8
<1>17. /\ R!Enabled(c8) = R!Enabled(c6) /\ R!Mode(c8) = R!Mode(c6) /\ R!Fan(c8) = R!Fan(c6)
       /\ R!Economy(c8) = R!Economy(c6) /\ R!Temperature(c8) = R!Temperature(c6)
       /\ R!Swing(c8) = c.swing
  BY <1>15, <1>16, Zenon DEF Same
<1>18. /\ r.enabled = c.enabled /\ r.mode = c.mode /\ r.fan = c.fan
       /\ r.economy = (c.mode # "FAN" /\ (c.economy \/ c.temperature >= 128))
       /\ r.temperature = IF c.mode # "FAN" THEN c.temperature % 128 ELSE 0
       /\ r.swing = c.swing /\ r.swingStep = c.swingStep /\ r.sensor = 47
  BY DEF BuildStatusRegisterResponse
<1>19. /\ R!Enabled(c8) = r.enabled /\ R!Mode(c8) = r.mode /\ R!Fan(c8) = r.fan
       /\ R!Economy(c8) = r.economy /\ R!Temperature(c8) = r.temperature
       /\ R!Swing(c8) = r.swing /\ R!SwingStep(c8) = r.swingStep /\ c8[4] = r.sensor
  <2> HIDE DEF r
  <2> QED
    BY <1>13, <1>14, <1>15, <1>16, <1>17, <1>18
<1> QED
  BY <1>2, <1>19

\* The three fields of a reply's head, and the payload it starts with.
LEMMA ReplyHeadRead ==
  ASSUME NEW type \in RegisterTypes, NEW login \in BOOLEAN, NEW write \in BOOLEAN
  PROVE  LET head == WithWriteBit(WithLoginBit(WithQueryRegister(EmptyFrame, type), login), write)
         IN  /\ head \in Frames
             /\ head[2] = 129 + R!Bit(login) * 32
             /\ head[3] = RegisterCode[type] * 16 + R!Bit(write) * 8
             /\ \A i \in 4..8 : head[i] = 0
<1> DEFINE f1 == WithQueryRegister(EmptyFrame, type)
           f2 == WithLoginBit(f1, login)
           f3 == WithWriteBit(f2, write)
<1>1. /\ EmptyFrame \in Frames /\ EmptyFrame[2] = 129 /\ EmptyFrame[3] = 0
      /\ \A i \in 4..8 : EmptyFrame[i] = 0
  BY SMTT(20) DEF EmptyFrame, Frames, Byte
<1>2. RegisterCode[type] \in 0..3 /\ R!Bit(login) \in 0..1 /\ R!Bit(write) \in 0..1
  BY CodesFit DEF R!Bit
<1>3. /\ \A v \in 0..3 : R!WithBits(0, 16, 4, v) = v * 16 /\ v * 16 \in Byte
      /\ \A v \in 0..1 : R!WithBits(129, 32, 2, v) = 129 + v * 32 /\ 129 + v * 32 \in Byte
      /\ \A q \in 0..3 : \A v \in 0..1 :
           R!WithBits(q * 16, 8, 2, v) = q * 16 + v * 8 /\ q * 16 + v * 8 \in Byte
  BY DEF R!WithBits, R!Bits, Byte
<1>4. /\ f1 \in Frames /\ f1[2] = 129 /\ f1[3] = RegisterCode[type] * 16
      /\ \A i \in 4..8 : f1[i] = 0
  BY <1>1, <1>2, <1>3 DEF WithQueryRegister, Frames
<1> HIDE DEF f1
<1>5. /\ f2 \in Frames /\ f2[2] = 129 + R!Bit(login) * 32 /\ f2[3] = RegisterCode[type] * 16
      /\ \A i \in 4..8 : f2[i] = 0
  BY <1>2, <1>3, <1>4 DEF WithLoginBit, Frames
<1> HIDE DEF f2
<1>6. /\ f3 \in Frames /\ f3[2] = f2[2]
      /\ f3[3] = RegisterCode[type] * 16 + R!Bit(write) * 8
      /\ \A i \in 4..8 : f3[i] = 0
  BY <1>2, <1>3, <1>5 DEF WithWriteBit, Frames
<1> QED
  BY <1>5, <1>6 DEF f2, f1

\* A frame with such a head reads as its three fields.
LEMMA HeadFieldsRead ==
  ASSUME NEW f, NEW type \in RegisterTypes, NEW login \in BOOLEAN, NEW write \in BOOLEAN,
         f[2] = 129 + R!Bit(login) * 32,
         f[3] = RegisterCode[type] * 16 + R!Bit(write) * 8
  PROVE  QueryRegister(f) = type /\ LoginBit(f) = login /\ WriteBit(f) = write
<1>1. RegisterCode[type] \in 0..3 /\ R!Bit(login) \in 0..1 /\ R!Bit(write) \in 0..1
  BY CodesFit DEF R!Bit
<1>2. /\ \A v \in 0..1 : R!Bits(129 + v * 32, 32, 2) = v
      /\ \A q \in 0..3 : \A v \in 0..1 : /\ R!Bits(q * 16 + v * 8, 16, 4) = q
                                         /\ R!Bits(q * 16 + v * 8, 8, 2) = v
  BY DEF R!Bits
<1>3. /\ R!Bits(f[3], 16, 4) = RegisterCode[type]
      /\ R!Bits(f[3], 8, 2) = R!Bit(write) /\ R!Bits(f[2], 32, 2) = R!Bit(login)
  BY <1>1, <1>2
<1>4. QueryRegister(f) = type
  BY <1>3, NamedInverse DEF QueryRegister
<1>5. LoginBit(f) = login /\ WriteBit(f) = write
  BY <1>3 DEF LoginBit, WriteBit, R!Bit
<1> QED
  BY <1>4, <1>5

\* Five zero bytes are the empty payload.
LEMMA ZeroPayloadRead ==
  ASSUME NEW b, \A i \in 1..5 : b[i] = 0
  PROVE  /\ R!Enabled(b) = FALSE /\ R!Mode(b) = "UNKNOWN" /\ R!Fan(b) = "AUTO"
         /\ R!Economy(b) = FALSE /\ R!Temperature(b) = 0
         /\ R!Swing(b) = FALSE /\ R!SwingStep(b) = FALSE /\ b[4] = 0
<1>1. /\ R!Bits(0, 1, 2) = 0 /\ R!Bits(0, 2, 8) = 0 /\ R!Bits(0, 16, 8) = 0
      /\ R!Bits(0, 128, 2) = 0 /\ R!Bits(0, 1, 128) = 0 /\ R!Bits(0, 4, 2) = 0
      /\ R!Bits(0, 2, 2) = 0
  BY DEF R!Bits
<1>2. R!Named(0, R!ModeCode) = "UNKNOWN" /\ R!Named(0, R!FanCode) = "AUTO"
  <2>1. "UNKNOWN" \in Modes /\ "AUTO" \in Fans
    BY DEF Modes, Fans
  <2>2. R!ModeCode["UNKNOWN"] = 0 /\ R!FanCode["AUTO"] = 0
    BY DEF R!ModeCode, R!FanCode
  <2> QED
    BY <2>1, <2>2, NamedInverse
<1>3. b[1] = 0 /\ b[2] = 0 /\ b[3] = 0 /\ b[4] = 0
  OBVIOUS
<1> QED
  BY <1>1, <1>2, <1>3 DEF R!Enabled, R!Mode, R!Fan, R!Economy, R!Temperature, R!Swing,
                          R!SwingStep

\* The bytes written are the reply the handler decided on.
LEMMA ReplyBytesMean ==
  ASSUME HandlerTypeOK, NEW mf \in MasterFrames
  PROVE  ControllerFrame(ReplyBytes(mf)) = Reply(mf)
<1> DEFINE cf == Reply(mf)
           copy == IF mf.type = "LOGIN" THEN acState ELSE Merged(mf)
           head == WithWriteBit(WithLoginBit(WithQueryRegister(EmptyFrame, cf.query), cf.login),
                                cf.write)
           f == ReplyBytes(mf)
           read == [enabled |-> R!Enabled(Payload(f)), mode |-> R!Mode(Payload(f)),
                    fan |-> R!Fan(Payload(f)), economy |-> R!Economy(Payload(f)),
                    temperature |-> R!Temperature(Payload(f)), swing |-> R!Swing(Payload(f)),
                    swingStep |-> R!SwingStep(Payload(f)), sensor |-> Payload(f)[4]]
<1>1. cf \in ControllerFrames /\ copy \in AcStates
  BY ReplyTyped, MergedTyped DEF HandlerTypeOK
<1>2. /\ cf.query \in RegisterTypes /\ cf.login \in BOOLEAN /\ cf.write \in BOOLEAN
      /\ cf.payload \in Payloads
      /\ cf = [query |-> cf.query, login |-> cf.login, write |-> cf.write,
               payload |-> cf.payload]
  BY <1>1 DEF ControllerFrames
<1>3. \/ cf.query = "STATUS" /\ cf.payload = BuildStatusRegisterResponse(copy)
      \/ cf.query # "STATUS" /\ cf.payload = EmptyPayload
  <2>1. CASE mf.type = "LOGIN"
    <3>1. cf = SendLoggedInFrame(copy)
      BY <2>1 DEF Reply
    <3> HIDE DEF copy, cf
    <3> QED
      BY <3>1 DEF SendLoggedInFrame, EmptyControllerFrame
  <2>2. CASE mf.type # "LOGIN" /\ (LoginDue(mf) \/ ErrorDue(mf))
    <3>1. cf = SendLoginFrame \/ cf = SendErrorQueryFrame
      BY <2>2 DEF Reply
    <3> HIDE DEF cf
    <3> QED
      BY <3>1 DEF SendLoginFrame, SendErrorQueryFrame, EmptyControllerFrame
  <2>3. CASE mf.type # "LOGIN" /\ ~LoginDue(mf) /\ ~ErrorDue(mf)
    <3>1. cf = SendStatusFrame(copy)
      BY <2>3 DEF Reply
    <3> HIDE DEF copy, cf
    <3> QED
      BY <3>1 DEF SendStatusFrame, EmptyControllerFrame
  <2> QED
    BY <2>1, <2>2, <2>3
<1>4. f = IF cf.query = "STATUS" THEN WithPayload(head, StatusPayload(copy)) ELSE head
  BY DEF ReplyBytes
<1>5. /\ head \in Frames
      /\ head[2] = 129 + R!Bit(cf.login) * 32
      /\ head[3] = RegisterCode[cf.query] * 16 + R!Bit(cf.write) * 8
      /\ \A i \in 4..8 : head[i] = 0
  BY <1>2, ReplyHeadRead
<1> HIDE DEF cf, head, copy, f
<1>6. StatusPayload(copy) \in FiveBytes
  BY <1>1, StatusPayloadTyped
<1>7. f[2] = head[2] /\ f[3] = head[3]
  BY <1>4, <1>5, <1>6, WithPayloadTyped
<1>8. QueryRegister(f) = cf.query /\ LoginBit(f) = cf.login /\ WriteBit(f) = cf.write
  BY <1>2, <1>5, <1>7, HeadFieldsRead
<1>9. read = cf.payload
  <2> DEFINE p == cf.payload
             q == Payload(f)
  <2>1. /\ R!Enabled(q) = p.enabled /\ R!Mode(q) = p.mode /\ R!Fan(q) = p.fan
        /\ R!Economy(q) = p.economy /\ R!Temperature(q) = p.temperature
        /\ R!Swing(q) = p.swing /\ R!SwingStep(q) = p.swingStep /\ q[4] = p.sensor
    <3>1. CASE cf.query = "STATUS"
      <4>1. q = StatusPayload(copy)
        BY <1>4, <1>5, <1>6, <3>1, PayloadBack
      <4>2. p = BuildStatusRegisterResponse(copy)
        BY <1>3, <3>1
      <4> HIDE DEF p, q
      <4> QED
        BY <1>1, <4>1, <4>2, StatusPayloadRead
    <3>2. CASE cf.query # "STATUS"
      <4>1. q = Payload(head) /\ p = EmptyPayload
        BY <1>3, <1>4, <3>2
      <4> HIDE DEF p, q
      <4>2. \A i \in 1..5 : q[i] = 0
        <5>1. \A i \in 1..5 : q[i] = head[i + 3]
          BY <1>5, <4>1, PayloadTyped
        <5>2. \A i \in 1..5 : i + 3 \in 4..8
          OBVIOUS
        <5> QED
          BY <1>5, <5>1, <5>2
      <4> QED
        BY <4>1, <4>2, ZeroPayloadRead DEF EmptyPayload
    <3> QED
      BY <3>1, <3>2
  <2>2. read = [enabled |-> p.enabled, mode |-> p.mode, fan |-> p.fan, economy |-> p.economy,
                temperature |-> p.temperature, swing |-> p.swing, swingStep |-> p.swingStep,
                sensor |-> p.sensor]
    BY <2>1
  <2> HIDE DEF p, read
  <2>3. p \in Payloads
    BY <1>2 DEF p
  <2>4. read = p
    BY <2>2, <2>3, PayloadEqual
  <2> QED
    BY <2>4 DEF p
<1>10. ControllerFrame(f) = [query |-> QueryRegister(f), login |-> LoginBit(f),
                             write |-> WriteBit(f), payload |-> read]
  BY DEF ControllerFrame
<1> HIDE DEF read
<1>11. ControllerFrame(f) = cf
  BY <1>2, <1>8, <1>9, <1>10
<1> QED
  BY <1>11 DEF cf, f

\* What UnitSends puts on the wire is the frame the record module sends.
LEMMA SendStepMeans ==
  ASSUME TypeInv, UnitSends
  PROVE  /\ Sim!GetNextMasterFrame
         /\ Addressed(MasterFrame(lastSent'))
         /\ MasterFrame(lastSent').type = Sim!NextMasterFrame.type
         /\ Sim!SendsStatus => MasterFrame(lastSent').status = Sim!NextMasterFrame.status
<1>1. UnitBytesOK /\ GetNextMasterFrame
  BY DEF TypeInv, LineTypeOK, UnitBytesOK, UnitSends
<1>2. Sim!GetNextMasterFrame
  BY <1>1, SendMeans
<1>3. lastSent' = NextFrame
  BY DEF UnitSends
<1>4. ASSUME NEW f, f[2] % 128 = 32
      PROVE  Addressed(MasterFrame(f))
  BY <1>4 DEF Addressed, MasterFrame, Destination
<1>5. ASSUME NEW f
      PROVE  MasterFrame(f).type = Type(f) /\ MasterFrame(f).status = R!Decoded(Payload(f))
  BY DEF MasterFrame
<1>6. PICK f : f = lastSent'
  OBVIOUS
<1>7. /\ f[2] % 128 = 32 /\ Type(f) = Sim!NextMasterFrame.type
      /\ Sim!SendsStatus => R!Decoded(Payload(f)) = Sim!NextMasterFrame.status
  BY <1>1, <1>3, <1>6, NextFrameMeans
<1>8. /\ Addressed(MasterFrame(f)) /\ MasterFrame(f).type = Sim!NextMasterFrame.type
      /\ Sim!SendsStatus => MasterFrame(f).status = Sim!NextMasterFrame.status
  BY <1>4, <1>5, <1>7
<1> QED
  BY <1>2, <1>6, <1>8

\* What HandleAndReply writes is what the handler decided, and what the unit
\* takes of it.
LEMMA ReplyStepMeans ==
  ASSUME TypeInv, HandleAndReply
  PROVE  /\ ControllerFrame(ReplyBytes(MasterFrame(inbox))) = Reply(MasterFrame(inbox))
         /\ Sim!PushControllerFrame(Reply(MasterFrame(inbox))) \/ UNCHANGED unitVars
<1> DEFINE mf == MasterFrame(inbox)
<1>1. mf \in MasterFrames /\ HandlerTypeOK /\ UnitBytesOK
  BY MasterFrameTyped DEF HandleAndReply, TypeInv, LineTypeOK, UnitBytesOK
<1>2. PushControllerFrame(ReplyBytes(mf)) \/ UNCHANGED unitVars
  BY DEF HandleAndReply
<1> HIDE DEF mf
<1>3. ReplyBytes(mf) \in Frames /\ ControllerFrame(ReplyBytes(mf)) = Reply(mf)
  BY <1>1, ReplyBytesTyped, ReplyBytesMean
<1>4. PushControllerFrame(ReplyBytes(mf)) => Sim!PushControllerFrame(Reply(mf))
  <2> SUFFICES ASSUME PushControllerFrame(ReplyBytes(mf))
               PROVE  Sim!PushControllerFrame(Reply(mf))
    OBVIOUS
  <2>1. Sim!PushControllerFrame(ControllerFrame(ReplyBytes(mf)))
    BY <1>1, <1>3, PushMeans
  <2> QED
    BY <1>3, <2>1
<1> QED
  BY <1>2, <1>3, <1>4 DEF mf

\* BytesMeanRecords: whatever the bytes on the line are, the unit and the
\* handler exchange what the record modules say.
THEOREM BytesRefineRecords == Spec => BytesMeanRecords
<1>1. TypeInv =>
        /\ UnitSends => /\ Sim!GetNextMasterFrame
                        /\ Addressed(MasterFrame(lastSent'))
                        /\ MasterFrame(lastSent').type = Sim!NextMasterFrame.type
                        /\ Sim!SendsStatus =>
                             MasterFrame(lastSent').status = Sim!NextMasterFrame.status
        /\ HandleAndReply =>
             /\ ControllerFrame(ReplyBytes(MasterFrame(inbox))) = Reply(MasterFrame(inbox))
             /\ Sim!PushControllerFrame(Reply(MasterFrame(inbox))) \/ UNCHANGED unitVars
        /\ RemoteStep =>
             \E setting \in DOMAIN Remote : \E v \in Remote[setting] :
               Sim!RemoteSet(setting, v)
        /\ UnitFault => Sim!ToggleErrorBit \/ UNCHANGED unitVars
  <2>1. TypeInv => UnitBytesOK
    BY DEF TypeInv, LineTypeOK, UnitBytesOK
  <2>2. UnitBytesOK /\ RemoteStep => \E setting \in DOMAIN Remote : \E v \in Remote[setting] :
                        Sim!RemoteSet(setting, v)
    BY RemoteMeans DEF RemoteStep
  <2>3. UnitBytesOK /\ UnitFault => Sim!ToggleErrorBit \/ UNCHANGED unitVars
    BY FaultMeans DEF UnitFault
  <2> QED
    BY <2>1, <2>2, <2>3, SendStepMeans, ReplyStepMeans
<1> QED
  BY <1>1, TypeInvHolds, PTL DEF Spec, BytesMeanRecords

-----------------------------------------------------------------------------
(***************************************************************************)
(* ImplementsExchange, of a unit that waits for its reader.  LineInv says  *)
(* which bytes are under way; here is what each step makes of them for the *)
(* frame exchange.                                                         *)
(***************************************************************************)
\* The variable of the exchange, as the refinement mapping has it.
LineFrame ==
  IF FrameUnderWay \/ FrameInHand THEN {Sim!Content(MasterFrame(lastSent))} ELSE {}

\* What has to be shown of every step.
LineExchangeStep ==
  Exchange!Next \/ UNCHANGED <<acState, errorRead, loginRead, StatusRecord, nextQuery, LineFrame>>

\* The exchange has the handler of FujiAcProtocolHandler.
LEMMA SameHandler ==
  ASSUME NEW mf
  PROVE  /\ Exchange!Replies(mf) = Replies(mf)
         /\ Exchange!Reply(mf) = Reply(mf)
         /\ Exchange!HandleMasterFrame(mf) = HandleMasterFrame(mf)
<1>1. Exchange!Addressed(mf) = Addressed(mf) /\ Exchange!Replies(mf) = Replies(mf)
  BY DEF Replies, Addressed, Exchange!Replies, Exchange!Addressed
<1>2. ASSUME NEW s, NEW st
      PROVE  /\ Exchange!BuildStatusRegisterResponse(s) = BuildStatusRegisterResponse(s)
             /\ Exchange!MergeFromMasterStatusRegister(s, st) = MergeFromMasterStatusRegister(s, st)
  BY DEF BuildStatusRegisterResponse, Exchange!BuildStatusRegisterResponse,
         MergeFromMasterStatusRegister, Exchange!MergeFromMasterStatusRegister
<1>3. Exchange!EmptyControllerFrame = EmptyControllerFrame
  BY DEF EmptyControllerFrame, Exchange!EmptyControllerFrame, EmptyPayload, Exchange!EmptyPayload
<1>4. ASSUME NEW s
      PROVE  /\ Exchange!SendLoginFrame = SendLoginFrame
             /\ Exchange!SendErrorQueryFrame = SendErrorQueryFrame
             /\ Exchange!SendStatusFrame(s) = SendStatusFrame(s)
             /\ Exchange!SendLoggedInFrame(s) = SendLoggedInFrame(s)
  BY <1>2, <1>3 DEF SendLoginFrame, Exchange!SendLoginFrame, SendErrorQueryFrame,
     Exchange!SendErrorQueryFrame, SendStatusFrame, Exchange!SendStatusFrame,
     SendLoggedInFrame, Exchange!SendLoggedInFrame
<1>5. /\ Exchange!Merges(mf) = Merges(mf) /\ Exchange!Merged(mf) = Merged(mf)
      /\ Exchange!ErrorDue(mf) = ErrorDue(mf) /\ Exchange!LoginDue(mf) = LoginDue(mf)
  BY <1>2 DEF Merges, Exchange!Merges, Merged, Exchange!Merged, ErrorDue, Exchange!ErrorDue,
              LoginDue, Exchange!LoginDue
<1>6. Exchange!Reply(mf) = Reply(mf)
  BY <1>4, <1>5 DEF Reply, Exchange!Reply
<1>7. /\ Exchange!IgnoreFrame(mf) = IgnoreFrame(mf)
      /\ Exchange!AnswerLogin(mf) = AnswerLogin(mf)
      /\ Exchange!QueryLogin(mf) = QueryLogin(mf)
      /\ Exchange!QueryError(mf) = QueryError(mf)
      /\ Exchange!AnswerStatus(mf) = AnswerStatus(mf)
  BY <1>1, <1>5 DEF IgnoreFrame, Exchange!IgnoreFrame, AnswerLogin, Exchange!AnswerLogin,
     QueryLogin, Exchange!QueryLogin, QueryError, Exchange!QueryError, AnswerStatus,
     Exchange!AnswerStatus, handlerVars, Exchange!handlerVars
<1> QED
  BY <1>1, <1>6, <1>7 DEF HandleMasterFrame, Exchange!HandleMasterFrame

\* And the unit of FujiAcUnitSim.
LEMMA SameUnit ==
  /\ Exchange!GetNextMasterFrame = Sim!GetNextMasterFrame
  /\ Exchange!NextMasterFrame = Sim!NextMasterFrame
  /\ Exchange!InitialStatus = Sim!InitialStatus
  /\ \A mf : Exchange!Content(mf) = Sim!Content(mf)
  /\ \A cf : Exchange!PushControllerFrame(cf) = Sim!PushControllerFrame(cf)
<1>1. Exchange!InitialStatus = Sim!InitialStatus /\ Exchange!StatusAfterSend = Sim!StatusAfterSend
  BY DEF Sim!InitialStatus, Exchange!InitialStatus, Sim!StatusAfterSend, Exchange!StatusAfterSend,
         Sim!SendsStatus, Exchange!SendsStatus
<1>2. /\ Exchange!GetNextMasterFrame = Sim!GetNextMasterFrame
      /\ Exchange!NextMasterFrame = Sim!NextMasterFrame
  BY <1>1 DEF Sim!GetNextMasterFrame, Exchange!GetNextMasterFrame, Sim!NextMasterFrame,
     Exchange!NextMasterFrame, Sim!SendsStatus, Exchange!SendsStatus
<1>3. \A mf : Exchange!Content(mf) = Sim!Content(mf)
  BY <1>1 DEF Sim!Content, Exchange!Content
<1>4. ASSUME NEW cf
      PROVE  Exchange!PushControllerFrame(cf) = Sim!PushControllerFrame(cf)
  <2>1. Exchange!StatusAfterPush(cf) = Sim!StatusAfterPush(cf)
    BY DEF Sim!StatusAfterPush, Exchange!StatusAfterPush, Sim!Accepts, Exchange!Accepts,
           Sim!Written, Exchange!Written
  <2> QED
    BY <2>1 DEF Sim!PushControllerFrame, Exchange!PushControllerFrame
<1> QED
  BY <1>1, <1>2, <1>3, <1>4

\* Bytes that are a whole frame are eight.
LEMMA WholeIsEight ==
  ASSUME NEW r \in Seq(Byte), NEW w \in Seq(Byte), NEW f \in Frames, r \o w = Inverted(f)
  PROVE  Len(r) + Len(w) = 8
<1>1. Len(r \o w) = Len(r) + Len(w)
  BY ConcatProperties
<1>2. Len(r \o w) = 8
  BY InvertedTyped
<1> QED
  BY <1>1, <1>2

\* A step that leaves handler and unit may only lose the frame.
LEMMA FrameKeptOrGone ==
  ASSUME UNCHANGED <<handlerVars, unitVars>>, LineFrame' = LineFrame \/ LineFrame' = {}
  PROVE  LineExchangeStep
<1>1. UNCHANGED <<acState, errorRead, loginRead, StatusRecord, nextQuery>>
  BY DEF handlerVars, unitVars, StatusRecord
<1>2. CASE LineFrame' = LineFrame
  BY <1>1, <1>2 DEF LineExchangeStep
<1>3. CASE LineFrame' = {}
  BY <1>1, <1>3 DEF LineExchangeStep, Exchange!Next, Exchange!Discard, Exchange!handlerVars,
                    Exchange!unitVars, LineFrame, StatusRecord
<1> QED
  BY <1>2, <1>3

\* What the unit sends is under way at once, whole.
LEMMA ExchangeSend ==
  ASSUME KeepsUp, LineInv, UnitSends
  PROVE  LineExchangeStep
<1>1. TypeInv /\ rx' = <<>> /\ wire' = Inverted(NextFrame) /\ lastSent' = NextFrame
  BY DEF LineInv, UnitSends, CaughtUp
<1>2. NextFrame \in Frames
  BY <1>1, NextFrameTyped DEF TypeInv, LineTypeOK, UnitBytesOK
<1>3. FrameUnderWay'
  <2>1. NextFrame # <<>>
    <3>1. DOMAIN NextFrame = 1..8
      BY <1>2 DEF Frames
    <3>2. Len(<<>>) = 0 /\ DOMAIN <<>> = {}
      OBVIOUS
    <3> QED
      BY <3>1, <3>2
  <2>2. <<>> \o Inverted(NextFrame) = Inverted(NextFrame)
    BY <1>2, InvertedTyped, ConcatEmptySeq
  <2> QED
    BY <1>1, <2>1, <2>2 DEF FrameUnderWay
<1>4. /\ Sim!GetNextMasterFrame
      /\ Addressed(MasterFrame(lastSent'))
      /\ MasterFrame(lastSent').type = Sim!NextMasterFrame.type
      /\ Sim!SendsStatus => MasterFrame(lastSent').status = Sim!NextMasterFrame.status
  BY <1>1, SendStepMeans
<1>5. Sim!Content(MasterFrame(lastSent')) = Sim!Content(Sim!NextMasterFrame)
  <2> DEFINE mf == MasterFrame(lastSent')
             sent == Sim!NextMasterFrame
  <2>1. mf = [destination |-> mf.destination, type |-> mf.type, status |-> mf.status]
    BY DEF MasterFrame
  <2>2. sent = [destination |-> "WIRED_CONTROLLER_ADDR", type |-> sent.type,
                status |-> sent.status]
    BY DEF Sim!NextMasterFrame
  <2>3. sent.type = "STATUS" => Sim!SendsStatus
    BY DEF Sim!NextMasterFrame, Sim!SendsStatus
  <2>4. /\ mf.destination = "WIRED_CONTROLLER_ADDR" /\ mf.type = sent.type
        /\ sent.type = "STATUS" => mf.status = sent.status
    BY <1>4, <2>3 DEF Addressed
  <2> HIDE DEF mf, sent
  <2>5. CASE sent.type = "STATUS"
    <3>1. mf = sent
      BY <2>1, <2>2, <2>4, <2>5
    <3> QED
      BY <3>1 DEF mf, sent
  <2>6. CASE sent.type # "STATUS"
    <3>1. [mf EXCEPT !.status = Sim!InitialStatus] = [sent EXCEPT !.status = Sim!InitialStatus]
      <4>1. /\ [mf EXCEPT !.status = Sim!InitialStatus] =
                 [destination |-> mf.destination, type |-> mf.type,
                  status |-> Sim!InitialStatus]
            /\ [sent EXCEPT !.status = Sim!InitialStatus] =
                 [destination |-> "WIRED_CONTROLLER_ADDR", type |-> sent.type,
                  status |-> Sim!InitialStatus]
        BY <2>1, <2>2
      <4> QED
        BY <2>4, <4>1
    <3>2. Sim!Content(mf) = Sim!Content(sent)
      BY <2>4, <2>6, <3>1 DEF Sim!Content
    <3> QED
      BY <3>2 DEF mf, sent
  <2> QED
    BY <2>5, <2>6
<1>6. LineFrame' = {Exchange!Content(Exchange!NextMasterFrame)}
  <2>1. LineFrame' = {Sim!Content(MasterFrame(lastSent'))}
    BY <1>3 DEF LineFrame
  <2> QED
    BY <1>5, <2>1, SameUnit
<1>7. Exchange!GetNextMasterFrame /\ UNCHANGED handlerVars
  BY <1>4, SameUnit DEF UnitSends
<1> QED
  BY <1>6, <1>7 DEF LineExchangeStep, Exchange!Next, Exchange!Send, Exchange!handlerVars,
                    handlerVars, LineFrame

\* Three pieces of bytes make the same sequence whichever join comes first.
LEMMA ConcatBytes ==
  ASSUME NEW s \in Seq(Byte), NEW t \in Seq(Byte), NEW u \in Seq(Byte)
  PROVE  (s \o t) \o u = s \o (t \o u)
OBVIOUS

\* Bytes that arrive are the bytes that were under way.
LEMMA ExchangeDeliver ==
  ASSUME LineInv, NEW n \in Chunks, Deliver(n)
  PROVE  LineExchangeStep
<1>1. n \in 1..8 /\ n <= Len(wire)
  BY SerialAssumption DEF SerialAssumption, Deliver
<1>2. wire \in Seq(Byte) /\ rx \in Seq(Byte) /\ Len(wire) \in Nat
  BY LenProperties DEF LineInv, TypeInv, LineTypeOK
<1> DEFINE chunk == SubSeq(wire, 1, n)
           rest == SubSeq(wire, n + 1, Len(wire))
<1>3. chunk \in Seq(Byte) /\ rest \in Seq(Byte)
  <2>1. 1 \in 1..Len(wire) + 1 /\ n + 1 \in 1..Len(wire) + 1 /\ n \in Nat
    BY <1>1, <1>2
  <2> QED
    BY <1>1, <1>2, <2>1, SubSeqTyped
<1>4. chunk \o rest = wire
  <2>1. /\ 1 \in 1..Len(wire) + 1 /\ n \in 1 - 1..Len(wire)
        /\ Len(wire) \in n..Len(wire)
    BY <1>1, <1>2
  <2>2. chunk \o rest = SubSeq(wire, 1, Len(wire))
    BY <1>2, <2>1, ConcatAdjacentSubSeq
  <2>3. SubSeq(wire, 1, Len(wire)) = wire
    BY <1>2, SubSeqFull
  <2> QED
    BY <2>2, <2>3
<1>5. rx' = rx \o chunk /\ wire' = rest /\ UNCHANGED <<handlerVars, unitVars, loop, lastSent>>
  BY DEF Deliver
<1> HIDE DEF chunk, rest
<1>6. rx' \o wire' = rx \o wire
  <2>1. (rx \o chunk) \o rest = rx \o (chunk \o rest)
    <3>1. rx \in Seq(Byte) /\ chunk \in Seq(Byte) /\ rest \in Seq(Byte)
      BY <1>2, <1>3
    <3> QED
      BY <3>1, ConcatBytes
  <2>2. rx' \o wire' = (rx \o chunk) \o rest
    BY <1>5
  <2>3. rx \o (chunk \o rest) = rx \o wire
    BY <1>4
  <2> QED
    BY <2>1, <2>2, <2>3
<1>7. loop # "handle"
  BY <1>1, EmptySeq DEF LineInv, QuietWhileHandling
<1>8. FrameUnderWay' = FrameUnderWay
  BY <1>5, <1>6 DEF FrameUnderWay
<1>9. LineFrame' = LineFrame
  BY <1>5, <1>7, <1>8 DEF LineFrame, FrameInHand
<1> QED
  BY <1>5, <1>9, FrameKeptOrGone

\* A lost or dropped byte, or a cleared buffer: the frame is gone, unless all
\* of it was still on the wire of a new process.
LEMMA ExchangeShorter ==
  ASSUME KeepsUp, LineInv, Lose \/ SkipIncomplete \/ Restart
  PROVE  LineExchangeStep
<1>1. /\ wire \in Seq(Byte) /\ rx \in Seq(Byte) /\ Len(wire) \in Nat /\ Len(rx) \in Nat
      /\ Len(rx) + Len(wire) <= 8 /\ Len(<<>>) = 0
  BY LenProperties, EmptySeq DEF LineInv, TypeInv, LineTypeOK, OneFrameAtMost
<1>2. wire' \in Seq(Byte) /\ rx' \in Seq(Byte) /\ lastSent' \in Frames \cup {<<>>}
  BY WorldStepTyped, LineStepTyped DEF LineInv, TypeInv, LineTypeOK
<1>3. FrameUnderWay' => Len(rx') + Len(wire') = 8
  BY <1>2, WholeIsEight DEF FrameUnderWay
<1>4. CASE Lose
  <2>1. Len(wire') < Len(wire) /\ Len(wire') \in Nat /\ rx' = rx
    BY <1>1, <1>4, LenZero, HeadTailProperties DEF Lose
  <2>2. ~FrameUnderWay'
    <3>1. Len(rx') + Len(wire') < 8
      BY <1>1, <2>1
    <3> QED
      BY <1>3, <3>1
  <2>3. loop' # "handle"
    BY <1>4 DEF Lose, LineInv, QuietWhileHandling
  <2>4. LineFrame' = {}
    BY <2>2, <2>3 DEF LineFrame, FrameInHand
  <2> QED
    BY <1>4, <2>4, FrameKeptOrGone DEF Lose
<1>5. CASE SkipIncomplete
  <2>1. loop' = "read" /\ rx' = <<>> /\ wire' = wire /\ Len(rx) \in 1..7
    BY <1>5 DEF SkipIncomplete
  <2>2. ~FrameUnderWay'
    <3>1. Len(rx') = 0 /\ Len(wire') = Len(wire)
      BY <1>1, <2>1
    <3>2. \A m \in 1..7 : \A k \in Nat : m + k <= 8 => 0 + k # 8
      OBVIOUS
    <3>3. 0 + Len(wire) # 8
      BY <1>1, <2>1, <3>2
    <3> QED
      BY <1>3, <3>1, <3>3
  <2>3. LineFrame' = {}
    BY <2>1, <2>2 DEF LineFrame, FrameInHand
  <2> QED
    BY <1>5, <2>3, FrameKeptOrGone DEF SkipIncomplete
<1>6. CASE Restart
  <2>1. /\ acState' = InitialAcState /\ errorRead' = FALSE /\ loginRead' = TRUE
        /\ rx' = <<>> /\ loop' = "read" /\ UNCHANGED <<statusRegister, nextQuery, wire, lastSent>>
    BY <1>6 DEF Restart, unitVars
  <2>2. FrameUnderWay' => FrameUnderWay
    <3>1. SUFFICES ASSUME FrameUnderWay' PROVE FrameUnderWay
      OBVIOUS
    <3>2. Len(rx') + Len(wire) = 8 /\ Len(rx') = 0
      BY <1>1, <1>3, <2>1, <3>1
    <3>3. Len(rx) = 0
      <4>1. \A m, k \in Nat : m + k <= 8 /\ 0 + k = 8 => m = 0
        OBVIOUS
      <4>2. 0 + Len(wire) = 8
        BY <3>2
      <4> QED
        BY <1>1, <4>1, <4>2
    <3>4. rx = rx'
      BY <1>1, <2>1, <3>3, LenZero
    <3> QED
      BY <2>1, <3>1, <3>4 DEF FrameUnderWay
  <2>3. LineFrame' \in {LineFrame, {}}
    BY <2>1, <2>2 DEF LineFrame, FrameInHand
  <2>4. acState' = Exchange!InitialAcState
    BY <2>1 DEF InitialAcState, Exchange!InitialAcState
  <2> QED
    BY <2>1, <2>3, <2>4 DEF LineExchangeStep, Exchange!Next, Exchange!Restart,
                            Exchange!unitVars, LineFrame
<1> QED
  BY <1>4, <1>5, <1>6

\* What is read as a frame for the handler was the frame under way; other
\* bytes read were none.
LEMMA ExchangeRead ==
  ASSUME KeepsUp, LineInv, ReadMasterFrame
  PROVE  LineExchangeStep
<1>1. LineInv'
  BY LineStep DEF Next
<1>2. /\ wire \in Seq(Byte) /\ rx \in Seq(Byte) /\ Len(wire) \in Nat /\ Len(rx) \in Nat
      /\ Len(<<>>) = 0
  BY LenProperties, EmptySeq DEF LineInv, TypeInv, LineTypeOK
<1>3. Len(rx) = 8 /\ Len(wire) = 0
  <2>1. Len(rx) >= 8 /\ Len(rx) + Len(wire) <= 8
    BY DEF ReadMasterFrame, LineInv, OneFrameAtMost
  <2>2. \A m, k \in Nat : m >= 8 /\ m + k <= 8 => m = 8 /\ k = 0
    OBVIOUS
  <2> QED
    BY <1>2, <2>1, <2>2
<1>4. /\ loop' = "handle" /\ inbox' = Inverted(SubSeq(rx, 1, 8))
      /\ UNCHANGED <<handlerVars, unitVars, lastSent>>
  BY DEF ReadMasterFrame
<1>5. rx' = <<>> /\ wire' = <<>>
  BY <1>1, <1>4 DEF LineInv, QuietWhileHandling
<1>6. ~FrameUnderWay'
  <2>1. lastSent' \in Frames \cup {<<>>} /\ <<>> \in Seq(Byte)
    BY <1>1, EmptySeq DEF LineInv, TypeInv, LineTypeOK
  <2>2. FrameUnderWay' => Len(<<>>) + Len(<<>>) = 8
    BY <1>5, <2>1, WholeIsEight DEF FrameUnderWay
  <2> QED
    BY <1>2, <2>2
<1>7. CASE ~FrameInHand'
  <2>1. LineFrame' = {}
    BY <1>6, <1>7 DEF LineFrame
  <2> QED
    BY <1>4, <2>1, FrameKeptOrGone
<1>8. CASE FrameInHand'
  <2>1. inbox' = lastSent /\ inbox' \in Frames
    BY <1>1, <1>4, <1>8 DEF FrameInHand, LineInv, WholeFramesOnly, TypeInv
  <2>2. SubSeq(rx, 1, 8) = rx
    BY <1>2, <1>3, SubSeqFull
  <2>3. rx \in Frames
    BY <1>2, <1>3, LenProperties DEF Frames
  <2>4. Inverted(lastSent) = rx
    BY <1>4, <2>1, <2>2, <2>3, InvertedTyped
  <2>5. rx \o wire = rx
    BY <1>2, <1>3, LenZero, ConcatEmptySeq
  <2>6. lastSent # <<>>
    <3>1. DOMAIN lastSent = 1..8
      BY <2>1 DEF Frames
    <3>2. DOMAIN <<>> = {}
      OBVIOUS
    <3> QED
      BY <3>1, <3>2
  <2>7. FrameUnderWay
    BY <2>4, <2>5, <2>6 DEF FrameUnderWay
  <2>8. LineFrame' = LineFrame
    BY <1>4, <1>8, <2>7 DEF LineFrame
  <2> QED
    BY <1>4, <2>8, FrameKeptOrGone
<1> QED
  BY <1>7, <1>8

\* After a frame is handled nothing of the unit's is under way: an echo of the
\* reply is not the unit's frame.
LEMMA HandledIsGone ==
  ASSUME LineInv, HandleWithoutReply \/ HandleAndReply
  PROVE  LineFrame' = {}
<1> DEFINE mf == MasterFrame(inbox)
<1>1. loop = "handle" /\ mf \in MasterFrames /\ HandlerTypeOK
  BY MasterFrameTyped DEF HandleWithoutReply, HandleAndReply, LineInv, TypeInv, LineTypeOK
<1>2. rx = <<>> /\ wire = <<>>
  BY <1>1 DEF LineInv, QuietWhileHandling
<1>3. rx' = <<>> /\ loop' = "read" /\ lastSent' = lastSent
  BY <1>2 DEF HandleWithoutReply, HandleAndReply, HandleInbox
<1>4. /\ lastSent \in Frames \cup {<<>>} /\ Len(<<>>) = 0 /\ <<>> \in Seq(Byte)
      /\ Addressed(mf) => inbox = lastSent
  BY <1>1, EmptySeq DEF LineInv, TypeInv, LineTypeOK, WholeFramesOnly
<1>5. CASE wire' = <<>>
  <2>1. FrameUnderWay' => Len(<<>>) + Len(<<>>) = 8
    BY <1>3, <1>4, <1>5, WholeIsEight DEF FrameUnderWay
  <2>2. ~FrameUnderWay'
    BY <1>4, <2>1
  <2> QED
    BY <1>3, <2>2 DEF LineFrame, FrameInHand
<1>6. CASE wire' # <<>>
  <2>1. Replies(mf) /\ wire' = <<>> \o Inverted(ReplyBytes(mf))
    BY <1>2, <1>6 DEF HandleWithoutReply, HandleAndReply
  <2> HIDE DEF mf
  <2>2. ReplyBytes(mf) \in Frames /\ ReplyBytes(mf)[2] % 128 # 32
    BY <1>1, ReplyBytesTyped
  <2>3. wire' = Inverted(ReplyBytes(mf)) /\ rx' \o wire' = Inverted(ReplyBytes(mf))
    BY <1>3, <2>1, <2>2, InvertedTyped, ConcatEmptySeq
  <2>4. inbox = lastSent /\ lastSent[2] % 128 = 32
    BY <1>4, <2>1, AddressedByByte2 DEF Replies, mf
  <2>5. ~FrameUnderWay'
    <3>1. SUFFICES ASSUME FrameUnderWay' PROVE FALSE
      OBVIOUS
    <3>2. Inverted(lastSent) = Inverted(ReplyBytes(mf)) /\ lastSent \in Frames
      BY <1>3, <1>4, <2>3, <3>1 DEF FrameUnderWay
    <3>3. lastSent = ReplyBytes(mf)
      BY <2>2, <3>2, InvertedTyped
    <3> QED
      BY <2>2, <2>4, <3>3
  <2> QED
    BY <1>3, <2>5 DEF LineFrame, FrameInHand
<1> QED
  BY <1>5, <1>6

\* Handling a frame is an answer to the frame in hand, or nothing.
LEMMA ExchangeHandle ==
  ASSUME LineInv, HandleWithoutReply \/ HandleAndReply
  PROVE  LineExchangeStep
<1>1. LineFrame' = {}
  BY HandledIsGone
<1>2. CASE HandleWithoutReply
  <2>1. UNCHANGED <<handlerVars, unitVars>>
    BY <1>2 DEF HandleWithoutReply, HandleInbox, HandleMasterFrame, IgnoreFrame, AnswerLogin,
                QueryLogin, QueryError, AnswerStatus, Replies
  <2> QED
    BY <1>1, <2>1, FrameKeptOrGone
<1>3. CASE HandleAndReply
  <2> DEFINE mf == MasterFrame(inbox)
             content == Sim!Content(mf)
  <2>1. loop = "handle" /\ Replies(mf) /\ HandleMasterFrame(mf)
    BY <1>3 DEF HandleAndReply, HandleInbox
  <2>2. Sim!PushControllerFrame(Reply(mf)) \/ UNCHANGED unitVars
    BY <1>3, ReplyStepMeans DEF LineInv
  <2>3. LineFrame = {content}
    <3>1. FrameInHand /\ inbox = lastSent
      BY <2>1 DEF FrameInHand, Replies, LineInv, WholeFramesOnly
    <3> QED
      BY <3>1 DEF LineFrame
  <2>4. /\ content.destination = mf.destination /\ content.type = mf.type
        /\ mf.type = "STATUS" => content.status = mf.status
    BY DEF Sim!Content, MasterFrame
  <2> HIDE DEF mf, content
  <2>5. Replies(content) /\ Reply(content) = Reply(mf) /\ HandleMasterFrame(content)
    BY <2>1, <2>4, ContentDecides
  <2>6. /\ Exchange!Replies(content) /\ Exchange!HandleMasterFrame(content)
        /\ Exchange!Reply(content) = Reply(mf)
    BY <2>5, SameHandler
  <2>7. Exchange!PushControllerFrame(Exchange!Reply(content)) \/ UNCHANGED <<StatusRecord, nextQuery>>
    BY <2>2, <2>6, SameUnit DEF unitVars, StatusRecord
  <2> QED
    BY <1>1, <2>3, <2>6, <2>7
       DEF LineExchangeStep, Exchange!Next, Exchange!Answer, Exchange!unitVars, LineFrame,
           StatusRecord
<1> QED
  BY <1>2, <1>3

\* A user's setting is a change of the copy; the handler's two flags in it stay.
LEMMA ExchangeUser ==
  ASSUME TypeInv, UserStep
  PROVE  LineExchangeStep
<1>1. UNCHANGED <<errorRead, loginRead, statusRegister, nextQuery, rx, wire, loop, inbox, lastSent>>
  BY DEF UserStep, unitVars, lineVars
<1>2. LineFrame' = LineFrame /\ StatusRecord' = StatusRecord
  BY <1>1 DEF LineFrame, FrameUnderWay, FrameInHand, StatusRecord
<1>3. acState \in AcStates /\ acState' \in AcStates
  BY WorldStepTyped DEF TypeInv, LineTypeOK, HandlerTypeOK
<1>4. PICK setting \in DOMAIN User : \E v \in User[setting] :
             acState' = [acState EXCEPT ![setting] = v, !.merged = FALSE]
  BY DEF UserStep
<1>5. PICK v \in User[setting] : acState' = [acState EXCEPT ![setting] = v, !.merged = FALSE]
  BY <1>4
<1>6. setting \in {"enabled", "mode", "fan", "economy", "temperature", "swing", "swingStep"}
  BY UserAssumption DEF UserAssumption
<1>7. /\ ~acState'.merged
      /\ acState'.errorFlag = acState.errorFlag
      /\ acState'.controllerPresent = acState.controllerPresent
  <2>1. /\ "merged" \in DOMAIN acState /\ "errorFlag" \in DOMAIN acState
        /\ "controllerPresent" \in DOMAIN acState
    BY <1>3 DEF AcStates
  <2>2. /\ acState'["merged"] = FALSE
        /\ acState'["errorFlag"] = acState["errorFlag"]
        /\ acState'["controllerPresent"] = acState["controllerPresent"]
    BY <1>5, <1>6, <2>1
  <2> QED
    BY <2>2
<1>8. acState' \in Exchange!AcStates
  BY <1>3 DEF AcStates, Exchange!AcStates, Modes, Exchange!Modes, Fans, Exchange!Fans, Byte,
              Exchange!Byte
<1> QED
  BY <1>1, <1>2, <1>7, <1>8
     DEF LineExchangeStep, Exchange!Next, Exchange!UserChange, Exchange!unitVars, LineFrame,
         StatusRecord

\* The remote and a fault change the register, not the registration.
LEMMA ExchangeUnit ==
  ASSUME TypeInv, RemoteStep \/ UnitFault
  PROVE  LineExchangeStep
<1>1. UNCHANGED <<acState, errorRead, loginRead, nextQuery, rx, wire, loop, inbox, lastSent>>
  BY DEF RemoteStep, RemoteSet, UnitFault, ErrorAppears, handlerVars, lineVars
<1>2. LineFrame' = LineFrame
  BY <1>1 DEF LineFrame, FrameUnderWay, FrameInHand
<1>3. UnitBytesOK /\ StatusRecord \in StatusRegisters /\ StatusRecord' \in StatusRegisters
  BY WorldStepTyped, PayloadTyped, DecodedTyped
     DEF TypeInv, LineTypeOK, UnitBytesOK, StatusRecord
<1>4. StatusRecord'.controllerPresent = StatusRecord.controllerPresent
  <2>1. CASE RemoteStep
    <3>1. PICK setting \in DOMAIN Remote : \E v \in Remote[setting] : RemoteSet(setting, v)
      BY <2>1 DEF RemoteStep
    <3>2. PICK v \in Remote[setting] : RemoteSet(setting, v)
      BY <3>1
    <3>3. Sim!RemoteSet(setting, v)
      BY <1>3, <3>2, RemoteMeans
    <3>4. StatusRecord' = [StatusRecord EXCEPT ![setting] = v]
      BY <3>3 DEF Sim!RemoteSet, StatusRecord
    <3>5. setting # "controllerPresent"
      BY RemoteAssumption DEF RemoteAssumption
    <3> QED
      BY <1>3, <3>4, <3>5 DEF StatusRegisters
  <2>2. CASE UnitFault
    <3>1. Sim!ToggleErrorBit \/ UNCHANGED unitVars
      BY <1>3, <2>2, FaultMeans DEF UnitFault
    <3>2. StatusRecord' = [StatusRecord EXCEPT !.error = ~@] \/ StatusRecord' = StatusRecord
      BY <3>1 DEF Sim!ToggleErrorBit, StatusRecord, unitVars
    <3> QED
      BY <1>3, <3>2 DEF StatusRegisters
  <2> QED
    BY <2>1, <2>2
<1>5. StatusRecord' \in Exchange!StatusRegisters
  BY <1>3 DEF StatusRegisters, Exchange!StatusRegisters, Modes, Exchange!Modes, Fans,
              Exchange!Fans, Temperatures, Exchange!Temperatures
<1> QED
  BY <1>1, <1>2, <1>4, <1>5
     DEF LineExchangeStep, Exchange!Next, Exchange!UnitChange, Exchange!handlerVars, LineFrame,
         StatusRecord

\* The constructor's bytes 0x46 0x12 0xa0 0x00 0x20 as they read.
LEMMA InitialRegisterRead ==
  ASSUME statusRegister = <<0, 0, 0, 70, 18, 160, 0, 32>>
  PROVE  StatusRecord = Sim!InitialStatus
<1> DEFINE b == Payload(statusRegister)
<1>1. statusRegister \in Frames
  BY DEF Frames, Byte
<1>2. b[1] = 70 /\ b[2] = 18 /\ b[3] = 160 /\ b[4] = 0
  <2>1. \A i \in 1..5 : b[i] = statusRegister[i + 3]
    BY <1>1, PayloadTyped
  <2> HIDE DEF b
  <2>2. /\ b[1] = statusRegister[4] /\ b[2] = statusRegister[5]
        /\ b[3] = statusRegister[6] /\ b[4] = statusRegister[7]
    BY <2>1
  <2> QED
    BY <2>2
<1> HIDE DEF b
<1>3. /\ R!Bits(70, 1, 2) = 0 /\ R!Bits(70, 2, 8) = 3 /\ R!Bits(70, 16, 8) = 4
      /\ R!Bits(70, 128, 2) = 0 /\ R!Bits(18, 128, 2) = 0 /\ R!Bits(18, 1, 128) = 18
      /\ R!Bits(160, 4, 2) = 0 /\ R!Bits(160, 2, 2) = 0 /\ R!Bits(0, 1, 2) = 0
  BY DEF R!Bits
<1>4. R!Named(3, R!ModeCode) = "COOL" /\ R!Named(4, R!FanCode) = "MAX"
  <2>1. "COOL" \in Modes /\ "MAX" \in Fans
    BY DEF Modes, Fans
  <2>2. R!ModeCode["COOL"] = 3 /\ R!FanCode["MAX"] = 4
    BY DEF R!ModeCode, R!FanCode
  <2> QED
    BY <2>1, <2>2, NamedInverse
<1>5. /\ R!Enabled(b) = FALSE /\ R!Mode(b) = "COOL" /\ R!Fan(b) = "MAX"
      /\ R!Error(b) = FALSE /\ R!Economy(b) = FALSE /\ R!Temperature(b) = 18
      /\ R!Swing(b) = FALSE /\ R!SwingStep(b) = FALSE /\ R!ControllerPresent(b) = FALSE
  BY <1>2, <1>3, <1>4 DEF R!Enabled, R!Mode, R!Fan, R!Error, R!Economy, R!Temperature,
     R!Swing, R!SwingStep, R!ControllerPresent
<1> QED
  BY <1>5 DEF R!Decoded, Sim!InitialStatus, StatusRecord, b

\* Nothing is under way at the start.
LEMMA InitExchange == Init => Exchange!Init
<1> SUFFICES ASSUME Init PROVE Exchange!Init
  OBVIOUS
<1>1. Exchange!HandlerInit
  BY DEF Init, HandlerInit, Exchange!HandlerInit, InitialAcState, Exchange!InitialAcState
<1>2. Exchange!UnitInit
  BY InitialRegisterRead, SameUnit DEF Init, UnitInit, Exchange!UnitInit, StatusRecord
<1>3. LineFrame = {}
  BY DEF Init, LineFrame, FrameUnderWay, FrameInHand
<1> QED
  BY <1>1, <1>2, <1>3 DEF Exchange!Init, LineFrame

\* Every step of the line is a step of the exchange or none.
LEMMA NextExchange ==
  KeepsUp /\ LineInv /\ [Next]_vars => [Exchange!Next]_(Exchange!vars)
<1> SUFFICES ASSUME KeepsUp, LineInv, [Next]_vars PROVE LineExchangeStep
  BY DEF LineExchangeStep, Exchange!vars, Exchange!handlerVars, Exchange!unitVars, LineFrame,
         StatusRecord
<1>1. CASE UNCHANGED vars
  <2>1. UNCHANGED <<handlerVars, unitVars>> /\ LineFrame' = LineFrame
    BY <1>1 DEF vars, lineVars, LineFrame, FrameUnderWay, FrameInHand
  <2> QED
    BY <2>1, FrameKeptOrGone
<1>2. CASE DeliverSome
  BY <1>2, ExchangeDeliver DEF DeliverSome
<1>3. TypeInv
  BY DEF LineInv
<1> QED
  BY <1>1, <1>2, <1>3, ExchangeSend, ExchangeShorter, ExchangeRead, ExchangeHandle,
     ExchangeUser, ExchangeUnit DEF Next

\* However the line cuts, loses or echoes bytes and whenever the process starts
\* again, a frame of a unit that waits for its reader is answered whole, once and
\* before the next one, or not at all (ReadMasterFrame, serial_reader.cc:146-171).
THEOREM LineExchangesFrames == ASSUME KeepsUp PROVE Spec => ImplementsExchange
<1>1. Init => LineInv /\ Exchange!Init
  BY LineInit, InitExchange
<1>2. LineInv /\ [Next]_vars => LineInv' /\ [Exchange!Next]_(Exchange!vars)
  BY LineStep, NextExchange
<1> QED
  BY <1>1, <1>2, PTL DEF Spec, ImplementsExchange, Exchange!Spec
==============================================================================
