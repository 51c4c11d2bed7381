---------------------- MODULE FujiAcUnitRegistersProofs ----------------------
(***************************************************************************)
(* Proofs about bytes: what the codec of frames and registers and the unit *)
(* built on it keep and mean, for every byte and every value set.          *)
(***************************************************************************)
EXTENDS FujiAcUnitRegisters, SequenceTheorems, TLAPS

FiveBytes == [1..5 -> Byte]

(***************************************************************************)
(* The byte codec stays within bytes.                                      *)
(***************************************************************************)
\* An enumeration's code fits its three bits, and reading gives a member.
LEMMA CodesFit ==
  /\ \A m \in Modes : R!ModeCode[m] \in 0..7
  /\ \A f \in Fans : R!FanCode[f] \in 0..7
  /\ \A t \in RegisterTypes : RegisterCode[t] \in 0..3
BY DEF Modes, Fans, RegisterTypes, R!ModeCode, R!FanCode, RegisterCode

\* A code, known or not, reads as a member of its enumeration.
LEMMA NamesTyped ==
  /\ \A code : R!Named(code, R!ModeCode) \in Modes
  /\ \A code : R!Named(code, R!FanCode) \in Fans
  /\ \A code : R!Named(code, RegisterCode) \in RegisterTypes
<1>1. /\ DOMAIN R!ModeCode = Modes
      /\ DOMAIN R!FanCode = Fans
      /\ DOMAIN RegisterCode = RegisterTypes
  BY DEF Modes, Fans, RegisterTypes, R!ModeCode, R!FanCode, RegisterCode
<1>2. ASSUME NEW code, NEW codes, "UNKNOWN" \in DOMAIN codes
      PROVE  R!Named(code, codes) \in DOMAIN codes
  BY <1>2 DEF R!Named
<1>3. "UNKNOWN" \in Modes /\ "UNKNOWN" \in Fans /\ "UNKNOWN" \in RegisterTypes
  BY DEF Modes, Fans, RegisterTypes
<1> QED
  BY <1>1, <1>2, <1>3

\* A field written into a byte leaves a byte, wherever the field lies.
LEMMA FieldsFit ==
  ASSUME NEW x \in Byte
  PROVE  /\ \A v \in 0..1 : /\ R!WithBits(x, 1, 2, v) \in Byte
                            /\ R!WithBits(x, 2, 2, v) \in Byte
                            /\ R!WithBits(x, 4, 2, v) \in Byte
                            /\ R!WithBits(x, 8, 2, v) \in Byte
                            /\ R!WithBits(x, 32, 2, v) \in Byte
                            /\ R!WithBits(x, 128, 2, v) \in Byte
         /\ \A v \in 0..3 : R!WithBits(x, 16, 4, v) \in Byte
         /\ \A v \in 0..7 : /\ R!WithBits(x, 2, 8, v) \in Byte
                            /\ R!WithBits(x, 16, 8, v) \in Byte
         /\ \A v \in 0..15 : R!WithBits(x, 16, 16, v) \in Byte
         /\ \A v \in 0..127 : R!WithBits(x, 1, 128, v) \in Byte
<1>1. \A v \in 0..1 : /\ R!WithBits(x, 1, 2, v) \in Byte
                      /\ R!WithBits(x, 2, 2, v) \in Byte
                      /\ R!WithBits(x, 4, 2, v) \in Byte
                      /\ R!WithBits(x, 8, 2, v) \in Byte
                      /\ R!WithBits(x, 32, 2, v) \in Byte
                      /\ R!WithBits(x, 128, 2, v) \in Byte
  BY SMTT(20) DEF Byte, R!WithBits, R!Bits
<1>2. \A v \in 0..3 : R!WithBits(x, 16, 4, v) \in Byte
  BY SMTT(20) DEF Byte, R!WithBits, R!Bits
<1>3. \A v \in 0..7 : R!WithBits(x, 2, 8, v) \in Byte /\ R!WithBits(x, 16, 8, v) \in Byte
  BY SMTT(20) DEF Byte, R!WithBits, R!Bits
<1>4. \A v \in 0..15 : R!WithBits(x, 16, 16, v) \in Byte
  BY SMTT(20) DEF Byte, R!WithBits, R!Bits
<1>5. \A v \in 0..127 : R!WithBits(x, 1, 128, v) \in Byte
  BY SMTT(20) DEF Byte, R!WithBits, R!Bits
<1> QED
  BY <1>1, <1>2, <1>3, <1>4, <1>5

\* Every setter of the STATUS register leaves five bytes.
LEMMA SettersKeepBytes ==
  ASSUME NEW b \in FiveBytes
  PROVE  /\ \A v \in BOOLEAN : /\ R!SetEnabled(b, v) \in FiveBytes
                               /\ R!SetError(b, v) \in FiveBytes
                               /\ R!SetEconomy(b, v) \in FiveBytes
                               /\ R!SetSwing(b, v) \in FiveBytes
                               /\ R!SetSwingStep(b, v) \in FiveBytes
                               /\ R!SetControllerPresent(b, v) \in FiveBytes
         /\ \A v \in Modes : R!SetMode(b, v) \in FiveBytes
         /\ \A v \in Fans : R!SetFan(b, v) \in FiveBytes
         /\ \A v \in Byte : R!SetTemperature(b, v) \in FiveBytes
         /\ \A v \in 0..15 : R!SetUpdateMagic(b, v) \in FiveBytes
<1>1. \A i \in 1..5 : b[i] \in Byte
  BY DEF FiveBytes
<1>2. ASSUME NEW i \in 1..5, NEW x \in Byte
      PROVE  [b EXCEPT ![i] = x] \in FiveBytes
  BY DEF FiveBytes
<1>3. \A v \in BOOLEAN : R!Bit(v) \in 0..1
  BY DEF R!Bit
<1>4. ASSUME NEW v \in BOOLEAN
      PROVE  /\ R!SetEnabled(b, v) \in FiveBytes
             /\ R!SetError(b, v) \in FiveBytes
             /\ R!SetEconomy(b, v) \in FiveBytes
             /\ R!SetSwing(b, v) \in FiveBytes
             /\ R!SetSwingStep(b, v) \in FiveBytes
             /\ R!SetControllerPresent(b, v) \in FiveBytes
  <2>1. R!Bit(v) \in 0..1
    BY <1>3
  <2>2. /\ R!WithBits(b[1], 1, 2, R!Bit(v)) \in Byte
        /\ R!WithBits(b[1], 128, 2, R!Bit(v)) \in Byte
        /\ R!WithBits(b[2], 128, 2, R!Bit(v)) \in Byte
        /\ R!WithBits(b[3], 4, 2, R!Bit(v)) \in Byte
        /\ R!WithBits(b[3], 2, 2, R!Bit(v)) \in Byte
        /\ R!WithBits(b[4], 1, 2, R!Bit(v)) \in Byte
    BY <1>1, <2>1, FieldsFit
  <2>3. R!SetEnabled(b, v) \in FiveBytes
    BY <1>2, <2>2 DEF R!SetEnabled
  <2>4. R!SetError(b, v) \in FiveBytes
    BY <1>2, <2>2 DEF R!SetError
  <2>5. R!SetEconomy(b, v) \in FiveBytes
    BY <1>2, <2>2 DEF R!SetEconomy
  <2>6. R!SetSwing(b, v) \in FiveBytes
    BY <1>2, <2>2 DEF R!SetSwing
  <2>7. R!SetSwingStep(b, v) \in FiveBytes
    BY <1>2, <2>2 DEF R!SetSwingStep
  <2>8. R!SetControllerPresent(b, v) \in FiveBytes
    BY <1>2, <2>2 DEF R!SetControllerPresent
  <2> QED
    BY <2>3, <2>4, <2>5, <2>6, <2>7, <2>8
<1>5. /\ \A v \in Modes : R!SetMode(b, v) \in FiveBytes
      /\ \A v \in Fans : R!SetFan(b, v) \in FiveBytes
  BY <1>1, <1>2, CodesFit, FieldsFit DEF R!SetMode, R!SetFan
<1>6. \A v \in Byte : R!SetTemperature(b, v) \in FiveBytes
  <2>1. TAKE v \in Byte
  <2>2. CASE v < 128
    <3>1. v \in 0..127
      BY <2>2 DEF Byte
    <3>2. \A w \in 0..127 : R!WithBits(b[2], 1, 128, w) \in Byte
      BY <1>1, FieldsFit
    <3>3. R!WithBits(b[2], 1, 128, v) \in Byte
      BY <3>1, <3>2
    <3> QED
      BY <1>2, <2>2, <3>3 DEF R!SetTemperature
  <2>3. CASE ~(v < 128)
    BY <1>2, <2>3 DEF R!SetTemperature
  <2> QED
    BY <2>2, <2>3
<1>7. \A v \in 0..15 : R!SetUpdateMagic(b, v) \in FiveBytes
  BY <1>1, <1>2, FieldsFit DEF R!SetUpdateMagic
<1> QED
  BY <1>4, <1>5, <1>6, <1>7

\* Every getter returns a value of its type.
LEMMA DecodedTyped ==
  ASSUME NEW b \in FiveBytes
  PROVE  R!Decoded(b) \in StatusRegisters
<1>1. R!Temperature(b) \in Temperatures
  <2>1. b[2] \in Byte
    BY DEF FiveBytes
  <2> QED
    BY <2>1 DEF R!Temperature, R!Bits, Temperatures, Byte
<1>2. R!Mode(b) \in Modes /\ R!Fan(b) \in Fans
  BY NamesTyped DEF R!Mode, R!Fan
<1> QED
  BY <1>1, <1>2 DEF R!Decoded, StatusRegisters, R!Enabled, R!Error, R!Economy, R!Swing,
                    R!SwingStep, R!ControllerPresent

-----------------------------------------------------------------------------
(***************************************************************************)
(* Frames and their payloads.                                              *)
(***************************************************************************)
LEMMA PayloadTyped ==
  ASSUME NEW f \in Frames
  PROVE  /\ Payload(f) \in FiveBytes
         /\ \A i \in 1..5 : Payload(f)[i] = f[i + 3]
<1>1. \A i \in 1..8 : f[i] \in Byte
  BY DEF Frames
<1>2. /\ Payload(f) \in Seq(Byte) /\ Len(Payload(f)) = 5
      /\ \A i \in 1..5 : Payload(f)[i] = f[i + 3]
  BY <1>1, SubSeqProperties DEF Payload
<1>3. Payload(f) \in [1..5 -> Byte]
  BY <1>2, LenProperties
<1> QED
  BY <1>2, <1>3 DEF FiveBytes

\* A function on 1..n is a sequence of length n.
LEMMA FunctionIsSeq ==
  ASSUME NEW S, NEW n \in Nat, NEW f \in [1..n -> S]
  PROVE  f \in Seq(S) /\ Len(f) = n
<1> DEFINE g == SubSeq(f, 1, n)
<1>1. \A i \in 1..n : f[i] \in S
  OBVIOUS
<1>2. g \in Seq(S) /\ Len(g) = n /\ \A i \in 1..n : g[i] = f[i]
  BY <1>1, SubSeqProperties
<1>3. g \in [1..n -> S]
  BY <1>2, LenProperties
<1>4. g = f
  BY <1>2, <1>3
<1> QED
  BY <1>2, <1>4

\* A frame with a new payload is a frame, its head the old one.
LEMMA WithPayloadTyped ==
  ASSUME NEW f \in Frames, NEW b \in FiveBytes
  PROVE  /\ WithPayload(f, b) \in Frames
         /\ \A i \in 1..3 : WithPayload(f, b)[i] = f[i]
         /\ \A i \in 1..5 : WithPayload(f, b)[i + 3] = b[i]
<1>1. \A i \in 1..8 : f[i] \in Byte
  BY DEF Frames
<1> DEFINE head == SubSeq(f, 1, 3)
<1>2. head \in Seq(Byte) /\ Len(head) = 3 /\ \A i \in 1..3 : head[i] = f[i]
  BY <1>1, SubSeqProperties
<1>3. /\ WithPayload(f, b) \in Seq(Byte) /\ Len(WithPayload(f, b)) = 8
      /\ \A i \in 1..8 : WithPayload(f, b)[i] = IF i <= 3 THEN head[i] ELSE b[i - 3]
  <2>1. b \in Seq(Byte) /\ Len(b) = 5
    BY FunctionIsSeq DEF FiveBytes
  <2> HIDE DEF head
  <2>2. /\ head \o b \in Seq(Byte) /\ Len(head \o b) = 8
        /\ \A i \in 1..8 : (head \o b)[i] = IF i <= 3 THEN head[i] ELSE b[i - 3]
    <3>1. /\ head \o b \in Seq(Byte)
          /\ Len(head \o b) = Len(head) + Len(b)
          /\ \A i \in 1..Len(head) + Len(b) : (head \o b)[i] =
                IF i <= Len(head) THEN head[i] ELSE b[i - Len(head)]
      BY <1>2, <2>1, ConcatProperties
    <3>2. Len(head) = 3 /\ Len(head) + Len(b) = 8
      BY <1>2, <2>1
    <3> QED
      BY <3>1, <3>2
  <2> QED
    BY <2>2 DEF WithPayload, head
<1>4. WithPayload(f, b) \in [1..8 -> Byte]
  BY <1>3, LenProperties
<1> QED
  BY <1>2, <1>3, <1>4 DEF Frames

\* The line inverts bytes; inverting a frame twice gives the frame.
LEMMA InvertedTyped ==
  ASSUME NEW f \in Frames
  PROVE  /\ Inverted(f) \in Frames /\ Inverted(f) \in Seq(Byte) /\ Len(Inverted(f)) = 8
         /\ Inverted(Inverted(f)) = f
         /\ \A i \in 1..8 : Inverted(f)[i] = 255 - f[i]
<1>1. \A i \in 1..8 : f[i] \in Byte /\ 255 - f[i] \in Byte /\ 255 - (255 - f[i]) = f[i]
  <2>1. \A i \in 1..8 : f[i] \in Byte
    BY Zenon DEF Frames
  <2>2. \A b \in Byte : 255 - b \in Byte /\ 255 - (255 - b) = b
    BY DEF Byte
  <2> TAKE i \in 1..8
  <2>3. f[i] \in Byte
    BY <2>1
  <2> QED
    BY <2>2, <2>3
<1>2. Inverted(f) = [i \in 1..8 |-> 255 - f[i]]
  <2>1. DOMAIN f = 1..8
    BY DEF Frames
  <2> QED
    BY <2>1, Zenon DEF Inverted
<1>3. Inverted(f) \in [1..8 -> Byte]
  BY <1>1, <1>2
<1>4. Inverted(Inverted(f)) = [i \in 1..8 |-> 255 - Inverted(f)[i]]
  BY <1>3 DEF Inverted
<1>5. Inverted(Inverted(f)) = f
  BY <1>1, <1>2, <1>4 DEF Frames
<1>6. Inverted(f) \in Seq(Byte) /\ Len(Inverted(f)) = 8
  BY <1>3, FunctionIsSeq
<1> QED
  BY <1>2, <1>3, <1>5, <1>6 DEF Frames

\* Setting one byte of a frame leaves a frame.
LEMMA ByteTyped ==
  ASSUME NEW f \in Frames
  PROVE  /\ \A i \in 1..8 : f[i] \in Byte
         /\ \A i \in 1..8 : \A x \in Byte : [f EXCEPT ![i] = x] \in Frames
BY DEF Frames

\* What the handler decodes from eight bytes is a master frame.
LEMMA MasterFrameTyped ==
  ASSUME NEW f \in Frames
  PROVE  MasterFrame(f) \in MasterFrames
<1>1. R!Decoded(Payload(f)) \in StatusRegisters
  BY PayloadTyped, DecodedTyped
<1>2. Type(f) \in RegisterTypes
  BY NamesTyped DEF Type
<1>3. Destination(f) \in Destinations
  BY DEF Destination, Destinations
<1> QED
  BY <1>1, <1>2, <1>3 DEF MasterFrame, MasterFrames

-----------------------------------------------------------------------------
(***************************************************************************)
(* The unit on bytes.                                                      *)
(***************************************************************************)
UnitBytesOK == statusRegister \in Frames /\ nextQuery \in RegisterTypes

\* A status register changed in its payload is still eight bytes.
LEMMA StatusTyped ==
  ASSUME UnitBytesOK, NEW b \in FiveBytes, StatusBecomes(b)
  PROVE  statusRegister' \in Frames
BY WithPayloadTyped DEF UnitBytesOK, StatusBecomes

\* The five status bytes the unit sends are five bytes.
LEMMA SentTyped ==
  ASSUME UnitBytesOK
  PROVE  StatusSent \in FiveBytes
BY PayloadTyped, SettersKeepBytes DEF UnitBytesOK, StatusSent

\* The frame the unit sends is eight bytes.
LEMMA NextFrameTyped ==
  ASSUME UnitBytesOK
  PROVE  NextFrame \in Frames
<1> DEFINE register == CASE nextQuery = "ERROR" -> ErrorRegister
                         [] nextQuery = "LOGIN" -> LoginRegister
                         [] OTHER -> WithPayload(statusRegister, StatusSent)
           type == IF Sim!SendsStatus THEN "STATUS" ELSE nextQuery
           typed == WithType(register, type)
           marked == WithUnknownBit(typed, TRUE)
<1>1. register \in Frames
  <2>1. ErrorRegister \in Frames /\ LoginRegister \in Frames
    BY SMTT(20) DEF ErrorRegister, LoginRegister, Frames, Byte
  <2>2. WithPayload(statusRegister, StatusSent) \in Frames
    BY SentTyped, WithPayloadTyped DEF UnitBytesOK
  <2> QED
    BY <2>1, <2>2
<1> HIDE DEF register
<1>2. type \in RegisterTypes
  BY DEF UnitBytesOK, RegisterTypes
<1> HIDE DEF type
<1>3. typed \in Frames
  <2>1. R!WithBits(register[3], 16, 4, RegisterCode[type]) \in Byte
    BY <1>1, <1>2, CodesFit, FieldsFit, ByteTyped
  <2> QED
    BY <1>1, <2>1, ByteTyped DEF WithType
<1> HIDE DEF typed
<1>4. marked \in Frames
  <2>1. R!WithBits(typed[2], 128, 2, 1) \in Byte
    BY <1>3, FieldsFit, ByteTyped
  <2>2. marked = [typed EXCEPT ![2] = R!WithBits(typed[2], 128, 2, 1)]
    BY Zenon DEF WithUnknownBit, R!Bit
  <2>3. [typed EXCEPT ![2] = R!WithBits(typed[2], 128, 2, 1)] \in Frames
    BY <1>3, <2>1, ByteTyped
  <2> QED
    BY <2>2, <2>3, Zenon
<1> HIDE DEF marked
<1>5. WithDestination(marked, 32) \in Frames
  <2>1. R!WithBits(marked[2], 1, 128, 32) \in Byte
    BY <1>4, FieldsFit, ByteTyped
  <2> QED
    BY <1>4, <2>1, ByteTyped DEF WithDestination
<1> QED
  BY <1>5 DEF NextFrame, register, type, typed, marked

\* Sending keeps the unit's register eight bytes.
LEMMA UnitSendKeeps ==
  ASSUME UnitBytesOK, GetNextMasterFrame
  PROVE  UnitBytesOK'
<1>1. R!SetUpdateMagic(StatusSent, 10) \in FiveBytes
  BY SentTyped, SettersKeepBytes
<1> QED
  BY <1>1, StatusTyped DEF GetNextMasterFrame, UnitBytesOK

\* A written payload leaves five bytes.
LEMMA TakenTyped ==
  ASSUME NEW b \in FiveBytes, NEW p \in FiveBytes
  PROVE  Taken(b, p) \in FiveBytes
<1> DEFINE settings == R!SetFan(R!SetMode(R!SetEnabled(b, R!Enabled(p)), R!Mode(p)), R!Fan(p))
           economy == R!SetEconomy(settings, R!Economy(p))
           flaps == R!SetSwingStep(R!SetSwing(economy, R!Swing(p)), R!SwingStep(p))
<1>1. /\ R!Enabled(p) \in BOOLEAN /\ R!Economy(p) \in BOOLEAN
      /\ R!Swing(p) \in BOOLEAN /\ R!SwingStep(p) \in BOOLEAN
  BY DEF R!Enabled, R!Economy, R!Swing, R!SwingStep
<1>2. R!Mode(p) \in Modes /\ R!Fan(p) \in Fans
  BY NamesTyped DEF R!Mode, R!Fan
<1>3. R!Temperature(p) \in Byte /\ 18 \in Byte
  <2>1. p[2] \in Byte
    BY DEF FiveBytes
  <2> QED
    BY <2>1 DEF R!Temperature, R!Bits, Byte
<1>4. settings \in FiveBytes
  BY <1>1, <1>2, SettersKeepBytes
<1> HIDE DEF settings
<1>5. economy \in FiveBytes
  BY <1>1, <1>4, SettersKeepBytes
<1> HIDE DEF economy
<1>6. flaps \in FiveBytes
  BY <1>1, <1>5, SettersKeepBytes
<1> HIDE DEF flaps
<1>7. /\ R!SetUpdateMagic(R!SetTemperature(flaps, 18), 4) \in FiveBytes
      /\ R!SetUpdateMagic(R!SetTemperature(flaps, R!Temperature(p)), 0) \in FiveBytes
  BY <1>3, <1>6, SettersKeepBytes
<1> QED
  BY <1>7 DEF Taken, settings, economy, flaps

\* Taking a reply keeps the unit's register eight bytes.
LEMMA UnitPushKeeps ==
  ASSUME UnitBytesOK, NEW f \in Frames, PushControllerFrame(f)
  PROVE  UnitBytesOK'
<1> DEFINE st == Payload(statusRegister)
           present == IF LoginBit(f) THEN R!SetControllerPresent(st, TRUE) ELSE st
<1>1. present \in FiveBytes
  BY PayloadTyped, SettersKeepBytes DEF UnitBytesOK
<1> HIDE DEF present
<1>2. Taken(present, Payload(f)) \in FiveBytes
  BY <1>1, PayloadTyped, TakenTyped
<1>3. QueryRegister(f) \in RegisterTypes
  BY NamesTyped DEF QueryRegister
<1>4. /\ nextQuery' = IF QueryRegister(f) = "UNKNOWN" THEN nextQuery ELSE QueryRegister(f)
      /\ StatusBecomes(IF QueryRegister(f) = "STATUS" /\ WriteBit(f)
                         THEN Taken(present, Payload(f)) ELSE present)
  BY DEF PushControllerFrame, present
<1> QED
  BY <1>1, <1>2, <1>3, <1>4, StatusTyped DEF UnitBytesOK

\* The remote, too.
LEMMA UnitRemoteKeeps ==
  ASSUME UnitBytesOK, NEW setting \in DOMAIN Remote, NEW v \in Remote[setting],
         RemoteSet(setting, v)
  PROVE  UnitBytesOK'
<1> DEFINE st == Payload(statusRegister)
<1>1. st \in FiveBytes
  BY PayloadTyped DEF UnitBytesOK
<1> HIDE DEF st
<1>2. setting \in {"enabled", "mode", "fan", "temperature", "economy", "swing", "swingStep"}
  BY RemoteAssumption DEF RemoteAssumption
<1>3. WithSetting(st, setting, v) \in FiveBytes
  <2>1. CASE setting \in {"enabled", "economy", "swing", "swingStep"}
    <3>1. v \in BOOLEAN
      BY <2>1, RemoteAssumption DEF RemoteAssumption
    <3> QED
      BY <1>1, <2>1, <3>1, SettersKeepBytes DEF WithSetting
  <2>2. CASE setting = "mode"
    BY <1>1, <2>2, SettersKeepBytes, RemoteAssumption DEF WithSetting, RemoteAssumption
  <2>3. CASE setting = "fan"
    BY <1>1, <2>3, SettersKeepBytes, RemoteAssumption DEF WithSetting, RemoteAssumption
  <2>4. CASE setting = "temperature"
    <3>1. v \in Byte
      BY <2>4, RemoteAssumption DEF RemoteAssumption, Temperatures, Byte
    <3> QED
      BY <1>1, <2>4, <3>1, SettersKeepBytes DEF WithSetting
  <2> QED
    BY <1>2, <2>1, <2>2, <2>3, <2>4
<1>4. R!SetUpdateMagic(WithSetting(st, setting, v), 4) \in FiveBytes
  BY <1>3, SettersKeepBytes
<1> QED
  BY <1>4, StatusTyped DEF RemoteSet, UnitBytesOK, st

\* And a fault.
LEMMA UnitFaultKeeps ==
  ASSUME UnitBytesOK, ErrorAppears
  PROVE  UnitBytesOK'
<1>1. R!SetError(Payload(statusRegister), TRUE) \in FiveBytes
  BY PayloadTyped, SettersKeepBytes DEF UnitBytesOK
<1> QED
  BY <1>1, StatusTyped DEF ErrorAppears, UnitBytesOK

-----------------------------------------------------------------------------
(***************************************************************************)
(* What the bytes mean: a field reads as it was written, and writing one   *)
(* field changes no other, whatever the byte held.                         *)
(***************************************************************************)
\* Byte 1: enabled, mode, fan, error.
LEMMA Byte1Fields ==
  ASSUME NEW x \in Byte
  PROVE  /\ \A v \in 0..1 :
               /\ R!Bits(R!WithBits(x, 1, 2, v), 1, 2) = v
               /\ R!Bits(R!WithBits(x, 1, 2, v), 2, 8) = R!Bits(x, 2, 8)
               /\ R!Bits(R!WithBits(x, 1, 2, v), 16, 8) = R!Bits(x, 16, 8)
               /\ R!Bits(R!WithBits(x, 1, 2, v), 128, 2) = R!Bits(x, 128, 2)
         /\ \A v \in 0..7 :
               /\ R!Bits(R!WithBits(x, 2, 8, v), 2, 8) = v
               /\ R!Bits(R!WithBits(x, 2, 8, v), 1, 2) = R!Bits(x, 1, 2)
               /\ R!Bits(R!WithBits(x, 2, 8, v), 16, 8) = R!Bits(x, 16, 8)
               /\ R!Bits(R!WithBits(x, 2, 8, v), 128, 2) = R!Bits(x, 128, 2)
         /\ \A v \in 0..7 :
               /\ R!Bits(R!WithBits(x, 16, 8, v), 16, 8) = v
               /\ R!Bits(R!WithBits(x, 16, 8, v), 1, 2) = R!Bits(x, 1, 2)
               /\ R!Bits(R!WithBits(x, 16, 8, v), 2, 8) = R!Bits(x, 2, 8)
               /\ R!Bits(R!WithBits(x, 16, 8, v), 128, 2) = R!Bits(x, 128, 2)
         /\ \A v \in 0..1 :
               /\ R!Bits(R!WithBits(x, 128, 2, v), 128, 2) = v
               /\ R!Bits(R!WithBits(x, 128, 2, v), 1, 2) = R!Bits(x, 1, 2)
               /\ R!Bits(R!WithBits(x, 128, 2, v), 2, 8) = R!Bits(x, 2, 8)
               /\ R!Bits(R!WithBits(x, 128, 2, v), 16, 8) = R!Bits(x, 16, 8)
<1>1. \A v \in 0..1 :
        /\ R!Bits(R!WithBits(x, 1, 2, v), 1, 2) = v
        /\ R!Bits(R!WithBits(x, 1, 2, v), 2, 8) = R!Bits(x, 2, 8)
        /\ R!Bits(R!WithBits(x, 1, 2, v), 16, 8) = R!Bits(x, 16, 8)
        /\ R!Bits(R!WithBits(x, 1, 2, v), 128, 2) = R!Bits(x, 128, 2)
  BY SMTT(20) DEF Byte, R!WithBits, R!Bits
<1>2. \A v \in 0..7 :
        /\ R!Bits(R!WithBits(x, 2, 8, v), 2, 8) = v
        /\ R!Bits(R!WithBits(x, 2, 8, v), 1, 2) = R!Bits(x, 1, 2)
        /\ R!Bits(R!WithBits(x, 2, 8, v), 16, 8) = R!Bits(x, 16, 8)
        /\ R!Bits(R!WithBits(x, 2, 8, v), 128, 2) = R!Bits(x, 128, 2)
  BY SMTT(20) DEF Byte, R!WithBits, R!Bits
<1>3. \A v \in 0..7 :
        /\ R!Bits(R!WithBits(x, 16, 8, v), 16, 8) = v
        /\ R!Bits(R!WithBits(x, 16, 8, v), 1, 2) = R!Bits(x, 1, 2)
        /\ R!Bits(R!WithBits(x, 16, 8, v), 2, 8) = R!Bits(x, 2, 8)
        /\ R!Bits(R!WithBits(x, 16, 8, v), 128, 2) = R!Bits(x, 128, 2)
  BY SMTT(20) DEF Byte, R!WithBits, R!Bits
<1>4. \A v \in 0..1 :
        /\ R!Bits(R!WithBits(x, 128, 2, v), 128, 2) = v
        /\ R!Bits(R!WithBits(x, 128, 2, v), 1, 2) = R!Bits(x, 1, 2)
        /\ R!Bits(R!WithBits(x, 128, 2, v), 2, 8) = R!Bits(x, 2, 8)
        /\ R!Bits(R!WithBits(x, 128, 2, v), 16, 8) = R!Bits(x, 16, 8)
  BY SMTT(20) DEF Byte, R!WithBits, R!Bits
<1> QED
  BY <1>1, <1>2, <1>3, <1>4

\* Byte 2: economy and temperature.
LEMMA Byte2Fields ==
  ASSUME NEW x \in Byte
  PROVE  /\ \A v \in 0..1 :
               /\ R!Bits(R!WithBits(x, 128, 2, v), 128, 2) = v
               /\ R!Bits(R!WithBits(x, 128, 2, v), 1, 128) = R!Bits(x, 1, 128)
         /\ \A v \in 0..127 :
               /\ R!Bits(R!WithBits(x, 1, 128, v), 1, 128) = v
               /\ R!Bits(R!WithBits(x, 1, 128, v), 128, 2) = R!Bits(x, 128, 2)
<1>1. \A v \in 0..1 :
        /\ R!Bits(R!WithBits(x, 128, 2, v), 128, 2) = v
        /\ R!Bits(R!WithBits(x, 128, 2, v), 1, 128) = R!Bits(x, 1, 128)
  BY SMTT(20) DEF Byte, R!WithBits, R!Bits
<1>2. \A v \in 0..127 :
        /\ R!Bits(R!WithBits(x, 1, 128, v), 1, 128) = v
        /\ R!Bits(R!WithBits(x, 1, 128, v), 128, 2) = R!Bits(x, 128, 2)
  BY SMTT(20) DEF Byte, R!WithBits, R!Bits
<1> QED
  BY <1>1, <1>2

\* Byte 3: update magic, swing, swing step.
LEMMA Byte3Fields ==
  ASSUME NEW x \in Byte
  PROVE  /\ \A v \in 0..15 :
               /\ R!Bits(R!WithBits(x, 16, 16, v), 16, 16) = v
               /\ R!Bits(R!WithBits(x, 16, 16, v), 4, 2) = R!Bits(x, 4, 2)
               /\ R!Bits(R!WithBits(x, 16, 16, v), 2, 2) = R!Bits(x, 2, 2)
         /\ \A v \in 0..1 :
               /\ R!Bits(R!WithBits(x, 4, 2, v), 4, 2) = v
               /\ R!Bits(R!WithBits(x, 4, 2, v), 16, 16) = R!Bits(x, 16, 16)
               /\ R!Bits(R!WithBits(x, 4, 2, v), 2, 2) = R!Bits(x, 2, 2)
         /\ \A v \in 0..1 :
               /\ R!Bits(R!WithBits(x, 2, 2, v), 2, 2) = v
               /\ R!Bits(R!WithBits(x, 2, 2, v), 16, 16) = R!Bits(x, 16, 16)
               /\ R!Bits(R!WithBits(x, 2, 2, v), 4, 2) = R!Bits(x, 4, 2)
<1>1. \A v \in 0..15 :
        /\ R!Bits(R!WithBits(x, 16, 16, v), 16, 16) = v
        /\ R!Bits(R!WithBits(x, 16, 16, v), 4, 2) = R!Bits(x, 4, 2)
        /\ R!Bits(R!WithBits(x, 16, 16, v), 2, 2) = R!Bits(x, 2, 2)
  BY SMTT(20) DEF Byte, R!WithBits, R!Bits
<1>2. \A v \in 0..1 :
        /\ R!Bits(R!WithBits(x, 4, 2, v), 4, 2) = v
        /\ R!Bits(R!WithBits(x, 4, 2, v), 16, 16) = R!Bits(x, 16, 16)
        /\ R!Bits(R!WithBits(x, 4, 2, v), 2, 2) = R!Bits(x, 2, 2)
  BY SMTT(20) DEF Byte, R!WithBits, R!Bits
<1>3. \A v \in 0..1 :
        /\ R!Bits(R!WithBits(x, 2, 2, v), 2, 2) = v
        /\ R!Bits(R!WithBits(x, 2, 2, v), 16, 16) = R!Bits(x, 16, 16)
        /\ R!Bits(R!WithBits(x, 2, 2, v), 4, 2) = R!Bits(x, 4, 2)
  BY SMTT(20) DEF Byte, R!WithBits, R!Bits
<1> QED
  BY <1>1, <1>2, <1>3

\* Byte 4: the controller's presence.
LEMMA Byte4Fields ==
  ASSUME NEW x \in Byte
  PROVE  \A v \in 0..1 : R!Bits(R!WithBits(x, 1, 2, v), 1, 2) = v
BY DEF Byte, R!WithBits, R!Bits

\* An enumeration's code reads as the member it was written for.
LEMMA NamedInverse ==
  /\ \A m \in Modes : R!Named(R!ModeCode[m], R!ModeCode) = m
  /\ \A f \in Fans : R!Named(R!FanCode[f], R!FanCode) = f
  /\ \A t \in RegisterTypes : R!Named(RegisterCode[t], RegisterCode) = t
<1>1. ASSUME NEW codes, NEW name \in DOMAIN codes,
             \A n, m \in DOMAIN codes : codes[n] = codes[m] => n = m
      PROVE  R!Named(codes[name], codes) = name
  BY <1>1 DEF R!Named
<1>2. /\ DOMAIN R!ModeCode = Modes
      /\ \A n, m \in Modes : R!ModeCode[n] = R!ModeCode[m] => n = m
  BY DEF Modes, R!ModeCode
<1>3. /\ DOMAIN R!FanCode = Fans
      /\ \A n, m \in Fans : R!FanCode[n] = R!FanCode[m] => n = m
  BY DEF Fans, R!FanCode
<1>4. /\ DOMAIN RegisterCode = RegisterTypes
      /\ \A n, m \in RegisterTypes : RegisterCode[n] = RegisterCode[m] => n = m
  BY DEF RegisterTypes, RegisterCode
<1> QED
  BY <1>1, <1>2, <1>3, <1>4

\* Every setting but those in changed reads the same in c and in b.
Same(c, b, changed) ==
  /\ "enabled" \notin changed => R!Enabled(c) = R!Enabled(b)
  /\ "mode" \notin changed => R!Mode(c) = R!Mode(b)
  /\ "fan" \notin changed => R!Fan(c) = R!Fan(b)
  /\ "error" \notin changed => R!Error(c) = R!Error(b)
  /\ "economy" \notin changed => R!Economy(c) = R!Economy(b)
  /\ "temperature" \notin changed => R!Temperature(c) = R!Temperature(b)
  /\ "swing" \notin changed => R!Swing(c) = R!Swing(b)
  /\ "swingStep" \notin changed => R!SwingStep(c) = R!SwingStep(b)
  /\ "controllerPresent" \notin changed => R!ControllerPresent(c) = R!ControllerPresent(b)

\* A changed byte leaves the settings of the other bytes.
LEMMA OtherBytesSame ==
  ASSUME NEW b, NEW c
  PROVE  /\ c[2] = b[2] /\ c[3] = b[3] /\ c[4] = b[4] =>
              Same(c, b, {"enabled", "mode", "fan", "error"})
         /\ c[1] = b[1] /\ c[3] = b[3] /\ c[4] = b[4] => Same(c, b, {"economy", "temperature"})
         /\ c[1] = b[1] /\ c[2] = b[2] /\ c[4] = b[4] => Same(c, b, {"swing", "swingStep"})
         /\ c[1] = b[1] /\ c[2] = b[2] /\ c[3] = b[3] => Same(c, b, {"controllerPresent"})
BY DEF Same, R!Enabled, R!Mode, R!Fan, R!Error, R!Economy, R!Temperature, R!Swing,
       R!SwingStep, R!ControllerPresent

\* SetEnabled changes enabled alone.
LEMMA SetEnabledRead ==
  ASSUME NEW b \in FiveBytes, NEW v \in BOOLEAN
  PROVE  /\ Same(R!SetEnabled(b, v), b, {"enabled"})
         /\ R!Enabled(R!SetEnabled(b, v)) = v
<1> DEFINE c == R!SetEnabled(b, v)
<1>1. b[1] \in Byte /\ R!Bit(v) \in 0..1
  BY DEF FiveBytes, R!Bit
<1>2. c[1] = R!WithBits(b[1], 1, 2, R!Bit(v))
  BY DEF R!SetEnabled, FiveBytes
<1>3. c[2] = b[2] /\ c[3] = b[3] /\ c[4] = b[4]
  BY DEF R!SetEnabled, FiveBytes
<1> HIDE DEF c
<1>4. Same(c, b, {"enabled", "mode", "fan", "error"})
  BY <1>3, OtherBytesSame
<1>5. /\ R!Bits(c[1], 1, 2) = R!Bit(v)
      /\ R!Bits(c[1], 2, 8) = R!Bits(b[1], 2, 8)
      /\ R!Bits(c[1], 16, 8) = R!Bits(b[1], 16, 8)
      /\ R!Bits(c[1], 128, 2) = R!Bits(b[1], 128, 2)
  BY <1>1, <1>2, Byte1Fields
<1>6. R!Mode(c) = R!Mode(b) /\ R!Fan(c) = R!Fan(b) /\ R!Error(c) = R!Error(b)
  BY <1>5, Zenon DEF R!Mode, R!Fan, R!Error
<1>7. R!Enabled(c) = v
  <2>1. R!Bits(c[1], 1, 2) = 1 <=> v
    BY <1>5 DEF R!Bit
  <2> QED
    BY <2>1, Zenon DEF R!Enabled
<1> QED
  BY <1>4, <1>6, <1>7 DEF Same, c

\* SetMode changes mode alone.
LEMMA SetModeRead ==
  ASSUME NEW b \in FiveBytes, NEW v \in Modes
  PROVE  /\ Same(R!SetMode(b, v), b, {"mode"})
         /\ R!Mode(R!SetMode(b, v)) = v
<1> DEFINE c == R!SetMode(b, v)
<1>1. b[1] \in Byte /\ R!ModeCode[v] \in 0..7
  BY CodesFit DEF FiveBytes, Byte
<1>2. c[1] = R!WithBits(b[1], 2, 8, R!ModeCode[v])
  BY DEF R!SetMode, FiveBytes
<1>3. c[2] = b[2] /\ c[3] = b[3] /\ c[4] = b[4]
  BY DEF R!SetMode, FiveBytes
<1> HIDE DEF c
<1>4. Same(c, b, {"enabled", "mode", "fan", "error"})
  BY <1>3, OtherBytesSame
<1>5. /\ R!Bits(c[1], 2, 8) = R!ModeCode[v]
      /\ R!Bits(c[1], 1, 2) = R!Bits(b[1], 1, 2)
      /\ R!Bits(c[1], 16, 8) = R!Bits(b[1], 16, 8)
      /\ R!Bits(c[1], 128, 2) = R!Bits(b[1], 128, 2)
  BY <1>1, <1>2, Byte1Fields
<1>6. R!Enabled(c) = R!Enabled(b) /\ R!Fan(c) = R!Fan(b) /\ R!Error(c) = R!Error(b)
  BY <1>5, Zenon DEF R!Enabled, R!Fan, R!Error
<1>7. R!Mode(c) = v
  BY <1>5, NamedInverse DEF R!Mode
<1> QED
  BY <1>4, <1>6, <1>7 DEF Same, c

\* SetFan changes fan alone.
LEMMA SetFanRead ==
  ASSUME NEW b \in FiveBytes, NEW v \in Fans
  PROVE  /\ Same(R!SetFan(b, v), b, {"fan"})
         /\ R!Fan(R!SetFan(b, v)) = v
<1> DEFINE c == R!SetFan(b, v)
<1>1. b[1] \in Byte /\ R!FanCode[v] \in 0..7
  BY CodesFit DEF FiveBytes, Byte
<1>2. c[1] = R!WithBits(b[1], 16, 8, R!FanCode[v])
  BY DEF R!SetFan, FiveBytes
<1>3. c[2] = b[2] /\ c[3] = b[3] /\ c[4] = b[4]
  BY DEF R!SetFan, FiveBytes
<1> HIDE DEF c
<1>4. Same(c, b, {"enabled", "mode", "fan", "error"})
  BY <1>3, OtherBytesSame
<1>5. /\ R!Bits(c[1], 16, 8) = R!FanCode[v]
      /\ R!Bits(c[1], 1, 2) = R!Bits(b[1], 1, 2)
      /\ R!Bits(c[1], 2, 8) = R!Bits(b[1], 2, 8)
      /\ R!Bits(c[1], 128, 2) = R!Bits(b[1], 128, 2)
  BY <1>1, <1>2, Byte1Fields
<1>6. R!Enabled(c) = R!Enabled(b) /\ R!Mode(c) = R!Mode(b) /\ R!Error(c) = R!Error(b)
  BY <1>5, Zenon DEF R!Enabled, R!Mode, R!Error
<1>7. R!Fan(c) = v
  BY <1>5, NamedInverse DEF R!Fan
<1> QED
  BY <1>4, <1>6, <1>7 DEF Same, c

\* SetError changes error alone.
LEMMA SetErrorRead ==
  ASSUME NEW b \in FiveBytes, NEW v \in BOOLEAN
  PROVE  /\ Same(R!SetError(b, v), b, {"error"})
         /\ R!Error(R!SetError(b, v)) = v
<1> DEFINE c == R!SetError(b, v)
<1>1. b[1] \in Byte /\ R!Bit(v) \in 0..1
  BY DEF FiveBytes, R!Bit
<1>2. c[1] = R!WithBits(b[1], 128, 2, R!Bit(v))
  BY DEF R!SetError, FiveBytes
<1>3. c[2] = b[2] /\ c[3] = b[3] /\ c[4] = b[4]
  BY DEF R!SetError, FiveBytes
<1> HIDE DEF c
<1>4. Same(c, b, {"enabled", "mode", "fan", "error"})
  BY <1>3, OtherBytesSame
<1>5. /\ R!Bits(c[1], 128, 2) = R!Bit(v)
      /\ R!Bits(c[1], 1, 2) = R!Bits(b[1], 1, 2)
      /\ R!Bits(c[1], 2, 8) = R!Bits(b[1], 2, 8)
      /\ R!Bits(c[1], 16, 8) = R!Bits(b[1], 16, 8)
  BY <1>1, <1>2, Byte1Fields
<1>6. R!Enabled(c) = R!Enabled(b) /\ R!Mode(c) = R!Mode(b) /\ R!Fan(c) = R!Fan(b)
  BY <1>5, Zenon DEF R!Enabled, R!Mode, R!Fan
<1>7. R!Error(c) = v
  <2>1. R!Bits(c[1], 128, 2) = 1 <=> v
    BY <1>5 DEF R!Bit
  <2> QED
    BY <2>1, Zenon DEF R!Error
<1> QED
  BY <1>4, <1>6, <1>7 DEF Same, c

\* SetEconomy changes economy alone.
LEMMA SetEconomyRead ==
  ASSUME NEW b \in FiveBytes, NEW v \in BOOLEAN
  PROVE  /\ Same(R!SetEconomy(b, v), b, {"economy"})
         /\ R!Economy(R!SetEconomy(b, v)) = v
<1> DEFINE c == R!SetEconomy(b, v)
<1>1. b[2] \in Byte /\ R!Bit(v) \in 0..1
  BY DEF FiveBytes, R!Bit
<1>2. c[2] = R!WithBits(b[2], 128, 2, R!Bit(v))
  BY DEF R!SetEconomy, FiveBytes
<1>3. c[1] = b[1] /\ c[3] = b[3] /\ c[4] = b[4]
  BY DEF R!SetEconomy, FiveBytes
<1> HIDE DEF c
<1>4. Same(c, b, {"economy", "temperature"})
  BY <1>3, OtherBytesSame
<1>5. /\ R!Bits(c[2], 128, 2) = R!Bit(v)
      /\ R!Bits(c[2], 1, 128) = R!Bits(b[2], 1, 128)
  BY <1>1, <1>2, Byte2Fields
<1>6. R!Temperature(c) = R!Temperature(b)
  BY <1>5, Zenon DEF R!Temperature
<1>7. R!Economy(c) = v
  <2>1. R!Bits(c[2], 128, 2) = 1 <=> v
    BY <1>5 DEF R!Bit
  <2> QED
    BY <2>1, Zenon DEF R!Economy
<1> QED
  BY <1>4, <1>6, <1>7 DEF Same, c

\* SetTemperature changes temperature alone.
LEMMA SetTemperatureRead ==
  ASSUME NEW b \in FiveBytes, NEW v \in Temperatures
  PROVE  /\ Same(R!SetTemperature(b, v), b, {"temperature"})
         /\ R!Temperature(R!SetTemperature(b, v)) = v
<1> DEFINE c == R!SetTemperature(b, v)
<1>1. b[2] \in Byte /\ v \in 0..127
  BY DEF FiveBytes, Temperatures
<1>2. c[2] = R!WithBits(b[2], 1, 128, v)
  BY DEF R!SetTemperature, FiveBytes, Temperatures
<1>3. c[1] = b[1] /\ c[3] = b[3] /\ c[4] = b[4]
  BY DEF R!SetTemperature, FiveBytes
<1> HIDE DEF c
<1>4. Same(c, b, {"economy", "temperature"})
  BY <1>3, OtherBytesSame
<1>5. /\ R!Bits(c[2], 1, 128) = v
      /\ R!Bits(c[2], 128, 2) = R!Bits(b[2], 128, 2)
  BY <1>1, <1>2, Byte2Fields
<1>6. R!Economy(c) = R!Economy(b)
  BY <1>5, Zenon DEF R!Economy
<1>7. R!Temperature(c) = v
  BY <1>5 DEF R!Temperature
<1> QED
  BY <1>4, <1>6, <1>7 DEF Same, c

\* SetSwing changes swing alone.
LEMMA SetSwingRead ==
  ASSUME NEW b \in FiveBytes, NEW v \in BOOLEAN
  PROVE  /\ Same(R!SetSwing(b, v), b, {"swing"})
         /\ R!Swing(R!SetSwing(b, v)) = v
<1> DEFINE c == R!SetSwing(b, v)
<1>1. b[3] \in Byte /\ R!Bit(v) \in 0..1
  BY DEF FiveBytes, R!Bit
<1>2. c[3] = R!WithBits(b[3], 4, 2, R!Bit(v))
  BY DEF R!SetSwing, FiveBytes
<1>3. c[1] = b[1] /\ c[2] = b[2] /\ c[4] = b[4]
  BY DEF R!SetSwing, FiveBytes
<1> HIDE DEF c
<1>4. Same(c, b, {"swing", "swingStep"})
  BY <1>3, OtherBytesSame
<1>5. /\ R!Bits(c[3], 4, 2) = R!Bit(v)
      /\ R!Bits(c[3], 2, 2) = R!Bits(b[3], 2, 2)
  BY <1>1, <1>2, Byte3Fields
<1>6. R!SwingStep(c) = R!SwingStep(b)
  BY <1>5, Zenon DEF R!SwingStep
<1>7. R!Swing(c) = v
  <2>1. R!Bits(c[3], 4, 2) = 1 <=> v
    BY <1>5 DEF R!Bit
  <2> QED
    BY <2>1, Zenon DEF R!Swing
<1> QED
  BY <1>4, <1>6, <1>7 DEF Same, c

\* SetSwingStep changes swingStep alone.
LEMMA SetSwingStepRead ==
  ASSUME NEW b \in FiveBytes, NEW v \in BOOLEAN
  PROVE  /\ Same(R!SetSwingStep(b, v), b, {"swingStep"})
         /\ R!SwingStep(R!SetSwingStep(b, v)) = v
<1> DEFINE c == R!SetSwingStep(b, v)
<1>1. b[3] \in Byte /\ R!Bit(v) \in 0..1
  BY DEF FiveBytes, R!Bit
<1>2. c[3] = R!WithBits(b[3], 2, 2, R!Bit(v))
  BY DEF R!SetSwingStep, FiveBytes
<1>3. c[1] = b[1] /\ c[2] = b[2] /\ c[4] = b[4]
  BY DEF R!SetSwingStep, FiveBytes
<1> HIDE DEF c
<1>4. Same(c, b, {"swing", "swingStep"})
  BY <1>3, OtherBytesSame
<1>5. /\ R!Bits(c[3], 2, 2) = R!Bit(v)
      /\ R!Bits(c[3], 4, 2) = R!Bits(b[3], 4, 2)
  BY <1>1, <1>2, Byte3Fields
<1>6. R!Swing(c) = R!Swing(b)
  BY <1>5, Zenon DEF R!Swing
<1>7. R!SwingStep(c) = v
  <2>1. R!Bits(c[3], 2, 2) = 1 <=> v
    BY <1>5 DEF R!Bit
  <2> QED
    BY <2>1, Zenon DEF R!SwingStep
<1> QED
  BY <1>4, <1>6, <1>7 DEF Same, c

\* SetControllerPresent changes controllerPresent alone.
LEMMA SetControllerPresentRead ==
  ASSUME NEW b \in FiveBytes, NEW v \in BOOLEAN
  PROVE  /\ Same(R!SetControllerPresent(b, v), b, {"controllerPresent"})
         /\ R!ControllerPresent(R!SetControllerPresent(b, v)) = v
<1> DEFINE c == R!SetControllerPresent(b, v)
<1>1. b[4] \in Byte /\ R!Bit(v) \in 0..1
  BY DEF FiveBytes, R!Bit
<1>2. c[4] = R!WithBits(b[4], 1, 2, R!Bit(v))
  BY DEF R!SetControllerPresent, FiveBytes
<1>3. c[1] = b[1] /\ c[2] = b[2] /\ c[3] = b[3]
  BY DEF R!SetControllerPresent, FiveBytes
<1> HIDE DEF c
<1>4. Same(c, b, {"controllerPresent"})
  BY <1>3, OtherBytesSame
<1>5. /\ R!Bits(c[4], 1, 2) = R!Bit(v)
  BY <1>1, <1>2, Byte4Fields
<1>7. R!ControllerPresent(c) = v
  <2>1. R!Bits(c[4], 1, 2) = 1 <=> v
    BY <1>5 DEF R!Bit
  <2> QED
    BY <2>1, Zenon DEF R!ControllerPresent
<1> QED
  BY <1>4, <1>7 DEF Same, c

\* The update mark is no setting.
LEMMA SetUpdateMagicRead ==
  ASSUME NEW b \in FiveBytes, NEW v \in 0..15
  PROVE  Same(R!SetUpdateMagic(b, v), b, {})
<1> DEFINE c == R!SetUpdateMagic(b, v)
<1>1. b[3] \in Byte
  BY DEF FiveBytes
<1>2. c[3] = R!WithBits(b[3], 16, 16, v)
  BY DEF R!SetUpdateMagic, FiveBytes
<1>3. c[1] = b[1] /\ c[2] = b[2] /\ c[4] = b[4]
  BY DEF R!SetUpdateMagic, FiveBytes
<1> HIDE DEF c
<1>4. Same(c, b, {"swing", "swingStep"})
  BY <1>3, OtherBytesSame
<1>5. R!Bits(c[3], 4, 2) = R!Bits(b[3], 4, 2) /\ R!Bits(c[3], 2, 2) = R!Bits(b[3], 2, 2)
  BY <1>1, <1>2, Byte3Fields
<1>6. R!Swing(c) = R!Swing(b) /\ R!SwingStep(c) = R!SwingStep(b)
  BY <1>5, Zenon DEF R!Swing, R!SwingStep
<1> QED
  BY <1>4, <1>6 DEF Same, c

\* A temperature of eight bits: the top one spills into the economy bit.
LEMMA SetTemperatureSpills ==
  ASSUME NEW b \in FiveBytes, NEW v \in Byte
  PROVE  /\ Same(R!SetTemperature(b, v), b, {"temperature", "economy"})
         /\ R!Temperature(R!SetTemperature(b, v)) = v % 128
         /\ R!Economy(R!SetTemperature(b, v)) <=> R!Economy(b) \/ v >= 128
<1>1. CASE v < 128
  <2>1. v \in Temperatures /\ v % 128 = v /\ ~(v >= 128)
    BY <1>1 DEF Byte, Temperatures
  <2>2. /\ Same(R!SetTemperature(b, v), b, {"temperature"})
        /\ R!Temperature(R!SetTemperature(b, v)) = v
    BY <2>1, SetTemperatureRead
  <2>3. R!Economy(R!SetTemperature(b, v)) = R!Economy(b)
    BY <2>2 DEF Same
  <2>4. Same(R!SetTemperature(b, v), b, {"temperature", "economy"})
    BY <2>2 DEF Same
  <2> QED
    BY <2>1, <2>2, <2>3, <2>4
<1>2. CASE ~(v < 128)
  <2> DEFINE c == R!SetTemperature(b, v)
  <2>1. c[2] = v
    BY <1>2 DEF R!SetTemperature, FiveBytes
  <2>2. c[1] = b[1] /\ c[3] = b[3] /\ c[4] = b[4]
    BY <1>2 DEF R!SetTemperature, FiveBytes
  <2> HIDE DEF c
  <2>3. Same(c, b, {"economy", "temperature"})
    BY <2>2, OtherBytesSame
  <2>4. R!Bits(v, 128, 2) = 1 /\ R!Bits(v, 1, 128) = v % 128 /\ v >= 128
    BY <1>2 DEF R!Bits, Byte
  <2>5. R!Temperature(c) = v % 128
    BY <2>1, <2>4 DEF R!Temperature
  <2>6. R!Economy(c) /\ v >= 128
    BY <2>1, <2>4 DEF R!Economy
  <2>7. {"economy", "temperature"} = {"temperature", "economy"}
    OBVIOUS
  <2> QED
    BY <2>3, <2>5, <2>6, <2>7 DEF c
<1> QED
  BY <1>1, <1>2

\* The record the five bytes stand for, when one setting has changed, or none.
LEMMA DecodedFollows ==
  ASSUME NEW b, NEW c
  PROVE  /\ Same(c, b, {}) => R!Decoded(c) = R!Decoded(b)
         /\ Same(c, b, {"enabled"}) => R!Decoded(c) = [R!Decoded(b) EXCEPT !.enabled = R!Enabled(c)]
         /\ Same(c, b, {"mode"}) => R!Decoded(c) = [R!Decoded(b) EXCEPT !.mode = R!Mode(c)]
         /\ Same(c, b, {"fan"}) => R!Decoded(c) = [R!Decoded(b) EXCEPT !.fan = R!Fan(c)]
         /\ Same(c, b, {"error"}) => R!Decoded(c) = [R!Decoded(b) EXCEPT !.error = R!Error(c)]
         /\ Same(c, b, {"economy"}) => R!Decoded(c) = [R!Decoded(b) EXCEPT !.economy = R!Economy(c)]
         /\ Same(c, b, {"temperature"}) => R!Decoded(c) = [R!Decoded(b) EXCEPT !.temperature = R!Temperature(c)]
         /\ Same(c, b, {"swing"}) => R!Decoded(c) = [R!Decoded(b) EXCEPT !.swing = R!Swing(c)]
         /\ Same(c, b, {"swingStep"}) => R!Decoded(c) = [R!Decoded(b) EXCEPT !.swingStep = R!SwingStep(c)]
         /\ Same(c, b, {"controllerPresent"}) => R!Decoded(c) = [R!Decoded(b) EXCEPT !.controllerPresent = R!ControllerPresent(c)]
<1>1. Same(c, b, {}) => R!Decoded(c) = R!Decoded(b)
  BY DEF Same, R!Decoded
<1>2. Same(c, b, {"enabled"}) => R!Decoded(c) = [R!Decoded(b) EXCEPT !.enabled = R!Enabled(c)]
  BY DEF Same, R!Decoded
<1>3. Same(c, b, {"mode"}) => R!Decoded(c) = [R!Decoded(b) EXCEPT !.mode = R!Mode(c)]
  BY DEF Same, R!Decoded
<1>4. Same(c, b, {"fan"}) => R!Decoded(c) = [R!Decoded(b) EXCEPT !.fan = R!Fan(c)]
  BY DEF Same, R!Decoded
<1>5. Same(c, b, {"error"}) => R!Decoded(c) = [R!Decoded(b) EXCEPT !.error = R!Error(c)]
  BY DEF Same, R!Decoded
<1>6. Same(c, b, {"economy"}) => R!Decoded(c) = [R!Decoded(b) EXCEPT !.economy = R!Economy(c)]
  BY DEF Same, R!Decoded
<1>7. Same(c, b, {"temperature"}) => R!Decoded(c) = [R!Decoded(b) EXCEPT !.temperature = R!Temperature(c)]
  BY DEF Same, R!Decoded
<1>8. Same(c, b, {"swing"}) => R!Decoded(c) = [R!Decoded(b) EXCEPT !.swing = R!Swing(c)]
  BY DEF Same, R!Decoded
<1>9. Same(c, b, {"swingStep"}) => R!Decoded(c) = [R!Decoded(b) EXCEPT !.swingStep = R!SwingStep(c)]
  BY DEF Same, R!Decoded
<1>10. Same(c, b, {"controllerPresent"}) => R!Decoded(c) = [R!Decoded(b) EXCEPT !.controllerPresent = R!ControllerPresent(c)]
  BY DEF Same, R!Decoded
<1> QED
  BY <1>1, <1>2, <1>3, <1>4, <1>5, <1>6, <1>7, <1>8, <1>9, <1>10

\* Two registers that read the same in every setting are the same record.
LEMMA StatusEqual ==
  ASSUME NEW s \in StatusRegisters, NEW t \in StatusRegisters,
         s.enabled = t.enabled, s.mode = t.mode, s.fan = t.fan, s.error = t.error,
         s.economy = t.economy, s.temperature = t.temperature, s.swing = t.swing,
         s.swingStep = t.swingStep, s.controllerPresent = t.controllerPresent
  PROVE  s = t
BY DEF StatusRegisters

\* A payload put into a frame is the payload read from it.
LEMMA PayloadBack ==
  ASSUME NEW f \in Frames
  PROVE  /\ \A b \in FiveBytes : Payload(WithPayload(f, b)) = b
         /\ WithPayload(f, Payload(f)) = f
         /\ \A i \in 1..3 : \A x \in Byte : Payload([f EXCEPT ![i] = x]) = Payload(f)
<1>1. ASSUME NEW b \in FiveBytes PROVE Payload(WithPayload(f, b)) = b
  <2>1. /\ WithPayload(f, b) \in Frames
        /\ \A i \in 1..5 : WithPayload(f, b)[i + 3] = b[i]
    BY WithPayloadTyped
  <2>2. /\ Payload(WithPayload(f, b)) \in FiveBytes
        /\ \A i \in 1..5 : Payload(WithPayload(f, b))[i] = b[i]
    BY <2>1, PayloadTyped
  <2> QED
    BY <2>2 DEF FiveBytes
<1>2. WithPayload(f, Payload(f)) = f
  <2> DEFINE g == WithPayload(f, Payload(f))
  <2>1. Payload(f) \in FiveBytes /\ \A i \in 1..5 : Payload(f)[i] = f[i + 3]
    BY PayloadTyped
  <2>2. /\ g \in Frames /\ \A i \in 1..3 : g[i] = f[i]
        /\ \A i \in 1..5 : g[i + 3] = f[i + 3]
    BY <2>1, WithPayloadTyped
  <2> HIDE DEF g
  <2>3. \A i \in 1..8 : g[i] = f[i]
    <3>1. \A i \in 1..8 : i \in 1..3 \/ (i - 3 \in 1..5 /\ (i - 3) + 3 = i)
      OBVIOUS
    <3> QED
      BY <2>2, <3>1
  <2>4. g = f
    BY <2>2, <2>3 DEF Frames
  <2> QED
    BY <2>4 DEF g
<1>3. ASSUME NEW i \in 1..3, NEW x \in Byte
      PROVE  Payload([f EXCEPT ![i] = x]) = Payload(f)
  <2> DEFINE g == [f EXCEPT ![i] = x]
  <2>1. g \in Frames /\ \A j \in 1..5 : g[j + 3] = f[j + 3]
    BY DEF Frames
  <2> HIDE DEF g
  <2>2. /\ Payload(g) \in FiveBytes /\ Payload(f) \in FiveBytes
        /\ \A j \in 1..5 : Payload(g)[j] = Payload(f)[j]
    BY <2>1, PayloadTyped
  <2>3. Payload(g) = Payload(f)
    BY <2>2 DEF FiveBytes
  <2> QED
    BY <2>3 DEF g
<1> QED
  BY <1>1, <1>2, <1>3

-----------------------------------------------------------------------------
(***************************************************************************)
(* The unit on bytes takes the steps of the unit on records.               *)
(***************************************************************************)
StatusRecord == R!Decoded(Payload(statusRegister))

\* What the record of the register becomes when its bytes become b.
LEMMA StatusRecordBecomes ==
  ASSUME UnitBytesOK, NEW b \in FiveBytes, StatusBecomes(b)
  PROVE  StatusRecord' = R!Decoded(b)
<1>1. Payload(statusRegister') = b
  BY PayloadBack DEF UnitBytesOK, StatusBecomes
<1> QED
  BY <1>1 DEF StatusRecord

\* The record after a setter: the setting's new value, and the rest as it was.
LEMMA DecodedAfterSet ==
  ASSUME NEW b \in FiveBytes
  PROVE  /\ \A v \in BOOLEAN : R!Decoded(R!SetEnabled(b, v)) = [R!Decoded(b) EXCEPT !.enabled = v]
         /\ \A v \in Modes : R!Decoded(R!SetMode(b, v)) = [R!Decoded(b) EXCEPT !.mode = v]
         /\ \A v \in Fans : R!Decoded(R!SetFan(b, v)) = [R!Decoded(b) EXCEPT !.fan = v]
         /\ \A v \in BOOLEAN : R!Decoded(R!SetError(b, v)) = [R!Decoded(b) EXCEPT !.error = v]
         /\ \A v \in BOOLEAN : R!Decoded(R!SetEconomy(b, v)) = [R!Decoded(b) EXCEPT !.economy = v]
         /\ \A v \in Temperatures : R!Decoded(R!SetTemperature(b, v)) = [R!Decoded(b) EXCEPT !.temperature = v]
         /\ \A v \in BOOLEAN : R!Decoded(R!SetSwing(b, v)) = [R!Decoded(b) EXCEPT !.swing = v]
         /\ \A v \in BOOLEAN : R!Decoded(R!SetSwingStep(b, v)) = [R!Decoded(b) EXCEPT !.swingStep = v]
         /\ \A v \in BOOLEAN : R!Decoded(R!SetControllerPresent(b, v)) = [R!Decoded(b) EXCEPT !.controllerPresent = v]
<1>1. ASSUME NEW v \in BOOLEAN
      PROVE  R!Decoded(R!SetEnabled(b, v)) = [R!Decoded(b) EXCEPT !.enabled = v]
  <2> DEFINE c == R!SetEnabled(b, v)
  <2>1. Same(c, b, {"enabled"}) /\ R!Enabled(c) = v
    BY SetEnabledRead
  <2> HIDE DEF c
  <2>2. R!Decoded(c) = [R!Decoded(b) EXCEPT !.enabled = R!Enabled(c)]
    BY <2>1, DecodedFollows
  <2> QED
    BY <2>1, <2>2, Zenon DEF c
<1>2. ASSUME NEW v \in Modes
      PROVE  R!Decoded(R!SetMode(b, v)) = [R!Decoded(b) EXCEPT !.mode = v]
  <2> DEFINE c == R!SetMode(b, v)
  <2>1. Same(c, b, {"mode"}) /\ R!Mode(c) = v
    BY SetModeRead
  <2> HIDE DEF c
  <2>2. R!Decoded(c) = [R!Decoded(b) EXCEPT !.mode = R!Mode(c)]
    BY <2>1, DecodedFollows
  <2> QED
    BY <2>1, <2>2, Zenon DEF c
<1>3. ASSUME NEW v \in Fans
      PROVE  R!Decoded(R!SetFan(b, v)) = [R!Decoded(b) EXCEPT !.fan = v]
  <2> DEFINE c == R!SetFan(b, v)
  <2>1. Same(c, b, {"fan"}) /\ R!Fan(c) = v
    BY SetFanRead
  <2> HIDE DEF c
  <2>2. R!Decoded(c) = [R!Decoded(b) EXCEPT !.fan = R!Fan(c)]
    BY <2>1, DecodedFollows
  <2> QED
    BY <2>1, <2>2, Zenon DEF c
<1>4. ASSUME NEW v \in BOOLEAN
      PROVE  R!Decoded(R!SetError(b, v)) = [R!Decoded(b) EXCEPT !.error = v]
  <2> DEFINE c == R!SetError(b, v)
  <2>1. Same(c, b, {"error"}) /\ R!Error(c) = v
    BY SetErrorRead
  <2> HIDE DEF c
  <2>2. R!Decoded(c) = [R!Decoded(b) EXCEPT !.error = R!Error(c)]
    BY <2>1, DecodedFollows
  <2> QED
    BY <2>1, <2>2, Zenon DEF c
<1>5. ASSUME NEW v \in BOOLEAN
      PROVE  R!Decoded(R!SetEconomy(b, v)) = [R!Decoded(b) EXCEPT !.economy = v]
  <2> DEFINE c == R!SetEconomy(b, v)
  <2>1. Same(c, b, {"economy"}) /\ R!Economy(c) = v
    BY SetEconomyRead
  <2> HIDE DEF c
  <2>2. R!Decoded(c) = [R!Decoded(b) EXCEPT !.economy = R!Economy(c)]
    BY <2>1, DecodedFollows
  <2> QED
    BY <2>1, <2>2, Zenon DEF c
<1>6. ASSUME NEW v \in Temperatures
      PROVE  R!Decoded(R!SetTemperature(b, v)) = [R!Decoded(b) EXCEPT !.temperature = v]
  <2> DEFINE c == R!SetTemperature(b, v)
  <2>1. Same(c, b, {"temperature"}) /\ R!Temperature(c) = v
    BY SetTemperatureRead
  <2> HIDE DEF c
  <2>2. R!Decoded(c) = [R!Decoded(b) EXCEPT !.temperature = R!Temperature(c)]
    BY <2>1, DecodedFollows
  <2> QED
    BY <2>1, <2>2, Zenon DEF c
<1>7. ASSUME NEW v \in BOOLEAN
      PROVE  R!Decoded(R!SetSwing(b, v)) = [R!Decoded(b) EXCEPT !.swing = v]
  <2> DEFINE c == R!SetSwing(b, v)
  <2>1. Same(c, b, {"swing"}) /\ R!Swing(c) = v
    BY SetSwingRead
  <2> HIDE DEF c
  <2>2. R!Decoded(c) = [R!Decoded(b) EXCEPT !.swing = R!Swing(c)]
    BY <2>1, DecodedFollows
  <2> QED
    BY <2>1, <2>2, Zenon DEF c
<1>8. ASSUME NEW v \in BOOLEAN
      PROVE  R!Decoded(R!SetSwingStep(b, v)) = [R!Decoded(b) EXCEPT !.swingStep = v]
  <2> DEFINE c == R!SetSwingStep(b, v)
  <2>1. Same(c, b, {"swingStep"}) /\ R!SwingStep(c) = v
    BY SetSwingStepRead
  <2> HIDE DEF c
  <2>2. R!Decoded(c) = [R!Decoded(b) EXCEPT !.swingStep = R!SwingStep(c)]
    BY <2>1, DecodedFollows
  <2> QED
    BY <2>1, <2>2, Zenon DEF c
<1>9. ASSUME NEW v \in BOOLEAN
      PROVE  R!Decoded(R!SetControllerPresent(b, v)) = [R!Decoded(b) EXCEPT !.controllerPresent = v]
  <2> DEFINE c == R!SetControllerPresent(b, v)
  <2>1. Same(c, b, {"controllerPresent"}) /\ R!ControllerPresent(c) = v
    BY SetControllerPresentRead
  <2> HIDE DEF c
  <2>2. R!Decoded(c) = [R!Decoded(b) EXCEPT !.controllerPresent = R!ControllerPresent(c)]
    BY <2>1, DecodedFollows
  <2> QED
    BY <2>1, <2>2, Zenon DEF c
<1> QED
  BY <1>1, <1>2, <1>3, <1>4, <1>5, <1>6, <1>7, <1>8, <1>9

\* The bytes sent stand for the record sent.
LEMMA StatusSentMeans ==
  ASSUME UnitBytesOK
  PROVE  R!Decoded(StatusSent) =
           IF Sim!SendsStatus THEN [StatusRecord EXCEPT !.swingStep = FALSE] ELSE StatusRecord
<1> DEFINE st == Payload(statusRegister)
<1>1. st \in FiveBytes
  BY PayloadTyped DEF UnitBytesOK
<1> HIDE DEF st
<1>2. R!Decoded(R!SetSwingStep(st, FALSE)) = [R!Decoded(st) EXCEPT !.swingStep = FALSE]
  BY <1>1, DecodedAfterSet
<1> QED
  BY <1>2 DEF StatusSent, StatusRecord, st

\* A step that sends is the step of FujiAcUnitSim that sends.
LEMMA SendMeans ==
  ASSUME UnitBytesOK, GetNextMasterFrame
  PROVE  Sim!GetNextMasterFrame
<1>1. StatusSent \in FiveBytes
  BY SentTyped
<1>2. R!SetUpdateMagic(StatusSent, 10) \in FiveBytes
  BY <1>1, SettersKeepBytes
<1>3. StatusRecord' = R!Decoded(R!SetUpdateMagic(StatusSent, 10))
  BY <1>2, StatusRecordBecomes DEF GetNextMasterFrame
<1>4. R!Decoded(R!SetUpdateMagic(StatusSent, 10)) = R!Decoded(StatusSent)
  BY <1>1, SetUpdateMagicRead, DecodedFollows
<1>5. nextQuery' = nextQuery
  BY DEF GetNextMasterFrame
<1> QED
  BY <1>3, <1>4, <1>5, StatusSentMeans DEF Sim!GetNextMasterFrame, Sim!StatusAfterSend, StatusRecord

\* The address and the type of a frame, as they were set.
LEMMA HeadRead ==
  ASSUME NEW f \in Frames
  PROVE  /\ WithDestination(f, 32)[2] % 128 = 32
         /\ \A t \in RegisterTypes :
               R!Named(R!Bits(WithType(f, t)[3], 16, 4), RegisterCode) = t
<1>1. f[2] \in Byte /\ f[3] \in Byte
  BY ByteTyped
<1>2. WithDestination(f, 32)[2] % 128 = 32
  <2>1. WithDestination(f, 32)[2] = R!WithBits(f[2], 1, 128, 32)
    BY DEF WithDestination, Frames
  <2>2. R!Bits(R!WithBits(f[2], 1, 128, 32), 1, 128) = 32
    BY <1>1, Byte2Fields
  <2>3. R!WithBits(f[2], 1, 128, 32) \in Byte
    BY <1>1, FieldsFit
  <2>4. \A x \in Byte : R!Bits(x, 1, 128) = x % 128
    BY DEF R!Bits, Byte
  <2> QED
    BY <2>1, <2>2, <2>3, <2>4
<1>3. ASSUME NEW t \in RegisterTypes
      PROVE  R!Named(R!Bits(WithType(f, t)[3], 16, 4), RegisterCode) = t
  <2>1. WithType(f, t)[3] = R!WithBits(f[3], 16, 4, RegisterCode[t])
    BY DEF WithType, Frames
  <2>2. \A x \in Byte : \A v \in 0..3 : R!Bits(R!WithBits(x, 16, 4, v), 16, 4) = v
    BY DEF R!Bits, R!WithBits, Byte
  <2>3. R!Bits(WithType(f, t)[3], 16, 4) = RegisterCode[t]
    BY <1>1, <2>1, <2>2, CodesFit
  <2> QED
    BY <2>3, NamedInverse
<1> QED
  BY <1>2, <1>3

\* The frame of eight bytes stands for the frame of FujiAcUnitSim.
LEMMA NextFrameMeans ==
  ASSUME UnitBytesOK
  PROVE  /\ NextFrame[2] % 128 = 32
         /\ Type(NextFrame) = Sim!NextMasterFrame.type
         /\ Sim!SendsStatus => R!Decoded(Payload(NextFrame)) = Sim!NextMasterFrame.status
<1> DEFINE register == CASE nextQuery = "ERROR" -> ErrorRegister
                         [] nextQuery = "LOGIN" -> LoginRegister
                         [] OTHER -> WithPayload(statusRegister, StatusSent)
           type == IF Sim!SendsStatus THEN "STATUS" ELSE nextQuery
           typed == WithType(register, type)
           marked == WithUnknownBit(typed, TRUE)
<1>1. register \in Frames
  <2>1. ErrorRegister \in Frames /\ LoginRegister \in Frames
    BY SMTT(20) DEF ErrorRegister, LoginRegister, Frames, Byte
  <2>2. WithPayload(statusRegister, StatusSent) \in Frames
    BY SentTyped, WithPayloadTyped DEF UnitBytesOK
  <2> QED
    BY <2>1, <2>2
<1>2. type \in RegisterTypes
  BY DEF UnitBytesOK, RegisterTypes
<1>3. Sim!SendsStatus => register = WithPayload(statusRegister, StatusSent)
  BY DEF Sim!SendsStatus
<1> HIDE DEF register
<1>4. Sim!NextMasterFrame.type = type
  BY DEF Sim!NextMasterFrame
<1> HIDE DEF type
<1>5. typed \in Frames
  <2>1. R!WithBits(register[3], 16, 4, RegisterCode[type]) \in Byte
    BY <1>1, <1>2, CodesFit, FieldsFit, ByteTyped
  <2> QED
    BY <1>1, <2>1, ByteTyped DEF WithType
<1>5a. \E x \in Byte : typed = [register EXCEPT ![3] = x]
  <2>1. R!WithBits(register[3], 16, 4, RegisterCode[type]) \in Byte
    BY <1>1, <1>2, CodesFit, FieldsFit, ByteTyped
  <2>2. typed = [register EXCEPT ![3] = R!WithBits(register[3], 16, 4, RegisterCode[type])]
    BY DEF WithType
  <2> QED
    BY <2>1, <2>2, Zenon
<1>6. R!Named(R!Bits(typed[3], 16, 4), RegisterCode) = type
  BY <1>1, <1>2, HeadRead
<1> HIDE DEF typed
<1>7. \E x \in Byte : marked = [typed EXCEPT ![2] = x]
  <2>1. R!WithBits(typed[2], 128, 2, 1) \in Byte
    BY <1>5, FieldsFit, ByteTyped
  <2>2. marked = [typed EXCEPT ![2] = R!WithBits(typed[2], 128, 2, 1)]
    BY Zenon DEF WithUnknownBit, R!Bit
  <2> QED
    BY <2>1, <2>2, Zenon
<1> HIDE DEF marked
<1>8. marked \in Frames /\ marked[3] = typed[3] /\ Payload(marked) = Payload(typed)
  <2>1. PICK x \in Byte : marked = [typed EXCEPT ![2] = x]
    BY <1>7
  <2>2. marked \in Frames /\ marked[3] = typed[3]
    BY <1>5, <2>1 DEF Frames
  <2>3. Payload([typed EXCEPT ![2] = x]) = Payload(typed)
    BY <1>5, PayloadBack
  <2> QED
    BY <2>1, <2>2, <2>3
<1> DEFINE sent == WithDestination(marked, 32)
<1>9. sent[3] = marked[3] /\ Payload(sent) = Payload(marked) /\ sent[2] % 128 = 32
  <2>1. R!WithBits(marked[2], 1, 128, 32) \in Byte
    BY <1>8, FieldsFit, ByteTyped
  <2>2. sent = [marked EXCEPT ![2] = R!WithBits(marked[2], 1, 128, 32)]
    BY DEF WithDestination
  <2>3. sent[3] = marked[3]
    BY <1>8, <2>2 DEF Frames
  <2>4. Payload([marked EXCEPT ![2] = R!WithBits(marked[2], 1, 128, 32)]) = Payload(marked)
    BY <1>8, <2>1, PayloadBack
  <2>5. sent[2] % 128 = 32
    BY <1>8, HeadRead
  <2> HIDE DEF sent
  <2> QED
    BY <2>2, <2>3, <2>4, <2>5
<1>10. NextFrame = sent
  BY DEF NextFrame, sent, marked, typed, type, register
<1> HIDE DEF sent
<1>11. Type(NextFrame) = type
  BY <1>6, <1>8, <1>9, <1>10 DEF Type
<1>12. ASSUME Sim!SendsStatus
       PROVE  R!Decoded(Payload(NextFrame)) = Sim!NextMasterFrame.status
  <2>1. Payload(typed) = Payload(register)
    <3>1. PICK x \in Byte : typed = [register EXCEPT ![3] = x]
      BY <1>5a
    <3>2. Payload([register EXCEPT ![3] = x]) = Payload(register)
      BY <1>1, PayloadBack
    <3> QED
      BY <3>1, <3>2
  <2>2. Payload(register) = StatusSent
    BY <1>3, <1>12, SentTyped, PayloadBack DEF UnitBytesOK
  <2>3. Payload(NextFrame) = StatusSent
    BY <1>8, <1>9, <1>10, <2>1, <2>2
  <2>4. Sim!NextMasterFrame.status = Sim!StatusAfterSend
    BY DEF Sim!NextMasterFrame
  <2> QED
    BY <2>3, <2>4, StatusSentMeans DEF Sim!StatusAfterSend, StatusRecord
<1> QED
  BY <1>4, <1>9, <1>10, <1>11, <1>12

\* The remote's change on bytes is its change on the record.
LEMMA RemoteMeans ==
  ASSUME UnitBytesOK, NEW setting \in DOMAIN Remote, NEW v \in Remote[setting],
         RemoteSet(setting, v)
  PROVE  Sim!RemoteSet(setting, v)
<1> DEFINE st == Payload(statusRegister)
<1>1. st \in FiveBytes
  BY PayloadTyped DEF UnitBytesOK
<1> HIDE DEF st
<1>2. setting \in {"enabled", "mode", "fan", "temperature", "economy", "swing", "swingStep"}
  BY RemoteAssumption DEF RemoteAssumption
<1> DEFINE set == WithSetting(st, setting, v)
<1>3. set \in FiveBytes /\ R!Decoded(set) = [R!Decoded(st) EXCEPT ![setting] = v]
  <2>1. CASE setting = "enabled"
    <3>1. v \in BOOLEAN
      BY <2>1, RemoteAssumption DEF RemoteAssumption
    <3>2. set = R!SetEnabled(st, v)
      BY <2>1 DEF WithSetting
    <3>3. /\ R!SetEnabled(st, v) \in FiveBytes
          /\ R!Decoded(R!SetEnabled(st, v)) = [R!Decoded(st) EXCEPT !.enabled = v]
      BY <1>1, <3>1, SettersKeepBytes, DecodedAfterSet
    <3> QED
      BY <2>1, <3>2, <3>3, Zenon
  <2>2. CASE setting = "mode"
    <3>1. v \in Modes
      BY <2>2, RemoteAssumption DEF RemoteAssumption
    <3>2. set = R!SetMode(st, v)
      BY <2>2 DEF WithSetting
    <3>3. /\ R!SetMode(st, v) \in FiveBytes
          /\ R!Decoded(R!SetMode(st, v)) = [R!Decoded(st) EXCEPT !.mode = v]
      BY <1>1, <3>1, SettersKeepBytes, DecodedAfterSet
    <3> QED
      BY <2>2, <3>2, <3>3, Zenon
  <2>3. CASE setting = "fan"
    <3>1. v \in Fans
      BY <2>3, RemoteAssumption DEF RemoteAssumption
    <3>2. set = R!SetFan(st, v)
      BY <2>3 DEF WithSetting
    <3>3. /\ R!SetFan(st, v) \in FiveBytes
          /\ R!Decoded(R!SetFan(st, v)) = [R!Decoded(st) EXCEPT !.fan = v]
      BY <1>1, <3>1, SettersKeepBytes, DecodedAfterSet
    <3> QED
      BY <2>3, <3>2, <3>3, Zenon
  <2>4. CASE setting = "temperature"
    <3>1. v \in Temperatures /\ v \in Byte
      BY <2>4, RemoteAssumption DEF RemoteAssumption, Temperatures, Byte
    <3>2. set = R!SetTemperature(st, v)
      BY <2>4 DEF WithSetting
    <3>3. /\ R!SetTemperature(st, v) \in FiveBytes
          /\ R!Decoded(R!SetTemperature(st, v)) = [R!Decoded(st) EXCEPT !.temperature = v]
      BY <1>1, <3>1, SettersKeepBytes, DecodedAfterSet
    <3> QED
      BY <2>4, <3>2, <3>3, Zenon
  <2>5. CASE setting = "economy"
    <3>1. v \in BOOLEAN
      BY <2>5, RemoteAssumption DEF RemoteAssumption
    <3>2. set = R!SetEconomy(st, v)
      BY <2>5 DEF WithSetting
    <3>3. /\ R!SetEconomy(st, v) \in FiveBytes
          /\ R!Decoded(R!SetEconomy(st, v)) = [R!Decoded(st) EXCEPT !.economy = v]
      BY <1>1, <3>1, SettersKeepBytes, DecodedAfterSet
    <3> QED
      BY <2>5, <3>2, <3>3, Zenon
  <2>6. CASE setting = "swing"
    <3>1. v \in BOOLEAN
      BY <2>6, RemoteAssumption DEF RemoteAssumption
    <3>2. set = R!SetSwing(st, v)
      BY <2>6 DEF WithSetting
    <3>3. /\ R!SetSwing(st, v) \in FiveBytes
          /\ R!Decoded(R!SetSwing(st, v)) = [R!Decoded(st) EXCEPT !.swing = v]
      BY <1>1, <3>1, SettersKeepBytes, DecodedAfterSet
    <3> QED
      BY <2>6, <3>2, <3>3, Zenon
  <2>7. CASE setting = "swingStep"
    <3>1. v \in BOOLEAN
      BY <2>7, RemoteAssumption DEF RemoteAssumption
    <3>2. set = R!SetSwingStep(st, v)
      BY <2>7 DEF WithSetting
    <3>3. /\ R!SetSwingStep(st, v) \in FiveBytes
          /\ R!Decoded(R!SetSwingStep(st, v)) = [R!Decoded(st) EXCEPT !.swingStep = v]
      BY <1>1, <3>1, SettersKeepBytes, DecodedAfterSet
    <3> QED
      BY <2>7, <3>2, <3>3, Zenon
  <2> QED
    BY <1>2, <2>1, <2>2, <2>3, <2>4, <2>5, <2>6, <2>7
<1> HIDE DEF set
<1>4. /\ R!SetUpdateMagic(set, 4) \in FiveBytes
      /\ R!Decoded(R!SetUpdateMagic(set, 4)) = R!Decoded(set)
  <2>1. 4 \in 0..15
    OBVIOUS
  <2>2. R!SetUpdateMagic(set, 4) \in FiveBytes
    BY <1>3, <2>1, SettersKeepBytes
  <2>3. Same(R!SetUpdateMagic(set, 4), set, {})
    BY <1>3, <2>1, SetUpdateMagicRead
  <2> QED
    BY <2>2, <2>3, DecodedFollows
<1>5. StatusRecord' = R!Decoded(R!SetUpdateMagic(set, 4))
  BY <1>4, StatusRecordBecomes DEF RemoteSet, st, set
<1> QED
  BY <1>3, <1>4, <1>5 DEF Sim!RemoteSet, StatusRecord, st

\* A fault sets the error bit of the record, if it was not set.
LEMMA FaultMeans ==
  ASSUME UnitBytesOK, ErrorAppears
  PROVE  Sim!ToggleErrorBit \/ UNCHANGED unitVars
<1> DEFINE st == Payload(statusRegister)
           set == R!SetError(st, TRUE)
<1>1. st \in FiveBytes
  BY PayloadTyped DEF UnitBytesOK
<1>2. StatusBecomes(set) /\ UNCHANGED nextQuery
  BY DEF ErrorAppears
<1> HIDE DEF st
<1>3. CASE R!Error(st)
  <2>1. R!Bits(st[1], 128, 2) = 1 /\ st[1] \in Byte
    BY <1>1, <1>3 DEF R!Error, FiveBytes
  <2>2. R!WithBits(st[1], 128, 2, 1) = st[1]
    BY <2>1 DEF R!WithBits, Byte
  <2>3. set = [st EXCEPT ![1] = R!WithBits(st[1], 128, 2, 1)]
    BY Zenon DEF R!SetError, R!Bit
  <2>4. set = st
    <3>1. [st EXCEPT ![1] = st[1]] = st
      BY <1>1 DEF FiveBytes
    <3> QED
      BY <2>2, <2>3, <3>1, Zenon
  <2>5. statusRegister' = WithPayload(statusRegister, st)
    BY <1>2, <2>4, Zenon DEF StatusBecomes
  <2>6. statusRegister' = statusRegister
    BY <2>5, PayloadBack DEF UnitBytesOK, st
  <2> QED
    BY <1>2, <2>6 DEF unitVars
<1>4. CASE ~R!Error(st)
  <2>1. \A v \in BOOLEAN : R!SetError(st, v) \in FiveBytes
    BY <1>1, SettersKeepBytes
  <2>2. \A v \in BOOLEAN : R!Decoded(R!SetError(st, v)) = [R!Decoded(st) EXCEPT !.error = v]
    BY <1>1, DecodedAfterSet
  <2>3. set \in FiveBytes /\ R!Decoded(set) = [R!Decoded(st) EXCEPT !.error = TRUE]
    BY <2>1, <2>2, Zenon
  <2> HIDE DEF set
  <2>4. StatusRecord' = [R!Decoded(st) EXCEPT !.error = TRUE]
    BY <1>2, <2>3, StatusRecordBecomes
  <2>5. R!Decoded(st).error = FALSE
    BY <1>4 DEF R!Decoded, R!Error
  <2>6. Sim!ToggleErrorBit
    BY <2>4, <2>5 DEF Sim!ToggleErrorBit, StatusRecord, st
  <2> QED
    BY <2>6
<1> QED
  BY <1>3, <1>4

\* What the settings read after a write of payload p.
LEMMA TakenRead ==
  ASSUME NEW b \in FiveBytes, NEW p \in FiveBytes
  PROVE  LET c == Taken(b, p) IN
         /\ R!Enabled(c) = R!Enabled(p) /\ R!Mode(c) = R!Mode(p) /\ R!Fan(c) = R!Fan(p)
         /\ R!Economy(c) = R!Economy(p) /\ R!Swing(c) = R!Swing(p)
         /\ R!SwingStep(c) = R!SwingStep(p)
         /\ R!Temperature(c) = IF R!Mode(p) = "FAN" THEN 18 ELSE R!Temperature(p)
         /\ R!Error(c) = R!Error(b) /\ R!ControllerPresent(c) = R!ControllerPresent(b)
<1> DEFINE c1 == R!SetEnabled(b, R!Enabled(p))
           c2 == R!SetMode(c1, R!Mode(p))
           c3 == R!SetFan(c2, R!Fan(p))
           c4 == R!SetEconomy(c3, R!Economy(p))
           c5 == R!SetSwing(c4, R!Swing(p))
           c6 == R!SetSwingStep(c5, R!SwingStep(p))
           temperature == IF R!Mode(p) = "FAN" THEN 18 ELSE R!Temperature(p)
           magic == IF R!Mode(p) = "FAN" THEN 4 ELSE 0
           c7 == R!SetTemperature(c6, temperature)
           c8 == R!SetUpdateMagic(c7, magic)
<1>1. /\ R!Enabled(p) \in BOOLEAN /\ R!Economy(p) \in BOOLEAN
      /\ R!Swing(p) \in BOOLEAN /\ R!SwingStep(p) \in BOOLEAN
  BY DEF R!Enabled, R!Economy, R!Swing, R!SwingStep
<1>2. R!Mode(p) \in Modes /\ R!Fan(p) \in Fans
  BY NamesTyped DEF R!Mode, R!Fan
<1>3. temperature \in Temperatures /\ temperature \in Byte /\ magic \in 0..15
  <2>1. p[2] \in Byte
    BY DEF FiveBytes
  <2>2. R!Temperature(p) \in 0..127
    BY <2>1 DEF R!Temperature, R!Bits, Byte
  <2> QED
    BY <2>2 DEF Temperatures, Byte
<1>4. Taken(b, p) = c8
  BY DEF Taken
<1> HIDE DEF temperature, magic
<1>5. c1 \in FiveBytes /\ Same(c1, b, {"enabled"}) /\ R!Enabled(c1) = R!Enabled(p)
  BY <1>1, SettersKeepBytes, SetEnabledRead
<1> HIDE DEF c1
<1>6. c2 \in FiveBytes /\ Same(c2, c1, {"mode"}) /\ R!Mode(c2) = R!Mode(p)
  BY <1>2, <1>5, SettersKeepBytes, SetModeRead
<1> HIDE DEF c2
<1>7. c3 \in FiveBytes /\ Same(c3, c2, {"fan"}) /\ R!Fan(c3) = R!Fan(p)
  BY <1>2, <1>6, SettersKeepBytes, SetFanRead
<1> HIDE DEF c3
<1>8. c4 \in FiveBytes /\ Same(c4, c3, {"economy"}) /\ R!Economy(c4) = R!Economy(p)
  BY <1>1, <1>7, SettersKeepBytes, SetEconomyRead
<1> HIDE DEF c4
<1>9. c5 \in FiveBytes /\ Same(c5, c4, {"swing"}) /\ R!Swing(c5) = R!Swing(p)
  BY <1>1, <1>8, SettersKeepBytes, SetSwingRead
<1> HIDE DEF c5
<1>10. c6 \in FiveBytes /\ Same(c6, c5, {"swingStep"}) /\ R!SwingStep(c6) = R!SwingStep(p)
  BY <1>1, <1>9, SettersKeepBytes, SetSwingStepRead
<1> HIDE DEF c6
<1>11. c7 \in FiveBytes /\ Same(c7, c6, {"temperature"}) /\ R!Temperature(c7) = temperature
  BY <1>3, <1>10, SettersKeepBytes, SetTemperatureRead
<1> HIDE DEF c7
<1>12. Same(c8, c7, {})
  BY <1>3, <1>11, SetUpdateMagicRead
<1> HIDE DEF c8
<1> USE <1>5, <1>6, <1>7, <1>8, <1>9, <1>10, <1>11, <1>12
<1>13. /\ R!Enabled(c8) = R!Enabled(p) /\ R!Mode(c8) = R!Mode(p) /\ R!Fan(c8) = R!Fan(p)
  BY Zenon DEF Same
<1>14. /\ R!Economy(c8) = R!Economy(p) /\ R!Swing(c8) = R!Swing(p)
       /\ R!SwingStep(c8) = R!SwingStep(p) /\ R!Temperature(c8) = temperature
  BY Zenon DEF Same
<1>15. R!Error(c8) = R!Error(b) /\ R!ControllerPresent(c8) = R!ControllerPresent(b)
  BY Zenon DEF Same
<1> QED
  BY <1>4, <1>13, <1>14, <1>15 DEF temperature

\* Taking a reply is taking the record of it.
LEMMA PushMeans ==
  ASSUME UnitBytesOK, NEW f \in Frames, PushControllerFrame(f)
  PROVE  Sim!PushControllerFrame(ControllerFrame(f))
<1> DEFINE st == Payload(statusRegister)
           p == Payload(f)
           present == IF LoginBit(f) THEN R!SetControllerPresent(st, TRUE) ELSE st
           accepts == QueryRegister(f) = "STATUS" /\ WriteBit(f)
           after == IF accepts THEN Taken(present, p) ELSE present
           cf == ControllerFrame(f)
<1>1. st \in FiveBytes /\ p \in FiveBytes
  BY PayloadTyped DEF UnitBytesOK
<1>2. /\ nextQuery' = IF QueryRegister(f) = "UNKNOWN" THEN nextQuery ELSE QueryRegister(f)
      /\ StatusBecomes(after)
  BY DEF PushControllerFrame
<1>3. /\ cf.query = QueryRegister(f) /\ cf.login = LoginBit(f) /\ cf.write = WriteBit(f)
      /\ cf.payload.enabled = R!Enabled(p) /\ cf.payload.mode = R!Mode(p)
      /\ cf.payload.fan = R!Fan(p) /\ cf.payload.economy = R!Economy(p)
      /\ cf.payload.temperature = R!Temperature(p) /\ cf.payload.swing = R!Swing(p)
      /\ cf.payload.swingStep = R!SwingStep(p)
  BY DEF ControllerFrame
<1> HIDE DEF st, p
<1>4. LoginBit(f) \in BOOLEAN /\ WriteBit(f) \in BOOLEAN
  BY DEF LoginBit, WriteBit
<1>5. present \in FiveBytes
  BY <1>1, SettersKeepBytes
<1>6. R!Decoded(present) = [R!Decoded(st) EXCEPT !.controllerPresent = @ \/ LoginBit(f)]
  <2>1. \A v \in BOOLEAN : R!Decoded(R!SetControllerPresent(st, v)) =
                              [R!Decoded(st) EXCEPT !.controllerPresent = v]
    BY <1>1, DecodedAfterSet
  <2>2. R!Decoded(st) \in StatusRegisters
    BY <1>1, DecodedTyped
  <2>3. CASE LoginBit(f)
    <3>1. R!Decoded(present) = [R!Decoded(st) EXCEPT !.controllerPresent = TRUE]
      BY <2>1, <2>3, Zenon
    <3> HIDE DEF present
    <3> QED
      BY <2>3, <3>1
  <2>4. CASE ~LoginBit(f)
    <3>1. R!Decoded(present) = R!Decoded(st)
      BY <2>4
    <3> HIDE DEF present
    <3> QED
      BY <2>2, <2>4, <3>1 DEF StatusRegisters
  <2> QED
    BY <2>3, <2>4
<1> HIDE DEF present, cf
<1>7. after \in FiveBytes
  BY <1>1, <1>5, TakenTyped
<1>8. StatusRecord' = R!Decoded(after)
  BY <1>2, <1>7, StatusRecordBecomes
<1>9. StatusRecord = R!Decoded(st) /\ R!Decoded(st) \in StatusRegisters
  BY <1>1, DecodedTyped DEF StatusRecord, st
<1>10. R!Decoded(after) = Sim!StatusAfterPush(cf)
  <2>1. Sim!Accepts(cf) <=> accepts
    BY <1>3 DEF Sim!Accepts
  <2>2. CASE ~accepts
    <3>1. R!Decoded(after) = R!Decoded(present)
      BY <2>2
    <3>2. Sim!StatusAfterPush(cf) = [R!Decoded(st) EXCEPT !.controllerPresent = @ \/ cf.login]
      BY <2>1, <2>2 DEF Sim!StatusAfterPush, st
    <3> QED
      BY <1>3, <1>6, <3>1, <3>2
  <2>3. CASE accepts
    <3> DEFINE t == Sim!StatusAfterPush(cf)
               r == R!Decoded(after)
    <3>1. t = [Sim!Written(cf.payload) EXCEPT !.controllerPresent = @ \/ cf.login]
      BY <2>1, <2>3 DEF Sim!StatusAfterPush
    <3>2. /\ t.enabled = R!Enabled(p) /\ t.mode = R!Mode(p) /\ t.fan = R!Fan(p)
          /\ t.economy = R!Economy(p) /\ t.swing = R!Swing(p) /\ t.swingStep = R!SwingStep(p)
          /\ t.temperature = IF R!Mode(p) = "FAN" THEN 18 ELSE R!Temperature(p)
          /\ t.error = R!Decoded(st).error
          /\ t.controllerPresent = (R!Decoded(st).controllerPresent \/ LoginBit(f))
          /\ t \in StatusRegisters
      <4> HIDE DEF t
      <4>1. /\ R!Enabled(p) \in BOOLEAN /\ R!Economy(p) \in BOOLEAN
            /\ R!Swing(p) \in BOOLEAN /\ R!SwingStep(p) \in BOOLEAN
        BY DEF R!Enabled, R!Economy, R!Swing, R!SwingStep
      <4>2. R!Mode(p) \in Modes /\ R!Fan(p) \in Fans
        BY NamesTyped DEF R!Mode, R!Fan
      <4>3. R!Temperature(p) \in Temperatures /\ 18 \in Temperatures
        <5>1. R!Decoded(p) \in StatusRegisters
          BY <1>1, DecodedTyped
        <5>2. R!Decoded(p).temperature = R!Temperature(p)
          BY DEF R!Decoded
        <5> QED
          BY <5>1, <5>2 DEF StatusRegisters, Temperatures
      <4> DEFINE d == R!Decoded(st)
                 celsius == IF R!Mode(p) = "FAN" THEN 18 ELSE R!Temperature(p)
      <4>4. d \in StatusRegisters /\ StatusRecord = d
        BY <1>9
      <4>5. t = [[StatusRecord EXCEPT !.enabled = R!Enabled(p), !.mode = R!Mode(p), !.fan = R!Fan(p),
                           !.economy = R!Economy(p), !.swing = R!Swing(p),
                           !.swingStep = R!SwingStep(p), !.temperature = celsius]
                   EXCEPT !.controllerPresent = @ \/ LoginBit(f)]
        BY <1>3, <3>1 DEF Sim!Written, StatusRecord
      <4>6. celsius \in Temperatures
        BY <4>3
      <4> HIDE DEF d, celsius
      <4>7. t = [enabled |-> R!Enabled(p), mode |-> R!Mode(p), fan |-> R!Fan(p),
                 error |-> d.error, economy |-> R!Economy(p), temperature |-> celsius,
                 swing |-> R!Swing(p), swingStep |-> R!SwingStep(p),
                 controllerPresent |-> (d.controllerPresent \/ LoginBit(f))]
        BY <4>4, <4>5 DEF StatusRegisters
      <4>8. d.error \in BOOLEAN /\ (d.controllerPresent \/ LoginBit(f)) \in BOOLEAN
        BY <4>4 DEF StatusRegisters
      <4>9. t \in StatusRegisters
        BY <4>1, <4>2, <4>6, <4>7, <4>8 DEF StatusRegisters
      <4> QED
        BY <4>7, <4>9 DEF d, celsius
    <3>3. /\ r.enabled = R!Enabled(p) /\ r.mode = R!Mode(p) /\ r.fan = R!Fan(p)
          /\ r.economy = R!Economy(p) /\ r.swing = R!Swing(p) /\ r.swingStep = R!SwingStep(p)
          /\ r.temperature = IF R!Mode(p) = "FAN" THEN 18 ELSE R!Temperature(p)
          /\ r.error = R!Error(present)
          /\ r.controllerPresent = R!ControllerPresent(present)
      <4>1. r = R!Decoded(Taken(present, p))
        BY <2>3
      <4> HIDE DEF r
      <4> QED
        BY <1>1, <1>5, <4>1, TakenRead DEF R!Decoded
    <3>4. /\ R!Error(present) = R!Decoded(present).error
          /\ R!ControllerPresent(present) = R!Decoded(present).controllerPresent
      BY DEF R!Decoded
    <3>5. /\ R!Error(present) = R!Decoded(st).error
          /\ R!ControllerPresent(present) = (R!Decoded(st).controllerPresent \/ LoginBit(f))
      BY <1>6, <1>9, <3>4 DEF StatusRegisters
    <3>6. r \in StatusRegisters
      BY <1>7, DecodedTyped
    <3> HIDE DEF r, t
    <3>7. r = t
      BY <3>2, <3>3, <3>5, <3>6, StatusEqual
    <3> QED
      BY <3>7 DEF r, t
  <2> QED
    BY <2>2, <2>3
<1> QED
  BY <1>2, <1>3, <1>8, <1>10 DEF Sim!PushControllerFrame, StatusRecord, cf
==============================================================================
