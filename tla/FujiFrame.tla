------------------------------ MODULE FujiFrame ------------------------------
(***************************************************************************)
(* protocol/fuji_frame.cc and the two functions that fill a frame's        *)
(* payload: eight bytes on the wire and the records they stand for.        *)
(***************************************************************************)
EXTENDS FujiTypes, Sequences

R == INSTANCE FujiStatusRegister

RegisterCode == [STATUS |-> 0, ERROR |-> 1, LOGIN |-> 2, UNKNOWN |-> 3]

\* std::array<uint8_t, 8>.
Frames == [1..8 -> Byte]

Payload(f) == SubSeq(f, 4, 8)
WithPayload(f, payload) == SubSeq(f, 1, 3) \o payload

-----------------------------------------------------------------------------
\* FujiMasterFrame.  The top bit of byte 2 is the unknown bit.
Destination(f) ==
  CASE f[2] % 128 = 32 -> "WIRED_CONTROLLER_ADDR"
    [] f[2] % 128 = 1 -> "OTHER"
    [] OTHER -> "UNKNOWN"

Type(f) == R!Named(R!Bits(f[3], 16, 4), RegisterCode)

WithUnknownBit(f, v) == [f EXCEPT ![2] = R!WithBits(@, 128, 2, R!Bit(v))]
WithDestination(f, code) == [f EXCEPT ![2] = R!WithBits(@, 1, 128, code)]
WithType(f, type) == [f EXCEPT ![3] = R!WithBits(@, 16, 4, RegisterCode[type])]

MasterFrame(f) ==
  [destination |-> Destination(f), type |-> Type(f), status |-> R!Decoded(Payload(f))]

-----------------------------------------------------------------------------
\* Plausible bug: the controller's own frame carries its own address.
EmptyFrame_Addressed == <<32, 160, 0, 0, 0, 0, 0, 0>>

\* FujiControllerFrame.  Its byte 2 reads as destination OTHER, or UNKNOWN with
\* the login bit, for whoever takes it for a master frame.
EmptyFrame == <<32, 129, 0, 0, 0, 0, 0, 0>>

WithQueryRegister(f, type) == [f EXCEPT ![3] = R!WithBits(@, 16, 4, RegisterCode[type])]
WithLoginBit(f, v) == [f EXCEPT ![2] = R!WithBits(@, 32, 2, R!Bit(v))]
WithWriteBit(f, v) == [f EXCEPT ![3] = R!WithBits(@, 8, 2, R!Bit(v))]

QueryRegister(f) == R!Named(R!Bits(f[3], 16, 4), RegisterCode)
LoginBit(f) == R!Bits(f[2], 32, 2) = 1
WriteBit(f) == R!Bits(f[3], 8, 2) = 1

ControllerFrame(f) ==
  LET b == Payload(f) IN
  [query |-> QueryRegister(f), login |-> LoginBit(f), write |-> WriteBit(f),
   payload |-> [enabled |-> R!Enabled(b), mode |-> R!Mode(b), fan |-> R!Fan(b),
                economy |-> R!Economy(b), temperature |-> R!Temperature(b),
                swing |-> R!Swing(b), swingStep |-> R!SwingStep(b), sensor |-> b[4]]]

-----------------------------------------------------------------------------
\* Plausible bug: the temperature is written before the economy bit.
StatusPayload_EconomyLast(s) ==
  LET start == R!SetFan(R!SetMode(R!SetEnabled(<<0, 0, 0, 47, 0>>, s.enabled), s.mode), s.fan)
      setpoint == IF s.mode = "FAN" THEN start
                  ELSE R!SetEconomy(R!SetTemperature(start, s.temperature), s.economy)
  IN  R!SetSwingStep(R!SetSwing(setpoint, s.swing), s.swingStep)

\* The payload SendStatusFrame and SendLoggedInFrame build from the copy s.
StatusPayload(s) ==
  LET start == R!SetFan(R!SetMode(R!SetEnabled(<<0, 0, 0, 47, 0>>, s.enabled), s.mode), s.fan)
      setpoint == IF s.mode = "FAN" THEN start
                  ELSE R!SetTemperature(R!SetEconomy(start, s.economy), s.temperature)
  IN  R!SetSwingStep(R!SetSwing(setpoint, s.swing), s.swingStep)

\* data[i] ^= 0xFF: the line carries every byte inverted, in both directions.
Inverted(bytes) == [i \in DOMAIN bytes |-> 255 - bytes[i]]
==============================================================================
