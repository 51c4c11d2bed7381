-------------------------- MODULE FujiStatusRegister --------------------------
(***************************************************************************)
(* protocol/fuji_register.cc: where each setting lives in the five bytes   *)
(* of the STATUS register.  A field is the size values of a byte from the  *)
(* bit worth unit on; a mask and an offset in the source give the same.    *)
(***************************************************************************)
EXTENDS FujiTypes, Sequences

Bits(byte, unit, size) == (byte \div unit) % size

\* (byte & ~mask) | (v << offset) for a value v that fits the field.
WithBits(byte, unit, size, v) == byte + (v - Bits(byte, unit, size)) * unit

Bit(flag) == IF flag THEN 1 ELSE 0

ModeCode ==
  [UNKNOWN |-> 0, FAN |-> 1, DRY |-> 2, COOL |-> 3, HEAT |-> 4, AUTO |-> 5]

FanCode ==
  [AUTO |-> 0, LOW |-> 1, MEDIUM |-> 2, HIGH |-> 3, MAX |-> 4, UNKNOWN |-> 5]

\* A code outside the enumeration reads as UNKNOWN.
Named(code, codes) ==
  IF \E name \in DOMAIN codes : codes[name] = code
    THEN CHOOSE name \in DOMAIN codes : codes[name] = code
    ELSE "UNKNOWN"

-----------------------------------------------------------------------------
SetEnabled(b, v) == [b EXCEPT ![1] = WithBits(@, 1, 2, Bit(v))]
SetMode(b, v) == [b EXCEPT ![1] = WithBits(@, 2, 8, ModeCode[v])]
SetFan(b, v) == [b EXCEPT ![1] = WithBits(@, 16, 8, FanCode[v])]
SetError(b, v) == [b EXCEPT ![1] = WithBits(@, 128, 2, Bit(v))]
SetEconomy(b, v) == [b EXCEPT ![2] = WithBits(@, 128, 2, Bit(v))]

\* The byte is not masked: its top bit is or-ed into the economy bit.
SetTemperature(b, v) ==
  [b EXCEPT ![2] = IF v < 128 THEN WithBits(@, 1, 128, v) ELSE v]

SetUpdateMagic(b, v) == [b EXCEPT ![3] = WithBits(@, 16, 16, v)]
SetSwing(b, v) == [b EXCEPT ![3] = WithBits(@, 4, 2, Bit(v))]
SetSwingStep(b, v) == [b EXCEPT ![3] = WithBits(@, 2, 2, Bit(v))]
SetControllerPresent(b, v) == [b EXCEPT ![4] = WithBits(@, 1, 2, Bit(v))]

Enabled(b) == Bits(b[1], 1, 2) = 1
Mode(b) == Named(Bits(b[1], 2, 8), ModeCode)
Fan(b) == Named(Bits(b[1], 16, 8), FanCode)
Error(b) == Bits(b[1], 128, 2) = 1
Economy(b) == Bits(b[2], 128, 2) = 1
Temperature(b) == Bits(b[2], 1, 128)
Swing(b) == Bits(b[3], 4, 2) = 1
SwingStep(b) == Bits(b[3], 2, 2) = 1
ControllerPresent(b) == Bits(b[4], 1, 2) = 1

\* The five bytes as the record the other modules use.
Decoded(b) ==
  [enabled |-> Enabled(b), mode |-> Mode(b), fan |-> Fan(b), error |-> Error(b),
   economy |-> Economy(b), temperature |-> Temperature(b), swing |-> Swing(b),
   swingStep |-> SwingStep(b), controllerPresent |-> ControllerPresent(b)]
==============================================================================
