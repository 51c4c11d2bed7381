------------------------- MODULE FujiAcUnitRegisters -------------------------
(***************************************************************************)
(* sim/fuji_ac_unit_sim.cc once more, with the registers as the bytes the  *)
(* source has.  FujiAcUnitSim is the same unit with records; Sim maps one  *)
(* to the other.                                                           *)
(***************************************************************************)
EXTENDS FujiFrame

CONSTANT Remote   \* as in FujiAcUnitSim

ASSUME RemoteAssumption ==
  Remote \in [enabled : SUBSET BOOLEAN, mode : SUBSET Modes,
              fan : SUBSET Fans, temperature : SUBSET Temperatures,
              economy : SUBSET BOOLEAN, swing : SUBSET BOOLEAN,
              swingStep : SUBSET BOOLEAN]

VARIABLES
  statusRegister,   \* status_register_
  nextQuery         \* next_query_register_

unitVars == <<statusRegister, nextQuery>>

Sim == INSTANCE FujiAcUnitSim WITH status <- R!Decoded(Payload(statusRegister))

ErrorRegister == <<0, 0, 16, 0, 0, 0, 0, 0>>
LoginRegister == <<0, 0, 32, 31, 31, 5, 1, 0>>

UnitInit ==
  /\ statusRegister = <<0, 0, 0, 70, 18, 160, 0, 32>>
  /\ nextQuery = "STATUS"

\* What a method does to the five payload bytes of the status register.
StatusBecomes(b) == statusRegister' = WithPayload(statusRegister, b)

-----------------------------------------------------------------------------
StatusSent ==
  IF Sim!SendsStatus THEN R!SetSwingStep(Payload(statusRegister), FALSE)
                     ELSE Payload(statusRegister)

\* The frame GetNextMasterFrame returns: a register, marked with its type, the
\* unknown bit and the controller's address.
NextFrame ==
  LET register == CASE nextQuery = "ERROR" -> ErrorRegister
                    [] nextQuery = "LOGIN" -> LoginRegister
                    [] OTHER -> WithPayload(statusRegister, StatusSent)
      type == IF Sim!SendsStatus THEN "STATUS" ELSE nextQuery
  IN  WithDestination(WithUnknownBit(WithType(register, type), TRUE), 32)

\* The update mark goes to the register after the frame was copied from it.
GetNextMasterFrame ==
  /\ StatusBecomes(R!SetUpdateMagic(StatusSent, 10))
  /\ UNCHANGED nextQuery

\* The status bytes b after a write of payload p.
Taken(b, p) ==
  LET settings == R!SetFan(R!SetMode(R!SetEnabled(b, R!Enabled(p)), R!Mode(p)), R!Fan(p))
      economy == R!SetEconomy(settings, R!Economy(p))
      flaps == R!SetSwingStep(R!SetSwing(economy, R!Swing(p)), R!SwingStep(p))
  IN  IF R!Mode(p) = "FAN"
        THEN R!SetUpdateMagic(R!SetTemperature(flaps, 18), 4)
        ELSE R!SetUpdateMagic(R!SetTemperature(flaps, R!Temperature(p)), 0)

PushControllerFrame(f) ==
  LET status == Payload(statusRegister)
      present == IF LoginBit(f) THEN R!SetControllerPresent(status, TRUE) ELSE status
  IN  /\ nextQuery' = IF QueryRegister(f) = "UNKNOWN" THEN nextQuery ELSE QueryRegister(f)
      /\ StatusBecomes(IF QueryRegister(f) = "STATUS" /\ WriteBit(f)
                         THEN Taken(present, Payload(f)) ELSE present)

\* The simulator's setters; each one ends with Update().
WithSetting(b, setting, v) ==
  CASE setting = "enabled" -> R!SetEnabled(b, v)
    [] setting = "mode" -> R!SetMode(b, v)
    [] setting = "fan" -> R!SetFan(b, v)
    [] setting = "temperature" -> R!SetTemperature(b, v)
    [] setting = "economy" -> R!SetEconomy(b, v)
    [] setting = "swing" -> R!SetSwing(b, v)
    [] setting = "swingStep" -> R!SetSwingStep(b, v)

RemoteSet(setting, v) ==
  /\ StatusBecomes(R!SetUpdateMagic(WithSetting(Payload(statusRegister), setting, v), 4))
  /\ UNCHANGED nextQuery

\* A fault appears inside the unit.
ErrorAppears ==
  /\ StatusBecomes(R!SetError(Payload(statusRegister), TRUE))
  /\ UNCHANGED nextQuery
==============================================================================
