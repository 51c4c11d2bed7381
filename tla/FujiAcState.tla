----------------------------- MODULE FujiAcState -----------------------------
(***************************************************************************)
(* protocol/fuji_ac_state.cc: the controller's local copy of the AC unit's *)
(* settings.  The object is a record; every method is an operator from the *)
(* record to the record (setters) or to what the method builds.            *)
(***************************************************************************)
EXTENDS FujiTypes

AcStates ==
  [mode : Modes, enabled : BOOLEAN, fan : Fans, errorFlag : BOOLEAN,
   controllerPresent : BOOLEAN, economy : BOOLEAN, temperature : Byte,
   swing : BOOLEAN, swingStep : BOOLEAN, merged : BOOLEAN]

\* Plausible bug: the constructor's values count as a change to be sent.
InitialAcState_Unsent ==
  [mode |-> "AUTO", enabled |-> FALSE, fan |-> "AUTO", errorFlag |-> FALSE,
   controllerPresent |-> FALSE, economy |-> FALSE, temperature |-> 20,
   swing |-> FALSE, swingStep |-> FALSE, merged |-> FALSE]

InitialAcState ==
  [mode |-> "AUTO", enabled |-> FALSE, fan |-> "AUTO", errorFlag |-> FALSE,
   controllerPresent |-> FALSE, economy |-> FALSE, temperature |-> 20,
   swing |-> FALSE, swingStep |-> FALSE, merged |-> TRUE]

\* The user-facing setters.  Each one also marks the copy as not merged.
SetMode(s, mode) == [s EXCEPT !.mode = mode, !.merged = FALSE]
SetEnabled(s, enabled) == [s EXCEPT !.enabled = enabled, !.merged = FALSE]
SetFan(s, fan) == [s EXCEPT !.fan = fan, !.merged = FALSE]
SetEconomy(s, economy) == [s EXCEPT !.economy = economy, !.merged = FALSE]
SetTemperature(s, temp) == [s EXCEPT !.temperature = temp, !.merged = FALSE]
SetSwing(s, swing) == [s EXCEPT !.swing = swing, !.merged = FALSE]
SetSwingStep(s, step) == [s EXCEPT !.swingStep = step, !.merged = FALSE]

\* Plausible bugs: the swing step is forgotten; the temperature keeps 8 bits.
BuildStatusRegisterResponse_NoSwingStep(s) ==
  [enabled |-> s.enabled, mode |-> s.mode, fan |-> s.fan,
   economy |-> s.mode # "FAN" /\ s.economy,
   temperature |-> IF s.mode # "FAN" THEN s.temperature % 128 ELSE 0,
   swing |-> s.swing, swingStep |-> FALSE, sensor |-> 47]

BuildStatusRegisterResponse_EightBits(s) ==
  [enabled |-> s.enabled, mode |-> s.mode, fan |-> s.fan,
   economy |-> s.mode # "FAN" /\ s.economy,
   temperature |-> IF s.mode # "FAN" THEN s.temperature ELSE 0,
   swing |-> s.swing, swingStep |-> s.swingStep, sensor |-> 47]

(***************************************************************************)
(* The status payload the controller sends: the zeroed buffer with         *)
(* payload[3] = 47, filled from the local copy.  FAN mode leaves byte 1 at *)
(* zero.  FujiStatusRegister::SetTemperature shifts the byte in without    *)
(* masking it, after SetEconomy: a temperature above 127 turns the economy *)
(* bit on.                                                                 *)
(***************************************************************************)
BuildStatusRegisterResponse(s) ==
  LET hasSetpoint == s.mode # "FAN" IN
  [enabled |-> s.enabled, mode |-> s.mode, fan |-> s.fan,
   economy |-> hasSetpoint /\ (s.economy \/ s.temperature >= 128),
   temperature |-> IF hasSetpoint THEN s.temperature % 128 ELSE 0,
   swing |-> s.swing, swingStep |-> s.swingStep, sensor |-> 47]

\* The main unit's register overwrites the copy, except for the swing step,
\* which only the user sets and only sending clears.
MergeFromMasterStatusRegister(s, status) ==
  [s EXCEPT !.enabled = status.enabled, !.mode = status.mode,
            !.fan = status.fan, !.economy = status.economy,
            !.temperature = status.temperature, !.swing = status.swing,
            !.errorFlag = status.error,
            !.controllerPresent = status.controllerPresent,
            !.merged = TRUE]
==============================================================================
