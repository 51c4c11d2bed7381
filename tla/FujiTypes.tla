------------------------------ MODULE FujiTypes ------------------------------
(***************************************************************************)
(* Vocabulary shared by every module: the enumerations of                  *)
(* protocol/fuji_types.h and protocol/fuji_frame.h, the STATUS register of *)
(* protocol/fuji_register.h and the two kinds of frame that travel on the  *)
(* single-wire bus.  A register or a frame is a record of its fields       *)
(* instead of its bytes; where the byte layout lets one field spill into   *)
(* another (the unmasked temperature) BuildStatusRegisterResponse keeps it.*)
(***************************************************************************)
EXTENDS Integers

Modes == {"UNKNOWN", "FAN", "DRY", "COOL", "HEAT", "AUTO"}
Fans == {"AUTO", "LOW", "MEDIUM", "HIGH", "MAX", "UNKNOWN"}
RegisterTypes == {"STATUS", "ERROR", "LOGIN", "UNKNOWN"}
Destinations == {"WIRED_CONTROLLER_ADDR", "OTHER", "UNKNOWN"}

\* uint8_t, and the seven bits of byte 1 that hold the temperature.
Byte == 0..255
Temperatures == 0..127

\* The main unit's STATUS register.  UpdateMagic (a marker the unit sets when
\* something changed) is left out: no code reads it.
StatusRegisters ==
  [enabled : BOOLEAN, mode : Modes, fan : Fans, error : BOOLEAN,
   economy : BOOLEAN, temperature : Temperatures, swing : BOOLEAN,
   swingStep : BOOLEAN, controllerPresent : BOOLEAN]

\* The payload of a controller frame: a STATUS register as the controller
\* fills it, with the sensor byte (payload[3]) that is 47 in every status
\* payload and 0 in an empty one.
Payloads ==
  [enabled : BOOLEAN, mode : Modes, fan : Fans, economy : BOOLEAN,
   temperature : Temperatures, swing : BOOLEAN, swingStep : BOOLEAN,
   sensor : {0, 47}]

\* payload.fill(0): every enumeration reads as the member numbered 0.
EmptyPayload ==
  [enabled |-> FALSE, mode |-> "UNKNOWN", fan |-> "AUTO", economy |-> FALSE,
   temperature |-> 0, swing |-> FALSE, swingStep |-> FALSE, sensor |-> 0]

MasterFrames ==
  [destination : Destinations, type : RegisterTypes, status : StatusRegisters]

ControllerFrames ==
  [query : RegisterTypes, login : BOOLEAN, write : BOOLEAN, payload : Payloads]

\* FujiControllerFrame(): STATUS query, no bit set, zero payload.
EmptyControllerFrame ==
  [query |-> "STATUS", login |-> FALSE, write |-> FALSE,
   payload |-> EmptyPayload]
==============================================================================
