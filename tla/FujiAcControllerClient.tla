------------------------ MODULE FujiAcControllerClient ------------------------
(***************************************************************************)
(* controller/fuji_ac_controller_client.cc: the ACUnitState that the       *)
(* command-line client sends for its --mode, --fan and --setpoint flags.   *)
(* It sends exactly one Update and waits for the answer; without flags the *)
(* request is empty and the Update serves as a query.                      *)
(***************************************************************************)
EXTENDS Integers

ModeOfFlag ==
  [off |-> "OFF", cool |-> "COOL", dry |-> "DRY", fan |-> "FAN", heat |-> "HEAT"]

FanOfFlag == [low |-> "LOW", medium |-> "MEDIUM", high |-> "HIGH", max |-> "MAX"]

SetpointFlags == 18..28

\* A value the client does not know, "auto" or "" among them, leaves its field
\* unset, that is at the proto3 default.
BuildRequest(mode, fan, setpoint) ==
  [mode |-> IF mode \in DOMAIN ModeOfFlag THEN ModeOfFlag[mode] ELSE "UNKNOWN",
   fan |-> IF fan \in DOMAIN FanOfFlag THEN FanOfFlag[fan] ELSE "UNKNOWN",
   setpoint |-> IF setpoint \in SetpointFlags THEN setpoint ELSE 0]
==============================================================================
