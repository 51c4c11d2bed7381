---------------------------- MODULE FujiAcUnitSim ----------------------------
(***************************************************************************)
(* sim/fuji_ac_unit_sim.cc: the AC unit at the other end of the wire, the  *)
(* repository's executable description of it.  The unit sends the register *)
(* that was last asked for, takes settings from controller frames with the *)
(* write bit, and from its infrared remote.                                *)
(***************************************************************************)
EXTENDS FujiTypes

CONSTANT
  Remote   \* the values the infrared remote may set, one set per setting

ASSUME RemoteAssumption ==
  Remote \in [enabled : SUBSET BOOLEAN, mode : SUBSET Modes,
              fan : SUBSET Fans, temperature : SUBSET Temperatures,
              economy : SUBSET BOOLEAN, swing : SUBSET BOOLEAN,
              swingStep : SUBSET BOOLEAN]

VARIABLES
  status,     \* status_, the view of status_register_
  nextQuery   \* next_query_register_

unitVars == <<status, nextQuery>>

UnitTypeOK ==
  /\ status \in StatusRegisters
  /\ nextQuery \in RegisterTypes

\* The bytes 0x46 0x12 0xa0 0x00 0x20 of the constructor: off, COOL, fan MAX,
\* 18 degrees, no controller registered.
InitialStatus ==
  [enabled |-> FALSE, mode |-> "COOL", fan |-> "MAX", error |-> FALSE,
   economy |-> FALSE, temperature |-> 18, swing |-> FALSE,
   swingStep |-> FALSE, controllerPresent |-> FALSE]

UnitInit ==
  /\ status = InitialStatus
  /\ nextQuery = "STATUS"

-----------------------------------------------------------------------------
(***************************************************************************)
(* GetNextMasterFrame: the frame and its effect.  status is the register   *)
(* content of a STATUS frame; nobody reads it in the other frames.         *)
(***************************************************************************)
SendsStatus == nextQuery \in {"STATUS", "UNKNOWN"}

StatusAfterSend ==
  IF SendsStatus THEN [status EXCEPT !.swingStep = FALSE] ELSE status

\* Plausible bug: a query is not followed.
NextMasterFrame_OnlyStatus ==
  [destination |-> "WIRED_CONTROLLER_ADDR", type |-> "STATUS", status |-> StatusAfterSend]

NextMasterFrame ==
  [destination |-> "WIRED_CONTROLLER_ADDR",
   type |-> IF SendsStatus THEN "STATUS" ELSE nextQuery,
   status |-> StatusAfterSend]

\* What a frame says to those who read it.
Content(mf) == IF mf.type = "STATUS" THEN mf ELSE [mf EXCEPT !.status = InitialStatus]

GetNextMasterFrame ==
  /\ status' = StatusAfterSend
  /\ UNCHANGED nextQuery

-----------------------------------------------------------------------------
Accepts(cf) == cf.query = "STATUS" /\ cf.write

\* The settings a written payload leaves; in FAN mode the temperature is 18.
Written(p) ==
  [status EXCEPT !.enabled = p.enabled, !.mode = p.mode, !.fan = p.fan,
                 !.economy = p.economy, !.swing = p.swing,
                 !.swingStep = p.swingStep,
                 !.temperature = IF p.mode = "FAN" THEN 18 ELSE p.temperature]

StatusAfterPush(cf) ==
  LET written == IF Accepts(cf) THEN Written(cf.payload) ELSE status IN
    [written EXCEPT !.controllerPresent = @ \/ cf.login]

PushControllerFrame(cf) ==
  /\ status' = StatusAfterPush(cf)
  /\ nextQuery' = IF cf.query = "UNKNOWN" THEN nextQuery ELSE cf.query

-----------------------------------------------------------------------------
\* The simulator's setters: "as if IR controller was used".
RemoteSet(setting, v) == status' = [status EXCEPT ![setting] = v]

\* The unit loses power and comes back as constructed.
PowerOn ==
  /\ status' = InitialStatus
  /\ nextQuery' = "STATUS"

\* A fault appears or is cleared inside the unit.
ToggleErrorBit == status' = [status EXCEPT !.error = ~@]
==============================================================================
