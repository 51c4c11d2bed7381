------------------------ MODULE MCFujiAcHandlerSession ------------------------
(***************************************************************************)
(* Constants for model checking FujiAcHandlerSession.                      *)
(***************************************************************************)
EXTENDS FujiAcHandlerSession

BaseStatus ==
  [enabled |-> TRUE, mode |-> "COOL", fan |-> "MAX", error |-> FALSE,
   economy |-> FALSE, temperature |-> 22, swing |-> FALSE,
   swingStep |-> FALSE, controllerPresent |-> TRUE]

\* A unit that is registered or not, with and without an error, at rest or
\* set otherwise by its remote.
Statuses ==
  {BaseStatus,
   [BaseStatus EXCEPT !.error = TRUE],
   [BaseStatus EXCEPT !.error = TRUE, !.controllerPresent = FALSE],
   [BaseStatus EXCEPT !.mode = "FAN", !.swing = TRUE]}

Frame(destination, type, status) ==
  [destination |-> destination, type |-> type, status |-> status]

MCFrames ==
  {Frame("WIRED_CONTROLLER_ADDR", "STATUS", s) : s \in Statuses}
    \cup {Frame("WIRED_CONTROLLER_ADDR", t, BaseStatus) : t \in {"ERROR", "LOGIN", "UNKNOWN"}}
    \cup {Frame("OTHER", "STATUS", BaseStatus)}

\* Values the unit's frames do not have, so that a lost change shows; FAN mode,
\* which leaves two settings out; a temperature the register can carry and one
\* it cannot.
MCUser ==
  [enabled |-> {FALSE}, mode |-> {"FAN", "HEAT"}, fan |-> {"LOW"}, economy |-> {TRUE},
   temperature |-> {30, 200}, swing |-> {TRUE}, swingStep |-> BOOLEAN]
==============================================================================
