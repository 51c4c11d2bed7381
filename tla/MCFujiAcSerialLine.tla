-------------------------- MODULE MCFujiAcSerialLine --------------------------
(***************************************************************************)
(* Constants for model checking FujiAcSerialLine.                          *)
(***************************************************************************)
EXTENDS FujiAcSerialLine

NoRemote ==
  [enabled |-> {}, mode |-> {}, fan |-> {}, temperature |-> {},
   economy |-> {}, swing |-> {}, swingStep |-> {}]

NoUser == NoRemote

\* A setpoint the register cannot carry.
MCUser == [NoUser EXCEPT !.temperature = {200}]

\* A mode without setpoint.
MCRemote == [NoRemote EXCEPT !.mode = {"FAN"}]
==============================================================================
