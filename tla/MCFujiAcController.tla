-------------------------- MODULE MCFujiAcController --------------------------
(***************************************************************************)
(* Constants for model checking FujiAcController.                          *)
(***************************************************************************)
EXTENDS FujiAcController, FujiAcControllerClient, TLC

Request(mode, fan, setpoint) == [mode |-> mode, fan |-> fan, setpoint |-> setpoint]

\* The empty request, the FAN mode, and a request that sets all but the fan.
CoreRequests ==
  {EmptyRequest, Request("FAN", "UNKNOWN", 0), Request("HEAT", "UNKNOWN", 25)}

\* What the command-line client sends; "auto" is no fan flag.
ClientRequests ==
  {BuildRequest("off", "auto", 0), BuildRequest("", "low", 25)}

ClientRequestsWithFan == ClientRequests \cup {BuildRequest("fan", "auto", 0)}

OneRequest == {Request("UNKNOWN", "LOW", 0)}

\* A setpoint that does not fit the seven bits of the register.
WideRequests == {Request("UNKNOWN", "UNKNOWN", 200)}

NoRemote ==
  [enabled |-> {}, mode |-> {}, fan |-> {}, temperature |-> {},
   economy |-> {}, swing |-> {}, swingStep |-> {}]

SetpointRemote == [NoRemote EXCEPT !.temperature = {22}]

ModeRemote == [NoRemote EXCEPT !.mode = {"FAN"}]

CallerSymmetry == Permutations(Callers)
==============================================================================
