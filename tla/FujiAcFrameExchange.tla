------------------------- MODULE FujiAcFrameExchange -------------------------
(***************************************************************************)
(* What the line promises handler and unit, without bytes, buffers, reads  *)
(* and threads: a frame the unit sends is handled at most once and before  *)
(* the next one, or not at all; the unit takes the answer to it before it  *)
(* sends again, or never.  Records on both sides.  FujiAcController and    *)
(* FujiAcSerialLine implement it, so that what one of them shows of        *)
(* handler and unit is about the same exchange as what the other shows.    *)
(***************************************************************************)
EXTENDS FujiAcProtocolHandler, FujiAcUnitSim

VARIABLE
  frame   \* the unit's frame under way or in hand: none or one

vars == <<handlerVars, unitVars, frame>>

Init ==
  /\ HandlerInit
  /\ UnitInit
  /\ frame = {}

-----------------------------------------------------------------------------
\* The unit sends; what it sent before is gone.
Send ==
  /\ GetNextMasterFrame
  /\ frame' = {Content(NextMasterFrame)}
  /\ UNCHANGED handlerVars

\* The frame is lost, cut off, or of no interest to the handler.
Discard ==
  /\ frame' = {}
  /\ UNCHANGED <<handlerVars, unitVars>>

\* The handler answers the frame; the unit takes the answer or misses it.
Answer ==
  /\ \E mf \in frame :
       /\ Replies(mf)
       /\ HandleMasterFrame(mf)
       /\ PushControllerFrame(Reply(mf)) \/ UNCHANGED unitVars
  /\ frame' = {}

\* A user changes settings of the copy; what the handler keeps for itself in
\* the copy is not among them.
UserChange ==
  /\ acState' \in AcStates
  /\ ~acState'.merged
  /\ acState'.errorFlag = acState.errorFlag
  /\ acState'.controllerPresent = acState.controllerPresent
  /\ UNCHANGED <<errorRead, loginRead, unitVars, frame>>

\* The remote, a fault: the register changes, the registration and the
\* register to send stay.
UnitChange ==
  /\ status' \in StatusRegisters
  /\ status'.controllerPresent = status.controllerPresent
  /\ UNCHANGED <<nextQuery, handlerVars, frame>>

PowerCycle ==
  /\ PowerOn
  /\ UNCHANGED <<handlerVars, frame>>

\* A new process; a frame in hand is lost, one under way is not.
Restart ==
  /\ acState' = InitialAcState /\ errorRead' = FALSE /\ loginRead' = TRUE
  /\ frame' \in {frame, {}}
  /\ UNCHANGED unitVars

Next ==
  \/ Send \/ Discard \/ Answer \/ UserChange \/ UnitChange \/ PowerCycle \/ Restart

Spec == Init /\ [][Next]_vars
==============================================================================
