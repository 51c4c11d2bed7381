----------------------- MODULE FujiAcFrameExchangeProofs -----------------------
(***************************************************************************)
(* FujiAcController implements the frame exchange FujiAcFrameExchange, for *)
(* every set of callers, requests, owners and line events.  The same of    *)
(* the bytes is in FujiAcSerialLineProofs.                                 *)
(***************************************************************************)
EXTENDS FujiAcControllerProofs

\* The variable of the exchange, as the refinement mapping has it.
Frame == IF loop = "handle" /\ Addressed(inbox) THEN {Content(inbox)} ELSE {}

\* What has to be shown of every step.
ExchangeStep ==
  Exchange!Next \/ UNCHANGED <<acState, errorRead, loginRead, status, nextQuery, Frame>>

\* The exchange has the handler of FujiAcProtocolHandler.
LEMMA SameHandler ==
  ASSUME NEW mf
  PROVE  /\ Exchange!Replies(mf) = Replies(mf)
         /\ Exchange!Reply(mf) = Reply(mf)
         /\ Exchange!HandleMasterFrame(mf) = HandleMasterFrame(mf)
<1>1. Exchange!Addressed(mf) = Addressed(mf) /\ Exchange!Replies(mf) = Replies(mf)
  BY DEF Replies, Addressed, Exchange!Replies, Exchange!Addressed
<1>2. ASSUME NEW s, NEW st
      PROVE  /\ Exchange!BuildStatusRegisterResponse(s) = BuildStatusRegisterResponse(s)
             /\ Exchange!MergeFromMasterStatusRegister(s, st) = MergeFromMasterStatusRegister(s, st)
  BY DEF BuildStatusRegisterResponse, Exchange!BuildStatusRegisterResponse,
         MergeFromMasterStatusRegister, Exchange!MergeFromMasterStatusRegister
<1>3. Exchange!EmptyControllerFrame = EmptyControllerFrame
  BY DEF EmptyControllerFrame, Exchange!EmptyControllerFrame, EmptyPayload, Exchange!EmptyPayload
<1>4. ASSUME NEW s
      PROVE  /\ Exchange!SendLoginFrame = SendLoginFrame
             /\ Exchange!SendErrorQueryFrame = SendErrorQueryFrame
             /\ Exchange!SendStatusFrame(s) = SendStatusFrame(s)
             /\ Exchange!SendLoggedInFrame(s) = SendLoggedInFrame(s)
  BY <1>2, <1>3 DEF SendLoginFrame, Exchange!SendLoginFrame, SendErrorQueryFrame,
     Exchange!SendErrorQueryFrame, SendStatusFrame, Exchange!SendStatusFrame,
     SendLoggedInFrame, Exchange!SendLoggedInFrame
<1>5. /\ Exchange!Merges(mf) = Merges(mf) /\ Exchange!Merged(mf) = Merged(mf)
      /\ Exchange!ErrorDue(mf) = ErrorDue(mf) /\ Exchange!LoginDue(mf) = LoginDue(mf)
  BY <1>2 DEF Merges, Exchange!Merges, Merged, Exchange!Merged, ErrorDue, Exchange!ErrorDue,
              LoginDue, Exchange!LoginDue
<1>6. Exchange!Reply(mf) = Reply(mf)
  BY <1>4, <1>5 DEF Reply, Exchange!Reply
<1>7. /\ Exchange!IgnoreFrame(mf) = IgnoreFrame(mf)
      /\ Exchange!AnswerLogin(mf) = AnswerLogin(mf)
      /\ Exchange!QueryLogin(mf) = QueryLogin(mf)
      /\ Exchange!QueryError(mf) = QueryError(mf)
      /\ Exchange!AnswerStatus(mf) = AnswerStatus(mf)
  BY <1>1, <1>5 DEF IgnoreFrame, Exchange!IgnoreFrame, AnswerLogin, Exchange!AnswerLogin,
     QueryLogin, Exchange!QueryLogin, QueryError, Exchange!QueryError, AnswerStatus,
     Exchange!AnswerStatus, handlerVars, Exchange!handlerVars
<1> QED
  BY <1>1, <1>6, <1>7 DEF HandleMasterFrame, Exchange!HandleMasterFrame

\* And the unit of FujiAcUnitSim.
LEMMA SameUnit ==
  /\ Exchange!GetNextMasterFrame = GetNextMasterFrame
  /\ Exchange!NextMasterFrame = NextMasterFrame
  /\ Exchange!PowerOn = PowerOn
  /\ Exchange!InitialStatus = InitialStatus
  /\ \A mf : Exchange!Content(mf) = Content(mf)
  /\ \A cf : Exchange!PushControllerFrame(cf) = PushControllerFrame(cf)
<1>1. Exchange!InitialStatus = InitialStatus /\ Exchange!StatusAfterSend = StatusAfterSend
  BY DEF InitialStatus, Exchange!InitialStatus, StatusAfterSend, Exchange!StatusAfterSend,
         SendsStatus, Exchange!SendsStatus
<1>2. /\ Exchange!GetNextMasterFrame = GetNextMasterFrame
      /\ Exchange!NextMasterFrame = NextMasterFrame
  BY <1>1 DEF GetNextMasterFrame, Exchange!GetNextMasterFrame, NextMasterFrame,
     Exchange!NextMasterFrame, SendsStatus, Exchange!SendsStatus
<1>3. Exchange!PowerOn = PowerOn /\ \A mf : Exchange!Content(mf) = Content(mf)
  BY <1>1 DEF PowerOn, Exchange!PowerOn, Content, Exchange!Content
<1>4. ASSUME NEW cf
      PROVE  Exchange!PushControllerFrame(cf) = PushControllerFrame(cf)
  <2>1. Exchange!StatusAfterPush(cf) = StatusAfterPush(cf)
    BY DEF StatusAfterPush, Exchange!StatusAfterPush, Accepts, Exchange!Accepts, Written,
           Exchange!Written
  <2> QED
    BY <2>1 DEF PushControllerFrame, Exchange!PushControllerFrame
<1> QED
  BY <1>1, <1>2, <1>3, <1>4

-----------------------------------------------------------------------------
\* Nothing is under way at the start.
LEMMA InitExchange == Init => Exchange!Init
<1> SUFFICES ASSUME Init PROVE Exchange!Init
  OBVIOUS
<1>1. Exchange!HandlerInit
  BY DEF Init, HandlerInit, Exchange!HandlerInit, InitialAcState, Exchange!InitialAcState
<1>2. Exchange!UnitInit
  BY SameUnit DEF Init, UnitInit, Exchange!UnitInit
<1>3. Frame = {}
  BY DEF Init, Frame
<1> QED
  BY <1>1, <1>2, <1>3 DEF Exchange!Init, Frame

\* A read is a step of the unit, or brings nothing that is answered.
LEMMA ExchangeRead ==
  ASSUME TypeOK, LoopCheck \/ ReadFrame \/ ReadOtherDevice \/ ReadNothing
  PROVE  ExchangeStep
<1>1. UNCHANGED <<acState, errorRead, loginRead>> /\ Frame = {}
  BY DEF LoopCheck, ReadFrame, ReadOtherDevice, ReadNothing, handlerVars, Frame
<1>2. CASE ReadFrame
  <2>1. inbox' = NextMasterFrame /\ loop' = "handle" /\ GetNextMasterFrame
    BY <1>2 DEF ReadFrame
  <2>2. Addressed(inbox)'
    BY <2>1 DEF NextMasterFrame, Addressed
  <2>3. Frame' = {Content(NextMasterFrame)}
    BY <2>1, <2>2 DEF Frame, Content
  <2>4. Exchange!GetNextMasterFrame /\ Frame' = {Exchange!Content(Exchange!NextMasterFrame)}
    BY <2>1, <2>3, SameUnit
  <2> QED
    BY <1>1, <2>4 DEF ExchangeStep, Exchange!Next, Exchange!Send, Exchange!handlerVars, Frame
<1>3. CASE LoopCheck \/ ReadOtherDevice \/ ReadNothing
  <2>1. Frame' = {} /\ UNCHANGED <<status, nextQuery>>
    BY <1>3 DEF LoopCheck, ReadOtherDevice, ReadNothing, OtherDeviceFrame, NoFrame, unitVars,
                Frame, Addressed
  <2> QED
    BY <1>1, <2>1 DEF ExchangeStep
<1> QED
  BY <1>2, <1>3

\* The critical section answers the frame in hand, or puts it away.
LEMMA ExchangeHandle ==
  ASSUME TypeOK, LoopHandle
  PROVE  ExchangeStep
<1>1. HandleInbox /\ Frame' = {}
  BY DEF LoopHandle, HandleWithoutReply, HandleAndReply, HandleAndLoseReply, HandleInbox, Frame
<1>2. CASE HandleWithoutReply
  <2>1. UNCHANGED <<acState, errorRead, loginRead, status, nextQuery>>
    BY <1>2 DEF HandleWithoutReply, HandleInbox, HandleMasterFrame, IgnoreFrame, AnswerLogin,
                QueryLogin, QueryError, AnswerStatus, Replies, handlerVars, unitVars
  <2> QED
    BY <1>1, <2>1 DEF ExchangeStep, Exchange!Next, Exchange!Discard, Exchange!handlerVars,
                      Exchange!unitVars, Frame
<1>3. CASE HandleAndReply \/ HandleAndLoseReply
  <2> DEFINE mf == Content(inbox)
  <2>1. /\ Replies(inbox) /\ HandleMasterFrame(inbox) /\ inbox \in MasterFrames
        /\ PushControllerFrame(Reply(inbox)) \/ UNCHANGED unitVars
    BY <1>3 DEF HandleAndReply, HandleAndLoseReply, HandleInbox, TypeOK
  <2>2. /\ mf.destination = inbox.destination /\ mf.type = inbox.type
        /\ inbox.type = "STATUS" => mf.status = inbox.status
    BY <2>1 DEF Content, MasterFrames
  <2>3. Frame = {mf}
    BY <1>1, <2>1 DEF Frame, HandleInbox, Replies
  <2> HIDE DEF mf
  <2>4. /\ Replies(mf) /\ HandleMasterFrame(mf)
        /\ PushControllerFrame(Reply(mf)) \/ UNCHANGED unitVars
    BY <2>1, <2>2, ContentDecides
  <2>5. /\ Exchange!Replies(mf) /\ Exchange!HandleMasterFrame(mf)
        /\ Exchange!PushControllerFrame(Exchange!Reply(mf)) \/ UNCHANGED Exchange!unitVars
    BY <2>4, SameHandler, SameUnit DEF unitVars, Exchange!unitVars
  <2> QED
    BY <1>1, <2>3, <2>5 DEF ExchangeStep, Exchange!Next, Exchange!Answer, Frame
<1> QED
  BY <1>2, <1>3 DEF LoopHandle

\* A call changes settings of the copy, or nothing the exchange sees.
LEMMA ExchangeCaller ==
  ASSUME TypeOK, NEW c \in Callers, CallerStep(c)
  PROVE  ExchangeStep
<1>1. UNCHANGED <<errorRead, loginRead, status, nextQuery, loop, inbox>>
  BY DEF CallerStep, UpdateCall, UpdateReturn, GetStatusCall, GetStatusReturn, handlerVars,
         unitVars, loopVars
<1>2. Frame' = Frame
  BY <1>1 DEF Frame, Content, Addressed
<1>3. CASE acState' = acState
  BY <1>1, <1>2, <1>3 DEF ExchangeStep
<1>4. ASSUME NEW r \in Requests, UpdateCall(c, r)
      PROVE  ExchangeStep
  <2>1. r \in NewStates /\ acState \in AcStates /\ acState' = ApplyRequest(acState, r)
    BY <1>4, RequestsAssumption DEF UpdateCall, TypeOK, HandlerTypeOK
  <2>2. /\ acState'.errorFlag = acState.errorFlag
        /\ acState'.controllerPresent = acState.controllerPresent
    BY <2>1, ApplyFields
  <2>3. acState' = acState \/ ~acState'.merged
    BY <2>1, ApplyKeeps
  <2>4. acState' \in Exchange!AcStates
    <3>1. acState' \in AcStates
      BY <2>1, ApplyTyped
    <3> QED
      BY <3>1 DEF AcStates, Exchange!AcStates, Modes, Exchange!Modes, Fans, Exchange!Fans, Byte,
                  Exchange!Byte
  <2> QED
    BY <1>1, <1>2, <1>3, <2>2, <2>3, <2>4
       DEF ExchangeStep, Exchange!Next, Exchange!UserChange, Exchange!unitVars, Frame
<1>5. CASE UpdateReturn(c) \/ GetStatusCall(c) \/ GetStatusReturn(c)
  BY <1>3, <1>5 DEF UpdateReturn, GetStatusCall, GetStatusReturn, handlerVars
<1> QED
  BY <1>4, <1>5 DEF CallerStep

\* A new process has no frame in hand.
LEMMA ExchangeRestart ==
  ASSUME Restart
  PROVE  ExchangeStep
BY DEF Restart, unitVars, Frame, InitialAcState, Exchange!InitialAcState, ExchangeStep,
       Exchange!Next, Exchange!Restart, Exchange!unitVars

\* The unit's register changes under the exchange; its registration does not.
LEMMA ExchangeUnit ==
  ASSUME TypeOK, RemoteStep \/ UnitFault \/ UnitPowerCycle
  PROVE  ExchangeStep
<1>1. UNCHANGED <<acState, errorRead, loginRead, loop, inbox>>
  BY DEF RemoteStep, UnitFault, UnitPowerCycle, UnitChanged, handlerVars, loopVars
<1>2. Frame' = Frame
  BY <1>1 DEF Frame, Content, Addressed
<1>3. CASE UnitPowerCycle
  BY <1>1, <1>2, <1>3, SameUnit DEF UnitPowerCycle, ExchangeStep, Exchange!Next,
     Exchange!PowerCycle, Exchange!handlerVars, Frame
<1>4. CASE RemoteStep \/ UnitFault
  <2>1. status' \in StatusRegisters
    BY UnitStepTyped DEF TypeOK, UnitTypeOK
  <2>2. status'.controllerPresent = status.controllerPresent
    BY <1>4, RemoteAssumption DEF RemoteStep, RemoteSet, UnitFault, ToggleErrorBit, TypeOK,
       UnitTypeOK, StatusRegisters
  <2>3. nextQuery' = nextQuery
    BY <1>4 DEF RemoteStep, UnitFault
  <2>4. status' \in Exchange!StatusRegisters
    BY <2>1 DEF StatusRegisters, Exchange!StatusRegisters, Modes, Exchange!Modes, Fans,
                Exchange!Fans, Temperatures, Exchange!Temperatures
  <2> QED
    BY <1>1, <1>2, <2>2, <2>3, <2>4
       DEF ExchangeStep, Exchange!Next, Exchange!UnitChange, Exchange!handlerVars, Frame
<1> QED
  BY <1>3, <1>4

\* Every step of the controller is a step of the exchange or none.
LEMMA NextExchange == TypeOK /\ [Next]_vars => [Exchange!Next]_(Exchange!vars)
<1> SUFFICES ASSUME TypeOK, [Next]_vars PROVE ExchangeStep
  BY DEF ExchangeStep, Exchange!vars, Exchange!handlerVars, Exchange!unitVars, Frame
<1>1. CASE UNCHANGED <<acState, errorRead, loginRead, status, nextQuery, loop, inbox>>
  BY <1>1 DEF ExchangeStep, Frame, Content, Addressed
<1>2. CASE UNCHANGED vars
  BY <1>1, <1>2 DEF vars, handlerVars, unitVars, loopVars
<1>3. CASE \E o \in Owners : OwnerStep(o)
  BY <1>1, <1>3, OwnerCases, ExchangeRestart
<1> QED
  BY <1>2, <1>3, ExchangeRead, ExchangeHandle, ExchangeCaller, ExchangeRestart, ExchangeUnit
     DEF Next, CrashAndRestart

\* Whatever callers, owners, crashes and the line do, the controller answers a
\* frame of the unit at most once, before the unit sends the next, and as it was
\* sent, or not at all (DoLoop, controller.cc:130-147).
THEOREM ControllerExchangesFrames == Spec => ImplementsExchange
<1>1. Init => TypeOK /\ Exchange!Init
  BY InitTypeOK, InitExchange
<1>2. TypeOK /\ [Next]_vars => TypeOK' /\ [Exchange!Next]_(Exchange!vars)
  BY NextTypeOK, NextExchange
<1> QED
  BY <1>1, <1>2, PTL DEF Spec, ImplementsExchange, Exchange!Spec
==============================================================================
