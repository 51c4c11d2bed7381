------------------------ MODULE FujiAcControllerProofs ------------------------
(***************************************************************************)
(* Proofs about FujiAcController for every set of callers, requests and    *)
(* remote settings.                                                        *)
(***************************************************************************)
EXTENDS FujiAcController, FujiAcProtocolHandlerProofs

(***************************************************************************)
(* What the operators build has the right type.                            *)
(***************************************************************************)
\* Each block of Update leaves a well-typed copy: the int32 setpoint is cut.
LEMMA ApplyTyped ==
  ASSUME NEW s \in AcStates, NEW r \in NewStates
  PROVE  ApplyRequest(s, r) \in AcStates
<1>1. ASSUME NEW t \in AcStates
      PROVE  WithMode(t, r.mode) \in AcStates
  <2>1. r.mode \in Modes \cup {"OFF"}
    BY DEF NewStates, RequestModes
  <2>2. \A v \in BOOLEAN : SetEnabled(t, v) \in AcStates
    BY DEF AcStates, SetEnabled
  <2>3. \A m \in Modes : SetMode(SetEnabled(t, TRUE), m) \in AcStates
    <3>1. SetEnabled(t, TRUE) \in AcStates
      BY <2>2
    <3> QED
      BY <3>1 DEF AcStates, SetMode
  <2> QED
    BY <2>1, <2>2, <2>3 DEF WithMode
<1>2. ASSUME NEW t \in AcStates
      PROVE  WithFan(t, r.fan) \in AcStates
  BY DEF NewStates, AcStates, WithFan, SetFan
<1>3. ASSUME NEW t \in AcStates
      PROVE  WithSetpoint(t, r.setpoint) \in AcStates
  <2>1. r.setpoint % 256 \in Byte
    <3>1. r.setpoint \in Int
      BY DEF NewStates
    <3> QED
      BY <3>1 DEF Byte
  <2>2. ASSUME NEW b \in Byte
        PROVE  SetTemperature(t, b) \in AcStates
    BY DEF AcStates, SetTemperature
  <2> QED
    BY <2>1, <2>2 DEF WithSetpoint
<1> QED
  BY <1>1, <1>2, <1>3 DEF ApplyRequest

\* The unit's first register, and the frames nobody answers, are typed.
LEMMA FramesTyped ==
  /\ InitialStatus \in StatusRegisters
  /\ NoFrame \in MasterFrames
  /\ OtherDeviceFrame \in MasterFrames
<1>1. 18 \in Temperatures
  BY DEF Temperatures
<1>2. InitialStatus \in StatusRegisters
  BY <1>1 DEF InitialStatus, StatusRegisters, Modes, Fans
<1> QED
  BY <1>2 DEF NoFrame, OtherDeviceFrame, MasterFrames, Destinations, RegisterTypes

\* A caller's record before its first call is a request.
LEMMA EmptyRequestTyped == EmptyRequest \in NewStates
BY DEF EmptyRequest, NewStates, RequestModes, Modes, Fans

\* The unit's frame and what its register becomes.
LEMMA SendTyped ==
  ASSUME UnitTypeOK
  PROVE  StatusAfterSend \in StatusRegisters /\ NextMasterFrame \in MasterFrames
<1>1. StatusAfterSend \in StatusRegisters
  BY DEF UnitTypeOK, StatusAfterSend, StatusRegisters
<1> QED
  BY <1>1 DEF UnitTypeOK, NextMasterFrame, MasterFrames, SendsStatus,
              Destinations, RegisterTypes

\* A reply leaves a typed register in the unit.
LEMMA PushTyped ==
  ASSUME UnitTypeOK, NEW cf \in ControllerFrames, PushControllerFrame(cf)
  PROVE  UnitTypeOK'
<1>1. cf.payload \in Payloads
  BY DEF ControllerFrames
<1>2. Written(cf.payload) \in StatusRegisters
  <2>1. 18 \in Temperatures
    BY DEF Temperatures
  <2> QED
    BY <1>1, <2>1 DEF UnitTypeOK, Written, Payloads, StatusRegisters
<1>3. cf.login \in BOOLEAN /\ cf.query \in RegisterTypes
  BY DEF ControllerFrames
<1>4. StatusAfterPush(cf) \in StatusRegisters
  BY <1>2, <1>3 DEF UnitTypeOK, StatusAfterPush, StatusRegisters
<1> QED
  BY <1>3, <1>4 DEF PushControllerFrame, UnitTypeOK

-----------------------------------------------------------------------------
(***************************************************************************)
(* Type correctness.                                                       *)
(***************************************************************************)
LEMMA InitTypeOK == Init => TypeOK
<1> SUFFICES ASSUME Init PROVE TypeOK
  OBVIOUS
<1>1. HandlerTypeOK
  BY InitialCopyTyped DEF Init, HandlerInit, HandlerTypeOK
<1>2. UnitTypeOK
  BY FramesTyped DEF Init, UnitInit, UnitTypeOK, RegisterTypes
<1> QED
  BY <1>1, <1>2, EmptyRequestTyped, FramesTyped, EmptyFrameTyped DEF Init, TypeOK

\* A received frame is handled, whatever becomes of the reply.
LEMMA HandleInboxTyped ==
  ASSUME TypeOK, LoopHandle
  PROVE  TypeOK'
<1> USE DEF TypeOK
<1>1. HandleInbox
  BY DEF LoopHandle, HandleWithoutReply, HandleAndReply, HandleAndLoseReply
<1>2. HandlerTypeOK'
  BY <1>1, HandleTyped DEF HandleInbox
<1>3. Reply(inbox) \in ControllerFrames
  BY ReplyTyped
<1>4. (inbox \in MasterFrames)' /\ (loop \in {"check", "read", "handle", "done"})'
  BY <1>1, FramesTyped DEF HandleInbox
<1>5. UNCHANGED <<shutdown, owner, pc, req>>
  BY <1>1 DEF HandleInbox
<1>6. CASE HandleWithoutReply
  BY <1>2, <1>4, <1>5, <1>6 DEF HandleWithoutReply, unitVars, UnitTypeOK
<1>7. CASE HandleAndReply
  <2>1. UnitTypeOK'
    BY <1>3, <1>7, PushTyped DEF HandleAndReply
  <2>2. (ready \in BOOLEAN)' /\ (lastFrame \in ControllerFrames)'
    BY <1>3, <1>7 DEF HandleAndReply, ReadyAfter
  <2>3. (claim \in [Callers -> SUBSET Fields])'
    BY <1>7 DEF HandleAndReply, Drop
  <2> QED
    BY <1>2, <1>4, <1>5, <2>1, <2>2, <2>3
<1>8. CASE HandleAndLoseReply
  BY <1>2, <1>3, <1>4, <1>5, <1>8
     DEF HandleAndLoseReply, ReadyAfter, unitVars, UnitTypeOK
<1> QED
  BY <1>6, <1>7, <1>8 DEF LoopHandle

\* A step of a caller keeps the types.
LEMMA CallerTyped ==
  ASSUME TypeOK, NEW c \in Callers, CallerStep(c)
  PROVE  TypeOK'
<1> USE DEF TypeOK
<1>1. ASSUME NEW r \in Requests, UpdateCall(c, r)
      PROVE  TypeOK'
  <2>1. r \in NewStates
    BY RequestsAssumption
  <2>2. HandlerTypeOK'
    BY <1>1, <2>1, ApplyTyped DEF UpdateCall, HandlerTypeOK
  <2>3. (claim \in [Callers -> SUBSET Fields])'
    BY <1>1 DEF UpdateCall, Drop, Claimed, Touched
  <2>4. (pc \in [Callers -> {"idle", "updating", "querying"}])' /\ (req \in [Callers -> NewStates])'
    BY <1>1, <2>1 DEF UpdateCall
  <2> QED
    BY <1>1, <2>2, <2>3, <2>4 DEF UpdateCall, unitVars, UnitTypeOK
<1>2. CASE UpdateReturn(c) \/ GetStatusCall(c)
  BY <1>2 DEF UpdateReturn, GetStatusCall, handlerVars, unitVars, loopVars,
              HandlerTypeOK, UnitTypeOK
<1>3. CASE GetStatusReturn(c)
  BY <1>3, EmptyRequestTyped DEF GetStatusReturn, handlerVars, unitVars, loopVars,
                                 HandlerTypeOK, UnitTypeOK
<1> QED
  BY <1>1, <1>2, <1>3 DEF CallerStep

\* The unit's own steps.
LEMMA UnitStepTyped ==
  ASSUME TypeOK, RemoteStep \/ UnitFault \/ UnitPowerCycle
  PROVE  TypeOK'
<1> USE DEF TypeOK
<1>1. UnitTypeOK'
  <2>1. CASE RemoteStep
    BY <2>1, RemoteAssumption
       DEF RemoteStep, RemoteSet, UnitTypeOK, StatusRegisters
  <2>2. CASE UnitFault
    BY <2>2 DEF UnitFault, ToggleErrorBit, UnitTypeOK, StatusRegisters
  <2>3. CASE UnitPowerCycle
    BY <2>3, FramesTyped DEF UnitPowerCycle, PowerOn, UnitTypeOK, RegisterTypes
  <2> QED
    BY <2>1, <2>2, <2>3
<1>2. PICK fs \in SUBSET Fields : UnitChanged(fs)
  BY DEF RemoteStep, UnitFault, UnitPowerCycle, Fields
<1>3. (claim \in [Callers -> SUBSET Fields])'
  BY <1>2 DEF UnitChanged, Drop
<1> QED
  BY <1>1, <1>2, <1>3 DEF UnitChanged, handlerVars, loopVars, HandlerTypeOK

\* Shutdown ends the process or moves nothing but its own flags.
LEMMA OwnerCases ==
  ASSUME NEW o \in Owners, OwnerStep(o)
  PROVE  \/ Restart
         \/ UNCHANGED <<acState, errorRead, loginRead, status, nextQuery, pc, req, claim,
                       ready, lastFrame, loop, inbox>>
BY DEF OwnerStep, ShutdownTest, ShutdownAgain, ShutdownSet, ShutdownJoin, ShutdownJoinFails,
       handlerVars, unitVars, callerVars

\* A new process starts typed.
LEMMA RestartTyped ==
  ASSUME TypeOK, Restart
  PROVE  TypeOK'
BY InitialCopyTyped, EmptyRequestTyped, FramesTyped, EmptyFrameTyped
   DEF Restart, unitVars, TypeOK, HandlerTypeOK, UnitTypeOK

\* Every step keeps the types.
LEMMA NextTypeOK == TypeOK /\ [Next]_vars => TypeOK'
<1> SUFFICES ASSUME TypeOK, [Next]_vars PROVE TypeOK'
  OBVIOUS
<1>1. CASE LoopCheck \/ ReadNothing
  BY <1>1 DEF LoopCheck, ReadNothing, handlerVars,
              unitVars, callerVars, TypeOK, HandlerTypeOK, UnitTypeOK
<1>2. CASE ReadFrame
  BY <1>2, SendTyped DEF ReadFrame, GetNextMasterFrame, handlerVars, callerVars,
                         TypeOK, HandlerTypeOK, UnitTypeOK
<1>3. CASE ReadOtherDevice
  BY <1>3, FramesTyped DEF ReadOtherDevice, handlerVars, unitVars, callerVars,
                           TypeOK, HandlerTypeOK, UnitTypeOK
<1>4. CASE LoopHandle
  BY <1>4, HandleInboxTyped
<1>5. CASE \E c \in Callers : CallerStep(c)
  BY <1>5, CallerTyped
<1>6. CASE RemoteStep \/ UnitFault \/ UnitPowerCycle
  BY <1>6, UnitStepTyped
<1>7. CASE CrashAndRestart
  BY <1>7, RestartTyped DEF CrashAndRestart
<1>8. ASSUME NEW o \in Owners, OwnerStep(o)
      PROVE  TypeOK'
  <2>1. (owner \in [Owners -> {"running", "tested", "joining", "joined"}])'
    BY <1>8 DEF OwnerStep, ShutdownTest, ShutdownAgain, ShutdownSet, ShutdownJoin,
                ShutdownJoinFails, Restart, TypeOK
  <2>2. (shutdown \in BOOLEAN)'
    BY <1>8 DEF OwnerStep, ShutdownTest, ShutdownAgain, ShutdownSet, ShutdownJoin,
                ShutdownJoinFails, Restart, TypeOK
  <2>3. CASE Restart
    BY <2>3, RestartTyped
  <2>4. CASE UNCHANGED <<acState, errorRead, loginRead, status, nextQuery, pc, req, claim,
                         ready, lastFrame, loop, inbox>>
    BY <2>1, <2>2, <2>4 DEF TypeOK, HandlerTypeOK, UnitTypeOK
  <2> QED
    BY <1>8, <2>3, <2>4, OwnerCases
<1>9. CASE UNCHANGED vars
  BY <1>9 DEF vars, handlerVars, unitVars, loopVars, callerVars,
              TypeOK, HandlerTypeOK, UnitTypeOK
<1> QED
  BY <1>1, <1>2, <1>3, <1>4, <1>5, <1>6, <1>7, <1>8, <1>9 DEF Next

\* Every variable keeps its type, for all callers, requests and remotes: no
\* update, however odd its setpoint, makes a frame that does not fit its bits.
THEOREM TypeCorrect == Spec => []TypeOK
<1>1. Init => TypeOK
  BY InitTypeOK
<1>2. TypeOK /\ [Next]_vars => TypeOK'
  BY NextTypeOK
<1> QED
  BY <1>1, <1>2, PTL DEF Spec

-----------------------------------------------------------------------------
(***************************************************************************)
(* ready_ on a line that loses no reply.  HandshakeInv is inductive: the   *)
(* loop's critical section is the only step that sets ready_, and there    *)
(* two equal replies cannot be two LOGIN or two ERROR queries.             *)
(***************************************************************************)
\* What a reply is made of, by the branch of the handler that builds it.
LEMMA ReplyShape ==
  ASSUME TypeOK, NEW mf \in MasterFrames, Replies(mf), HandleMasterFrame(mf),
         ~acState.swingStep
  PROVE  /\ ~acState'.swingStep
         /\ \/ /\ mf.type = "LOGIN" /\ acState' = acState
               /\ Reply(mf).login /\ Reply(mf).query = "STATUS"
               /\ UNCHANGED <<errorRead, loginRead>>
            \/ /\ mf.type = "STATUS" /\ ~Reply(mf).login /\ Reply(mf).query = "LOGIN"
               /\ loginRead \/ acState'.merged
               /\ acState.merged => acState'.merged
               /\ ~loginRead'
            \/ /\ mf.type = "STATUS" /\ ~Reply(mf).login /\ Reply(mf).query = "ERROR"
               /\ errorRead \/ acState'.merged
               /\ acState.merged => acState'.merged
               /\ ~loginRead' /\ ~errorRead'
            \/ /\ mf.type = "STATUS" /\ ~Reply(mf).login /\ Reply(mf).query = "STATUS"
               /\ acState'.merged
               /\ ~loginRead' /\ ~errorRead'
<1> USE DEF TypeOK, HandlerTypeOK
<1>1. mf.status \in StatusRegisters
  BY DEF MasterFrames
<1>2. /\ Merged(mf) \in AcStates
      /\ ~Merged(mf).swingStep
      /\ acState.merged => Merged(mf).merged
      /\ Merges(mf) => Merged(mf).merged
  BY <1>1, MergedTyped DEF Merged, Merges, MergeFromMasterStatusRegister, AcStates
<1>3. CASE IgnoreFrame(mf)
  BY <1>3 DEF IgnoreFrame
<1>4. CASE AnswerLogin(mf)
  <2>1. Reply(mf) = SendLoggedInFrame(acState)
    BY <1>4 DEF AnswerLogin, Reply
  <2> QED
    BY <1>4, <2>1 DEF AnswerLogin, handlerVars, SendLoggedInFrame,
                      EmptyControllerFrame
<1>5. CASE QueryLogin(mf)
  <2>1. Reply(mf) = SendLoginFrame
    BY <1>5 DEF QueryLogin, Reply
  <2>2. loginRead \/ Merges(mf)
    BY <1>5 DEF QueryLogin, LoginDue
  <2> QED
    BY <1>2, <1>5, <2>1, <2>2 DEF QueryLogin, SendLoginFrame, EmptyControllerFrame
<1>6. CASE QueryError(mf)
  <2>1. Reply(mf) = SendErrorQueryFrame
    BY <1>6 DEF QueryError, Reply
  <2>2. (errorRead \/ Merges(mf)) /\ ~loginRead
    BY <1>6 DEF QueryError, ErrorDue, LoginDue
  <2> QED
    BY <1>2, <1>6, <2>1, <2>2 DEF QueryError, SendErrorQueryFrame, EmptyControllerFrame
<1>7. CASE AnswerStatus(mf)
  <2>1. Reply(mf) = SendStatusFrame(Merged(mf))
    BY <1>7 DEF AnswerStatus, Reply
  <2>2. ~errorRead /\ ~loginRead
    BY <1>7 DEF AnswerStatus, ErrorDue, LoginDue
  <2>3. acState'.merged /\ ~acState'.swingStep
    BY <1>2, <1>7 DEF AnswerStatus, AcStates
  <2> QED
    BY <1>7, <2>1, <2>2, <2>3 DEF AnswerStatus, SendStatusFrame, EmptyControllerFrame
<1> QED
  BY <1>3, <1>4, <1>5, <1>6, <1>7 DEF HandleMasterFrame

\* A controller that has sent nothing satisfies the handshake invariant.
LEMMA InitHandshake == Init => HandshakeInv
BY DEF Init, HandlerInit, UnitInit, InitialAcState, EmptyControllerFrame, NoFrame,
       HandshakeInv, LoginAnsweredOnce, UnitFollowsQuery, QueriesNotRepeated,
       ReadyImpliesMerged

\* The critical section, with the reply delivered.
LEMMA HandshakeReply ==
  ASSUME TypeOK, HandshakeInv, HandleAndReply
  PROVE  HandshakeInv'
<1> DEFINE cf == Reply(inbox)
<1>1. inbox \in MasterFrames /\ Replies(inbox) /\ HandleMasterFrame(inbox) /\ ~acState.swingStep
  BY DEF TypeOK, HandleAndReply, HandleInbox, HandshakeInv
<1>2. /\ lastFrame' = cf /\ loop' = "check"
      /\ nextQuery' = IF cf.query = "UNKNOWN" THEN nextQuery ELSE cf.query
      /\ ready' = (ready \/ cf = lastFrame)
  BY DEF HandleAndReply, HandleInbox, PushControllerFrame, ReadyAfter
<1>3. ~acState'.swingStep
  BY <1>1, ReplyShape
<1>4. Addressed(inbox)
  BY <1>1 DEF Replies
<1>5. inbox.type = "LOGIN" => cf # lastFrame \/ ~cf.login
  <2>1. SUFFICES ASSUME inbox.type = "LOGIN", cf = lastFrame, cf.login PROVE FALSE
    OBVIOUS
  <2>2. lastFrame # EmptyControllerFrame
    BY <2>1 DEF EmptyControllerFrame
  <2>3. lastFrame.query = "STATUS" /\ loop = "handle"
    BY <2>1 DEF HandshakeInv, LoginAnsweredOnce, HandleAndReply, HandleInbox
  <2> QED
    BY <2>1, <2>2, <2>3, <1>4 DEF HandshakeInv, UnitFollowsQuery
<1>6. ReadyImpliesMerged'
  BY <1>1, <1>2, <1>5, ReplyShape
     DEF HandshakeInv, ReadyImpliesMerged, QueriesNotRepeated
<1>7. LoginAnsweredOnce' /\ UnitFollowsQuery'
  BY <1>1, <1>2, ReplyShape DEF LoginAnsweredOnce, UnitFollowsQuery
<1>8. QueriesNotRepeated'
  BY <1>1, <1>2, ReplyShape DEF QueriesNotRepeated
<1> QED
  BY <1>3, <1>6, <1>7, <1>8 DEF HandshakeInv

\* On a line that loses no reply every step keeps the handshake invariant.
LEMMA NextHandshake ==
  ASSUME "replyLost" \notin LineEvents
  PROVE  TypeOK /\ HandshakeInv /\ [Next]_vars => HandshakeInv'
<1> SUFFICES ASSUME TypeOK, HandshakeInv, [Next]_vars PROVE HandshakeInv'
  OBVIOUS
<1> USE DEF HandshakeInv, LoginAnsweredOnce, UnitFollowsQuery, QueriesNotRepeated,
            ReadyImpliesMerged
<1>1. CASE LoopCheck \/ ReadNothing
  BY <1>1 DEF LoopCheck, ReadNothing, handlerVars, unitVars, Addressed
<1>2. CASE ReadFrame
  BY <1>2 DEF ReadFrame, GetNextMasterFrame, NextMasterFrame, SendsStatus,
              handlerVars
<1>3. CASE ReadOtherDevice
  BY <1>3 DEF ReadOtherDevice, OtherDeviceFrame, NoFrame, Addressed, handlerVars,
              unitVars
<1>4. CASE LoopHandle
  <2>1. CASE HandleWithoutReply
    <3>1. UNCHANGED handlerVars /\ loop' = "check"
      BY <2>1 DEF HandleWithoutReply, HandleInbox, HandleMasterFrame, IgnoreFrame,
                  AnswerLogin, QueryLogin, QueryError, AnswerStatus, Replies
    <3> QED
      BY <2>1, <3>1 DEF HandleWithoutReply, handlerVars, unitVars
  <2>2. CASE HandleAndReply
    BY <2>2, HandshakeReply
  <2>3. CASE HandleAndLoseReply
    BY <2>3 DEF HandleAndLoseReply
  <2> QED
    BY <1>4, <2>1, <2>2, <2>3 DEF LoopHandle
<1>5. ASSUME NEW c \in Callers, CallerStep(c)
      PROVE  HandshakeInv'
  <2>1. ASSUME NEW r \in Requests, UpdateCall(c, r)
        PROVE  HandshakeInv'
    <3>1. acState'.swingStep = acState.swingStep
      BY <2>1 DEF UpdateCall, ApplyRequest, WithMode, WithFan, WithSetpoint,
                  SetMode, SetEnabled, SetFan, SetTemperature, TypeOK,
                  HandlerTypeOK, AcStates
    <3> QED
      BY <2>1, <3>1 DEF UpdateCall, unitVars, Addressed
  <2>2. CASE UpdateReturn(c) \/ GetStatusCall(c) \/ GetStatusReturn(c)
    BY <2>2 DEF UpdateReturn, GetStatusCall, GetStatusReturn, handlerVars,
                unitVars, loopVars, Addressed
  <2> QED
    BY <1>5, <2>1, <2>2 DEF CallerStep
<1>6. CASE RemoteStep \/ UnitFault
  <2>1. PICK fs : UnitChanged(fs)
    BY <1>6 DEF RemoteStep, UnitFault
  <2>2. UNCHANGED nextQuery
    BY <1>6 DEF RemoteStep, UnitFault
  <2> QED
    BY <2>1, <2>2 DEF UnitChanged, handlerVars, loopVars, Addressed
<1>7. CASE UnitPowerCycle
  BY <1>7 DEF UnitPowerCycle, PowerOn, UnitChanged, handlerVars, loopVars, Addressed
<1>8. CASE Restart
  BY <1>8 DEF Restart, InitialAcState, EmptyControllerFrame
<1>9. CASE UNCHANGED <<acState, errorRead, loginRead, nextQuery, ready, lastFrame, loop, inbox>>
  BY <1>9 DEF Addressed
<1>10. CASE UNCHANGED vars
  BY <1>9, <1>10 DEF vars, handlerVars, unitVars, loopVars
<1> QED
  BY <1>1, <1>2, <1>3, <1>4, <1>5, <1>6, <1>7, <1>8, <1>9, <1>10, OwnerCases
     DEF Next, CrashAndRestart

\* Why two equal replies mean a stable state when no reply is lost: the same
\* LOGIN or ERROR query is never answered twice in a row.
THEOREM HandshakeHolds ==
  ASSUME "replyLost" \notin LineEvents
  PROVE  Spec => []HandshakeInv
<1>1. Init => TypeOK /\ HandshakeInv
  BY InitTypeOK, InitHandshake
<1>2. TypeOK /\ HandshakeInv /\ [Next]_vars => TypeOK' /\ HandshakeInv'
  BY NextTypeOK, NextHandshake
<1> QED
  BY <1>1, <1>2, PTL DEF Spec

\* On a line that loses no reply ready_ releases Update and GetStatus only
\* when the copy has no unsent change, for any number of callers and whatever
\* the remote, power cycles, faults and restarts do.
THEOREM ReadyMeansSent ==
  ASSUME "replyLost" \notin LineEvents
  PROVE  Spec => []ReadyImpliesMerged
<1>1. HandshakeInv => ReadyImpliesMerged
  BY DEF HandshakeInv
<1> QED
  BY <1>1, HandshakeHolds, PTL

-----------------------------------------------------------------------------
(***************************************************************************)
(* What a caller may rely on when its call returns.  ClaimInv follows a    *)
(* requested value from the copy over the write frame to the unit.         *)
(***************************************************************************)
\* What a request does to the copy, setting by setting.
LEMMA ApplyFields ==
  ASSUME NEW s \in AcStates, NEW r \in NewStates
  PROVE  LET t == ApplyRequest(s, r) IN
           /\ t.enabled = IF r.mode = "UNKNOWN" THEN s.enabled ELSE r.mode # "OFF"
           /\ t.mode = IF r.mode \in {"UNKNOWN", "OFF"} THEN s.mode ELSE r.mode
           /\ t.fan = IF r.fan = "UNKNOWN" THEN s.fan ELSE r.fan
           /\ t.temperature = IF r.setpoint = 0 THEN s.temperature ELSE r.setpoint % 256
           /\ t.economy = s.economy /\ t.swing = s.swing
           /\ t.controllerPresent = s.controllerPresent /\ t.swingStep = s.swingStep
           /\ t.errorFlag = s.errorFlag
<1> DEFINE m == WithMode(s, r.mode)
           n == WithFan(m, r.fan)
<1>1. /\ m.enabled = IF r.mode = "UNKNOWN" THEN s.enabled ELSE r.mode # "OFF"
      /\ m.mode = IF r.mode \in {"UNKNOWN", "OFF"} THEN s.mode ELSE r.mode
      /\ m.fan = s.fan /\ m.temperature = s.temperature
      /\ m.economy = s.economy /\ m.swing = s.swing
      /\ m.controllerPresent = s.controllerPresent /\ m.swingStep = s.swingStep
      /\ m.errorFlag = s.errorFlag
  BY DEF WithMode, SetMode, SetEnabled, AcStates
<1>2. m \in AcStates
  <2>1. r.mode \in Modes \cup {"OFF"}
    BY DEF NewStates, RequestModes
  <2> QED
    BY <2>1 DEF WithMode, SetMode, SetEnabled, AcStates, Modes
<1> HIDE DEF m
<1>3. /\ n.fan = IF r.fan = "UNKNOWN" THEN m.fan ELSE r.fan
      /\ n.enabled = m.enabled /\ n.mode = m.mode /\ n.temperature = m.temperature
      /\ n.economy = m.economy /\ n.swing = m.swing
      /\ n.controllerPresent = m.controllerPresent /\ n.swingStep = m.swingStep
      /\ n.errorFlag = m.errorFlag
  BY <1>2 DEF WithFan, SetFan, AcStates
<1>4. n \in AcStates
  BY <1>2 DEF WithFan, SetFan, AcStates, NewStates
<1> HIDE DEF n
<1>5. ApplyRequest(s, r) = WithSetpoint(n, r.setpoint)
  BY DEF ApplyRequest, n, m
<1>6. ASSUME NEW t, t = WithSetpoint(n, r.setpoint)
      PROVE  /\ t.temperature = IF r.setpoint = 0 THEN n.temperature ELSE r.setpoint % 256
             /\ t.enabled = n.enabled /\ t.mode = n.mode /\ t.fan = n.fan
             /\ t.economy = n.economy /\ t.swing = n.swing
             /\ t.controllerPresent = n.controllerPresent /\ t.swingStep = n.swingStep
             /\ t.errorFlag = n.errorFlag
  BY <1>4, <1>6 DEF WithSetpoint, SetTemperature, AcStates
<1> QED
  BY <1>1, <1>3, <1>5, <1>6

\* A request leaves the settings it does not touch.
LEMMA ApplyUntouched ==
  ASSUME NEW s \in AcStates, NEW r \in NewStates, NEW f \in Fields \ Touched(r)
  PROVE  ApplyRequest(s, r)[f] = s[f]
BY ApplyFields DEF Fields, Touched

\* A request reaches the copy: the settings it claims hold their new values.
LEMMA ApplyTakes ==
  ASSUME NEW s \in AcStates, NEW r \in NewStates, NEW f \in Claimed(r)
  PROVE  /\ Holds(ApplyRequest(s, r), r, f)
         /\ f = "temperature" => r.setpoint \in Temperatures
<1>1. f \in Fields /\ (f = "temperature" => r.setpoint \in Temperatures \ {0})
  BY DEF Claimed, Touched, Temperatures
<1>2. f = "temperature" => r.setpoint % 256 = r.setpoint
  BY <1>1 DEF Temperatures
<1>3. f \in Touched(r)
  BY DEF Claimed
<1>4. Holds(ApplyRequest(s, r), r, f)
  BY <1>1, <1>2, <1>3, ApplyFields DEF Holds, Touched, Temperatures
<1> QED
  BY <1>1, <1>4

\* A request leaves the settings it does not touch, and marks the copy as
\* modified unless it touches nothing.
LEMMA ApplyKeeps ==
  ASSUME NEW s \in AcStates, NEW r \in NewStates
  PROVE  /\ \A q \in NewStates : \A f \in Fields \ Touched(r) :
              Holds(s, q, f) => Holds(ApplyRequest(s, r), q, f)
         /\ ApplyRequest(s, r).merged => Touched(r) = {} /\ ApplyRequest(s, r) = s
<1>1. \A f \in Fields \ Touched(r) : ApplyRequest(s, r)[f] = s[f]
  BY ApplyUntouched
<1>2. ASSUME NEW q \in NewStates, NEW f \in Fields \ Touched(r), Holds(s, q, f)
      PROVE  Holds(ApplyRequest(s, r), q, f)
  BY <1>1, <1>2 DEF Holds, Fields
<1>3. ASSUME ApplyRequest(s, r).merged
      PROVE  Touched(r) = {} /\ ApplyRequest(s, r) = s
  <2>1. r.mode = "UNKNOWN" /\ r.fan = "UNKNOWN" /\ r.setpoint = 0
    BY <1>3 DEF ApplyRequest, WithMode, WithFan, WithSetpoint,
                SetMode, SetEnabled, SetFan, SetTemperature, AcStates
  <2> QED
    BY <2>1 DEF Touched, ApplyRequest, WithMode, WithFan, WithSetpoint
<1> QED
  BY <1>2, <1>3

\* A request that touches nothing leaves the copy alone, mark included.
LEMMA EmptyTouch ==
  ASSUME NEW s, NEW r \in NewStates, Touched(r) = {}
  PROVE  ApplyRequest(s, r) = s
<1>1. r.mode = "UNKNOWN" /\ r.fan = "UNKNOWN" /\ r.setpoint = 0
  BY DEF Touched, Fields
<1> QED
  BY <1>1 DEF ApplyRequest, WithMode, WithFan, WithSetpoint

\* Handling a frame keeps a value the copy holds, if the frame agrees or is
\* not merged.
LEMMA HandleKeeps ==
  ASSUME HandlerTypeOK, NEW mf \in MasterFrames, HandleMasterFrame(mf),
         NEW q \in NewStates, NEW f \in Fields, Holds(acState, q, f),
         acState.merged /\ Addressed(mf) /\ mf.type = "STATUS" => Holds(mf.status, q, f)
  PROVE  Holds(acState', q, f)
<1>1. CASE IgnoreFrame(mf) \/ AnswerLogin(mf)
  BY <1>1 DEF IgnoreFrame, AnswerLogin, handlerVars
<1>2. CASE QueryLogin(mf) \/ QueryError(mf) \/ AnswerStatus(mf)
  <2>1. Addressed(mf) /\ mf.type = "STATUS"
    BY <1>2 DEF QueryLogin, QueryError, AnswerStatus
  <2>2. Holds(Merged(mf), q, f)
    BY <2>1 DEF Merged, Merges, MergeFromMasterStatusRegister, Holds, Fields,
                HandlerTypeOK, AcStates
  <2>3. Merged(mf) \in AcStates
    BY MergedTyped
  <2>4. \A g \in Fields : acState'[g] = Merged(mf)[g]
    BY <1>2, <2>3 DEF QueryLogin, QueryError, AnswerStatus, AcStates, Fields
  <2> QED
    BY <2>2, <2>4 DEF Holds, Fields
<1> QED
  BY <1>1, <1>2 DEF HandleMasterFrame

\* A reply that the unit accepts carries the unsent copy; no other reply
\* settles one.
LEMMA ReplyWrites ==
  ASSUME HandlerTypeOK, NEW mf \in MasterFrames, Replies(mf), HandleMasterFrame(mf)
  PROVE  /\ Accepts(Reply(mf)) => Reply(mf).payload = BuildStatusRegisterResponse(acState)
         /\ ~Accepts(Reply(mf)) /\ acState'.merged => acState.merged
<1>1. CASE AnswerLogin(mf)
  <2>1. Reply(mf) = SendLoggedInFrame(acState)
    BY <1>1 DEF AnswerLogin, Reply
  <2> QED
    BY <1>1, <2>1 DEF AnswerLogin, handlerVars, SendLoggedInFrame, Accepts,
                      EmptyControllerFrame
<1>2. CASE QueryLogin(mf) \/ QueryError(mf)
  <2>1. Reply(mf) \in {SendLoginFrame, SendErrorQueryFrame}
    BY <1>2 DEF QueryLogin, QueryError, Reply
  <2>2. acState' = Merged(mf) /\ (~acState.merged => Merged(mf) = acState)
    BY <1>2 DEF QueryLogin, QueryError, Merged, Merges
  <2> QED
    BY <2>1, <2>2 DEF SendLoginFrame, SendErrorQueryFrame, Accepts, EmptyControllerFrame,
                      HandlerTypeOK, AcStates
<1>3. CASE AnswerStatus(mf)
  <2>1. Reply(mf) = SendStatusFrame(Merged(mf))
    BY <1>3 DEF AnswerStatus, Reply
  <2>2. /\ Accepts(Reply(mf)) <=> ~Merged(mf).merged
        /\ Reply(mf).payload = BuildStatusRegisterResponse(Merged(mf))
    BY <2>1 DEF SendStatusFrame, Accepts, EmptyControllerFrame
  <2>3. acState.merged <=> Merged(mf).merged
    BY DEF Merged, Merges, MergeFromMasterStatusRegister, HandlerTypeOK, AcStates
  <2>4. ~acState.merged => Merged(mf) = acState
    BY DEF Merged, Merges
  <2> QED
    BY <2>2, <2>3, <2>4
<1> QED
  BY <1>1, <1>2, <1>3 DEF HandleMasterFrame, IgnoreFrame

\* An accepted write puts the copy's settings on the unit; in FAN mode the
\* temperature is not among them.
LEMMA WriteReaches ==
  ASSUME TypeOK, NEW cf \in ControllerFrames, PushControllerFrame(cf),
         NEW q \in NewStates, NEW f \in Fields
  PROVE  /\ ~Accepts(cf) => (Holds(status, q, f) => Holds(status', q, f))
         /\ Accepts(cf) /\ cf.payload = BuildStatusRegisterResponse(acState)
              /\ Holds(acState, q, f) /\ (f = "temperature" => q.setpoint \in Temperatures)
              => Holds(status', q, f) \/ (f = "temperature" /\ cf.payload.mode = "FAN")
<1>1. \A g \in Fields : status'[g] = IF Accepts(cf) THEN Written(cf.payload)[g] ELSE status[g]
  BY DEF PushControllerFrame, StatusAfterPush, TypeOK, UnitTypeOK, StatusRegisters,
         Written, Fields
<1>2. ASSUME ~Accepts(cf), Holds(status, q, f)
      PROVE  Holds(status', q, f)
  BY <1>1, <1>2 DEF Holds, Fields
<1>3. ASSUME Accepts(cf), cf.payload = BuildStatusRegisterResponse(acState),
             Holds(acState, q, f), f = "temperature" => q.setpoint \in Temperatures
      PROVE  Holds(status', q, f) \/ (f = "temperature" /\ cf.payload.mode = "FAN")
  <2>1. CASE f \in {"enabled", "mode", "fan"}
    <3>1. status'[f] = acState[f]
      BY <1>1, <1>3, <2>1 DEF Written, BuildStatusRegisterResponse, TypeOK, UnitTypeOK,
                              StatusRegisters, Fields
    <3> QED
      BY <1>3, <2>1, <3>1 DEF Holds
  <2>2. CASE f = "temperature" /\ cf.payload.mode # "FAN"
    <3>1. acState.temperature = q.setpoint /\ q.setpoint % 128 = q.setpoint
      BY <1>3, <2>2 DEF Holds, Temperatures
    <3>2. status'.temperature = acState.temperature % 128
      BY <1>1, <1>3, <2>2 DEF Written, BuildStatusRegisterResponse, TypeOK, UnitTypeOK,
                              StatusRegisters, Fields
    <3> QED
      BY <2>2, <3>1, <3>2 DEF Holds
  <2> QED
    BY <2>1, <2>2 DEF Fields
<1> QED
  BY <1>2, <1>3

\* Nobody claims a setting at the start.
LEMMA InitClaim == Init => ClaimInv
BY DEF Init, ClaimInv

\* The critical section, with the reply delivered.
LEMMA ClaimReply ==
  ASSUME TypeOK, ClaimInv, HandleAndReply
  PROVE  ClaimInv'
<1> DEFINE cf == Reply(inbox)
<1>1. inbox \in MasterFrames /\ Replies(inbox) /\ HandleMasterFrame(inbox) /\ HandlerTypeOK
  BY DEF TypeOK, HandleAndReply, HandleInbox
<1>2. cf \in ControllerFrames /\ PushControllerFrame(cf)
  BY <1>1, ReplyTyped DEF HandleAndReply
<1>3. loop = "handle" /\ loop' = "check" /\ UNCHANGED <<pc, req>>
  BY DEF HandleAndReply, HandleInbox
<1>4. SUFFICES ASSUME NEW c \in Callers, NEW f \in claim'[c]
      PROVE  /\ pc[c] \in {"updating", "querying"}
             /\ f = "temperature" => req[c].setpoint \in Temperatures
             /\ Holds(acState', req[c], f)
             /\ acState'.merged => Holds(status', req[c], f)
  BY <1>3 DEF ClaimInv
<1>5. /\ f \in claim[c] /\ f \in Fields /\ req[c] \in NewStates
      /\ Accepts(cf) /\ cf.payload.mode = "FAN" => f # "temperature"
  BY <1>4 DEF HandleAndReply, Drop, TypeOK
<1>6. /\ pc[c] \in {"updating", "querying"}
      /\ f = "temperature" => req[c].setpoint \in Temperatures
      /\ Holds(acState, req[c], f)
      /\ acState.merged => Holds(status, req[c], f)
      /\ acState.merged /\ Addressed(inbox) /\ inbox.type = "STATUS" =>
           Holds(inbox.status, req[c], f)
  BY <1>3, <1>5 DEF ClaimInv
<1>7. Holds(acState', req[c], f)
  BY <1>1, <1>5, <1>6, HandleKeeps
<1>8. ASSUME acState'.merged
      PROVE  Holds(status', req[c], f)
  <2>1. CASE Accepts(cf)
    BY <1>1, <1>2, <1>5, <1>6, <2>1, ReplyWrites, WriteReaches
  <2>2. CASE ~Accepts(cf)
    BY <1>1, <1>2, <1>5, <1>6, <1>8, <2>2, ReplyWrites, WriteReaches
  <2> QED
    BY <2>1, <2>2
<1> QED
  BY <1>6, <1>7, <1>8

\* A call claims what it touches and takes those settings from the others.
LEMMA ClaimCall ==
  ASSUME TypeOK, ClaimInv, NEW c \in Callers, NEW r \in Requests, UpdateCall(c, r)
  PROVE  ClaimInv'
<1>1. r \in NewStates /\ acState \in AcStates
  BY RequestsAssumption DEF TypeOK, HandlerTypeOK
<1>2. acState' = ApplyRequest(acState, r) /\ UNCHANGED <<status, loop, inbox>>
  BY DEF UpdateCall, unitVars
<1>3. SUFFICES ASSUME NEW d \in Callers, NEW f \in claim'[d]
      PROVE  /\ pc'[d] \in {"updating", "querying"}
             /\ f = "temperature" => req'[d].setpoint \in Temperatures
             /\ Holds(acState', req'[d], f)
             /\ acState'.merged =>
                  /\ Holds(status, req'[d], f)
                  /\ loop = "handle" /\ Addressed(inbox) /\ inbox.type = "STATUS" =>
                       Holds(inbox.status, req'[d], f)
  BY <1>2 DEF ClaimInv, Addressed
<1>4. CASE d = c
  <2>1. f \in Claimed(r) /\ req'[d] = r /\ pc'[d] = "updating"
    BY <1>3, <1>4 DEF UpdateCall, Drop, TypeOK
  <2>2. f \in Touched(r)
    BY <2>1 DEF Claimed
  <2> QED
    BY <1>1, <1>2, <2>1, <2>2, ApplyTakes, ApplyKeeps
<1>5. CASE d # c
  <2>1. /\ f \in claim[d] /\ f \in Fields \ Touched(r)
        /\ req'[d] = req[d] /\ pc'[d] = pc[d] /\ req[d] \in NewStates
    BY <1>3, <1>5 DEF UpdateCall, Drop, TypeOK
  <2>2. Holds(acState', req[d], f)
    BY <1>1, <1>2, <2>1, ApplyKeeps DEF ClaimInv
  <2>3. acState'.merged => acState.merged
    BY <1>1, <1>2, ApplyKeeps
  <2> QED
    BY <2>1, <2>2, <2>3 DEF ClaimInv
<1> QED
  BY <1>4, <1>5

\* The unit's side: a claim on a changed setting survives only an unsent copy.
LEMMA ClaimUnit ==
  ASSUME TypeOK, ClaimInv, NEW fs, UnitChanged(fs),
         \A f \in Fields \ fs : status'[f] = status[f]
  PROVE  ClaimInv'
<1>1. UNCHANGED <<acState, loop, inbox, pc, req>>
  BY DEF UnitChanged, handlerVars, loopVars
<1>2. ASSUME NEW c \in Callers, NEW f \in claim'[c]
      PROVE  /\ f \in claim[c] /\ f \in Fields
             /\ acState.merged => status'[f] = status[f]
  BY <1>2 DEF UnitChanged, Drop, TypeOK
<1>3. ASSUME NEW c \in Callers, NEW f \in claim'[c], acState.merged, Holds(status, req[c], f)
      PROVE  Holds(status', req[c], f)
  BY <1>2, <1>3 DEF Holds, Fields
<1> QED
  BY <1>1, <1>2, <1>3 DEF ClaimInv, Addressed

\* On a line that loses no reply every step keeps the claims true.
LEMMA NextClaim ==
  ASSUME "replyLost" \notin LineEvents
  PROVE  TypeOK /\ ClaimInv /\ [Next]_vars => ClaimInv'
<1> SUFFICES ASSUME TypeOK, ClaimInv, [Next]_vars PROVE ClaimInv'
  OBVIOUS
<1>1. CASE LoopCheck \/ ReadNothing
  BY <1>1 DEF LoopCheck, ReadNothing, handlerVars,
              unitVars, callerVars, ClaimInv, Addressed
<1>2. CASE ReadFrame
  <2>1. UNCHANGED <<acState, pc, req, claim>>
    BY <1>2 DEF ReadFrame, handlerVars, callerVars
  <2>2. \A f \in Fields : status'[f] = status[f] /\ inbox'.status[f] = status[f]
    BY <1>2 DEF ReadFrame, GetNextMasterFrame, NextMasterFrame, StatusAfterSend,
                TypeOK, UnitTypeOK, StatusRegisters, Fields
  <2>3. \A c \in Callers : \A f \in claim[c] :
          Holds(status, req[c], f) => Holds(status', req[c], f) /\ Holds(inbox'.status, req[c], f)
    BY <2>2 DEF Holds, Fields, TypeOK
  <2> QED
    BY <2>1, <2>3 DEF ClaimInv
<1>3. CASE ReadOtherDevice
  BY <1>3 DEF ReadOtherDevice, OtherDeviceFrame, NoFrame, Addressed, handlerVars,
              unitVars, callerVars, ClaimInv
<1>4. CASE LoopHandle
  <2>1. CASE HandleWithoutReply
    <3>1. UNCHANGED handlerVars /\ loop' = "check"
      BY <2>1 DEF HandleWithoutReply, HandleInbox, HandleMasterFrame, IgnoreFrame,
                  AnswerLogin, QueryLogin, QueryError, AnswerStatus, Replies
    <3> QED
      BY <2>1, <3>1 DEF HandleWithoutReply, HandleInbox, handlerVars, unitVars, ClaimInv
  <2>2. CASE HandleAndReply
    BY <2>2, ClaimReply
  <2>3. CASE HandleAndLoseReply
    BY <2>3 DEF HandleAndLoseReply
  <2> QED
    BY <1>4, <2>1, <2>2, <2>3 DEF LoopHandle
<1>5. ASSUME NEW c \in Callers, CallerStep(c)
      PROVE  ClaimInv'
  <2>1. CASE \E r \in Requests : UpdateCall(c, r)
    BY <2>1, ClaimCall
  <2>2. CASE UpdateReturn(c) \/ GetStatusCall(c) \/ GetStatusReturn(c)
    BY <2>2 DEF UpdateReturn, GetStatusCall, GetStatusReturn, handlerVars, unitVars,
                loopVars, ClaimInv, Addressed, TypeOK
  <2> QED
    BY <1>5, <2>1, <2>2 DEF CallerStep
<1>6. CASE RemoteStep
  <2>1. ASSUME NEW fs, NEW g, UnitChanged(fs), g \in fs \/ g \notin Fields,
               NEW v, status' = [status EXCEPT ![g] = v]
        PROVE  ClaimInv'
    <3>1. \A f \in Fields \ fs : status'[f] = status[f]
      BY <2>1 DEF TypeOK, UnitTypeOK, StatusRegisters, Fields
    <3> QED
      BY <2>1, <3>1, ClaimUnit
  <2>2. PICK g \in DOMAIN Remote : \E v \in Remote[g] :
          RemoteSet(g, v) /\ UnitChanged(Fields \cap {g})
    BY <1>6 DEF RemoteStep
  <2>3. g \in Fields \cap {g} \/ g \notin Fields
    OBVIOUS
  <2> QED
    BY <2>1, <2>2, <2>3 DEF RemoteSet
<1>7. CASE UnitFault
  <2>1. \A f \in Fields : status'[f] = status[f]
    BY <1>7 DEF UnitFault, ToggleErrorBit, TypeOK, UnitTypeOK, StatusRegisters, Fields
  <2> QED
    BY <1>7, <2>1, ClaimUnit DEF UnitFault
<1>8. CASE UnitPowerCycle
  BY <1>8, ClaimUnit DEF UnitPowerCycle
<1>9. CASE Restart
  BY <1>9 DEF Restart, ClaimInv
<1>10. CASE UNCHANGED <<acState, status, pc, req, claim, loop, inbox>>
  BY <1>10 DEF ClaimInv, Addressed
<1>11. CASE UNCHANGED vars
  BY <1>10, <1>11 DEF vars, handlerVars, unitVars, loopVars, callerVars
<1> QED
  BY <1>1, <1>2, <1>3, <1>4, <1>5, <1>6, <1>7, <1>8, <1>9, <1>10, <1>11, OwnerCases
     DEF Next, CrashAndRestart

\* What a waiting caller may rely on, at every point of its wait: the copy, then
\* the unit, then the next STATUS frame hold the settings it asked for.
THEOREM ClaimsHold ==
  ASSUME "replyLost" \notin LineEvents
  PROVE  Spec => []ClaimInv
<1>1. Init => TypeOK /\ ClaimInv
  BY InitTypeOK, InitClaim
<1>2. TypeOK /\ ClaimInv /\ [Next]_vars => TypeOK' /\ ClaimInv'
  BY NextTypeOK, NextClaim
<1> QED
  BY <1>1, <1>2, PTL DEF Spec

\* On a line that loses no reply, a returning Update finds its settings on the
\* unit, unless someone took them over: controller.h:38, for every number of
\* callers and every request.
THEOREM UpdateTakesEffect ==
  ASSUME "replyLost" \notin LineEvents
  PROVE  Spec => []UpdateReachesUnit
<1>1. HandshakeInv /\ ClaimInv => UpdateReachesUnit
  BY DEF HandshakeInv, ReadyImpliesMerged, ClaimInv, UpdateReachesUnit
<1> QED
  BY <1>1, HandshakeHolds, ClaimsHold, PTL

\* The status an Update RPC answers with holds the caller's own settings,
\* unless someone took them over between its two critical sections.
THEOREM UpdateAnswersOwnValues ==
  ASSUME "replyLost" \notin LineEvents
  PROVE  Spec => []UpdateReportsOwnValues
<1>1. TypeOK /\ ClaimInv => UpdateReportsOwnValues
  <2> SUFFICES ASSUME TypeOK, ClaimInv, NEW c \in Callers
               PROVE  LET answer == Response(acState) IN
                        /\ "enabled" \in claim[c] => (answer.mode = "OFF" <=> req[c].mode = "OFF")
                        /\ {"enabled", "mode"} \subseteq claim[c] => answer.mode = req[c].mode
                        /\ "fan" \in claim[c] => answer.fan = req[c].fan
                        /\ "temperature" \in claim[c] => answer.setpoint = req[c].setpoint
    BY DEF UpdateReportsOwnValues
  <2>1. \A f \in claim[c] : Holds(acState, req[c], f)
    BY DEF ClaimInv
  <2>2. acState.mode # "OFF"
    BY DEF TypeOK, HandlerTypeOK, AcStates, Modes
  <2>3. "mode" \in claim[c] => acState.mode = req[c].mode
    BY <2>1 DEF Holds
  <2> QED
    BY <2>1, <2>2, <2>3 DEF Response, Holds
<1> QED
  BY <1>1, TypeCorrect, ClaimsHold, PTL

-----------------------------------------------------------------------------
(***************************************************************************)
(* Who is behind an unsent change.  Only Update makes one, and the caller  *)
(* that made it cannot leave before ready_, hence not before it was sent.  *)
(***************************************************************************)
\* Handling a frame never makes the copy unsent (no swing step is ever set).
LEMMA HandleSettles ==
  ASSUME TypeOK, HandshakeInv, HandleInbox
  PROVE  acState.merged => acState'.merged
<1>1. inbox \in MasterFrames /\ HandleMasterFrame(inbox) /\ ~acState.swingStep
  BY DEF TypeOK, HandleInbox, HandshakeInv
<1>2. CASE Replies(inbox)
  BY <1>1, <1>2, ReplyShape
<1>3. CASE ~Replies(inbox)
  BY <1>1, <1>3 DEF HandleMasterFrame, IgnoreFrame, AnswerLogin, QueryLogin,
                    QueryError, AnswerStatus, Replies, handlerVars
<1> QED
  BY <1>2, <1>3

\* An unsent change goes on having a caller that waits for it.
LEMMA NextWaiter ==
  TypeOK /\ HandshakeInv /\ UnsentChangeHasWaiter /\ [Next]_vars => UnsentChangeHasWaiter'
<1> SUFFICES ASSUME TypeOK, HandshakeInv, UnsentChangeHasWaiter, [Next]_vars
             PROVE  UnsentChangeHasWaiter'
  OBVIOUS
<1>1. ASSUME acState.merged => acState'.merged, UNCHANGED <<pc, req>>
      PROVE  UnsentChangeHasWaiter'
  BY <1>1 DEF UnsentChangeHasWaiter, WaitingChange
<1>2. CASE LoopCheck \/ ReadNothing \/ ReadOtherDevice \/ ReadFrame
  BY <1>1, <1>2 DEF LoopCheck, ReadNothing, ReadOtherDevice, ReadFrame, handlerVars, callerVars
<1>3. CASE LoopHandle
  <2>1. HandleInbox
    BY <1>3 DEF LoopHandle, HandleWithoutReply, HandleAndReply, HandleAndLoseReply
  <2> QED
    BY <1>1, <2>1, HandleSettles DEF HandleInbox
<1>4. ASSUME NEW c \in Callers, CallerStep(c)
      PROVE  UnsentChangeHasWaiter'
  <2>1. ASSUME NEW r \in Requests, UpdateCall(c, r)
        PROVE  UnsentChangeHasWaiter'
    <3>1. SUFFICES ASSUME ~acState'.merged
          PROVE  \E d \in Callers : pc'[d] = "updating" /\ Touched(req'[d]) # {}
      BY DEF UnsentChangeHasWaiter, WaitingChange
    <3>2. /\ pc[c] = "idle" /\ pc'[c] = "updating" /\ req'[c] = r
          /\ \A d \in Callers \ {c} : pc'[d] = pc[d] /\ req'[d] = req[d]
          /\ acState' = ApplyRequest(acState, r)
      BY <2>1 DEF UpdateCall, TypeOK
    <3>3. CASE Touched(r) # {}
      BY <3>2, <3>3
    <3>4. CASE Touched(r) = {}
      <4>1. acState' = acState
        BY <3>2, <3>4, EmptyTouch, RequestsAssumption
      <4>2. PICK d \in Callers : pc[d] = "updating" /\ Touched(req[d]) # {}
        BY <3>1, <4>1 DEF UnsentChangeHasWaiter, WaitingChange
      <4> QED
        BY <3>2, <4>2
    <3> QED
      BY <3>3, <3>4
  <2>2. CASE UpdateReturn(c) \/ GetStatusReturn(c)
    <3>1. acState'.merged
      BY <2>2 DEF UpdateReturn, GetStatusReturn, HandshakeInv, ReadyImpliesMerged,
                  handlerVars
    <3> QED
      BY <3>1 DEF UnsentChangeHasWaiter
  <2>3. CASE GetStatusCall(c)
    BY <2>3 DEF GetStatusCall, handlerVars, UnsentChangeHasWaiter, WaitingChange, TypeOK
  <2> QED
    BY <1>4, <2>1, <2>2, <2>3 DEF CallerStep
<1>5. CASE RemoteStep \/ UnitFault \/ UnitPowerCycle
  <2>1. PICK fs : UnitChanged(fs)
    BY <1>5 DEF RemoteStep, UnitFault, UnitPowerCycle
  <2> QED
    BY <1>1, <2>1 DEF UnitChanged, handlerVars
<1>6. CASE Restart
  BY <1>6 DEF Restart, InitialAcState, UnsentChangeHasWaiter
<1>7. CASE UNCHANGED vars
  BY <1>1, <1>7 DEF vars, handlerVars, callerVars
<1>8. ASSUME NEW o \in Owners, OwnerStep(o)
      PROVE  UnsentChangeHasWaiter'
  BY <1>1, <1>6, <1>8, OwnerCases
<1> QED
  BY <1>2, <1>3, <1>4, <1>5, <1>6, <1>7, <1>8 DEF Next, CrashAndRestart

\* On a line that loses no reply, the copy differs from what was sent only
\* while some Update that changed it waits: nothing is left behind, to be
\* written when nobody expects it any more.
THEOREM NoUnsentChangeLeft ==
  ASSUME "replyLost" \notin LineEvents
  PROVE  Spec => []UnsentChangeHasWaiter
<1>1. Init => TypeOK /\ HandshakeInv /\ UnsentChangeHasWaiter
  BY InitTypeOK, InitHandshake
     DEF Init, HandlerInit, InitialAcState, UnsentChangeHasWaiter
<1>2. TypeOK /\ HandshakeInv /\ UnsentChangeHasWaiter /\ [Next]_vars
        => TypeOK' /\ HandshakeInv' /\ UnsentChangeHasWaiter'
  BY NextTypeOK, NextHandshake, NextWaiter
<1> QED
  BY <1>1, <1>2, PTL DEF Spec

-----------------------------------------------------------------------------
(***************************************************************************)
(* Two action properties, each from a small invariant of its own.          *)
(***************************************************************************)
\* The login flag is up only while the copy says that nobody is registered.
LoginFlagInv == acState.controllerPresent => ~loginRead

\* A frame that leads to a login query leaves a copy that was not registered
\* before the frame or is not after it.
LEMMA LoginQueryDue ==
  ASSUME TypeOK, LoginFlagInv, HandleInbox
  PROVE  /\ LoginFlagInv'
         /\ Replies(inbox) /\ Reply(inbox).query = "LOGIN" =>
              ~acState.controllerPresent \/ ~acState'.controllerPresent
<1>1. inbox \in MasterFrames /\ HandleMasterFrame(inbox) /\ acState \in AcStates
  BY DEF TypeOK, HandleInbox, HandlerTypeOK
<1>2. CASE IgnoreFrame(inbox) \/ AnswerLogin(inbox)
  BY <1>2 DEF IgnoreFrame, AnswerLogin, handlerVars, LoginFlagInv, Reply,
              SendLoggedInFrame, EmptyControllerFrame
<1>3. CASE QueryLogin(inbox)
  <2>1. CASE loginRead
    BY <1>3, <2>1 DEF QueryLogin, LoginFlagInv
  <2>2. CASE ~loginRead
    <3>1. Merges(inbox) /\ ~inbox.status.controllerPresent
      BY <1>3, <2>2 DEF QueryLogin, LoginDue
    <3>2. acState' = MergeFromMasterStatusRegister(acState, inbox.status)
      BY <1>3, <3>1 DEF QueryLogin, Merged
    <3>3. ~acState'.controllerPresent
      BY <1>1, <3>1, <3>2 DEF MergeFromMasterStatusRegister, AcStates
    <3> QED
      BY <1>3, <3>3 DEF QueryLogin, LoginFlagInv
  <2> QED
    BY <2>1, <2>2
<1>4. CASE QueryError(inbox) \/ AnswerStatus(inbox)
  <2>1. Addressed(inbox) /\ inbox.type = "STATUS" /\ ~LoginDue(inbox) /\ ~loginRead'
    BY <1>4 DEF QueryError, AnswerStatus, LoginDue
  <2>2. Reply(inbox) = SendErrorQueryFrame \/ Reply(inbox) = SendStatusFrame(Merged(inbox))
    BY <2>1 DEF Reply
  <2>3. Reply(inbox).query # "LOGIN"
    <3>1. SendErrorQueryFrame.query = "ERROR"
      BY DEF SendErrorQueryFrame, EmptyControllerFrame
    <3>2. SendStatusFrame(Merged(inbox)).query = "STATUS"
      BY DEF SendStatusFrame, EmptyControllerFrame
    <3> QED
      BY <2>2, <3>1, <3>2
  <2> QED
    BY <2>1, <2>3 DEF LoginFlagInv
<1> QED
  BY <1>1, <1>2, <1>3, <1>4 DEF HandleMasterFrame

\* Steps outside the critical section: no reply is sent, the flag stays, and
\* Update does not touch what the copy knows of the registration.
LEMMA LoginOtherSteps ==
  ASSUME TypeOK, LoginFlagInv, [Next]_vars, ~LoopHandle, ~Restart
  PROVE  LoginFlagInv' /\ lastFrame' = lastFrame
<1>1. CASE UNCHANGED <<acState, loginRead, lastFrame>>
  BY <1>1 DEF LoginFlagInv
<1>2. ASSUME NEW c \in Callers, CallerStep(c)
      PROVE  LoginFlagInv' /\ lastFrame' = lastFrame
  <2>1. ASSUME NEW r \in Requests, UpdateCall(c, r)
        PROVE  LoginFlagInv' /\ lastFrame' = lastFrame
    <3>1. acState'.controllerPresent = acState.controllerPresent
      BY <2>1 DEF UpdateCall, ApplyRequest, WithMode, WithFan, WithSetpoint,
                  SetMode, SetEnabled, SetFan, SetTemperature, TypeOK,
                  HandlerTypeOK, AcStates
    <3> QED
      BY <2>1, <3>1 DEF UpdateCall, LoginFlagInv
  <2>2. CASE UpdateReturn(c) \/ GetStatusCall(c) \/ GetStatusReturn(c)
    BY <1>1, <2>2 DEF UpdateReturn, GetStatusCall, GetStatusReturn, handlerVars, loopVars
  <2> QED
    BY <1>2, <2>1, <2>2 DEF CallerStep
<1>3. CASE LoopCheck \/ ReadNothing \/ ReadOtherDevice \/ ReadFrame
  BY <1>1, <1>3 DEF LoopCheck, ReadNothing, ReadOtherDevice, ReadFrame, handlerVars
<1>4. CASE RemoteStep \/ UnitFault \/ UnitPowerCycle
  <2>1. PICK fs : UnitChanged(fs)
    BY <1>4 DEF RemoteStep, UnitFault, UnitPowerCycle
  <2> QED
    BY <1>1, <2>1 DEF UnitChanged, handlerVars, loopVars
<1>5. CASE UNCHANGED vars
  BY <1>1, <1>5 DEF vars, handlerVars, loopVars
<1>6. ASSUME NEW o \in Owners, OwnerStep(o)
      PROVE  LoginFlagInv' /\ lastFrame' = lastFrame
  BY <1>1, <1>6, OwnerCases
<1> QED
  BY <1>2, <1>3, <1>4, <1>5, <1>6 DEF Next, CrashAndRestart

\* The controller never asks for the LOGIN register while its copy says, before
\* and after the frame, that it is registered: also with a lossy line, power
\* cycles and restarts.
THEOREM NoSecondLogin == Spec => NoLoginOnceRegistered
<1>1. Init => TypeOK /\ LoginFlagInv
  BY InitTypeOK DEF Init, HandlerInit, InitialAcState, LoginFlagInv
<1>2. TypeOK /\ LoginFlagInv /\ [Next]_vars
        => /\ TypeOK' /\ LoginFlagInv'
           /\ acState.controllerPresent /\ acState'.controllerPresent
                /\ lastFrame' # lastFrame => lastFrame'.query # "LOGIN"
  <2> SUFFICES ASSUME TypeOK, LoginFlagInv, [Next]_vars
               PROVE  /\ LoginFlagInv'
                      /\ acState.controllerPresent /\ acState'.controllerPresent
                           /\ lastFrame' # lastFrame => lastFrame'.query # "LOGIN"
    BY NextTypeOK
  <2>1. CASE LoopHandle
    <3>1. HandleInbox
      BY <2>1 DEF LoopHandle, HandleWithoutReply, HandleAndReply, HandleAndLoseReply
    <3>2. lastFrame' = lastFrame \/ (Replies(inbox) /\ lastFrame' = Reply(inbox))
      BY <2>1 DEF LoopHandle, HandleWithoutReply, HandleAndReply, HandleAndLoseReply
    <3> QED
      BY <3>1, <3>2, LoginQueryDue
  <2>2. CASE Restart
    BY <2>2 DEF Restart, InitialAcState, LoginFlagInv
  <2>3. CASE ~LoopHandle /\ ~Restart
    BY <2>3, LoginOtherSteps
  <2> QED
    BY <2>1, <2>2, <2>3
<1> QED
  BY <1>1, <1>2, PTL DEF Spec, NoLoginOnceRegistered

\* Shutdown returns only when the loop has ended.
JoinInv == \A o \in Owners : owner[o] = "joined" => loop = "done"

\* No step lets an owner be joined while the loop still runs.
LEMMA NextJoin == TypeOK /\ JoinInv /\ [Next]_vars => JoinInv'
<1> SUFFICES ASSUME TypeOK, JoinInv, [Next]_vars PROVE JoinInv'
  OBVIOUS
<1> USE DEF JoinInv
<1>1. CASE UNCHANGED <<loop, owner>>
  BY <1>1
<1>2. CASE LoopCheck \/ ReadFrame \/ ReadOtherDevice \/ ReadNothing
  BY <1>2 DEF LoopCheck, ReadFrame, ReadOtherDevice, ReadNothing
<1>3. CASE LoopHandle
  BY <1>3 DEF LoopHandle, HandleWithoutReply, HandleAndReply, HandleAndLoseReply, HandleInbox
<1>4. ASSUME NEW c \in Callers, CallerStep(c)
      PROVE  JoinInv'
  BY <1>1, <1>4 DEF CallerStep, UpdateCall, UpdateReturn, GetStatusCall, GetStatusReturn,
                    loopVars
<1>5. CASE Restart
  BY <1>5 DEF Restart
<1>6. ASSUME NEW o \in Owners, OwnerStep(o)
      PROVE  JoinInv'
  BY <1>5, <1>6 DEF OwnerStep, ShutdownTest, ShutdownAgain, ShutdownSet, ShutdownJoin,
                    ShutdownJoinFails, TypeOK
<1>7. CASE RemoteStep \/ UnitFault \/ UnitPowerCycle
  <2>1. PICK fs : UnitChanged(fs)
    BY <1>7 DEF RemoteStep, UnitFault, UnitPowerCycle
  <2> QED
    BY <1>1, <2>1 DEF UnitChanged, loopVars
<1>8. CASE UNCHANGED vars
  BY <1>1, <1>8 DEF vars, loopVars
<1> QED
  BY <1>2, <1>3, <1>4, <1>5, <1>6, <1>7, <1>8 DEF Next, CrashAndRestart

\* After Shutdown has returned no frame is read, handled or answered until the
\* process starts again, whatever the callers, the unit and the line do and
\* however many other threads call Shutdown.
THEOREM NothingSentAfterShutdown == Spec => QuietAfterJoin
<1>1. Init => TypeOK /\ JoinInv
  BY InitTypeOK DEF Init, JoinInv
<1>2. TypeOK /\ JoinInv /\ [Next]_vars
        => \A o \in Owners : owner[o] = "joined" /\ owner'[o] = "joined" =>
             UNCHANGED <<loop, inbox, lastFrame>>
  <2> SUFFICES ASSUME TypeOK, JoinInv, [Next]_vars,
                      NEW o \in Owners, owner[o] = "joined", owner'[o] = "joined"
               PROVE  UNCHANGED <<loop, inbox, lastFrame>>
    OBVIOUS
  <2>1. loop = "done"
    BY DEF JoinInv
  <2>2. ~LoopCheck /\ ~ReadFrame /\ ~ReadOtherDevice /\ ~ReadNothing /\ ~LoopHandle
    BY <2>1 DEF LoopCheck, ReadFrame, ReadOtherDevice, ReadNothing, LoopHandle,
                HandleWithoutReply, HandleAndReply, HandleAndLoseReply, HandleInbox
  <2>3. ~Restart
    BY DEF Restart
  <2>4. ASSUME NEW c \in Callers, CallerStep(c)
        PROVE  UNCHANGED <<loop, inbox, lastFrame>>
    BY <2>4 DEF CallerStep, UpdateCall, UpdateReturn, GetStatusCall, GetStatusReturn, loopVars
  <2>5. ASSUME NEW p \in Owners, OwnerStep(p)
        PROVE  UNCHANGED <<loop, inbox, lastFrame>>
    BY <2>3, <2>5, OwnerCases
  <2>6. CASE RemoteStep \/ UnitFault \/ UnitPowerCycle
    <3>1. \E fs : UnitChanged(fs)
      BY <2>6 DEF RemoteStep, UnitFault, UnitPowerCycle
    <3> QED
      BY <3>1 DEF UnitChanged, loopVars
  <2> QED
    BY <2>2, <2>3, <2>4, <2>5, <2>6 DEF Next, CrashAndRestart, vars, loopVars
<1> QED
  BY <1>1, <1>2, NextTypeOK, NextJoin, PTL DEF Spec, QuietAfterJoin

-----------------------------------------------------------------------------
\* Why nothing is answered: whoever handles a frame while the unit is at the
\* ERROR register read it before, when it was one that asks for no answer.
SilentInv == nextQuery = "ERROR" => ~(loop = "handle" /\ Replies(inbox))

\* Every step keeps the silence, but for a loss of power.
LEMMA NextSilent ==
  SilentInv /\ [Next]_vars =>
    /\ SilentInv'
    /\ nextQuery = "ERROR" =>
         \/ UnitPowerCycle
         \/ nextQuery' = "ERROR" /\ ~HandleAndReply /\ ~HandleAndLoseReply
<1> DEFINE Step == /\ SilentInv'
                   /\ nextQuery = "ERROR" =>
                        \/ UnitPowerCycle
                        \/ nextQuery' = "ERROR" /\ ~HandleAndReply /\ ~HandleAndLoseReply
<1> SUFFICES ASSUME SilentInv, [Next]_vars PROVE Step
  OBVIOUS
<1>1. nextQuery = "ERROR" => ~HandleAndReply /\ ~HandleAndLoseReply
  BY DEF SilentInv, HandleAndReply, HandleAndLoseReply, HandleInbox
<1>2. CASE UNCHANGED nextQuery /\ (UNCHANGED <<loop, inbox>> \/ loop' # "handle")
  BY <1>1, <1>2 DEF SilentInv, Replies, Addressed
<1>3. CASE ReadFrame \/ ReadOtherDevice
  <2>1. nextQuery' = nextQuery /\ (nextQuery = "ERROR" => ~Replies(inbox)')
    BY <1>3 DEF ReadFrame, GetNextMasterFrame, NextMasterFrame, SendsStatus, ReadOtherDevice,
                OtherDeviceFrame, NoFrame, unitVars, Replies, Addressed
  <2> QED
    BY <1>1, <2>1 DEF SilentInv
<1>4. CASE LoopHandle
  <2>1. loop' = "check"
    BY <1>4 DEF LoopHandle, HandleWithoutReply, HandleAndReply, HandleAndLoseReply, HandleInbox
  <2>2. CASE HandleAndReply
    BY <1>1, <2>1, <2>2 DEF SilentInv
  <2>3. CASE HandleWithoutReply \/ HandleAndLoseReply
    BY <1>2, <2>1, <2>3 DEF HandleWithoutReply, HandleAndLoseReply, unitVars
  <2> QED
    BY <1>4, <2>2, <2>3 DEF LoopHandle
<1>5. CASE LoopCheck \/ ReadNothing
  BY <1>2, <1>5 DEF LoopCheck, ReadNothing, unitVars
<1>6. ASSUME NEW c \in Callers, CallerStep(c)
      PROVE  Step
  BY <1>2, <1>6 DEF CallerStep, UpdateCall, UpdateReturn, GetStatusCall, GetStatusReturn,
                    unitVars, loopVars
<1>7. CASE RemoteStep \/ UnitFault
  BY <1>2, <1>7 DEF RemoteStep, UnitFault, UnitChanged, loopVars
<1>8. CASE UnitPowerCycle
  BY <1>8 DEF UnitPowerCycle, PowerOn, SilentInv
<1>9. CASE Restart
  BY <1>2, <1>9 DEF Restart, unitVars
<1>10. CASE UNCHANGED <<acState, errorRead, loginRead, status, nextQuery, pc, req, claim,
                        ready, lastFrame, loop, inbox>>
  BY <1>2, <1>10
<1>11. CASE UNCHANGED vars
  BY <1>2, <1>11 DEF vars, unitVars, loopVars
<1> HIDE DEF Step
<1> QED
  BY <1>3, <1>4, <1>5, <1>6, <1>7, <1>8, <1>9, <1>10, <1>11, OwnerCases DEF Next, CrashAndRestart

\* For any callers, restarts, faults and losses, the first ERROR query that
\* reaches the unit (handler.cc:69) is the last frame of the controller the unit
\* gets until it loses power: no Update, retry or new process is answered.
THEOREM ErrorQueryIsTheLastFrame == Spec => ErrorQueryEndsExchange
<1>1. Init => SilentInv
  BY DEF Init, UnitInit, SilentInv
<1> QED
  BY <1>1, NextSilent, PTL DEF Spec, ErrorQueryEndsExchange

-----------------------------------------------------------------------------
(***************************************************************************)
(* "Fields that are left not-set will maintain the current value": when    *)
(* nothing but Update changes settings and each setpoint fits its register *)
(* a setting in which a copy that came from the unit differs from it is    *)
(* one a waiting request asked for, or the setpoint that FAN mode dropped. *)
(***************************************************************************)
OnlyUpdatesSet ==
  /\ "replyLost" \notin LineEvents /\ "powerCycle" \notin LineEvents
  /\ \A setting \in DOMAIN Remote : Remote[setting] = {}
  /\ \A r \in Requests : r.setpoint \in Temperatures

\* The values nobody can set under OnlyUpdatesSet, in whatever holds settings.
Plain(s) == ~s.economy /\ ~s.swing

PlainSettings ==
  /\ Plain(acState) /\ Plain(status) /\ Plain(inbox.status)
  /\ acState.temperature \in Temperatures

\* What the unit sent is still what it holds when the loop handles it.
FrameCurrent ==
  StatusInHand => \A f \in Fields : inbox.status[f] = status[f]

\* A copy that came from the unit differs from it only where it is claimed, or
\* in the setpoint the unit dropped.
DifferenceClaimed ==
  acState.controllerPresent =>
    \A f \in Fields :
      \/ acState[f] = status[f]
      \/ \E c \in Callers : f \in claim[c]
      \/ f = "temperature" /\ status.mode = "FAN"

KeepInv == PlainSettings /\ FrameCurrent /\ DifferenceClaimed

\* A reply leaves the copy alone, takes over the frame, or writes the copy.
LEMMA ReplyCases ==
  ASSUME HandlerTypeOK, NEW mf \in MasterFrames, Replies(mf), HandleMasterFrame(mf)
  PROVE  \/ ~Accepts(Reply(mf)) /\ acState' = acState
         \/ /\ ~Accepts(Reply(mf)) /\ mf.type = "STATUS"
            /\ acState' = MergeFromMasterStatusRegister(acState, mf.status)
         \/ /\ Accepts(Reply(mf)) /\ ~acState.merged
            /\ Reply(mf).payload = BuildStatusRegisterResponse(acState)
            /\ \A f \in Settings \cup {"controllerPresent"} : acState'[f] = acState[f]
<1>1. CASE AnswerLogin(mf)
  <2>1. Reply(mf) = SendLoggedInFrame(acState)
    BY <1>1 DEF AnswerLogin, Reply
  <2>2. ~Accepts(Reply(mf)) /\ acState' = acState
    BY <1>1, <2>1 DEF AnswerLogin, handlerVars, SendLoggedInFrame, Accepts,
                      EmptyControllerFrame
  <2> QED
    BY <2>2
<1>2. CASE QueryLogin(mf) \/ QueryError(mf)
  <2>1. Reply(mf) \in {SendLoginFrame, SendErrorQueryFrame}
    BY <1>2 DEF QueryLogin, QueryError, Reply
  <2>2. ~Accepts(Reply(mf))
    BY <2>1 DEF SendLoginFrame, SendErrorQueryFrame, Accepts, EmptyControllerFrame
  <2>3. acState' = Merged(mf) /\ mf.type = "STATUS"
    BY <1>2 DEF QueryLogin, QueryError
  <2> QED
    BY <2>2, <2>3 DEF Merged
<1>3. CASE AnswerStatus(mf)
  <2>1. Reply(mf) = SendStatusFrame(Merged(mf)) /\ mf.type = "STATUS"
    BY <1>3 DEF AnswerStatus, Reply
  <2>2. /\ Accepts(Reply(mf)) <=> ~Merged(mf).merged
        /\ Reply(mf).payload = BuildStatusRegisterResponse(Merged(mf))
    BY <2>1 DEF SendStatusFrame, Accepts, EmptyControllerFrame
  <2>3. CASE acState.merged
    <3>1. Merged(mf) = MergeFromMasterStatusRegister(acState, mf.status)
      BY <2>3 DEF Merged, Merges
    <3>2. Merged(mf).merged
      BY <3>1 DEF MergeFromMasterStatusRegister, HandlerTypeOK, AcStates
    <3> QED
      BY <1>3, <2>1, <2>2, <3>1, <3>2 DEF AnswerStatus
  <2>4. CASE ~acState.merged
    <3>1. Merged(mf) = acState
      BY <2>4 DEF Merged, Merges
    <3>2. acState' = [acState EXCEPT !.swingStep = FALSE, !.merged = ~acState.swingStep]
      BY <1>3, <2>4, <3>1 DEF AnswerStatus
    <3>3. \A f \in Settings \cup {"controllerPresent"} : acState'[f] = acState[f]
      BY <3>2 DEF Settings, Fields, HandlerTypeOK, AcStates
    <3> QED
      BY <2>2, <2>4, <3>1, <3>3
  <2> QED
    BY <2>3, <2>4
<1> QED
  BY <1>1, <1>2, <1>3 DEF HandleMasterFrame, IgnoreFrame

\* The step UnsetFieldsKept asks for.
KeptStep ==
  \A f \in Settings : status'[f] # status[f] =>
    \/ \E c \in Callers : f \in claim[c]
    \/ f \in LostInFan /\ "FAN" \in {status.mode, status'.mode}
    \/ ~acState.controllerPresent /\ WaitingChange

\* The settings a payload built from the copy s carries.
Carried(s) == IF s.mode = "FAN" THEN Settings \ {"temperature"} ELSE Settings

\* What a reply leaves on the unit: without the write bit all settings, with
\* it those of a plain copy, but for the setpoint in FAN mode.
LEMMA PushSettings ==
  ASSUME TypeOK, PlainSettings, NEW cf \in ControllerFrames, PushControllerFrame(cf)
  PROVE  /\ ~Accepts(cf) => \A f \in Settings : status'[f] = status[f]
         /\ Accepts(cf) /\ cf.payload = BuildStatusRegisterResponse(acState) =>
              \A f \in Carried(acState) : status'[f] = acState[f]
<1>1. \A f \in Settings :
        status'[f] = IF Accepts(cf) THEN Written(cf.payload)[f] ELSE status[f]
  BY DEF PushControllerFrame, StatusAfterPush, TypeOK, UnitTypeOK, StatusRegisters,
         Written, Settings, Fields
<1>2. Carried(acState) \subseteq Settings
  BY DEF Carried
<1>3. ASSUME cf.payload = BuildStatusRegisterResponse(acState)
      PROVE  \A f \in Carried(acState) : Written(cf.payload)[f] = acState[f]
  <2> DEFINE p == BuildStatusRegisterResponse(acState)
  <2>1. /\ acState.temperature \in 0..127
        /\ acState.economy = FALSE /\ acState.swing = FALSE
    BY DEF PlainSettings, Plain, Temperatures, TypeOK, HandlerTypeOK, AcStates
  <2>2. acState.temperature % 128 = acState.temperature /\ ~(acState.temperature >= 128)
    BY <2>1
  <2>3. /\ p.enabled = acState.enabled /\ p.mode = acState.mode /\ p.fan = acState.fan
        /\ p.swing = acState.swing
        /\ acState.mode # "FAN" => p.temperature = acState.temperature
    BY <2>2 DEF BuildStatusRegisterResponse
  <2>4. p.economy = acState.economy
    BY <2>1, <2>2 DEF BuildStatusRegisterResponse
  <2>5. /\ Written(p).enabled = p.enabled /\ Written(p).mode = p.mode
        /\ Written(p).fan = p.fan /\ Written(p).economy = p.economy
        /\ Written(p).swing = p.swing
        /\ Written(p).temperature = IF p.mode = "FAN" THEN 18 ELSE p.temperature
    BY DEF Written, TypeOK, UnitTypeOK, StatusRegisters
  <2> HIDE DEF p
  <2>6. \A f \in Settings \ {"temperature"} : Written(p)[f] = acState[f]
    BY <2>3, <2>4, <2>5 DEF Settings, Fields
  <2>7. acState.mode # "FAN" => Written(p).temperature = acState.temperature
    BY <2>3, <2>5
  <2>8. \A f \in Carried(acState) : Written(p)[f] = acState[f]
    BY <2>6, <2>7 DEF Carried
  <2> QED
    BY <1>3, <2>8 DEF p
<1> QED
  BY <1>1, <1>2, <1>3

\* The critical section, with the reply delivered.
LEMMA KeepReply ==
  ASSUME TypeOK, UnsentChangeHasWaiter, KeepInv, HandleAndReply
  PROVE  KeepInv' /\ KeptStep
<1> DEFINE cf == Reply(inbox)
<1>1. /\ inbox \in MasterFrames /\ Replies(inbox) /\ HandleMasterFrame(inbox)
      /\ HandlerTypeOK /\ acState \in AcStates
  BY DEF TypeOK, HandlerTypeOK, HandleAndReply, HandleInbox
<1>2. cf \in ControllerFrames /\ PushControllerFrame(cf)
  BY <1>1, ReplyTyped DEF HandleAndReply
<1>3. loop = "handle" /\ loop' = "check" /\ inbox' = NoFrame
  BY DEF HandleAndReply, HandleInbox
<1>4. FrameCurrent'
  BY <1>3 DEF FrameCurrent, StatusInHand
<1>5. Plain(inbox'.status)
  BY <1>3 DEF NoFrame, InitialStatus, Plain
<1>6. CASE ~Accepts(cf) /\ acState' = acState
  <2>1. claim' = claim /\ \A f \in Settings : status'[f] = status[f]
    BY <1>2, <1>6, PushSettings DEF KeepInv, HandleAndReply
  <2>2. PlainSettings'
    BY <1>5, <1>6, <2>1 DEF KeepInv, PlainSettings, Plain, Settings
  <2>3. DifferenceClaimed'
    BY <1>6, <2>1 DEF KeepInv, DifferenceClaimed, Settings, Fields
  <2> QED
    BY <1>4, <2>1, <2>2, <2>3 DEF KeepInv, KeptStep
<1>7. CASE /\ ~Accepts(cf) /\ inbox.type = "STATUS"
           /\ acState' = MergeFromMasterStatusRegister(acState, inbox.status)
  <2>1. \A f \in Settings : status'[f] = status[f]
    BY <1>2, <1>7, PushSettings DEF KeepInv
  <2>2. \A f \in Settings : acState'[f] = inbox.status[f]
    BY <1>1, <1>7 DEF MergeFromMasterStatusRegister, AcStates, Settings, Fields
  <2>3. inbox.status.temperature \in Temperatures
    BY <1>1 DEF MasterFrames, StatusRegisters
  <2>4. PlainSettings'
    BY <1>5, <2>1, <2>2, <2>3 DEF KeepInv, PlainSettings, Plain, Settings, Fields
  <2>5. \A f \in Fields : inbox.status[f] = status[f]
    BY <1>1, <1>3, <1>7 DEF KeepInv, FrameCurrent, StatusInHand, Replies
  <2>6. \A f \in Fields : acState'[f] = status'[f]
    BY <2>1, <2>2, <2>5 DEF Settings
  <2> QED
    BY <1>4, <2>1, <2>4, <2>6 DEF KeepInv, KeptStep, DifferenceClaimed
<1>8. CASE /\ Accepts(cf) /\ ~acState.merged
           /\ cf.payload = BuildStatusRegisterResponse(acState)
           /\ \A f \in Settings \cup {"controllerPresent"} : acState'[f] = acState[f]
  <2>1. \A f \in Carried(acState) : status'[f] = acState[f]
    BY <1>2, <1>8, PushSettings DEF KeepInv
  <2>2. /\ Settings \ {"temperature"} \subseteq Carried(acState)
        /\ {"mode", "economy", "swing"} \subseteq Settings \ {"temperature"}
    BY DEF Carried, Settings, Fields
  <2>3. status'.mode = acState.mode /\ acState'.mode = acState.mode
    BY <1>8, <2>1, <2>2
  <2>4. \A f \in Settings :
          f \in Carried(acState) \/ (f = "temperature" /\ status'.mode = "FAN")
    BY <2>3 DEF Carried
  <2>5. PlainSettings'
    <3>1. Plain(status')
      BY <2>1, <2>2 DEF KeepInv, PlainSettings, Plain
    <3>2. Plain(acState') /\ acState'.temperature \in Temperatures
      BY <1>8 DEF KeepInv, PlainSettings, Plain, Settings, Fields
    <3> QED
      BY <1>5, <3>1, <3>2 DEF PlainSettings
  <2>6. DifferenceClaimed'
    BY <1>8, <2>1, <2>4 DEF DifferenceClaimed, Settings
  <2>7. KeptStep
    <3>1. SUFFICES ASSUME acState.controllerPresent,
                          NEW f \in Settings, status'[f] # status[f]
                   PROVE  \/ \E c \in Callers : f \in claim[c]
                          \/ f \in LostInFan /\ "FAN" \in {status.mode, status'.mode}
      BY <1>8 DEF KeptStep, UnsentChangeHasWaiter
    <3>2. status'.economy = status.economy /\ status'.swing = status.swing
      <4>1. status'.economy = acState.economy /\ status'.swing = acState.swing
        BY <2>1, <2>2
      <4>2. /\ acState.economy = FALSE /\ status.economy = FALSE
            /\ acState.swing = FALSE /\ status.swing = FALSE
        BY <1>1 DEF KeepInv, PlainSettings, Plain, AcStates, TypeOK, UnitTypeOK,
                    StatusRegisters
      <4> QED
        BY <4>1, <4>2
    <3>3. f \in Fields
      BY <3>1, <3>2 DEF Settings
    <3>4. CASE f = "temperature" /\ status'.mode = "FAN"
      BY <3>4 DEF LostInFan
    <3>5. CASE f \in Carried(acState)
      BY <2>1, <3>1, <3>3, <3>5 DEF KeepInv, DifferenceClaimed, LostInFan
    <3> QED
      BY <2>4, <3>4, <3>5
  <2> QED
    BY <1>4, <2>5, <2>6, <2>7 DEF KeepInv
<1> QED
  BY <1>1, <1>6, <1>7, <1>8, ReplyCases

\* A call claims all it touches, and what it does not touch stays claimed.
LEMMA KeepCall ==
  ASSUME OnlyUpdatesSet, TypeOK, ClaimInv, KeepInv,
         NEW c \in Callers, NEW r \in Requests, UpdateCall(c, r)
  PROVE  KeepInv'
<1>1. r \in NewStates /\ acState \in AcStates /\ r.setpoint \in Temperatures
  BY RequestsAssumption DEF TypeOK, HandlerTypeOK, OnlyUpdatesSet
<1>2. acState' = ApplyRequest(acState, r) /\ UNCHANGED <<status, loop, inbox>>
  BY DEF UpdateCall, unitVars
<1>3. PlainSettings'
  <2>1. r.setpoint % 256 = r.setpoint
    BY <1>1 DEF Temperatures
  <2>2. /\ acState'.temperature \in {acState.temperature, r.setpoint}
        /\ acState'.economy = acState.economy /\ acState'.swing = acState.swing
    BY <1>1, <1>2, <2>1, ApplyFields
  <2> QED
    BY <1>1, <1>2, <2>2 DEF KeepInv, PlainSettings, Plain
<1>4. FrameCurrent'
  BY <1>2 DEF KeepInv, FrameCurrent, StatusInHand, Addressed
<1>5. Touched(r) = Claimed(r)
  BY <1>1 DEF Claimed
<1>6. claim[c] = {}
  BY DEF ClaimInv, UpdateCall
<1>7. claim'[c] = Touched(r) /\ \A d \in Callers \ {c} : claim'[d] = claim[d] \ Touched(r)
  BY <1>5 DEF UpdateCall, Drop, TypeOK
<1>8. DifferenceClaimed'
  <2>1. SUFFICES ASSUME acState'.controllerPresent, NEW f \in Fields
                 PROVE  \/ acState'[f] = status[f] \/ \E d \in Callers : f \in claim'[d]
                        \/ f = "temperature" /\ status.mode = "FAN"
    BY <1>2 DEF DifferenceClaimed
  <2>2. \/ acState[f] = status[f] \/ \E d \in Callers : f \in claim[d]
        \/ f = "temperature" /\ status.mode = "FAN"
    BY <1>1, <1>2, <2>1, ApplyFields DEF KeepInv, DifferenceClaimed
  <2>3. CASE f \in Touched(r)
    BY <1>7, <2>3
  <2>4. CASE f \notin Touched(r)
    <3>1. acState'[f] = acState[f]
      BY <1>1, <1>2, <2>4, ApplyUntouched
    <3> QED
      BY <1>6, <1>7, <2>2, <2>4, <3>1
  <2> QED
    BY <2>3, <2>4
<1> QED
  BY <1>3, <1>4, <1>8 DEF KeepInv

\* A caller that leaves finds what it claimed on the unit, so its claims are
\* no longer needed.
LEMMA KeepReturn ==
  ASSUME TypeOK, HandshakeInv, ClaimInv, KeepInv, NEW c \in Callers, GetStatusReturn(c)
  PROVE  KeepInv'
<1>1. UNCHANGED <<acState, status, loop, inbox>> /\ acState.merged
  BY DEF GetStatusReturn, handlerVars, unitVars, loopVars, HandshakeInv, ReadyImpliesMerged
<1>2. \A d \in Callers \ {c} : claim'[d] = claim[d]
  BY DEF GetStatusReturn, TypeOK
<1>3. ASSUME NEW f \in claim[c]
      PROVE  f \in Fields => acState[f] = status[f]
  <2>1. Holds(acState, req[c], f) /\ Holds(status, req[c], f)
    BY <1>1, <1>3 DEF ClaimInv
  <2> QED
    BY <2>1 DEF Holds, Fields, TypeOK, HandlerTypeOK, UnitTypeOK, AcStates, StatusRegisters
<1>4. DifferenceClaimed'
  <2>1. SUFFICES ASSUME acState.controllerPresent, NEW f \in Fields
                 PROVE  \/ acState[f] = status[f] \/ \E d \in Callers : f \in claim'[d]
                        \/ f = "temperature" /\ status.mode = "FAN"
    BY <1>1 DEF DifferenceClaimed
  <2>2. \/ acState[f] = status[f] \/ \E d \in Callers : f \in claim[d]
        \/ f = "temperature" /\ status.mode = "FAN"
    BY <2>1 DEF KeepInv, DifferenceClaimed
  <2> QED
    BY <1>2, <1>3, <2>2
<1> QED
  BY <1>1, <1>4 DEF KeepInv, PlainSettings, FrameCurrent, StatusInHand, Addressed

\* A read puts the unit's settings, as they are, into the loop's hand.
LEMMA KeepRead ==
  ASSUME TypeOK, KeepInv, ReadFrame
  PROVE  KeepInv' /\ KeptStep
<1>1. UNCHANGED <<acState, claim>>
  BY DEF ReadFrame, handlerVars, callerVars
<1>2. \A f \in Settings : status'[f] = status[f] /\ inbox'.status[f] = status[f]
  BY DEF ReadFrame, GetNextMasterFrame, NextMasterFrame, StatusAfterSend,
         TypeOK, UnitTypeOK, StatusRegisters, Settings, Fields
<1>3. Plain(status') /\ Plain(inbox'.status)
  BY <1>2 DEF KeepInv, PlainSettings, Plain, Settings
<1> QED
  BY <1>1, <1>2, <1>3 DEF KeepInv, PlainSettings, FrameCurrent, DifferenceClaimed, KeptStep,
                          Settings, Fields

\* Steps that move neither copy, unit nor claims, and a frame put away.
LEMMA KeepRest ==
  ASSUME KeepInv, UNCHANGED <<acState, claim>>,
         \A f \in Settings : status'[f] = status[f],
         UNCHANGED <<loop, inbox>> \/ (Plain(inbox'.status) /\ ~StatusInHand')
  PROVE  KeepInv' /\ KeptStep
<1>1. Plain(status') /\ Plain(inbox'.status)
  BY DEF KeepInv, PlainSettings, Plain, Settings
<1>2. FrameCurrent'
  BY DEF KeepInv, FrameCurrent, StatusInHand, Addressed, Settings
<1> QED
  BY <1>1, <1>2 DEF KeepInv, PlainSettings, DifferenceClaimed, KeptStep, Settings, Fields

\* Every step keeps the invariant and is a step UnsetFieldsKept allows.
LEMMA NextKeep ==
  ASSUME OnlyUpdatesSet
  PROVE  TypeOK /\ HandshakeInv /\ ClaimInv /\ UnsentChangeHasWaiter /\ KeepInv /\ [Next]_vars
           => KeepInv' /\ KeptStep
<1> SUFFICES ASSUME TypeOK, HandshakeInv, ClaimInv, UnsentChangeHasWaiter, KeepInv, [Next]_vars
             PROVE  KeepInv' /\ KeptStep
  OBVIOUS
<1>1. CASE UNCHANGED <<acState, status, claim, loop, inbox>>
  BY <1>1, KeepRest
<1>2. CASE LoopCheck \/ ReadNothing
  <2>1. UNCHANGED <<acState, status, claim>> /\ inbox' = inbox /\ ~StatusInHand'
    BY <1>2 DEF LoopCheck, ReadNothing, handlerVars, unitVars, callerVars, StatusInHand
  <2> QED
    BY <2>1, KeepRest DEF KeepInv, PlainSettings
<1>3. CASE ReadFrame
  BY <1>3, KeepRead
<1>4. CASE ReadOtherDevice
  <2>1. UNCHANGED <<acState, status, claim>> /\ ~StatusInHand' /\ Plain(inbox'.status)
    BY <1>4 DEF ReadOtherDevice, OtherDeviceFrame, NoFrame, InitialStatus, Plain, Addressed,
                StatusInHand, handlerVars, unitVars, callerVars
  <2> QED
    BY <2>1, KeepRest
<1>5. CASE HandleWithoutReply
  <2>1. UNCHANGED handlerVars
    BY <1>5 DEF HandleWithoutReply, HandleInbox, HandleMasterFrame, IgnoreFrame,
                AnswerLogin, QueryLogin, QueryError, AnswerStatus, Replies
  <2>2. UNCHANGED <<status, claim>> /\ ~StatusInHand' /\ Plain(inbox'.status)
    BY <1>5 DEF HandleWithoutReply, HandleInbox, NoFrame, InitialStatus, Plain, StatusInHand,
                unitVars
  <2> QED
    BY <2>1, <2>2, KeepRest DEF handlerVars
<1>6. CASE HandleAndReply
  BY <1>6, KeepReply
<1>7. ASSUME NEW c \in Callers, CallerStep(c)
      PROVE  KeepInv' /\ KeptStep
  <2>1. status' = status
    BY <1>7 DEF CallerStep, UpdateCall, UpdateReturn, GetStatusCall, GetStatusReturn, unitVars
  <2>2. CASE UpdateReturn(c) \/ GetStatusCall(c)
    BY <1>1, <2>2 DEF UpdateReturn, GetStatusCall, handlerVars, unitVars, loopVars
  <2>3. CASE (\E r \in Requests : UpdateCall(c, r)) \/ GetStatusReturn(c)
    BY <2>1, <2>3, KeepCall, KeepReturn DEF KeptStep
  <2> QED
    BY <1>7, <2>2, <2>3 DEF CallerStep
<1>8. CASE UnitFault
  <2>1. \A f \in Settings : status'[f] = status[f]
    BY <1>8 DEF UnitFault, ToggleErrorBit, TypeOK, UnitTypeOK, StatusRegisters, Settings, Fields
  <2>2. UNCHANGED <<acState, loop, inbox>>
    BY <1>8 DEF UnitFault, UnitChanged, handlerVars, loopVars
  <2>3. claim' = claim
    BY <1>8 DEF UnitFault, UnitChanged, Drop, TypeOK
  <2> QED
    BY <2>1, <2>2, <2>3, KeepRest
<1>9. CASE Restart
  <2>1. status' = status /\ acState' = InitialAcState /\ loop' = "check" /\ inbox' = NoFrame
    BY <1>9 DEF Restart, unitVars
  <2>2. 20 \in Temperatures
    BY DEF Temperatures
  <2> QED
    BY <2>1, <2>2 DEF KeepInv, PlainSettings, Plain, InitialAcState, NoFrame, InitialStatus,
                      FrameCurrent, StatusInHand, DifferenceClaimed, KeptStep
<1>10. ~RemoteStep /\ ~UnitPowerCycle /\ ~HandleAndLoseReply
  BY DEF OnlyUpdatesSet, RemoteStep, UnitPowerCycle, HandleAndLoseReply
<1>11. CASE UNCHANGED vars
  BY <1>1, <1>11 DEF vars, handlerVars, unitVars, loopVars, callerVars
<1> QED
  BY <1>1, <1>2, <1>3, <1>4, <1>5, <1>6, <1>7, <1>8, <1>9, <1>10, <1>11, OwnerCases
     DEF Next, CrashAndRestart, LoopHandle

\* "Fields that are left not-set will maintain the current value"
\* (fuji_ac_controller.proto:57): no number of callers, restarts and unit faults
\* changes a setting that no waiting request asked for, if only Updates change
\* settings and each setpoint fits the register; two exceptions are named in
\* UnsetFieldsKept, the setpoint in FAN mode and an Update before the first
\* merged frame.  A server nobody asks for a change therefore changes nothing.
THEOREM UnsetFieldsStay ==
  ASSUME OnlyUpdatesSet
  PROVE  Spec => UnsetFieldsKept
<1>1. "replyLost" \notin LineEvents
  BY DEF OnlyUpdatesSet
<1>2. Init => KeepInv
  <2>1. 20 \in Temperatures
    BY DEF Temperatures
  <2> QED
    BY <2>1 DEF Init, HandlerInit, UnitInit, InitialAcState, InitialStatus, NoFrame, KeepInv,
                PlainSettings, Plain, FrameCurrent, StatusInHand, DifferenceClaimed
<1>3. TypeOK /\ HandshakeInv /\ ClaimInv /\ UnsentChangeHasWaiter /\ KeepInv /\ [Next]_vars
        => KeepInv' /\ KeptStep
  BY NextKeep
<1>4. Spec => []TypeOK /\ []HandshakeInv /\ []ClaimInv /\ []UnsentChangeHasWaiter
  BY <1>1, TypeCorrect, HandshakeHolds, ClaimsHold, NoUnsentChangeLeft, PTL
<1> QED
  BY <1>2, <1>3, <1>4, PTL DEF Spec, UnsetFieldsKept, KeptStep
==============================================================================
