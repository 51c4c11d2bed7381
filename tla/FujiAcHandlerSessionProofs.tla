---------------------- MODULE FujiAcHandlerSessionProofs ----------------------
(***************************************************************************)
(* Proofs about FujiAcHandlerSession for every set of frames the main unit *)
(* may send and every value the user may set.                              *)
(***************************************************************************)
EXTENDS FujiAcHandlerSession, FujiAcProtocolHandlerProofs

(***************************************************************************)
(* What makes the properties inductive: merged is exactly "nothing the     *)
(* user or a taken-back swing step still has to send".                     *)
(***************************************************************************)
UnsentNotMerged == unsent # {} => ~acState.merged
NotMergedHasCause == ~acState.merged => unsent # {} \/ followUp
StepWasAskedFor == acState.swingStep => "swingStep" \in unsent
FollowUpPending == followUp => ~acState.merged

SessionInv ==
  /\ SessionTypeOK
  /\ UnsentNotMerged /\ NotMergedHasCause /\ StepWasAskedFor /\ FollowUpPending
  /\ SetErrorsQueried

-----------------------------------------------------------------------------
\* The fields of the frame that carries the copy c.
LEMMA StatusFrameFields ==
  ASSUME NEW c
  PROVE  /\ SendStatusFrame(c).write = ~c.merged
         /\ SendStatusFrame(c).payload = BuildStatusRegisterResponse(c)
         /\ SendStatusFrame(c).payload.swingStep = c.swingStep
<1>1. SendStatusFrame(c).write = ~c.merged
  BY DEF SendStatusFrame, EmptyControllerFrame
<1>2. SendStatusFrame(c).payload = BuildStatusRegisterResponse(c)
  BY DEF SendStatusFrame, EmptyControllerFrame
<1>3. BuildStatusRegisterResponse(c).swingStep = c.swingStep
  BY DEF BuildStatusRegisterResponse
<1> QED
  BY <1>1, <1>2, <1>3

\* A frame the handler returns with the write bit carries the copy as it was,
\* settles it and clears the swing step.
LEMMA WriteSendsCopy ==
  ASSUME HandlerTypeOK, NEW mf \in MasterFrames, Receive(mf), reply'.write
  PROVE  /\ ~acState.merged
         /\ reply' = SendStatusFrame(acState)
         /\ acState' = [acState EXCEPT !.swingStep = FALSE, !.merged = ~acState.swingStep]
         /\ UNCHANGED <<errorRead, loginRead>>
<1>1. Merges(mf) => Merged(mf).merged
  BY DEF Merged, MergeFromMasterStatusRegister, HandlerTypeOK, AcStates
<1>2. ~Merges(mf) => Merged(mf) = acState
  BY DEF Merged
<1>3. Replies(mf) /\ reply' = Reply(mf)
  BY DEF Receive, NoReply, EmptyControllerFrame
<1>4. mf.type # "LOGIN" /\ ~LoginDue(mf) /\ ~ErrorDue(mf)
  BY <1>3 DEF Reply, SendLoggedInFrame, SendLoginFrame, SendErrorQueryFrame,
              EmptyControllerFrame
<1>5. reply' = SendStatusFrame(Merged(mf))
  BY <1>3, <1>4 DEF Reply
<1>6. ~Merged(mf).merged
  BY <1>5 DEF SendStatusFrame, EmptyControllerFrame
<1>7. ~acState.merged /\ Merged(mf) = acState
  BY <1>1, <1>2, <1>6 DEF Merges
<1>8. AnswerStatus(mf)
  BY <1>3, <1>4 DEF Receive, HandleMasterFrame, IgnoreFrame, AnswerLogin,
                    QueryLogin, QueryError
<1> QED
  BY <1>5, <1>7, <1>8 DEF AnswerStatus

\* Any other frame leaves the copy as it is, or as a merge makes it.
LEMMA NoWriteMerges ==
  ASSUME HandlerTypeOK, NEW mf \in MasterFrames, Receive(mf), ~reply'.write
  PROVE  \/ acState' = acState
         \/ /\ acState.merged
            /\ acState' = MergeFromMasterStatusRegister(acState, mf.status)
<1>1. CASE IgnoreFrame(mf) \/ AnswerLogin(mf)
  BY <1>1 DEF IgnoreFrame, AnswerLogin, handlerVars
<1>2. CASE QueryLogin(mf) \/ QueryError(mf)
  BY <1>2 DEF QueryLogin, QueryError, Merged, Merges
<1>3. CASE AnswerStatus(mf)
  <2>1. Replies(mf) /\ reply' = SendStatusFrame(Merged(mf))
    BY <1>3 DEF Receive, AnswerStatus, Replies, Reply
  <2>2. Merged(mf).merged
    BY <2>1 DEF SendStatusFrame, EmptyControllerFrame
  <2> QED
    BY <1>3, <2>2 DEF AnswerStatus, Merged, Merges
<1> QED
  BY <1>1, <1>2, <1>3 DEF Receive, HandleMasterFrame

-----------------------------------------------------------------------------
\* The invariant holds at the start: nothing set, nothing to send.
LEMMA SessionInit == Init => SessionInv
<1> SUFFICES ASSUME Init PROVE SessionInv
  OBVIOUS
<1>1. SessionTypeOK
  <2>1. NoReply \in ControllerFrames
    BY EmptyFrameTyped DEF NoReply, ControllerFrames, RegisterTypes
  <2> QED
    BY <2>1, InitialCopyTyped DEF Init, HandlerInit, SessionTypeOK, HandlerTypeOK
<1> QED
  BY <1>1 DEF Init, HandlerInit, InitialAcState, SessionInv, UnsentNotMerged,
              NotMergedHasCause, StepWasAskedFor, FollowUpPending, SetErrorsQueried

\* Every frame the handler is given keeps the types.
LEMMA ReceiveTyped ==
  ASSUME SessionInv, NEW mf \in MasterFrames, Receive(mf)
  PROVE  SessionTypeOK'
<1>1. HandlerTypeOK'
  BY HandleTyped DEF Receive, SessionInv, SessionTypeOK
<1>2. reply' \in ControllerFrames
  <2>1. NoReply \in ControllerFrames
    BY EmptyFrameTyped DEF NoReply, ControllerFrames, RegisterTypes
  <2> QED
    BY <2>1, ReplyTyped DEF Receive, SessionInv, SessionTypeOK
<1>3. followUp' \in BOOLEAN
  BY <1>2 DEF Receive, SessionInv, SessionTypeOK, ControllerFrames, Payloads
<1>4. unasked' \in BOOLEAN
  BY DEF Receive
<1>5. unsent' \subseteq UserSettings
  BY DEF Receive, SessionInv, SessionTypeOK
<1> QED
  BY <1>1, <1>2, <1>3, <1>4, <1>5 DEF SessionTypeOK

\* A new error raises the flag, and the flag comes down only with the query,
\* with a login query before it or not.
LEMMA ReceiveQueriesErrors ==
  ASSUME SessionInv, NEW mf \in MasterFrames, Receive(mf)
  PROVE  SetErrorsQueried'
<1>1. SUFFICES ASSUME reply'.query # "ERROR", unasked \/ ShowsNewError(mf)
               PROVE  errorRead'
  BY DEF SetErrorsQueried, Receive
<1>2. CASE IgnoreFrame(mf) \/ AnswerLogin(mf)
  <2>1. ~ShowsNewError(mf)
    BY <1>2 DEF IgnoreFrame, AnswerLogin, Replies, ShowsNewError, IsStatus
  <2> QED
    BY <1>1, <1>2, <2>1 DEF IgnoreFrame, AnswerLogin, handlerVars, SessionInv,
                            SetErrorsQueried
<1>3. CASE QueryLogin(mf) \/ QueryError(mf) \/ AnswerStatus(mf)
  <2>1. ErrorDue(mf)
    BY <1>1 DEF ErrorDue, ShowsNewError, SessionInv, SetErrorsQueried
  <2>2. ~QueryError(mf)
    BY <1>1 DEF QueryError, Receive, Replies, Reply, SendErrorQueryFrame,
                EmptyControllerFrame
  <2> QED
    BY <1>3, <2>1, <2>2 DEF QueryLogin, AnswerStatus
<1> QED
  BY <1>2, <1>3 DEF Receive, HandleMasterFrame

\* What the merged bit says of the user's changes survives a frame.
LEMMA ReceiveKeepsCauses ==
  ASSUME SessionInv, NEW mf \in MasterFrames, Receive(mf)
  PROVE  /\ UnsentNotMerged' /\ NotMergedHasCause'
         /\ StepWasAskedFor' /\ FollowUpPending'
<1>1. HandlerTypeOK
  BY DEF SessionInv, SessionTypeOK
<1>2. CASE reply'.write
  <2>1. unsent' = {} /\ followUp' = acState.swingStep
    BY <1>1, <1>2, WriteSendsCopy, StatusFrameFields DEF Receive
  <2>2. acState'.merged = ~acState.swingStep /\ acState'.swingStep = FALSE
    BY <1>1, <1>2, WriteSendsCopy DEF HandlerTypeOK, AcStates
  <2> QED
    BY <2>1, <2>2 DEF UnsentNotMerged, NotMergedHasCause, StepWasAskedFor, FollowUpPending
<1>3. CASE ~reply'.write
  <2>1. UNCHANGED <<unsent, followUp>>
    BY <1>3 DEF Receive
  <2>2. acState'.merged = acState.merged /\ acState'.swingStep = acState.swingStep
    BY <1>1, <1>3, NoWriteMerges DEF HandlerTypeOK, AcStates, MergeFromMasterStatusRegister
  <2> QED
    BY <2>1, <2>2 DEF SessionInv, UnsentNotMerged, NotMergedHasCause,
                      StepWasAskedFor, FollowUpPending
<1> QED
  BY <1>2, <1>3

\* t is the copy s after a setter other than SetSwingStep.
SetterMarks(s, t) == t \in AcStates /\ ~t.merged /\ t.swingStep = s.swingStep

\* A setter keeps the invariant: it marks the copy, and the setting is unsent.
LEMMA UserKeepsInv ==
  ASSUME SessionInv, NEW f \in UserSettings, NEW s \in AcStates, UserSets(f, s),
         ~s.merged,
         f # "swingStep" => s.swingStep = acState.swingStep
  PROVE  SessionInv'
<1>1. NoReply \in ControllerFrames
  BY EmptyFrameTyped DEF NoReply, ControllerFrames, RegisterTypes
<1>2. SessionTypeOK'
  BY <1>1 DEF UserSets, SessionInv, SessionTypeOK, HandlerTypeOK
<1>3. /\ UnsentNotMerged' /\ NotMergedHasCause'
      /\ StepWasAskedFor' /\ FollowUpPending'
  BY DEF UserSets, SessionInv, UnsentNotMerged, NotMergedHasCause,
         StepWasAskedFor, FollowUpPending
<1>4. SetErrorsQueried'
  BY DEF UserSets, SessionInv, SetErrorsQueried
<1> QED
  BY <1>2, <1>3, <1>4 DEF SessionInv

\* Every setter returns a copy that is not merged; only one changes the step.
LEMMA SettersTyped ==
  ASSUME NEW s \in AcStates
  PROVE  /\ \A v \in BOOLEAN : SetterMarks(s, SetEnabled(s, v))
         /\ \A v \in Modes : SetterMarks(s, SetMode(s, v))
         /\ \A v \in Fans : SetterMarks(s, SetFan(s, v))
         /\ \A v \in BOOLEAN : SetterMarks(s, SetEconomy(s, v))
         /\ \A v \in Byte : SetterMarks(s, SetTemperature(s, v))
         /\ \A v \in BOOLEAN : SetterMarks(s, SetSwing(s, v))
         /\ \A v \in BOOLEAN :
               SetSwingStep(s, v) \in AcStates /\ ~SetSwingStep(s, v).merged
<1>1. \A v \in BOOLEAN : SetterMarks(s, SetEnabled(s, v))
  BY DEF SetterMarks, SetEnabled, AcStates
<1>2. \A v \in Modes : SetterMarks(s, SetMode(s, v))
  BY DEF SetterMarks, SetMode, AcStates
<1>3. \A v \in Fans : SetterMarks(s, SetFan(s, v))
  BY DEF SetterMarks, SetFan, AcStates
<1>4. \A v \in BOOLEAN : SetterMarks(s, SetEconomy(s, v))
  BY DEF SetterMarks, SetEconomy, AcStates
<1>5. \A v \in Byte : SetterMarks(s, SetTemperature(s, v))
  BY DEF SetterMarks, SetTemperature, AcStates
<1>6. \A v \in BOOLEAN : SetterMarks(s, SetSwing(s, v))
  BY DEF SetterMarks, SetSwing, AcStates
<1>7. \A v \in BOOLEAN :
        SetSwingStep(s, v) \in AcStates /\ ~SetSwingStep(s, v).merged
  BY DEF SetSwingStep, AcStates
<1> QED
  BY <1>1, <1>2, <1>3, <1>4, <1>5, <1>6, <1>7

\* Every setter the user may call keeps the invariant.
LEMMA UserStepKeepsInv == SessionInv /\ UserStep => SessionInv'
<1> SUFFICES ASSUME SessionInv, UserStep PROVE SessionInv'
  OBVIOUS
<1>1. acState \in AcStates
  BY DEF SessionInv, SessionTypeOK, HandlerTypeOK
<1> USE UserAssumption DEF UserAssumption
<1>2. ASSUME NEW v \in User.enabled, UserSets("enabled", SetEnabled(acState, v))
      PROVE  SessionInv'
  <2>1. v \in BOOLEAN
    OBVIOUS
  <2> QED
    BY <1>1, <1>2, <2>1, SettersTyped, UserKeepsInv DEF SetterMarks, UserSettings
<1>3. ASSUME NEW v \in User.mode, UserSets("mode", SetMode(acState, v))
      PROVE  SessionInv'
  <2>1. v \in Modes
    OBVIOUS
  <2> QED
    BY <1>1, <1>3, <2>1, SettersTyped, UserKeepsInv DEF SetterMarks, UserSettings
<1>4. ASSUME NEW v \in User.fan, UserSets("fan", SetFan(acState, v))
      PROVE  SessionInv'
  <2>1. v \in Fans
    OBVIOUS
  <2> QED
    BY <1>1, <1>4, <2>1, SettersTyped, UserKeepsInv DEF SetterMarks, UserSettings
<1>5. ASSUME NEW v \in User.economy, UserSets("economy", SetEconomy(acState, v))
      PROVE  SessionInv'
  <2>1. v \in BOOLEAN
    OBVIOUS
  <2> QED
    BY <1>1, <1>5, <2>1, SettersTyped, UserKeepsInv DEF SetterMarks, UserSettings
<1>6. ASSUME NEW v \in User.temperature, UserSets("temperature", SetTemperature(acState, v))
      PROVE  SessionInv'
  <2>1. v \in Byte
    OBVIOUS
  <2> QED
    BY <1>1, <1>6, <2>1, SettersTyped, UserKeepsInv DEF SetterMarks, UserSettings
<1>7. ASSUME NEW v \in User.swing, UserSets("swing", SetSwing(acState, v))
      PROVE  SessionInv'
  <2>1. v \in BOOLEAN
    OBVIOUS
  <2> QED
    BY <1>1, <1>7, <2>1, SettersTyped, UserKeepsInv DEF SetterMarks, UserSettings
<1>8. ASSUME NEW v \in User.swingStep, UserSets("swingStep", SetSwingStep(acState, v))
      PROVE  SessionInv'
  <2>1. v \in BOOLEAN
    OBVIOUS
  <2> QED
    BY <1>1, <1>8, <2>1, SettersTyped, UserKeepsInv DEF UserSettings
<1> QED
  BY <1>2, <1>3, <1>4, <1>5, <1>6, <1>7, <1>8 DEF UserStep

\* Every step keeps the invariant.
LEMMA SessionStep == SessionInv /\ [Next]_vars => SessionInv'
<1> SUFFICES ASSUME SessionInv, [Next]_vars PROVE SessionInv'
  OBVIOUS
<1>1. ASSUME NEW mf \in IncomingFrames, Receive(mf) PROVE SessionInv'
  <2>1. mf \in MasterFrames
    BY IncomingAssumption DEF IncomingAssumption
  <2> QED
    BY <1>1, <2>1, ReceiveTyped, ReceiveQueriesErrors, ReceiveKeepsCauses DEF SessionInv
<1>2. CASE UserStep
  BY <1>2, UserStepKeepsInv
<1>3. CASE UNCHANGED vars
  BY <1>3 DEF vars, handlerVars, historyVars, SessionInv, SessionTypeOK, HandlerTypeOK,
              UnsentNotMerged, NotMergedHasCause, StepWasAskedFor, FollowUpPending,
              SetErrorsQueried
<1> QED
  BY <1>1, <1>2, <1>3 DEF Next

\* SessionInv holds of every state the session reaches.
THEOREM SessionInvHolds == Spec => []SessionInv
BY SessionInit, SessionStep, PTL DEF Spec

\* SessionTypeOK: whatever frames come, the copy and the replies have their types.
THEOREM SessionTypeCorrect == Spec => []SessionTypeOK
<1>1. SessionInv => SessionTypeOK
  BY DEF SessionInv
<1> QED
  BY <1>1, SessionInvHolds, PTL

\* "If error bit is set, set the flag and query for Error register next cycle"
\* (handler.cc:146): whatever frames come and whatever the user sets, no error
\* the copy was told of goes without a query or a query that is due.
THEOREM ErrorsAreQueried == Spec => []SetErrorsQueried
<1>1. SessionInv => SetErrorsQueried
  BY DEF SessionInv
<1> QED
  BY <1>1, SessionInvHolds, PTL

-----------------------------------------------------------------------------
\* The action properties, for one frame.
KeepsChange(mf) ==
  \A f \in unsent : acState'[f] = acState[f] \/ (f = "swingStep" /\ reply'.write)

CarriesUnsent(mf) ==
  reply'.write =>
    \A f \in unsent :
      \/ reply'.payload[f] = acState[f]
      \/ /\ f \in {"economy", "temperature"}
         /\ acState.mode = "FAN" \/ acState.temperature \notin Temperatures

StepOnce(mf) ==
  /\ reply'.write /\ reply'.payload.swingStep => "swingStep" \in unsent
  /\ followUp /\ IsStatus(mf) /\ reply'.query = "STATUS" => reply'.write

\* No frame changes what the user set and nothing has sent.
LEMMA ReceiveKeepsChange ==
  ASSUME SessionInv, NEW mf \in MasterFrames, Receive(mf)
  PROVE  KeepsChange(mf)
<1>1. HandlerTypeOK /\ unsent \subseteq UserSettings
  BY DEF SessionInv, SessionTypeOK
<1>2. CASE reply'.write
  <2>1. \A f \in UserSettings \ {"swingStep"} : acState'[f] = acState[f]
    BY <1>1, <1>2, WriteSendsCopy DEF HandlerTypeOK, AcStates, UserSettings
  <2> QED
    BY <1>1, <1>2, <2>1 DEF KeepsChange
<1>3. CASE ~reply'.write
  BY <1>1, <1>3, NoWriteMerges DEF KeepsChange, SessionInv, UnsentNotMerged
<1> QED
  BY <1>2, <1>3

\* A write carries what the user set since the last one.
LEMMA ReceiveCarriesUnsent ==
  ASSUME SessionInv, NEW mf \in MasterFrames, Receive(mf)
  PROVE  CarriesUnsent(mf)
<1> SUFFICES ASSUME reply'.write, NEW f \in unsent
             PROVE  \/ reply'.payload[f] = acState[f]
                    \/ /\ f \in {"economy", "temperature"}
                       /\ acState.mode = "FAN" \/ acState.temperature \notin Temperatures
  BY DEF CarriesUnsent
<1>1. HandlerTypeOK /\ f \in UserSettings
  BY DEF SessionInv, SessionTypeOK
<1>2. reply'.payload = BuildStatusRegisterResponse(acState)
  BY <1>1, WriteSendsCopy DEF SendStatusFrame, EmptyControllerFrame
<1>3. CASE f \notin {"economy", "temperature"}
  BY <1>1, <1>2, <1>3 DEF BuildStatusRegisterResponse, UserSettings
<1>4. CASE f \in {"economy", "temperature"} /\ acState.mode # "FAN"
           /\ acState.temperature \in Temperatures
  <2>1. acState.temperature % 128 = acState.temperature /\ ~(acState.temperature >= 128)
    BY <1>4 DEF Temperatures
  <2>2. acState.economy \in BOOLEAN
    BY <1>1 DEF HandlerTypeOK, AcStates
  <2> QED
    BY <1>2, <1>4, <2>1, <2>2 DEF BuildStatusRegisterResponse
<1> QED
  BY <1>3, <1>4

\* A write carries a swing step only on request, and the next one ends it.
LEMMA ReceiveStepsOnce ==
  ASSUME SessionInv, NEW mf \in MasterFrames, Receive(mf)
  PROVE  StepOnce(mf)
<1>1. HandlerTypeOK
  BY DEF SessionInv, SessionTypeOK
<1>2. ASSUME reply'.write, reply'.payload.swingStep PROVE "swingStep" \in unsent
  <2>1. reply' = SendStatusFrame(acState)
    BY <1>1, <1>2, WriteSendsCopy
  <2> QED
    BY <1>2, <2>1, StatusFrameFields DEF SessionInv, StepWasAskedFor
<1>3. ASSUME followUp, IsStatus(mf), reply'.query = "STATUS" PROVE reply'.write
  <2>1. Merged(mf) = acState /\ ~acState.merged
    BY <1>3 DEF SessionInv, FollowUpPending, Merged, Merges
  <2>2. reply' = SendStatusFrame(Merged(mf))
    BY <1>3 DEF IsStatus, Receive, Replies, Reply, SendLoginFrame, SendErrorQueryFrame,
                EmptyControllerFrame
  <2> QED
    BY <2>1, <2>2 DEF SendStatusFrame, EmptyControllerFrame
<1> QED
  BY <1>2, <1>3 DEF StepOnce

\* LocalChangeKept: no frame takes back a change the user made.
THEOREM UserChangesTakePrecedence == Spec => LocalChangeKept
<1>1. SessionInv /\ [Next]_vars =>
        [\A mf \in IncomingFrames : Receive(mf) => KeepsChange(mf)]_vars
  BY ReceiveKeepsChange, IncomingAssumption DEF IncomingAssumption
<1> QED
  BY <1>1, SessionInvHolds, PTL DEF Spec, LocalChangeKept, KeepsChange

\* WriteCarriesAllUnsent: a write carries every change since the last one.
THEOREM WritesCarryEverything == Spec => WriteCarriesAllUnsent
<1>1. SessionInv /\ [Next]_vars =>
        [\A mf \in IncomingFrames : Receive(mf) /\ reply'.write =>
           \A f \in unsent :
             \/ reply'.payload[f] = acState[f]
             \/ /\ f \in {"economy", "temperature"}
                /\ acState.mode = "FAN" \/ acState.temperature \notin Temperatures]_vars
  BY ReceiveCarriesUnsent, IncomingAssumption DEF IncomingAssumption, CarriesUnsent
<1> QED
  BY <1>1, SessionInvHolds, PTL DEF Spec, WriteCarriesAllUnsent

\* WritesOnlyUserChanges: the controller writes for the user or to end a swing step.
THEOREM WritesHaveCause == Spec => WritesOnlyUserChanges
<1>1. SessionInv /\ [Next]_vars =>
        [\A mf \in IncomingFrames : Receive(mf) /\ reply'.write => unsent # {} \/ followUp]_vars
  <2> SUFFICES ASSUME SessionInv, NEW mf \in IncomingFrames, Receive(mf), reply'.write
               PROVE  unsent # {} \/ followUp
    OBVIOUS
  <2>1. mf \in MasterFrames
    BY IncomingAssumption DEF IncomingAssumption
  <2> QED
    BY <2>1, WriteSendsCopy DEF SessionInv, SessionTypeOK, NotMergedHasCause
<1> QED
  BY <1>1, SessionInvHolds, PTL DEF Spec, WritesOnlyUserChanges

\* SwingStepSentOnce: one request for a swing step moves the flap once.
THEOREM OneStepPerRequest == Spec => SwingStepSentOnce
<1>1. SessionInv /\ [Next]_vars =>
        [\A mf \in IncomingFrames : Receive(mf) /\ Replies(mf) =>
           /\ reply'.write /\ reply'.payload.swingStep => "swingStep" \in unsent
           /\ followUp /\ IsStatus(mf) /\ reply'.query = "STATUS" => reply'.write]_vars
  BY ReceiveStepsOnce, IncomingAssumption DEF IncomingAssumption, StepOnce
<1> QED
  BY <1>1, SessionInvHolds, PTL DEF Spec, SwingStepSentOnce
==============================================================================
