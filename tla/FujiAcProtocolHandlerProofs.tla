---------------------- MODULE FujiAcProtocolHandlerProofs ----------------------
(***************************************************************************)
(* Lemmas about the protocol handler and the copy it works on, for the     *)
(* proofs of the modules that use them.                                    *)
(***************************************************************************)
EXTENDS FujiAcProtocolHandler, TLAPS

\* A status payload fits the register: the temperature is cut to seven bits.
LEMMA BuildTyped ==
  ASSUME NEW s \in AcStates
  PROVE  BuildStatusRegisterResponse(s) \in Payloads
BY DEF AcStates, Payloads, BuildStatusRegisterResponse, Byte, Temperatures,
       Modes, Fans

\* The unit's register merges into a copy.
LEMMA MergeTyped ==
  ASSUME NEW s \in AcStates, NEW st \in StatusRegisters
  PROVE  MergeFromMasterStatusRegister(s, st) \in AcStates
<1>1. st.temperature \in Byte
  BY DEF StatusRegisters, Temperatures, Byte
<1> QED
  BY <1>1 DEF AcStates, StatusRegisters, MergeFromMasterStatusRegister

\* The frame the constructor builds is a controller frame.
LEMMA EmptyFrameTyped == EmptyControllerFrame \in ControllerFrames
BY DEF EmptyControllerFrame, ControllerFrames, EmptyPayload, Payloads,
       RegisterTypes, Modes, Fans, Temperatures

\* The copy a reply is built from is a copy.
LEMMA MergedTyped ==
  ASSUME HandlerTypeOK, NEW mf \in MasterFrames
  PROVE  Merged(mf) \in AcStates
<1>1. mf.status \in StatusRegisters
  BY DEF MasterFrames
<1> QED
  BY <1>1, MergeTyped DEF HandlerTypeOK, Merged

\* Each of the four answers is a controller frame.
LEMMA ReplyTyped ==
  ASSUME HandlerTypeOK, NEW mf \in MasterFrames
  PROVE  Reply(mf) \in ControllerFrames
<1>1. ASSUME NEW s \in AcStates
      PROVE  /\ SendStatusFrame(s) \in ControllerFrames
             /\ SendLoggedInFrame(s) \in ControllerFrames
  BY BuildTyped, EmptyFrameTyped
     DEF SendStatusFrame, SendLoggedInFrame, ControllerFrames, AcStates
<1>2. /\ SendLoginFrame \in ControllerFrames
      /\ SendErrorQueryFrame \in ControllerFrames
  BY EmptyFrameTyped
     DEF SendLoginFrame, SendErrorQueryFrame, ControllerFrames, RegisterTypes
<1> QED
  BY <1>1, <1>2, MergedTyped DEF Reply, HandlerTypeOK

\* Handling a frame keeps the handler's state typed.
LEMMA HandleTyped ==
  ASSUME HandlerTypeOK, NEW mf \in MasterFrames, HandleMasterFrame(mf)
  PROVE  HandlerTypeOK'
<1>1. Merged(mf) \in AcStates
  BY MergedTyped
<1>2. ErrorDue(mf) \in BOOLEAN
  BY DEF ErrorDue, HandlerTypeOK
<1>3. CASE IgnoreFrame(mf) \/ AnswerLogin(mf)
  BY <1>3 DEF IgnoreFrame, AnswerLogin, handlerVars, HandlerTypeOK
<1>4. CASE QueryLogin(mf)
  BY <1>1, <1>2, <1>4 DEF QueryLogin, HandlerTypeOK
<1>5. CASE QueryError(mf)
  BY <1>1, <1>5 DEF QueryError, HandlerTypeOK
<1>6. CASE AnswerStatus(mf)
  BY <1>1, <1>6 DEF AnswerStatus, HandlerTypeOK, AcStates
<1> QED
  BY <1>3, <1>4, <1>5, <1>6 DEF HandleMasterFrame

\* Of a frame that is answered the handler reads address and type, and of a
\* STATUS frame the register: frames that agree on these are handled alike.
LEMMA ContentDecides ==
  ASSUME NEW mf, NEW other, Replies(mf),
         other.destination = mf.destination, other.type = mf.type,
         mf.type = "STATUS" => other.status = mf.status
  PROVE  /\ Replies(other) /\ Reply(other) = Reply(mf)
         /\ HandleMasterFrame(mf) => HandleMasterFrame(other)
<1>1. Replies(other) /\ Addressed(other) /\ mf.type \in {"STATUS", "LOGIN"}
  BY DEF Replies, Addressed
<1>2. CASE mf.type = "LOGIN"
  <2>1. Reply(mf) = SendLoggedInFrame(acState) /\ Reply(other) = SendLoggedInFrame(acState)
    BY <1>2 DEF Reply
  <2>2. HandleMasterFrame(mf) => AnswerLogin(other)
    BY <1>1, <1>2 DEF HandleMasterFrame, IgnoreFrame, AnswerLogin, QueryLogin, QueryError,
                      AnswerStatus
  <2> QED
    BY <1>1, <2>1, <2>2 DEF HandleMasterFrame
<1>3. CASE mf.type = "STATUS"
  <2>1. other.status = mf.status
    BY <1>3
  <2>2. /\ LoginDue(other) = LoginDue(mf) /\ ErrorDue(other) = ErrorDue(mf)
        /\ Merged(other) = Merged(mf)
    BY <2>1 DEF LoginDue, ErrorDue, Merged, Merges
  <2>3. Reply(other) = Reply(mf)
    BY <1>3, <2>2 DEF Reply
  <2>4. /\ QueryLogin(mf) => QueryLogin(other)
        /\ QueryError(mf) => QueryError(other)
        /\ AnswerStatus(mf) => AnswerStatus(other)
    BY <1>1, <1>3, <2>2 DEF QueryLogin, QueryError, AnswerStatus
  <2>5. ~IgnoreFrame(mf) /\ ~AnswerLogin(mf)
    BY <1>3 DEF IgnoreFrame, AnswerLogin
  <2> QED
    BY <1>1, <2>3, <2>4, <2>5 DEF HandleMasterFrame
<1> QED
  BY <1>1, <1>2, <1>3

\* The defaults of FujiAcState are a copy.
LEMMA InitialCopyTyped == InitialAcState \in AcStates
<1>1. 20 \in Byte
  BY DEF Byte
<1> QED
  BY <1>1 DEF InitialAcState, AcStates, Modes, Fans

==============================================================================
