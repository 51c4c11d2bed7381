------------------------ MODULE FujiAcProtocolHandler ------------------------
(***************************************************************************)
(* protocol/fuji_ac_protocol_handler.cc: how the virtual wired controller  *)
(* answers one master frame.  Replies(mf) and Reply(mf) are the optional   *)
(* frame HandleMasterFrame returns; HandleMasterFrame(mf) is its effect on *)
(* the handler's state.                                                    *)
(***************************************************************************)
EXTENDS FujiAcState

VARIABLES
  acState,    \* *ac_state_, the local copy the user also modifies
  errorRead,  \* error_read_: an ERROR register query is due
  loginRead   \* login_read_: a LOGIN register query is due

handlerVars == <<acState, errorRead, loginRead>>

HandlerTypeOK ==
  /\ acState \in AcStates
  /\ errorRead \in BOOLEAN
  /\ loginRead \in BOOLEAN

HandlerInit ==
  /\ acState = InitialAcState
  /\ errorRead = FALSE
  /\ loginRead = TRUE

-----------------------------------------------------------------------------
\* The frames the handler sends.
SendLoginFrame == [EmptyControllerFrame EXCEPT !.query = "LOGIN"]

SendErrorQueryFrame == [EmptyControllerFrame EXCEPT !.query = "ERROR"]

SendStatusFrame(s) ==
  [EmptyControllerFrame EXCEPT !.write = ~s.merged,
                               !.payload = BuildStatusRegisterResponse(s)]

SendLoggedInFrame(s) ==
  [EmptyControllerFrame EXCEPT !.login = TRUE,
                               !.payload = BuildStatusRegisterResponse(s)]

(***************************************************************************)
(* A STATUS frame is merged only while the copy holds no unsent change.    *)
(* Merged(mf) is the copy after that; the two Due operators are the query  *)
(* flags after it.                                                         *)
(***************************************************************************)
\* Plausible bug: the unit's data is merged over an unsent change.
Merges_Always(mf) == TRUE

Merges(mf) == acState.merged

Merged(mf) ==
  IF Merges(mf) THEN MergeFromMasterStatusRegister(acState, mf.status)
                ELSE acState

\* Plausible bugs: the login flag is taken from every frame, or only from the
\* start.
LoginDue_EveryFrame(mf) == loginRead \/ ~mf.status.controllerPresent

LoginDue_OnlyAtStart(mf) == loginRead

ErrorDue(mf) == errorRead \/ (Merges(mf) /\ acState.errorFlag # mf.status.error)

LoginDue(mf) == loginRead \/ (Merges(mf) /\ ~mf.status.controllerPresent)

-----------------------------------------------------------------------------
Addressed(mf) == mf.destination = "WIRED_CONTROLLER_ADDR"

Replies(mf) == Addressed(mf) /\ mf.type \in {"STATUS", "LOGIN"}

Reply(mf) ==
  CASE mf.type = "LOGIN" -> SendLoggedInFrame(acState)
    [] mf.type # "LOGIN" /\ LoginDue(mf) -> SendLoginFrame
    [] mf.type # "LOGIN" /\ ~LoginDue(mf) /\ ErrorDue(mf) -> SendErrorQueryFrame
    [] OTHER -> SendStatusFrame(Merged(mf))

\* A frame for another device, an ERROR frame or an unknown one: no answer.
IgnoreFrame(mf) ==
  /\ ~Replies(mf)
  /\ UNCHANGED handlerVars

\* The LOGIN register arrived: acknowledge it, no state change.
AnswerLogin(mf) ==
  /\ Addressed(mf) /\ mf.type = "LOGIN"
  /\ UNCHANGED handlerVars

\* Plausible bug: the flag stays up after the query.
QueryLogin_FlagKept(mf) ==
  /\ Addressed(mf) /\ mf.type = "STATUS" /\ LoginDue(mf)
  /\ acState' = Merged(mf)
  /\ loginRead' = TRUE
  /\ errorRead' = ErrorDue(mf)

\* Plausible bug: an error seen while a login is due is not remembered.
QueryLogin_ErrorForgotten(mf) ==
  /\ Addressed(mf) /\ mf.type = "STATUS" /\ LoginDue(mf)
  /\ acState' = Merged(mf)
  /\ loginRead' = FALSE
  /\ UNCHANGED errorRead

\* A STATUS frame while a login is due: ask for the LOGIN register.
QueryLogin(mf) ==
  /\ Addressed(mf) /\ mf.type = "STATUS" /\ LoginDue(mf)
  /\ acState' = Merged(mf)
  /\ loginRead' = FALSE
  /\ errorRead' = ErrorDue(mf)

\* A STATUS frame while only an error query is due.
QueryError(mf) ==
  /\ Addressed(mf) /\ mf.type = "STATUS" /\ ~LoginDue(mf) /\ ErrorDue(mf)
  /\ acState' = Merged(mf)
  /\ errorRead' = FALSE
  /\ UNCHANGED loginRead

\* Plausible bugs: a write does not settle the copy; the swing step stays.
AnswerStatus_NeverSettles(mf) ==
  /\ Addressed(mf) /\ mf.type = "STATUS" /\ ~LoginDue(mf) /\ ~ErrorDue(mf)
  /\ acState' = [Merged(mf) EXCEPT !.swingStep = FALSE]
  /\ UNCHANGED <<errorRead, loginRead>>

AnswerStatus_StepKept(mf) ==
  /\ Addressed(mf) /\ mf.type = "STATUS" /\ ~LoginDue(mf) /\ ~ErrorDue(mf)
  /\ acState' = [Merged(mf) EXCEPT !.merged = @ \/ ~acState.swingStep]
  /\ UNCHANGED <<errorRead, loginRead>>

\* A STATUS frame answered with the copy.  A write settles the copy, unless
\* it carried a swing step: that clears the step and asks for a second write.
AnswerStatus(mf) ==
  /\ Addressed(mf) /\ mf.type = "STATUS" /\ ~LoginDue(mf) /\ ~ErrorDue(mf)
  /\ LET s == Merged(mf) IN
       acState' = IF s.merged THEN s
                  ELSE [s EXCEPT !.swingStep = FALSE, !.merged = ~s.swingStep]
  /\ UNCHANGED <<errorRead, loginRead>>

HandleMasterFrame(mf) ==
  \/ IgnoreFrame(mf)
  \/ AnswerLogin(mf)
  \/ QueryLogin(mf)
  \/ QueryError(mf)
  \/ AnswerStatus(mf)
==============================================================================
