------------------------ MODULE FujiAcWriteBackProofs ------------------------
(***************************************************************************)
(* FujiAcController implements the write-back cache FujiAcWriteBack, for   *)
(* every set of callers, requests, remote settings and owners; the cache   *)
(* is lossy exactly when the line is.  Each lemma below maps the steps of  *)
(* one thread to steps of the cache.                                       *)
(***************************************************************************)
EXTENDS FujiAcControllerProofs

\* The variables of the cache, as the refinement mapping of WriteBack has them.
Unsent == ~acState.merged
Seen == IF StatusInHand THEN {View(inbox.status)} ELSE {}
Waiting == {c \in Callers : pc[c] = "updating"}

Stutter ==
  /\ View(status)' = View(status) /\ View(acState)' = View(acState)
  /\ Unsent' = Unsent /\ Seen' = Seen /\ Waiting' = Waiting

\* What has to be shown of every step.
CacheStep == WriteBack!Next \/ Stutter

\* What the mapping rests on: nobody asks for a swing step, so that one write
\* settles the copy, and without lost replies ready_ means that it did.
CacheInv == ~acState.swingStep /\ ("replyLost" \notin LineEvents => HandshakeInv)

\* The controller starts as a cache that holds the defaults.
LEMMA InitCache == Init => WriteBack!Init
<1> SUFFICES ASSUME Init PROVE WriteBack!Init
  OBVIOUS
<1>1. View(status) \in WriteBack!UnitSettings
  BY DEF Init, UnitInit, InitialStatus, View, WriteBack!UnitSettings,
         WriteBack!Modes, WriteBack!Fans, WriteBack!Temperatures
<1>2. View(acState) = WriteBack!Defaults /\ acState.merged
  BY DEF Init, HandlerInit, InitialAcState, View, WriteBack!Defaults
<1>3. ~StatusInHand /\ \A c \in Callers : pc[c] # "updating"
  BY DEF Init, StatusInHand
<1> QED
  BY <1>1, <1>2, <1>3 DEF WriteBack!Init

-----------------------------------------------------------------------------
(***************************************************************************)
(* The operators on the copy and the register, seen through View.          *)
(***************************************************************************)
\* Update's three blocks do to the copy what the cache is asked for, and mark
\* it exactly when something was asked for.
LEMMA ApplyView ==
  ASSUME NEW s \in AcStates, NEW r \in NewStates
  PROVE  /\ View(ApplyRequest(s, r)) = WriteBack!Asked(View(s), r)
         /\ ApplyRequest(s, r).merged = (s.merged /\ WriteBack!AsksNothing(r))
<1>1. ApplyRequest(s, r).merged = (s.merged /\ WriteBack!AsksNothing(r))
  BY DEF ApplyRequest, WithMode, WithFan, WithSetpoint, SetMode, SetEnabled, SetFan,
         SetTemperature, AcStates, WriteBack!AsksNothing
<1> DEFINE t == ApplyRequest(s, r)
<1>2. /\ t.enabled = WriteBack!Asked(View(s), r).enabled
      /\ t.mode = WriteBack!Asked(View(s), r).mode
      /\ t.fan = WriteBack!Asked(View(s), r).fan
      /\ t.temperature = WriteBack!Asked(View(s), r).temperature
      /\ t.economy = WriteBack!Asked(View(s), r).economy
      /\ t.swing = WriteBack!Asked(View(s), r).swing
  BY ApplyFields DEF View, WriteBack!Asked
<1> HIDE DEF t
<1>3. WriteBack!Asked(View(s), r) = View(WriteBack!Asked(View(s), r))
  BY DEF View, WriteBack!Asked
<1>4. View(t) = View(WriteBack!Asked(View(s), r))
  BY <1>2 DEF View
<1> QED
  BY <1>1, <1>3, <1>4 DEF t

\* A write frame leaves the unit with what the cache says it takes: the setpoint
\* cut to seven bits, the spilled bit in economy, 18 degrees in FAN mode.
LEMMA WriteView ==
  ASSUME TypeOK
  PROVE  View(Written(BuildStatusRegisterResponse(acState))) = WriteBack!Taken(View(acState))
<1> DEFINE p == BuildStatusRegisterResponse(acState)
<1>1. acState.temperature \in 0..255 /\ acState.economy \in BOOLEAN
  BY DEF TypeOK, HandlerTypeOK, AcStates, Byte
<1>2. p.economy = (acState.mode # "FAN" /\ (acState.economy \/ acState.temperature > 127))
  BY <1>1 DEF BuildStatusRegisterResponse
<1>3. /\ p.enabled = acState.enabled /\ p.mode = acState.mode /\ p.fan = acState.fan
      /\ p.swing = acState.swing
      /\ p.temperature = IF acState.mode # "FAN" THEN acState.temperature % 128 ELSE 0
  BY DEF BuildStatusRegisterResponse
<1>4. /\ Written(p).enabled = p.enabled /\ Written(p).mode = p.mode /\ Written(p).fan = p.fan
      /\ Written(p).economy = p.economy /\ Written(p).swing = p.swing
      /\ Written(p).temperature = IF p.mode = "FAN" THEN 18 ELSE p.temperature
  BY DEF Written, TypeOK, UnitTypeOK, StatusRegisters
<1> QED
  BY <1>1, <1>2, <1>3, <1>4 DEF View, WriteBack!Taken

\* The bit for the registered controller is not among the cached settings.
LEMMA PushView ==
  ASSUME TypeOK, NEW cf \in ControllerFrames, PushControllerFrame(cf)
  PROVE  View(status)' = IF Accepts(cf) THEN View(Written(cf.payload)) ELSE View(status)
BY DEF PushControllerFrame, StatusAfterPush, Written, View, TypeOK, UnitTypeOK, StatusRegisters

-----------------------------------------------------------------------------
(***************************************************************************)
(* The loop thread.                                                        *)
(***************************************************************************)
LEMMA CacheRead ==
  ASSUME TypeOK, LoopCheck \/ ReadFrame \/ ReadOtherDevice \/ ReadNothing
  PROVE  CacheStep
<1>1. UNCHANGED <<acState, pc>> /\ ~StatusInHand
  BY DEF LoopCheck, ReadFrame, ReadOtherDevice, ReadNothing, handlerVars, callerVars,
         StatusInHand
<1>2. Unsent' = Unsent /\ Waiting' = Waiting /\ View(acState)' = View(acState) /\ Seen = {}
  BY <1>1 DEF Unsent, Waiting, Seen, View
<1>3. CASE LoopCheck \/ ReadOtherDevice \/ ReadNothing
  <2>1. status' = status /\ ~StatusInHand'
    BY <1>3 DEF LoopCheck, ReadOtherDevice, ReadNothing, unitVars, StatusInHand,
                OtherDeviceFrame, NoFrame, Addressed
  <2> QED
    BY <1>2, <2>1 DEF CacheStep, Stutter, Seen, View
<1>4. CASE ReadFrame
  <2>1. View(status)' = View(status)
    BY <1>4 DEF ReadFrame, GetNextMasterFrame, StatusAfterSend, View, TypeOK, UnitTypeOK,
                StatusRegisters
  <2>2. StatusInHand' => View(inbox'.status) = View(status)
    BY <1>4 DEF ReadFrame, NextMasterFrame, StatusAfterSend, View, TypeOK, UnitTypeOK,
                StatusRegisters
  <2>3. CASE StatusInHand'
    <3>1. Seen' = {View(status)}
      BY <2>2, <2>3 DEF Seen, View
    <3> QED
      BY <1>2, <2>1, <3>1 DEF CacheStep, WriteBack!Next, WriteBack!See, Unsent, Waiting, Seen
  <2>4. CASE ~StatusInHand'
    BY <1>2, <2>1, <2>4 DEF CacheStep, Stutter, Seen
  <2> QED
    BY <2>3, <2>4
<1> QED
  BY <1>3, <1>4

\* A reply is an acknowledged login, or settles a frame in hand: it is fetched,
\* put off behind a query, or answered with a write of the whole copy.
LEMMA HandledView ==
  ASSUME TypeOK, ~acState.swingStep, HandleInbox, Replies(inbox)
  PROVE  /\ Waiting' = Waiting /\ Seen' = {}
         /\ \/ Seen = {} /\ acState' = acState /\ ~Accepts(Reply(inbox))
            \/ /\ Seen = {View(inbox.status)}
               /\ \/ /\ ~Unsent /\ ~Unsent' /\ ~Accepts(Reply(inbox))
                     /\ View(acState)' = View(inbox.status)
                  \/ Unsent /\ acState' = acState /\ ~Accepts(Reply(inbox))
                  \/ /\ Unsent /\ ~Unsent' /\ Accepts(Reply(inbox))
                     /\ Reply(inbox).payload = BuildStatusRegisterResponse(acState)
                     /\ View(acState)' = View(acState)
<1> DEFINE cf == Reply(inbox)
<1>1. /\ inbox \in MasterFrames /\ inbox.status \in StatusRegisters
      /\ acState \in AcStates /\ HandleMasterFrame(inbox) /\ loop = "handle"
  BY DEF TypeOK, HandlerTypeOK, HandleInbox, MasterFrames
<1>2. Waiting' = Waiting /\ Seen' = {}
  BY DEF HandleInbox, Waiting, Seen, StatusInHand
<1>3. CASE AnswerLogin(inbox)
  <2>1. ~Accepts(cf)
    BY <1>3 DEF AnswerLogin, Reply, SendLoggedInFrame, Accepts, EmptyControllerFrame
  <2>2. Seen = {} /\ UNCHANGED acState
    BY <1>3 DEF AnswerLogin, handlerVars, Seen, StatusInHand
  <2> QED
    BY <1>2, <2>1, <2>2
<1>4. CASE ~AnswerLogin(inbox)
  <2>1. QueryLogin(inbox) \/ QueryError(inbox) \/ AnswerStatus(inbox)
    BY <1>1, <1>4 DEF HandleMasterFrame, IgnoreFrame
  <2>2. Seen = {View(inbox.status)}
    BY <1>1, <2>1 DEF QueryLogin, QueryError, AnswerStatus, Seen, StatusInHand
  <2>3. Accepts(cf) <=> AnswerStatus(inbox) /\ ~acState.merged
    <3>1. CASE AnswerStatus(inbox)
      <4>1. cf = SendStatusFrame(Merged(inbox))
        BY <3>1 DEF AnswerStatus, Reply
      <4>2. acState.merged <=> Merged(inbox).merged
        BY <1>1 DEF Merged, Merges, MergeFromMasterStatusRegister, AcStates
      <4> QED
        BY <3>1, <4>1, <4>2 DEF SendStatusFrame, Accepts, EmptyControllerFrame
    <3>2. CASE ~AnswerStatus(inbox)
      BY <2>1, <3>2 DEF QueryLogin, QueryError, Reply, SendLoginFrame, SendErrorQueryFrame,
                        Accepts, EmptyControllerFrame
    <3> QED
      BY <3>1, <3>2
  <2>4. CASE acState.merged
    <3>1. Merged(inbox) = MergeFromMasterStatusRegister(acState, inbox.status)
      BY <2>4 DEF Merged, Merges
    <3>2. View(Merged(inbox)) = View(inbox.status) /\ Merged(inbox).merged
      BY <1>1, <3>1 DEF MergeFromMasterStatusRegister, View, AcStates
    <3>3. acState' = Merged(inbox)
      BY <2>1, <3>2 DEF QueryLogin, QueryError, AnswerStatus
    <3>4. View(acState)' = View(inbox.status) /\ ~Unsent /\ ~Unsent'
      BY <2>4, <3>2, <3>3 DEF Unsent, View
    <3> QED
      BY <1>2, <2>2, <2>3, <2>4, <3>4
  <2>5. CASE ~acState.merged /\ ~AnswerStatus(inbox)
    <3>1. acState' = acState
      BY <2>1, <2>5 DEF QueryLogin, QueryError, Merged, Merges
    <3> QED
      BY <1>2, <2>2, <2>3, <2>5, <3>1 DEF Unsent
  <2>6. CASE ~acState.merged /\ AnswerStatus(inbox)
    <3>1. Merged(inbox) = acState
      BY <2>6 DEF Merged, Merges
    <3>2. View(acState)' = View(acState) /\ acState'.merged
      BY <1>1, <2>6, <3>1 DEF AnswerStatus, View, AcStates
    <3>3. cf.payload = BuildStatusRegisterResponse(acState)
      BY <2>6, <3>1 DEF AnswerStatus, Reply, SendStatusFrame, EmptyControllerFrame
    <3> QED
      BY <1>2, <2>2, <2>3, <2>6, <3>2, <3>3 DEF Unsent
  <2> QED
    BY <2>4, <2>5, <2>6
<1> QED
  BY <1>3, <1>4

\* The critical section, with the reply delivered: only a write shows on the unit.
LEMMA CacheReply ==
  ASSUME TypeOK, ~acState.swingStep, HandleAndReply
  PROVE  CacheStep
<1> DEFINE cf == Reply(inbox)
<1>1. inbox \in MasterFrames /\ HandleInbox /\ Replies(inbox)
  BY DEF TypeOK, HandleAndReply
<1>2. View(status)' = IF Accepts(cf) THEN View(Written(cf.payload)) ELSE View(status)
  BY <1>1, ReplyTyped, PushView DEF HandleAndReply, TypeOK
<1>3. cf.payload = BuildStatusRegisterResponse(acState)
        => View(Written(cf.payload)) = WriteBack!Taken(View(acState))
  BY WriteView
<1> HIDE DEF cf
<1> QED
  BY <1>1, <1>2, <1>3, HandledView
     DEF cf, CacheStep, Stutter, View, Unsent, Waiting, Seen, WriteBack!Next, WriteBack!Fetch,
         WriteBack!Discard, WriteBack!WriteBack

\* The same with the reply damaged: a write is lost, all else is as before.
LEMMA CacheLostReply ==
  ASSUME TypeOK, ~acState.swingStep, HandleAndLoseReply
  PROVE  CacheStep
<1>1. HandleInbox /\ Replies(inbox) /\ "replyLost" \in LineEvents
  BY DEF HandleAndLoseReply
<1>2. View(status)' = View(status)
  BY DEF HandleAndLoseReply, unitVars, View
<1> QED
  BY <1>1, <1>2, HandledView
     DEF CacheStep, Stutter, View, Unsent, Waiting, Seen, WriteBack!Next, WriteBack!Fetch,
         WriteBack!Discard, WriteBack!LoseWrite

\* Handling a frame is a fetch, a discard, a write-back, a lost write or no step.
LEMMA CacheHandle ==
  ASSUME TypeOK, ~acState.swingStep, LoopHandle
  PROVE  CacheStep
<1>1. CASE HandleWithoutReply
  <2>1. UNCHANGED handlerVars /\ ~StatusInHand
    BY <1>1 DEF HandleWithoutReply, HandleInbox, HandleMasterFrame, IgnoreFrame, AnswerLogin,
                QueryLogin, QueryError, AnswerStatus, Replies, StatusInHand
  <2>2. UNCHANGED <<status, pc>> /\ ~StatusInHand'
    BY <1>1 DEF HandleWithoutReply, HandleInbox, unitVars, StatusInHand
  <2> QED
    BY <2>1, <2>2 DEF CacheStep, Stutter, Seen, Unsent, Waiting, View, handlerVars
<1>2. CASE HandleAndReply
  BY <1>2, CacheReply
<1>3. CASE HandleAndLoseReply
  BY <1>3, CacheLostReply
<1> QED
  BY <1>1, <1>2, <1>3 DEF LoopHandle

-----------------------------------------------------------------------------
(***************************************************************************)
(* The callers, the owners, the unit's side, and all of them together.     *)
(***************************************************************************)
LEMMA CacheCaller ==
  ASSUME TypeOK, CacheInv, NEW c \in Callers, CallerStep(c)
  PROVE  CacheStep
<1>1. UNCHANGED <<status, loop, inbox>>
  BY DEF CallerStep, UpdateCall, UpdateReturn, GetStatusCall, GetStatusReturn, unitVars, loopVars
<1>2. View(status)' = View(status) /\ Seen' = Seen
  BY <1>1 DEF View, Seen, StatusInHand, Addressed
<1>3. ASSUME NEW r \in Requests, UpdateCall(c, r)
      PROVE  CacheStep
  <2>1. r \in NewStates /\ acState \in AcStates
    BY RequestsAssumption DEF TypeOK, HandlerTypeOK
  <2>2. acState' = ApplyRequest(acState, r)
    BY <1>3 DEF UpdateCall
  <2>3. View(acState)' = WriteBack!Asked(View(acState), r)
    BY <2>1, <2>2, ApplyView DEF View
  <2>4. Unsent' = (Unsent \/ ~WriteBack!AsksNothing(r))
    BY <2>1, <2>2, ApplyView DEF Unsent
  <2>5. c \notin Waiting /\ Waiting' = Waiting \cup {c}
    BY <1>3 DEF UpdateCall, Waiting, TypeOK
  <2> QED
    BY <1>2, <2>3, <2>4, <2>5
       DEF CacheStep, WriteBack!Next, WriteBack!Change, Unsent, Waiting, Seen
<1>4. CASE UpdateReturn(c)
  <2>1. UNCHANGED acState /\ (Unsent => "replyLost" \in LineEvents)
    BY <1>4 DEF UpdateReturn, handlerVars, Unsent, CacheInv, HandshakeInv, ReadyImpliesMerged
  <2>2. c \in Waiting /\ Waiting' = Waiting \ {c}
    BY <1>4 DEF UpdateReturn, Waiting, TypeOK
  <2>3. View(acState)' = View(acState) /\ Unsent' = Unsent
    BY <2>1 DEF View, Unsent
  <2> QED
    BY <1>2, <2>1, <2>2, <2>3
       DEF CacheStep, WriteBack!Next, WriteBack!Release, Unsent, Waiting, Seen
<1>5. CASE GetStatusCall(c) \/ GetStatusReturn(c)
  <2>1. UNCHANGED acState
    BY <1>5 DEF GetStatusCall, GetStatusReturn, handlerVars
  <2>2. Waiting' = Waiting
    BY <1>5 DEF GetStatusCall, GetStatusReturn, Waiting, TypeOK
  <2> QED
    BY <1>2, <2>1, <2>2 DEF CacheStep, Stutter, View, Unsent
<1> QED
  BY <1>3, <1>4, <1>5 DEF CallerStep

\* A new process is a restart of the cache.
LEMMA CacheRestart ==
  ASSUME Restart
  PROVE  CacheStep
<1>1. View(acState)' = WriteBack!Defaults /\ Unsent' = FALSE
  BY DEF Restart, InitialAcState, View, Unsent, WriteBack!Defaults
<1>2. Seen' = {} /\ Waiting' = {} /\ View(status)' = View(status)
  BY DEF Restart, Seen, StatusInHand, Waiting, View, unitVars
<1> QED
  BY <1>1, <1>2 DEF CacheStep, WriteBack!Next, WriteBack!Restart, Unsent, Waiting, Seen

\* A change inside the unit is one behind the cache's back.
LEMMA CacheUnit ==
  ASSUME TypeOK, RemoteStep \/ UnitFault \/ UnitPowerCycle
  PROVE  CacheStep
<1>1. PICK fs : UnitChanged(fs)
  BY DEF RemoteStep, UnitFault, UnitPowerCycle
<1>2. View(status)' \in WriteBack!UnitSettings
  BY UnitStepTyped DEF TypeOK, UnitTypeOK, StatusRegisters, View,
     WriteBack!UnitSettings, WriteBack!Modes, WriteBack!Fans, WriteBack!Temperatures, Modes, Fans, Temperatures
<1>3. UNCHANGED <<acState, loop, inbox, pc>>
  BY <1>1 DEF UnitChanged, handlerVars, loopVars
<1>4. View(acState)' = View(acState) /\ Unsent' = Unsent /\ Seen' = Seen /\ Waiting' = Waiting
  BY <1>3 DEF View, Unsent, Seen, StatusInHand, Addressed, Waiting
<1> QED
  BY <1>2, <1>4 DEF CacheStep, WriteBack!Next, WriteBack!UnitStep, Unsent, Waiting, Seen

\* The controller never asks for a swing step, whatever the line loses.
LEMMA NextNoSwing == TypeOK /\ ~acState.swingStep /\ [Next]_vars => ~acState'.swingStep
<1> SUFFICES ASSUME TypeOK, ~acState.swingStep, [Next]_vars PROVE ~acState'.swingStep
  OBVIOUS
<1>1. CASE acState' = acState
  BY <1>1
<1>2. CASE LoopHandle
  <2>1. HandleMasterFrame(inbox) /\ inbox \in MasterFrames
    BY <1>2 DEF LoopHandle, HandleWithoutReply, HandleAndReply, HandleAndLoseReply, HandleInbox,
                TypeOK
  <2>2. CASE Replies(inbox)
    BY <2>1, <2>2, ReplyShape
  <2>3. CASE ~Replies(inbox)
    BY <1>1, <2>1, <2>3 DEF HandleMasterFrame, IgnoreFrame, AnswerLogin, QueryLogin, QueryError,
                            AnswerStatus, Replies, handlerVars
  <2> QED
    BY <2>2, <2>3
<1>3. ASSUME NEW c \in Callers, CallerStep(c)
      PROVE  ~acState'.swingStep
  <2>1. ASSUME NEW r \in Requests, UpdateCall(c, r)
        PROVE  acState'.swingStep = acState.swingStep
    <3>1. r \in NewStates /\ acState \in AcStates /\ acState' = ApplyRequest(acState, r)
      BY <2>1, RequestsAssumption DEF UpdateCall, TypeOK, HandlerTypeOK
    <3> QED
      BY <3>1, ApplyFields
  <2>2. CASE UpdateReturn(c) \/ GetStatusCall(c) \/ GetStatusReturn(c)
    BY <1>1, <2>2 DEF UpdateReturn, GetStatusCall, GetStatusReturn, handlerVars
  <2> QED
    BY <1>3, <2>1, <2>2 DEF CallerStep
<1>4. CASE Restart
  BY <1>4 DEF Restart, InitialAcState
<1>5. CASE LoopCheck \/ ReadFrame \/ ReadOtherDevice \/ ReadNothing
  BY <1>1, <1>5 DEF LoopCheck, ReadFrame, ReadOtherDevice, ReadNothing, handlerVars
<1>6. CASE RemoteStep \/ UnitFault \/ UnitPowerCycle
  BY <1>1, <1>6 DEF RemoteStep, UnitFault, UnitPowerCycle, UnitChanged, handlerVars
<1>7. CASE UNCHANGED vars
  BY <1>1, <1>7 DEF vars, handlerVars
<1> QED
  BY <1>1, <1>2, <1>3, <1>4, <1>5, <1>6, <1>7, OwnerCases DEF Next, CrashAndRestart

\* Every step keeps the invariant the refinement needs.
LEMMA NextCacheInv == TypeOK /\ CacheInv /\ [Next]_vars => CacheInv'
<1> SUFFICES ASSUME TypeOK, CacheInv, [Next]_vars PROVE CacheInv'
  OBVIOUS
<1>1. ~acState'.swingStep
  BY NextNoSwing DEF CacheInv
<1>2. "replyLost" \notin LineEvents => HandshakeInv'
  BY NextHandshake DEF CacheInv
<1> QED
  BY <1>1, <1>2 DEF CacheInv

\* Every step of the controller is a step of the cache or a stutter.
LEMMA NextCache == TypeOK /\ CacheInv /\ [Next]_vars => [WriteBack!Next]_(WriteBack!vars)
<1> SUFFICES ASSUME TypeOK, CacheInv, [Next]_vars PROVE CacheStep
  BY DEF CacheStep, Stutter, WriteBack!vars, Unsent, Seen, Waiting
<1>1. CASE UNCHANGED <<acState, status, loop, inbox, pc>>
  BY <1>1 DEF CacheStep, Stutter, View, Unsent, Seen, StatusInHand, Addressed, Waiting
<1>2. CASE UNCHANGED vars
  BY <1>1, <1>2 DEF vars, handlerVars, unitVars, loopVars, callerVars
<1>3. CASE \E o \in Owners : OwnerStep(o)
  BY <1>1, <1>3, OwnerCases, CacheRestart
<1>4. CASE LoopHandle
  BY <1>4, CacheHandle DEF CacheInv
<1> QED
  BY <1>2, <1>3, <1>4, CacheRead, CacheCaller, CacheRestart, CacheUnit DEF Next, CrashAndRestart

\* The controller is a write-back cache (controller.h:33-47), on any line: a
\* change waits in the copy, one write carries the whole copy to the unit, its
\* caller leaves only after that, and nothing seen before the write is fetched
\* after it.  A line that loses replies adds lost writes and early returns.
THEOREM ControllerIsWriteBackCache == Spec => ImplementsWriteBack
<1>1. Init => TypeOK /\ CacheInv /\ WriteBack!Init
  BY InitTypeOK, InitHandshake, InitCache DEF CacheInv, Init, HandlerInit, InitialAcState
<1>2. TypeOK /\ CacheInv /\ [Next]_vars
        => TypeOK' /\ CacheInv' /\ [WriteBack!Next]_(WriteBack!vars)
  BY NextTypeOK, NextCacheInv, NextCache
<1> QED
  BY <1>1, <1>2, PTL DEF Spec, ImplementsWriteBack, WriteBack!Spec
==============================================================================
