--------------------------- MODULE FujiAcController ---------------------------
(***************************************************************************)
(* controller/fuji_ac_controller.cc composed with the protocol handler,    *)
(* the AC unit and the two RPCs of controller/fuji_ac_server.cc.  Threads: *)
(* the controller's background loop, one gRPC thread per caller, the owner *)
(* of the controller object.  Everything done under mu_ is one step.       *)
(***************************************************************************)
EXTENDS FujiAcProtocolHandler, FujiAcUnitSim

CONSTANTS
  Callers,           \* gRPC threads that call Update and GetStatus
  Requests,          \* the ACUnitState messages an Update may carry
  LineEvents,        \* what may go wrong around the controller
  Owners             \* threads that may call Shutdown

\* MODE_UNKNOWN and FAN_UNKNOWN are the proto3 defaults: the field is not set.
RequestModes == Modes \cup {"OFF"}

NewStates == [mode : RequestModes, fan : Fans, setpoint : Int]

Events == {"noFrame", "otherDevice", "replyLost", "errorBit", "powerCycle",
           "crash"}

ASSUME RequestsAssumption == Requests \subseteq NewStates
ASSUME LineEventsAssumption == LineEvents \subseteq Events

VARIABLES
  ready,      \* ready_
  lastFrame,  \* last_frame_
  shutdown,   \* shutdown_
  loop,       \* where loop_thread_ is in DoLoop
  inbox,      \* mf, the frame DoLoop has read and not handled yet
  owner,      \* owner[o]: where thread o is in Shutdown
  pc,         \* pc[c]: the blocking call caller c is in
  req,        \* req[c]: the request of c's Update RPC
  claim       \* claim[c]: history, the settings c's RPC may still rely on

loopVars == <<ready, lastFrame, shutdown, loop, inbox, owner>>
callerVars == <<pc, req, claim>>
vars == <<handlerVars, unitVars, loopVars, callerVars>>

-----------------------------------------------------------------------------
(***************************************************************************)
(* Requests.  Touched are the settings a request changes, Claimed the ones *)
(* whose value the register can carry: its temperature has seven bits.     *)
(***************************************************************************)
EmptyRequest == [mode |-> "UNKNOWN", fan |-> "UNKNOWN", setpoint |-> 0]

Fields == {"enabled", "mode", "fan", "temperature"}

Touched(r) ==
  {f \in Fields :
     \/ f = "enabled" /\ r.mode # "UNKNOWN"
     \/ f = "mode" /\ r.mode \notin {"UNKNOWN", "OFF"}
     \/ f = "fan" /\ r.fan # "UNKNOWN"
     \/ f = "temperature" /\ r.setpoint # 0}

Claimed(r) ==
  {f \in Touched(r) : f = "temperature" => r.setpoint \in Temperatures}

\* The copy, or the unit's register, holds what request r asks for field f.
Holds(s, r, f) ==
  /\ f = "enabled" => s.enabled = (r.mode # "OFF")
  /\ f = "mode" => s.mode = r.mode
  /\ f = "fan" => s.fan = r.fan
  /\ f = "temperature" => s.temperature = r.setpoint

\* Plausible bug: OFF is treated as one more mode.
WithMode_OffIsAMode(s, mode) ==
  IF mode = "UNKNOWN" THEN s ELSE SetMode(SetEnabled(s, mode # "OFF"), mode)

\* The three blocks of Update; setpoint is an int32 cut to a uint8_t.
WithMode(s, mode) ==
  CASE mode = "UNKNOWN" -> s
    [] mode = "OFF" -> SetEnabled(s, FALSE)
    [] OTHER -> SetMode(SetEnabled(s, TRUE), mode)

WithFan(s, fan) == IF fan = "UNKNOWN" THEN s ELSE SetFan(s, fan)

WithSetpoint(s, setpoint) ==
  IF setpoint = 0 THEN s ELSE SetTemperature(s, setpoint % 256)

ApplyRequest(s, r) == WithSetpoint(WithFan(WithMode(s, r.mode), r.fan), r.setpoint)

\* The ACUnitState GetStatus answers with.
Response(s) ==
  [mode |-> IF s.enabled THEN s.mode ELSE "OFF", fan |-> s.fan,
   setpoint |-> s.temperature]

-----------------------------------------------------------------------------
NoFrame == [destination |-> "UNKNOWN", type |-> "UNKNOWN", status |-> InitialStatus]

OtherDeviceFrame == [NoFrame EXCEPT !.destination = "OTHER"]

TypeOK ==
  /\ HandlerTypeOK
  /\ UnitTypeOK
  /\ ready \in BOOLEAN
  /\ lastFrame \in ControllerFrames
  /\ shutdown \in BOOLEAN
  /\ loop \in {"check", "read", "handle", "done"}
  /\ inbox \in MasterFrames
  /\ owner \in [Owners -> {"running", "tested", "joining", "joined"}]
  /\ pc \in [Callers -> {"idle", "updating", "querying"}]
  /\ req \in [Callers -> NewStates]
  /\ claim \in [Callers -> SUBSET Fields]

Init ==
  /\ HandlerInit
  /\ UnitInit
  /\ ready = FALSE
  /\ lastFrame = EmptyControllerFrame
  /\ shutdown = FALSE
  /\ loop = "check"
  /\ inbox = NoFrame
  /\ owner = [o \in Owners |-> "running"]
  /\ pc = [c \in Callers |-> "idle"]
  /\ req = [c \in Callers |-> EmptyRequest]
  /\ claim = [c \in Callers |-> {}]

\* From now on nobody may rely on the settings in fs.
Drop(fs) == [c \in Callers |-> claim[c] \ fs]

-----------------------------------------------------------------------------
\* Plausible bug: the loop never looks at the flag.
LoopCheck_Forever ==
  /\ loop = "check"
  /\ loop' = "read"
  /\ UNCHANGED <<handlerVars, unitVars, callerVars,
                 ready, lastFrame, shutdown, inbox, owner>>

\* while (!shutdown_)
LoopCheck ==
  /\ loop = "check"
  /\ loop' = IF shutdown THEN "done" ELSE "read"
  /\ UNCHANGED <<handlerVars, unitVars, callerVars,
                 ready, lastFrame, shutdown, inbox, owner>>

\* ReadMasterFrame returns the unit's next frame.
ReadFrame ==
  /\ loop = "read"
  /\ GetNextMasterFrame
  /\ inbox' = NextMasterFrame
  /\ loop' = "handle"
  /\ UNCHANGED <<handlerVars, callerVars, ready, lastFrame, shutdown, owner>>

\* ReadMasterFrame returns a frame the unit sent to another device.
ReadOtherDevice ==
  /\ "otherDevice" \in LineEvents
  /\ loop = "read"
  /\ inbox' = OtherDeviceFrame
  /\ loop' = "handle"
  /\ UNCHANGED <<handlerVars, unitVars, callerVars,
                 ready, lastFrame, shutdown, owner>>

\* ReadMasterFrame returns nullopt: nothing in 0.3 s, or fewer than 8 bytes.
ReadNothing ==
  /\ "noFrame" \in LineEvents
  /\ loop = "read"
  /\ loop' = "check"
  /\ UNCHANGED <<handlerVars, unitVars, callerVars,
                 ready, lastFrame, shutdown, inbox, owner>>

\* Plausible bugs: ready after any reply, or only after an update.
ReadyAfter_AnyReply(cf) == TRUE

ReadyAfter_OnlyWrites(cf) == ready \/ (cf = lastFrame /\ cf.write)

\* Two equal replies in a row: the state is stable.
ReadyAfter(cf) == ready \/ cf = lastFrame

\* Plausible bug: a frame may be handled once more before the next is read.
HandleInbox_Again ==
  /\ loop = "handle"
  /\ HandleMasterFrame(inbox)
  /\ loop' \in {"check", "handle"}
  /\ inbox' = IF loop' = "handle" THEN inbox ELSE NoFrame
  /\ UNCHANGED <<shutdown, owner, pc, req>>

\* The part of the critical section every frame goes through.
HandleInbox ==
  /\ loop = "handle"
  /\ HandleMasterFrame(inbox)
  /\ loop' = "check"
  /\ inbox' = NoFrame
  /\ UNCHANGED <<shutdown, owner, pc, req>>

HandleWithoutReply ==
  /\ ~Replies(inbox)
  /\ HandleInbox
  /\ UNCHANGED <<unitVars, ready, lastFrame, claim>>

\* The reply is written; in FAN mode the unit takes no temperature from it.
HandleAndReply ==
  /\ Replies(inbox)
  /\ HandleInbox
  /\ LET cf == Reply(inbox) IN
       /\ PushControllerFrame(cf)
       /\ ready' = ReadyAfter(cf)
       /\ lastFrame' = cf
       /\ claim' = IF Accepts(cf) /\ cf.payload.mode = "FAN"
                     THEN Drop({"temperature"}) ELSE claim

\* The reply is written and damaged on the wire.
HandleAndLoseReply ==
  /\ "replyLost" \in LineEvents
  /\ Replies(inbox)
  /\ HandleInbox
  /\ ready' = ReadyAfter(Reply(inbox))
  /\ lastFrame' = Reply(inbox)
  /\ UNCHANGED <<unitVars, claim>>

LoopHandle == HandleWithoutReply \/ HandleAndReply \/ HandleAndLoseReply

-----------------------------------------------------------------------------
\* Update RPC: FujiAcController::Update up to its Await.
UpdateCall(c, r) ==
  /\ pc[c] = "idle"
  /\ ready' = FALSE
  /\ acState' = ApplyRequest(acState, r)
  /\ pc' = [pc EXCEPT ![c] = "updating"]
  /\ req' = [req EXCEPT ![c] = r]
  /\ claim' = [Drop(Touched(r)) EXCEPT ![c] = Claimed(r)]
  /\ UNCHANGED <<errorRead, loginRead, unitVars,
                 lastFrame, shutdown, loop, inbox, owner>>

\* Update's Await is over; the RPC goes on to call GetStatus.
UpdateReturn(c) ==
  /\ pc[c] = "updating" /\ ready
  /\ pc' = [pc EXCEPT ![c] = "querying"]
  /\ UNCHANGED <<handlerVars, unitVars, loopVars, req, claim>>

\* GetStatus RPC.
GetStatusCall(c) ==
  /\ pc[c] = "idle"
  /\ pc' = [pc EXCEPT ![c] = "querying"]
  /\ UNCHANGED <<handlerVars, unitVars, loopVars, req, claim>>

\* GetStatus's Await is over and the RPC answers with the copy.
GetStatusReturn(c) ==
  /\ pc[c] = "querying" /\ ready
  /\ pc' = [pc EXCEPT ![c] = "idle"]
  /\ req' = [req EXCEPT ![c] = EmptyRequest]
  /\ claim' = [claim EXCEPT ![c] = {}]
  /\ UNCHANGED <<handlerVars, unitVars, loopVars>>

CallerStep(c) ==
  \/ \E r \in Requests : UpdateCall(c, r)
  \/ UpdateReturn(c)
  \/ GetStatusCall(c)
  \/ GetStatusReturn(c)

-----------------------------------------------------------------------------
(***************************************************************************)
(* The process dies (LOG(FATAL), an exception nobody catches, a kill) and  *)
(* systemd starts it again.  Callers get an RPC error; nothing was stored. *)
(***************************************************************************)
Restart ==
  /\ acState' = InitialAcState /\ errorRead' = FALSE /\ loginRead' = TRUE
  /\ ready' = FALSE
  /\ lastFrame' = EmptyControllerFrame
  /\ shutdown' = FALSE
  /\ loop' = "check"
  /\ inbox' = NoFrame
  /\ owner' = [o \in Owners |-> "running"]
  /\ pc' = [c \in Callers |-> "idle"]
  /\ req' = [c \in Callers |-> EmptyRequest]
  /\ claim' = [c \in Callers |-> {}]
  /\ UNCHANGED unitVars

CrashAndRestart == "crash" \in LineEvents /\ Restart

-----------------------------------------------------------------------------
\* Shutdown.  The test and the setting of the flag are two steps.
ShutdownTest(o) ==
  /\ owner[o] = "running" /\ ~shutdown
  /\ owner' = [owner EXCEPT ![o] = "tested"]
  /\ UNCHANGED <<handlerVars, unitVars, callerVars,
                 ready, lastFrame, shutdown, loop, inbox>>

\* LOG(FATAL) << "already shut down."
ShutdownAgain(o) ==
  /\ owner[o] = "running" /\ shutdown
  /\ Restart

ShutdownSet(o) ==
  /\ owner[o] = "tested"
  /\ owner' = [owner EXCEPT ![o] = "joining"]
  /\ shutdown' = TRUE
  /\ UNCHANGED <<handlerVars, unitVars, callerVars,
                 ready, lastFrame, loop, inbox>>

\* Plausible bug: the thread is not joined.
ShutdownJoin_NoWait(o) ==
  /\ owner[o] = "joining" /\ \A p \in Owners : owner[p] # "joined"
  /\ owner' = [owner EXCEPT ![o] = "joined"]
  /\ UNCHANGED <<handlerVars, unitVars, callerVars,
                 ready, lastFrame, shutdown, loop, inbox>>

ShutdownJoin(o) ==
  /\ owner[o] = "joining" /\ loop = "done"
  /\ \A p \in Owners : owner[p] # "joined"
  /\ owner' = [owner EXCEPT ![o] = "joined"]
  /\ UNCHANGED <<handlerVars, unitVars, callerVars,
                 ready, lastFrame, shutdown, loop, inbox>>

\* Joining a thread that another one joins or has joined throws system_error.
ShutdownJoinFails(o) ==
  /\ owner[o] = "joining"
  /\ \E p \in Owners \ {o} : owner[p] \in {"joining", "joined"}
  /\ Restart

OwnerStep(o) ==
  ShutdownTest(o) \/ ShutdownAgain(o) \/ ShutdownSet(o) \/ ShutdownJoin(o) \/ ShutdownJoinFails(o)

-----------------------------------------------------------------------------
(***************************************************************************)
(* The unit's side changes settings on its own.  A claim on them survives  *)
(* only if the copy still holds an unsent change: its write will win.      *)
(***************************************************************************)
UnitChanged(fs) ==
  /\ claim' = IF acState.merged THEN Drop(fs) ELSE claim
  /\ UNCHANGED <<handlerVars, loopVars, pc, req>>

RemoteStep ==
  /\ UNCHANGED nextQuery
  /\ \E setting \in DOMAIN Remote : \E v \in Remote[setting] :
       RemoteSet(setting, v) /\ UnitChanged(Fields \cap {setting})

UnitFault ==
  /\ "errorBit" \in LineEvents
  /\ ToggleErrorBit
  /\ UnitChanged({})
  /\ UNCHANGED nextQuery

UnitPowerCycle ==
  /\ "powerCycle" \in LineEvents
  /\ PowerOn
  /\ UnitChanged(Fields)

Next ==
  \/ LoopCheck \/ ReadFrame \/ ReadOtherDevice \/ ReadNothing \/ LoopHandle
  \/ \E c \in Callers : CallerStep(c)
  \/ \E o \in Owners : OwnerStep(o)
  \/ RemoteStep \/ UnitFault \/ UnitPowerCycle \/ CrashAndRestart

Spec == Init /\ [][Next]_vars

(***************************************************************************)
(* The threads of the process keep running: the loop, whose read returns   *)
(* something or nothing after 0.3 s, and a Shutdown that passed its test.  *)
(* What comes over the line is left open; it may stay silent for ever.     *)
(***************************************************************************)
ThreadFairness ==
  /\ WF_vars(LoopCheck)
  /\ WF_vars(ReadFrame \/ ReadOtherDevice \/ ReadNothing)
  /\ WF_vars(LoopHandle)
  /\ \A o \in Owners : /\ WF_vars(ShutdownSet(o))
                       /\ WF_vars(ShutdownJoin(o) \/ ShutdownJoinFails(o))

ThreadSpec == Spec /\ ThreadFairness

(***************************************************************************)
(* And a unit at the other end repeats its frame: again and again one gets *)
(* through, and so does a reply; a caller whose condition stays true is    *)
(* woken.                                                                  *)
(***************************************************************************)
Fairness ==
  /\ ThreadFairness
  /\ SF_vars(ReadFrame)
  /\ SF_vars(HandleAndReply)
  /\ \A c \in Callers : WF_vars(UpdateReturn(c) \/ GetStatusReturn(c))

FairSpec == Spec /\ Fairness

-----------------------------------------------------------------------------
(***************************************************************************)
(* Safety.                                                                 *)
(***************************************************************************)
\* ready_ never releases a caller while the copy holds a change that was not
\* sent: "method will block until values are changed", controller.h:38.
ReadyImpliesMerged == ready => acState.merged

\* Why ready_ is right when no reply is lost: the unit sends a LOGIN or ERROR
\* register only on the last reply's request, so the same query is never sent
\* twice in a row and two equal replies are two equal STATUS answers.
LoginAnsweredOnce == lastFrame.login => lastFrame.query = "STATUS"

UnitFollowsQuery ==
  \/ lastFrame = EmptyControllerFrame
  \/ /\ nextQuery \in {"STATUS", lastFrame.query}
     /\ loop = "handle" /\ Addressed(inbox) => inbox.type \in {"STATUS", lastFrame.query}

QueriesNotRepeated ==
  /\ loginRead => lastFrame.query # "LOGIN"
  /\ errorRead => lastFrame.query # "ERROR"

HandshakeInv ==
  /\ LoginAnsweredOnce
  /\ UnitFollowsQuery
  /\ QueriesNotRepeated
  /\ ~acState.swingStep
  /\ ReadyImpliesMerged

\* What a claim means while the RPC waits: the copy holds the value; once the
\* write went out the unit holds it too, and so does the next frame it sends.
ClaimInv ==
  \A c \in Callers : \A f \in claim[c] :
    /\ pc[c] \in {"updating", "querying"}
    /\ f = "temperature" => req[c].setpoint \in Temperatures
    /\ Holds(acState, req[c], f)
    /\ acState.merged =>
         /\ Holds(status, req[c], f)
         /\ loop = "handle" /\ Addressed(inbox) /\ inbox.type = "STATUS" =>
              Holds(inbox.status, req[c], f)

\* When Update returns, each setting it asked for is on the unit, unless a
\* later request, the remote or the FAN mode took that setting over.
UpdateReachesUnit ==
  ready => \A c \in Callers : \A f \in claim[c] : Holds(status, req[c], f)

\* Update and the GetStatus behind it are two critical sections; the RPC still
\* answers with the caller's own values unless someone took them over.
UpdateReportsOwnValues ==
  \A c \in Callers : pc[c] = "querying" /\ ready =>
    LET answer == Response(acState) IN
      /\ "enabled" \in claim[c] => (answer.mode = "OFF" <=> req[c].mode = "OFF")
      /\ {"enabled", "mode"} \subseteq claim[c] => answer.mode = req[c].mode
      /\ "fan" \in claim[c] => answer.fan = req[c].fan
      /\ "temperature" \in claim[c] => answer.setpoint = req[c].setpoint

\* Some caller waits in an Update that changes a setting.
WaitingChange == \E c \in Callers : pc[c] = "updating" /\ Touched(req[c]) # {}

\* The copy differs from what was sent only while some Update that changed it
\* is blocked: no request leaves an unsent change behind, none writes twice.
UnsentChangeHasWaiter == ~acState.merged => WaitingChange

\* The controller asks for the LOGIN register "only at the begging of
\* communication" (handler.cc:63): not while the copy says it is registered.
NoLoginOnceRegistered ==
  [][acState.controllerPresent /\ acState'.controllerPresent
       /\ lastFrame' # lastFrame => lastFrame'.query # "LOGIN"]_vars

Settings == Fields \cup {"economy", "swing"}

\* FAN mode has no setpoint and no economy: a payload built in it carries
\* neither (fuji_ac_state.cc:92) and the unit goes to 18 degrees.
LostInFan == {"temperature", "economy"}

\* "Fields that are left not-set will maintain the current value", proto:57,
\* over any number of calls, crashes and restarts of the server.  A setting on
\* the unit changes only if some waiting request asked for it, but for
\*   - setpoint and economy, which FAN mode drops (run fan), and
\*   - an Update that came before the copy knew the unit (run early).
\* So a server that starts and that nobody asks for a change writes nothing,
\* its defaults included.  Remotes and power cycles are left out.
UnsetFieldsKept ==
  [][\A f \in Settings : status'[f] # status[f] =>
       \/ \E c \in Callers : f \in claim[c]
       \/ f \in LostInFan /\ "FAN" \in {status.mode, status'.mode}
       \/ ~acState.controllerPresent /\ WaitingChange]_vars

\* The same sentence for a copy that knows the unit, without the exception for
\* FAN mode: it fails when a request asks for that mode and no setpoint.
UnsetFieldsKeptInFan ==
  [][acState.controllerPresent =>
       \A f \in Settings : status'[f] # status[f] => \E c \in Callers : f \in claim[c]]_vars

\* The same sentence without the knowledge of the copy: it fails when Update
\* is called before the first STATUS frame was merged.
UnsetFieldsKeptFromStart ==
  [][\A f \in Fields : status'[f] # status[f] => \E c \in Callers : f \in claim[c]]_vars

\* "This method will block until values are changed" (controller.h:38), for
\* the setpoint and a single caller nobody disturbs.
UpdateChangesSetpoint ==
  \A c \in Callers : pc[c] = "querying" /\ req[c].setpoint # 0 =>
    status.temperature = req[c].setpoint

\* An ERROR register is not answered (handler.cc:58) and the unit repeats the
\* register last asked for (unit_sim.cc:46): an ERROR query that arrives ends the
\* exchange.  No update and no restart of the server brings it back, only a
\* power cycle of the unit.
ErrorQueryEndsExchange ==
  [][nextQuery = "ERROR" =>
       \/ UnitPowerCycle
       \/ nextQuery' = "ERROR" /\ ~HandleAndReply /\ ~HandleAndLoseReply]_vars

\* The join in Shutdown waits for the last frame: once it has returned, no
\* frame is read, handled or answered until the process is started again.
QuietAfterJoin ==
  [][\A o \in Owners : owner[o] = "joined" /\ owner'[o] = "joined" =>
       UNCHANGED <<loop, inbox, lastFrame>>]_vars

\* "If error bit is set, set the flag and query for Error register next cycle"
\* (handler.cc:146): the frame that raises the flag says so.  The code raises it
\* for a bit that was cleared, too.
ErrorReadOnlyWhenSet ==
  [][errorRead' /\ ~errorRead => inbox.status.error]_vars

-----------------------------------------------------------------------------
(***************************************************************************)
(* The controller is a write-back cache: FujiAcWriteBack with the frame in *)
(* hand as what was seen, and the callers blocked in Update as waiting.    *)
(***************************************************************************)
View(s) ==
  [enabled |-> s.enabled, mode |-> s.mode, fan |-> s.fan, economy |-> s.economy,
   temperature |-> s.temperature, swing |-> s.swing]

StatusInHand == loop = "handle" /\ Addressed(inbox) /\ inbox.type = "STATUS"

WriteBack == INSTANCE FujiAcWriteBack WITH
  unit <- View(status),
  copy <- View(acState),
  unsent <- ~acState.merged,
  seen <- IF StatusInHand THEN {View(inbox.status)} ELSE {},
  waiting <- {c \in Callers : pc[c] = "updating"},
  Lossy <- "replyLost" \in LineEvents

\* Logins, error queries, other devices and the ready_ heuristic do not show:
\* each step is a step of the cache or none.  A lossy line costs the write and
\* the caller's wait for it; the copy still never loses a change it holds.
ImplementsWriteBack == WriteBack!Spec

\* Loop, callers and owners do not show; what does is that a frame is answered
\* at most once, before the next, and unchanged.
Exchange == INSTANCE FujiAcFrameExchange WITH
  frame <- IF loop = "handle" /\ Addressed(inbox) THEN {Content(inbox)} ELSE {}

ImplementsExchange == Exchange!Spec

-----------------------------------------------------------------------------
(***************************************************************************)
(* Liveness, for behaviours in which the world leaves the pair alone from  *)
(* some point on: ready_ is reset by every Update, and each change of the  *)
(* status makes the next reply differ from the last.                       *)
(***************************************************************************)
WorldChange == RemoteStep \/ UnitFault \/ UnitPowerCycle \/ CrashAndRestart

NewUpdate == \E c \in Callers, r \in Requests : UpdateCall(c, r)

EventuallyUndisturbed == <>[][~(WorldChange \/ NewUpdate)]_vars

\* Every Update and GetStatus returns.
CallsReturn == EventuallyUndisturbed => \A c \in Callers : []<>(pc[c] = "idle")

\* The copy and the unit agree again, whatever was lost or raced before.
CopyConverges ==
  EventuallyUndisturbed =>
    <>[](acState.merged /\ \A f \in Settings : acState[f] = status[f])

\* The controller ends up registered with the unit.
UnitRegistersController ==
  EventuallyUndisturbed => <>[](status.controllerPresent /\ acState.controllerPresent)

\* Shutdown returns, whatever the line does, silence included: the read ends
\* after 0.3 s.  Or the process ends (a second Shutdown), and is started again.
ShutdownReturns ==
  \A o \in Owners : owner[o] \in {"tested", "joining"} ~> owner[o] \in {"joined", "running"}
==============================================================================
