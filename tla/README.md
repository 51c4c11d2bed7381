# fuji-iot in TLA+

fuji-iot is a virtual wired controller for Fujitsu air conditioners. A gRPC
server talks to the AC unit over a single-wire serial bus at 500 baud and lets
callers read and change mode, fan and setpoint. This directory holds TLA+ models
of its protocol, its concurrency, its bytes and its start, TLC configurations
that check them on small instances, and TLAPS proofs of the safety properties
for every value of the constants.

To check a run: `tlc -config MCcore.cfg MCFujiAcController`. The modules of the other
configurations are in the table of section 3. To check a proof: `tlapm FujiAcControllerProofs.tla`,
likewise for every module whose name ends in `Proofs`.

## 1. The system

| component | state | operations | correct if |
|---|---|---|---|
| `FujiAcState` (protocol/fuji_ac_state) | the copy of the unit's settings, `merged_` | setters, `BuildStatusRegisterResponse`, `MergeFromMasterStatusRegister` | a built payload fits its bits; a merge changes all but the swing step |
| `FujiAcProtocolHandler` | the copy, `error_read_`, `login_read_` | `HandleMasterFrame` | user changes win over the unit's data, go out completely and once; queries follow the bits that ask for them |
| `FujiAcController` | `ready_`, `last_frame_`, `shutdown_`, `mu_`, the loop thread | `Update`, `GetStatus`, `DoLoop`, `Shutdown` | a call returns only when what it asked for is on the unit, and it does return |
| server (fuji_ac_server) | a controller, a unit or a serial reader | RPCs `Update` (= Update, then GetStatus), `GetStatus`; `RunServer` | the answer shows the caller's own change; one server drives the unit |
| AC unit (sim/fuji_ac_unit_sim) | STATUS register, register to send next | `GetNextMasterFrame`, `PushControllerFrame`, remote setters | it is the other side of the protocol |
| serial reader | an open, locked tty with 0.3 s timeout | `Build`, `ReadMasterFrame`, `WriteControllerFrame` | only whole frames are handled, whatever the line does |
| frames and registers | bytes | bit-field getters and setters | fields do not disturb each other, getters read what setters wrote |
| client (fuji_ac_controller_client) | none | one Update from its flags | it sends what the flags say |
| service unit (debian/fuji-ac.service) | none | restarts the server | the service comes back |
| printing, tests, installation, build, hardware | none | | |

**How they interact.** The unit sends a master frame; the loop thread reads it
without a lock, then takes `mu_`, lets the handler merge it and build a reply,
compares that reply with the last one, writes it and lets go of `mu_`. Every gRPC
call runs on a thread of its own: `Update` takes `mu_`, resets `ready_`, changes the
copy and waits for `ready_`. Copy and handler are shared between these threads
under `mu_`; the unit also changes its own settings when its infrared remote is
used. `ready_` is a heuristic: two equal replies in a row mean "stable". Before all
that, `Build` opens the tty, locks it, sets its attributes, its speed and its mode, and
the loop starts before the port is bound.

**What is hard.** Callers share one `ready_` flag and one copy. The frame in hand was
read before the lock was taken. Login and error queries get in between a change and
its write. A write is treated as delivered when it is built. A write carries the
whole copy. The server and the unit restart independently of each other. `Shutdown` tests and
sets its flag in two steps. The line has no checksum and no frame mark: a frame is
eight bytes that arrive without a pause. The reader hears its own replies. Tty attributes belong to the
device and not to the process that set them. The `hazards` of `PROJECT.json` list each of these at its line.

## 2. Modules

| module | models | how |
|---|---|---|
| `FujiTypes` | enumerations, STATUS register, frames | sets of records of the decoded fields |
| `FujiAcState` | `FujiAcState` | operators on the record: the setters, the payload, the merge |
| `FujiAcProtocolHandler` | `FujiAcProtocolHandler` | `HandleMasterFrame` = five actions, one per way through the function: `IgnoreFrame`, `AnswerLogin`, `QueryLogin`, `QueryError`, `AnswerStatus`; `Reply` is the frame returned |
| `FujiAcUnitSim` | the unit | `GetNextMasterFrame`, `PushControllerFrame`, `RemoteSet` for all setters, and two things only a real unit does: `PowerOn`, `ToggleErrorBit` |
| `FujiAcControllerClient` | the client | `BuildRequest`: flags to request; the requests of some runs come from it |
| `FujiAcController` | controller, RPCs, line, composed with handler and unit | below |
| `FujiAcWriteBack` | what the controller promises | abstract: a write-back cache of the unit's settings |
| `FujiAcFrameExchange` | what the line promises handler and unit | abstract: a frame of the unit is handled at most once, before the next, or not at all |
| `FujiAcHandlerSession` | the handler alone, with a unit that may send any frame and a user of the shared copy | reaches what the composition cannot: swing step, frames the simulator never sends |
| `FujiStatusRegister`, `FujiFrame` | fuji_register, fuji_frame | getters and setters as arithmetic on five and eight bytes; `StatusPayload` |
| `FujiAcUnitRegisters` | the unit, with the bytes of its registers | the methods of `FujiAcUnitSim` on bytes; `Sim` is the instance of the record module under the decoding |
| `FujiAcSerialLine` | reader, tty buffer and wire, composed with handler and byte-level unit | below |
| `FujiAcServerStart` | `RunServer` and `Build` of several processes, systemd | below |
| `MCFujiAc...` | | constants for TLC |
| `FujiAc...Proofs` | | theorems and lemmas, section 4 |

Composition: `FujiAcController` = handler + unit on records, whole frames. `FujiAcSerialLine`
= handler + unit on bytes, frames cut and lost. Both implement `FujiAcFrameExchange`, so what one of them says of
handler and unit is about the same exchange as what the other says. `FujiAcServerStart` gives both the
assumption that one loop reads a tty that is set up.

### `FujiAcController`

* Loop thread: `LoopCheck` (`while (!shutdown_)`); `ReadFrame`, `ReadOtherDevice` or
  `ReadNothing` (what `ReadMasterFrame` returns, no lock held); `LoopHandle`, everything
  under `mu_` in one step. `loop` is the position, `inbox` the frame in hand.
* Caller `c`: `UpdateCall` is `Update` up to its `Await`, in one step because `mu_` is held;
  `UpdateReturn` is the end of the `Await`; `GetStatusCall`, `GetStatusReturn` likewise. `pc[c]`
  is `updating` or `querying` while it waits. The Update RPC passes through both. `Response` is the answer.
* Owners: threads that call `Shutdown`. `ShutdownTest` and `ShutdownSet` are two steps, since `shutdown_` is
  tested and set without `mu_`. `ShutdownAgain` is the `LOG(FATAL)` behind the test, `ShutdownJoinFails` the exception of a second
  `join`: both end the process, and systemd starts it again.
* World: the remote, a fault bit, a power cycle of the unit, and a crash of the server
  with systemd's restart. `LineEvents` says which of them a run allows.
* `claim[c]` is a history variable and guards nothing: the settings caller `c` may still
  rely on. An `Update` claims what it sets (if seven bits can carry it). Others take
  claims away: a later `Update` of the same setting, the remote or a power cycle while the
  copy holds no unsent change, and FAN mode, in which the unit takes no setpoint.

The unit's `status` changes with the write in the same step as the handler's, because the unit speaks
again only after it has seen or missed the reply. The remote may act between any two steps. `UpdateMagic`
and the content of the ERROR and LOGIN registers are left out here: the handler reads neither. The byte-level unit has them.

### `FujiAcWriteBack` and the refinement

The abstract specification has five variables: the unit's settings, the copy, whether the copy holds an unsent change,
what a frame in hand says of the unit, and who waits. `Change`, `Release`, `See`, `Fetch`, `Discard`, `WriteBack`, `LoseWrite`, `UnitStep`, `Restart`
are all that may happen: an unsent change is never fetched over, one write carries the whole copy, a caller
is released only when nothing is unsent, and what was seen before a write is not fetched after it. `FujiAcController` implements it
(`ImplementsWriteBack`) with `View` of copy and unit, `~merged_`, the STATUS frame in hand, and the callers
blocked in `Update`. Logins, error queries, other devices and `ready_` map to stutters. `Lossy` maps to "the line may lose a
reply". Then, and only then, a write may be lost, the copy taking it for sent, and a caller may be released
before its change is written, because a lost reply to the unit's repeated frame is sent again and looks like a stable state (run `lost` shows one). Nothing else changes: even a lossy line
brings no old setting back and writes no part of a copy.

### `FujiAcFrameExchange`

Handler and unit on records, and at most one `frame` between them. `Send` replaces what was sent before, `Answer` handles the frame
and uses it up, with or without the unit taking the reply, `Discard` is a frame lost, cut or for another device. A frame of the unit is
therefore never handled twice, never after its successor, and never changed. `FujiAcController` and `FujiAcSerialLine` implement it (`ImplementsExchange` in both):

* The controller: `frame` is `inbox` while it holds a frame addressed to the controller. A call is `UserChange`.
* The line: `frame` is the unit's last frame as long as reader, buffer and wire together hold exactly its bytes (`FrameUnderWay`)
  or the loop has it in hand (`FrameInHand`); `status` is what the unit's registers decode to. Chunks, short reads, echoes and lost bytes are stutters or `Discard`.

`Content` drops from a frame that is not STATUS the STATUS register's data, which nobody reads.

### `FujiAcSerialLine`

`UnitSends` puts eight inverted bytes on `wire`, `Deliver(n)` moves n of them to the tty's buffer `rx`, `Lose` drops one or all that are left.
`ReadMasterFrame` takes eight bytes when the buffer has them; `SkipIncomplete` is the short read, whose bytes
are dropped. `HandleWithoutReply` and `HandleAndReply` are the loop body; `ReplyBytes` builds the answer setter by
setter. With `Echo` the reader hears its own reply, since Rx and Tx are one wire. `KeepsUp` says that the unit sends only when the reader has taken or dropped
what came before: at 500 baud a frame lasts 160 ms and the unit pauses between frames,
while the read times out after 0.3 s. `lastSent` is history.

### `FujiAcServerStart`

Several server processes, the systemd service among them, some with `--sim`. `OpenTty`, `Lock`, `SetAttributes`,
`SetSpeed`, `SetBlocking` are the system calls of `Build` in order; attributes and speed are shared by all who
open the device, `O_NONBLOCK` and the lock belong to the open file. `StartController` starts the loop, `BuildAndStart` binds the port.
`LockFails` and `BuildFails` are the failures another server causes; every other failed call is `Crash`. Where another server has the port, gRPC may share it or refuse (a platform matter),
so `BuildFails` may or may not happen.

Operators named `X_Something` before a definition `X` are plausible bugs. They are not part of
the model: they show, put in place of `X`, that a property is sensitive to it.

## 3. What TLC checks

| run | module, bounds, distinct states | what it shows |
|---|---|---|
| `core` | `MCFujiAcController`; 2 callers (symmetric), 3 requests, remote (setpoint), no frame, other devices, power cycles, faults, crashes; 795,000 | `HandshakeInv`: why `ready_` means "sent" although it only compares replies. `ReadyImpliesMerged`, `UpdateReachesUnit`, `UpdateReportsOwnValues`: what callers get. `ClaimInv`: the inductive form of the latter two. `UnsentChangeHasWaiter`: no change is left unsent behind everybody's back. `ErrorQueryEndsExchange`: once the unit is at the ERROR register only its power cycle gets it away. `ImplementsWriteBack`: the refinement |
| `calls` | `MCFujiAcController`; 2 callers with requests of the client, FAN mode included, 2 threads that call Shutdown, no frame for ever, other devices, crashes; 330,000 | `UnsetFieldsKept`: from the start and over restarts no setting changes that no waiting request asked for, but for the setpoint in FAN mode and an Update before the first merged frame. `NoLoginOnceRegistered`. `ShutdownReturns` or ends the process, also on a silent line; `QuietAfterJoin`: nothing is sent after it. `TypeOK` |
| `live` | `MCFujiAcController`; 2 callers, lossy line, remote (mode), power cycles, crashes; 76,000 | `CopyConverges`, `UnitRegistersController`: after the last disturbance copy and unit agree and the controller is registered. `CallsReturn` once updates stop. `ImplementsWriteBack`, `ImplementsExchange`: the refinements where replies are lost |
| `session` | `MCFujiAcHandlerSession`; 8 frames (registered or not, error or not, all types, other device), all setters; 94,000 | `LocalChangeKept`, `WriteCarriesAllUnsent`, `WritesOnlyUserChanges`, `SwingStepSentOnce`, `SetErrorsQueried`, `UserChangesSent`; `SessionTypeOK` |
| `line` | `MCFujiAcSerialLine`; chunks of 4 and 8 bytes, losses, echo, a setpoint of 200, remote FAN mode, faults, restarts; 243,000 | `WholeFramesOnly`: what is handled as addressed to the controller is the unit's last frame, to the byte. `BytesMeanRecords`: the byte-level unit and handler do what the record modules say. `ImplementsExchange`: the refinement. `FramesGetThrough`; `LineTypeOK` |
| `start` | `MCFujiAcServerStart`; the service, a second server, one with `--sim`, 5 crashes, starts by hand or other programs; 2,300 | `OneMaster`: one loop at most is on the tty. `ReadsConfigured`: the tty it reads stays set up. `ServiceComesBack` |

Why the bounds are enough. Two callers give every interleaving of a change with one
other change, with the handshake and with a query; a third would only repeat the roles,
as callers share one flag and one copy, and the proofs cover any number. The requests are
chosen by what the code tells apart: empty, FAN mode (drops the setpoint), mode off, other mode,
fan, setpoint. The remote uses values no request of the run sets, so that a lost value shows. Chunks of 4 and
8 cut a frame into whole, short and complementary pieces; which bytes are in the pieces
does not matter to the reader, and the proof covers all chunks. `MaxRx` is what `KeepsUp` allows. `MaxEvents` bounds what may befall the servers;
the third server and the fifth event add no new interleaving with the service. No run uses a state constraint. Deadlock is checked in every run but
`start`: there a server that serves waits, the others are down, and the bound on events is used up.

Fairness.

* `FujiAcController`, `ThreadFairness`. The loop thread runs: weak fairness of `LoopCheck`, `LoopHandle` and of the read, which
  returns a frame or, after 0.3 s, nothing. A `Shutdown` that passed the test goes on, and `join` returns when the thread has ended: weak
  fairness per owner. Nothing is assumed of the line. `ThreadSpec` has no more than this, and `ShutdownReturns` is checked under it: the unit may never send again.
* `FujiAcController`, `Fairness`, for the liveness of calls. `ThreadFairness`, and: the unit repeats its frame for ever
  (fuji_ac_protocol_handler.h:37), so a read succeeds again and again, however often the line gives nothing: strong fairness of `ReadFrame`; the
  line does not lose every reply: strong fairness of `HandleAndReply`; `absl::Mutex::Await` wakes a waiter whose condition stays true: weak
  fairness per caller. Nothing is assumed of callers, remote, faults and crashes; liveness of calls is therefore stated for behaviours in which these stop at some time
  (`EventuallyUndisturbed`): each of them resets `ready_` or makes the next reply differ, so no such promise could hold without.
* `FujiAcHandlerSession`. The unit sends STATUS frames again and again; which ones stays open.
* `FujiAcSerialLine`. Unit, wire and loop thread go on: weak fairness. Again and again a frame arrives in one piece and the
  loop reads it before the process ends: strong fairness of `Deliver(8)` and `ReadMasterFrame`. Without it nothing gets through a line that cuts every frame.
* `FujiAcServerStart`. systemd restarts the service (`Restart=always`) and the kernel runs it; whoever started
  another server stops it some day. Crashes are bounded by `MaxEvents`.

### Where the code does not do what it says

Each has a run that TLC ends with a counterexample.

* `early` (`UnsetFieldsKeptFromStart`): an Update before the first merged STATUS frame writes the
  constructor's defaults (AUTO, off, fan AUTO, 20 degrees) for every field left out. "Fields that are left not-set
  will maintain the current value", controller.proto:57. After a restart with a client waiting, this
  turns the unit off.
* `fan` (`UnsetFieldsKeptInFan`): a request for FAN mode alone, `--mode fan` of the client, also changes the setpoint. The payload
  leaves it out, the unit goes to 18 degrees, the next merge takes them into the copy, and a later change of the mode writes them.
  The same sentence, controller.proto:57.
* `lost` (`UpdateReachesUnit` on a lossy line): the acknowledgement of a login is lost, the unit repeats the LOGIN register, the
  repeated acknowledgement equals the last reply and sets `ready_` (fuji_ac_controller.cc:141), and Update returns OK before its change was sent at all.
  "This method will block until values are changed", fuji_ac_controller.h:38.
* `wide` (`UpdateChangesSetpoint`): setpoint 200 becomes 72 degrees with the economy bit on,
  and Update returns OK. Only the client checks the range.
* `error` (`CallsReturn` with the error bit): the ERROR register is not answered, the unit (as
  sim/fuji_ac_unit_sim.cc:46 has it) repeats it, and waiting calls never return.
  No restart of the server and no call gets it going again, only a power cycle of the unit (`ErrorQueryEndsExchange`, run `core`, proved).
* `cleared` (`ErrorReadOnlyWhenSet`): the ERROR register is asked for when the error bit is cleared, too. "If error bit is set, set the flag and
  query for Error register next cycle", fuji_ac_protocol_handler.cc:146. In the trace this happens right after the power cycle that
  ended the fault: together with `error` it means that the server stops the exchange again, until a second power cycle or, before that, a restart of the server.

Seen while reading, without a run: a write takes back what the remote changed after the last merge (`FujiAcWriteBack` has this as its
`WriteBack`; the integration tests, "Controller takes precedence", cover only the field the request sets). The
client ignores a mode, fan or setpoint it does not know without a word, although
fuji_ac_controller_client.cc:33 says "If present, will change that property to flag value". A setpoint sent in FAN mode is dropped and Update still returns OK.
fuji_ac_state.h:42 describes `Merged()` the wrong way round. A write that is lost on the wire is taken for sent (fuji_ac_protocol_handler.cc:120):
Update returns OK and nothing changes. Two threads that call Shutdown can both pass its test and both join, where the test is there to stop the
second ("Class is thread-safe", fuji_ac_controller.h:34); the process ends then (`ShutdownJoinFails`), and `RunServer` never calls Shutdown. If the unit sends
before the reader has dropped the rest of a torn frame, eight bytes of two frames are handled as one (fuji_ac_serial_reader.cc:157; `FujiAcSerialLine` without `KeepsUp`).
Replies to LOGIN and the two queries carry no write, so "that modification will be reflected in
returned controller frame" (fuji_ac_protocol_handler.h:47) holds only for STATUS replies.

## 4. What is proved

For any set of callers, owners, requests, remote and user values, line events, chunks, frames and servers, from the named
assumptions on the constants (what they range over). "No reply lost" is `"replyLost" \notin LineEvents`; run
`lost` shows why `UpdateTakesEffect` needs it. `KeepsUp`: the unit sends only when the reader has taken or dropped what came before.

| module | theorem | says | assumes |
|---|---|---|---|
| `FujiAcControllerProofs` | `TypeCorrect` | `Spec => []TypeOK` | |
| | `HandshakeHolds` | `Spec => []HandshakeInv` | no reply lost |
| | `ReadyMeansSent` | `Spec => []ReadyImpliesMerged` | no reply lost |
| | `ClaimsHold` | `Spec => []ClaimInv` | no reply lost |
| | `UpdateTakesEffect` | `Spec => []UpdateReachesUnit` | no reply lost |
| | `UpdateAnswersOwnValues` | `Spec => []UpdateReportsOwnValues` | no reply lost |
| | `NoUnsentChangeLeft` | `Spec => []UnsentChangeHasWaiter` | no reply lost |
| | `NoSecondLogin` | `Spec => NoLoginOnceRegistered` | |
| | `NothingSentAfterShutdown` | `Spec => QuietAfterJoin` | |
| | `UnsetFieldsStay` | `Spec => UnsetFieldsKept` | `OnlyUpdatesSet` |
| | `ErrorQueryIsTheLastFrame` | `Spec => ErrorQueryEndsExchange` | |
| `FujiAcWriteBackProofs` | `ControllerIsWriteBackCache` | `Spec => ImplementsWriteBack` | |
| `FujiAcFrameExchangeProofs` | `ControllerExchangesFrames` | `Spec => ImplementsExchange` | |
| `FujiAcHandlerSessionProofs` | `SessionTypeCorrect` | `Spec => []SessionTypeOK` | |
| | `ErrorsAreQueried` | `Spec => []SetErrorsQueried` | |
| | `UserChangesTakePrecedence` | `Spec => LocalChangeKept` | |
| | `WritesCarryEverything` | `Spec => WriteCarriesAllUnsent` | |
| | `WritesHaveCause` | `Spec => WritesOnlyUserChanges` | |
| | `OneStepPerRequest` | `Spec => SwingStepSentOnce` | |
| `FujiAcSerialLineProofs` | `LineTypeCorrect` | `Spec => []LineTypeOK` | |
| | `FramesStayWhole` | `Spec => []WholeFramesOnly` | `KeepsUp` |
| | `BytesRefineRecords` | `Spec => BytesMeanRecords` | |
| | `LineExchangesFrames` | `Spec => ImplementsExchange` | `KeepsUp` |
| `FujiAcServerStartProofs` | `OneMasterOnTheWire` | `Spec => []OneMaster` | |
| | `LoopReadsConfiguredTty` | `Spec => []ReadsConfigured` | |

`FujiAcProtocolHandlerProofs` and `FujiAcUnitRegistersProofs` hold the lemmas of handler and codec that the others cite.

**Controller.** `ReadyImpliesMerged` is not inductive: a step sets `ready_` when two replies are equal,
and one must know what replies can be equal. A write cannot equal the reply before it and leave the copy
unsent unless it carried a swing step, which this controller never sets. A LOGIN query cannot equal
the last reply, because the flag that causes it is only raised again by a merged STATUS frame, and a STATUS
frame after a LOGIN query was read only if the unit is back at STATUS. `HandshakeInv` states just
that: `QueriesNotRepeated`, `UnitFollowsQuery`, `LoginAnsweredOnce`, no swing step. With it, a reply that
equals its predecessor is a STATUS answer and the copy is merged after it.

`UpdateReachesUnit` needs to follow a value through the exchange: it is in the copy; while
the copy is unsent nothing else can overwrite it but what takes the claim away; the write puts it on the unit;
and the frame in hand, which may be older than the write, must not bring the old value back. `ClaimInv` says that of every
claim: once the copy is merged, the unit and the STATUS frame in hand hold the value. It is inductive together with `TypeOK`.
With `HandshakeInv` (`ready => merged`) it gives `UpdateReachesUnit`; alone it gives
`UpdateReportsOwnValues`.

`UnsentChangeHasWaiter` is inductive with `HandshakeInv`: handling a frame never makes the copy unsent, a
request that touches nothing leaves the copy as it is, and a caller cannot leave while it is unsent.
`NoSecondLogin` rests on `LoginFlagInv` (the login flag is up only while the copy says "not registered"),
`NothingSentAfterShutdown` on `JoinInv` (joined means the loop has ended).

`UnsetFieldsStay` adds `KeepInv` to the handshake and the claims: the frame in hand is what the unit still holds, and a copy that came
from the unit differs from it only in claimed settings, or in the setpoint while the unit is in FAN mode. A write changes the unit only where the copy differs; a caller
that leaves takes its claims along, but by then (`ReadyImpliesMerged`, `ClaimInv`) copy and unit agree on them. A write from a copy that does not
know the unit yet has a caller waiting for it (`UnsentChangeHasWaiter`), so a server that starts writes none of its defaults unasked.
`OnlyUpdatesSet` excludes what breaks the sentence for other reasons: a remote and a power cycle change settings
themselves, a wide setpoint sets the economy bit (run `wide`). FAN mode and early Updates are in, as the exceptions the property names (runs `fan` and `early`).

`ErrorQueryIsTheLastFrame` rests on `SilentInv`: while the unit is at the ERROR register the loop has no frame in hand that it would
answer. The step that brings the unit there empties the hand, and what is read afterwards is an ERROR frame. No line is excluded, no restart, no call.

**Refinement.** `CacheStep` says that a step is one of the cache's actions or none. There is one lemma per group of actions: a call is
`Change`, its return `Release`, a read `See`, a handled frame `Fetch`, `Discard`, `WriteBack` or, if its reply is lost, `LoseWrite`.
The invariant is `CacheInv`: the copy asks for no swing step, and on a line that loses no reply `HandshakeInv` holds. So the theorem is
for every line; where no reply is lost `ReadyImpliesMerged` makes `Release` wait for the write.

**Exchange.** For the controller `TypeOK` is enough: the handler decides by `Content` alone (`ContentDecides`), what is in hand is what was read,
and handling empties the hand. For the line the proof is about bytes. From `LineInv` (eight bytes under way are the last frame or an echo),
a frame in hand is the last one sent (`WholeFramesOnly`), a read takes exactly what was under way (`ExchangeRead`), any lost or skipped byte leaves fewer than
eight, which are no frame and become none (`FrameKeptOrGone`), and what was handled is no longer under way (`HandledIsGone`). The codec lemmas below turn the byte-level unit and
reply into the records of the exchange (`SameHandler`, `SameUnit`). `KeepsUp` is needed for the same reason as for `FramesStayWhole`.

**Session.** `SessionInv` ties the history to the handler: what is unsent is exactly what makes the copy unmerged, but for
the frame that takes back a swing step (`followUp`); an error nobody asked about yet keeps the query due. The action properties then need one look at `Reply`.

**Bytes.** For every byte and every value that fits, each field of the register reads what was written and leaves the other fields of
its byte (`Byte1Fields` to `Byte4Fields`, `Set...Read`); the setpoint that does not fit sets the economy bit (`SetTemperatureSpills`).
From these, what the unit sends, takes and is set to by its remote is what the record module says (`SendMeans`, `NextFrameMeans`, `PushMeans`, `RemoteMeans`, `FaultMeans`), and the
reply's bytes decode to `Reply` (`ReplyBytesMean`). `TypeInv` is the only invariant needed.

**Line.** `WholeFramesOnly` holds because at most eight bytes are under way (`OneFrameAtMost`), and when they are eight they are one frame:
the unit's last one, or an echo, whose address no unit frame has (`FullMeansFrame`). Fewer than eight never make a
frame. While the loop handles a frame the line is quiet, so an echo starts on an empty line (`QuietWhileHandling`).

**Start.** `StartInv`: one process holds the lock, every process past `Lock` is that one, and each step of `Build` has left
what it set; other programs come in only while no server has the tty open.

Only model-checked: all liveness (`ShutdownReturns`, `CopyConverges`, `UnitRegistersController`, `CallsReturn`,
`UserChangesSent`, `FramesGetThrough`, `ServiceComesBack`), which is out of the prover's reach here: it rests on fairness of actions, and so on `ENABLED`.
Every invariant, action property and refinement of the passing runs is proved. On a line that loses replies
the theorems without "no reply lost" hold: types, the cache that may lose writes, the exchange, logins, shutdown, errors.

## 5. What is not modelled

* Damaged bytes. The line can lose bytes, not flip them: with no checksum a flipped bit is a different frame,
  and nothing in the code could tell (serial_reader.cc:85 says "Parity even", but the input parity check is off).
* Programs that ignore the advisory lock of another, and write on the tty while the loop runs.
* Times: 0.3 s, 60 s. A short read or a slow start is a possible step, not a duration.
* A partial write and a failed one are the same crash; a failed read too.
* Callers blocked while Shutdown runs stay blocked: the model has this, no property forbids it. `RunServer` never
  calls `Shutdown`; the order in which a service's members are destroyed never matters, because nothing destroys one.
* A mode or fan code outside the enumeration: the getters have it (`Named`), no unit of the models sends one.
* Data in the ERROR register and the temperature sensor (constants). The getters only printing uses (`UpdateMagic`, the unknown bit).
* Printing, tests, installation scripts, build, hardware: no state of the protocol. gRPC and systemd are external.

## 6. Plan

Done, in this order: `FujiTypes`, `FujiAcState`, `FujiAcProtocolHandler`, `FujiAcUnitSim`, `FujiAcController` with its
runs, type correctness and the two guarantees to callers; `FujiAcHandlerSession`; `FujiAcWriteBack` and the refinement, by TLC and by proof;
the codec and the unit on bytes; the line; the start; the proofs about session, codec, line and start;
the refinement on a lossy line; `FujiAcFrameExchange` and its two refinements.

Left: what a lossy line still promises a caller (its value is in the copy until a write is built or somebody takes it over), and the
reader's share of the line with two frames under way, where whole frames cannot be had.
