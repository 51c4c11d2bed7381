--------------------------- MODULE FujiAcSerialLine ---------------------------
(***************************************************************************)
(* controller/fuji_ac_serial_reader.cc between the protocol handler and    *)
(* the AC unit, byte by byte.  The unit's frame travels over the wire, its *)
(* bytes reach the tty's receive buffer in chunks, a read takes what is    *)
(* there, up to eight bytes, and drops what is less than a frame.          *)
(***************************************************************************)
EXTENDS FujiAcProtocolHandler, FujiAcUnitRegisters

CONSTANTS
  User,      \* the values the user gives to settings of the copy
  Chunks,    \* how many bytes may arrive at once
  Faults,    \* the unit may set its error bit
  KeepsUp,   \* the unit sends only when the last frame was read or dropped
  Echo,      \* what is written to the wire is read back
  MaxRx      \* bound: bytes in the receive buffer

ASSUME UserAssumption ==
  User \in [enabled : SUBSET BOOLEAN, mode : SUBSET Modes, fan : SUBSET Fans,
           economy : SUBSET BOOLEAN, temperature : SUBSET Byte,
           swing : SUBSET BOOLEAN, swingStep : SUBSET BOOLEAN]
ASSUME SerialAssumption ==
  /\ 8 \in Chunks /\ Chunks \subseteq 1..8
  /\ Faults \in BOOLEAN /\ KeepsUp \in BOOLEAN /\ Echo \in BOOLEAN /\ MaxRx \in Nat

VARIABLES
  wire,       \* bytes on their way to the controller
  rx,         \* the tty's receive buffer
  loop,       \* "read" or "handle": where DoLoop is
  inbox,      \* the frame ReadMasterFrame returned, while it is handled
  lastSent    \* history: the last frame the unit sent

lineVars == <<wire, rx, loop, inbox, lastSent>>
vars == <<handlerVars, unitVars, lineVars>>

LineTypeOK ==
  /\ HandlerTypeOK
  /\ statusRegister \in Frames /\ nextQuery \in RegisterTypes
  /\ wire \in Seq(Byte) /\ rx \in Seq(Byte)
  /\ loop \in {"read", "handle"}
  /\ inbox \in Frames \cup {<<>>} /\ lastSent \in Frames \cup {<<>>}

Init ==
  /\ HandlerInit
  /\ UnitInit
  /\ wire = <<>> /\ rx = <<>>
  /\ loop = "read" /\ inbox = <<>>
  /\ lastSent = <<>>

-----------------------------------------------------------------------------
CaughtUp == rx = <<>> /\ loop = "read"

UnitSends ==
  /\ wire = <<>> /\ (KeepsUp => CaughtUp) /\ Len(rx) + 8 <= MaxRx
  /\ GetNextMasterFrame
  /\ lastSent' = NextFrame
  /\ wire' = Inverted(NextFrame)
  /\ UNCHANGED <<handlerVars, rx, loop, inbox>>

\* The next n bytes reach the receive buffer.
Deliver(n) ==
  /\ n <= Len(wire)
  /\ rx' = rx \o SubSeq(wire, 1, n)
  /\ wire' = SubSeq(wire, n + 1, Len(wire))
  /\ UNCHANGED <<handlerVars, unitVars, loop, inbox, lastSent>>

\* The next byte is lost, or the rest of what is on the wire.
Lose ==
  /\ wire # <<>>
  /\ wire' \in {Tail(wire), <<>>}
  /\ UNCHANGED <<handlerVars, unitVars, rx, loop, inbox, lastSent>>

\* Plausible bug: whatever was read is taken for a frame.
ReadMasterFrame_AnyLength ==
  /\ loop = "read" /\ rx # <<>>
  /\ inbox' = Inverted(SubSeq(rx, 1, IF Len(rx) < 8 THEN Len(rx) ELSE 8))
  /\ rx' = SubSeq(rx, 9, Len(rx))
  /\ loop' = "handle"
  /\ UNCHANGED <<handlerVars, unitVars, wire, lastSent>>

ReadMasterFrame ==
  /\ loop = "read" /\ Len(rx) >= 8
  /\ inbox' = Inverted(SubSeq(rx, 1, 8))
  /\ rx' = SubSeq(rx, 9, Len(rx))
  /\ loop' = "handle"
  /\ UNCHANGED <<handlerVars, unitVars, wire, lastSent>>

\* Plausible bug: what is missing of a frame is waited for.
SkipIncomplete_Waits ==
  /\ loop = "read" /\ Len(rx) \in 1..7 /\ wire # <<>>
  /\ UNCHANGED vars

\* Fewer than eight bytes: they are dropped, the read returns nullopt.
SkipIncomplete ==
  /\ loop = "read" /\ Len(rx) \in 1..7
  /\ rx' = <<>>
  /\ UNCHANGED <<handlerVars, unitVars, wire, loop, inbox, lastSent>>

-----------------------------------------------------------------------------
\* The bytes of the handler's answer to mf, in the order the four Send methods
\* fill them in.
ReplyBytes(mf) ==
  LET cf == Reply(mf)
      copy == IF mf.type = "LOGIN" THEN acState ELSE Merged(mf)
      head == WithWriteBit(WithLoginBit(WithQueryRegister(EmptyFrame, cf.query), cf.login), cf.write)
  IN  IF cf.query = "STATUS" THEN WithPayload(head, StatusPayload(copy)) ELSE head

HandleInbox(mf) ==
  /\ HandleMasterFrame(mf)
  /\ loop' = "read" /\ inbox' = <<>>
  /\ UNCHANGED <<rx, lastSent>>

HandleWithoutReply ==
  /\ loop = "handle"
  /\ \E mf \in {MasterFrame(inbox)} : ~Replies(mf) /\ HandleInbox(mf)
  /\ UNCHANGED <<unitVars, wire>>

\* WriteControllerFrame; the unit takes the reply or misses it.
HandleAndReply ==
  /\ loop = "handle"
  /\ \E mf \in {MasterFrame(inbox)} : \E f \in {ReplyBytes(mf)} :
       /\ Replies(mf) /\ HandleInbox(mf)
       /\ PushControllerFrame(f) \/ UNCHANGED unitVars
       /\ wire' = IF Echo THEN wire \o Inverted(f) ELSE wire

\* A setter of FujiAcState, called by the user between two frames.
UserStep ==
  /\ \E setting \in DOMAIN User : \E v \in User[setting] :
       acState' = [acState EXCEPT ![setting] = v, !.merged = FALSE]
  /\ UNCHANGED <<errorRead, loginRead, unitVars, lineVars>>

RemoteStep ==
  /\ \E setting \in DOMAIN Remote : \E v \in Remote[setting] : RemoteSet(setting, v)
  /\ UNCHANGED <<handlerVars, lineVars>>

UnitFault ==
  /\ Faults /\ ErrorAppears
  /\ UNCHANGED <<handlerVars, lineVars>>

\* The process starts again in the middle of a frame; opening the tty clears it.
Restart ==
  /\ acState' = InitialAcState /\ errorRead' = FALSE /\ loginRead' = TRUE
  /\ rx' = <<>> /\ loop' = "read" /\ inbox' = <<>>
  /\ UNCHANGED <<unitVars, wire, lastSent>>

DeliverSome == \E n \in Chunks : Deliver(n)

Next ==
  \/ UnitSends \/ DeliverSome \/ Lose
  \/ ReadMasterFrame \/ SkipIncomplete \/ HandleWithoutReply \/ HandleAndReply
  \/ UserStep \/ RemoteStep \/ UnitFault \/ Restart

Spec == Init /\ [][Next]_vars

\* The unit repeats its frame, what is on the wire arrives or is lost, and the
\* loop thread runs.  Again and again a frame arrives in one piece, and the
\* loop reads it before the process ends.
FairSpec ==
  /\ Spec
  /\ WF_vars(UnitSends \/ DeliverSome \/ Lose)
  /\ WF_vars(SkipIncomplete \/ HandleWithoutReply \/ HandleAndReply)
  /\ SF_vars(Deliver(8)) /\ SF_vars(ReadMasterFrame)

-----------------------------------------------------------------------------
\* "Processes data from main unit" (handler.h:44): a frame addressed to the
\* controller is, to the byte, the last one the unit sent, although frames come
\* in chunks, lose bytes, are cut by a restart and share the wire with replies.
WholeFramesOnly ==
  loop = "handle" /\ Addressed(MasterFrame(inbox)) => inbox = lastSent

\* The unit's bytes and the handler's bytes mean what the record modules say:
\* the frame sent, the reply taken, the remote's change and the fault are steps
\* of FujiAcUnitSim, the temperature's spill into the economy bit included.
BytesMeanRecords ==
  [][/\ UnitSends => /\ Sim!GetNextMasterFrame
                     /\ Addressed(MasterFrame(lastSent'))
                     /\ MasterFrame(lastSent').type = Sim!NextMasterFrame.type
                     /\ Sim!SendsStatus =>
                          MasterFrame(lastSent').status = Sim!NextMasterFrame.status
     /\ HandleAndReply =>
          /\ ControllerFrame(ReplyBytes(MasterFrame(inbox))) = Reply(MasterFrame(inbox))
          /\ Sim!PushControllerFrame(Reply(MasterFrame(inbox))) \/ UNCHANGED unitVars
     /\ RemoteStep =>
          \E setting \in DOMAIN Remote : \E v \in Remote[setting] :
            Sim!RemoteSet(setting, v)
     /\ UnitFault => Sim!ToggleErrorBit \/ UNCHANGED unitVars]_vars

\* The unit's last frame, all of it on wire and in the buffer, or in hand.
FrameUnderWay == lastSent # <<>> /\ rx \o wire = Inverted(lastSent)

FrameInHand == loop = "handle" /\ Addressed(MasterFrame(inbox))

Exchange == INSTANCE FujiAcFrameExchange WITH
  status <- R!Decoded(Payload(statusRegister)),
  frame <- IF FrameUnderWay \/ FrameInHand THEN {Sim!Content(MasterFrame(lastSent))} ELSE {}

\* Bytes, chunks, losses, echoes and short reads do not show: a frame of the
\* unit arrives whole and once or not at all, and is answered before the next.
ImplementsExchange == Exchange!Spec

\* A torn or lost frame is not the end: again and again a frame of the unit is
\* handled, whatever the line lost and whenever the process was restarted.
FramesGetThrough == []<>(loop = "handle" /\ inbox = lastSent)
==============================================================================
