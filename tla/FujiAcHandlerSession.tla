------------------------- MODULE FujiAcHandlerSession -------------------------
(***************************************************************************)
(* The protocol handler alone, as its header offers it: an AC unit that    *)
(* may send any frame at any time, and a user of the shared FujiAcState    *)
(* who calls its setters between frames, the swing step included, which    *)
(* FujiAcController never uses.                                            *)
(***************************************************************************)
EXTENDS FujiAcProtocolHandler

CONSTANTS
  IncomingFrames,   \* the frames the main unit may send
  User              \* the values the user passes to each setter

ASSUME IncomingAssumption == IncomingFrames \subseteq MasterFrames
ASSUME UserAssumption ==
  User \in [enabled : SUBSET BOOLEAN, mode : SUBSET Modes, fan : SUBSET Fans,
           economy : SUBSET BOOLEAN, temperature : SUBSET Byte,
           swing : SUBSET BOOLEAN, swingStep : SUBSET BOOLEAN]

VARIABLES
  reply,       \* the frame the last step returned, if it returned one
  unsent,      \* history: settings the user set since the last write frame
  followUp,    \* history: the last write carried a swing step
  unasked      \* history: an error was seen and its register not asked for yet

historyVars == <<unsent, followUp, unasked>>
vars == <<handlerVars, reply, historyVars>>

UserSettings == {"enabled", "mode", "fan", "economy", "temperature", "swing",
                 "swingStep"}

NoReply == [EmptyControllerFrame EXCEPT !.query = "UNKNOWN"]

SessionTypeOK ==
  /\ HandlerTypeOK
  /\ reply \in ControllerFrames
  /\ unsent \subseteq UserSettings
  /\ followUp \in BOOLEAN /\ unasked \in BOOLEAN

Init ==
  /\ HandlerInit
  /\ reply = NoReply
  /\ unsent = {}
  /\ followUp = FALSE /\ unasked = FALSE

-----------------------------------------------------------------------------
IsStatus(mf) == Addressed(mf) /\ mf.type = "STATUS"

\* The frame tells the copy of an error it did not know of.
ShowsNewError(mf) ==
  IsStatus(mf) /\ Merges(mf) /\ mf.status.error /\ ~acState.errorFlag

Receive(mf) ==
  /\ HandleMasterFrame(mf)
  /\ reply' = IF Replies(mf) THEN Reply(mf) ELSE NoReply
  /\ unsent' = IF reply'.write THEN {} ELSE unsent
  /\ followUp' = IF reply'.write THEN reply'.payload.swingStep ELSE followUp
  /\ unasked' = (reply'.query # "ERROR" /\ (unasked \/ ShowsNewError(mf)))

\* The user calls the setter of setting f; s is the copy after it.
UserSets(f, s) ==
  /\ acState' = s
  /\ unsent' = unsent \cup {f}
  /\ reply' = NoReply
  /\ UNCHANGED <<errorRead, loginRead, followUp, unasked>>

UserStep ==
  \/ \E v \in User.enabled : UserSets("enabled", SetEnabled(acState, v))
  \/ \E v \in User.mode : UserSets("mode", SetMode(acState, v))
  \/ \E v \in User.fan : UserSets("fan", SetFan(acState, v))
  \/ \E v \in User.economy : UserSets("economy", SetEconomy(acState, v))
  \/ \E v \in User.temperature : UserSets("temperature", SetTemperature(acState, v))
  \/ \E v \in User.swing : UserSets("swing", SetSwing(acState, v))
  \/ \E v \in User.swingStep : UserSets("swingStep", SetSwingStep(acState, v))

Next == (\E mf \in IncomingFrames : Receive(mf)) \/ UserStep

Spec == Init /\ [][Next]_vars

ReceiveStatus == \E mf \in IncomingFrames : IsStatus(mf) /\ Receive(mf)

\* handler.h:37: the main unit repeats its frame indefinitely.
FairSpec == Spec /\ SF_vars(ReceiveStatus)

-----------------------------------------------------------------------------
\* "If state was modified in between the calls, it will take precedence"
\* (handler.h:46): no frame changes a setting the user has set and the
\* controller has not written yet; only a written swing step is cleared.
LocalChangeKept ==
  [][\A mf \in IncomingFrames : Receive(mf) =>
       \A f \in unsent : acState'[f] = acState[f] \/ (f = "swingStep" /\ reply'.write)]_vars

\* A write frame carries every setting changed since the last one, however
\* many queries came between.  FAN mode has no temperature and no economy, and
\* a temperature above 127 spills into the economy bit.
WriteCarriesAllUnsent ==
  [][\A mf \in IncomingFrames : Receive(mf) /\ reply'.write =>
       \A f \in unsent :
         \/ reply'.payload[f] = acState[f]
         \/ /\ f \in {"economy", "temperature"}
            /\ acState.mode = "FAN" \/ acState.temperature \notin Temperatures]_vars

\* A merge or a query never makes the controller write: without a user change
\* only the frame that takes back a swing step has the write bit.
WritesOnlyUserChanges ==
  [][\A mf \in IncomingFrames : Receive(mf) /\ reply'.write =>
       unsent # {} \/ followUp]_vars

\* One request for a swing step moves the flap once: a write carries the step
\* only if it was asked for, and the next status reply takes the bit back.
SwingStepSentOnce ==
  [][\A mf \in IncomingFrames : Receive(mf) /\ Replies(mf) =>
       /\ reply'.write /\ reply'.payload.swingStep => "swingStep" \in unsent
       /\ followUp /\ IsStatus(mf) /\ reply'.query = "STATUS" => reply'.write]_vars

\* "If error bit is set, set the flag and query for Error register next cycle"
\* (handler.cc:146): an error the copy was told of is asked about or the query
\* is still due, also when a login comes first, when the bit is cleared in the
\* meantime and when user changes keep later frames from being merged.
SetErrorsQueried == unasked => errorRead

\* Whatever the unit says, a change the user made is written in the end.
UserChangesSent == unsent # {} ~> unsent = {}
==============================================================================
