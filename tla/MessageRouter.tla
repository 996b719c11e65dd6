---------------------------- MODULE MessageRouter ----------------------------
(***************************************************************************)
(* Server::on_message and the handlers of class MessageRouter it calls.    *)
(* One action per outcome that differs in control.  hdl is the connection  *)
(* the message came from; clientId and targetId are the ids it names, each *)
(* any id or the empty string; readable says whether the numeric fields    *)
(* the handler parses are numbers.                                         *)
(***************************************************************************)
EXTENDS ConnectionManager, TimerManager

CONSTANTS
    Binds,              \* <<hdl, clientId, targetId>> of the bind requests sent
    FieldForms,         \* the values readable takes
    Malformed,          \* the forms of message that on_message cannot take apart
    Times,              \* the values of the time field, in seconds
    NoTime,             \* a clientMsg without a time field
    Frequency,          \* default_punishment_time of conf.ini, in Hz
    DefaultDuration     \* default_punishment_duration of conf.ini, in seconds

ASSUME RouterAssumption == /\ Binds \subseteq Clients \X Ids \X Ids
                           /\ FieldForms \subseteq BOOLEAN
                           /\ Malformed \subseteq {"root", "id", "field"}
                           /\ Times \subseteq Int \cup {NoTime}
                           /\ NoTime \notin Int
                           /\ Frequency \in Nat \ {0}
                           /\ DefaultDuration \in Nat

vars == <<session, out, alive, connVars, timerVars, asio>>

\* The endpoint hands a message to on_message: the io thread is free and the
\* session is open.
Receives(hdl) == asio.at = "idle" /\ session[hdl] = "open"

ValidateSource(id, hdl) == GetClientId(hdl) = id

\* The sender must be one of the two clients that the message names.
Accepted(hdl, clientId, targetId) ==
    /\ Receives(hdl)
    /\ \/ ValidateSource(clientId, hdl)
       \/ ValidateSource(targetId, hdl)

\* A handler that only sends frames.
Answer(frames) ==
    /\ out' = frames
    /\ UNCHANGED <<session, alive, connVars, timerVars, asio>>

\* std::stoi or Json::Value throws and no handler catches it.
Throws ==
    /\ Terminate
    /\ UNCHANGED <<session, connVars, timerVars, asio>>

\* Mutant: the error goes to the id that the message names.
ErrorReplyToNamed(hdl, type, clientId, targetId, code) ==
    {Frame(clientId, type, clientId, targetId, code)}

ErrorReply(hdl, type, clientId, targetId, code) ==
    Deliver(hdl, type, clientId, targetId, code)

-----------------------------------------------------------------------------
(* on_message's own early returns.                                         *)

\* The parser gives up with an exception, which validate catches (403); or the root is
\* an object or null without one of the four fields (404).
RejectMalformed(hdl) ==
    /\ Receives(hdl)
    /\ \E code \in {"403", "404"} : Answer(ErrorReply(hdl, "msg", NoId, NoId, code))

\* The root is a number, a string, a Boolean or an array: isMember throws, outside the try.
RootThrows(hdl) ==
    /\ "root" \in Malformed
    /\ Receives(hdl)
    /\ Throws

\* clientId, or targetId when clientId is not the sender, is an object or an array:
\* asString throws before any client is looked up.
IdThrows(hdl) ==
    /\ "id" \in Malformed
    /\ Receives(hdl)
    /\ Throws

\* The sender is one of the clients named, and the type, or another field that the
\* handler reads before it looks at the pairing, is an object or an array.
FieldThrows(hdl, clientId, targetId) ==
    /\ "field" \in Malformed
    /\ Accepted(hdl, clientId, targetId)
    /\ Throws

\* The sender is neither of the clients it names.
RejectSource(hdl, clientId, targetId) ==
    /\ Receives(hdl)
    /\ ~Accepted(hdl, clientId, targetId)
    /\ Answer(ErrorReply(hdl, "msg", NoId, NoId, "404"))

\* Type heartbeat: printed and otherwise ignored.
HandleHeartbeat(hdl, clientId, targetId) ==
    /\ Accepted(hdl, clientId, targetId)
    /\ Answer({})

-----------------------------------------------------------------------------
(* Type bind.                                                              *)

\* A refused bind is only printed: the client is not answered.
RefuseBind(hdl, clientId, targetId) ==
    /\ Accepted(hdl, clientId, targetId)
    /\ PairRefused(clientId, targetId)
    /\ Answer({})

\* Mutant: only the sender is told.
HandleBindSenderOnly(hdl, clientId, targetId) ==
    /\ Accepted(hdl, clientId, targetId)
    /\ Pair(clientId, targetId)
    /\ out' = Deliver(hdl, "bind", clientId, targetId, "200")
    /\ UNCHANGED <<session, alive, timerVars, asio>>

HandleBind(hdl, clientId, targetId) ==
    /\ Accepted(hdl, clientId, targetId)
    /\ Pair(clientId, targetId)
    /\ out' = Deliver(hdl, "bind", clientId, targetId, "200")
              \cup (IF GetClientId(hdl) # clientId
                    THEN Deliver(clientId, "bind", clientId, targetId, "200")
                    ELSE {})
    /\ UNCHANGED <<session, alive, timerVars, asio>>

-----------------------------------------------------------------------------
(* Types 1, 2, 3 (strength), 4 (custom strength), any other (forward).     *)

RefuseUnpaired(hdl, clientId, targetId, type) ==
    /\ Accepted(hdl, clientId, targetId)
    /\ ~IsPaired(clientId, targetId)
    /\ Answer(ErrorReply(hdl, type, clientId, targetId, "402"))

\* When the target's session is not open, result.success is returned without
\* having been assigned: success is what the build happens to read.
RelayToTarget(hdl, clientId, targetId, payload, success) ==
    /\ Accepted(hdl, clientId, targetId)
    /\ IsPaired(clientId, targetId)
    /\ Answer(IF session[targetId] = "open"
              THEN Deliver(targetId, "msg", clientId, targetId, payload)
              ELSE IF success THEN {}
                   ELSE ErrorReply(hdl, "error", clientId, targetId, "unset"))

HandleStrengthAdjust(hdl, clientId, targetId, readable, success) ==
    \/ readable /\ RelayToTarget(hdl, clientId, targetId, "strength", success)
    \/ /\ ~readable
       /\ Accepted(hdl, clientId, targetId)
       /\ IsPaired(clientId, targetId)
       /\ Throws

HandleCustomStrength(hdl, clientId, targetId, success) ==
    RelayToTarget(hdl, clientId, targetId, "custom", success)

\* Mutant: any connected client may be written to.
ForwardToAnyone(hdl, clientId, targetId) ==
    /\ Accepted(hdl, clientId, targetId)
    /\ HasClient(clientId)
    /\ Answer(Deliver(clientId, "msg", clientId, targetId, "forward"))

\* The default goes to clientId, the web side, and does report a closed session.
ForwardMessage(hdl, clientId, targetId) ==
    /\ Accepted(hdl, clientId, targetId)
    /\ IsPaired(clientId, targetId)
    /\ Answer(IF session[clientId] = "open"
              THEN Deliver(clientId, "msg", clientId, targetId, "forward")
              ELSE ErrorReply(hdl, "msg", clientId, targetId, "404"))

-----------------------------------------------------------------------------
(* Type clientMsg: a waveform for one channel.                             *)

TotalSends(time) == Frequency * (IF time = NoTime THEN DefaultDuration ELSE time)

RefuseNoChannel(hdl, clientId, targetId) ==
    /\ Accepted(hdl, clientId, targetId)
    /\ IsPaired(clientId, targetId)
    /\ Answer(ErrorReply(hdl, "error", clientId, targetId, "406"))

HandleClientMessage(hdl, clientId, targetId, channel, time, readable) ==
    /\ Accepted(hdl, clientId, targetId)
    /\ IsPaired(clientId, targetId)
    /\ \/ /\ readable
          /\ SendMessage(<<clientId, channel>>, targetId, TotalSends(time), hdl)
          /\ out' = {}
          /\ UNCHANGED <<session, alive, connVars>>
       \/ ~readable /\ Throws
=============================================================================
