---------------------------- MODULE Server_proofs ----------------------------
(***************************************************************************)
(* Theorems about Server for every number of clients, channels and timers, *)
(* and every set of bind requests.                                         *)
(***************************************************************************)
EXTENDS Server, TLAPS

(***************************************************************************)
(* What TypeOK needs to be inductive: a handler or a thread that is under  *)
(* way has its operands, and an entry of timers names a task that exists.  *)
(***************************************************************************)
Clearing == {"find", "copy", "stop", "erase"}

HandlerOperands ==
    /\ asio.at \in SendingPCs =>
          asio.key \in Keys /\ asio.target \in Clients /\ asio.source \in Clients
    /\ asio.at \in SendingPCs \ {"insert"} => counter < MaxTimers
    /\ asio.at \in Clearing \cup {"insert"} =>
          asio.id \in TimerIds /\ task[asio.id].pc # "none"
    /\ asio.at \in ClosingPCs =>
          asio.client \in Clients /\ session[asio.client] = "closed"

TaskOperands ==
    \A t \in TimerIds : task[t].pc # "none" =>
        task[t].key \in Keys /\ task[t].target \in Clients /\ task[t].source \in Clients

EntriesExist ==
    \A k \in Keys : timers[k] # 0 => task[timers[k]].pc # "none"

TypeInv == TypeOK /\ HandlerOperands /\ TaskOperands /\ EntriesExist
USE EndpointAssumption, TimerAssumption, RouterAssumption

\* A frame whose fields have their types is a frame.
LEMMA DeliverTyped ==
    ASSUME NEW to \in Clients, NEW type \in FrameTypes, NEW clientId \in Ids,
           NEW targetId \in Ids, NEW message \in Payloads
    PROVE  Deliver(to, type, clientId, targetId, message) \subseteq Frames
BY DEF Deliver, Frame, Frames

\* A client is an id, and so is the empty one.
LEMMA IdsContain == Clients \subseteq Ids /\ NoId \in Ids
BY DEF Ids

\* The four maps of the connection manager have their types.
ConnTypes ==
    /\ connections \subseteq Clients
    /\ hdlToId \in [Clients -> Ids]
    /\ pairings \in [Clients -> Ids]
    /\ reversePairings \in [Clients -> Ids]

\* The ids of timers are values that the map timers can hold.
LEMMA TimerIdBounds ==
    /\ 0 \in 0 .. MaxTimers
    /\ \A t \in TimerIds : t \in 0 .. MaxTimers /\ t # 0
BY DEF TimerIds

\* Clearing a task's active flag.
LEMMA ClearedTask ==
    ASSUME NEW t \in Tasks
    PROVE  /\ [t EXCEPT !.active = FALSE] \in Tasks
           /\ [t EXCEPT !.active = FALSE].pc = t.pc
           /\ [t EXCEPT !.active = FALSE].key = t.key
           /\ [t EXCEPT !.active = FALSE].target = t.target
           /\ [t EXCEPT !.active = FALSE].source = t.source
BY DEF Tasks

\* What clearInterval leaves alone.
SameOperands ==
    \A t \in TimerIds : /\ task'[t].pc = task[t].pc
                        /\ task'[t].key = task[t].key
                        /\ task'[t].target = task[t].target
                        /\ task'[t].source = task[t].source

\* clearInterval touches one flag and no operand of any task.
LEMMA ClearIntervalTypes ==
    ASSUME task \in [TimerIds -> Tasks], NEW id, ClearInterval(id)
    PROVE  task' \in [TimerIds -> Tasks] /\ SameOperands
<1> DEFINE Cleared(t) == IF t = id THEN [task[t] EXCEPT !.active = FALSE] ELSE task[t]
<1>1. task' = [t \in TimerIds |-> Cleared(t)]
  BY DEF ClearInterval
<1>2. ASSUME NEW t \in TimerIds
      PROVE  /\ Cleared(t) \in Tasks
             /\ Cleared(t).pc = task[t].pc /\ Cleared(t).key = task[t].key
             /\ Cleared(t).target = task[t].target /\ Cleared(t).source = task[t].source
  BY ClearedTask
<1> HIDE DEF Cleared
<1> QED
  BY <1>1, <1>2 DEF SameOperands

\* The maps are empty and nothing runs when the server starts.
LEMMA InitTypes == Init => TypeInv
<1> SUFFICES ASSUME Init PROVE TypeInv
    OBVIOUS
<1> USE DEF Init, EndpointInit, ConnectionManagerInit, TimerManagerInit
<1>1. asio = Idle /\ Idle \in Handlers
  BY DEF Idle, Handlers, Ids, NoKey
<1>2. task \in [TimerIds -> Tasks]
  BY DEF Tasks, NoTask, ThreadPCs, Ids, NoKey
<1>3. TypeOK
  BY <1>1, <1>2 DEF TypeOK, SessionStates, Ids
<1>4. HandlerOperands /\ TaskOperands /\ EntriesExist
  BY <1>1 DEF HandlerOperands, TaskOperands, EntriesExist, Idle, NoTask, SendingPCs,
              ClosingPCs, Clearing
<1> QED
  BY <1>3, <1>4 DEF TypeInv

\* A handler that only sends well-formed frames.
LEMMA AnswerTypes ==
    ASSUME TypeInv, NEW frames, frames \subseteq Frames, Answer(frames)
    PROVE  TypeInv'
BY DEF TypeInv, TypeOK, HandlerOperands, TaskOperands, EntriesExist, Answer, connVars,
       pairVars, timerVars

\* An exception that ends the process leaves all maps as they were.
LEMMA ThrowsTypes == ASSUME TypeInv, Throws PROVE TypeInv'
BY DEF TypeInv, TypeOK, HandlerOperands, TaskOperands, EntriesExist, Throws, Terminate,
       connVars, pairVars, timerVars

\* An error reply is a frame to the sender.
LEMMA ErrorTyped ==
    ASSUME NEW hdl \in Clients, NEW type \in {"error", "msg"}, NEW clientId \in Ids,
           NEW targetId \in Ids, NEW code \in {"402", "403", "404", "406", "unset"}
    PROVE  ErrorReply(hdl, type, clientId, targetId, code) \subseteq Frames
BY DeliverTyped DEF ErrorReply, FrameTypes, Payloads

\* A relayed command goes to a connected client, or an error goes back.
LEMMA RelayTypes ==
    ASSUME TypeInv, NEW hdl \in Clients, NEW clientId \in Ids, NEW targetId \in Ids,
           NEW success \in BOOLEAN, NEW payload \in {"strength", "custom"},
           RelayToTarget(hdl, clientId, targetId, payload, success)
    PROVE  TypeInv'
<1>1. targetId \in Clients
  BY DEF RelayToTarget, IsPaired, HasClient, TypeInv, TypeOK
<1>2. Deliver(targetId, "msg", clientId, targetId, payload) \subseteq Frames
  BY <1>1, DeliverTyped DEF FrameTypes, Payloads
<1>3. ErrorReply(hdl, "error", clientId, targetId, "unset") \subseteq Frames
  BY ErrorTyped
<1> QED
  BY <1>2, <1>3, AnswerTypes DEF RelayToTarget

\* Every operation on the connection maps, as far as the maps' types go.
LEMMA ConnTypesKept ==
    ASSUME ConnTypes, NEW c \in Clients,
           \/ RegisterConn(c, c)
           \/ \E d \in Ids, e \in Ids : Pair(d, e)
           \/ HasClient(c) /\ Disconnect(c)
           \/ UNCHANGED connVars
    PROVE  ConnTypes'
<1> USE DEF ConnTypes
<1>1. CASE RegisterConn(c, c)
  BY <1>1 DEF RegisterConn, pairVars, Ids
<1>2. CASE \E d \in Ids, e \in Ids : Pair(d, e)
  <2> PICK d \in Ids, e \in Ids : Pair(d, e)
    BY <1>2
  <2>1. pairings' \in [Clients -> Ids]
    BY DEF Pair
  <2>2. reversePairings' \in [Clients -> Ids]
    BY DEF Pair
  <2> QED
    BY <2>1, <2>2 DEF Pair
<1>3. CASE HasClient(c) /\ Disconnect(c)
  BY <1>3 DEF Disconnect, Unpair, pairVars, Ids
<1>4. CASE UNCHANGED connVars
  BY <1>4 DEF connVars, pairVars
<1> QED
  BY <1>1, <1>2, <1>3, <1>4

\* A message that cannot be taken apart throws.
LEMMA MalformedThrows ==
    ASSUME NEW hdl,
           \/ RootThrows(hdl) \/ IdThrows(hdl)
           \/ \E i, j \in Ids : FieldThrows(hdl, i, j)
    PROVE  Throws /\ asio.at = "idle" /\ Malformed # {}
BY DEF RootThrows, IdThrows, FieldThrows, Accepted, Receives

\* A received message keeps the types.
LEMMA OnMessageTypes ==
    ASSUME TypeInv, NEW hdl \in Clients, OnMessage(hdl)
    PROVE  TypeInv'
<1> USE IdsContain
<1>0. CASE \/ RootThrows(hdl) \/ IdThrows(hdl)
           \/ \E i, j \in Ids : FieldThrows(hdl, i, j)
  BY <1>0, MalformedThrows, ThrowsTypes
<1>1. CASE RejectMalformed(hdl)
  BY <1>1, ErrorTyped, AnswerTypes DEF RejectMalformed
<1>2. ASSUME NEW b \in Binds, RefuseBind(hdl, b[2], b[3])
      PROVE  TypeInv'
  BY <1>2, AnswerTypes DEF RefuseBind
<1>3. ASSUME NEW b \in Binds, HandleBind(hdl, b[2], b[3])
      PROVE  TypeInv'
  <2> DEFINE w == b[2]
             a == b[3]
  <2>1. w \in Ids /\ a \in Ids
    OBVIOUS
  <2>2. w \in Clients /\ a \in Clients
    BY <1>3 DEF HandleBind, Pair, PairRefused, HasClient, TypeInv, TypeOK
  <2>3. Deliver(hdl, "bind", w, a, "200") \subseteq Frames
    BY <2>1, DeliverTyped DEF FrameTypes, Payloads
  <2>4. Deliver(w, "bind", w, a, "200") \subseteq Frames
    BY <2>1, <2>2, DeliverTyped DEF FrameTypes, Payloads
  <2>5. out' \subseteq Frames
    BY <1>3, <2>3, <2>4 DEF HandleBind
  <2>6. ConnTypes'
    BY <1>3, <2>1, ConnTypesKept DEF HandleBind, ConnTypes, TypeInv, TypeOK
  <2> QED
    BY <1>3, <2>5, <2>6
    DEF HandleBind, ConnTypes, TypeInv, TypeOK, HandlerOperands, TaskOperands,
        EntriesExist, timerVars
<1>4. ASSUME NEW clientId \in Ids, NEW targetId \in Ids, RejectSource(hdl, clientId, targetId)
      PROVE  TypeInv'
  BY <1>4, ErrorTyped, AnswerTypes DEF RejectSource
<1>5. ASSUME NEW clientId \in Ids, NEW targetId \in Ids,
             HandleHeartbeat(hdl, clientId, targetId)
      PROVE  TypeInv'
  BY <1>5, AnswerTypes DEF HandleHeartbeat
<1>6. ASSUME NEW clientId \in Ids, NEW targetId \in Ids, NEW type \in {"error", "msg"},
             RefuseUnpaired(hdl, clientId, targetId, type)
      PROVE  TypeInv'
  BY <1>6, ErrorTyped, AnswerTypes DEF RefuseUnpaired
<1>7. ASSUME NEW clientId \in Ids, NEW targetId \in Ids, NEW readable \in FieldForms,
             NEW success \in BOOLEAN,
             HandleStrengthAdjust(hdl, clientId, targetId, readable, success)
      PROVE  TypeInv'
  BY <1>7, RelayTypes, ThrowsTypes DEF HandleStrengthAdjust
<1>8. ASSUME NEW clientId \in Ids, NEW targetId \in Ids, NEW success \in BOOLEAN,
             HandleCustomStrength(hdl, clientId, targetId, success)
      PROVE  TypeInv'
  BY <1>8, RelayTypes DEF HandleCustomStrength
<1>9. ASSUME NEW clientId \in Ids, NEW targetId \in Ids,
             ForwardMessage(hdl, clientId, targetId)
      PROVE  TypeInv'
  <2>1. clientId \in Clients
    BY <1>9 DEF ForwardMessage, IsPaired, HasClient, TypeInv, TypeOK
  <2>2. Deliver(clientId, "msg", clientId, targetId, "forward") \subseteq Frames
    BY <2>1, DeliverTyped DEF FrameTypes, Payloads
  <2>3. ErrorReply(hdl, "msg", clientId, targetId, "404") \subseteq Frames
    BY ErrorTyped
  <2> QED
    BY <1>9, <2>2, <2>3, AnswerTypes DEF ForwardMessage
<1>10. ASSUME NEW clientId \in Ids, NEW targetId \in Ids,
              RefuseNoChannel(hdl, clientId, targetId)
       PROVE  TypeInv'
  BY <1>10, ErrorTyped, AnswerTypes DEF RefuseNoChannel
<1>11. ASSUME NEW clientId \in Ids, NEW targetId \in Ids, NEW channel \in Channels,
              NEW time \in Times, NEW readable \in FieldForms,
              HandleClientMessage(hdl, clientId, targetId, channel, time, readable)
       PROVE  TypeInv'
  <2>1. CASE readable
    <3> DEFINE key == <<clientId, channel>>
    <3>1. clientId \in Clients /\ targetId \in Clients
      BY <1>11 DEF HandleClientMessage, IsPaired, HasClient, TypeInv, TypeOK
    <3>2. key \in Keys /\ TotalSends(time) \in Int
      BY <3>1 DEF Keys, TotalSends
    <3>3. SendMessage(key, targetId, TotalSends(time), hdl)
      BY <1>11, <2>1 DEF HandleClientMessage
    <3>4. asio' \in Handlers
      <4> DEFINE at == IF timers[key] = 0 THEN "start" ELSE "override"
      <4>1. asio' = [at |-> at, client |-> NoId, keys |-> {}, key |-> key,
                     target |-> targetId, source |-> hdl, total |-> TotalSends(time),
                     id |-> 0, replacing |-> timers[key] # 0]
        BY <3>3 DEF SendMessage, Idle
      <4>2. at \in {"idle"} \cup SendingPCs \cup ClosingPCs
        BY DEF SendingPCs
      <4>3. (timers[key] # 0) \in BOOLEAN
        OBVIOUS
      <4> HIDE DEF key, at
      <4> QED
        BY <3>1, <3>2, <4>1, <4>2, <4>3 DEF Handlers
    <3>5. HandlerOperands'
      BY <3>1, <3>2, <3>3
      DEF SendMessage, HandlerOperands, Idle, SendingPCs, ClosingPCs, Clearing, timerVars
    <3> QED
      BY <1>11, <2>1, <3>3, <3>4, <3>5
      DEF HandleClientMessage, SendMessage, TypeInv, TypeOK, TaskOperands, EntriesExist,
          connVars, pairVars, timerVars
  <2>2. CASE ~readable
    BY <1>11, <2>2, ThrowsTypes DEF HandleClientMessage
  <2> QED
    BY <2>1, <2>2
<1> QED
  BY <1>0, <1>1, <1>2, <1>3, <1>4, <1>5, <1>6, <1>7, <1>8, <1>9, <1>10, <1>11 DEF OnMessage
-----------------------------------------------------------------------------
(* The steps of the io thread inside sendMessage.                          *)

SendOperands ==
    asio.at \in SendingPCs =>
        asio.key[1] \in Clients /\ asio.target \in Clients /\ asio.source \in Clients

\* The operands of a sendMessage under way are connected at its start.
LEMMA SendOperandsTyped == ASSUME TypeInv PROVE SendOperands
BY DEF TypeInv, HandlerOperands, SendOperands, Keys

\* The frames that these steps send.
LEMMA SendFramesTyped ==
    ASSUME TypeInv, asio.at \in SendingPCs
    PROVE  /\ asio.id \in TimerIds => ClearCommand \subseteq Frames
           /\ FirstPulse \subseteq Frames
           /\ \A message \in {"done", "override"} : Notice(message) \subseteq Frames
<1> USE IdsContain
<1>1. asio.key[1] \in Clients /\ asio.target \in Clients /\ asio.source \in Clients
  BY SendOperandsTyped DEF SendOperands
<1>2. ASSUME asio.id \in TimerIds
      PROVE  ClearCommand \subseteq Frames
  <2>1. task[asio.id].target \in Ids
    BY <1>2 DEF TypeInv, TypeOK, Tasks
  <2> QED
    BY <1>1, <2>1, DeliverTyped DEF ClearCommand, FrameTypes, Payloads
<1>3. FirstPulse \subseteq Frames
  BY <1>1, DeliverTyped DEF FirstPulse, FrameTypes, Payloads
<1>4. ASSUME NEW message \in {"done", "override"}
      PROVE  Notice(message) \subseteq Frames
  <2> DEFINE target == IF message = "done" THEN asio.target ELSE NoId
  <2>1. target \in Ids
    BY <1>1
  <2>2. Notice(message) = Deliver(asio.source, "notify", asio.key[1], target, message)
    BY DEF Notice
  <2> HIDE DEF target
  <2> QED
    BY <1>1, <2>1, <2>2, DeliverTyped DEF FrameTypes, Payloads
<1> QED
  BY <1>2, <1>3, <1>4

\* The steps of sendMessage, clearTimer and _startSending keep the types.
LEMMA SendStepTypes ==
    ASSUME TypeInv, SendSteps, UNCHANGED connVars
    PROVE  TypeInv'
<1> USE IdsContain
<1> USE DEF TypeInv, TypeOK
<1>0. ConnTypes'
  BY DEF ConnTypes, connVars, pairVars
<1>1. CASE EntryVanished
  BY <1>0, <1>1
  DEF EntryVanished, Terminate, ConnTypes, timerVars, HandlerOperands, TaskOperands,
      EntriesExist
<1>2. CASE OverrideEntry
  <2>1. asio.at \in SendingPCs
    BY <1>2 DEF OverrideEntry, SendingPCs
  <2>2. timers[asio.key] \in TimerIds /\ task[timers[asio.key]].pc # "none"
    BY <1>2, <2>1 DEF OverrideEntry, HandlerOperands, EntriesExist, TimerIds
  <2>3. asio' \in Handlers
    <3>1. timers[asio.key] \in 0 .. MaxTimers
      BY <2>2, TimerIdBounds
    <3> QED
      BY <1>2, <3>1 DEF OverrideEntry, Handlers, SendingPCs
  <2>4. HandlerOperands'
    BY <1>2, <2>1, <2>2
    DEF OverrideEntry, HandlerOperands, SendingPCs, ClosingPCs, Clearing, timerVars,
        Handlers
  <2> QED
    BY <1>0, <1>2, <2>3, <2>4
    DEF OverrideEntry, ConnTypes, timerVars, TaskOperands, EntriesExist
<1>3. CASE ClearTimerFind
  <2>1. asio.at \in SendingPCs /\ asio.id \in TimerIds /\ task[asio.id].pc # "none"
    BY <1>3 DEF ClearTimerFind, HandlerOperands, SendingPCs, Clearing
  <2>2. out' \subseteq Frames
    BY <1>3, <2>1, SendFramesTyped DEF ClearTimerFind
  <2>3. asio' \in Handlers
    BY <1>3 DEF ClearTimerFind, Handlers, SendingPCs
  <2>4. HandlerOperands'
    BY <1>3, <2>1
    DEF ClearTimerFind, HandlerOperands, SendingPCs, ClosingPCs, Clearing, timerVars,
        Handlers
  <2> QED
    BY <1>0, <1>3, <2>2, <2>3, <2>4
    DEF ClearTimerFind, ConnTypes, timerVars, TaskOperands, EntriesExist
<1>4. CASE ClearTimerCopy
  <2>1. asio.at \in SendingPCs
    BY <1>4 DEF ClearTimerCopy, SendingPCs
  <2> DEFINE old == timers[asio.key]
  <2>2. old \in TimerIds /\ task[old].pc # "none" /\ task[old].target \in Clients
    BY <1>4, <2>1 DEF ClearTimerCopy, HandlerOperands, EntriesExist, TaskOperands, TimerIds
  <2>3. CASE HandleExpired(task[old].target)
    BY <1>0, <1>4, <2>3
    DEF ClearTimerCopy, Terminate, ConnTypes, timerVars, HandlerOperands, TaskOperands,
        EntriesExist
  <2>4. CASE ~HandleExpired(task[old].target)
    <3>1. Deliver(task[old].target, "msg", asio.key[1], task[old].target, "clear")
             \subseteq Frames
      BY <2>1, <2>2, SendOperandsTyped, DeliverTyped DEF SendOperands, FrameTypes, Payloads
    <3>2. out' \subseteq Frames /\ UNCHANGED <<session, alive, timerVars>>
      BY <1>4, <2>4, <3>1 DEF ClearTimerCopy
    <3>3. asio' = [asio EXCEPT !.at = "stop", !.id = old]
      BY <1>4, <2>4 DEF ClearTimerCopy
    <3>4. asio' \in Handlers
      <4>1. old \in 0 .. MaxTimers
        BY <2>2, TimerIdBounds
      <4> HIDE DEF old
      <4> QED
        BY <3>3, <4>1 DEF Handlers, SendingPCs
    <3>5. HandlerOperands'
      BY <2>1, <2>2, <3>2, <3>3, <1>4
      DEF HandlerOperands, SendingPCs, ClosingPCs, Clearing, timerVars, Handlers,
          ClearTimerCopy
    <3> QED
      BY <1>0, <3>2, <3>4, <3>5 DEF ConnTypes, timerVars, TaskOperands, EntriesExist
  <2> QED
    BY <2>3, <2>4
<1>5. CASE ClearTimerStop
  <2>2. SameOperands /\ task' \in [TimerIds -> Tasks]
    BY <1>5, ClearIntervalTypes DEF ClearTimerStop
  <2>4. asio' \in Handlers
    BY <1>5 DEF ClearTimerStop, Handlers, SendingPCs
  <2>5. HandlerOperands'
    BY <1>5, <2>2
    DEF ClearTimerStop, HandlerOperands, SendingPCs, ClosingPCs, Clearing, Handlers,
        SameOperands
  <2>6. TaskOperands' /\ EntriesExist'
    <3>1. UNCHANGED timers /\ \A k \in Keys : timers[k] # 0 => timers[k] \in TimerIds
      BY <1>5 DEF ClearTimerStop, TimerIds
    <3> QED
      BY <2>2, <3>1 DEF TaskOperands, EntriesExist, SameOperands
  <2> QED
    BY <1>0, <1>5, <2>2, <2>4, <2>5, <2>6 DEF ClearTimerStop, ConnTypes
<1>6. CASE ClearTimerErase
  <2>1. asio.at \in SendingPCs /\ asio.id \in TimerIds
    BY <1>6 DEF ClearTimerErase, HandlerOperands, SendingPCs, Clearing
  <2>2. out' \subseteq Frames
    BY <1>6, <2>1, SendFramesTyped DEF ClearTimerErase
  <2>3. timers' \in [Keys -> 0 .. MaxTimers]
    BY <1>6, TimerIdBounds DEF ClearTimerErase
  <2>4. asio' \in Handlers
    BY <1>6 DEF ClearTimerErase, Handlers, SendingPCs
  <2>5. HandlerOperands'
    BY <1>6, <2>1
    DEF ClearTimerErase, HandlerOperands, SendingPCs, ClosingPCs, Clearing, Handlers
  <2>6. EntriesExist'
    BY <1>6 DEF ClearTimerErase, EntriesExist
  <2> QED
    BY <1>0, <1>6, <2>2, <2>3, <2>4, <2>5, <2>6 DEF ClearTimerErase, ConnTypes, TaskOperands
<1>7. CASE StartSingle
  <2>1. asio.at \in SendingPCs
    BY <1>7 DEF StartSingle, SendingPCs
  <2>2. out' \subseteq Frames
    BY <1>7, <2>1, SendFramesTyped DEF StartSingle
  <2>3. asio' \in Handlers /\ HandlerOperands'
    BY <1>7 DEF StartSingle, Idle, Handlers, HandlerOperands, SendingPCs, ClosingPCs,
                Clearing
  <2> QED
    BY <1>0, <1>7, <2>2, <2>3 DEF StartSingle, ConnTypes, timerVars, TaskOperands, EntriesExist
<1>8. CASE StartRepeating
  <2> DEFINE new == [pc |-> "sleep", active |-> TRUE, key |-> asio.key,
                     target |-> asio.target, source |-> asio.source,
                     remaining |-> asio.total - 1]
  <2>1. asio.at \in SendingPCs /\ counter < MaxTimers
    BY <1>8 DEF StartRepeating, HandlerOperands, SendingPCs
  <2>2. counter + 1 \in TimerIds /\ counter' \in 0 .. MaxTimers
    BY <1>8, <2>1 DEF StartRepeating, TimerIds
  <2>3. asio.key \in Keys /\ asio.target \in Clients /\ asio.source \in Clients
    BY <2>1 DEF HandlerOperands
  <2>4. new \in Tasks
    BY <2>3 DEF Tasks, ThreadPCs, Handlers
  <2>5. task' = [task EXCEPT ![counter + 1] = new]
    BY <1>8 DEF StartRepeating
  <2>6. task' \in [TimerIds -> Tasks]
    BY <2>4, <2>5
  <2>7. \A t \in TimerIds : task'[t] = IF t = counter + 1 THEN new ELSE task[t]
    BY <2>5
  <2>8. new.pc # "none" /\ new.key \in Keys /\ new.target \in Clients
          /\ new.source \in Clients
    BY <2>3
  <2> HIDE DEF new
  <2>9. TaskOperands'
    BY <2>7, <2>8 DEF TaskOperands
  <2>10. EntriesExist'
    BY <1>8, <2>7, <2>8 DEF StartRepeating, EntriesExist, TimerIds
  <2>11. asio' = [asio EXCEPT !.at = "insert", !.id = counter + 1]
    BY <1>8 DEF StartRepeating
  <2>12. asio' \in Handlers
    <3>1. counter + 1 \in 0 .. MaxTimers
      BY <2>2, TimerIdBounds
    <3> QED
      BY <2>11, <3>1 DEF Handlers, SendingPCs
  <2>13. HandlerOperands'
    BY <2>2, <2>3, <2>7, <2>8, <2>11
    DEF HandlerOperands, SendingPCs, ClosingPCs, Clearing, Handlers
  <2>14. out' \subseteq Frames
    BY <1>8, <2>1, SendFramesTyped DEF StartRepeating
  <2> QED
    BY <1>0, <1>8, <2>2, <2>6, <2>9, <2>10, <2>12, <2>13, <2>14 DEF StartRepeating, ConnTypes
<1>9. CASE InsertEntry
  <2>1. asio.at \in SendingPCs /\ asio.id \in TimerIds /\ task[asio.id].pc # "none"
    BY <1>9 DEF InsertEntry, HandlerOperands, SendingPCs, Clearing
  <2>2. out' \subseteq Frames
    BY <1>9, <2>1, SendFramesTyped DEF InsertEntry
  <2>3. asio' \in Handlers /\ HandlerOperands'
    BY <1>9 DEF InsertEntry, Idle, Handlers, HandlerOperands, SendingPCs, ClosingPCs,
                Clearing
  <2>4. timers' \in [Keys -> 0 .. MaxTimers]
    <3>1. asio.id \in 0 .. MaxTimers
      BY <2>1, TimerIdBounds
    <3> QED
      BY <1>9, <3>1 DEF InsertEntry
  <2>5. EntriesExist'
    BY <1>9, <2>1 DEF InsertEntry, EntriesExist
  <2> QED
    BY <1>0, <1>9, <2>2, <2>3, <2>4, <2>5 DEF InsertEntry, ConnTypes, TaskOperands
<1> QED
  BY <1>1, <1>2, <1>3, <1>4, <1>5, <1>6, <1>7, <1>8, <1>9 DEF SendSteps
-----------------------------------------------------------------------------
(* on_open, on_close and the network.                                      *)

\* on_open keeps the types.
LEMMA OnOpenTypes == ASSUME TypeInv, NEW c \in Clients, OnOpen(c) PROVE TypeInv'
<1> USE IdsContain
<1>1. ConnTypes'
  BY ConnTypesKept DEF OnOpen, ConnTypes, TypeInv, TypeOK
<1>2. out' \subseteq Frames
  BY DEF OnOpen, Frame, Frames, FrameTypes, Payloads
<1>3. session' \in [Clients -> SessionStates]
  BY DEF OnOpen, TypeInv, TypeOK, SessionStates
<1>4. HandlerOperands'
  BY DEF OnOpen, HandlerOperands, SendingPCs, ClosingPCs, Clearing
<1> QED
  BY <1>1, <1>2, <1>3, <1>4
  DEF OnOpen, ConnTypes, TypeInv, TypeOK, TaskOperands, EntriesExist, timerVars

\* The first part of on_close keeps the types.
LEMMA OnCloseTypes == ASSUME TypeInv, NEW c \in Clients, OnClose(c) PROVE TypeInv'
<1> USE IdsContain
<1> DEFINE id == GetClientId(c)
           keys == KeysOf(id)
<1>1. id \in Ids
  BY DEF GetClientId, TypeInv, TypeOK
<1>2. ASSUME HasClient(id), GetPair(id) # NoId, HasClient(GetPair(id))
      PROVE  Deliver(GetPair(id), "error", id, GetPair(id), "500") \subseteq Frames
  <2>1. GetPair(id) \in Clients
    BY <1>2 DEF HasClient, TypeInv, TypeOK
  <2> QED
    BY <1>1, <2>1, DeliverTyped DEF FrameTypes, Payloads
<1>3. out' \subseteq Frames
  BY <1>2 DEF OnClose
<1>4. asio' = [at |-> "closing", client |-> c, keys |-> keys, key |-> NoKey,
               target |-> NoId, source |-> NoId, total |-> 0, id |-> 0,
               replacing |-> FALSE]
  BY DEF OnClose, Idle
<1>5. keys \in SUBSET Keys
  BY DEF KeysOf
<1>6. session[c] = "closed" /\ UNCHANGED <<session, alive, connVars, timerVars>>
  BY DEF OnClose
<1> HIDE DEF id, keys
<1>7. asio' \in Handlers
  BY <1>4, <1>5, TimerIdBounds DEF Handlers, ClosingPCs
<1>8. HandlerOperands'
  BY <1>4, <1>6 DEF HandlerOperands, SendingPCs, ClosingPCs, Clearing
<1> QED
  BY <1>3, <1>6, <1>7, <1>8
  DEF TypeInv, TypeOK, TaskOperands, EntriesExist, timerVars, connVars, pairVars

\* What happens to a connection outside the handlers keeps the types.
LEMMA NetworkTypes == ASSUME TypeInv, NEW c \in Clients, Network(c) PROVE TypeInv'
<1>1. session' \in [Clients -> SessionStates]
  BY DEF Network, PeerCloses, Drop, Release, TypeInv, TypeOK, SessionStates
<1>2. HandlerOperands'
  BY DEF Network, HandlerOperands, SendingPCs, ClosingPCs, Clearing
<1> QED
  BY <1>1, <1>2
  DEF Network, TypeInv, TypeOK, TaskOperands, EntriesExist, timerVars, connVars, pairVars

\* clearClientTimers and disconnect keep the types.
LEMMA ClosingStepTypes == ASSUME TypeInv, ClosingSteps PROVE TypeInv'
<1> USE IdsContain
<1>1. ASSUME NEW k \in Keys, CloseStop(k), UNCHANGED connVars
      PROVE  TypeInv'
  <2>1. SameOperands /\ task' \in [TimerIds -> Tasks]
    BY <1>1, ClearIntervalTypes DEF CloseStop, SameOperands, TypeInv, TypeOK
  <2>2. asio' \in Handlers
    BY <1>1 DEF CloseStop, Handlers, ClosingPCs, TypeInv, TypeOK
  <2>3. HandlerOperands'
    BY <1>1 DEF CloseStop, HandlerOperands, SendingPCs, ClosingPCs, Clearing, Handlers,
                TypeInv, TypeOK
  <2>4. UNCHANGED timers /\ \A j \in Keys : timers[j] # 0 => timers[j] \in TimerIds
    BY <1>1 DEF CloseStop, TimerIds, TypeInv, TypeOK
  <2>5. TaskOperands' /\ EntriesExist'
    BY <2>1, <2>4 DEF TaskOperands, EntriesExist, SameOperands, TypeInv
  <2> QED
    BY <1>1, <2>1, <2>2, <2>3, <2>5 DEF CloseStop, TypeInv, TypeOK, connVars, pairVars
<1>2. ASSUME CloseErase, UNCHANGED connVars
      PROVE  TypeInv'
  <2>1. timers' \in [Keys -> 0 .. MaxTimers]
    BY <1>2, TimerIdBounds DEF CloseErase, TypeInv, TypeOK
  <2>2. asio' \in Handlers
    BY <1>2 DEF CloseErase, Handlers, ClosingPCs, TypeInv, TypeOK
  <2>3. HandlerOperands'
    BY <1>2 DEF CloseErase, HandlerOperands, SendingPCs, ClosingPCs, Clearing, Handlers,
                TypeInv, TypeOK
  <2>4. TaskOperands' /\ EntriesExist'
    BY <1>2 DEF CloseErase, TaskOperands, EntriesExist, TypeInv, TypeOK
  <2> QED
    BY <1>2, <2>1, <2>2, <2>3, <2>4 DEF CloseErase, TypeInv, TypeOK, connVars, pairVars
<1>3. CASE OnCloseDisconnect
  <2> DEFINE id == GetClientId(asio.client)
  <2>1. asio.client \in Clients
    BY <1>3 DEF OnCloseDisconnect, HandlerOperands, ClosingPCs, TypeInv
  <2>2. id \in Ids
    BY <2>1 DEF GetClientId, TypeInv, TypeOK
  <2>3. Disconnect(id)
    BY <1>3 DEF OnCloseDisconnect
  <2>4. ConnTypes' /\ out' \subseteq Frames
    <3>1. CASE HasClient(id)
      <4>1. id \in Clients
        BY <3>1 DEF HasClient, TypeInv, TypeOK
      <4>2. ConnTypes'
        BY <2>3, <3>1, <4>1, ConnTypesKept DEF ConnTypes, TypeInv, TypeOK
      <4>3. CASE GetPair(id) # NoId
        <5>1. GetPair(id) \in Clients
          BY <2>3, <3>1, <4>3 DEF Disconnect, HasClient, TypeInv, TypeOK
        <5>2. Deliver(GetPair(id), "break", id, GetPair(id), "209") \subseteq Frames
          BY <2>2, <5>1, DeliverTyped DEF FrameTypes, Payloads
        <5> QED
          BY <2>3, <3>1, <4>2, <4>3, <5>2 DEF Disconnect
      <4>4. CASE GetPair(id) = NoId
        BY <2>3, <3>1, <4>2, <4>4 DEF Disconnect
      <4> QED
        BY <4>3, <4>4
    <3>2. CASE ~HasClient(id)
      BY <2>3, <3>2 DEF Disconnect, ConnTypes, connVars, pairVars, TypeInv, TypeOK
    <3> QED
      BY <3>1, <3>2
  <2> HIDE DEF id
  <2>5. session' \in [Clients -> SessionStates]
    BY <1>3 DEF OnCloseDisconnect, TypeInv, TypeOK, SessionStates
  <2>6. asio' \in Handlers /\ HandlerOperands'
    BY <1>3, TimerIdBounds
    DEF OnCloseDisconnect, Idle, Handlers, HandlerOperands, SendingPCs, ClosingPCs,
        Clearing, NoKey
  <2> QED
    BY <1>3, <2>4, <2>5, <2>6
    DEF OnCloseDisconnect, ConnTypes, TypeInv, TypeOK, TaskOperands, EntriesExist, timerVars
<1>4. CASE OnCloseThrows
  BY <1>4, ThrowsTypes DEF OnCloseThrows
<1> QED
  BY <1>1, <1>2, <1>3, <1>4 DEF ClosingSteps

-----------------------------------------------------------------------------
(* The timer threads.                                                      *)

\* A step that moves one thread and keeps the operands of its task.
LEMMA MovedThread ==
    ASSUME TypeInv, NEW t \in TimerIds, NEW new \in Tasks,
           new.key = task[t].key, new.target = task[t].target,
           new.source = task[t].source, task[t].pc # "none", new.pc # "none",
           task' = [task EXCEPT ![t] = new], UNCHANGED <<session, asio, counter>>
    PROVE  /\ task' \in [TimerIds -> Tasks]
           /\ HandlerOperands'
           /\ TaskOperands'
           /\ \A k \in Keys : timers[k] # 0 => task'[timers[k]].pc # "none"
<1>1. task' \in [TimerIds -> Tasks]
  BY DEF TypeInv, TypeOK
<1>2. \A u \in TimerIds : task'[u] = IF u = t THEN new ELSE task[u]
  BY DEF TypeInv, TypeOK
<1>3. HandlerOperands'
  BY <1>2 DEF HandlerOperands, TypeInv, SendingPCs, ClosingPCs, Clearing
<1>4. TaskOperands'
  BY <1>2 DEF TaskOperands, TypeInv
<1>5. \A k \in Keys : timers[k] # 0 => timers[k] \in TimerIds
  BY DEF TypeInv, TypeOK, TimerIds
<1>6. \A k \in Keys : timers[k] # 0 => task'[timers[k]].pc # "none"
  BY <1>2, <1>5 DEF EntriesExist, TypeInv
<1> QED
  BY <1>1, <1>3, <1>4, <1>6

\* Such a step that leaves timers alone.
LEMMA QuietThread ==
    ASSUME TypeInv, NEW t \in TimerIds, NEW new \in Tasks,
           new.key = task[t].key, new.target = task[t].target,
           new.source = task[t].source, task[t].pc # "none", new.pc # "none",
           task' = [task EXCEPT ![t] = new], out' \subseteq Frames,
           UNCHANGED <<session, alive, asio, counter, timers, connVars>>
    PROVE  TypeInv'
BY MovedThread DEF TypeInv, TypeOK, EntriesExist, connVars, pairVars

\* Moving a thread on makes a task with the same operands.
LEMMA SetPCTypes ==
    ASSUME TypeInv, NEW t \in TimerIds, NEW pc \in ThreadPCs \ {"none"}, SetPC(t, pc)
    PROVE  \E new \in Tasks : /\ new.key = task[t].key
                              /\ new.target = task[t].target
                              /\ new.source = task[t].source
                              /\ new.pc # "none"
                              /\ task' = [task EXCEPT ![t] = new]
<1> DEFINE new == [task[t] EXCEPT !.pc = pc]
<1>1. task[t] \in Tasks
  BY DEF TypeInv, TypeOK
<1>2. /\ new \in Tasks /\ new.pc = pc /\ new.key = task[t].key
      /\ new.target = task[t].target /\ new.source = task[t].source
  BY <1>1 DEF Tasks
<1>3. task' = [task EXCEPT ![t] = new]
  BY DEF SetPC
<1> HIDE DEF new
<1> QED
  BY <1>2, <1>3

\* The steps of a timer thread keep the types.
LEMMA ThreadStepTypes ==
    ASSUME TypeInv, NEW t \in TimerIds, ThreadStep(t), UNCHANGED connVars
    PROVE  TypeInv'
<1> USE IdsContain
<1>0. task[t] \in Tasks
  BY DEF TypeInv, TypeOK
<1>1. CASE Wake(t)
  <2>1. task[t].pc # "none" /\ out' \subseteq Frames
    BY <1>1 DEF Wake
  <2>2. (IF task[t].active THEN "check" ELSE "exit") \in ThreadPCs \ {"none"}
    BY DEF ThreadPCs
  <2> QED
    BY <1>1, <2>1, <2>2, SetPCTypes, QuietThread DEF Wake
<1>2. CASE CheckTarget(t)
  <2>1. task[t].pc # "none" /\ out' \subseteq Frames
    BY <1>2 DEF CheckTarget
  <2>2. (IF session[task[t].target] = "open" THEN "send" ELSE "abort")
            \in ThreadPCs \ {"none"}
    BY DEF ThreadPCs
  <2> QED
    BY <1>2, <2>1, <2>2, SetPCTypes, QuietThread DEF CheckTarget
<1>3. CASE CallbackThrows(t)
  BY <1>3
  DEF CallbackThrows, Terminate, TypeInv, TypeOK, HandlerOperands, TaskOperands,
      EntriesExist, timerVars, connVars, pairVars
<1>4. CASE SendPulse(t)
  <2> DEFINE left == task[t].remaining - 1
             pc == IF left <= 0 THEN "finish" ELSE "sleep"
             new == [task[t] EXCEPT !.remaining = left, !.pc = pc]
  <2>0. left \in Int
    BY <1>0 DEF Tasks
  <2>1. pc \in ThreadPCs \ {"none"}
    BY DEF ThreadPCs
  <2>2. task' = [task EXCEPT ![t] = new]
    BY <1>4, <1>0 DEF SendPulse, TypeInv, TypeOK, Tasks
  <2> HIDE DEF pc, left
  <2>3. /\ new \in Tasks /\ new.pc = pc /\ new.key = task[t].key
        /\ new.target = task[t].target /\ new.source = task[t].source
    BY <1>0, <2>0, <2>1 DEF Tasks
  <2>4. task[t].pc # "none" /\ new.pc # "none"
    BY <1>4, <2>1, <2>3 DEF SendPulse
  <2>5. task[t].key[1] \in Clients /\ task[t].target \in Clients
    BY <2>4 DEF TypeInv, TaskOperands, Keys
  <2>6. out' \subseteq Frames
    BY <1>4, <2>5, DeliverTyped DEF SendPulse, FrameTypes, Payloads
  <2> HIDE DEF new
  <2> QED
    BY <1>4, <2>2, <2>3, <2>4, <2>6, QuietThread DEF SendPulse
<1>5. CASE EraseOwnEntry(t)
  <2> DEFINE pc == IF task[t].pc = "finish" THEN "notify" ELSE "exit"
             new == [task[t] EXCEPT !.active = FALSE, !.pc = pc]
  <2>1. pc \in ThreadPCs \ {"none"}
    BY DEF ThreadPCs
  <2>2. task' = [task EXCEPT ![t] = new]
    BY <1>5, <1>0 DEF EraseOwnEntry, TypeInv, TypeOK, Tasks
  <2> HIDE DEF pc
  <2>3. /\ new \in Tasks /\ new.pc = pc /\ new.key = task[t].key
        /\ new.target = task[t].target /\ new.source = task[t].source
    BY <1>0, <2>1 DEF Tasks
  <2>4. task[t].pc # "none" /\ new.pc # "none"
    BY <1>5, <2>1, <2>3 DEF EraseOwnEntry
  <2> HIDE DEF new
  <2>5. /\ task' \in [TimerIds -> Tasks] /\ HandlerOperands' /\ TaskOperands'
        /\ \A k \in Keys : timers[k] # 0 => task'[timers[k]].pc # "none"
    BY <1>5, <2>2, <2>3, <2>4, MovedThread DEF EraseOwnEntry
  <2>6. timers' = [timers EXCEPT ![task[t].key] = 0]
    BY <1>5 DEF EraseOwnEntry
  <2>7. timers' \in [Keys -> 0 .. MaxTimers]
    BY <2>6, TimerIdBounds DEF TypeInv, TypeOK
  <2>8. EntriesExist'
    BY <2>5, <2>6 DEF EntriesExist, TypeInv, TypeOK
  <2> QED
    BY <1>5, <2>5, <2>7, <2>8 DEF EraseOwnEntry, TypeInv, TypeOK, connVars, pairVars
<1>6. CASE NotifyDone(t)
  <2>1. task[t].pc # "none" /\ "exit" \in ThreadPCs \ {"none"}
    BY <1>6 DEF NotifyDone, ThreadPCs
  <2>2. task[t].key[1] \in Clients /\ task[t].target \in Clients /\ task[t].source \in Clients
    BY <2>1 DEF TypeInv, TaskOperands, Keys
  <2>3. out' \subseteq Frames
    BY <1>6, <2>2, DeliverTyped DEF NotifyDone, FrameTypes, Payloads
  <2> QED
    BY <1>6, <2>1, <2>3, SetPCTypes, QuietThread DEF NotifyDone
<1>7. CASE ThreadExit(t)
  <2>1. task[t].pc # "none" /\ out' \subseteq Frames
    BY <1>7 DEF ThreadExit
  <2>2. "gone" \in ThreadPCs \ {"none"}
    BY DEF ThreadPCs
  <2> QED
    BY <1>7, <2>1, <2>2, SetPCTypes, QuietThread DEF ThreadExit
<1> QED
  BY <1>1, <1>2, <1>3, <1>4, <1>5, <1>6, <1>7 DEF ThreadStep

-----------------------------------------------------------------------------
(* Type correctness.                                                       *)

\* Every step keeps the types.
LEMMA NextTypes == ASSUME TypeInv, [Next]_vars PROVE TypeInv'
<1>1. CASE \E c \in Clients : OnOpen(c) \/ OnMessage(c) \/ OnClose(c) \/ Network(c)
  BY <1>1, OnOpenTypes, OnMessageTypes, OnCloseTypes, NetworkTypes
<1>2. CASE ClosingSteps
  BY <1>2, ClosingStepTypes
<1>3. CASE SendSteps /\ UNCHANGED connVars
  BY <1>3, SendStepTypes
<1>4. CASE \E t \in TimerIds : ThreadStep(t) /\ UNCHANGED connVars
  BY <1>4, ThreadStepTypes
<1>5. CASE UNCHANGED vars
  BY <1>5 DEF vars, connVars, pairVars, timerVars, TypeInv, TypeOK, HandlerOperands,
              TaskOperands, EntriesExist
<1> QED
  BY <1>1, <1>2, <1>3, <1>4, <1>5 DEF Next

\* The strengthened type invariant holds in every behaviour.
LEMMA TypeInvariant == Spec => []TypeInv
BY InitTypes, NextTypes, PTL DEF Spec

\* Every map, every task and every frame has its type, whatever the clients send
\* and however the threads interleave: no handler stores an id, a key or a timer
\* that does not exist.
THEOREM TypeCorrect == Spec => []TypeOK
<1>1. TypeInv => TypeOK
  BY DEF TypeInv
<1> QED
  BY <1>1, TypeInvariant, PTL
-----------------------------------------------------------------------------
(* Who is registered and who is paired, for any set of bind requests.      *)

\* The steps that touch a session or a map of the connection manager.
LEMMA ConnectionSteps ==
    ASSUME [Next]_vars
    PROVE  \/ \E c \in Clients : OnOpen(c) \/ Network(c)
           \/ \E b \in Binds : HandleBind(b[1], b[2], b[3])
           \/ OnCloseDisconnect
           \/ UNCHANGED <<session, connVars>>
<1>1. CASE \E c \in Clients : OnMessage(c)
  <2> PICK c \in Clients : OnMessage(c)
    BY <1>1
  <2>1. CASE \E b \in Binds : b[1] = c /\ HandleBind(c, b[2], b[3])
    BY <2>1
  <2>2. CASE ~ \E b \in Binds : b[1] = c /\ HandleBind(c, b[2], b[3])
    <3> DEFINE Kept == UNCHANGED <<session, connVars>>
    <3>1. Throws \/ (\E frames : Answer(frames)) => Kept
      BY DEF Throws, Answer
    <3> HIDE DEF Kept
    <3>0. ASSUME \/ RootThrows(c) \/ IdThrows(c)
                 \/ \E i, j \in Ids : FieldThrows(c, i, j)
          PROVE  Kept
      BY <3>0, <3>1, MalformedThrows
    <3>2. RejectMalformed(c) \/ (\E b \in Binds : RefuseBind(c, b[2], b[3])) => Kept
      BY <3>1 DEF RejectMalformed, RefuseBind
    <3>3. ASSUME NEW i \in Ids, NEW j \in Ids,
                 \/ RejectSource(c, i, j)
                 \/ HandleHeartbeat(c, i, j)
                 \/ \E type \in {"error", "msg"} : RefuseUnpaired(c, i, j, type)
                 \/ ForwardMessage(c, i, j)
                 \/ RefuseNoChannel(c, i, j)
          PROVE  Kept
      BY <3>1, <3>3 DEF RejectSource, HandleHeartbeat, RefuseUnpaired, ForwardMessage,
                        RefuseNoChannel
    <3>4. ASSUME NEW i \in Ids, NEW j \in Ids, NEW readable \in FieldForms,
                 NEW success \in BOOLEAN,
                 HandleStrengthAdjust(c, i, j, readable, success)
          PROVE  Kept
      BY <3>1, <3>4 DEF HandleStrengthAdjust, RelayToTarget
    <3>5. ASSUME NEW i \in Ids, NEW j \in Ids, NEW channel \in Channels,
                 NEW time \in Times, NEW readable \in FieldForms,
                 HandleClientMessage(c, i, j, channel, time, readable)
          PROVE  Kept
      BY <3>1, <3>5 DEF HandleClientMessage, Kept
    <3>6. ASSUME NEW i \in Ids, NEW j \in Ids, NEW success \in BOOLEAN,
                 HandleCustomStrength(c, i, j, success)
          PROVE  Kept
      BY <3>1, <3>6 DEF HandleCustomStrength, RelayToTarget
    <3>7. Kept
      BY <2>2, <3>0, <3>2, <3>3, <3>4, <3>5, <3>6 DEF OnMessage
    <3> QED
      BY <3>7 DEF Kept
  <2> QED
    BY <2>1, <2>2
<1>2. CASE \E c \in Clients : OnClose(c)
  BY <1>2 DEF OnClose
<1>3. CASE ClosingSteps
  BY <1>3 DEF ClosingSteps, CloseStop, CloseErase, OnCloseThrows, Throws
<1>4. CASE SendSteps /\ UNCHANGED connVars
  BY <1>4
  DEF SendSteps, OverrideEntry, ClearTimerFind, ClearTimerCopy, ClearTimerStop,
      ClearTimerErase, StartSingle, StartRepeating, InsertEntry, EntryVanished
<1>5. CASE \E t \in TimerIds : ThreadStep(t) /\ UNCHANGED connVars
  BY <1>5
  DEF ThreadStep, Wake, CheckTarget, CallbackThrows, SendPulse, EraseOwnEntry, NotifyDone,
      ThreadExit
<1>6. CASE UNCHANGED vars
  BY <1>6 DEF vars
<1> QED
  BY <1>1, <1>2, <1>3, <1>4, <1>5, <1>6 DEF Next

\* The end of on_close, when the client is registered: it leaves with its pairing.
LEMMA OnCloseLeaves ==
    ASSUME TypeInv, RegisteredWhileConnected, OnCloseDisconnect
    PROVE  \E c \in connections :
              /\ session[c] = "closed"
              /\ session' = [session EXCEPT ![c] = "detached"]
              /\ connections' = connections \ {c}
              /\ hdlToId' = [hdlToId EXCEPT ![c] = NoId]
              /\ IF GetPair(c) # NoId THEN Unpair(c) ELSE UNCHANGED pairVars
<1> DEFINE c == asio.client
<1>1. c \in Clients /\ session[c] = "closed"
  BY DEF OnCloseDisconnect, TypeInv, HandlerOperands, ClosingPCs
<1>2. c \in connections /\ GetClientId(c) = c
  BY <1>1 DEF RegisteredWhileConnected, GetClientId
<1>3. Disconnect(c) /\ session' = [session EXCEPT ![c] = "detached"]
  BY <1>2 DEF OnCloseDisconnect
<1>4. HasClient(c)
  BY <1>2 DEF HasClient
<1> HIDE DEF c
<1>5. /\ connections' = connections \ {c}
      /\ hdlToId' = [hdlToId EXCEPT ![c] = NoId]
      /\ IF GetPair(c) # NoId THEN Unpair(c) ELSE UNCHANGED pairVars
  BY <1>3, <1>4 DEF Disconnect
<1> QED
  BY <1>1, <1>2, <1>3, <1>5

\* Every step keeps the registration of clients exact.
LEMMA RegisteredStep ==
    ASSUME TypeInv, RegisteredWhileConnected, [Next]_vars
    PROVE  RegisteredWhileConnected'
<1> USE DEF RegisteredWhileConnected, TypeInv, TypeOK
<1>1. ASSUME NEW c \in Clients, OnOpen(c)
      PROVE  RegisteredWhileConnected'
  BY <1>1 DEF OnOpen, RegisterConn
<1>2. ASSUME NEW c \in Clients, Network(c)
      PROVE  RegisteredWhileConnected'
  BY <1>2 DEF Network, PeerCloses, Drop, Release, connVars
<1>3. ASSUME NEW b \in Binds, HandleBind(b[1], b[2], b[3])
      PROVE  RegisteredWhileConnected'
  BY <1>3 DEF HandleBind, Pair
<1>4. CASE OnCloseDisconnect
  BY <1>4, OnCloseLeaves
<1>5. CASE UNCHANGED <<session, connVars>>
  BY <1>5 DEF connVars
<1> QED
  BY <1>1, <1>2, <1>3, <1>4, <1>5, ConnectionSteps

\* Nobody is connected or registered at the start.
LEMMA InitRegistered == Init => RegisteredWhileConnected
BY DEF Init, EndpointInit, ConnectionManagerInit, RegisteredWhileConnected

\* Every step keeps the two pairing maps each other's inverse.
LEMMA InverseStep ==
    ASSUME TypeInv, RegisteredWhileConnected, PairingsInverse, [Next]_vars
    PROVE  PairingsInverse'
<1> USE DEF TypeInv, TypeOK
<1>1. ASSUME NEW c \in Clients, OnOpen(c) \/ Network(c)
      PROVE  PairingsInverse'
  BY <1>1 DEF OnOpen, RegisterConn, Network, connVars, pairVars, PairingsInverse
<1>2. ASSUME NEW b \in Binds, HandleBind(b[1], b[2], b[3])
      PROVE  PairingsInverse'
  <2> DEFINE web == b[2]
             app == b[3]
  <2>1. /\ web \in Clients /\ app \in Clients
        /\ pairings[web] = NoId /\ reversePairings[app] = NoId
        /\ pairings' = [pairings EXCEPT ![web] = app]
        /\ reversePairings' = [reversePairings EXCEPT ![app] = web]
    BY <1>2 DEF HandleBind, Pair, PairRefused, HasClient
  <2> HIDE DEF web, app
  <2> QED
    BY <2>1 DEF PairingsInverse
<1>3. CASE OnCloseDisconnect
  <2>1. PICK c \in connections :
            IF GetPair(c) # NoId THEN Unpair(c) ELSE UNCHANGED pairVars
    BY <1>3, OnCloseLeaves
  <2>2. CASE GetPair(c) # NoId
    <3> DEFINE w == WebSide(c)
               a == AppSide(c)
    <3>1. w \in Clients /\ a \in Clients /\ pairings[w] = a /\ reversePairings[a] = w
      BY <2>2 DEF GetPair, WebSide, AppSide, PairingsInverse, Ids
    <3>2. /\ pairings' = [pairings EXCEPT ![w] = NoId]
          /\ reversePairings' = [reversePairings EXCEPT ![a] = NoId]
      BY <2>1, <2>2 DEF Unpair
    <3> HIDE DEF w, a
    <3> QED
      BY <3>1, <3>2 DEF PairingsInverse
  <2>3. CASE GetPair(c) = NoId
    BY <2>1, <2>3 DEF pairVars, PairingsInverse
  <2> QED
    BY <2>2, <2>3
<1>4. CASE UNCHANGED <<session, connVars>>
  BY <1>4 DEF connVars, pairVars, PairingsInverse
<1> QED
  BY <1>1, <1>2, <1>3, <1>4, ConnectionSteps

\* Both maps are empty at the start.
LEMMA InitInverse == Init => PairingsInverse
BY DEF Init, ConnectionManagerInit, PairingsInverse

\* connections and hdlToId hold exactly the clients between on_open and the end of
\* their own on_close, each under its own id.
THEOREM Registered == Spec => []RegisteredWhileConnected
<1>1. TypeInv /\ RegisteredWhileConnected /\ [Next]_vars => RegisteredWhileConnected'
  BY RegisteredStep
<1> QED
  BY <1>1, InitRegistered, TypeInvariant, PTL DEF Spec

\* pairings and reversePairings stay each other's inverse through every sequence of
\* pair and unpair, also when clients name themselves or take both roles.
THEOREM MapsInverse == Spec => []PairingsInverse
<1>1. TypeInv /\ RegisteredWhileConnected /\ PairingsInverse /\ [Next]_vars
          => PairingsInverse'
  BY InverseStep
<1> QED
  BY <1>1, InitInverse, TypeInvariant, Registered, PTL DEF Spec

-----------------------------------------------------------------------------
(* Pairing when clients keep to their roles.                               *)

\* No client is named as the web page in one bind request and as the app in another.
RolesDisjoint == \A p, q \in Binds : p[2] # q[3]

\* A pairing was asked for, and both of its ends are connected.
PairsBound ==
    \A w, a \in Clients : pairings[w] = a =>
        /\ \E b \in Binds : b[2] = w
        /\ \E b \in Binds : b[3] = a
        /\ w \in connections /\ a \in connections

ConnInv == TypeInv /\ RegisteredWhileConnected /\ PairingsInverse

\* What holds of the connection maps for any bind requests.
LEMMA ConnInvariant == Spec => []ConnInv
BY TypeInvariant, Registered, MapsInverse, PTL DEF ConnInv

\* No client is the web end of one pairing and the app end of another.
OneRole == \A c \in Clients : pairings[c] = NoId \/ reversePairings[c] = NoId

\* With disjoint roles, pairs that were asked for keep each client to one map.
LEMMA BoundOnce == ASSUME RolesDisjoint, ConnInv, PairsBound PROVE OneRole
BY DEF RolesDisjoint, ConnInv, PairsBound, OneRole, PairingsInverse, TypeInv, TypeOK, Ids

\* A client that is in one map only is in one pairing only: the maps are functions, and
\* each is the other's inverse.
LEMMA OneRoleOnePartner ==
    ASSUME ConnInv, OneRole
    PROVE  OnePartner
<1> USE DEF ConnInv, TypeInv, TypeOK
<1>1. ASSUME NEW c \in Clients, NEW d \in Clients, NEW e \in Clients,
             Partners(c, d), Partners(c, e)
      PROVE  d = e
  <2>1. c # NoId /\ d # NoId /\ e # NoId
    BY EndpointAssumption
  <2>2. CASE pairings[c] # NoId
    <3>1. reversePairings[c] = NoId
      BY <2>2 DEF OneRole
    <3>2. pairings[d] # c /\ pairings[e] # c
      BY <2>1, <3>1 DEF PairingsInverse
    <3> QED
      BY <1>1, <3>2 DEF Partners
  <2>3. CASE pairings[c] = NoId
    <3>1. reversePairings[c] = d /\ reversePairings[c] = e
      BY <1>1, <2>1, <2>3 DEF Partners, PairingsInverse
    <3> QED
      BY <3>1
  <2> QED
    BY <2>2, <2>3
<1> QED
  BY <1>1 DEF OnePartner

\* Both ends of a bound pair are connected, seen from either end.
LEMMA BoundConnected == ASSUME ConnInv, PairsBound PROVE PairedAreConnected
BY DEF ConnInv, PairsBound, PairedAreConnected, PairingsInverse, GetPair, TypeInv, TypeOK,
       Ids

\* Every step keeps pairings bound and connected.
LEMMA PairsBoundStep ==
    ASSUME RolesDisjoint, ConnInv, PairsBound, [Next]_vars
    PROVE  PairsBound'
<1> USE DEF ConnInv, TypeInv, TypeOK
<1>1. ASSUME NEW c \in Clients, OnOpen(c) \/ Network(c)
      PROVE  PairsBound'
  BY <1>1 DEF OnOpen, RegisterConn, Network, connVars, pairVars, PairsBound
<1>2. ASSUME NEW b \in Binds, HandleBind(b[1], b[2], b[3])
      PROVE  PairsBound'
  BY <1>2 DEF HandleBind, Pair, PairRefused, HasClient, PairsBound
<1>3. CASE OnCloseDisconnect
  <2>1. PICK c \in connections :
            /\ connections' = connections \ {c}
            /\ IF GetPair(c) # NoId THEN Unpair(c) ELSE UNCHANGED pairVars
    BY <1>3, OnCloseLeaves
  <2>2. pairings[c] = NoId \/ reversePairings[c] = NoId
    BY BoundOnce DEF OneRole
  <2>3. \A w, a \in Clients : pairings'[w] = a => pairings[w] = a /\ w # c /\ a # c
    <3>1. CASE pairings[c] # NoId
      BY <2>1, <2>2, <3>1 DEF GetPair, Unpair, WebSide, AppSide, PairingsInverse, Ids
    <3>2. CASE pairings[c] = NoId /\ reversePairings[c] # NoId
      BY <2>1, <2>2, <3>2 DEF GetPair, Unpair, WebSide, AppSide, PairingsInverse, Ids
    <3>3. CASE pairings[c] = NoId /\ reversePairings[c] = NoId
      BY <2>1, <3>3 DEF GetPair, pairVars, PairingsInverse, Ids
    <3> QED
      BY <3>1, <3>2, <3>3
  <2> QED
    BY <2>1, <2>3 DEF PairsBound
<1>4. CASE UNCHANGED <<session, connVars>>
  BY <1>4 DEF connVars, pairVars, PairsBound
<1> QED
  BY <1>1, <1>2, <1>3, <1>4, ConnectionSteps

\* Pairings are always bound and connected.
LEMMA PairsBoundInvariant == ASSUME RolesDisjoint PROVE Spec => []PairsBound
<1>1. Init => PairsBound
  BY DEF Init, ConnectionManagerInit, PairsBound
<1>2. ConnInv /\ PairsBound /\ [Next]_vars => PairsBound'
  BY PairsBoundStep
<1> QED
  BY <1>1, <1>2, ConnInvariant, PTL DEF Spec

\* When no client is named as a web page in one bind request and as an app in another, a
\* client has one partner at most, however many requests name it: the test of pair(),
\* which looks at one map for each side, keeps the second of two apps from a web page and
\* the second of two web pages from an app, and only the third way to a second partner,
\* the one in the other role, is left to what clients ask for.
THEOREM SinglePartner == ASSUME RolesDisjoint PROVE Spec => []OnePartner
<1>1. ConnInv /\ PairsBound => OnePartner
  BY BoundOnce, OneRoleOnePartner
<1> QED
  BY <1>1, ConnInvariant, PairsBoundInvariant, PTL

\* When roles are disjoint, a pairing ends with the on_close of either end:
\* disconnect's connections.at(pairId) always finds its entry.
THEOREM PairsStayConnected == ASSUME RolesDisjoint PROVE Spec => []PairedAreConnected
<1>1. ConnInv /\ PairsBound => PairedAreConnected
  BY BoundConnected
<1> QED
  BY <1>1, ConnInvariant, PairsBoundInvariant, PTL
-----------------------------------------------------------------------------
(* The maps implement the registry of pairs.                               *)

\* What the end of on_close leaves of the pairings.
LEMMA OnCloseUnpairs ==
    ASSUME RolesDisjoint, ConnInv, PairsBound, OnCloseDisconnect
    PROVE  \E c \in connections :
              /\ connections' = connections \ {c}
              /\ \A w \in Clients :
                    pairings'[w] = IF w = c \/ pairings[w] = c THEN NoId ELSE pairings[w]
<1> USE DEF ConnInv, TypeInv, TypeOK
<1>1. PICK c \in connections :
          /\ connections' = connections \ {c}
          /\ IF GetPair(c) # NoId THEN Unpair(c) ELSE UNCHANGED pairVars
  BY OnCloseLeaves
<1>2. pairings[c] = NoId \/ reversePairings[c] = NoId
  BY BoundOnce DEF OneRole
<1>3. CASE pairings[c] # NoId
  BY <1>1, <1>2, <1>3 DEF GetPair, Unpair, WebSide, AppSide, PairingsInverse, Ids
<1>4. CASE pairings[c] = NoId /\ reversePairings[c] # NoId
  <2>1. pairings[reversePairings[c]] = c
    BY <1>4 DEF PairingsInverse, Ids
  <2>2. pairings' = [pairings EXCEPT ![reversePairings[c]] = NoId]
    BY <1>1, <1>4 DEF GetPair, Unpair, WebSide
  <2>3. \A w \in Clients : pairings[w] = c => w = reversePairings[c]
    BY DEF PairingsInverse
  <2> QED
    BY <1>1, <1>4, <2>1, <2>2, <2>3
<1>5. CASE pairings[c] = NoId /\ reversePairings[c] = NoId
  BY <1>1, <1>5 DEF GetPair, pairVars, PairingsInverse, Ids
<1> QED
  BY <1>3, <1>4, <1>5

bondsBar == {{c, pairings[c]} : c \in {w \in Clients : pairings[w] # NoId}}

\* A bond is a web page with its entry in pairings.
LEMMA BondMembers ==
    \A b : b \in bondsBar <=> \E w \in Clients : pairings[w] # NoId /\ b = {w, pairings[w]}
BY DEF bondsBar

\* The same after a step.
LEMMA BondMembersNext ==
    \A b : b \in bondsBar' <=>
        \E w \in Clients : pairings'[w] # NoId /\ b = {w, pairings'[w]}
BY DEF bondsBar

\* A bind that is not refused bonds two clients of the registry.
LEMMA BindBonds ==
    ASSUME RolesDisjoint, ConnInv, PairsBound, NEW b \in Binds,
           HandleBind(b[1], b[2], b[3])
    PROVE  Registry!Bond(b[2], b[3])
<1> DEFINE web == b[2]
           app == b[3]
<1> USE DEF ConnInv, TypeInv, TypeOK
<1>1. /\ web \in connections /\ app \in connections
      /\ pairings[web] = NoId /\ reversePairings[app] = NoId
      /\ pairings' = [pairings EXCEPT ![web] = app]
      /\ connections' = connections
  BY DEF HandleBind, Pair, PairRefused, HasClient
<1>2. web # app
  BY DEF RolesDisjoint
<1>3. \A w \in Clients : pairings[w] # NoId =>
          pairings[w] # web /\ pairings[w] # app /\ w # web
  <2> SUFFICES ASSUME NEW w \in Clients, pairings[w] # NoId
               PROVE  pairings[w] # web /\ pairings[w] # app /\ w # web
    OBVIOUS
  <2>1. pairings[w] # web
    BY <1>1 DEF PairsBound, RolesDisjoint
  <2>2. pairings[w] # app
    BY <1>1 DEF PairingsInverse
  <2> QED
    BY <1>1, <2>1, <2>2
<1>4. \A w \in Clients : pairings[w] # NoId => w # app
  BY <1>1 DEF PairsBound, RolesDisjoint, Ids
<1> HIDE DEF web, app
<1>5. web \in Clients /\ app \in Clients /\ app # NoId
  BY <1>1
<1>6. \A e \in bondsBar : web \notin e /\ app \notin e
  BY <1>1, <1>3, <1>4, BondMembers
<1>7. bondsBar' = bondsBar \cup {{web, app}}
  <2>1. ASSUME NEW e, e \in bondsBar'
        PROVE  e \in bondsBar \/ e = {web, app}
    <3>1. PICK w \in Clients : pairings'[w] # NoId /\ e = {w, pairings'[w]}
      BY <2>1, BondMembersNext
    <3>2. CASE w = web
      BY <1>1, <1>5, <3>1, <3>2
    <3>3. CASE w # web
      BY <1>1, <3>1, <3>3, BondMembers
    <3> QED
      BY <3>2, <3>3
  <2>2. ASSUME NEW e \in bondsBar
        PROVE  e \in bondsBar'
    <3>1. PICK w \in Clients : pairings[w] # NoId /\ e = {w, pairings[w]}
      BY BondMembers
    <3>2. w # web /\ pairings'[w] = pairings[w]
      BY <1>1, <3>1
    <3> QED
      BY <3>1, <3>2, BondMembersNext
  <2>3. {web, app} \in bondsBar'
    <3>1. pairings'[web] = app
      BY <1>1, <1>5
    <3> QED
      BY <1>5, <3>1, BondMembersNext
  <2>4. \A e : e \in bondsBar' <=> e \in bondsBar \/ e = {web, app}
    BY <2>1, <2>2, <2>3
  <2> QED
    BY <2>4
<1>8. ~Registry!Bonded(web) /\ ~Registry!Bonded(app)
  BY <1>6 DEF Registry!Bonded, bondsBar
<1> QED
  BY <1>1, <1>2, <1>7, <1>8 DEF Registry!Bond, bondsBar, web, app

\* The end of on_close makes a client leave the registry.
LEMMA CloseLeavesRegistry ==
    ASSUME RolesDisjoint, ConnInv, PairsBound, OnCloseDisconnect
    PROVE  \E c \in Clients : Registry!Leave(c)
<1> USE DEF ConnInv, TypeInv, TypeOK
<1>1. PICK c \in connections :
          /\ connections' = connections \ {c}
          /\ \A w \in Clients :
                pairings'[w] = IF w = c \/ pairings[w] = c THEN NoId ELSE pairings[w]
  BY OnCloseUnpairs
<1>2. bondsBar' = {e \in bondsBar : c \notin e}
  <2>1. ASSUME NEW e, e \in bondsBar'
        PROVE  e \in bondsBar /\ c \notin e
    BY <1>1, <2>1, BondMembers, BondMembersNext
  <2>2. ASSUME NEW e \in bondsBar, c \notin e
        PROVE  e \in bondsBar'
    <3>1. PICK w \in Clients : pairings[w] # NoId /\ e = {w, pairings[w]}
      BY BondMembers
    <3>2. pairings'[w] = pairings[w]
      BY <1>1, <2>2, <3>1
    <3> QED
      BY <3>1, <3>2, BondMembersNext
  <2> QED
    BY <2>1, <2>2
<1> QED
  BY <1>1, <1>2 DEF Registry!Leave, bondsBar

\* Every step is a step of the registry or leaves it alone.
LEMMA RegistryStep ==
    ASSUME RolesDisjoint, ConnInv, PairsBound, [Next]_vars
    PROVE  [Registry!Next]_<<connections, bondsBar>>
<1> USE DEF ConnInv, TypeInv, TypeOK
<1>1. ASSUME NEW c \in Clients, OnOpen(c)
      PROVE  Registry!Join(c)
  BY <1>1 DEF OnOpen, RegisterConn, pairVars, RegisteredWhileConnected, Registry!Join
<1>2. ASSUME NEW c \in Clients, Network(c)
      PROVE  UNCHANGED <<connections, bondsBar>>
  BY <1>2 DEF Network, connVars, pairVars, bondsBar
<1>3. ASSUME NEW b \in Binds, HandleBind(b[1], b[2], b[3])
      PROVE  \E c, d \in Clients : Registry!Bond(c, d)
  BY <1>3, BindBonds DEF HandleBind, Pair, PairRefused, HasClient
<1>4. CASE OnCloseDisconnect
  BY <1>4, CloseLeavesRegistry DEF Registry!Next
<1>5. CASE UNCHANGED <<session, connVars>>
  BY <1>5 DEF connVars, pairVars, bondsBar
<1> QED
  BY <1>1, <1>2, <1>3, <1>4, <1>5, ConnectionSteps DEF Registry!Next

\* When roles are disjoint, every behaviour of the server is one of the registry of
\* pairs: connecting, a bind that is not refused and the end of on_close are the only
\* steps that change who is there and who is paired, and on_close takes the client
\* and its pairing away in one step.
THEOREM RegistryImplemented == ASSUME RolesDisjoint PROVE Spec => ImplementsRegistry
<1>1. Init => Registry!Init
  BY DEF Init, ConnectionManagerInit, Registry!Init
<1>2. ConnInv /\ PairsBound /\ [Next]_vars => [Registry!Next]_<<connections, bondsBar>>
  BY RegistryStep
<1> QED
  BY <1>1, <1>2, ConnInvariant, PairsBoundInvariant, PTL
  DEF Spec, ImplementsRegistry, Registry!Spec, bondsBar

-----------------------------------------------------------------------------
(* Where relayed messages go.                                              *)

\* A delivered frame carries the fields that were sent.
LEMMA Delivered ==
    ASSUME NEW to, NEW type, NEW clientId, NEW targetId, NEW message,
           NEW f \in Deliver(to, type, clientId, targetId, message)
    PROVE  /\ f.to = to /\ f.clientId = clientId /\ f.targetId = targetId
           /\ f.message = message
BY DEF Deliver, Frame

\* Pairedness is symmetric and names one partner.
LEMMA PartnerUnique ==
    ASSUME ConnInv, OneRole, NEW a \in Ids, NEW b \in Ids, IsPaired(a, b)
    PROVE  /\ IsPaired(b, a)
           /\ \A c \in Clients : IsPaired(c, b) => c = a
<1> USE DEF ConnInv, TypeInv, TypeOK
<1>1. a \in Clients /\ b \in Clients
  BY DEF IsPaired, HasClient
<1>2. IsPaired(b, a)
  BY <1>1 DEF IsPaired, PairingsInverse
<1>3. ASSUME NEW c \in Clients, IsPaired(c, b)
      PROVE  c = a
  BY <1>1, <1>3 DEF IsPaired, PairingsInverse, OneRole
<1> QED
  BY <1>2, <1>3

RelayInPair ==
    \A f \in out' : Relayed(f) =>
        /\ f.to \in {f.clientId, f.targetId}
        /\ \A c \in Clients : IsPaired(c, f.to) => {c, f.to} = {f.clientId, f.targetId}

\* A strength command stays in the pair it names.
LEMMA RelayToTargetInPair ==
    ASSUME ConnInv, OneRole, NEW hdl \in Clients, NEW clientId \in Ids,
           NEW targetId \in Ids, NEW payload, NEW success \in BOOLEAN,
           RelayToTarget(hdl, clientId, targetId, payload, success)
    PROVE  RelayInPair
<1>1. IsPaired(clientId, targetId)
  BY DEF RelayToTarget
<1>2. CASE session[targetId] = "open"
  <2>1. out' = Deliver(targetId, "msg", clientId, targetId, payload)
    BY <1>2 DEF RelayToTarget, Answer
  <2> QED
    BY <1>1, <2>1, Delivered, PartnerUnique DEF RelayInPair
<1>3. CASE session[targetId] # "open"
  <2>1. out' \subseteq Deliver(hdl, "error", clientId, targetId, "unset")
    BY <1>3 DEF RelayToTarget, Answer, ErrorReply
  <2> QED
    BY <2>1, Delivered DEF RelayInPair, Relayed
<1> QED
  BY <1>2, <1>3

\* A forwarded message stays in the pair it names.
LEMMA ForwardInPair ==
    ASSUME ConnInv, OneRole, NEW hdl \in Clients, NEW clientId \in Ids,
           NEW targetId \in Ids, ForwardMessage(hdl, clientId, targetId)
    PROVE  RelayInPair
<1>1. IsPaired(targetId, clientId)
  BY PartnerUnique DEF ForwardMessage
<1>2. CASE session[clientId] = "open"
  <2>1. out' = Deliver(clientId, "msg", clientId, targetId, "forward")
    BY <1>2 DEF ForwardMessage, Answer
  <2> QED
    BY <1>1, <2>1, Delivered, PartnerUnique DEF RelayInPair
<1>3. CASE session[clientId] # "open"
  <2>1. out' = Deliver(hdl, "msg", clientId, targetId, "404")
    BY <1>3 DEF ForwardMessage, Answer, ErrorReply
  <2> QED
    BY <2>1, Delivered DEF RelayInPair, Relayed
<1> QED
  BY <1>2, <1>3

\* Every other step of on_message sends nothing that is relayed.
LEMMA OnMessageInPair ==
    ASSUME ConnInv, OneRole, NEW hdl \in Clients, OnMessage(hdl)
    PROVE  RelayInPair
<1>0. CASE \/ RootThrows(hdl) \/ IdThrows(hdl)
           \/ \E i, j \in Ids : FieldThrows(hdl, i, j)
  BY <1>0, MalformedThrows DEF Throws, Terminate, RelayInPair
<1>1. CASE RejectMalformed(hdl)
  <2>1. \A f \in out' : f.message \in {"403", "404"}
    BY <1>1, Delivered DEF RejectMalformed, Answer, ErrorReply
  <2> QED
    BY <2>1 DEF RelayInPair, Relayed
<1>2. ASSUME NEW b \in Binds, RefuseBind(hdl, b[2], b[3]) \/ HandleBind(hdl, b[2], b[3])
      PROVE  RelayInPair
  <2>1. \A f \in out' : f.message = "200"
    BY <1>2, Delivered DEF RefuseBind, HandleBind, Answer
  <2> QED
    BY <2>1 DEF RelayInPair, Relayed
<1>3. ASSUME NEW i \in Ids, NEW j \in Ids,
             \/ RejectSource(hdl, i, j)
             \/ HandleHeartbeat(hdl, i, j)
             \/ \E type \in {"error", "msg"} : RefuseUnpaired(hdl, i, j, type)
             \/ RefuseNoChannel(hdl, i, j)
      PROVE  RelayInPair
  <2>1. \A f \in out' : f.message \in {"402", "404", "406"}
    BY <1>3, Delivered
    DEF RejectSource, HandleHeartbeat, RefuseUnpaired, RefuseNoChannel, Answer, ErrorReply
  <2> QED
    BY <2>1 DEF RelayInPair, Relayed
<1>4. ASSUME NEW i \in Ids, NEW j \in Ids, NEW readable \in FieldForms,
             NEW success \in BOOLEAN,
             HandleStrengthAdjust(hdl, i, j, readable, success)
      PROVE  RelayInPair
  BY <1>4, RelayToTargetInPair DEF HandleStrengthAdjust, Throws, Terminate, RelayInPair
<1>5. ASSUME NEW i \in Ids, NEW j \in Ids, NEW success \in BOOLEAN,
             HandleCustomStrength(hdl, i, j, success)
      PROVE  RelayInPair
  BY <1>5, RelayToTargetInPair DEF HandleCustomStrength
<1>6. ASSUME NEW i \in Ids, NEW j \in Ids, ForwardMessage(hdl, i, j)
      PROVE  RelayInPair
  BY <1>6, ForwardInPair
<1>7. ASSUME NEW i \in Ids, NEW j \in Ids, NEW channel \in Channels, NEW time \in Times,
             NEW readable \in FieldForms,
             HandleClientMessage(hdl, i, j, channel, time, readable)
      PROVE  RelayInPair
  BY <1>7 DEF HandleClientMessage, Throws, Terminate, RelayInPair
<1> QED
  BY <1>0, <1>1, <1>2, <1>3, <1>4, <1>5, <1>6, <1>7 DEF OnMessage

\* No step outside on_message relays anything.
LEMMA OtherStepsInPair ==
    ASSUME Next, \A c \in Clients : ~OnMessage(c)
    PROVE  RelayInPair
<1>1. ASSUME NEW c \in Clients, OnOpen(c) \/ OnClose(c) \/ Network(c)
      PROVE  \A f \in out' : f.message \in {"targetId", "500"}
  BY <1>1, Delivered DEF OnOpen, OnClose, Network, Frame
<1>2. CASE ClosingSteps
  <2>1. \A id, f : Disconnect(id) /\ f \in out' => f.message = "209"
    BY Delivered DEF Disconnect
  <2>2. \A f \in out' : f.message = "209"
    BY <1>2, <2>1
    DEF ClosingSteps, CloseStop, CloseErase, OnCloseDisconnect, OnCloseThrows, Throws,
        Terminate
  <2> QED
    BY <2>2 DEF RelayInPair, Relayed
<1>3. CASE SendSteps
  <2>1. \A f \in out' : f.message \in {"clear", "pulse", "done", "override"}
    BY <1>3, Delivered
    DEF SendSteps, OverrideEntry, ClearTimerFind, ClearTimerCopy, ClearTimerStop,
        ClearTimerErase, StartSingle, StartRepeating, InsertEntry, EntryVanished,
        Terminate, ClearCommand, FirstPulse, Notice
  <2> QED
    BY <2>1 DEF RelayInPair, Relayed
<1>4. ASSUME NEW t \in TimerIds, ThreadStep(t)
      PROVE  RelayInPair
  <2>1. \A f \in out' : f.message \in {"pulse", "done"}
    BY <1>4, Delivered
    DEF ThreadStep, Wake, CheckTarget, CallbackThrows, SendPulse, EraseOwnEntry, NotifyDone,
        ThreadExit, Terminate
  <2> QED
    BY <2>1 DEF RelayInPair, Relayed
<1>5. ASSUME NEW c \in Clients, OnOpen(c) \/ OnClose(c) \/ Network(c)
      PROVE  RelayInPair
  BY <1>1, <1>5 DEF RelayInPair, Relayed
<1> QED
  BY <1>2, <1>3, <1>4, <1>5 DEF Next

\* When roles are disjoint, a strength command or a forwarded message reaches an end
\* of the pairing it names and nobody else: there is no third client that is paired
\* with its receiver.
THEOREM RelayConfined == ASSUME RolesDisjoint PROVE Spec => RelayStaysInPair
<1>1. ConnInv /\ PairsBound /\ [Next]_vars => [RelayInPair]_vars
  BY BoundOnce, OnMessageInPair, OtherStepsInPair
<1> QED
  BY <1>1, ConnInvariant, PairsBoundInvariant, PTL DEF Spec, RelayStaysInPair, RelayInPair

-----------------------------------------------------------------------------
(* Who hears of a pairing.                                                 *)

\* A pairing is asked for by the app's own connection.
AppsAsk == \A b \in Binds : b[1] = b[3]

ChangesAnnounced ==
    \A c \in Clients :
        c \in connections /\ session[c] = "open" /\ GetPair(c)' # GetPair(c) =>
            \E f \in out' : /\ f.to = c
                            /\ f.type \in {"bind", "break"}
                            /\ {GetPair(c), GetPair(c)'} \ {NoId} = {f.clientId, f.targetId} \ {c}

\* A bind that is not refused is told to both of its ends.
LEMMA BindAnnounced ==
    ASSUME RolesDisjoint, AppsAsk, ConnInv, PairsBound,
           NEW b \in Binds, HandleBind(b[1], b[2], b[3])
    PROVE  ChangesAnnounced
<1> DEFINE web == b[2]
           app == b[3]
<1> USE DEF ConnInv, TypeInv, TypeOK
<1>1. /\ web \in connections /\ app \in connections /\ web # app /\ NoId \notin connections
      /\ pairings[web] = NoId /\ reversePairings[app] = NoId
      /\ pairings' = [pairings EXCEPT ![web] = app]
      /\ reversePairings' = [reversePairings EXCEPT ![app] = web]
  BY EndpointAssumption DEF HandleBind, Pair, PairRefused, HasClient, RolesDisjoint
<1>2. GetClientId(b[1]) = app
  BY <1>1 DEF AppsAsk, RegisteredWhileConnected, GetClientId
<1>3. out' = Deliver(app, "bind", web, app, "200") \cup Deliver(web, "bind", web, app, "200")
  BY <1>1, <1>2 DEF HandleBind, AppsAsk
<1>4. GetPair(web) = NoId /\ GetPair(app) = NoId
  BY <1>1 DEF RolesDisjoint, PairsBound, PairingsInverse, GetPair, Ids
<1>5. GetPair(web)' = app /\ GetPair(app)' = web
  BY <1>1, <1>4 DEF GetPair, Ids
<1>6. \A c \in Clients : c \notin {web, app} => GetPair(c)' = GetPair(c)
  BY <1>1 DEF GetPair
<1> HIDE DEF web, app
<1>7. ASSUME NEW c \in {web, app}, session[c] = "open"
      PROVE  /\ Frame(c, "bind", web, app, "200") \in out'
             /\ {GetPair(c), GetPair(c)'} \ {NoId} = {web, app} \ {c}
  BY <1>1, <1>3, <1>4, <1>5, <1>7 DEF Deliver
<1>8. ASSUME NEW c \in Clients, session[c] = "open", GetPair(c)' # GetPair(c)
      PROVE  \E f \in out' : /\ f.to = c
                             /\ f.type \in {"bind", "break"}
                             /\ {GetPair(c), GetPair(c)'} \ {NoId}
                                    = {f.clientId, f.targetId} \ {c}
  <2>1. c \in {web, app}
    BY <1>6, <1>8
  <2>2. Frame(c, "bind", web, app, "200") \in out'
    BY <1>7, <1>8, <2>1
  <2>3. {GetPair(c), GetPair(c)'} \ {NoId} = {web, app} \ {c}
    BY <1>7, <1>8, <2>1
  <2> HIDE DEF ConnInv
  <2> QED
    BY <2>2, <2>3 DEF Frame
<1> QED
  BY <1>8 DEF ChangesAnnounced

\* The partner of a client that leaves is told, if it can be.
LEMMA CloseAnnounced ==
    ASSUME RolesDisjoint, ConnInv, PairsBound, OnCloseDisconnect
    PROVE  ChangesAnnounced
<1> USE DEF ConnInv, TypeInv, TypeOK
<1>1. PICK leaver \in Clients : leaver = asio.client /\ session[leaver] = "closed"
  BY DEF OnCloseDisconnect, HandlerOperands, ClosingPCs
<1>2. Disconnect(leaver) /\ HasClient(leaver) /\ NoId \notin Clients
  BY <1>1, EndpointAssumption
  DEF OnCloseDisconnect, GetClientId, RegisteredWhileConnected, HasClient
<1>3. pairings[leaver] = NoId \/ reversePairings[leaver] = NoId
  BY <1>1, BoundOnce DEF OneRole
<1>4. CASE GetPair(leaver) = NoId
  BY <1>2, <1>4 DEF Disconnect, pairVars, ChangesAnnounced, GetPair
<1>5. CASE GetPair(leaver) # NoId
  <2>1. PICK partner \in Clients : partner = GetPair(leaver)
    BY <1>1, <1>5 DEF GetPair, Ids
  <2>2. /\ out' = Deliver(partner, "break", leaver, partner, "209")
        /\ Unpair(leaver)
    BY <1>2, <1>5, <2>1 DEF Disconnect
  <2>3. GetPair(partner) = leaver /\ GetPair(partner)' = NoId
    <3>1. pairings[partner] = NoId \/ reversePairings[partner] = NoId
      BY <2>1, BoundOnce DEF OneRole
    <3>2. CASE pairings[leaver] # NoId
      BY <1>1, <1>2, <1>3, <2>1, <2>2, <3>1, <3>2
      DEF GetPair, Unpair, WebSide, AppSide, PairingsInverse
    <3>3. CASE pairings[leaver] = NoId
      BY <1>1, <1>2, <1>5, <2>1, <2>2, <3>1, <3>3
      DEF GetPair, Unpair, WebSide, AppSide, PairingsInverse
    <3> QED
      BY <3>2, <3>3
  <2>4. \A c \in Clients : c \notin {leaver, partner} => GetPair(c)' = GetPair(c)
    BY <1>1, <1>2, <1>3, <1>5, <2>1, <2>2 DEF GetPair, Unpair, WebSide, AppSide
  <2>5. session[partner] = "open" =>
            /\ Frame(partner, "break", leaver, partner, "209") \in out'
            /\ {GetPair(partner), GetPair(partner)'} \ {NoId} = {leaver, partner} \ {partner}
    BY <1>1, <1>2, <2>2, <2>3 DEF Deliver
  <2>6. ASSUME NEW c \in Clients, session[c] = "open", GetPair(c)' # GetPair(c)
        PROVE  \E f \in out' : /\ f.to = c
                               /\ f.type \in {"bind", "break"}
                               /\ {GetPair(c), GetPair(c)'} \ {NoId}
                                      = {f.clientId, f.targetId} \ {c}
    <3>1. c = partner
      BY <1>1, <2>4, <2>6
    <3>2. /\ Frame(c, "break", leaver, c, "209") \in out'
          /\ {GetPair(c), GetPair(c)'} \ {NoId} = {leaver, c} \ {c}
      BY <2>5, <2>6, <3>1
    <3> QED
      BY <3>2 DEF Frame
  <2> QED
    BY <2>6 DEF ChangesAnnounced
<1> QED
  BY <1>4, <1>5

\* Every other step leaves the partners alone.
LEMMA StepAnnounced ==
    ASSUME RolesDisjoint, AppsAsk, ConnInv, PairsBound, [Next]_vars
    PROVE  ChangesAnnounced
<1>1. UNCHANGED pairVars => ChangesAnnounced
  BY DEF pairVars, GetPair, ChangesAnnounced
<1>2. ASSUME NEW c \in Clients, OnOpen(c) \/ Network(c)
      PROVE  UNCHANGED pairVars
  BY <1>2 DEF OnOpen, RegisterConn, Network, connVars, pairVars
<1>3. UNCHANGED <<session, connVars>> => UNCHANGED pairVars
  BY DEF connVars, pairVars
<1> QED
  BY <1>1, <1>2, <1>3, ConnectionSteps, BindAnnounced, CloseAnnounced

\* When roles are disjoint and the app asks for its pairing, both ends of a pairing hear
\* of its beginning and its end in the very step that makes it, as long as they can be
\* told: neither shows a partner that it does not have.
THEOREM PartnersInformed ==
    ASSUME RolesDisjoint, AppsAsk PROVE Spec => PartnerChangesAnnounced
<1>1. ConnInv /\ PairsBound /\ [Next]_vars => [ChangesAnnounced]_vars
  BY StepAnnounced
<1> QED
  BY <1>1, ConnInvariant, PairsBoundInvariant, PTL
  DEF Spec, PartnerChangesAnnounced, ChangesAnnounced

-----------------------------------------------------------------------------
(* The process.                                                            *)

\* Every message can be taken apart, and every field that is parsed as a number is one.
WellFormed == Malformed = {} /\ \A readable \in FieldForms : readable

\* No client sends a waveform either.
Quiet == Channels = {} /\ WellFormed

\* A well-formed message is answered, relayed or taken on, and nothing is thrown.
LEMMA OnMessageSurvives ==
    ASSUME WellFormed, alive, NEW hdl \in Clients, OnMessage(hdl)
    PROVE  alive'
<1>0. ~ \/ RootThrows(hdl) \/ IdThrows(hdl)
        \/ \E i, j \in Ids : FieldThrows(hdl, i, j)
  BY MalformedThrows DEF WellFormed
<1>1. ASSUME NEW i \in Ids, NEW j \in Ids, NEW readable \in FieldForms,
             NEW success \in BOOLEAN, HandleStrengthAdjust(hdl, i, j, readable, success)
      PROVE  alive'
  BY <1>1 DEF HandleStrengthAdjust, RelayToTarget, Answer, WellFormed
<1>2. ASSUME NEW i \in Ids, NEW j \in Ids, NEW success \in BOOLEAN,
             HandleCustomStrength(hdl, i, j, success)
      PROVE  alive'
  BY <1>2 DEF HandleCustomStrength, RelayToTarget, Answer
<1>3. ASSUME NEW i \in Ids, NEW j \in Ids, NEW channel \in Channels, NEW time \in Times,
             NEW readable \in FieldForms,
             HandleClientMessage(hdl, i, j, channel, time, readable)
      PROVE  alive'
  BY <1>3 DEF HandleClientMessage, WellFormed
<1>4. ASSUME NEW i \in Ids, NEW j \in Ids,
             \/ RejectSource(hdl, i, j)
             \/ HandleHeartbeat(hdl, i, j)
             \/ \E type \in {"error", "msg"} : RefuseUnpaired(hdl, i, j, type)
             \/ ForwardMessage(hdl, i, j)
             \/ RefuseNoChannel(hdl, i, j)
      PROVE  alive'
  BY <1>4
  DEF RejectSource, HandleHeartbeat, RefuseUnpaired, ForwardMessage, RefuseNoChannel, Answer
<1>5. ASSUME NEW b \in Binds, RefuseBind(hdl, b[2], b[3]) \/ HandleBind(hdl, b[2], b[3])
      PROVE  alive'
  BY <1>5 DEF RefuseBind, HandleBind, Answer
<1>6. CASE RejectMalformed(hdl)
  BY <1>6 DEF RejectMalformed, Answer
<1> QED
  BY <1>0, <1>1, <1>2, <1>3, <1>4, <1>5, <1>6 DEF OnMessage

\* on_close finds both ends of the pairing that it dissolves.
LEMMA ClosingSurvives ==
    ASSUME PairedAreConnected, connections \subseteq Clients, alive, ClosingSteps
    PROVE  alive'
<1>1. ASSUME NEW id PROVE ~DisconnectThrows(id)
  BY DEF DisconnectThrows, HasClient, PairedAreConnected
<1> QED
  BY <1>1 DEF ClosingSteps, CloseStop, CloseErase, OnCloseDisconnect, OnCloseThrows

LeftWaveform ==
    \/ \E t \in TimerIds : Orphaned(t)
    \/ asio.at \in {"override", "copy"} /\ timers[asio.key] = 0

\* A step of sendMessage throws for a waveform that was left.
LEMMA FatalSend ==
    ASSUME TypeInv, alive, SendSteps, ~alive'
    PROVE  LeftWaveform
<1>1. CASE EntryVanished
  BY <1>1 DEF EntryVanished, LeftWaveform
<1>2. CASE ClearTimerCopy
  <2> DEFINE old == timers[asio.key]
  <2>1. asio.key \in Keys
    BY <1>2 DEF ClearTimerCopy, SendingPCs, TypeInv, HandlerOperands
  <2>2. old \in TimerIds
    BY <1>2, <2>1 DEF ClearTimerCopy, TypeInv, TypeOK, TimerIds
  <2>3. HandleExpired(task[old].target)
    BY <1>2 DEF ClearTimerCopy
  <2>4. Orphaned(old)
    BY <2>1, <2>3 DEF Orphaned, HandleExpired
  <2> QED
    BY <2>2, <2>4 DEF LeftWaveform
<1> QED
  BY <1>1, <1>2
  DEF SendSteps, OverrideEntry, ClearTimerFind, ClearTimerStop, ClearTimerErase,
      StartSingle, StartRepeating, InsertEntry

\* Only a waveform that was left ends the process, when messages are well formed.
LEMMA FatalStep ==
    ASSUME WellFormed, ConnInv, PairedAreConnected, alive, [Next]_vars, ~alive'
    PROVE  LeftWaveform
<1> USE DEF ConnInv
<1>1. ASSUME NEW c \in Clients, OnOpen(c) \/ OnMessage(c) \/ OnClose(c) \/ Network(c)
      PROVE  FALSE
  BY <1>1, OnMessageSurvives DEF OnOpen, OnClose, Network
<1>2. CASE ClosingSteps
  BY <1>2, ClosingSurvives DEF TypeInv, TypeOK
<1>3. CASE SendSteps
  BY <1>3, FatalSend
<1>4. ASSUME NEW t \in TimerIds, ThreadStep(t)
      PROVE  LeftWaveform
  <2>1. CallbackThrows(t)
    BY <1>4
    DEF ThreadStep, Wake, CheckTarget, SendPulse, EraseOwnEntry, NotifyDone, ThreadExit
  <2> QED
    BY <2>1 DEF CallbackThrows, HandleExpired, Orphaned, LeftWaveform
<1>5. CASE UNCHANGED vars
  BY <1>5 DEF vars
<1> QED
  BY <1>1, <1>2, <1>3, <1>4, <1>5 DEF Next

\* When roles are disjoint and messages well formed, a step that ends the process is about
\* a waveform whose target or sender has gone, or whose entry vanished under an override:
\* connecting, binding, relaying and closing end it for no client, paired or not.
THEOREM WaveformsEndProcess ==
    ASSUME RolesDisjoint, WellFormed PROVE Spec => OnlyWaveformsEndProcess
<1>1. ConnInv /\ PairedAreConnected /\ [Next]_vars => [alive /\ ~alive' => LeftWaveform]_vars
  BY FatalStep
<1> QED
  BY <1>1, ConnInvariant, PairsStayConnected, PTL
  DEF Spec, OnlyWaveformsEndProcess, LeftWaveform

\* Without channels there is no key, hence no task, no entry and no sendMessage under way.
LEMMA NoWaveform ==
    ASSUME Quiet, TypeInv
    PROVE  ~LeftWaveform
<1>1. Keys = {}
  BY DEF Quiet, Keys
<1> QED
  BY <1>1 DEF TypeInv, HandlerOperands, TaskOperands, SendingPCs, LeftWaveform, Orphaned

\* As long as nobody asks for a waveform and every message is well formed, no sequence of
\* binds, messages and lost connections ends the process: in particular the unguarded
\* lookup of the partner in disconnect() always finds it.
THEOREM NeverThrows == ASSUME RolesDisjoint, Quiet PROVE Spec => []NeverTerminates
<1>1. Init => alive
  BY DEF Init, EndpointInit
<1>2. ConnInv /\ PairedAreConnected /\ alive /\ [Next]_vars => alive'
  BY FatalStep, NoWaveform DEF ConnInv, Quiet
<1> QED
  BY <1>1, <1>2, ConnInvariant, PairsStayConnected, PTL DEF Spec, NeverTerminates

-----------------------------------------------------------------------------
(* The handler under way.                                                  *)

\* What a message can lead to: a pairing, a waveform for a pair, an exception, or nothing
\* but frames.
LEMMA MessageSteps ==
    ASSUME NEW c \in Clients, OnMessage(c)
    PROVE  /\ asio.at = "idle"
           /\ \/ \E b \in Binds : b[1] = c /\ HandleBind(c, b[2], b[3])
              \/ \E i, j \in Ids, channel \in Channels, time \in Times :
                    /\ IsPaired(i, j)
                    /\ SendMessage(<<i, channel>>, j, TotalSends(time), c)
                    /\ UNCHANGED <<session, alive, connVars>>
              \/ Throws
              \/ \E frames : Answer(frames)
<1> DEFINE Answers == \E frames : Answer(frames)
           Pairing == \E b \in Binds : b[1] = c /\ HandleBind(c, b[2], b[3])
           Waveform == \E i, j \in Ids, channel \in Channels, time \in Times :
                          /\ IsPaired(i, j)
                          /\ SendMessage(<<i, channel>>, j, TotalSends(time), c)
                          /\ UNCHANGED <<session, alive, connVars>>
<1>0. ASSUME \/ RootThrows(c) \/ IdThrows(c)
             \/ \E i, j \in Ids : FieldThrows(c, i, j)
      PROVE  asio.at = "idle" /\ Throws
  BY <1>0, MalformedThrows
<1>1. CASE RejectMalformed(c)
  BY <1>1 DEF RejectMalformed, Receives
<1>2. ASSUME NEW b \in Binds, b[1] = c, RefuseBind(c, b[2], b[3]) \/ HandleBind(c, b[2], b[3])
      PROVE  asio.at = "idle" /\ (Pairing \/ Answers)
  BY <1>2 DEF RefuseBind, HandleBind, Accepted, Receives
<1>3. ASSUME NEW i \in Ids, NEW j \in Ids,
             \/ RejectSource(c, i, j)
             \/ HandleHeartbeat(c, i, j)
             \/ \E type \in {"error", "msg"} : RefuseUnpaired(c, i, j, type)
             \/ ForwardMessage(c, i, j)
             \/ RefuseNoChannel(c, i, j)
      PROVE  asio.at = "idle" /\ Answers
  BY <1>3 DEF RejectSource, HandleHeartbeat, RefuseUnpaired, ForwardMessage, RefuseNoChannel,
              Accepted, Receives
<1>4. ASSUME NEW i \in Ids, NEW j \in Ids, NEW readable \in FieldForms,
             NEW success \in BOOLEAN, HandleStrengthAdjust(c, i, j, readable, success)
      PROVE  asio.at = "idle" /\ (Answers \/ Throws)
  BY <1>4 DEF HandleStrengthAdjust, RelayToTarget, Accepted, Receives
<1>5. ASSUME NEW i \in Ids, NEW j \in Ids, NEW success \in BOOLEAN,
             HandleCustomStrength(c, i, j, success)
      PROVE  asio.at = "idle" /\ Answers
  BY <1>5 DEF HandleCustomStrength, RelayToTarget, Accepted, Receives
<1>6. ASSUME NEW i \in Ids, NEW j \in Ids, NEW channel \in Channels, NEW time \in Times,
             NEW readable \in FieldForms,
             HandleClientMessage(c, i, j, channel, time, readable)
      PROVE  asio.at = "idle" /\ (Waveform \/ Throws)
  BY <1>6 DEF HandleClientMessage, Accepted, Receives
<1> HIDE DEF Answers, Pairing, Waveform
<1>7. asio.at = "idle" /\ (Pairing \/ Waveform \/ Throws \/ Answers)
  BY <1>0, <1>1, <1>2, <1>3, <1>4, <1>5, <1>6 DEF OnMessage, Answers, RejectMalformed
<1> QED
  BY <1>7 DEF Answers, Pairing, Waveform

\* The message under way was accepted for a pair, which nothing dissolves meanwhile.
SenderPaired == asio.at \in SendingPCs => IsPaired(asio.key[1], asio.target)

\* The io thread does nothing else until sendMessage has returned.
LEMMA SenderPairedStep ==
    ASSUME TypeInv, SenderPaired, [Next]_vars
    PROVE  SenderPaired'
<1> USE DEF TypeInv, TypeOK
<1>1. ASSUME NEW i, NEW j
      PROVE  UNCHANGED connVars => (IsPaired(i, j)' <=> IsPaired(i, j))
  BY DEF connVars, pairVars, IsPaired, HasClient
<1>2. UNCHANGED <<connVars, asio>> => SenderPaired'
  BY <1>1 DEF SenderPaired
<1>3. ASSUME NEW c \in Clients, OnMessage(c)
      PROVE  SenderPaired'
  <2>1. CASE \E b \in Binds : b[1] = c /\ HandleBind(c, b[2], b[3])
    BY <1>3, <2>1, MessageSteps DEF HandleBind, SenderPaired, SendingPCs
  <2>2. ASSUME NEW i \in Ids, NEW j \in Ids, NEW channel \in Channels, NEW time \in Times,
               IsPaired(i, j), SendMessage(<<i, channel>>, j, TotalSends(time), c),
               UNCHANGED connVars
        PROVE  SenderPaired'
    <3>1. asio'.key = <<i, channel>> /\ asio'.target = j
      BY <2>2 DEF SendMessage, Idle
    <3>2. IsPaired(i, j)'
      BY <1>1, <2>2
    <3> QED
      BY <3>1, <3>2 DEF SenderPaired
  <2>3. Throws \/ (\E frames : Answer(frames)) => UNCHANGED <<connVars, asio>>
    BY DEF Throws, Answer
  <2> QED
    BY <1>2, <1>3, <2>1, <2>2, <2>3, MessageSteps
<1>4. ASSUME NEW c \in Clients, OnOpen(c) \/ Network(c) \/ OnClose(c)
      PROVE  SenderPaired'
  BY <1>4 DEF OnOpen, Network, OnClose, SenderPaired, SendingPCs, Idle
<1>5. CASE ClosingSteps
  <2>1. ASSUME NEW k \in Keys, CloseStop(k) \/ CloseErase
        PROVE  asio'.at \notin SendingPCs
    BY <2>1 DEF CloseStop, CloseErase, Handlers, SendingPCs
  <2>2. CASE OnCloseDisconnect
    BY <2>2 DEF OnCloseDisconnect, Idle, SenderPaired, SendingPCs
  <2>3. CASE OnCloseThrows
    BY <1>2, <2>3 DEF OnCloseThrows, Throws
  <2>4. CASE CloseErase
    BY <2>4 DEF CloseErase, Handlers, SendingPCs, SenderPaired
  <2> QED
    BY <1>5, <2>1, <2>2, <2>3, <2>4 DEF ClosingSteps, SenderPaired
<1>6. CASE SendSteps /\ UNCHANGED connVars
  <2> DEFINE Sent == \/ asio'.at \notin SendingPCs
                     \/ /\ asio.at \in SendingPCs
                        /\ asio'.key = asio.key /\ asio'.target = asio.target
  <2>1. ASSUME OverrideEntry \/ ClearTimerFind \/ ClearTimerStop \/ ClearTimerErase PROVE Sent
    BY <2>1 DEF OverrideEntry, ClearTimerFind, ClearTimerStop, ClearTimerErase, Handlers,
                SendingPCs
  <2>2. ASSUME ClearTimerCopy \/ StartRepeating \/ EntryVanished PROVE Sent
    BY <2>2 DEF ClearTimerCopy, StartRepeating, EntryVanished, Handlers, SendingPCs
  <2>3. ASSUME StartSingle \/ InsertEntry PROVE Sent
    BY <2>3 DEF StartSingle, InsertEntry, Idle, SendingPCs
  <2>4. Sent
    <3> HIDE DEF Sent
    <3> QED
      BY <1>6, <2>1, <2>2, <2>3 DEF SendSteps
  <2> QED
    BY <1>1, <1>6, <2>4 DEF SenderPaired
<1>7. ASSUME NEW t \in TimerIds, ThreadStep(t), UNCHANGED connVars
      PROVE  SenderPaired'
  BY <1>2, <1>7
  DEF ThreadStep, Wake, CheckTarget, CallbackThrows, SendPulse, EraseOwnEntry, NotifyDone,
      ThreadExit
<1>8. CASE UNCHANGED vars
  BY <1>2, <1>8 DEF vars
<1> QED
  BY <1>3, <1>4, <1>5, <1>6, <1>7, <1>8 DEF Next

LEMMA SenderPairedInvariant == Spec => []SenderPaired
<1>1. Init => SenderPaired
  BY DEF Init, TimerManagerInit, Idle, SenderPaired, SendingPCs
<1> QED
  BY <1>1, SenderPairedStep, TypeInvariant, PTL DEF Spec
=============================================================================
