------------------------------- MODULE Server -------------------------------
(***************************************************************************)
(* class Server: the io thread runs on_open, on_close and on_message one   *)
(* at a time, and the threads of the running waveform tasks interleave     *)
(* with them.                                                              *)
(***************************************************************************)
EXTENDS MessageRouter

Init == EndpointInit /\ ConnectionManagerInit /\ TimerManagerInit

\* The handshake ends: the session opens and on_open registers the client and
\* tells it its id.
OnOpen(hdl) ==
    /\ asio.at = "idle"
    /\ session[hdl] = "none"
    /\ session' = [session EXCEPT ![hdl] = "open"]
    /\ RegisterConn(hdl, hdl)
    /\ out' = {Frame(hdl, "bind", hdl, NoId, "targetId")}
    /\ UNCHANGED <<alive, timerVars, asio>>

\* on_close up to clearClientTimers: error 500 to the other end of the pairing,
\* and the snapshot of the timer keys to delete.
OnClose(hdl) ==
    /\ asio.at = "idle"
    /\ session[hdl] = "closed"
    /\ LET id == GetClientId(hdl) IN
       /\ out' = IF HasClient(id) /\ GetPair(id) # NoId /\ HasClient(GetPair(id))
                 THEN Deliver(GetPair(id), "error", id, GetPair(id), "500")
                 ELSE {}
       /\ asio' = [Idle EXCEPT !.at = "closing", !.client = hdl, !.keys = KeysOf(id)]
    /\ UNCHANGED <<session, alive, connVars, timerVars>>

\* The rest of on_close once every key of the snapshot is handled.
OnCloseDisconnect ==
    /\ asio.at = "closing"
    /\ asio.keys = {}
    /\ Disconnect(GetClientId(asio.client))
    /\ session' = [session EXCEPT ![asio.client] = "detached"]
    /\ asio' = Idle
    /\ UNCHANGED <<alive, timerVars>>

OnCloseThrows ==
    /\ asio.at = "closing"
    /\ asio.keys = {}
    /\ DisconnectThrows(GetClientId(asio.client))
    /\ Throws

OnMessage(hdl) ==
    \/ RejectMalformed(hdl) \/ RootThrows(hdl) \/ IdThrows(hdl)
    \/ \E b \in Binds : b[1] = hdl /\ (RefuseBind(hdl, b[2], b[3]) \/ HandleBind(hdl, b[2], b[3]))
    \/ \E clientId, targetId \in Ids :
        \/ RejectSource(hdl, clientId, targetId)
        \/ FieldThrows(hdl, clientId, targetId)
        \/ HandleHeartbeat(hdl, clientId, targetId)
        \/ \E type \in {"error", "msg"} : RefuseUnpaired(hdl, clientId, targetId, type)
        \/ \E readable \in FieldForms, success \in BOOLEAN :
              HandleStrengthAdjust(hdl, clientId, targetId, readable, success)
        \/ \E success \in BOOLEAN : HandleCustomStrength(hdl, clientId, targetId, success)
        \/ ForwardMessage(hdl, clientId, targetId)
        \/ RefuseNoChannel(hdl, clientId, targetId)
        \/ \E channel \in Channels, time \in Times, readable \in FieldForms :
              HandleClientMessage(hdl, clientId, targetId, channel, time, readable)

\* What the peers and the network do to a connection, seen by the io thread
\* between two handlers.
Network(c) ==
    /\ asio.at = "idle"
    /\ c \in Leavers
    /\ PeerCloses(c) \/ Drop(c) \/ Release(c)
    /\ out' = {}
    /\ UNCHANGED <<alive, connVars, timerVars, asio>>

ClosingSteps ==
    \/ (\E k \in Keys : CloseStop(k)) /\ UNCHANGED connVars
    \/ CloseErase /\ UNCHANGED connVars
    \/ OnCloseDisconnect
    \/ OnCloseThrows

Next ==
    /\ alive
    /\ \/ \E c \in Clients : OnOpen(c) \/ OnMessage(c) \/ OnClose(c) \/ Network(c)
       \/ ClosingSteps
       \/ SendSteps /\ UNCHANGED connVars
       \/ \E t \in TimerIds : ThreadStep(t) /\ UNCHANGED connVars

Spec == Init /\ [][Next]_vars

\* The io thread keeps running the handler it is in and every timer thread keeps
\* being scheduled.  asio runs ready handlers first come, first served, so an
\* on_close that is due is not passed over for ever, however many messages arrive
\* between (a strong fairness: on_message makes the io thread busy).  What the
\* network does and what clients send is up to them.
Fairness ==
    /\ WF_vars(alive /\ ((SendSteps /\ UNCHANGED connVars) \/ ClosingSteps))
    /\ \A c \in Clients : SF_vars(alive /\ OnClose(c))
    /\ \A t \in TimerIds : WF_vars(alive /\ ThreadStep(t) /\ UNCHANGED connVars)

FairSpec == Spec /\ Fairness

-----------------------------------------------------------------------------
(* Types.                                                                  *)

\* Every variable holds values of its kind; what each map may name.
TypeOK ==
    /\ session \in [Clients -> SessionStates]
    /\ out \subseteq Frames
    /\ alive \in BOOLEAN
    /\ connections \subseteq Clients
    /\ hdlToId \in [Clients -> Ids]
    /\ pairings \in [Clients -> Ids]
    /\ reversePairings \in [Clients -> Ids]
    /\ timers \in [Keys -> 0 .. MaxTimers]
    /\ task \in [TimerIds -> Tasks]
    /\ counter \in 0 .. MaxTimers
    /\ asio \in Handlers

-----------------------------------------------------------------------------
(* Pairing.                                                                *)

\* The two pairing maps are each other's inverse, so that getPair, isPaired and
\* unpair see the same relation from both ends, whatever ids clients bind and in
\* whichever order they close.
PairingsInverse ==
    \A w, a \in Clients : pairings[w] = a <=> reversePairings[a] = w

\* A client is in the connection maps exactly from on_open until its own on_close
\* has disconnected it: no handler for another client ever drops it, and no entry
\* outlives its session.
RegisteredWhileConnected ==
    \A c \in Clients :
        /\ c \in connections <=> session[c] \in {"open", "closing", "closed"}
        /\ hdlToId[c] = IF c \in connections THEN c ELSE NoId

\* No client is a partner of two others: two web pages never hold one app, two apps
\* never one web page, and no client is the web end of one pairing and the app end of
\* another.
Partners(c, d) == pairings[c] = d \/ pairings[d] = c

OnePartner ==
    \A c, d, e \in Clients : Partners(c, d) /\ Partners(c, e) => d = e

\* on_close cleans up the pairing: whoever is in a pairing is connected, so
\* connections.at(pairId) in disconnect always finds its entry.
PairedAreConnected ==
    \A c \in Clients : GetPair(c) # NoId => {c, GetPair(c)} \subseteq connections

\* No exception ever escapes from a handler or from a timer thread.
NeverTerminates == alive

\* Where every message is well formed, what ends the process is a waveform that somebody
\* left: one that still has its thread or its entry in timers although the connection
\* object of its target or of its sender has been freed, or one whose thread erased its
\* entry between the two looks that an override takes at it.  Nothing that connects,
\* binds, relays and closes does, and no other waveform does.
Orphaned(t) ==
    /\ task[t].pc \notin {"none", "gone"} \/ \E k \in Keys : timers[k] = t
    /\ "released" \in {session[task[t].target], session[task[t].source]}

OnlyWaveformsEndProcess ==
    [][alive /\ ~alive' =>
          \/ \E t \in TimerIds : Orphaned(t)
          \/ asio.at \in {"override", "copy"} /\ timers[asio.key] = 0]_vars

\* A client that can still be told learns of every change of its partner from
\* the very step that makes it: a bind frame or a break frame that names the
\* two ends.
PartnerChangesAnnounced ==
    [][\A c \in Clients :
          c \in connections /\ session[c] = "open" /\ GetPair(c)' # GetPair(c) =>
              \E f \in out' : /\ f.to = c
                              /\ f.type \in {"bind", "break"}
                              /\ {GetPair(c), GetPair(c)'} \ {NoId} = {f.clientId, f.targetId} \ {c}]_vars

\* What one client sends reaches only the two ends of one existing pairing, and
\* neither end is anybody else's partner at that moment.
Relayed(f) == f.message \in {"strength", "custom", "forward"}

RelayStaysInPair ==
    [][\A f \in out' : Relayed(f) =>
          /\ f.to \in {f.clientId, f.targetId}
          /\ \A c \in Clients : IsPaired(c, f.to) => {c, f.to} = {f.clientId, f.targetId}]_vars

\* The maps implement the registry of pairs: connecting, binding and the end of
\* on_close are its only steps.
Registry == INSTANCE PairRegistry
            WITH online <- connections,
                 bonds <- {{c, pairings[c]} : c \in {w \in Clients : pairings[w] # NoId}}

ImplementsRegistry == Registry!Spec

\* A connection that is lost does not stay registered: its on_close runs to the
\* end, unless the process died.
ClosedIsDeregistered ==
    \A c \in Clients : session[c] = "closed" ~> c \notin connections \/ ~alive

-----------------------------------------------------------------------------
(* Waveform tasks.                                                         *)

Running(t) == task[t].active /\ task[t].pc # "none"

Inserting(t) == asio.at = "insert" /\ asio.id = t

\* Every running task is the one its key names in timers (or is about to be):
\* only then can an override or on_close find it and stop it.
RunningIsTracked ==
    \A t \in TimerIds : Running(t) => Inserting(t) \/ timers[task[t].key] = t

\* A channel of a client never has two waveforms running at once.
OneRunningPerChannel ==
    \A t, u \in TimerIds :
        Running(t) /\ Running(u) /\ task[t].key = task[u].key => t = u

\* A waveform never outlives its own client, and outlives its pairing only when its
\* target has left: on_close of the client has stopped every waveform of the client by
\* the time it returns, while on_close of the target stops none, and a target that is
\* still registered is still the client's partner.
RunningServesPair ==
    \A t \in TimerIds : Running(t) =>
        /\ HasClient(task[t].key[1])
        /\ HasClient(task[t].target) => IsPaired(task[t].key[1], task[t].target)

\* A new waveform has its channel to itself from its first pulse on: no callback of the
\* one it replaces is still to send, so none of its pulses follows the clear command to
\* the app late.
PredecessorIsSilent ==
    \A t, u \in TimerIds :
        Running(t) /\ task[u].pc \in {"check", "send"} /\ task[t].key = task[u].key => t = u

\* The waveforms that run implement the abstract ones: whatever the io thread and the
\* timer threads are doing in between, each step starts one waveform on a free channel
\* for a pair, stops one, or is a step of the registry of pairs.
WaveOf(t) == [client |-> task[t].key[1], channel |-> task[t].key[2], target |-> task[t].target]

Waveforms == INSTANCE WaveformRegistry
             WITH online <- connections,
                  bonds <- {{c, pairings[c]} : c \in {w \in Clients : pairings[w] # NoId}},
                  waves <- {WaveOf(t) : t \in {u \in TimerIds : Running(u)}}

ImplementsWaveforms == Waveforms!Spec

\* timer_map is only touched by one thread at a time: the io thread looks a timer up
\* in clearInterval, a timer thread erases itself from it when it ends.
ReadsTimerMap == asio.at = "stop" \/ (asio.at = "closing" /\ asio.keys # {})
WritesTimerMap(t) == task[t].pc = "exit"

TimerMapGuarded == ReadsTimerMap => \A t \in TimerIds : ~WritesTimerMap(t)

\* A waveform ends: its thread sends what remains or is stopped, and is deleted.
TasksEnd ==
    \A t \in TimerIds : task[t].pc = "sleep" ~> task[t].pc = "gone" \/ ~alive
=============================================================================
