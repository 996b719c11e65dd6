------------------------------ MODULE Shutdown ------------------------------
(***************************************************************************)
(* Server::gracefulShutdown on the thread that the signal runs on, while   *)
(* the io thread, the waveform threads and the heartbeat thread go on.     *)
(*                                                                         *)
(* disconnect is cut at each access of a map that another thread may       *)
(* write, and a walk over a map at each node.  The module's assumptions    *)
(* about the races: a find, a step of an iterator or a change of a map is  *)
(* one whole step while the nodes it starts from are in the map.  A step   *)
(* from a node that has been freed arrives at any node or at the end, or   *)
(* ends the process; it does not go round for ever.                        *)
(***************************************************************************)
EXTENDS Server

CONSTANT Rank       \* the order of the keys of timers

ASSUME ShutdownAssumption == /\ Rank \in [Keys -> Nat]
                             /\ \A j, k \in Keys : Rank[j] = Rank[k] => j = k

VARIABLE sig    \* where the signal thread is in gracefulShutdown, and its operands

shutdownVars == <<vars, sig>>

(***************************************************************************)
(* none: no signal yet.  ClearPlaces: delete m_connections (at the begin   *)
(* of clear(), in disconnect from its first look at the client to its      *)
(* locked part, and after it).  cleanup: delete m_timerManager.  stop:     *)
(* both are freed.  done: m_server.stop() has returned.  exited: main has  *)
(* returned.                                                               *)
(***************************************************************************)
ClearPlaces == {"clear", "visit", "notify", "unpair", "erase", "close", "next"}

\* client: the one disconnect works on; web and app: the ends of the pairing that the
\* finds of getPair or of unpair have met.  key and entry: where the iterator of
\* cleanupAll() is, and the timer it was there for; astray: it has been stepped on from
\* a freed node.  tracked (history): the timers that were in timers when it began.
SignalThread == [at : {"none", "cleanup", "stop", "done", "exited"} \cup ClearPlaces,
                 client : Ids, web : Ids, app : Ids,
                 key : Keys \cup {NoKey}, entry : 0 .. MaxTimers, astray : BOOLEAN,
                 tracked : SUBSET TimerIds]

NoSignal == [at |-> "none", client |-> NoId, web |-> NoId, app |-> NoId,
             key |-> NoKey, entry |-> 0, astray |-> FALSE, tracked |-> {}]

\* m_connections is reset to the null pointer, m_timerManager is freed.
ConnectionsLive == sig.at \in {"none"} \cup ClearPlaces

TimersLive == ConnectionsLive \/ sig.at = "cleanup"

\* The io context is not stopped.
Serving == sig.at # "done"

ShutdownInit == Init /\ sig = NoSignal

-----------------------------------------------------------------------------
(* The signal thread.                                                      *)

\* The signals that main registers signalHandler for.
Signals == {"SIGINT", "SIGTERM", "SIGBREAK"}

\* signalHandler, clearInterval of the heartbeat's timer, and the begin of clear().
\* main has set sigServer before it runs the server.  SIGBREAK is caught and ignored.
SignalArrives(signal) ==
    /\ sig.at = "none"
    /\ sig' = IF signal \in {"SIGINT", "SIGTERM"}
              THEN [sig EXCEPT !.at = "clear"]
              ELSE sig
    /\ out' = {}
    /\ UNCHANGED <<session, alive, connVars>>

SigGoes(place) == sig' = [sig EXCEPT !.at = place]

\* A step of the signal thread that only looks.
SigLooks == out' = {} /\ UNCHANGED <<session, alive, connVars>>

\* clear() copies the client at its iterator and calls disconnect with it.
SigVisits(c) == c \in connections /\ sig' = [sig EXCEPT !.at = "visit", !.client = c]

ClearBegin(c) == sig.at = "clear" /\ SigVisits(c) /\ SigLooks

\* Where a find for the client's pairing leads: to no pairing, or to an entry of
\* pairings, or else of reversePairings.
SigFinds(unpaired, paired) ==
    LET c == sig.client IN
    sig' = IF GetPair(c) = NoId
           THEN [sig EXCEPT !.at = unpaired]
           ELSE [sig EXCEPT !.at = paired, !.web = WebSide(c), !.app = AppSide(c)]

\* disconnect() up to the finds of getPair.  For a client that is gone it returns.
ClearVisit ==
    /\ sig.at = "visit"
    /\ IF HasClient(sig.client) THEN SigFinds("close", "notify") ELSE SigGoes("next")
    /\ SigLooks

\* The entry that the find met has been erased since, and its node freed: to use it is
\* undefined, and at throws out of a destructor.
EntryFreed ==
    IF sig.client = sig.web THEN pairings[sig.web] # sig.app
                            ELSE reversePairings[sig.app] # sig.web

SigDangles == Terminate /\ UNCHANGED <<session, connVars, sig>>

\* The partner's connection, from which disconnect sends the break frame.
ClearNotify ==
    /\ sig.at = "notify"
    /\ LET c == sig.client
           partner == IF c = sig.web THEN sig.app ELSE sig.web
       IN
       \/ /\ HasClient(partner)
          /\ SigGoes("unpair")
          /\ out' = Deliver(partner, "break", c, partner, "209")
          /\ UNCHANGED <<session, alive, connVars>>
       \/ (~HasClient(partner) \/ EntryFreed) /\ SigDangles

\* unpair() before its lock: it finds the two ends anew, or nothing to dissolve.
ClearUnpair ==
    /\ sig.at = "unpair"
    /\ IF HasClient(sig.client) THEN SigFinds("close", "erase") ELSE SigGoes("close")
    /\ SigLooks

\* unpair() under its lock erases the two ends that it has found, whomever they are
\* paired with by now.
ClearErase ==
    /\ sig.at = "erase"
    /\ \/ /\ pairings' = [pairings EXCEPT ![sig.web] = NoId]
          /\ reversePairings' = [reversePairings EXCEPT ![sig.app] = NoId]
          /\ SigGoes("close")
          /\ out' = {}
          /\ UNCHANGED <<session, alive, connections, hdlToId>>
       \/ EntryFreed /\ SigDangles

\* After disconnect, of a client that was there or not, clear() steps on.
SigReturns == sig' = [sig EXCEPT !.at = "next", !.client = NoId, !.web = NoId, !.app = NoId]

\* Mutant: the entry stays in connections.
ClearCloseKeepsEntry ==
    /\ sig.at = "close"
    /\ LET c == sig.client IN
       IF HasClient(c)
       THEN /\ session' = [session EXCEPT ![c] = IF @ = "open" THEN "closing" ELSE @]
            /\ hdlToId' = [hdlToId EXCEPT ![c] = NoId]
            /\ SigReturns
            /\ out' = {}
            /\ UNCHANGED <<alive, connections, pairVars>>
       ELSE SigDangles

\* The locked part of disconnect().  Its last lookup is outside the try block: if
\* on_close has erased the client meanwhile, the exception leaves a destructor.
ClearClose ==
    /\ sig.at = "close"
    /\ LET c == sig.client IN
       IF HasClient(c)
       THEN /\ session' = [session EXCEPT ![c] = IF @ = "open" THEN "closing" ELSE @]
            /\ hdlToId' = [hdlToId EXCEPT ![c] = NoId]
            /\ connections' = connections \ {c}
            /\ SigReturns
            /\ out' = {}
            /\ UNCHANGED <<alive, pairVars>>
       ELSE SigDangles

\* Every step of the walk is from a node that is freed: by the disconnect that clear()
\* has called for it, or by on_close before.  A freed node on the way changes nothing,
\* since disconnect returns at once.
ClearAdvance(c) == sig.at = "next" /\ SigVisits(c) /\ SigLooks

ClearDangles == sig.at = "next" /\ SigDangles

\* clear() has met the end: at its begin, or by a step from a freed node.
ClearEnds == sig.at = "next" \/ (sig.at = "clear" /\ connections = {})

\* Mutant: an entry without a timer is taken for one with a timer.
ClearEndEmptyIds ==
    /\ ClearEnds
    /\ sig' = [sig EXCEPT !.at = "cleanup", !.tracked = {timers[k] : k \in Keys}]
    /\ SigLooks

\* The connection manager and the router are freed.
ClearEnd ==
    /\ ClearEnds
    /\ sig' = [sig EXCEPT !.at = "cleanup", !.tracked = {timers[k] : k \in Keys} \ {0}]
    /\ SigLooks

SignalConnections ==
    /\ \/ \E signal \in Signals : SignalArrives(signal)
       \/ \E c \in Clients : ClearBegin(c) \/ ClearAdvance(c)
       \/ ClearVisit \/ ClearNotify \/ ClearUnpair \/ ClearErase \/ ClearClose
       \/ ClearDangles \/ ClearEnd
    /\ UNCHANGED <<timerVars, asio>>

\* The entry at the iterator has been erased by its own thread or by the io thread.
TimerFreed == sig.key # NoKey /\ timers[sig.key] # sig.entry

\* The entries that follow the one at the iterator.
Following == {k \in Keys : /\ timers[k] # 0
                           /\ sig.key = NoKey \/ Rank[k] > Rank[sig.key]}

\* The next entry in the order of the keys, or, from a freed one, any.
Reached(k) ==
    IF TimerFreed THEN timers[k] # 0
    ELSE k \in Following /\ \A j \in Following : Rank[k] <= Rank[j]

\* Mutant: the entries are dropped and the threads are not stopped.
CleanupStopNothing(k) ==
    /\ sig.at = "cleanup"
    /\ Reached(k)
    /\ sig' = [sig EXCEPT !.key = k, !.entry = timers[k], !.astray = @ \/ TimerFreed]
    /\ out' = {}
    /\ UNCHANGED <<session, alive, timerVars>>

\* cleanupAll() steps on and clears the interval of the entry that it has reached.
CleanupStop(k) ==
    /\ sig.at = "cleanup"
    /\ Reached(k)
    /\ ClearInterval(timers[k])
    /\ sig' = [sig EXCEPT !.key = k, !.entry = timers[k], !.astray = @ \/ TimerFreed]
    /\ out' = {}
    /\ UNCHANGED <<session, alive, timers, counter>>

CleanupDangles ==
    /\ sig.at = "cleanup"
    /\ TimerFreed
    /\ Terminate
    /\ UNCHANGED <<session, timerVars, sig>>

\* The end of cleanupAll(): the map is cleared, and freed with its manager.
CleanupEnd ==
    /\ sig.at = "cleanup"
    /\ Following = {} \/ TimerFreed
    /\ timers' = [k \in Keys |-> 0]
    /\ sig' = [sig EXCEPT !.at = "stop", !.astray = @ \/ TimerFreed]
    /\ out' = {}
    /\ UNCHANGED <<session, alive, task, counter>>

\* Mutant: the server stops to listen only.
StopListening ==
    /\ sig.at = "stop"
    /\ sig' = [sig EXCEPT !.at = "exited"]
    /\ out' = {}
    /\ UNCHANGED <<session, alive, timerVars>>

StopServer ==
    /\ sig.at = "stop"
    /\ sig' = [sig EXCEPT !.at = "done"]
    /\ out' = {}
    /\ UNCHANGED <<session, alive, timerVars>>

SignalTimers ==
    /\ (\E k \in Keys : CleanupStop(k)) \/ CleanupDangles \/ CleanupEnd \/ StopServer
    /\ UNCHANGED <<connVars, asio>>

SignalStep == SignalConnections \/ SignalTimers

-----------------------------------------------------------------------------
(* The other threads.                                                      *)

\* The well-formed messages that do more than send frames.
OnRequest(hdl) ==
    \/ \E b \in Binds : b[1] = hdl /\ HandleBind(hdl, b[2], b[3])
    \/ \E clientId, targetId \in Clients, channel \in Channels, time \in Times,
          readable \in FieldForms :
              HandleClientMessage(hdl, clientId, targetId, channel, time, readable)

\* What is due while the io thread is idle and its managers are there.
IoServes ==
    /\ Serving
    /\ ConnectionsLive
    /\ \E c \in Clients : OnOpen(c) \/ OnRequest(c) \/ OnClose(c)

IoNetwork == Serving /\ \E c \in Clients : Network(c)

\* Every handler begins with a call on m_connections.
HandlerMeetsNull ==
    /\ Serving
    /\ ~ConnectionsLive
    /\ asio.at = "idle"
    /\ \E c \in Clients : session[c] \in {"none", "open", "closed"}
    /\ Throws

\* The rest of a handler under way: on the timers, freed or not, until on_close comes
\* back to m_connections.  There the entries that disconnect looks up may be gone too.
IoContinues ==
    \/ SendSteps /\ UNCHANGED connVars
    \/ (ConnectionsLive \/ asio.keys # {} \/ asio.at = "closeErase") /\ ClosingSteps
    \/ sig.at # "none" /\ asio.at = "closing" /\ asio.keys = {} /\ Throws
    \/ ~TimersLive /\ asio.at # "idle" /\ Throws

\* run() returns when its handler has, main returns, and the process ends.
MainReturns ==
    /\ sig.at = "done"
    /\ asio.at = "idle"
    /\ sig' = [sig EXCEPT !.at = "exited"]
    /\ Throws

WaveformStep(t) ==
    \/ ThreadStep(t) /\ UNCHANGED connVars
    \/ ~TimersLive /\ task[t].pc \in {"check", "send", "abort", "finish", "notify"} /\ Throws

\* A round of heartbeats under way when the signal came walks on over nodes that are
\* erased and freed (its own steps are the module Heartbeat).
HeartbeatDangles == sig.at # "none" /\ Throws

ShutdownNext ==
    /\ alive
    /\ \/ SignalStep
       \/ (IoServes \/ IoNetwork \/ HandlerMeetsNull \/ IoContinues) /\ UNCHANGED sig
       \/ MainReturns
       \/ (\E t \in TimerIds : WaveformStep(t)) /\ UNCHANGED sig
       \/ HeartbeatDangles /\ UNCHANGED sig

ShutdownSpec == ShutdownInit /\ [][ShutdownNext]_shutdownVars

\* The threads are scheduled.  Whether a signal comes is up to its sender.
FairShutdownSpec ==
    /\ ShutdownSpec
    /\ WF_shutdownVars(alive /\ SignalStep /\ sig.at # "none")
    /\ WF_shutdownVars(alive /\ IoContinues /\ UNCHANGED sig)
    /\ WF_shutdownVars(alive /\ MainReturns)
    /\ \A t \in TimerIds : WF_shutdownVars(alive /\ WaveformStep(t) /\ UNCHANGED sig)

-----------------------------------------------------------------------------
ShutdownTypeOK == TypeOK /\ sig \in SignalThread

\* Whatever clear() and on_close erase side by side, an entry of connections is one of a
\* client whose on_close is still to come, and whose handle leads back to it: the two maps
\* of clients never disagree, and no handle in them has expired.
EntriesAreLive ==
    \A c \in connections : /\ hdlToId[c] = c
                           /\ session[c] \in {"open", "closing", "closed"}

\* The waveforms that were in timers when cleanupAll() began are stopped when their
\* manager is freed.
TrackedAreStopped == ~TimersLive => \A t \in sig.tracked : ~Running(t)

\* They are unless an entry was erased under the walk's own iterator: an override that
\* replaces or inserts entries elsewhere, or a waveform that ends elsewhere, never hides
\* a running one from it.  (One whose entry the io thread has yet to insert runs on, over
\* freed memory.)
SweepStopsTracked == ~sig.astray => TrackedAreStopped

\* Once a signal has come, the process ends, whatever its threads are doing.
ShutdownEnds == sig.at # "none" ~> ~alive
=============================================================================
