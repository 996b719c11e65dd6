---------------------------- MODULE Shutdown_proofs ----------------------------
(***************************************************************************)
(* Theorems about Shutdown, for every number of clients, channels and      *)
(* timers, every order of the keys and every set of bind requests.         *)
(***************************************************************************)
EXTENDS Shutdown, Server_proofs

USE EndpointAssumption, TimerAssumption, RouterAssumption

\* A session whose on_close has not returned, and one whose on_close has.
Staying == {"open", "closing", "closed"}
Left == {"detached", "released"}

\* A handle's entry is its own id or missing, so that the io thread erases its own client
\* only.
OwnHandles == \A c \in Clients : hdlToId[c] \in {c, NoId}

SignalInv == TypeInv /\ sig \in SignalThread /\ OwnHandles /\ EntriesAreLive

\* No signal has come and nobody is connected when the process starts.
LEMMA InitSignal == ShutdownInit => SignalInv
<1> SUFFICES ASSUME ShutdownInit
             PROVE  SignalInv
  OBVIOUS
<1>1. TypeInv
  BY InitTypes DEF ShutdownInit
<1>2. sig \in SignalThread
  BY DEF ShutdownInit, NoSignal, SignalThread, Ids
<1>3. OwnHandles /\ EntriesAreLive
  BY DEF ShutdownInit, Init, EndpointInit, ConnectionManagerInit, OwnHandles, EntriesAreLive
<1> QED
  BY <1>1, <1>2, <1>3 DEF SignalInv

-----------------------------------------------------------------------------
(* The other threads take steps of Server.                                 *)

\* A step of the other threads is one of Server, but for the end of the process.
LEMMA OthersAreServerSteps ==
    ASSUME alive,
           \/ (IoServes \/ IoNetwork \/ HandlerMeetsNull \/ IoContinues) /\ UNCHANGED sig
           \/ (\E t \in TimerIds : WaveformStep(t)) /\ UNCHANGED sig
           \/ HeartbeatDangles /\ UNCHANGED sig
    PROVE  UNCHANGED sig /\ (Next \/ Throws)
<1>1. ASSUME NEW c \in Clients, OnRequest(c)
      PROVE  OnMessage(c)
  BY <1>1 DEF OnRequest, OnMessage, Ids
<1>2. ASSUME IoServes
      PROVE  Next \/ Throws
  BY <1>1, <1>2 DEF IoServes, Next
<1>3. ASSUME IoNetwork
      PROVE  Next \/ Throws
  BY <1>3 DEF IoNetwork, Next
<1>4. ASSUME HandlerMeetsNull \/ HeartbeatDangles
      PROVE  Next \/ Throws
  BY <1>4 DEF HandlerMeetsNull, HeartbeatDangles
<1>5. ASSUME IoContinues
      PROVE  Next \/ Throws
  BY <1>5 DEF IoContinues, Next
<1>6. ASSUME NEW t \in TimerIds, WaveformStep(t)
      PROVE  Next \/ Throws
  BY <1>6 DEF WaveformStep, Next
<1> QED
  BY <1>2, <1>3, <1>4, <1>5, <1>6

\* The end of on_close, even when the signal thread has erased its client before: the
\* client that loses its entries is the one whose session is detached.
LEMMA LateDisconnect ==
    ASSUME TypeInv, OwnHandles, EntriesAreLive, OnCloseDisconnect
    PROVE  OwnHandles' /\ EntriesAreLive'
<1> USE DEF TypeInv, TypeOK
<1> DEFINE c == asio.client
<1>1. c \in Clients /\ session' = [session EXCEPT ![c] = "detached"]
  BY DEF OnCloseDisconnect, HandlerOperands, ClosingPCs
<1>2. Disconnect(GetClientId(c))
  BY DEF OnCloseDisconnect
<1>3. GetClientId(c) \in {c, NoId} /\ (c \in connections => GetClientId(c) = c)
  BY <1>1 DEF OwnHandles, EntriesAreLive, GetClientId
<1> HIDE DEF c
<1>4. CASE c \in connections
  <2>1. connections' = connections \ {c} /\ hdlToId' = [hdlToId EXCEPT ![c] = NoId]
    BY <1>2, <1>3, <1>4 DEF Disconnect, HasClient
  <2> QED
    BY <1>1, <2>1 DEF OwnHandles, EntriesAreLive
<1>5. CASE c \notin connections
  <2>1. ~HasClient(GetClientId(c))
    BY <1>3, <1>5 DEF HasClient
  <2>2. UNCHANGED <<connections, hdlToId>>
    BY <1>2, <2>1 DEF Disconnect, connVars
  <2> QED
    BY <1>1, <1>5, <2>2 DEF OwnHandles, EntriesAreLive
<1> QED
  BY <1>4, <1>5

\* A step of Server keeps what the signal thread relies on.
LEMMA ServerSteps ==
    ASSUME SignalInv, Next \/ Throws, UNCHANGED sig
    PROVE  SignalInv'
<1> USE DEF SignalInv
<1>1. TypeInv'
  BY NextTypes, ThrowsTypes
<1>2. /\ session \in [Clients -> SessionStates] /\ connections \subseteq Clients
      /\ hdlToId \in [Clients -> Ids]
  BY DEF TypeInv, TypeOK
<1>3. ASSUME NEW c \in Clients, OnOpen(c)
      PROVE  OwnHandles' /\ EntriesAreLive'
  <2>1. /\ session' = [session EXCEPT ![c] = "open"]
        /\ connections' = connections \cup {c} /\ hdlToId' = [hdlToId EXCEPT ![c] = c]
    BY <1>3 DEF OnOpen, RegisterConn
  <2> QED
    BY <1>2, <2>1 DEF OwnHandles, EntriesAreLive
<1>4. ASSUME NEW c \in Clients, Network(c)
      PROVE  OwnHandles' /\ EntriesAreLive'
  <2>1. UNCHANGED <<connections, hdlToId>>
    BY <1>4 DEF Network, connVars
  <2>2. \A d \in Clients : session[d] \in Staying => session'[d] \in Staying
    BY <1>2, <1>4 DEF Network, PeerCloses, Drop, Release, Staying
  <2> QED
    BY <1>2, <2>1, <2>2 DEF OwnHandles, EntriesAreLive, Staying
<1>5. ASSUME NEW b \in Binds, HandleBind(b[1], b[2], b[3])
      PROVE  OwnHandles' /\ EntriesAreLive'
  BY <1>5 DEF HandleBind, Pair, OwnHandles, EntriesAreLive
<1>6. ASSUME OnCloseDisconnect
      PROVE  OwnHandles' /\ EntriesAreLive'
  BY <1>6, LateDisconnect
<1>7. ASSUME UNCHANGED <<session, connVars>>
      PROVE  OwnHandles' /\ EntriesAreLive'
  BY <1>7 DEF OwnHandles, EntriesAreLive, connVars
<1>8. Throws => UNCHANGED <<session, connVars>>
  BY DEF Throws
<1> QED
  BY <1>1, <1>3, <1>4, <1>5, <1>6, <1>7, <1>8, ConnectionSteps

-----------------------------------------------------------------------------
(* The signal thread.                                                      *)

\* A step that leaves the tasks and the io thread alone, and closes open sessions at most.
LEMMA SignalTypes ==
    ASSUME TypeInv, UNCHANGED <<timerVars, asio>>,
           session' \in [Clients -> SessionStates],
           \A c \in Clients : session[c] = "closed" => session'[c] = "closed",
           out' \subseteq Frames, alive' \in BOOLEAN,
           connections' \subseteq Clients, hdlToId' \in [Clients -> Ids],
           pairings' \in [Clients -> Ids], reversePairings' \in [Clients -> Ids]
    PROVE  TypeInv'
BY DEF TypeInv, TypeOK, HandlerOperands, TaskOperands, EntriesExist, timerVars

\* A step of the signal thread that changes no session and no map of clients.
LEMMA SignalMoves ==
    ASSUME SignalInv, UNCHANGED <<session, connections, hdlToId, timerVars, asio>>,
           out' \subseteq Frames, alive' \in BOOLEAN, sig' \in SignalThread,
           pairings' \in [Clients -> Ids], reversePairings' \in [Clients -> Ids]
    PROVE  SignalInv'
<1> USE DEF SignalInv
<1>1. TypeInv'
  BY SignalTypes DEF TypeInv, TypeOK
<1>2. OwnHandles' /\ EntriesAreLive'
  BY DEF OwnHandles, EntriesAreLive
<1> QED
  BY <1>1, <1>2

\* A step that only looks at the maps, and one that ends the process.
LEMMA LooksKeep ==
    ASSUME SignalInv, SigLooks, sig' \in SignalThread, UNCHANGED <<timerVars, asio>>
    PROVE  SignalInv'
BY SignalMoves DEF SigLooks, SignalInv, TypeInv, TypeOK, connVars

LEMMA DanglesKeeps ==
    ASSUME SignalInv, SigDangles, UNCHANGED <<timerVars, asio>>
    PROVE  SignalInv'
BY SignalMoves DEF SigDangles, Terminate, SignalInv, TypeInv, TypeOK, connVars

\* Where a find leads to: the ends of an entry are ids.
LEMMA FindsTyped ==
    ASSUME SignalInv, HasClient(sig.client), NEW unpaired \in ClearPlaces,
           NEW paired \in ClearPlaces, SigFinds(unpaired, paired)
    PROVE  sig' \in SignalThread
<1>1. sig.client \in Clients /\ sig \in SignalThread
  BY DEF HasClient, SignalInv, TypeInv, TypeOK
<1>2. WebSide(sig.client) \in Ids /\ AppSide(sig.client) \in Ids
  BY <1>1, IdsContain DEF WebSide, AppSide, SignalInv, TypeInv, TypeOK
<1>3. CASE GetPair(sig.client) = NoId
  BY <1>1, <1>3 DEF SigFinds, SignalThread
<1>4. CASE GetPair(sig.client) # NoId
  BY <1>1, <1>2, <1>4 DEF SigFinds, SignalThread
<1> QED
  BY <1>3, <1>4

\* The steps of clear() that only look: its begin, its finds, its iterator and its end.
LEMMA WalkTyped ==
    ASSUME SignalInv, UNCHANGED <<timerVars, asio>>,
           \/ \E signal \in Signals : SignalArrives(signal)
           \/ \E c \in Clients : ClearBegin(c) \/ ClearAdvance(c)
           \/ ClearVisit \/ ClearUnpair \/ ClearEnd
    PROVE  sig' \in SignalThread /\ SigLooks
<1> USE DEF SignalInv
<1>1. sig \in SignalThread /\ connections \subseteq Clients
  BY DEF TypeInv, TypeOK
<1>2. ASSUME NEW signal \in Signals, SignalArrives(signal)
      PROVE  sig' \in SignalThread /\ SigLooks
  BY <1>1, <1>2 DEF SignalArrives, SigLooks, SignalThread, ClearPlaces
<1>3. ASSUME NEW c \in Clients, ClearBegin(c) \/ ClearAdvance(c)
      PROVE  sig' \in SignalThread /\ SigLooks
  BY <1>1, <1>3, IdsContain DEF ClearBegin, ClearAdvance, SigVisits, SignalThread, ClearPlaces
<1>4. CASE ClearVisit
  <2>1. CASE HasClient(sig.client)
    BY <1>4, <2>1, FindsTyped DEF ClearVisit, ClearPlaces
  <2>2. CASE ~HasClient(sig.client)
    BY <1>1, <1>4, <2>2 DEF ClearVisit, SigGoes, SignalThread, ClearPlaces
  <2> QED
    BY <1>4, <2>1, <2>2 DEF ClearVisit
<1>5. CASE ClearUnpair
  <2>1. CASE HasClient(sig.client)
    BY <1>5, <2>1, FindsTyped DEF ClearUnpair, ClearPlaces
  <2>2. CASE ~HasClient(sig.client)
    BY <1>1, <1>5, <2>2 DEF ClearUnpair, SigGoes, SignalThread, ClearPlaces
  <2> QED
    BY <1>5, <2>1, <2>2 DEF ClearUnpair
<1>6. CASE ClearEnd
  <2> DEFINE ids == {timers[k] : k \in Keys} \ {0}
  <2>1. ids \subseteq TimerIds
    BY DEF TypeInv, TypeOK, TimerIds
  <2>2. sig' = [sig EXCEPT !.at = "cleanup", !.tracked = ids]
    BY <1>6 DEF ClearEnd
  <2> HIDE DEF ids
  <2> QED
    BY <1>1, <1>6, <2>1, <2>2 DEF ClearEnd, SignalThread
<1> QED
  BY <1>2, <1>3, <1>4, <1>5, <1>6

\* The break frame goes to a client.
LEMMA NotifyKeeps ==
    ASSUME SignalInv, ClearNotify, UNCHANGED <<timerVars, asio>>
    PROVE  SignalInv'
<1> DEFINE partner == IF sig.client = sig.web THEN sig.app ELSE sig.web
<1>1. CASE SigDangles
  BY <1>1, DanglesKeeps
<1>2. CASE ~SigDangles
  <2>1. /\ HasClient(partner) /\ sig' = [sig EXCEPT !.at = "unpair"]
        /\ out' = Deliver(partner, "break", sig.client, partner, "209")
        /\ UNCHANGED <<session, alive, connVars>>
    BY <1>2 DEF ClearNotify, SigGoes
  <2> HIDE DEF partner
  <2>2. partner \in Clients /\ sig.client \in Ids
    BY <2>1 DEF HasClient, SignalInv, SignalThread, TypeInv, TypeOK
  <2>3. out' \subseteq Frames
    BY <2>1, <2>2, DeliverTyped, IdsContain DEF FrameTypes, Payloads
  <2>4. sig' \in SignalThread
    BY <2>1 DEF SignalInv, SignalThread, ClearPlaces
  <2> QED
    BY <2>1, <2>3, <2>4, SignalMoves DEF SignalInv, TypeInv, TypeOK, connVars
<1> QED
  BY <1>1, <1>2

\* The locked part of unpair erases two entries, in whatever state the maps are.
LEMMA EraseKeeps ==
    ASSUME SignalInv, ClearErase, UNCHANGED <<timerVars, asio>>
    PROVE  SignalInv'
<1>1. CASE SigDangles
  BY <1>1, DanglesKeeps
<1>2. CASE ~SigDangles
  <2>1. /\ pairings' = [pairings EXCEPT ![sig.web] = NoId]
        /\ reversePairings' = [reversePairings EXCEPT ![sig.app] = NoId]
        /\ sig' = [sig EXCEPT !.at = "close"] /\ out' = {}
        /\ UNCHANGED <<session, alive, connections, hdlToId>>
    BY <1>2 DEF ClearErase, SigGoes
  <2>2. pairings' \in [Clients -> Ids] /\ reversePairings' \in [Clients -> Ids]
    BY <2>1, IdsContain DEF SignalInv, TypeInv, TypeOK
  <2>3. sig' \in SignalThread
    BY <2>1 DEF SignalInv, SignalThread, ClearPlaces
  <2> QED
    BY <2>1, <2>2, <2>3, SignalMoves DEF SignalInv, TypeInv, TypeOK
<1> QED
  BY <1>1, <1>2

\* The locked part of disconnect erases both entries of its client.
LEMMA CloseKeeps ==
    ASSUME SignalInv, ClearClose, UNCHANGED <<timerVars, asio>>
    PROVE  SignalInv'
<1> USE DEF SignalInv
<1> DEFINE c == sig.client
<1>1. CASE ~HasClient(c)
  BY <1>1, DanglesKeeps DEF ClearClose
<1>2. CASE HasClient(c)
  <2>1. /\ session' = [session EXCEPT ![c] = IF @ = "open" THEN "closing" ELSE @]
        /\ hdlToId' = [hdlToId EXCEPT ![c] = NoId]
        /\ connections' = connections \ {c}
        /\ SigReturns
        /\ out' = {}
        /\ UNCHANGED <<alive, pairVars>>
    BY <1>2 DEF ClearClose
  <2>2. c \in Clients
    BY <1>2 DEF HasClient, TypeInv, TypeOK
  <2> HIDE DEF c
  <2>3. sig' \in SignalThread
    BY <2>1, IdsContain DEF SigReturns, SignalThread, ClearPlaces
  <2>4. /\ session' \in [Clients -> SessionStates]
        /\ \A d \in Clients : /\ session[d] = "closed" => session'[d] = "closed"
                              /\ session[d] \in Staying => session'[d] \in Staying
    BY <2>1, <2>2 DEF TypeInv, TypeOK, SessionStates, Staying
  <2>5. hdlToId' \in [Clients -> Ids]
    BY <2>1, <2>2, IdsContain DEF TypeInv, TypeOK
  <2>6. TypeInv'
    BY <2>1, <2>4, <2>5, SignalTypes DEF TypeInv, TypeOK, pairVars
  <2>7. OwnHandles' /\ EntriesAreLive'
    BY <2>1, <2>4 DEF OwnHandles, EntriesAreLive, Staying, TypeInv, TypeOK
  <2> QED
    BY <2>3, <2>6, <2>7
<1> QED
  BY <1>1, <1>2

\* cleanupAll() and the rest touch neither connections nor sessions.
LEMMA TimersKeep ==
    ASSUME SignalInv, SignalTimers
    PROVE  SignalInv'
<1> USE DEF SignalInv
<1>1. UNCHANGED <<session, connVars, asio>>
  BY DEF SignalTimers, CleanupStop, CleanupDangles, CleanupEnd, StopServer
<1>2. OwnHandles' /\ EntriesAreLive'
  BY <1>1 DEF OwnHandles, EntriesAreLive, connVars
<1>3. ASSUME NEW k \in Keys, CleanupStop(k)
      PROVE  TypeInv' /\ sig' \in SignalThread
  <2>1. task' \in [TimerIds -> Tasks] /\ SameOperands
    BY <1>3, ClearIntervalTypes DEF CleanupStop, TypeInv, TypeOK
  <2>2. UNCHANGED <<timers, counter>> /\ out' = {} /\ UNCHANGED alive
    BY <1>3 DEF CleanupStop
  <2>3. \A j \in Keys : timers[j] # 0 => timers[j] \in TimerIds
    BY DEF TypeInv, TypeOK, TimerIds
  <2>4. TypeInv'
    BY <1>1, <2>1, <2>2, <2>3
    DEF SameOperands, TypeInv, TypeOK, HandlerOperands, TaskOperands, EntriesExist, connVars
  <2>5. sig' = [sig EXCEPT !.key = k, !.entry = timers[k], !.astray = sig.astray \/ TimerFreed]
    BY <1>3 DEF CleanupStop
  <2>6. sig.astray \/ TimerFreed \in BOOLEAN
    BY DEF TimerFreed, SignalThread
  <2>7. timers[k] \in 0 .. MaxTimers
    BY DEF TypeInv, TypeOK
  <2>8. sig' \in SignalThread
    BY <2>5, <2>6, <2>7 DEF SignalThread
  <2> QED
    BY <2>4, <2>8
<1>4. CASE CleanupDangles
  <2>1. TypeInv'
    BY <1>1, <1>4, SignalTypes DEF CleanupDangles, Terminate, TypeInv, TypeOK, connVars
  <2> QED
    BY <1>2, <1>4, <2>1 DEF CleanupDangles
<1>5. CASE StopServer
  <2>1. TypeInv'
    BY <1>1, <1>5, SignalTypes DEF StopServer, TypeInv, TypeOK, connVars
  <2>2. sig' \in SignalThread
    BY <1>5 DEF StopServer, SignalThread
  <2> QED
    BY <1>2, <2>1, <2>2
<1>6. CASE CleanupEnd
  <2>1. TypeInv'
    BY <1>1, <1>6, TimerIdBounds
    DEF CleanupEnd, TypeInv, TypeOK, HandlerOperands, TaskOperands, EntriesExist, connVars
  <2>2. sig' = [sig EXCEPT !.at = "stop", !.astray = sig.astray \/ TimerFreed]
    BY <1>6 DEF CleanupEnd
  <2>3. sig.astray \/ TimerFreed \in BOOLEAN
    BY DEF TimerFreed, SignalThread
  <2>4. sig' \in SignalThread
    BY <2>2, <2>3 DEF SignalThread
  <2> QED
    BY <1>2, <2>1, <2>4
<1> QED
  BY <1>2, <1>3, <1>4, <1>5, <1>6 DEF SignalTimers

-----------------------------------------------------------------------------
(* The theorems.                                                           *)

\* Every step of every thread keeps the invariant.
LEMMA ShutdownStep ==
    ASSUME SignalInv, [ShutdownNext]_shutdownVars
    PROVE  SignalInv'
<1>1. CASE alive /\ SignalConnections
  <2>1. UNCHANGED <<timerVars, asio>>
    BY <1>1 DEF SignalConnections
  <2>2. CASE ClearDangles
    BY <2>1, <2>2, DanglesKeeps DEF ClearDangles
  <2> QED
    BY <1>1, <2>1, <2>2, WalkTyped, LooksKeep, NotifyKeeps, EraseKeeps, CloseKeeps
    DEF SignalConnections
<1>2. CASE alive /\ SignalTimers
  BY <1>2, TimersKeep
<1>3. CASE MainReturns
  <2>1. sig.at = "done" /\ sig' = [sig EXCEPT !.at = "exited"] /\ Throws
    BY <1>3 DEF MainReturns
  <2>2. sig' \in SignalThread
    BY <2>1 DEF SignalInv, SignalThread
  <2> QED
    BY <2>1, <2>2, SignalMoves DEF Throws, Terminate, SignalInv, TypeInv, TypeOK, connVars
<1>4. CASE /\ alive
           /\ \/ (IoServes \/ IoNetwork \/ HandlerMeetsNull \/ IoContinues) /\ UNCHANGED sig
              \/ (\E t \in TimerIds : WaveformStep(t)) /\ UNCHANGED sig
              \/ HeartbeatDangles /\ UNCHANGED sig
  BY <1>4, OthersAreServerSteps, ServerSteps
<1>5. CASE UNCHANGED shutdownVars
  <2>1. TypeInv'
    BY <1>5, NextTypes DEF shutdownVars, SignalInv
  <2> QED
    BY <1>5, <2>1 DEF shutdownVars, vars, connVars, SignalInv, OwnHandles, EntriesAreLive
<1> QED
  BY <1>1, <1>2, <1>3, <1>4, <1>5 DEF ShutdownNext, SignalStep

\* The inductive invariant holds in every behaviour.
LEMMA SignalInvariant == ShutdownSpec => []SignalInv
BY InitSignal, ShutdownStep, PTL DEF ShutdownSpec

\* The types hold through a shutdown, whatever is erased under whom.
THEOREM ShutdownTypeCorrect == ShutdownSpec => []ShutdownTypeOK
<1>1. SignalInv => ShutdownTypeOK
  BY DEF SignalInv, TypeInv, ShutdownTypeOK
<1> QED
  BY <1>1, SignalInvariant, PTL

\* Although the signal thread and the io thread erase clients side by side, every client
\* in connections has its handle's entry and its on_close still to come.
THEOREM LiveEntries == ShutdownSpec => []EntriesAreLive
<1>1. SignalInv => EntriesAreLive
  BY DEF SignalInv
<1> QED
  BY <1>1, SignalInvariant, PTL
=============================================================================
