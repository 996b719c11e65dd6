--------------------------- MODULE Waveform_proofs ---------------------------
(***************************************************************************)
(* Theorems about the waveform tasks of Server, for every number of        *)
(* clients, channels and timers and every set of bind requests, under the  *)
(* timing assumption that no callback outlasts the sleep of an override.   *)
(***************************************************************************)
EXTENDS Server_proofs

USE EndpointAssumption, TimerAssumption

\* The callback of a task that has been cleared, before it looks at timers.
Silenced(t) == InCallback(t) /\ ~task[t].active

\* An entry of timers names a task of its own key.
EntriesOwned == \A k \in Keys : timers[k] # 0 => task[timers[k]].key = k

\* Timers are numbered in the order in which they are started.
UnusedTimers == \A t \in TimerIds : t > counter => task[t].pc = "none"

\* What sendMessage relies on at each of its places: it replaces what it clears, the
\* entry is still that of the task it cleared or gone, and the channel is free when it
\* starts a task.
OverrideState ==
    /\ asio.at \in {"override", "find", "copy", "stop", "erase"} => asio.replacing
    /\ asio.at \in {"stop", "erase"} => timers[asio.key] \in {0, asio.id}
    /\ asio.at \in {"stop", "erase", "insert"} => task[asio.id].key = asio.key
    /\ asio.at = "erase" => ~task[asio.id].active
    /\ asio.at \in {"start", "insert"} => timers[asio.key] = 0

\* Whoever cleared a task whose callback still runs is about to sleep, or its client
\* is leaving or has left.
SilencedAreAwaited ==
    \A t \in TimerIds : Silenced(t) =>
        \/ asio.at \in {"erase", "start"} /\ asio.key = task[t].key /\ asio.replacing
        \/ asio.at \in ClosingPCs /\ asio.client = task[t].key[1]
        \/ session[task[t].key[1]] \in {"detached", "released"}

\* No task runs on the channel of a cleared one.
SilencedAreAlone ==
    \A t, u \in TimerIds : Running(t) /\ Silenced(u) => task[t].key # task[u].key

\* on_close has yet to stop every task of its client that runs, and no other.
CloserStops ==
    /\ asio.at \in ClosingPCs => \A k \in asio.keys : k[1] = asio.client
    /\ asio.at = "closeErase" => asio.key \in asio.keys
    /\ \A t \in TimerIds : Running(t) /\ asio.at \in ClosingPCs /\ task[t].key[1] = asio.client =>
          /\ task[t].key \in asio.keys
          /\ asio.at = "closeErase" => task[t].key # asio.key

\* A running task is one of a connected client and sends to its partner, or to a client
\* that has left.
RunnersServe ==
    \A t \in TimerIds : Running(t) =>
        /\ task[t].key[1] \in connections
        /\ \/ IsPaired(task[t].key[1], task[t].target)
           \/ session[task[t].target] \in {"detached", "released"}

WaveInv == /\ RunningIsTracked /\ EntriesOwned /\ UnusedTimers /\ OverrideState
           /\ SenderPaired /\ SilencedAreAwaited /\ SilencedAreAlone /\ CloserStops
           /\ RunnersServe

\* Nothing runs when the server starts.
LEMMA InitWave == Init => WaveInv
BY DEF Init, TimerManagerInit, Idle, NoTask, WaveInv, RunningIsTracked, EntriesOwned,
       UnusedTimers, OverrideState, SenderPaired, SilencedAreAwaited, SilencedAreAlone,
       CloserStops, RunnersServe, Running, Silenced, InCallback, SendingPCs, ClosingPCs

-----------------------------------------------------------------------------
(* Lemmas about a state.                                                   *)

\* A task is alone on its channel.
LEMMA TrackedAlone == ASSUME TypeInv, WaveInv PROVE OneRunningPerChannel
BY DEF WaveInv, RunningIsTracked, OverrideState, OneRunningPerChannel, Inserting, Running,
       TypeInv, TypeOK, TaskOperands, TimerIds

\* Nobody runs on a channel whose entry is missing, but for a task that is about to
\* be inserted.
LEMMA FreeChannel ==
    ASSUME TypeInv, WaveInv, NEW t \in TimerIds, Running(t), timers[task[t].key] = 0
    PROVE  Inserting(t)
BY TimerIdBounds DEF WaveInv, RunningIsTracked

\* A callback has its channel to itself: its task runs, or no task of the channel does.
LEMMA CallbackAlone ==
    ASSUME TypeInv, WaveInv, NEW t \in TimerIds, NEW u \in TimerIds,
           Running(t), InCallback(u), task[t].key = task[u].key
    PROVE  t = u
<1>1. CASE task[u].active
  BY <1>1, TrackedAlone DEF OneRunningPerChannel, Running, InCallback
<1>2. CASE ~task[u].active
  BY <1>2 DEF WaveInv, SilencedAreAlone, Silenced
<1> QED
  BY <1>1, <1>2 DEF TypeInv, TypeOK, Tasks

-----------------------------------------------------------------------------
(* Steps that start and stop no task.                                      *)

\* A step of threads alone that changes no operand and no flag, and clears nobody.
LEMMA QuietTasks ==
    ASSUME TypeInv, WaveInv, UNCHANGED <<session, connVars, timers, counter, asio>>,
           \A t \in TimerIds :
               /\ task'[t].key = task[t].key /\ task'[t].target = task[t].target
               /\ task'[t].active = task[t].active
               /\ task'[t].pc = "none" <=> task[t].pc = "none"
               /\ Silenced(t)' => Silenced(t)
    PROVE  WaveInv'
<1> USE DEF WaveInv
<1>1. \A t \in TimerIds : Running(t)' <=> Running(t)
  BY DEF Running
<1>2. asio.at \in {"stop", "erase", "insert"} => asio.id \in TimerIds
  BY DEF TypeInv, HandlerOperands, Clearing
<1>3. \A k \in Keys : timers[k] # 0 => timers[k] \in TimerIds
  BY DEF TypeInv, TypeOK, TimerIds
<1>4. RunningIsTracked'
  BY <1>1 DEF RunningIsTracked, Inserting
<1>5. EntriesOwned' /\ UnusedTimers' /\ OverrideState'
  BY <1>2, <1>3 DEF EntriesOwned, UnusedTimers, OverrideState
<1>6. SenderPaired'
  BY DEF SenderPaired, IsPaired, HasClient, connVars, pairVars
<1>7. SilencedAreAwaited' /\ SilencedAreAlone' /\ CloserStops'
  BY <1>1 DEF SilencedAreAwaited, SilencedAreAlone, CloserStops
<1>8. RunnersServe'
  BY <1>1 DEF RunnersServe, IsPaired, HasClient, connVars, pairVars
<1> QED
  BY <1>4, <1>5, <1>6, <1>7, <1>8

\* A step that changes no session, no map and no task.
LEMMA StutterWave ==
    ASSUME TypeInv, WaveInv, UNCHANGED <<session, connVars, timerVars, asio>>
    PROVE  WaveInv'
<1>1. UNCHANGED <<timers, task, counter>>
  BY DEF timerVars
<1> QED
  BY <1>1, QuietTasks DEF Silenced, InCallback

\* While the io thread is idle, sessions and the connection maps change under the tasks.
LEMMA IdleWave ==
    ASSUME ConnInv, WaveInv, asio.at = "idle", UNCHANGED <<timerVars, asio>>,
           connections \subseteq connections',
           \A i, j \in Clients : IsPaired(i, j) => IsPaired(i, j)',
           \A c \in Clients : session[c] \in {"detached", "released"} =>
                                  session'[c] \in {"detached", "released"}
    PROVE  WaveInv'
<1> USE DEF WaveInv, timerVars
<1>1. RunningIsTracked' /\ EntriesOwned' /\ UnusedTimers' /\ OverrideState' /\ SilencedAreAlone'
  BY DEF RunningIsTracked, Running, Inserting, EntriesOwned, UnusedTimers, OverrideState,
         SilencedAreAlone, Silenced, InCallback
<1>2. SenderPaired' /\ CloserStops'
  BY DEF SenderPaired, CloserStops, SendingPCs, ClosingPCs
<1>3. \A t \in TimerIds :
          task[t].pc # "none" => task[t].key[1] \in Clients /\ task[t].target \in Clients
  BY DEF ConnInv, TypeInv, TaskOperands, Keys
<1>4. SilencedAreAwaited'
  BY <1>3 DEF SilencedAreAwaited, Silenced, InCallback, ClosingPCs
<1>5. RunnersServe'
  BY <1>3 DEF RunnersServe, Running
<1> QED
  BY <1>1, <1>2, <1>4, <1>5

\* A client connects, a connection changes its state, or a pair is bound.
LEMMA ConnectionWave ==
    ASSUME ConnInv, WaveInv,
           \/ \E c \in Clients : OnOpen(c) \/ Network(c)
           \/ \E b \in Binds : HandleBind(b[1], b[2], b[3])
    PROVE  WaveInv'
<1> USE DEF ConnInv, TypeInv, TypeOK
<1>1. ASSUME NEW c \in Clients, OnOpen(c)
      PROVE  WaveInv'
  BY <1>1, IdleWave DEF OnOpen, RegisterConn, IsPaired, HasClient, pairVars
<1>2. ASSUME NEW c \in Clients, Network(c)
      PROVE  WaveInv'
  BY <1>2, IdleWave
  DEF Network, PeerCloses, Drop, Release, IsPaired, HasClient, connVars, pairVars
<1>3. ASSUME NEW b \in Binds, HandleBind(b[1], b[2], b[3])
      PROVE  WaveInv'
  <2>1. asio.at = "idle" /\ UNCHANGED <<timerVars, asio, session, connections>>
    BY <1>3 DEF HandleBind, Accepted, Receives, Pair
  <2>2. \A i, j \in Clients : IsPaired(i, j) => IsPaired(i, j)'
    <3> DEFINE w == b[2]
               a == b[3]
    <3>1. Pair(w, a)
      BY <1>3 DEF HandleBind
    <3> HIDE DEF w, a
    <3>2. \A i, j \in Clients : pairings[i] = j => pairings'[i] = j
      BY <3>1 DEF Pair, PairRefused
    <3>3. \A i, j \in Clients : reversePairings[i] = j => reversePairings'[i] = j
      BY <3>1 DEF Pair, PairRefused
    <3> QED
      BY <2>1, <3>2, <3>3 DEF IsPaired, HasClient
  <2> QED
    BY <2>1, <2>2, IdleWave
<1> QED
  BY <1>1, <1>2, <1>3

-----------------------------------------------------------------------------
(* Messages.                                                               *)

\* A waveform is accepted: the io thread enters sendMessage.
LEMMA SendMessageWave ==
    ASSUME ConnInv, WaveInv, asio.at = "idle", NEW key \in Keys, NEW target, NEW total,
           NEW source, SendMessage(key, target, total, source), IsPaired(key[1], target),
           UNCHANGED <<session, connVars>>
    PROVE  WaveInv'
<1> USE DEF ConnInv, WaveInv
<1>1. /\ UNCHANGED <<timers, task, counter>>
      /\ asio'.at = IF timers[key] = 0 THEN "start" ELSE "override"
      /\ asio'.key = key /\ asio'.target = target /\ asio'.replacing = (timers[key] # 0)
  BY DEF SendMessage, Idle, timerVars
<1>2. RunningIsTracked' /\ EntriesOwned' /\ UnusedTimers' /\ OverrideState' /\ SilencedAreAlone'
  BY <1>1 DEF RunningIsTracked, Running, Inserting, EntriesOwned, UnusedTimers,
              OverrideState, SilencedAreAlone, Silenced, InCallback
<1>3. SenderPaired'
  BY <1>1 DEF SenderPaired, IsPaired, HasClient, connVars, pairVars
<1>4. CloserStops' /\ SilencedAreAwaited'
  BY <1>1 DEF CloserStops, ClosingPCs, SilencedAreAwaited, Silenced, InCallback
<1>5. RunnersServe'
  BY <1>1 DEF RunnersServe, Running, IsPaired, HasClient, connVars, pairVars
<1> QED
  BY <1>2, <1>3, <1>4, <1>5

\* A received message.
LEMMA OnMessageWave ==
    ASSUME ConnInv, WaveInv, NEW c \in Clients, OnMessage(c)
    PROVE  WaveInv'
<1>1. CASE \E b \in Binds : b[1] = c /\ HandleBind(c, b[2], b[3])
  BY <1>1, ConnectionWave
<1>2. ASSUME NEW i \in Ids, NEW j \in Ids, NEW channel \in Channels, NEW time \in Times,
             IsPaired(i, j), SendMessage(<<i, channel>>, j, TotalSends(time), c),
             UNCHANGED <<session, connVars>>, asio.at = "idle"
      PROVE  WaveInv'
  <2> DEFINE key == <<i, channel>>
  <2>1. key \in Keys /\ key[1] = i
    BY <1>2 DEF IsPaired, HasClient, ConnInv, TypeInv, TypeOK, Keys
  <2> HIDE DEF key
  <2> QED
    BY <1>2, <2>1, SendMessageWave DEF key
<1>3. CASE Throws \/ \E frames : Answer(frames)
  <2>1. UNCHANGED <<session, connVars, timerVars, asio>>
    BY <1>3 DEF Throws, Answer
  <2> QED
    BY <2>1, StutterWave DEF ConnInv
<1> QED
  BY <1>1, <1>2, <1>3, MessageSteps

-----------------------------------------------------------------------------
(* The steps of the io thread inside sendMessage.                          *)

\* The fields of the handler's state after a change of its place alone.
LEMMA PlaceMoves ==
    ASSUME TypeInv, NEW place, asio' = [asio EXCEPT !.at = place]
    PROVE  /\ asio'.at = place /\ asio'.key = asio.key /\ asio'.target = asio.target
           /\ asio'.replacing = asio.replacing /\ asio'.id = asio.id
BY DEF TypeInv, TypeOK, Handlers

\* The fields of the handler's state after a change of its place and timer.
LEMMA PlaceAndTimerMove ==
    ASSUME TypeInv, NEW place, NEW id, asio' = [asio EXCEPT !.at = place, !.id = id]
    PROVE  /\ asio'.at = place /\ asio'.key = asio.key /\ asio'.target = asio.target
           /\ asio'.replacing = asio.replacing /\ asio'.id = id
BY DEF TypeInv, TypeOK, Handlers

\* Pairedness is a matter of the connection maps.
LEMMA SamePairs ==
    ASSUME UNCHANGED connVars
    PROVE  \A i, j : IsPaired(i, j)' <=> IsPaired(i, j)
BY DEF IsPaired, HasClient, connVars, pairVars

\* The io thread moves on inside sendMessage and touches no task and no entry.
LEMMA SendMoves ==
    ASSUME TypeInv, WaveInv, UNCHANGED <<session, connVars, timerVars>>,
           asio.at \in SendingPCs \ {"insert"}, asio'.at \in SendingPCs \ {"insert"},
           asio'.key = asio.key, asio'.target = asio.target,
           OverrideState', SilencedAreAwaited'
    PROVE  WaveInv'
<1> USE DEF WaveInv, timerVars
<1>1. RunningIsTracked' /\ EntriesOwned' /\ UnusedTimers' /\ SilencedAreAlone'
  BY DEF RunningIsTracked, Running, Inserting, EntriesOwned, UnusedTimers,
         SilencedAreAlone, Silenced, InCallback
<1>2. SenderPaired'
  BY SamePairs DEF SenderPaired
<1>3. CloserStops'
  BY DEF CloserStops, ClosingPCs, SendingPCs
<1>4. RunnersServe'
  BY SamePairs DEF RunnersServe, Running, connVars
<1> QED
  BY <1>1, <1>2, <1>3, <1>4

\* sendMessage finds, copies and looks again, before it clears the old task.
LEMMA LookWave ==
    ASSUME TypeInv, WaveInv, UNCHANGED connVars,
           OverrideEntry \/ ClearTimerFind \/ ClearTimerCopy \/ EntryVanished
    PROVE  WaveInv'
<1> USE DEF timerVars
<1>0. ASSUME UNCHANGED <<session, timerVars>>, asio.at \in {"override", "find", "copy"},
             asio'.at \in SendingPCs \ {"insert"}, asio'.key = asio.key,
             asio'.target = asio.target, OverrideState'
      PROVE  WaveInv'
  <2>1. SilencedAreAwaited'
    BY <1>0 DEF WaveInv, SilencedAreAwaited, Silenced, InCallback, ClosingPCs
  <2> QED
    BY <1>0, <2>1, SendMoves DEF SendingPCs
<1>1. CASE OverrideEntry
  <2>1. /\ asio'.at = "find" /\ asio'.key = asio.key /\ asio'.target = asio.target
        /\ asio'.replacing = asio.replacing
    BY <1>1, PlaceAndTimerMove DEF OverrideEntry
  <2>2. OverrideState'
    BY <1>1, <2>1 DEF OverrideEntry, WaveInv, OverrideState
  <2> QED
    BY <1>0, <1>1, <2>1, <2>2 DEF OverrideEntry, SendingPCs
<1>2. CASE ClearTimerFind
  <2>1. /\ asio'.at = IF timers[asio.key] = 0 THEN "start" ELSE "copy"
        /\ asio'.key = asio.key /\ asio'.target = asio.target
        /\ asio'.replacing = asio.replacing
    BY <1>2, PlaceMoves DEF ClearTimerFind
  <2>2. OverrideState'
    BY <1>2, <2>1 DEF ClearTimerFind, WaveInv, OverrideState
  <2> QED
    BY <1>0, <1>2, <2>1, <2>2 DEF ClearTimerFind, SendingPCs
<1>3. CASE ClearTimerCopy /\ UNCHANGED asio
  BY <1>3, StutterWave DEF ClearTimerCopy
<1>4. CASE ClearTimerCopy /\ asio' # asio
  <2>1. /\ asio'.at = "stop" /\ asio'.key = asio.key /\ asio'.target = asio.target
        /\ asio'.replacing = asio.replacing /\ asio'.id = timers[asio.key]
    BY <1>4, PlaceAndTimerMove DEF ClearTimerCopy
  <2>2. asio.key \in Keys
    BY <1>4 DEF ClearTimerCopy, TypeInv, HandlerOperands, SendingPCs
  <2>3. OverrideState'
    BY <1>4, <2>1, <2>2 DEF ClearTimerCopy, WaveInv, OverrideState, EntriesOwned
  <2> QED
    BY <1>0, <1>4, <2>1, <2>3 DEF ClearTimerCopy, SendingPCs
<1>5. CASE EntryVanished
  BY <1>5, StutterWave DEF EntryVanished
<1> QED
  BY <1>1, <1>2, <1>3, <1>4, <1>5

\* clearInterval takes one task's flag away.
LEMMA ClearedFlag ==
    ASSUME TypeInv, NEW id, ClearInterval(id), NEW t \in TimerIds
    PROVE  /\ task'[t].pc = task[t].pc /\ task'[t].key = task[t].key
           /\ task'[t].target = task[t].target
           /\ task'[t].active = IF t = id THEN FALSE ELSE task[t].active
<1>1. task[t] \in Tasks /\ task' = [task EXCEPT ![id].active = FALSE]
  BY DEF TypeInv, TypeOK, ClearInterval
<1>2. CASE t = id
  <2>1. task'[t] = [task[t] EXCEPT !.active = FALSE]
    BY <1>1, <1>2 DEF TypeInv, TypeOK
  <2> QED
    BY <1>1, <1>2, <2>1, ClearedTask DEF Tasks
<1>3. CASE t # id
  BY <1>1, <1>3 DEF TypeInv, TypeOK
<1> QED
  BY <1>2, <1>3

\* clearTimer stops the task it copied: nothing runs on its channel any more.
LEMMA StopWave ==
    ASSUME TypeInv, WaveInv, UNCHANGED connVars, ClearTimerStop
    PROVE  WaveInv'
<1> USE DEF WaveInv
<1> DEFINE id == asio.id
<1>1. /\ asio.at = "stop" /\ id \in TimerIds /\ UNCHANGED <<session, timers, counter>>
      /\ asio'.at = "erase" /\ asio'.key = asio.key /\ asio'.target = asio.target
      /\ asio'.replacing = asio.replacing /\ asio'.id = id
  BY PlaceMoves DEF ClearTimerStop, TypeInv, HandlerOperands, Clearing
<1>2. task[id].key = asio.key /\ timers[asio.key] \in {0, id} /\ asio.replacing
  BY <1>1 DEF OverrideState
<1> HIDE DEF id
<1>3. \A t \in TimerIds :
          /\ task'[t].pc = task[t].pc /\ task'[t].key = task[t].key
          /\ task'[t].target = task[t].target
          /\ task'[t].active = IF t = id THEN FALSE ELSE task[t].active
  BY ClearedFlag DEF ClearTimerStop, id
<1>4. \A t \in TimerIds : Running(t)' => Running(t) /\ t # id
  BY <1>3 DEF Running
<1>5. \A t \in TimerIds : Silenced(t)' => Silenced(t) \/ t = id
  BY <1>3 DEF Silenced, InCallback
<1>6. \A k \in Keys : timers[k] # 0 => timers[k] \in TimerIds
  BY DEF TypeInv, TypeOK, TimerIds
<1>7. \A t \in TimerIds : Running(t)' => task[t].key # asio.key
  BY <1>1, <1>2, <1>4, TimerIdBounds DEF RunningIsTracked, Inserting
<1>8. RunningIsTracked' /\ UnusedTimers' /\ EntriesOwned'
  <2>1. \A t \in TimerIds : task'[t].key = task[t].key /\ task'[t].pc = task[t].pc
    BY <1>3
  <2>2. RunningIsTracked'
    BY <1>1, <1>4, <2>1 DEF RunningIsTracked, Inserting
  <2>3. UnusedTimers'
    BY <1>1, <2>1 DEF UnusedTimers
  <2>4. EntriesOwned'
    BY <1>1, <1>6, <2>1 DEF EntriesOwned
  <2> QED
    BY <2>2, <2>3, <2>4
<1>9. OverrideState'
  BY <1>1, <1>2, <1>3 DEF OverrideState
<1>10. SenderPaired'
  BY <1>1, SamePairs DEF SenderPaired, SendingPCs
<1>11. SilencedAreAwaited'
  BY <1>1, <1>2, <1>3, <1>5 DEF SilencedAreAwaited, ClosingPCs
<1>12. SilencedAreAlone'
  <2>1. ASSUME NEW t \in TimerIds, NEW u \in TimerIds, Running(t)', Silenced(u)'
        PROVE  task[t].key # task[u].key
    <3>1. CASE Silenced(u)
      BY <1>4, <2>1, <3>1 DEF SilencedAreAlone
    <3>2. CASE u = id
      BY <1>2, <1>7, <2>1, <3>2
    <3> QED
      BY <1>5, <2>1, <3>1, <3>2
  <2>2. \A t \in TimerIds : task'[t].key = task[t].key
    BY <1>3
  <2> QED
    BY <2>1, <2>2 DEF SilencedAreAlone
<1>13. CloserStops'
  BY <1>1 DEF CloserStops, ClosingPCs
<1>14. RunnersServe'
  BY <1>1, <1>3, <1>4, SamePairs DEF RunnersServe, connVars
<1> QED
  BY <1>8, <1>9, <1>10, <1>11, <1>12, <1>13, <1>14

\* clearTimer erases the entry of a task that does not run.
LEMMA EraseWave ==
    ASSUME TypeInv, WaveInv, UNCHANGED connVars, ClearTimerErase
    PROVE  WaveInv'
<1> USE DEF WaveInv
<1>1. /\ asio.at = "erase" /\ asio.id \in TimerIds /\ asio.key \in Keys
      /\ UNCHANGED <<session, task, counter>>
      /\ asio'.at = "start" /\ asio'.key = asio.key /\ asio'.target = asio.target
      /\ asio'.replacing = asio.replacing
  BY PlaceMoves DEF ClearTimerErase, TypeInv, HandlerOperands, Clearing, SendingPCs
<1>2. /\ timers'[asio.key] = 0
      /\ \A k \in Keys : k # asio.key => timers'[k] = timers[k]
  BY <1>1 DEF ClearTimerErase, TypeInv, TypeOK
<1>3. /\ task[asio.id].key = asio.key /\ ~task[asio.id].active
      /\ timers[asio.key] \in {0, asio.id} /\ asio.replacing
  BY <1>1 DEF OverrideState
<1>4. \A t \in TimerIds :
          /\ Running(t)' = Running(t) /\ Silenced(t)' = Silenced(t)
          /\ Running(t) => task[t].key \in Keys
  BY <1>1 DEF Running, Silenced, InCallback, TypeInv, TaskOperands
<1>5. \A t \in TimerIds : Running(t) => task[t].key # asio.key
  BY <1>1, <1>3, TimerIdBounds DEF RunningIsTracked, Inserting, Running
<1>6. RunningIsTracked' /\ UnusedTimers' /\ EntriesOwned'
  BY <1>1, <1>2, <1>4, <1>5 DEF RunningIsTracked, Inserting, UnusedTimers, EntriesOwned
<1>7. OverrideState'
  BY <1>1, <1>2 DEF OverrideState
<1>8. SenderPaired'
  BY <1>1, SamePairs DEF SenderPaired, SendingPCs
<1>9. SilencedAreAwaited'
  BY <1>1, <1>3, <1>4 DEF SilencedAreAwaited, ClosingPCs
<1>10. SilencedAreAlone' /\ CloserStops'
  BY <1>1, <1>4 DEF SilencedAreAlone, CloserStops, ClosingPCs
<1>11. RunnersServe'
  BY <1>1, <1>4, SamePairs DEF RunnersServe, connVars
<1> QED
  BY <1>6, <1>7, <1>8, <1>9, <1>10, <1>11

\* When the sleep is over, no callback of a cleared task is left on the channel.
LEMMA SleptQuiet ==
    ASSUME SleepCoversCallback, TypeInv, RegisteredWhileConnected, WaveInv,
           asio.at = "start", SleepIsOver, NEW t \in TimerIds, Silenced(t)
    PROVE  /\ task[t].key # asio.key
           /\ session[task[t].key[1]] \in {"detached", "released"}
<1>1. CASE asio.replacing
  BY <1>1 DEF SleepIsOver, Silenced, WaveInv, SilencedAreAwaited, ClosingPCs
<1>2. CASE ~asio.replacing
  <2>1. session[task[t].key[1]] \in {"detached", "released"}
    BY <1>2 DEF WaveInv, SilencedAreAwaited, ClosingPCs
  <2>2. asio.key[1] \in connections /\ asio.key[1] \in Clients
    BY DEF WaveInv, SenderPaired, SendingPCs, IsPaired, HasClient, TypeInv, TypeOK
  <2> QED
    BY <2>1, <2>2 DEF RegisteredWhileConnected
<1> QED
  BY <1>1, <1>2

\* One pulse, and no task.
LEMMA StartSingleWave ==
    ASSUME SleepCoversCallback, TypeInv, RegisteredWhileConnected, WaveInv,
           UNCHANGED connVars, StartSingle
    PROVE  WaveInv'
<1> USE DEF WaveInv, timerVars
<1>1. /\ asio.at = "start" /\ SleepIsOver /\ UNCHANGED <<session, timers, task, counter>>
      /\ asio'.at = "idle"
  BY DEF StartSingle, Idle
<1>2. \A t \in TimerIds : Running(t)' = Running(t) /\ Silenced(t)' = Silenced(t)
  BY <1>1 DEF Running, Silenced, InCallback
<1>3. RunningIsTracked' /\ UnusedTimers' /\ EntriesOwned' /\ OverrideState' /\ SenderPaired'
  BY <1>1, <1>2 DEF RunningIsTracked, Inserting, UnusedTimers, EntriesOwned,
                    OverrideState, SenderPaired, SendingPCs
<1>4. SilencedAreAwaited'
  BY <1>1, <1>2, SleptQuiet DEF SilencedAreAwaited
<1>5. SilencedAreAlone' /\ CloserStops'
  BY <1>1, <1>2 DEF SilencedAreAlone, CloserStops, ClosingPCs
<1>6. RunnersServe'
  BY <1>1, <1>2, SamePairs DEF RunnersServe, connVars
<1> QED
  BY <1>3, <1>4, <1>5, <1>6

\* A task starts: it is the only one of its channel that runs or calls back.
LEMMA StartRepeatingWave ==
    ASSUME SleepCoversCallback, TypeInv, RegisteredWhileConnected, WaveInv,
           UNCHANGED connVars, StartRepeating
    PROVE  WaveInv'
<1> USE DEF WaveInv
<1> DEFINE new == counter + 1
<1>1. /\ asio.at = "start" /\ SleepIsOver /\ UNCHANGED <<session, timers>>
      /\ asio'.at = "insert" /\ asio'.key = asio.key /\ asio'.target = asio.target
      /\ asio'.id = new /\ asio.key \in Keys /\ timers[asio.key] = 0
  BY PlaceAndTimerMove
  DEF StartRepeating, TypeInv, HandlerOperands, SendingPCs, OverrideState
<1>2. /\ new \in TimerIds /\ counter' = new /\ counter \in Nat
      /\ task[new].pc = "none"
  <2>1. counter \in 0 .. MaxTimers /\ counter < MaxTimers
    BY <1>1 DEF TypeInv, TypeOK, HandlerOperands, SendingPCs
  <2>2. new \in TimerIds /\ new > counter /\ counter \in Nat
    BY <2>1 DEF TimerIds
  <2> QED
    BY <2>2 DEF StartRepeating, UnusedTimers
<1>3. /\ task'[new].pc = "sleep" /\ task'[new].active /\ task'[new].key = asio.key
      /\ task'[new].target = asio.target
      /\ \A t \in TimerIds : t # new => task'[t] = task[t]
  BY <1>2 DEF StartRepeating, TypeInv, TypeOK
<1>4. \A t \in TimerIds : t > new => t > counter /\ t # new
  BY <1>2 DEF TimerIds
<1>5. \A k \in Keys : timers[k] # 0 => timers[k] \in TimerIds /\ timers[k] # new
  BY <1>2 DEF TypeInv, TypeOK, EntriesExist, TimerIds
<1> HIDE DEF new
<1>6. \A t \in TimerIds :
          /\ Running(t)' => t = new \/ Running(t)
          /\ Silenced(t)' => t # new /\ Silenced(t)
  BY <1>3 DEF Running, Silenced, InCallback
<1>7. RunningIsTracked'
  BY <1>1, <1>3, <1>6 DEF RunningIsTracked, Inserting
<1>8. EntriesOwned' /\ UnusedTimers'
  BY <1>1, <1>2, <1>3, <1>4, <1>5 DEF EntriesOwned, UnusedTimers
<1>9. OverrideState'
  BY <1>1, <1>3 DEF OverrideState
<1>10. SenderPaired'
  BY <1>1, SamePairs DEF SenderPaired, SendingPCs
<1>11. SilencedAreAwaited'
  BY <1>1, <1>3, <1>6, SleptQuiet DEF SilencedAreAwaited
<1>12. SilencedAreAlone'
  BY <1>1, <1>3, <1>6, SleptQuiet DEF SilencedAreAlone
<1>13. CloserStops'
  BY <1>1 DEF CloserStops, ClosingPCs
<1>14. RunnersServe'
  <2>1. asio.key[1] \in connections /\ IsPaired(asio.key[1], asio.target)
    BY <1>1 DEF SenderPaired, SendingPCs, IsPaired, HasClient
  <2> QED
    BY <1>1, <1>3, <1>6, <2>1, SamePairs DEF RunnersServe, connVars
<1> QED
  BY <1>7, <1>8, <1>9, <1>10, <1>11, <1>12, <1>13, <1>14

\* The entry of the new task: the channel had none.
LEMMA InsertWave ==
    ASSUME TypeInv, WaveInv, UNCHANGED connVars, InsertEntry
    PROVE  WaveInv'
<1> USE DEF WaveInv
<1>1. /\ asio.at = "insert" /\ asio.id \in TimerIds /\ asio.key \in Keys
      /\ UNCHANGED <<session, task, counter>> /\ asio'.at = "idle"
      /\ task[asio.id].key = asio.key /\ timers[asio.key] = 0
  BY DEF InsertEntry, Idle, TypeInv, HandlerOperands, Clearing, SendingPCs, OverrideState
<1>2. /\ timers'[asio.key] = asio.id
      /\ \A k \in Keys : k # asio.key => timers'[k] = timers[k]
  BY <1>1 DEF InsertEntry, TypeInv, TypeOK
<1>3. \A t \in TimerIds :
          /\ Running(t)' = Running(t) /\ Silenced(t)' = Silenced(t)
          /\ Running(t) => task[t].key \in Keys
  BY <1>1 DEF Running, Silenced, InCallback, TypeInv, TaskOperands
<1>4. \A t \in TimerIds : Running(t) /\ t # asio.id => task[t].key # asio.key
  BY <1>1, TimerIdBounds DEF RunningIsTracked, Inserting
<1>5. RunningIsTracked'
  BY <1>1, <1>2, <1>3, <1>4 DEF RunningIsTracked, Inserting
<1>6. EntriesOwned' /\ UnusedTimers' /\ OverrideState' /\ SenderPaired'
  BY <1>1, <1>2 DEF EntriesOwned, UnusedTimers, OverrideState, SenderPaired, SendingPCs
<1>7. SilencedAreAwaited'
  BY <1>1, <1>3 DEF SilencedAreAwaited, ClosingPCs
<1>8. SilencedAreAlone' /\ CloserStops'
  BY <1>1, <1>3 DEF SilencedAreAlone, CloserStops, ClosingPCs
<1>9. RunnersServe'
  BY <1>1, <1>3, SamePairs DEF RunnersServe, connVars
<1> QED
  BY <1>5, <1>6, <1>7, <1>8, <1>9

\* Every step of sendMessage.
LEMMA SendStepWave ==
    ASSUME SleepCoversCallback, ConnInv, WaveInv, SendSteps, UNCHANGED connVars
    PROVE  WaveInv'
BY LookWave, StopWave, EraseWave, StartSingleWave, StartRepeatingWave, InsertWave
DEF SendSteps, ConnInv

-----------------------------------------------------------------------------
(* on_close.                                                               *)

\* on_close begins: its snapshot holds the key of every task of the client that runs.
LEMMA OnCloseWave ==
    ASSUME ConnInv, WaveInv, NEW c \in Clients, OnClose(c)
    PROVE  WaveInv'
<1> USE DEF WaveInv, ConnInv, timerVars
<1>1. /\ asio.at = "idle" /\ UNCHANGED <<session, connVars, timers, task, counter>>
      /\ session[c] = "closed"
  BY DEF OnClose
<1>2. GetClientId(c) = c
  BY <1>1 DEF RegisteredWhileConnected, GetClientId
<1>3. asio'.at = "closing" /\ asio'.client = c /\ asio'.keys = KeysOf(c)
  BY <1>2 DEF OnClose, Idle
<1>4. \A t \in TimerIds : Running(t)' = Running(t) /\ Silenced(t)' = Silenced(t)
  BY <1>1 DEF Running, Silenced, InCallback
<1>5. RunningIsTracked' /\ EntriesOwned' /\ UnusedTimers' /\ OverrideState' /\ SenderPaired'
  BY <1>1, <1>3, <1>4 DEF RunningIsTracked, Inserting, EntriesOwned, UnusedTimers,
                          OverrideState, SenderPaired, SendingPCs
<1>6. SilencedAreAwaited' /\ SilencedAreAlone'
  BY <1>1, <1>4 DEF SilencedAreAwaited, SilencedAreAlone, ClosingPCs
<1>7. CloserStops'
  BY <1>1, <1>3, <1>4, TimerIdBounds
  DEF CloserStops, KeysOf, RunningIsTracked, Inserting, Running, TypeInv, TaskOperands
<1>8. RunnersServe'
  BY <1>1, <1>4, SamePairs DEF RunnersServe, connVars
<1> QED
  BY <1>5, <1>6, <1>7, <1>8

\* clearClientTimers stops the task of one key.
LEMMA CloseStopWave ==
    ASSUME TypeInv, WaveInv, UNCHANGED connVars, NEW k \in Keys, CloseStop(k)
    PROVE  WaveInv'
<1> USE DEF WaveInv
<1>1. /\ asio.at = "closing" /\ UNCHANGED <<session, timers, counter>>
      /\ asio'.at = "closeErase" /\ asio'.client = asio.client /\ asio'.keys = asio.keys
      /\ asio'.key = k
  BY DEF CloseStop, TypeInv, TypeOK, Handlers
<1>2. \A t \in TimerIds :
          /\ task'[t].pc = task[t].pc /\ task'[t].key = task[t].key
          /\ task'[t].target = task[t].target
          /\ task'[t].active =
                IF timers[k] # 0 /\ t = timers[k] THEN FALSE ELSE task[t].active
  <2>1. CASE timers[k] # 0
    BY <2>1, ClearedFlag DEF CloseStop
  <2>2. CASE timers[k] = 0
    BY <2>2 DEF CloseStop
  <2> QED
    BY <2>1, <2>2
<1>3. \A t \in TimerIds : Running(t) => timers[task[t].key] = t
  BY <1>1 DEF RunningIsTracked, Inserting
<1>4. \A t \in TimerIds : Running(t)' <=> Running(t) /\ task[t].key # k
  <2>1. \A t \in TimerIds :
            Running(t)' <=> Running(t) /\ ~(timers[k] # 0 /\ t = timers[k])
    BY <1>2 DEF Running
  <2>2. timers[k] # 0 => task[timers[k]].key = k
    BY DEF EntriesOwned
  <2> QED
    BY <1>3, <2>1, <2>2, TimerIdBounds
<1>5. \A t \in TimerIds :
          Silenced(t)' => Silenced(t) \/ (timers[k] # 0 /\ t = timers[k])
  BY <1>2 DEF Silenced, InCallback
<1>6. \A j \in Keys : timers[j] # 0 => timers[j] \in TimerIds /\ task[timers[j]].key = j
  BY DEF TypeInv, TypeOK, TimerIds, EntriesOwned
<1>7. RunningIsTracked' /\ EntriesOwned' /\ UnusedTimers'
  <2>1. \A t \in TimerIds : task'[t].key = task[t].key /\ task'[t].pc = task[t].pc
    BY <1>2
  <2>2. RunningIsTracked'
    BY <1>1, <1>3, <1>4, <2>1 DEF RunningIsTracked
  <2>3. EntriesOwned' /\ UnusedTimers'
    BY <1>1, <1>6, <2>1 DEF EntriesOwned, UnusedTimers
  <2> QED
    BY <2>2, <2>3
<1>8. OverrideState' /\ SenderPaired'
  BY <1>1 DEF OverrideState, SenderPaired, SendingPCs
<1>9. CloserStops'
  BY <1>1, <1>2, <1>4 DEF CloserStops, ClosingPCs, CloseStop
<1>10. SilencedAreAlone'
  <2>1. ASSUME NEW t \in TimerIds, NEW u \in TimerIds, Running(t)', Silenced(u)'
        PROVE  task[t].key # task[u].key
    BY <1>4, <1>5, <1>6, <2>1 DEF SilencedAreAlone
  <2>2. \A t \in TimerIds : task'[t].key = task[t].key
    BY <1>2
  <2> QED
    BY <2>1, <2>2 DEF SilencedAreAlone
<1>11. RunnersServe'
  BY <1>1, <1>2, <1>4, SamePairs DEF RunnersServe, connVars
<1>12. SilencedAreAwaited'
  <2>1. k[1] = asio.client
    BY <1>1 DEF CloserStops, ClosingPCs, CloseStop
  <2>2. ASSUME NEW t \in TimerIds, Silenced(t)'
        PROVE  \/ asio.client = task[t].key[1]
               \/ session[task[t].key[1]] \in {"detached", "released"}
    BY <1>1, <1>5, <1>6, <2>1, <2>2 DEF SilencedAreAwaited
  <2>3. \A t \in TimerIds : task'[t].key = task[t].key
    BY <1>2
  <2> QED
    BY <1>1, <2>2, <2>3 DEF SilencedAreAwaited, ClosingPCs
<1> QED
  BY <1>7, <1>8, <1>9, <1>10, <1>11, <1>12

\* clearClientTimers erases the entry of the key, whose task does not run.
LEMMA CloseEraseWave ==
    ASSUME TypeInv, WaveInv, UNCHANGED connVars, CloseErase
    PROVE  WaveInv'
<1> USE DEF WaveInv
<1>1. /\ asio.at = "closeErase" /\ UNCHANGED <<session, task, counter>>
      /\ asio'.at = "closing" /\ asio'.client = asio.client
      /\ asio'.keys = asio.keys \ {asio.key}
  BY DEF CloseErase, TypeInv, TypeOK, Handlers
<1>2. asio.key \in asio.keys /\ asio.key \in Keys /\ asio.key[1] = asio.client
  BY <1>1 DEF CloserStops, ClosingPCs, TypeInv, TypeOK, Handlers
<1>3. /\ timers'[asio.key] = 0
      /\ \A k \in Keys : k # asio.key => timers'[k] = timers[k]
  BY <1>1, <1>2 DEF CloseErase, TypeInv, TypeOK
<1>4. \A t \in TimerIds :
          /\ Running(t)' = Running(t) /\ Silenced(t)' = Silenced(t)
          /\ Running(t) => task[t].key \in Keys
  BY <1>1 DEF Running, Silenced, InCallback, TypeInv, TaskOperands
<1>5. \A t \in TimerIds : Running(t) => task[t].key # asio.key
  BY <1>1, <1>2 DEF CloserStops, ClosingPCs
<1>6. RunningIsTracked' /\ EntriesOwned' /\ UnusedTimers'
  BY <1>1, <1>3, <1>4, <1>5 DEF RunningIsTracked, Inserting, EntriesOwned, UnusedTimers
<1>7. OverrideState' /\ SenderPaired'
  BY <1>1 DEF OverrideState, SenderPaired, SendingPCs
<1>8. SilencedAreAwaited' /\ SilencedAreAlone'
  BY <1>1, <1>4 DEF SilencedAreAwaited, SilencedAreAlone, ClosingPCs
<1>9. CloserStops'
  BY <1>1, <1>4, <1>5 DEF CloserStops, ClosingPCs
<1>10. RunnersServe'
  BY <1>1, <1>4, SamePairs DEF RunnersServe, connVars
<1> QED
  BY <1>6, <1>7, <1>8, <1>9, <1>10

\* disconnect dissolves the pairing of its client and no other.
LEMMA OthersStayPaired ==
    ASSUME ConnInv, OnCloseDisconnect, NEW i \in Clients \ {asio.client},
           NEW j \in Clients \ {asio.client}, IsPaired(i, j)
    PROVE  IsPaired(i, j)'
<1> USE DEF ConnInv, TypeInv, TypeOK
<1> DEFINE c == asio.client
<1>1. c \in Clients /\ session[c] = "closed"
  BY DEF OnCloseDisconnect, HandlerOperands, ClosingPCs
<1>2. c \in connections /\ GetClientId(c) = c
  BY <1>1 DEF RegisteredWhileConnected, GetClientId
<1>3. Disconnect(c) /\ HasClient(c) /\ i # c /\ j # c
  BY <1>2 DEF OnCloseDisconnect, HasClient
<1> HIDE DEF c
<1>4. /\ connections' = connections \ {c}
      /\ IF GetPair(c) # NoId THEN Unpair(c) ELSE UNCHANGED pairVars
  BY <1>3 DEF Disconnect
<1>5. /\ pairings[i] = j => pairings'[i] = j
      /\ reversePairings[i] = j => reversePairings'[i] = j
  <2>1. CASE pairings[c] # NoId
    BY <1>1, <1>3, <1>4, <2>1 DEF GetPair, Unpair, WebSide, AppSide, PairingsInverse, Ids
  <2>2. CASE pairings[c] = NoId /\ reversePairings[c] # NoId
    BY <1>1, <1>3, <1>4, <2>2 DEF GetPair, Unpair, WebSide, AppSide, PairingsInverse, Ids
  <2>3. CASE pairings[c] = NoId /\ reversePairings[c] = NoId
    BY <1>4, <2>3 DEF GetPair, pairVars
  <2> QED
    BY <2>1, <2>2, <2>3
<1> QED
  BY <1>3, <1>4, <1>5 DEF IsPaired, HasClient

\* on_close returns: no task of its client runs.
LEMMA DisconnectWave ==
    ASSUME ConnInv, WaveInv, OnCloseDisconnect
    PROVE  WaveInv'
<1> USE DEF WaveInv, ConnInv, timerVars
<1> DEFINE c == asio.client
<1>1. /\ asio.at = "closing" /\ asio.keys = {} /\ UNCHANGED <<timers, task, counter>>
      /\ c \in Clients /\ session[c] = "closed" /\ session' = [session EXCEPT ![c] = "detached"]
      /\ asio'.at = "idle"
  BY DEF OnCloseDisconnect, Idle, TypeInv, HandlerOperands, ClosingPCs
<1>2. connections' = connections \ {c}
  <2>1. c \in connections /\ GetClientId(c) = c
    BY <1>1 DEF RegisteredWhileConnected, GetClientId
  <2> QED
    BY <2>1 DEF OnCloseDisconnect, Disconnect, HasClient
<1>3. \A d \in Clients : session'[d] = IF d = c THEN "detached" ELSE session[d]
  BY <1>1 DEF TypeInv, TypeOK
<1>4. \A i, j \in Clients : i # c /\ j # c /\ IsPaired(i, j) => IsPaired(i, j)'
  BY OthersStayPaired
<1> HIDE DEF c
<1>5. \A t \in TimerIds :
          /\ Running(t)' = Running(t) /\ Silenced(t)' = Silenced(t)
          /\ Running(t) \/ Silenced(t) => task[t].key[1] \in Clients /\ task[t].target \in Clients
  BY <1>1 DEF Running, Silenced, InCallback, TypeInv, TaskOperands, Keys
<1>6. \A t \in TimerIds : Running(t) => task[t].key[1] # c
  BY <1>1 DEF CloserStops, ClosingPCs, c
<1>7. RunningIsTracked' /\ EntriesOwned' /\ UnusedTimers' /\ OverrideState' /\ SenderPaired'
  BY <1>1, <1>5 DEF RunningIsTracked, Inserting, EntriesOwned, UnusedTimers,
                    OverrideState, SenderPaired, SendingPCs
<1>8. SilencedAreAlone' /\ CloserStops'
  BY <1>1, <1>5 DEF SilencedAreAlone, CloserStops, ClosingPCs
<1>9. SilencedAreAwaited'
  BY <1>1, <1>3, <1>5 DEF SilencedAreAwaited, ClosingPCs, c
<1>10. RunnersServe'
  <2> SUFFICES ASSUME NEW t \in TimerIds, Running(t)
               PROVE  /\ task[t].key[1] \in connections'
                      /\ \/ IsPaired(task[t].key[1], task[t].target)'
                         \/ session'[task[t].target] \in {"detached", "released"}
    BY <1>1, <1>5 DEF RunnersServe
  <2>1. task[t].key[1] \in connections /\ task[t].key[1] # c
    BY <1>6 DEF RunnersServe
  <2>2. CASE task[t].target = c
    BY <1>2, <1>3, <1>5, <2>1, <2>2
  <2>3. CASE task[t].target # c /\ IsPaired(task[t].key[1], task[t].target)
    <3>1. task[t].key[1] \in Clients /\ task[t].target \in Clients
      BY <1>5
    <3>2. IsPaired(task[t].key[1], task[t].target)'
      BY <1>1, <1>4, <2>1, <2>3, <3>1 DEF IsPaired, HasClient
    <3> QED
      BY <1>2, <2>1, <3>2
  <2>4. CASE session[task[t].target] \in {"detached", "released"}
    BY <1>1, <1>2, <1>3, <1>5, <2>1, <2>4
  <2> QED
    BY <2>2, <2>3, <2>4 DEF RunnersServe
<1> QED
  BY <1>7, <1>8, <1>9, <1>10

\* The steps of on_close after its first one.
LEMMA ClosingStepWave ==
    ASSUME ConnInv, WaveInv, ClosingSteps
    PROVE  WaveInv'
BY CloseStopWave, CloseEraseWave, DisconnectWave, StutterWave
DEF ClosingSteps, OnCloseThrows, Throws, ConnInv

-----------------------------------------------------------------------------
(* The timer threads.                                                      *)

\* What a step of one thread leaves alone, when only its place changes.
LEMMA MovedPlace ==
    ASSUME TypeInv, NEW t \in TimerIds, NEW pc, SetPC(t, pc), NEW u \in TimerIds
    PROVE  /\ task'[u].key = task[u].key /\ task'[u].target = task[u].target
           /\ task'[u].active = task[u].active
           /\ task'[u].pc = IF u = t THEN pc ELSE task[u].pc
<1>1. task[t] \in Tasks /\ task' = [task EXCEPT ![t].pc = pc]
  BY DEF TypeInv, TypeOK, SetPC
<1>2. CASE u = t
  <2>1. task'[t] = [task[t] EXCEPT !.pc = pc]
    BY <1>1 DEF TypeInv, TypeOK
  <2> QED
    BY <1>1, <1>2, <2>1 DEF Tasks
<1>3. CASE u # t
  BY <1>1, <1>3 DEF TypeInv, TypeOK
<1> QED
  BY <1>2, <1>3

\* A thread moves on without clearing anybody.
LEMMA PlaceWave ==
    ASSUME TypeInv, WaveInv, NEW t \in TimerIds, NEW pc, SetPC(t, pc),
           task[t].pc # "none", pc # "none",
           \/ ~(pc \in {"check", "send", "abort", "finish"})
           \/ task[t].active
           \/ InCallback(t),
           UNCHANGED <<session, connVars, timers, counter, asio>>
    PROVE  WaveInv'
<1>1. \A u \in TimerIds :
          /\ task'[u].key = task[u].key /\ task'[u].target = task[u].target
          /\ task'[u].active = task[u].active
          /\ task'[u].pc = IF u = t THEN pc ELSE task[u].pc
  BY MovedPlace
<1>2. \A u \in TimerIds : (task'[u].pc = "none" <=> task[u].pc = "none")
  BY <1>1
<1>3. \A u \in TimerIds : Silenced(u)' => Silenced(u)
  BY <1>1 DEF Silenced, InCallback
<1> QED
  BY <1>1, <1>2, <1>3, QuietTasks

\* A callback sends a pulse and counts it.
LEMMA PulseWave ==
    ASSUME TypeInv, WaveInv, NEW t \in TimerIds, SendPulse(t), UNCHANGED connVars
    PROVE  WaveInv'
<1>1. task[t] \in Tasks /\ task[t].pc = "send" /\ InCallback(t)
  BY DEF SendPulse, InCallback, TypeInv, TypeOK
<1>2. task'[t] = [task[t] EXCEPT !.remaining = @ - 1,
                         !.pc = IF task[t].remaining - 1 <= 0 THEN "finish" ELSE "sleep"]
  BY DEF SendPulse, TypeInv, TypeOK
<1>3. /\ task'[t].key = task[t].key /\ task'[t].target = task[t].target
      /\ task'[t].active = task[t].active /\ task'[t].pc # "none"
  BY <1>1, <1>2 DEF Tasks
<1>4. \A u \in TimerIds : u # t => task'[u] = task[u]
  BY DEF SendPulse, TypeInv, TypeOK
<1>5. \A u \in TimerIds : Silenced(u)' => Silenced(u)
  BY <1>1, <1>3, <1>4 DEF Silenced, InCallback
<1>6. \A u \in TimerIds :
          /\ task'[u].key = task[u].key /\ task'[u].target = task[u].target
          /\ task'[u].active = task[u].active
          /\ (task'[u].pc = "none" <=> task[u].pc = "none")
  BY <1>1, <1>3, <1>4
<1> QED
  BY <1>5, <1>6, QuietTasks DEF SendPulse

\* A callback erases its channel's entry: no other task runs on the channel.
LEMMA EraseOwnWave ==
    ASSUME TypeInv, WaveInv, NEW t \in TimerIds, EraseOwnEntry(t), UNCHANGED connVars
    PROVE  WaveInv'
<1> USE DEF WaveInv
<1> DEFINE key == task[t].key
<1>1. /\ task[t] \in Tasks /\ InCallback(t) /\ key \in Keys
      /\ UNCHANGED <<session, counter, asio>>
  BY DEF EraseOwnEntry, InCallback, TypeInv, TypeOK, TaskOperands
<1>2. task'[t] = [task[t] EXCEPT !.active = FALSE,
                         !.pc = IF task[t].pc = "finish" THEN "notify" ELSE "exit"]
  BY DEF EraseOwnEntry, TypeInv, TypeOK
<1>3. /\ task'[t].key = task[t].key /\ task'[t].target = task[t].target
      /\ ~task'[t].active /\ task'[t].pc \in {"notify", "exit"} /\ task[t].pc # "none"
  BY <1>1, <1>2 DEF Tasks, InCallback
<1>4. \A u \in TimerIds : u # t => task'[u] = task[u]
  BY DEF EraseOwnEntry, TypeInv, TypeOK
<1>5. timers'[key] = 0 /\ \A k \in Keys : k # key => timers'[k] = timers[k]
  BY <1>1 DEF EraseOwnEntry, TypeInv, TypeOK
<1>6. \A u \in TimerIds : Running(u) => u = t \/ task[u].key # key
  BY <1>1, CallbackAlone
<1> HIDE DEF key
<1>7. \A u \in TimerIds :
          /\ task'[u].key = task[u].key /\ task'[u].target = task[u].target
          /\ (task'[u].pc = "none" <=> task[u].pc = "none")
          /\ task'[u].active => task[u].active
  BY <1>3, <1>4
<1>8. \A u \in TimerIds : Running(u)' => Running(u) /\ task[u].key # key /\ task[u].key \in Keys
  BY <1>3, <1>4, <1>6 DEF Running, TypeInv, TaskOperands
<1>9. \A u \in TimerIds : Silenced(u)' => Silenced(u)
  BY <1>3, <1>4 DEF Silenced, InCallback
<1>10. \A k \in Keys : timers[k] # 0 => timers[k] \in TimerIds
  BY DEF TypeInv, TypeOK, TimerIds
<1>11. RunningIsTracked'
  BY <1>1, <1>5, <1>7, <1>8 DEF RunningIsTracked, Inserting
<1>12. EntriesOwned' /\ UnusedTimers'
  BY <1>1, <1>5, <1>7, <1>10 DEF EntriesOwned, UnusedTimers
<1>13. OverrideState'
  <2>1. asio.at \in SendingPCs => asio.key \in Keys
    BY DEF TypeInv, HandlerOperands
  <2>2. asio.at \in {"stop", "erase", "insert"} => asio.id \in TimerIds
    BY DEF TypeInv, HandlerOperands, Clearing
  <2> QED
    BY <1>1, <1>5, <1>7, <2>1, <2>2 DEF OverrideState, SendingPCs
<1>14. SenderPaired'
  BY <1>1, SamePairs DEF SenderPaired
<1>15. SilencedAreAwaited'
  BY <1>1, <1>7, <1>9 DEF SilencedAreAwaited, connVars
<1>16. SilencedAreAlone'
  BY <1>7, <1>8, <1>9 DEF SilencedAreAlone
<1>17. CloserStops'
  BY <1>1, <1>7, <1>8 DEF CloserStops
<1>18. RunnersServe'
  BY <1>1, <1>7, <1>8, SamePairs DEF RunnersServe, connVars
<1> QED
  BY <1>11, <1>12, <1>13, <1>14, <1>15, <1>16, <1>17, <1>18

\* Every step of a timer thread.
LEMMA ThreadStepWave ==
    ASSUME TypeInv, WaveInv, NEW t \in TimerIds, ThreadStep(t), UNCHANGED connVars
    PROVE  WaveInv'
<1>1. CASE Wake(t)
  BY <1>1, PlaceWave DEF Wake
<1>2. CASE CheckTarget(t)
  BY <1>2, PlaceWave DEF CheckTarget, InCallback
<1>3. CASE CallbackThrows(t)
  BY <1>3, StutterWave DEF CallbackThrows
<1>4. CASE SendPulse(t)
  BY <1>4, PulseWave
<1>5. CASE EraseOwnEntry(t)
  BY <1>5, EraseOwnWave
<1>6. CASE NotifyDone(t)
  BY <1>6, PlaceWave DEF NotifyDone
<1>7. CASE ThreadExit(t)
  BY <1>7, PlaceWave DEF ThreadExit
<1> QED
  BY <1>1, <1>2, <1>3, <1>4, <1>5, <1>6, <1>7 DEF ThreadStep

-----------------------------------------------------------------------------
(* The theorems.                                                           *)

\* Every step keeps the invariant of the waveforms.
LEMMA NextWave ==
    ASSUME SleepCoversCallback, ConnInv, WaveInv, [Next]_vars
    PROVE  WaveInv'
<1>1. CASE \E c \in Clients : OnOpen(c) \/ OnMessage(c) \/ OnClose(c) \/ Network(c)
  BY <1>1, ConnectionWave, OnMessageWave, OnCloseWave
<1>2. CASE ClosingSteps
  BY <1>2, ClosingStepWave
<1>3. CASE SendSteps /\ UNCHANGED connVars
  BY <1>3, SendStepWave
<1>4. CASE \E t \in TimerIds : ThreadStep(t) /\ UNCHANGED connVars
  BY <1>4, ThreadStepWave DEF ConnInv
<1>5. CASE UNCHANGED vars
  BY <1>5, StutterWave DEF vars, ConnInv
<1> QED
  BY <1>1, <1>2, <1>3, <1>4, <1>5 DEF Next

\* The invariant of the waveforms holds in every behaviour.
LEMMA WaveInvariant == ASSUME SleepCoversCallback PROVE Spec => [](ConnInv /\ WaveInv)
<1>1. ConnInv /\ WaveInv /\ [Next]_vars => WaveInv'
  BY NextWave
<1> QED
  BY <1>1, InitWave, ConnInvariant, PTL DEF Spec

\* Every running waveform can be found by its key: an override or an on_close that
\* looks for it in timers stops it.
THEOREM RunningTracked == ASSUME SleepCoversCallback PROVE Spec => []RunningIsTracked
<1>1. WaveInv => RunningIsTracked
  BY DEF WaveInv
<1> QED
  BY <1>1, WaveInvariant, PTL

\* A channel of a client never has two waveforms, however many overrides, expiring
\* tasks and leaving clients there are.
THEOREM OnePerChannel == ASSUME SleepCoversCallback PROVE Spec => []OneRunningPerChannel
<1>1. ConnInv /\ WaveInv => OneRunningPerChannel
  BY TrackedAlone DEF ConnInv
<1> QED
  BY <1>1, WaveInvariant, PTL

\* The sleep of an override keeps its promise: when a new waveform runs, no callback of
\* its predecessor is still to send.
THEOREM PredecessorSilent == ASSUME SleepCoversCallback PROVE Spec => []PredecessorIsSilent
<1>1. ConnInv /\ WaveInv => PredecessorIsSilent
  BY CallbackAlone DEF ConnInv, PredecessorIsSilent, InCallback
<1> QED
  BY <1>1, WaveInvariant, PTL

\* No on_close returns under a running waveform of its own client, and a pairing ends under
\* one only with its target's registration, for any set of bind requests: clients need not
\* keep to their roles.
THEOREM RunningServes == ASSUME SleepCoversCallback PROVE Spec => []RunningServesPair
<1>1. ConnInv /\ WaveInv => RunningServesPair
  BY DEF WaveInv, RunnersServe, RunningServesPair, HasClient, ConnInv, TypeInv, TypeOK,
         RegisteredWhileConnected
<1> QED
  BY <1>1, WaveInvariant, PTL

-----------------------------------------------------------------------------
(* The running tasks implement the registry of waveforms.                  *)

wavesBar == {WaveOf(t) : t \in {u \in TimerIds : Running(u)}}

\* A waveform is a running task.
LEMMA WaveMembers == \A w : w \in wavesBar <=> \E t \in TimerIds : Running(t) /\ w = WaveOf(t)
BY DEF wavesBar

\* The same after a step.
LEMMA WaveMembersNext ==
    \A w : w \in wavesBar' <=> \E t \in TimerIds : Running(t)' /\ w = WaveOf(t)'
BY DEF wavesBar

\* A step that starts and stops no task.
LEMMA SameWaves ==
    ASSUME \A t \in TimerIds :
               /\ Running(t)' <=> Running(t)
               /\ Running(t) => /\ task'[t].key = task[t].key
                                /\ task'[t].target = task[t].target
    PROVE  UNCHANGED wavesBar
<1>1. \A t \in TimerIds : Running(t) => WaveOf(t)' = WaveOf(t)
  BY DEF WaveOf
<1> QED
  BY <1>1, WaveMembers, WaveMembersNext

\* The waveforms change with the tasks alone.
LEMMA SameTasks == ASSUME UNCHANGED task PROVE UNCHANGED wavesBar
BY DEF wavesBar, WaveOf, Running

\* A step that takes away the flag of one task stops its waveform.
LEMMA WaveStops ==
    ASSUME TypeInv, OneRunningPerChannel, UNCHANGED connVars, NEW id \in TimerIds,
           \A t \in TimerIds :
               /\ Running(t)' <=> Running(t) /\ t # id
               /\ task'[t].key = task[t].key /\ task'[t].target = task[t].target
    PROVE  [Waveforms!Next]_<<connections, bondsBar, wavesBar>>
<1>1. UNCHANGED <<connections, bondsBar>>
  BY DEF connVars, pairVars, bondsBar
<1>2. CASE ~Running(id)
  BY <1>1, <1>2, SameWaves
<1>3. CASE Running(id)
  <2>1. \A t \in TimerIds : WaveOf(t)' = WaveOf(t)
    BY DEF WaveOf
  <2>2. \A t \in TimerIds : Running(t) /\ WaveOf(t) = WaveOf(id) => t = id
    <3> SUFFICES ASSUME NEW t \in TimerIds, Running(t), WaveOf(t) = WaveOf(id)
                 PROVE  task[t].key = task[id].key
      BY <1>3 DEF OneRunningPerChannel
    <3>1. task[t].key \in Keys /\ task[id].key \in Keys
      BY <1>3 DEF TypeInv, TaskOperands, Running
    <3>2. task[t].key[1] = task[id].key[1] /\ task[t].key[2] = task[id].key[2]
      BY DEF WaveOf
    <3> QED
      BY <3>1, <3>2 DEF Keys
  <2>3. WaveOf(id) \in wavesBar
    BY <1>3, WaveMembers
  <2>4. \A w : w \in wavesBar' <=> w \in wavesBar /\ w # WaveOf(id)
    BY <2>1, <2>2, WaveMembers, WaveMembersNext
  <2>5. wavesBar' = wavesBar \ {WaveOf(id)}
    BY <2>4
  <2>6. Waveforms!Stop(WaveOf(id))
    BY <1>1, <2>3, <2>5 DEF Waveforms!Stop, bondsBar, wavesBar
  <2> QED
    BY <2>3, <2>6 DEF Waveforms!Next, wavesBar
<1> QED
  BY <1>2, <1>3

\* The steps of the io thread inside sendMessage.
LEMMA SendStepWaves ==
    ASSUME ConnInv, WaveInv, SendSteps, UNCHANGED connVars
    PROVE  [Waveforms!Next]_<<connections, bondsBar, wavesBar>>
<1> USE DEF ConnInv
<1>1. UNCHANGED <<connections, bondsBar>>
  BY DEF connVars, pairVars, bondsBar
<1>2. UNCHANGED task => UNCHANGED wavesBar
  BY SameTasks
<1>3. CASE \/ OverrideEntry \/ ClearTimerFind \/ ClearTimerCopy \/ ClearTimerErase
           \/ StartSingle \/ InsertEntry \/ EntryVanished
  <2>1. UNCHANGED task
    BY <1>3 DEF OverrideEntry, ClearTimerFind, ClearTimerCopy, ClearTimerErase, StartSingle,
                InsertEntry, EntryVanished, timerVars
  <2> QED
    BY <1>1, <1>2, <2>1
<1>4. CASE ClearTimerStop
  <2>1. asio.id \in TimerIds /\ ClearInterval(asio.id)
    BY <1>4 DEF ClearTimerStop, TypeInv, HandlerOperands, Clearing
  <2>2. \A t \in TimerIds :
            /\ task'[t].pc = task[t].pc /\ task'[t].key = task[t].key
            /\ task'[t].target = task[t].target
            /\ task'[t].active = IF t = asio.id THEN FALSE ELSE task[t].active
    BY <2>1, ClearedFlag
  <2>3. \A t \in TimerIds : Running(t)' <=> Running(t) /\ t # asio.id
    BY <2>2 DEF Running
  <2> QED
    BY <2>1, <2>2, <2>3, TrackedAlone, WaveStops
<1>5. CASE StartRepeating
  <2>0. counter \in 0 .. MaxTimers /\ counter < MaxTimers /\ asio.at = "start"
    BY <1>5 DEF StartRepeating, TypeInv, TypeOK, HandlerOperands, SendingPCs
  <2> PICK new \in TimerIds : new = counter + 1 /\ new > counter
    BY <2>0 DEF TimerIds
  <2> DEFINE w == WaveOf(new)'
  <2>1. /\ asio.key \in Keys /\ asio.target \in Clients
        /\ task[new].pc = "none" /\ timers[asio.key] = 0
    BY <2>0 DEF TypeInv, HandlerOperands, SendingPCs, WaveInv, UnusedTimers, OverrideState
  <2>2. /\ Running(new)' /\ task'[new].key = asio.key /\ task'[new].target = asio.target
        /\ \A t \in TimerIds : t # new => task'[t] = task[t]
    BY <1>5 DEF StartRepeating, Running, TypeInv, TypeOK
  <2>3. w = [client |-> asio.key[1], channel |-> asio.key[2], target |-> asio.target]
    BY <2>2 DEF WaveOf
  <2>4. \A t \in TimerIds : t # new => (Running(t)' <=> Running(t)) /\ WaveOf(t)' = WaveOf(t)
    BY <2>2 DEF Running, WaveOf
  <2>5. ~Running(new)
    BY <2>1 DEF Running
  <2> HIDE DEF w
  <2>6. \A v : v \in wavesBar' <=> v \in wavesBar \/ v = w
    BY <2>1, <2>2, <2>4, <2>5, WaveMembers, WaveMembersNext DEF w
  <2>7. \A v \in wavesBar : v.client # w.client \/ v.channel # w.channel
    <3> SUFFICES ASSUME NEW t \in TimerIds, Running(t)
                 PROVE  task[t].key[1] # asio.key[1] \/ task[t].key[2] # asio.key[2]
      BY <2>3, WaveMembers DEF WaveOf
    <3>1. task[t].key # asio.key
      BY <2>0, <2>1, FreeChannel DEF Inserting
    <3>2. task[t].key \in Keys
      BY DEF TypeInv, TaskOperands, Running
    <3> QED
      BY <2>1, <3>1, <3>2 DEF Keys
  <2>8. {w.client, w.target} \in bondsBar
    <3>1. IsPaired(asio.key[1], asio.target) /\ w.client = asio.key[1] /\ w.target = asio.target
      BY <2>0, <2>3 DEF WaveInv, SenderPaired, SendingPCs
    <3>2. asio.key[1] \in Clients
      BY <2>1 DEF Keys
    <3>3. CASE pairings[asio.key[1]] = asio.target
      BY <2>1, <3>1, <3>2, <3>3, BondMembers DEF Ids
    <3>4. CASE reversePairings[asio.key[1]] = asio.target
      <4>1. pairings[asio.target] = asio.key[1]
        BY <2>1, <3>2, <3>4 DEF PairingsInverse
      <4>2. asio.key[1] # NoId /\ {asio.key[1], asio.target} = {asio.target, asio.key[1]}
        BY <3>2
      <4> QED
        BY <2>1, <3>1, <4>1, <4>2, BondMembers
    <3> QED
      BY <3>1, <3>3, <3>4 DEF IsPaired
  <2>9. wavesBar' = wavesBar \cup {w}
    BY <2>6
  <2>10. w \in Waveforms!Waves
    BY <2>1, <2>3 DEF Waveforms!Waves, Keys
  <2>11. Waveforms!Start(w)
    BY <1>1, <2>7, <2>8, <2>9 DEF Waveforms!Start, bondsBar, wavesBar
  <2> QED
    BY <2>10, <2>11 DEF Waveforms!Next
<1> QED
  BY <1>3, <1>4, <1>5 DEF SendSteps

\* Of the steps of a timer thread only the one that erases its entry stops a waveform:
\* its own.
LEMMA ThreadStepWaves ==
    ASSUME TypeInv, WaveInv, NEW t \in TimerIds, ThreadStep(t), UNCHANGED connVars
    PROVE  [Waveforms!Next]_<<connections, bondsBar, wavesBar>>
<1>1. UNCHANGED <<connections, bondsBar>>
  BY DEF connVars, pairVars, bondsBar
<1>2. ASSUME NEW pc, SetPC(t, pc), task[t].pc # "none", pc # "none"
      PROVE  UNCHANGED wavesBar
  <2>1. \A u \in TimerIds :
            /\ task'[u].key = task[u].key /\ task'[u].target = task[u].target
            /\ task'[u].active = task[u].active
            /\ task'[u].pc = IF u = t THEN pc ELSE task[u].pc
    BY <1>2, MovedPlace
  <2>2. \A u \in TimerIds : Running(u)' <=> Running(u)
    BY <1>2, <2>1 DEF Running
  <2> QED
    BY <2>1, <2>2, SameWaves
<1>3. CASE Wake(t) \/ CheckTarget(t) \/ NotifyDone(t) \/ ThreadExit(t)
  BY <1>1, <1>2, <1>3 DEF Wake, CheckTarget, NotifyDone, ThreadExit
<1>4. CASE CallbackThrows(t)
  BY <1>1, <1>4, SameTasks DEF CallbackThrows, timerVars
<1>5. CASE SendPulse(t)
  <2>1. task[t] \in Tasks /\ task[t].pc = "send"
    BY <1>5 DEF SendPulse, TypeInv, TypeOK
  <2>2. task'[t] = [task[t] EXCEPT !.remaining = @ - 1,
                           !.pc = IF task[t].remaining - 1 <= 0 THEN "finish" ELSE "sleep"]
    BY <1>5 DEF SendPulse, TypeInv, TypeOK
  <2>3. /\ task'[t].key = task[t].key /\ task'[t].target = task[t].target
        /\ task'[t].active = task[t].active /\ task'[t].pc # "none"
    BY <2>1, <2>2 DEF Tasks
  <2>4. \A u \in TimerIds : u # t => task'[u] = task[u]
    BY <1>5 DEF SendPulse, TypeInv, TypeOK
  <2>5. \A u \in TimerIds : Running(u)' <=> Running(u)
    BY <2>1, <2>3, <2>4 DEF Running
  <2>6. \A u \in TimerIds : task'[u].key = task[u].key /\ task'[u].target = task[u].target
    BY <2>3, <2>4
  <2> QED
    BY <1>1, <2>5, <2>6, SameWaves
<1>6. CASE EraseOwnEntry(t)
  <2>1. task[t] \in Tasks /\ task[t].pc # "none"
    BY <1>6 DEF EraseOwnEntry, TypeInv, TypeOK
  <2>2. task'[t] = [task[t] EXCEPT !.active = FALSE,
                           !.pc = IF task[t].pc = "finish" THEN "notify" ELSE "exit"]
    BY <1>6 DEF EraseOwnEntry, TypeInv, TypeOK
  <2>3. /\ task'[t].key = task[t].key /\ task'[t].target = task[t].target
        /\ ~task'[t].active
    BY <2>1, <2>2 DEF Tasks
  <2>4. \A u \in TimerIds : u # t => task'[u] = task[u]
    BY <1>6 DEF EraseOwnEntry, TypeInv, TypeOK
  <2>5. \A u \in TimerIds :
            /\ Running(u)' <=> Running(u) /\ u # t
            /\ task'[u].key = task[u].key /\ task'[u].target = task[u].target
    BY <2>3, <2>4 DEF Running
  <2> QED
    BY <2>5, TrackedAlone, WaveStops
<1> QED
  BY <1>3, <1>4, <1>5, <1>6 DEF ThreadStep

\* The steps of on_close after its first one: a client leaves when the waveforms it
\* started have stopped.
LEMMA ClosingStepWaves ==
    ASSUME RolesDisjoint, ConnInv, PairsBound, WaveInv, ClosingSteps
    PROVE  [Waveforms!Next]_<<connections, bondsBar, wavesBar>>
<1> USE DEF ConnInv
<1>1. UNCHANGED <<connVars, task>> => UNCHANGED <<connections, bondsBar, wavesBar>>
  BY SameTasks DEF connVars, pairVars, bondsBar
<1>2. ASSUME NEW k \in Keys, CloseStop(k), UNCHANGED connVars
      PROVE  [Waveforms!Next]_<<connections, bondsBar, wavesBar>>
  <2>1. CASE timers[k] = 0
    BY <1>1, <1>2, <2>1 DEF CloseStop
  <2>2. CASE timers[k] # 0
    <3>1. timers[k] \in TimerIds /\ ClearInterval(timers[k])
      BY <1>2, <2>2 DEF CloseStop, TypeInv, TypeOK, TimerIds
    <3>2. \A t \in TimerIds :
              /\ task'[t].pc = task[t].pc /\ task'[t].key = task[t].key
              /\ task'[t].target = task[t].target
              /\ task'[t].active = IF t = timers[k] THEN FALSE ELSE task[t].active
      BY <3>1, ClearedFlag
    <3>3. \A t \in TimerIds : Running(t)' <=> Running(t) /\ t # timers[k]
      BY <3>2 DEF Running, TypeInv, TypeOK, Tasks
    <3> QED
      BY <1>2, <3>1, <3>2, <3>3, TrackedAlone, WaveStops
  <2> QED
    BY <2>1, <2>2
<1>3. CASE CloseErase /\ UNCHANGED connVars
  BY <1>1, <1>3 DEF CloseErase
<1>4. CASE OnCloseThrows
  BY <1>1, <1>4 DEF OnCloseThrows, Throws, timerVars
<1>5. CASE OnCloseDisconnect
  <2> DEFINE c == asio.client
  <2>1. PICK d \in Clients : Registry!Leave(d)
    BY <1>5, CloseLeavesRegistry
  <2>2. /\ asio.at = "closing" /\ asio.keys = {} /\ UNCHANGED task
        /\ c \in Clients /\ session[c] = "closed"
    BY <1>5 DEF OnCloseDisconnect, timerVars, TypeInv, HandlerOperands, ClosingPCs
  <2>3. c \in connections /\ GetClientId(c) = c
    BY <2>2 DEF RegisteredWhileConnected, GetClientId
  <2>4. connections' = connections \ {c}
    BY <1>5, <2>3 DEF OnCloseDisconnect, Disconnect, HasClient
  <2>5. d = c
    BY <2>1, <2>4 DEF Registry!Leave
  <2>6. \A t \in TimerIds : Running(t) => task[t].key[1] # c
    BY <2>2 DEF WaveInv, CloserStops, ClosingPCs
  <2> HIDE DEF c
  <2>7. \A w \in wavesBar : w.client # d
    BY <2>5, <2>6, WaveMembers DEF WaveOf
  <2>8. UNCHANGED wavesBar
    BY <2>2, SameTasks
  <2>9. Waveforms!Leave(d)
    BY <2>1, <2>7, <2>8
    DEF Waveforms!Leave, Waveforms!Pairs!Leave, Registry!Leave, wavesBar
  <2> QED
    BY <2>9 DEF Waveforms!Next
<1> QED
  BY <1>2, <1>3, <1>4, <1>5 DEF ClosingSteps

\* Every step is a step of the registry of waveforms or leaves it alone.
LEMMA WaveRegistryStep ==
    ASSUME RolesDisjoint, ConnInv, PairsBound, WaveInv, [Next]_vars
    PROVE  [Waveforms!Next]_<<connections, bondsBar, wavesBar>>
<1> DEFINE Simulated == [Waveforms!Next]_<<connections, bondsBar, wavesBar>>
<1>1. UNCHANGED <<connVars, timerVars>> => Simulated
  BY SameTasks DEF connVars, pairVars, bondsBar, timerVars
<1>2. ASSUME NEW c \in Clients, OnOpen(c)
      PROVE  Simulated
  <2>1. Registry!Join(c)
    BY <1>2
    DEF OnOpen, RegisterConn, pairVars, RegisteredWhileConnected, Registry!Join, ConnInv,
        TypeInv, TypeOK
  <2>2. UNCHANGED wavesBar
    BY <1>2, SameTasks DEF OnOpen, timerVars
  <2>3. Waveforms!Meet
    BY <2>1, <2>2 DEF Waveforms!Meet, Waveforms!Pairs!Join, Registry!Join, wavesBar
  <2> QED
    BY <2>3 DEF Waveforms!Next
<1>3. ASSUME NEW b \in Binds, HandleBind(b[1], b[2], b[3])
      PROVE  Simulated
  <2>1. Registry!Bond(b[2], b[3]) /\ b[2] \in Clients /\ b[3] \in Clients
    BY <1>3, BindBonds
    DEF HandleBind, Pair, PairRefused, HasClient, ConnInv, TypeInv, TypeOK
  <2>2. UNCHANGED wavesBar
    BY <1>3, SameTasks DEF HandleBind, timerVars
  <2>3. Waveforms!Meet
    BY <2>1, <2>2
    DEF Waveforms!Meet, Waveforms!Pairs!Bond, Waveforms!Pairs!Bonded, Registry!Bond,
        Registry!Bonded, wavesBar
  <2> QED
    BY <2>3 DEF Waveforms!Next
<1> HIDE DEF Simulated
<1>4. ASSUME NEW c \in Clients, OnMessage(c)
      PROVE  Simulated
  <2>1. ASSUME NEW key, NEW target, NEW total, SendMessage(key, target, total, c),
               UNCHANGED connVars
        PROVE  Simulated
    BY <1>1, <2>1 DEF SendMessage
  <2>2. Throws \/ (\E frames : Answer(frames)) => Simulated
    BY <1>1 DEF Throws, Answer
  <2> QED
    BY <1>3, <1>4, <2>1, <2>2, MessageSteps
<1>5. ASSUME NEW c \in Clients, OnClose(c) \/ Network(c)
      PROVE  Simulated
  BY <1>1, <1>5 DEF OnClose, Network
<1>6. CASE ClosingSteps
  BY <1>6, ClosingStepWaves DEF Simulated
<1>7. CASE SendSteps /\ UNCHANGED connVars
  BY <1>7, SendStepWaves DEF Simulated, ConnInv, WaveInv
<1>8. CASE \E t \in TimerIds : ThreadStep(t) /\ UNCHANGED connVars
  BY <1>8, ThreadStepWaves DEF Simulated, ConnInv
<1>9. CASE UNCHANGED vars
  BY <1>1, <1>9 DEF vars, Simulated
<1> QED
  BY <1>2, <1>4, <1>5, <1>6, <1>7, <1>8, <1>9 DEF Next, Simulated

\* When roles are disjoint and the sleep covers a callback, every behaviour of the io
\* thread and the timer threads is one of the registry of waveforms: a waveform starts
\* on a free channel and for a pair alone, an override and an expiry stop it in one
\* step, and on_close takes nobody away before its waveforms have stopped.
THEOREM WaveformsImplemented ==
    ASSUME RolesDisjoint, SleepCoversCallback PROVE Spec => ImplementsWaveforms
<1>1. Init => Waveforms!Init
  BY DEF Init, ConnectionManagerInit, TimerManagerInit, NoTask, Running, Waveforms!Init,
         Waveforms!Pairs!Init
<1>2. ConnInv /\ WaveInv /\ PairsBound /\ [Next]_vars =>
          [Waveforms!Next]_<<connections, bondsBar, wavesBar>>
  BY WaveRegistryStep
<1> QED
  BY <1>1, <1>2, WaveInvariant, PairsBoundInvariant, PTL
  DEF Spec, ImplementsWaveforms, Waveforms!Spec, bondsBar, wavesBar
=============================================================================
