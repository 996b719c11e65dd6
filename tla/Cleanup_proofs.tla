---------------------------- MODULE Cleanup_proofs ----------------------------
(***************************************************************************)
(* cleanupAll() against the io thread and the waveform threads, for every  *)
(* number of clients, channels and timers and every set of bind requests,  *)
(* under the timing assumption that no callback outlasts the sleep of an   *)
(* override.                                                               *)
(***************************************************************************)
EXTENDS Shutdown_proofs, Waveform_proofs

USE EndpointAssumption, TimerAssumption, RouterAssumption, ShutdownAssumption

\* The client of a waveform does not leave while sendMessage runs: on_close waits.
SenderStays == asio.at \in SendingPCs => session[asio.key[1]] \in Staying

\* on_close deletes the waveforms of its own client, a key of its snapshot at a time.
CloserKeys ==
    /\ asio.at \in ClosingPCs => \A k \in asio.keys : k[1] = asio.client
    /\ asio.at = "closeErase" => asio.key \in asio.keys

\* What no walk of the signal thread disturbs.
PlainInv == /\ EntriesOwned /\ UnusedTimers /\ OverrideState
            /\ SenderStays /\ EntriesAreLive /\ CloserKeys

\* Whoever cleared a waveform of key k whose callback still runs: an override that has
\* yet to sleep, the on_close of its client, or cleanupAll(), which clears what an
\* override is not about to start anew.
Awaited(k) ==
    \/ asio.at \in SendingPCs \ {"insert"} /\ asio.key = k /\ asio.replacing
    \/ asio.at \in ClosingPCs /\ asio.client = k[1]
    \/ session[k[1]] \in Left
    \/ ~ConnectionsLive /\ ~(asio.at \in SendingPCs /\ asio.key = k)

ClearedAreAwaited == \A t \in TimerIds : Silenced(t) => Awaited(task[t].key)

\* on_close erases the entry of a task that it has stopped.
CloserErases ==
    asio.at = "closeErase" => \A t \in TimerIds : Running(t) => task[t].key # asio.key

\* What holds of the running tasks until their manager is freed.
TaskInv == RunningIsTracked /\ SilencedAreAlone /\ ClearedAreAwaited /\ CloserErases

\* cleanupAll() has not begun before clear() ends.
SweepToCome == ConnectionsLive => sig.key = NoKey /\ sig.tracked = {}

\* What cleanupAll() found in timers had been started.
TrackedExist == \A t \in sig.tracked : task[t].pc # "none"

\* The iterator has passed the place of key k.
Passed(k) == sig.key # NoKey /\ Rank[k] <= Rank[sig.key]

\* A tracked task that still runs has its entry, at a place ahead of an iterator that has
\* not gone astray.
SweepReaches ==
    sig.at = "cleanup" /\ ~sig.astray =>
        \A t \in sig.tracked : Running(t) => ~Inserting(t) /\ ~Passed(task[t].key)

SweepInv == SweepToCome /\ TrackedExist /\ SweepReaches /\ SweepStopsTracked

CleanupInv == PlainInv /\ (TimersLive => TaskInv) /\ SweepInv

\* Of the tasks that have been started, none is started again or inserted late.
OldTasks ==
    \A t \in TimerIds : task[t].pc # "none" =>
        /\ task'[t].pc # "none" /\ task'[t].key = task[t].key
        /\ task'[t].active => task[t].active
        /\ Inserting(t)' => Inserting(t)

\* Nothing runs, and no signal has come, when the process starts.
LEMMA InitCleanup == ShutdownInit => CleanupInv
BY DEF ShutdownInit, Init, EndpointInit, ConnectionManagerInit, TimerManagerInit, Idle,
       NoTask, NoSignal, CleanupInv, PlainInv, TaskInv, SweepInv, EntriesOwned, UnusedTimers,
       OverrideState, SenderStays, EntriesAreLive, CloserKeys, RunningIsTracked,
       SilencedAreAlone, ClearedAreAwaited, CloserErases, SweepToCome, TrackedExist,
       SweepReaches, SweepStopsTracked, TrackedAreStopped, Running, Silenced, InCallback, SendingPCs, ClosingPCs,
       TimersLive, ConnectionsLive

\* The sweep goes on although the other threads take a step.
LEMMA SweepKept ==
    ASSUME SweepInv, sig.tracked \subseteq TimerIds, OldTasks,
           sig'.tracked = sig.tracked, sig'.key = sig.key, sig'.astray = sig.astray,
           ConnectionsLive' => ConnectionsLive, sig'.at = "cleanup" => sig.at = "cleanup",
           TimersLive' <=> TimersLive
    PROVE  SweepInv'
<1> USE DEF SweepInv
<1>1. SweepToCome'
  BY DEF SweepToCome
<1>2. TrackedExist'
  BY DEF TrackedExist, OldTasks
<1>3. SweepReaches'
  BY DEF SweepReaches, TrackedExist, OldTasks, Running, Passed
<1>4. SweepStopsTracked'
  BY DEF SweepStopsTracked, TrackedAreStopped, TrackedExist, OldTasks, Running
<1> QED
  BY <1>1, <1>2, <1>3, <1>4

-----------------------------------------------------------------------------
(* Steps that leave the tasks and the io thread's handler alone.           *)

LEMMA StillTasks ==
    ASSUME PlainInv, UNCHANGED <<timerVars, asio>>, TypeInv, EntriesAreLive',
           ConnectionsLive' => ConnectionsLive,
           \A c \in Clients : /\ session[c] \in Staying => session'[c] \in Staying
                              /\ session[c] \in Left => session'[c] \in Left
    PROVE  PlainInv' /\ OldTasks /\ (TaskInv => TaskInv')
<1> USE DEF PlainInv, timerVars
<1>1. EntriesOwned' /\ UnusedTimers' /\ OverrideState' /\ CloserKeys'
  BY DEF EntriesOwned, UnusedTimers, OverrideState, CloserKeys
<1>2. SenderStays'
  BY DEF SenderStays, TypeInv, HandlerOperands, Keys
<1>3. OldTasks
  BY DEF OldTasks, Inserting
<1>4. \A t \in TimerIds : Running(t)' = Running(t) /\ Silenced(t)' = Silenced(t)
  BY DEF Running, Silenced, InCallback
<1>5. ASSUME TaskInv
      PROVE  TaskInv'
  <2> USE DEF TaskInv
  <2>1. RunningIsTracked' /\ SilencedAreAlone' /\ CloserErases'
    BY <1>4, <1>5 DEF RunningIsTracked, Inserting, SilencedAreAlone, CloserErases
  <2>2. \A t \in TimerIds : Silenced(t) => task[t].key[1] \in Clients
    BY DEF Silenced, InCallback, TypeInv, TaskOperands, Keys
  <2>3. ClearedAreAwaited'
    BY <1>4, <1>5, <2>2 DEF ClearedAreAwaited, Awaited
  <2> QED
    BY <2>1, <2>3
<1> QED
  BY <1>1, <1>2, <1>3, <1>5

-----------------------------------------------------------------------------
(* The io thread begins a handler.                                         *)

\* A waveform is accepted: the client that asks is connected.
LEMMA SendMessageTasks ==
    ASSUME PlainInv, TypeInv, ConnectionsLive, asio.at = "idle", NEW i \in Ids, NEW j \in Ids,
           IsPaired(i, j), NEW channel \in Channels, NEW total, NEW source,
           SendMessage(<<i, channel>>, j, total, source), UNCHANGED <<session, connVars, sig>>
    PROVE  PlainInv' /\ OldTasks /\ (TaskInv => TaskInv')
<1> USE DEF PlainInv
<1> DEFINE key == <<i, channel>>
<1>1. /\ UNCHANGED <<timers, task, counter>>
      /\ asio'.at = IF timers[key] = 0 THEN "start" ELSE "override"
      /\ asio'.key = key /\ asio'.replacing = (timers[key] # 0)
  BY DEF SendMessage, Idle, timerVars
<1>2. key[1] = i /\ i \in connections /\ session[i] \in Staying
  BY DEF IsPaired, HasClient, EntriesAreLive, Staying
<1> HIDE DEF key
<1>3. EntriesOwned' /\ UnusedTimers' /\ OverrideState' /\ CloserKeys'
  BY <1>1 DEF EntriesOwned, UnusedTimers, OverrideState, CloserKeys, ClosingPCs
<1>4. SenderStays' /\ EntriesAreLive'
  BY <1>1, <1>2 DEF SenderStays, EntriesAreLive, connVars
<1>5. OldTasks
  BY <1>1 DEF OldTasks, Inserting
<1>6. \A t \in TimerIds : Running(t)' = Running(t) /\ Silenced(t)' = Silenced(t)
  BY <1>1 DEF Running, Silenced, InCallback
<1>7. ASSUME TaskInv
      PROVE  TaskInv'
  <2> USE DEF TaskInv
  <2>1. RunningIsTracked' /\ SilencedAreAlone' /\ CloserErases'
    BY <1>1, <1>6, <1>7 DEF RunningIsTracked, Inserting, SilencedAreAlone, CloserErases
  <2>2. \A t \in TimerIds : Silenced(t) => session[task[t].key[1]] \in Left
    BY <1>7 DEF ClearedAreAwaited, Awaited, SendingPCs, ClosingPCs
  <2>3. ClearedAreAwaited'
    BY <1>1, <1>6, <2>2 DEF ClearedAreAwaited, Awaited
  <2> QED
    BY <2>1, <2>3
<1> QED
  BY <1>3, <1>4, <1>5, <1>7

\* on_close begins: its snapshot holds keys of its client only.
LEMMA OnCloseTasks ==
    ASSUME PlainInv, TypeInv, OwnHandles, ConnectionsLive, NEW c \in Clients, OnClose(c),
           UNCHANGED sig
    PROVE  PlainInv' /\ OldTasks /\ (TaskInv => TaskInv')
<1> USE DEF PlainInv, timerVars
<1>1. /\ asio.at = "idle" /\ UNCHANGED <<session, connVars, timers, task, counter>>
      /\ asio'.at = "closing" /\ asio'.client = c /\ asio'.keys = KeysOf(GetClientId(c))
  BY DEF OnClose, Idle
<1>2. \A k \in KeysOf(GetClientId(c)) : k[1] = c
  BY DEF KeysOf, GetClientId, OwnHandles, Keys
<1>3. EntriesOwned' /\ UnusedTimers' /\ OverrideState' /\ CloserKeys'
  BY <1>1, <1>2 DEF EntriesOwned, UnusedTimers, OverrideState, CloserKeys
<1>4. SenderStays' /\ EntriesAreLive'
  BY <1>1 DEF SenderStays, SendingPCs, EntriesAreLive, connVars
<1>5. OldTasks
  BY <1>1 DEF OldTasks, Inserting
<1>6. \A t \in TimerIds : Running(t)' = Running(t) /\ Silenced(t)' = Silenced(t)
  BY <1>1 DEF Running, Silenced, InCallback
<1>7. ASSUME TaskInv
      PROVE  TaskInv'
  <2> USE DEF TaskInv
  <2>1. RunningIsTracked' /\ SilencedAreAlone' /\ CloserErases'
    BY <1>1, <1>6, <1>7 DEF RunningIsTracked, Inserting, SilencedAreAlone, CloserErases
  <2>2. \A t \in TimerIds : Silenced(t) => session[task[t].key[1]] \in Left
    BY <1>1, <1>7 DEF ClearedAreAwaited, Awaited, SendingPCs, ClosingPCs
  <2>3. ClearedAreAwaited'
    BY <1>1, <1>6, <2>2 DEF ClearedAreAwaited, Awaited
  <2> QED
    BY <2>1, <2>3
<1> QED
  BY <1>3, <1>4, <1>5, <1>7

-----------------------------------------------------------------------------
(* The steps of the io thread inside sendMessage.                          *)

\* The io thread moves on inside sendMessage and touches no task and no entry.
LEMMA LookTasks ==
    ASSUME PlainInv, TypeInv, UNCHANGED <<connVars, sig>>,
           OverrideEntry \/ ClearTimerFind \/ ClearTimerCopy \/ EntryVanished
    PROVE  PlainInv' /\ OldTasks /\ (TaskInv => TaskInv')
<1> USE DEF PlainInv, timerVars
<1>0. ASSUME UNCHANGED <<session, timerVars>>, asio.at \in {"override", "find", "copy"},
             asio'.at \in SendingPCs \ {"insert"}, asio'.key = asio.key,
             asio'.replacing = asio.replacing, OverrideState'
      PROVE  PlainInv' /\ OldTasks /\ (TaskInv => TaskInv')
  <2>1. EntriesOwned' /\ UnusedTimers' /\ CloserKeys'
    BY <1>0 DEF EntriesOwned, UnusedTimers, CloserKeys, SendingPCs, ClosingPCs
  <2>2. SenderStays' /\ EntriesAreLive'
    BY <1>0 DEF SenderStays, EntriesAreLive, connVars, SendingPCs
  <2>3. OldTasks
    BY <1>0 DEF OldTasks, Inserting
  <2>4. \A t \in TimerIds : Running(t)' = Running(t) /\ Silenced(t)' = Silenced(t)
    BY <1>0 DEF Running, Silenced, InCallback
  <2>5. ASSUME TaskInv
        PROVE  TaskInv'
    <3> USE DEF TaskInv
    <3>1. RunningIsTracked' /\ SilencedAreAlone' /\ CloserErases'
      BY <1>0, <2>4, <2>5
      DEF RunningIsTracked, Inserting, SilencedAreAlone, CloserErases, SendingPCs
    <3>2. ClearedAreAwaited'
      BY <1>0, <2>4, <2>5
      DEF ClearedAreAwaited, Awaited, SendingPCs, ClosingPCs, ConnectionsLive
    <3> QED
      BY <3>1, <3>2
  <2> QED
    BY <1>0, <2>1, <2>2, <2>3, <2>5
<1>1. CASE UNCHANGED <<session, timerVars, asio>>
  <2>1. EntriesAreLive'
    BY <1>1 DEF EntriesAreLive, connVars
  <2> QED
    BY <1>1, <2>1, StillTasks DEF ConnectionsLive
<1>2. CASE OverrideEntry
  <2>1. /\ asio'.at = "find" /\ asio'.key = asio.key /\ asio'.replacing = asio.replacing
    BY <1>2, PlaceAndTimerMove DEF OverrideEntry
  <2>2. OverrideState'
    BY <1>2, <2>1 DEF OverrideEntry, OverrideState
  <2> QED
    BY <1>0, <1>2, <2>1, <2>2 DEF OverrideEntry, SendingPCs
<1>3. CASE ClearTimerFind
  <2>1. /\ asio'.at = IF timers[asio.key] = 0 THEN "start" ELSE "copy"
        /\ asio'.key = asio.key /\ asio'.replacing = asio.replacing
    BY <1>3, PlaceMoves DEF ClearTimerFind
  <2>2. OverrideState'
    BY <1>3, <2>1 DEF ClearTimerFind, OverrideState
  <2> QED
    BY <1>0, <1>3, <2>1, <2>2 DEF ClearTimerFind, SendingPCs
<1>4. CASE ClearTimerCopy /\ asio' # asio
  <2>1. /\ asio'.at = "stop" /\ asio'.key = asio.key /\ asio'.id = timers[asio.key]
        /\ asio'.replacing = asio.replacing
    BY <1>4, PlaceAndTimerMove DEF ClearTimerCopy
  <2>2. asio.key \in Keys
    BY <1>4 DEF ClearTimerCopy, TypeInv, HandlerOperands, SendingPCs
  <2>3. OverrideState'
    BY <1>4, <2>1, <2>2 DEF ClearTimerCopy, OverrideState, EntriesOwned
  <2> QED
    BY <1>0, <1>4, <2>1, <2>3 DEF ClearTimerCopy, SendingPCs
<1> QED
  BY <1>1, <1>2, <1>3, <1>4 DEF ClearTimerCopy, EntryVanished

\* clearInterval of a task that no other can replace in timers: nothing runs on its
\* channel any more.
LEMMA ClearedTasks ==
    ASSUME PlainInv, TypeInv, NEW k \in Keys, NEW id \in TimerIds, task[id].key = k,
           timers[k] \in {0, id}, ClearInterval(id), UNCHANGED <<timers, counter>>,
           \A t \in TimerIds : Inserting(t) => task[t].key # k
    PROVE  /\ EntriesOwned' /\ UnusedTimers' /\ ~task'[id].active
           /\ \A t \in TimerIds :
                 /\ task'[t].pc = task[t].pc /\ task'[t].key = task[t].key
                 /\ task'[t].active => task[t].active
                 /\ Silenced(t)' => Silenced(t) \/ task[t].key = k
           /\ RunningIsTracked =>
                 \A t \in TimerIds : Running(t)' =>
                     task[t].key # k /\ (Inserting(t) \/ timers[task[t].key] = t)
           /\ RunningIsTracked /\ SilencedAreAlone => SilencedAreAlone'
<1> USE DEF PlainInv
<1>1. \A t \in TimerIds :
          /\ task'[t].pc = task[t].pc /\ task'[t].key = task[t].key
          /\ t = id => ~task'[t].active
          /\ t # id => task'[t].active = task[t].active
  BY ClearedFlag
<1>2. \A t \in TimerIds : /\ Running(t)' => Running(t) /\ t # id
                          /\ Silenced(t)' => Silenced(t) \/ task[t].key = k
  BY <1>1 DEF Running, Silenced, InCallback
<1>3. \A j \in Keys : timers[j] # 0 => timers[j] \in TimerIds
  BY DEF TypeInv, TypeOK, TimerIds
<1>4. EntriesOwned'
  BY <1>1, <1>3 DEF EntriesOwned
<1>5. UnusedTimers'
  BY <1>1 DEF UnusedTimers
<1>6. ASSUME RunningIsTracked, NEW t \in TimerIds, Running(t)'
      PROVE  task[t].key # k /\ (Inserting(t) \/ timers[task[t].key] = t)
  BY <1>2, <1>6, TimerIdBounds DEF RunningIsTracked
<1>7. ASSUME RunningIsTracked, SilencedAreAlone
      PROVE  SilencedAreAlone'
  <2>1. ASSUME NEW t \in TimerIds, NEW u \in TimerIds, Running(t)', Silenced(u)'
        PROVE  task[t].key # task[u].key
    BY <1>2, <1>6, <1>7, <2>1 DEF SilencedAreAlone
  <2>2. \A t \in TimerIds : task'[t].key = task[t].key
    BY <1>1
  <2> QED
    BY <2>1, <2>2 DEF SilencedAreAlone
<1> QED
  BY <1>1, <1>2, <1>4, <1>5, <1>6, <1>7

\* clearTimer stops the task that it copied.
LEMMA StopTasks ==
    ASSUME PlainInv, TypeInv, UNCHANGED <<connVars, sig>>, ClearTimerStop
    PROVE  PlainInv' /\ OldTasks /\ (TaskInv => TaskInv')
<1> USE DEF PlainInv
<1>1. /\ asio.at = "stop" /\ asio.id \in TimerIds /\ asio.key \in Keys
      /\ UNCHANGED <<session, timers, counter>>
      /\ asio'.at = "erase" /\ asio'.key = asio.key /\ asio'.replacing = asio.replacing
      /\ asio'.id = asio.id /\ ClearInterval(asio.id)
  BY PlaceMoves DEF ClearTimerStop, TypeInv, HandlerOperands, Clearing, SendingPCs
<1>2. /\ task[asio.id].key = asio.key /\ timers[asio.key] \in {0, asio.id} /\ asio.replacing
      /\ \A t \in TimerIds : ~Inserting(t)
  BY <1>1 DEF OverrideState, Inserting
<1> DEFINE Cleared ==
        /\ EntriesOwned' /\ UnusedTimers' /\ ~task'[asio.id].active
        /\ \A t \in TimerIds :
              /\ task'[t].pc = task[t].pc /\ task'[t].key = task[t].key
              /\ task'[t].active => task[t].active
              /\ Silenced(t)' => Silenced(t) \/ task[t].key = asio.key
        /\ RunningIsTracked =>
              \A t \in TimerIds : Running(t)' =>
                  task[t].key # asio.key /\ (Inserting(t) \/ timers[task[t].key] = t)
        /\ RunningIsTracked /\ SilencedAreAlone => SilencedAreAlone'
<1>3. Cleared
  BY <1>1, <1>2, ClearedTasks
<1>4. OverrideState'
  BY <1>1, <1>2, <1>3 DEF OverrideState
<1>5. SenderStays' /\ EntriesAreLive' /\ CloserKeys'
  BY <1>1 DEF SenderStays, EntriesAreLive, CloserKeys, SendingPCs, ClosingPCs, connVars
<1>6. OldTasks
  BY <1>1, <1>3 DEF OldTasks, Inserting
<1>7. ASSUME TaskInv
      PROVE  TaskInv'
  <2> USE DEF TaskInv
  <2>1. RunningIsTracked'
    BY <1>1, <1>2, <1>3, <1>7 DEF RunningIsTracked
  <2>2. ClearedAreAwaited'
    BY <1>1, <1>2, <1>3, <1>7
    DEF ClearedAreAwaited, Awaited, SendingPCs, ClosingPCs, ConnectionsLive
  <2>3. CloserErases'
    BY <1>1 DEF CloserErases
  <2> QED
    BY <1>3, <1>7, <2>1, <2>2, <2>3
<1> QED
  BY <1>3, <1>4, <1>5, <1>6, <1>7

\* The io thread erases an entry on whose channel nothing runs.
LEMMA ErasedEntry ==
    ASSUME PlainInv, TypeInv, NEW k \in Keys, timers' = [timers EXCEPT ![k] = 0],
           UNCHANGED <<task, counter>>, \A t \in TimerIds : ~Inserting(t)
    PROVE  /\ EntriesOwned' /\ UnusedTimers' /\ timers'[k] = 0
           /\ \A t \in TimerIds : Running(t)' = Running(t) /\ Silenced(t)' = Silenced(t)
           /\ RunningIsTracked /\ (\A t \in TimerIds : Running(t) => task[t].key # k)
                  => RunningIsTracked'
           /\ SilencedAreAlone => SilencedAreAlone'
<1>1. timers'[k] = 0 /\ \A j \in Keys : j # k => timers'[j] = timers[j]
  BY DEF TypeInv, TypeOK
<1>2. \A t \in TimerIds :
          /\ Running(t)' = Running(t) /\ Silenced(t)' = Silenced(t)
          /\ Running(t) => task[t].key \in Keys
  BY DEF Running, Silenced, InCallback, TypeInv, TaskOperands
<1>3. EntriesOwned' /\ UnusedTimers'
  BY <1>1 DEF PlainInv, EntriesOwned, UnusedTimers
<1>4. RunningIsTracked /\ (\A t \in TimerIds : Running(t) => task[t].key # k)
          => RunningIsTracked'
  BY <1>1, <1>2 DEF RunningIsTracked
<1>5. SilencedAreAlone => SilencedAreAlone'
  BY <1>2 DEF SilencedAreAlone
<1> QED
  BY <1>1, <1>2, <1>3, <1>4, <1>5

\* clearTimer erases the entry of the task that it has stopped.
LEMMA EraseTasks ==
    ASSUME PlainInv, TypeInv, UNCHANGED <<connVars, sig>>, ClearTimerErase
    PROVE  PlainInv' /\ OldTasks /\ (TaskInv => TaskInv')
<1> USE DEF PlainInv
<1>1. /\ asio.at = "erase" /\ asio.id \in TimerIds /\ asio.key \in Keys
      /\ UNCHANGED <<session, task, counter>> /\ timers' = [timers EXCEPT ![asio.key] = 0]
      /\ asio'.at = "start" /\ asio'.key = asio.key /\ asio'.replacing = asio.replacing
  BY PlaceMoves DEF ClearTimerErase, TypeInv, HandlerOperands, Clearing, SendingPCs
<1>2. /\ ~task[asio.id].active /\ timers[asio.key] \in {0, asio.id}
      /\ \A t \in TimerIds : ~Inserting(t)
  BY <1>1 DEF OverrideState, Inserting
<1>3. /\ EntriesOwned' /\ UnusedTimers' /\ timers'[asio.key] = 0
      /\ \A t \in TimerIds : Running(t)' = Running(t) /\ Silenced(t)' = Silenced(t)
      /\ RunningIsTracked /\ (\A t \in TimerIds : Running(t) => task[t].key # asio.key)
             => RunningIsTracked'
      /\ SilencedAreAlone => SilencedAreAlone'
  BY <1>1, <1>2, ErasedEntry
<1>4. OverrideState'
  BY <1>1, <1>3 DEF OverrideState
<1>5. SenderStays' /\ EntriesAreLive' /\ CloserKeys'
  BY <1>1 DEF SenderStays, EntriesAreLive, CloserKeys, SendingPCs, ClosingPCs, connVars
<1>6. OldTasks
  BY <1>1 DEF OldTasks, Inserting
<1>7. ASSUME TaskInv
      PROVE  TaskInv'
  <2> USE DEF TaskInv
  <2>1. \A t \in TimerIds : Running(t) => task[t].key # asio.key
    BY <1>2, <1>7, TimerIdBounds DEF RunningIsTracked, Running
  <2>2. ClearedAreAwaited'
    BY <1>1, <1>3, <1>7
    DEF ClearedAreAwaited, Awaited, SendingPCs, ClosingPCs, ConnectionsLive
  <2>3. CloserErases'
    BY <1>1 DEF CloserErases
  <2> QED
    BY <1>3, <1>7, <2>1, <2>2, <2>3
<1> QED
  BY <1>3, <1>4, <1>5, <1>6, <1>7

\* When the sleep is over, no callback of a cleared task is left on the channel, whoever
\* cleared it.
LEMMA NobodyAwaited ==
    ASSUME SleepCoversCallback, PlainInv, TypeInv, ClearedAreAwaited, asio.at = "start",
           SleepIsOver, NEW t \in TimerIds, Silenced(t)
    PROVE  /\ task[t].key # asio.key
           /\ session[task[t].key[1]] \in Left \/ ~ConnectionsLive
<1>1. Awaited(task[t].key)
  BY DEF ClearedAreAwaited
<1>2. session[asio.key[1]] \notin Left
  BY DEF PlainInv, SenderStays, Staying, Left, SendingPCs
<1>3. ~(asio.replacing /\ asio.key = task[t].key)
  BY DEF SleepIsOver, Silenced
<1>4. asio.at \notin ClosingPCs /\ asio.at \in SendingPCs
  BY DEF ClosingPCs, SendingPCs
<1> QED
  BY <1>1, <1>2, <1>3, <1>4 DEF Awaited

\* One pulse, and no task.
LEMMA SingleTasks ==
    ASSUME SleepCoversCallback, PlainInv, TypeInv, UNCHANGED <<connVars, sig>>, StartSingle
    PROVE  PlainInv' /\ OldTasks /\ (TaskInv => TaskInv')
<1> USE DEF PlainInv, timerVars
<1>1. /\ asio.at = "start" /\ SleepIsOver /\ UNCHANGED <<session, timers, task, counter>>
      /\ asio'.at = "idle"
  BY DEF StartSingle, Idle
<1>2. EntriesOwned' /\ UnusedTimers' /\ OverrideState' /\ CloserKeys'
  BY <1>1 DEF EntriesOwned, UnusedTimers, OverrideState, CloserKeys, ClosingPCs
<1>3. SenderStays' /\ EntriesAreLive'
  BY <1>1 DEF SenderStays, EntriesAreLive, connVars, SendingPCs
<1>4. OldTasks
  BY <1>1 DEF OldTasks, Inserting
<1>5. \A t \in TimerIds : Running(t)' = Running(t) /\ Silenced(t)' = Silenced(t)
  BY <1>1 DEF Running, Silenced, InCallback
<1>6. ASSUME TaskInv
      PROVE  TaskInv'
  <2> USE DEF TaskInv
  <2>1. RunningIsTracked' /\ SilencedAreAlone' /\ CloserErases'
    BY <1>1, <1>5, <1>6 DEF RunningIsTracked, Inserting, SilencedAreAlone, CloserErases
  <2>2. \A t \in TimerIds :
            Silenced(t) => session[task[t].key[1]] \in Left \/ ~ConnectionsLive
    BY <1>1, <1>6, NobodyAwaited
  <2>3. ClearedAreAwaited'
    BY <1>1, <1>5, <2>2 DEF ClearedAreAwaited, Awaited, SendingPCs, ConnectionsLive
  <2> QED
    BY <2>1, <2>3
<1> QED
  BY <1>2, <1>3, <1>4, <1>6

\* A task starts: no other runs or calls back on its channel, and the number it gets has
\* never been tracked.
LEMMA RepeatingTasks ==
    ASSUME SleepCoversCallback, PlainInv, TypeInv, UNCHANGED <<connVars, sig>>,
           StartRepeating
    PROVE  PlainInv' /\ OldTasks /\ (TaskInv => TaskInv')
<1> USE DEF PlainInv
<1> DEFINE new == counter + 1
<1>1. /\ asio.at = "start" /\ SleepIsOver /\ UNCHANGED <<session, timers>>
      /\ asio'.at = "insert" /\ asio'.key = asio.key
      /\ asio'.id = new /\ asio.key \in Keys /\ timers[asio.key] = 0
  BY PlaceAndTimerMove
  DEF StartRepeating, TypeInv, HandlerOperands, SendingPCs, OverrideState
<1>2. /\ new \in TimerIds /\ counter' = new /\ counter \in Nat
      /\ task[new].pc = "none"
  <2>1. counter \in 0 .. MaxTimers /\ counter < MaxTimers
    BY <1>1 DEF TypeInv, TypeOK, HandlerOperands, SendingPCs
  <2>2. new \in TimerIds /\ new > counter /\ counter \in Nat
    BY <2>1 DEF TimerIds
  <2> QED
    BY <2>2 DEF StartRepeating, UnusedTimers
<1>3. /\ task'[new].pc = "sleep" /\ task'[new].active /\ task'[new].key = asio.key
      /\ \A t \in TimerIds : t # new => task'[t] = task[t]
  BY <1>2 DEF StartRepeating, TypeInv, TypeOK
<1>4. \A t \in TimerIds : t > new => t > counter /\ t # new
  BY <1>2 DEF TimerIds
<1>5. \A k \in Keys : timers[k] # 0 => timers[k] \in TimerIds /\ timers[k] # new
  BY <1>2 DEF TypeInv, TypeOK, EntriesExist, TimerIds
<1> HIDE DEF new
<1>6. \A t \in TimerIds :
          /\ Running(t)' => t = new \/ Running(t)
          /\ Silenced(t)' => t # new /\ Silenced(t)
  BY <1>3 DEF Running, Silenced, InCallback
<1>7. EntriesOwned' /\ UnusedTimers'
  BY <1>1, <1>2, <1>3, <1>4, <1>5 DEF EntriesOwned, UnusedTimers
<1>8. OverrideState'
  BY <1>1, <1>3 DEF OverrideState
<1>9. SenderStays' /\ EntriesAreLive' /\ CloserKeys'
  BY <1>1 DEF SenderStays, EntriesAreLive, CloserKeys, connVars, SendingPCs, ClosingPCs
<1>10. OldTasks
  BY <1>1, <1>2, <1>3 DEF OldTasks, Inserting
<1>11. ASSUME TaskInv
       PROVE  TaskInv'
  <2> USE DEF TaskInv
  <2>1. RunningIsTracked'
    BY <1>1, <1>3, <1>6, <1>11 DEF RunningIsTracked, Inserting
  <2>2. \A t \in TimerIds : Silenced(t) =>
            /\ task[t].key # asio.key
            /\ session[task[t].key[1]] \in Left \/ ~ConnectionsLive
    BY <1>1, <1>11, NobodyAwaited
  <2>3. SilencedAreAlone'
    BY <1>3, <1>6, <1>11, <2>2 DEF SilencedAreAlone
  <2>4. ClearedAreAwaited'
    BY <1>1, <1>3, <1>6, <2>2 DEF ClearedAreAwaited, Awaited, ConnectionsLive
  <2>5. CloserErases'
    BY <1>1 DEF CloserErases
  <2> QED
    BY <2>1, <2>3, <2>4, <2>5
<1> QED
  BY <1>7, <1>8, <1>9, <1>10, <1>11

\* The entry of the new task: the channel had none.
LEMMA InsertTasks ==
    ASSUME PlainInv, TypeInv, UNCHANGED <<connVars, sig>>, InsertEntry
    PROVE  PlainInv' /\ OldTasks /\ (TaskInv => TaskInv')
<1> USE DEF PlainInv
<1>1. /\ asio.at = "insert" /\ asio.id \in TimerIds /\ asio.key \in Keys
      /\ UNCHANGED <<session, task, counter>> /\ asio'.at = "idle"
      /\ task[asio.id].key = asio.key /\ timers[asio.key] = 0
  BY DEF InsertEntry, Idle, TypeInv, HandlerOperands, Clearing, SendingPCs, OverrideState
<1>2. /\ timers'[asio.key] = asio.id
      /\ \A k \in Keys : k # asio.key => timers'[k] = timers[k]
  BY <1>1 DEF InsertEntry, TypeInv, TypeOK
<1>3. \A t \in TimerIds :
          /\ Running(t)' = Running(t) /\ Silenced(t)' = Silenced(t)
          /\ Running(t) => task[t].key \in Keys
  BY <1>1 DEF Running, Silenced, InCallback, TypeInv, TaskOperands
<1>4. EntriesOwned' /\ UnusedTimers' /\ OverrideState' /\ CloserKeys'
  BY <1>1, <1>2 DEF EntriesOwned, UnusedTimers, OverrideState, CloserKeys, ClosingPCs
<1>5. SenderStays' /\ EntriesAreLive'
  BY <1>1 DEF SenderStays, EntriesAreLive, connVars, SendingPCs
<1>6. OldTasks
  BY <1>1 DEF OldTasks, Inserting
<1>7. ASSUME TaskInv
      PROVE  TaskInv'
  <2> USE DEF TaskInv
  <2>1. \A t \in TimerIds : Running(t) /\ t # asio.id => task[t].key # asio.key
    BY <1>1, <1>7, TimerIdBounds DEF RunningIsTracked, Inserting
  <2>2. RunningIsTracked'
    BY <1>1, <1>2, <1>3, <1>7, <2>1 DEF RunningIsTracked, Inserting
  <2>3. SilencedAreAlone' /\ CloserErases'
    BY <1>1, <1>3, <1>7 DEF SilencedAreAlone, CloserErases
  <2>4. ClearedAreAwaited'
    BY <1>1, <1>3, <1>7
    DEF ClearedAreAwaited, Awaited, ConnectionsLive, SendingPCs, ClosingPCs
  <2> QED
    BY <2>2, <2>3, <2>4
<1> QED
  BY <1>4, <1>5, <1>6, <1>7

\* Every step of sendMessage.
LEMMA SendStepTasks ==
    ASSUME SleepCoversCallback, PlainInv, TypeInv, UNCHANGED <<connVars, sig>>, SendSteps
    PROVE  PlainInv' /\ OldTasks /\ (TaskInv => TaskInv')
BY LookTasks, StopTasks, EraseTasks, SingleTasks, RepeatingTasks, InsertTasks DEF SendSteps

-----------------------------------------------------------------------------
(* The steps of on_close after its first one.                              *)

\* clearClientTimers stops the task of one key.
LEMMA CloseStopTasks ==
    ASSUME PlainInv, TypeInv, UNCHANGED <<connVars, sig>>, NEW k \in Keys, CloseStop(k)
    PROVE  PlainInv' /\ OldTasks /\ (TaskInv => TaskInv')
<1> USE DEF PlainInv
<1>1. /\ asio.at = "closing" /\ UNCHANGED <<session, timers, counter>> /\ k[1] = asio.client
      /\ asio'.at = "closeErase" /\ asio'.client = asio.client /\ asio'.keys = asio.keys
      /\ asio'.key = k
  BY DEF CloseStop, CloserKeys, ClosingPCs, TypeInv, TypeOK, Handlers
<1>2. \A t \in TimerIds : ~Inserting(t) /\ ~Inserting(t)'
  BY <1>1 DEF Inserting
<1>3. OverrideState' /\ SenderStays' /\ EntriesAreLive' /\ CloserKeys'
  BY <1>1
  DEF OverrideState, SenderStays, EntriesAreLive, CloserKeys, CloseStop, SendingPCs,
      ClosingPCs, connVars
<1>4. CASE timers[k] = 0
  <2>1. UNCHANGED task
    BY <1>4 DEF CloseStop
  <2>2. EntriesOwned' /\ UnusedTimers' /\ OldTasks
    BY <1>1, <1>2, <2>1 DEF EntriesOwned, UnusedTimers, OldTasks
  <2>3. \A t \in TimerIds : Running(t)' = Running(t) /\ Silenced(t)' = Silenced(t)
    BY <2>1 DEF Running, Silenced, InCallback
  <2>4. ASSUME TaskInv
        PROVE  TaskInv'
    <3> USE DEF TaskInv
    <3>1. RunningIsTracked' /\ SilencedAreAlone'
      BY <1>1, <1>2, <2>1, <2>3, <2>4 DEF RunningIsTracked, SilencedAreAlone
    <3>2. CloserErases'
      BY <1>1, <1>2, <1>4, <2>1, <2>3, <2>4, TimerIdBounds DEF CloserErases, RunningIsTracked
    <3>3. ClearedAreAwaited'
      BY <1>1, <2>1, <2>3, <2>4
      DEF ClearedAreAwaited, Awaited, SendingPCs, ClosingPCs, ConnectionsLive
    <3> QED
      BY <3>1, <3>2, <3>3
  <2> QED
    BY <1>3, <2>2, <2>4
<1>5. CASE timers[k] # 0
  <2>1. timers[k] \in TimerIds /\ task[timers[k]].key = k
    BY <1>5 DEF TypeInv, TypeOK, TimerIds, EntriesOwned
  <2>2. ClearInterval(timers[k])
    BY <1>5 DEF CloseStop
  <2>3. /\ EntriesOwned' /\ UnusedTimers'
        /\ \A t \in TimerIds :
              /\ task'[t].pc = task[t].pc /\ task'[t].key = task[t].key
              /\ task'[t].active => task[t].active
              /\ Silenced(t)' => Silenced(t) \/ task[t].key = k
        /\ RunningIsTracked =>
              \A t \in TimerIds : Running(t)' =>
                  task[t].key # k /\ (Inserting(t) \/ timers[task[t].key] = t)
        /\ RunningIsTracked /\ SilencedAreAlone => SilencedAreAlone'
    BY <1>1, <1>2, <2>1, <2>2, ClearedTasks
  <2>4. OldTasks
    BY <1>2, <2>3 DEF OldTasks
  <2>5. ASSUME TaskInv
        PROVE  TaskInv'
    <3> USE DEF TaskInv
    <3>1. RunningIsTracked'
      BY <1>1, <1>2, <2>3, <2>5 DEF RunningIsTracked
    <3>2. CloserErases'
      BY <1>1, <2>3, <2>5 DEF CloserErases
    <3>3. ClearedAreAwaited'
      BY <1>1, <2>3, <2>5
      DEF ClearedAreAwaited, Awaited, SendingPCs, ClosingPCs, ConnectionsLive
    <3> QED
      BY <2>3, <2>5, <3>1, <3>2, <3>3
  <2> QED
    BY <1>3, <2>3, <2>4, <2>5
<1> QED
  BY <1>4, <1>5

\* clearClientTimers erases the entry of the key, whose task does not run.
LEMMA CloseEraseTasks ==
    ASSUME PlainInv, TypeInv, UNCHANGED <<connVars, sig>>, CloseErase
    PROVE  PlainInv' /\ OldTasks /\ (TaskInv => TaskInv')
<1> USE DEF PlainInv
<1>1. /\ asio.at = "closeErase" /\ UNCHANGED <<session, task, counter>>
      /\ timers' = [timers EXCEPT ![asio.key] = 0]
      /\ asio'.at = "closing" /\ asio'.client = asio.client /\ asio'.keys \subseteq asio.keys
  BY DEF CloseErase, TypeInv, TypeOK, Handlers
<1>2. \A t \in TimerIds : ~Inserting(t) /\ ~Inserting(t)'
  BY <1>1 DEF Inserting
<1>3. OverrideState' /\ SenderStays' /\ EntriesAreLive' /\ CloserKeys'
  BY <1>1
  DEF OverrideState, SenderStays, EntriesAreLive, CloserKeys, SendingPCs, ClosingPCs,
      connVars
<1>4. asio.key \in Keys
  BY <1>1 DEF CloserKeys, TypeInv, TypeOK, Handlers
<1>5. /\ EntriesOwned' /\ UnusedTimers'
      /\ \A t \in TimerIds : Running(t)' = Running(t) /\ Silenced(t)' = Silenced(t)
      /\ RunningIsTracked /\ (\A t \in TimerIds : Running(t) => task[t].key # asio.key)
             => RunningIsTracked'
      /\ SilencedAreAlone => SilencedAreAlone'
  BY <1>1, <1>2, <1>4, ErasedEntry
<1>6. OldTasks
  BY <1>1, <1>2 DEF OldTasks
<1>7. ASSUME TaskInv
      PROVE  TaskInv'
  <2> USE DEF TaskInv
  <2>1. \A t \in TimerIds : Running(t) => task[t].key # asio.key
    BY <1>1, <1>7 DEF CloserErases
  <2>2. CloserErases'
    BY <1>1 DEF CloserErases
  <2>3. ClearedAreAwaited'
    BY <1>1, <1>5, <1>7
    DEF ClearedAreAwaited, Awaited, SendingPCs, ClosingPCs, ConnectionsLive
  <2> QED
    BY <1>5, <1>7, <2>1, <2>2, <2>3
<1> QED
  BY <1>3, <1>5, <1>6, <1>7

\* on_close returns: it erases its client from connections, if the signal thread has not.
LEMMA DisconnectTasks ==
    ASSUME PlainInv, TypeInv, OwnHandles, UNCHANGED sig, OnCloseDisconnect
    PROVE  PlainInv' /\ OldTasks /\ (TaskInv => TaskInv')
<1> USE DEF PlainInv, timerVars
<1> DEFINE c == asio.client
<1>1. /\ asio.at = "closing" /\ UNCHANGED <<timers, task, counter>> /\ asio'.at = "idle"
      /\ c \in Clients /\ session' = [session EXCEPT ![c] = "detached"]
      /\ Disconnect(GetClientId(c))
  BY DEF OnCloseDisconnect, Idle, TypeInv, HandlerOperands, ClosingPCs
<1>2. \A d \in Clients : session'[d] = IF d = c THEN "detached" ELSE session[d]
  BY <1>1 DEF TypeInv, TypeOK
<1>3. /\ connections' = connections \ {c}
      /\ \A d \in Clients : d # c => hdlToId'[d] = hdlToId[d]
  <2>1. CASE c \in connections
    <3>1. GetClientId(c) = c /\ HasClient(c)
      BY <2>1 DEF EntriesAreLive, GetClientId, HasClient
    <3>2. connections' = connections \ {c} /\ hdlToId' = [hdlToId EXCEPT ![c] = NoId]
      BY <1>1, <3>1 DEF Disconnect
    <3> QED
      BY <1>1, <3>2 DEF TypeInv, TypeOK
  <2>2. CASE c \notin connections
    <3>1. ~HasClient(GetClientId(c))
      BY <1>1, <2>2 DEF OwnHandles, GetClientId, HasClient, TypeInv, TypeOK
    <3> QED
      BY <1>1, <2>2, <3>1 DEF Disconnect, connVars
  <2> QED
    BY <2>1, <2>2
<1>4. EntriesOwned' /\ UnusedTimers' /\ OverrideState' /\ CloserKeys' /\ SenderStays'
  BY <1>1 DEF EntriesOwned, UnusedTimers, OverrideState, CloserKeys, SenderStays,
              ClosingPCs, SendingPCs
<1>5. EntriesAreLive'
  BY <1>2, <1>3 DEF EntriesAreLive, TypeInv, TypeOK
<1>6. OldTasks
  BY <1>1 DEF OldTasks, Inserting
<1>7. \A t \in TimerIds :
          /\ Running(t)' = Running(t) /\ Silenced(t)' = Silenced(t)
          /\ Silenced(t) => task[t].key[1] \in Clients
  BY <1>1 DEF Running, Silenced, InCallback, TypeInv, TaskOperands, Keys
<1>8. ASSUME TaskInv
      PROVE  TaskInv'
  <2> USE DEF TaskInv
  <2>1. RunningIsTracked' /\ SilencedAreAlone' /\ CloserErases'
    BY <1>1, <1>7, <1>8 DEF RunningIsTracked, Inserting, SilencedAreAlone, CloserErases
  <2>2. \A t \in TimerIds : Silenced(t) =>
            \/ task[t].key[1] = c
            \/ session[task[t].key[1]] \in Left
            \/ ~ConnectionsLive
    BY <1>1, <1>8 DEF ClearedAreAwaited, Awaited, SendingPCs
  <2> HIDE DEF c
  <2>3. ClearedAreAwaited'
    BY <1>1, <1>2, <1>7, <2>2
    DEF ClearedAreAwaited, Awaited, Left, SendingPCs, ConnectionsLive
  <2> QED
    BY <2>1, <2>3
<1> QED
  BY <1>4, <1>5, <1>6, <1>8

\* An exception that ends the process changes no task.
LEMMA ThrowsTasks ==
    ASSUME PlainInv, TypeInv, UNCHANGED sig, Throws
    PROVE  PlainInv' /\ OldTasks /\ (TaskInv => TaskInv')
<1>1. UNCHANGED <<session, connVars, timerVars, asio>>
  BY DEF Throws
<1>2. EntriesAreLive'
  BY <1>1 DEF PlainInv, EntriesAreLive, connVars
<1> QED
  BY <1>1, <1>2, StillTasks DEF ConnectionsLive

\* Every step of on_close after its first one.
LEMMA ClosingStepTasks ==
    ASSUME PlainInv, TypeInv, OwnHandles, UNCHANGED sig, ClosingSteps
    PROVE  PlainInv' /\ OldTasks /\ (TaskInv => TaskInv')
BY CloseStopTasks, CloseEraseTasks, DisconnectTasks, ThrowsTasks
DEF ClosingSteps, OnCloseThrows

-----------------------------------------------------------------------------
(* The timer threads.                                                      *)

\* A thread moves on and erases no entry: whoever is silenced now was so before.
LEMMA MovedTasks ==
    ASSUME PlainInv, TypeInv, UNCHANGED <<session, connVars, sig, timers, counter, asio>>,
           \A t \in TimerIds :
               /\ task'[t].key = task[t].key /\ task'[t].active = task[t].active
               /\ task'[t].pc = "none" <=> task[t].pc = "none"
               /\ Silenced(t)' => Silenced(t)
    PROVE  PlainInv' /\ OldTasks /\ (TaskInv => TaskInv')
<1> USE DEF PlainInv
<1>1. \A t \in TimerIds : Running(t)' <=> Running(t)
  BY DEF Running
<1>2. asio.at \in {"stop", "erase", "insert"} => asio.id \in TimerIds
  BY DEF TypeInv, HandlerOperands, Clearing
<1>3. \A k \in Keys : timers[k] # 0 => timers[k] \in TimerIds
  BY DEF TypeInv, TypeOK, TimerIds
<1>4. EntriesOwned' /\ UnusedTimers' /\ OverrideState'
  BY <1>2, <1>3 DEF EntriesOwned, UnusedTimers, OverrideState
<1>5. SenderStays' /\ EntriesAreLive' /\ CloserKeys'
  BY DEF SenderStays, EntriesAreLive, CloserKeys, connVars
<1>6. OldTasks
  BY DEF OldTasks, Inserting
<1>7. ASSUME TaskInv
      PROVE  TaskInv'
  <2>1. RunningIsTracked' /\ SilencedAreAlone' /\ CloserErases'
    BY <1>1, <1>7 DEF TaskInv, RunningIsTracked, Inserting, SilencedAreAlone, CloserErases
  <2>2. ClearedAreAwaited'
    BY <1>7 DEF TaskInv, ClearedAreAwaited, Awaited, ConnectionsLive
  <2> QED
    BY <2>1, <2>2 DEF TaskInv
<1> QED
  BY <1>4, <1>5, <1>6, <1>7

\* A thread changes its place alone, and begins no callback unless its task runs.
LEMMA PlaceTasks ==
    ASSUME PlainInv, TypeInv, UNCHANGED <<session, connVars, sig, timers, counter, asio>>,
           NEW t \in TimerIds, NEW pc, SetPC(t, pc), task[t].pc # "none", pc # "none",
           \/ pc \notin {"check", "send", "abort", "finish"}
           \/ task[t].active
           \/ InCallback(t)
    PROVE  PlainInv' /\ OldTasks /\ (TaskInv => TaskInv')
<1>1. \A u \in TimerIds :
          /\ task'[u].key = task[u].key /\ task'[u].active = task[u].active
          /\ task'[u].pc = IF u = t THEN pc ELSE task[u].pc
  BY MovedPlace
<1>2. \A u \in TimerIds : (task'[u].pc = "none" <=> task[u].pc = "none")
  BY <1>1
<1>3. \A u \in TimerIds : Silenced(u)' => Silenced(u)
  BY <1>1 DEF Silenced, InCallback
<1> QED
  BY <1>1, <1>2, <1>3, MovedTasks

\* A callback sends a pulse and counts it.
LEMMA PulseTasks ==
    ASSUME PlainInv, TypeInv, UNCHANGED <<connVars, sig>>, NEW t \in TimerIds, SendPulse(t)
    PROVE  PlainInv' /\ OldTasks /\ (TaskInv => TaskInv')
<1>1. task[t] \in Tasks /\ task[t].pc = "send" /\ InCallback(t)
  BY DEF SendPulse, InCallback, TypeInv, TypeOK
<1>2. task'[t] = [task[t] EXCEPT !.remaining = @ - 1,
                         !.pc = IF task[t].remaining - 1 <= 0 THEN "finish" ELSE "sleep"]
  BY DEF SendPulse, TypeInv, TypeOK
<1>3. /\ task'[t].key = task[t].key /\ task'[t].active = task[t].active
      /\ task'[t].pc # "none"
  BY <1>1, <1>2 DEF Tasks
<1>4. \A u \in TimerIds : u # t => task'[u] = task[u]
  BY DEF SendPulse, TypeInv, TypeOK
<1>5. \A u \in TimerIds : Silenced(u)' => Silenced(u)
  BY <1>1, <1>3, <1>4 DEF Silenced, InCallback
<1>6. \A u \in TimerIds :
          /\ task'[u].key = task[u].key /\ task'[u].active = task[u].active
          /\ (task'[u].pc = "none" <=> task[u].pc = "none")
  BY <1>1, <1>3, <1>4
<1> QED
  BY <1>5, <1>6, MovedTasks DEF SendPulse

\* A callback erases its channel's entry: no other task runs on the channel.
LEMMA EraseOwnTasks ==
    ASSUME PlainInv, TypeInv, UNCHANGED <<connVars, sig>>, NEW t \in TimerIds,
           EraseOwnEntry(t)
    PROVE  PlainInv' /\ OldTasks /\ (TaskInv => TaskInv')
<1> USE DEF PlainInv
<1> DEFINE key == task[t].key
<1>1. /\ task[t] \in Tasks /\ InCallback(t) /\ key \in Keys
      /\ UNCHANGED <<session, counter, asio>>
  BY DEF EraseOwnEntry, InCallback, TypeInv, TypeOK, TaskOperands
<1>2. task'[t] = [task[t] EXCEPT !.active = FALSE,
                         !.pc = IF task[t].pc = "finish" THEN "notify" ELSE "exit"]
  BY DEF EraseOwnEntry, TypeInv, TypeOK
<1>3. /\ task'[t].key = task[t].key /\ ~task'[t].active
      /\ task'[t].pc \in {"notify", "exit"} /\ task[t].pc # "none"
  BY <1>1, <1>2 DEF Tasks, InCallback
<1>4. \A u \in TimerIds : u # t => task'[u] = task[u]
  BY DEF EraseOwnEntry, TypeInv, TypeOK
<1>5. timers'[key] = 0 /\ \A k \in Keys : k # key => timers'[k] = timers[k]
  BY <1>1 DEF EraseOwnEntry, TypeInv, TypeOK
<1>6. ASSUME TaskInv, NEW u \in TimerIds, Running(u), u # t
      PROVE  task[u].key # key
  <2>1. CASE task[t].active
    BY <1>1, <1>6, <2>1, TimerIdBounds
    DEF TaskInv, RunningIsTracked, Inserting, Running, InCallback, OverrideState
  <2>2. CASE ~task[t].active
    BY <1>1, <1>6, <2>2 DEF TaskInv, SilencedAreAlone, Silenced
  <2> QED
    BY <2>1, <2>2
<1> HIDE DEF key
<1>7. \A u \in TimerIds :
          /\ task'[u].key = task[u].key
          /\ (task'[u].pc = "none" <=> task[u].pc = "none")
          /\ task'[u].active => task[u].active
          /\ Running(u)' => Running(u) /\ u # t /\ task[u].key \in Keys
          /\ Silenced(u)' => Silenced(u)
  BY <1>3, <1>4 DEF Running, Silenced, InCallback, TypeInv, TaskOperands
<1>8. \A k \in Keys : timers[k] # 0 => timers[k] \in TimerIds
  BY DEF TypeInv, TypeOK, TimerIds
<1>9. EntriesOwned' /\ UnusedTimers'
  BY <1>1, <1>5, <1>7, <1>8 DEF EntriesOwned, UnusedTimers
<1>10. OverrideState'
  <2>1. asio.at \in SendingPCs => asio.key \in Keys
    BY DEF TypeInv, HandlerOperands
  <2>2. asio.at \in {"stop", "erase", "insert"} => asio.id \in TimerIds
    BY DEF TypeInv, HandlerOperands, Clearing
  <2> QED
    BY <1>1, <1>5, <1>7, <2>1, <2>2 DEF OverrideState, SendingPCs
<1>11. SenderStays' /\ EntriesAreLive' /\ CloserKeys'
  BY <1>1 DEF SenderStays, EntriesAreLive, CloserKeys, connVars
<1>12. OldTasks
  BY <1>1, <1>7 DEF OldTasks, Inserting
<1>13. ASSUME TaskInv
       PROVE  TaskInv'
  <2> USE DEF TaskInv
  <2>1. RunningIsTracked'
    BY <1>1, <1>5, <1>6, <1>7, <1>13 DEF RunningIsTracked, Inserting
  <2>2. SilencedAreAlone' /\ CloserErases'
    BY <1>1, <1>7, <1>13 DEF SilencedAreAlone, CloserErases
  <2>3. ClearedAreAwaited'
    BY <1>1, <1>7, <1>13 DEF ClearedAreAwaited, Awaited, ConnectionsLive
  <2> QED
    BY <2>1, <2>2, <2>3
<1> QED
  BY <1>9, <1>10, <1>11, <1>12, <1>13

\* Every step of a timer thread.
LEMMA ThreadStepTasks ==
    ASSUME PlainInv, TypeInv, UNCHANGED <<connVars, sig>>, NEW t \in TimerIds, ThreadStep(t)
    PROVE  PlainInv' /\ OldTasks /\ (TaskInv => TaskInv')
<1>1. CASE Wake(t)
  BY <1>1, PlaceTasks DEF Wake
<1>2. CASE CheckTarget(t)
  BY <1>2, PlaceTasks DEF CheckTarget, InCallback
<1>3. CASE CallbackThrows(t)
  <2>1. Throws
    BY <1>3 DEF CallbackThrows, Throws
  <2> QED
    BY <2>1, ThrowsTasks
<1>4. CASE SendPulse(t)
  BY <1>4, PulseTasks
<1>5. CASE EraseOwnEntry(t)
  BY <1>5, EraseOwnTasks
<1>6. CASE NotifyDone(t)
  BY <1>6, PlaceTasks DEF NotifyDone
<1>7. CASE ThreadExit(t)
  BY <1>7, PlaceTasks DEF ThreadExit
<1> QED
  BY <1>1, <1>2, <1>3, <1>4, <1>5, <1>6, <1>7 DEF ThreadStep

-----------------------------------------------------------------------------
(* All steps but those of the signal thread.                               *)

LEMMA OthersTasks ==
    ASSUME SleepCoversCallback, PlainInv, TypeInv, OwnHandles, UNCHANGED sig,
           \/ IoServes \/ IoNetwork \/ HandlerMeetsNull \/ IoContinues
           \/ \E t \in TimerIds : WaveformStep(t)
           \/ HeartbeatDangles
    PROVE  PlainInv' /\ OldTasks /\ (TaskInv => TaskInv')
<1> USE DEF PlainInv
<1>0. ConnectionsLive' => ConnectionsLive
  BY DEF ConnectionsLive
<1>1. ASSUME NEW c \in Clients, OnOpen(c)
      PROVE  PlainInv' /\ OldTasks /\ (TaskInv => TaskInv')
  <2>1. /\ session[c] = "none" /\ session' = [session EXCEPT ![c] = "open"]
        /\ connections' = connections \cup {c} /\ hdlToId' = [hdlToId EXCEPT ![c] = c]
        /\ UNCHANGED <<timerVars, asio>>
    BY <1>1 DEF OnOpen, RegisterConn
  <2>2. \A d \in Clients : /\ session[d] \in Staying => session'[d] \in Staying
                           /\ session[d] \in Left => session'[d] \in Left
    BY <2>1 DEF Staying, Left, TypeInv, TypeOK
  <2>3. EntriesAreLive'
    BY <2>1 DEF EntriesAreLive, Staying, TypeInv, TypeOK
  <2> QED
    BY <1>0, <2>1, <2>2, <2>3, StillTasks
<1>2. ASSUME NEW c \in Clients, Network(c)
      PROVE  PlainInv' /\ OldTasks /\ (TaskInv => TaskInv')
  <2>1. UNCHANGED <<timerVars, asio, connVars>>
    BY <1>2 DEF Network
  <2>2. \A d \in Clients : /\ session[d] \in Staying => session'[d] \in Staying
                           /\ session[d] \in Left => session'[d] \in Left
    BY <1>2 DEF Network, PeerCloses, Drop, Release, Staying, Left, TypeInv, TypeOK
  <2>3. EntriesAreLive'
    BY <2>1, <2>2 DEF EntriesAreLive, Staying, connVars, TypeInv, TypeOK
  <2> QED
    BY <1>0, <2>1, <2>2, <2>3, StillTasks
<1>3. ASSUME NEW hdl, NEW clientId, NEW targetId, HandleBind(hdl, clientId, targetId)
      PROVE  PlainInv' /\ OldTasks /\ (TaskInv => TaskInv')
  <2>1. UNCHANGED <<timerVars, asio, session, connections, hdlToId>>
    BY <1>3 DEF HandleBind, Pair
  <2>2. EntriesAreLive'
    BY <2>1 DEF EntriesAreLive
  <2> QED
    BY <1>0, <2>1, <2>2, StillTasks
<1>4. CASE Throws
  BY <1>4, ThrowsTasks
<1>5. ASSUME ConnectionsLive, NEW c, OnRequest(c)
      PROVE  PlainInv' /\ OldTasks /\ (TaskInv => TaskInv')
  <2>1. ASSUME NEW i \in Clients, NEW j \in Clients, NEW channel \in Channels,
               NEW time \in Times, NEW readable \in FieldForms,
               HandleClientMessage(c, i, j, channel, time, readable)
        PROVE  PlainInv' /\ OldTasks /\ (TaskInv => TaskInv')
    <3>1. CASE Throws
      BY <3>1, <1>4
    <3>2. CASE SendMessage(<<i, channel>>, j, TotalSends(time), c)
               /\ UNCHANGED <<session, alive, connVars>>
      <4>1. IsPaired(i, j) /\ asio.at = "idle" /\ i \in Ids /\ j \in Ids
        BY <2>1 DEF HandleClientMessage, Accepted, Receives, Ids
      <4> QED
        BY <1>5, <3>2, <4>1, SendMessageTasks
    <3> QED
      BY <2>1, <3>1, <3>2 DEF HandleClientMessage
  <2> QED
    BY <1>3, <1>5, <2>1 DEF OnRequest
<1>6. CASE IoServes
  BY <1>1, <1>5, <1>6, OnCloseTasks DEF IoServes
<1>7. CASE IoContinues
  BY <1>4, <1>7, SendStepTasks, ClosingStepTasks DEF IoContinues
<1>8. CASE \E t \in TimerIds : WaveformStep(t)
  BY <1>4, <1>8, ThreadStepTasks DEF WaveformStep
<1> QED
  BY <1>2, <1>4, <1>6, <1>7, <1>8 DEF IoNetwork, HandlerMeetsNull, HeartbeatDangles

\* The other threads keep the invariant of the sweep.
LEMMA OthersKeepCleanup ==
    ASSUME SleepCoversCallback, SignalInv, CleanupInv, UNCHANGED sig,
           \/ IoServes \/ IoNetwork \/ HandlerMeetsNull \/ IoContinues
           \/ \E t \in TimerIds : WaveformStep(t)
           \/ HeartbeatDangles
    PROVE  CleanupInv'
<1>1. PlainInv' /\ OldTasks /\ (TaskInv => TaskInv')
  BY OthersTasks DEF SignalInv, CleanupInv
<1>2. (ConnectionsLive' <=> ConnectionsLive) /\ (TimersLive' <=> TimersLive)
  BY DEF ConnectionsLive, TimersLive
<1>3. sig.tracked \subseteq TimerIds
  BY DEF SignalInv, SignalThread
<1>4. SweepInv'
  BY <1>1, <1>2, <1>3, SweepKept DEF CleanupInv
<1> QED
  BY <1>1, <1>2, <1>4 DEF CleanupInv

-----------------------------------------------------------------------------
(* The signal thread.                                                      *)

\* clear() and what follows cleanupAll(): the tasks are left alone.
LEMMA WalkKeepsCleanup ==
    ASSUME SignalInv, CleanupInv, UNCHANGED <<timerVars, asio>>, EntriesAreLive',
           sig'.tracked = sig.tracked, sig'.key = sig.key, sig'.astray = sig.astray,
           sig'.at = "cleanup" => sig.at = "cleanup",
           ConnectionsLive' <=> ConnectionsLive, TimersLive' <=> TimersLive,
           \A c \in Clients : /\ session[c] \in Staying => session'[c] \in Staying
                              /\ session[c] \in Left => session'[c] \in Left
    PROVE  CleanupInv'
<1>1. PlainInv' /\ OldTasks /\ (TaskInv => TaskInv')
  BY StillTasks DEF SignalInv, CleanupInv
<1>2. SweepInv'
  BY <1>1, SweepKept DEF SignalInv, SignalThread, CleanupInv
<1> QED
  BY <1>1, <1>2 DEF CleanupInv

\* The signal arrives, and clear() visits, tells, unpairs, erases, closes and moves on.
LEMMA ClearKeepsCleanup ==
    ASSUME SignalInv, CleanupInv, UNCHANGED <<timerVars, asio>>,
           \/ \E signal \in Signals : SignalArrives(signal)
           \/ \E c \in Clients : ClearBegin(c) \/ ClearAdvance(c)
           \/ ClearVisit \/ ClearNotify \/ ClearUnpair \/ ClearErase \/ ClearClose
           \/ ClearDangles
    PROVE  CleanupInv'
<1> DEFINE Moves == /\ sig.at \in {"none"} \cup ClearPlaces
                    /\ sig'.at \in {"none"} \cup ClearPlaces
                    /\ sig'.tracked = sig.tracked /\ sig'.key = sig.key
                    /\ sig'.astray = sig.astray
<1>1. Moves
  <2>1. sig \in SignalThread
    BY DEF SignalInv
  <2>2. ASSUME NEW signal \in Signals, SignalArrives(signal)
        PROVE  Moves
    BY <2>1, <2>2 DEF SignalThread, SignalArrives, ClearPlaces
  <2>3. ASSUME NEW c \in Clients, ClearBegin(c) \/ ClearAdvance(c)
        PROVE  Moves
    BY <2>1, <2>3 DEF SignalThread, ClearBegin, ClearAdvance, SigVisits, ClearPlaces
  <2>4. ASSUME sig.at \in ClearPlaces, UNCHANGED sig
        PROVE  Moves
    BY <2>4
  <2>5. CASE ClearVisit \/ ClearUnpair
    BY <2>1, <2>5 DEF SignalThread, ClearVisit, ClearUnpair, SigFinds, SigGoes, ClearPlaces
  <2>6. CASE ClearNotify \/ ClearErase
    BY <2>1, <2>4, <2>6
    DEF SignalThread, ClearNotify, ClearErase, SigGoes, SigDangles, ClearPlaces
  <2>7. CASE ClearClose \/ ClearDangles
    BY <2>1, <2>4, <2>7
    DEF SignalThread, ClearClose, ClearDangles, SigReturns, SigDangles, ClearPlaces
  <2> QED
    BY <2>2, <2>3, <2>5, <2>6, <2>7
<1>2. (ConnectionsLive' <=> ConnectionsLive) /\ (TimersLive' <=> TimersLive)
  BY <1>1 DEF ConnectionsLive, TimersLive
<1>3. \/ UNCHANGED <<session, connections, hdlToId>>
      \/ /\ session' = [session EXCEPT ![sig.client] = IF @ = "open" THEN "closing" ELSE @]
         /\ hdlToId' = [hdlToId EXCEPT ![sig.client] = NoId]
         /\ connections' = connections \ {sig.client}
  BY DEF SignalArrives, ClearBegin, ClearAdvance, ClearVisit, ClearNotify, ClearUnpair,
         ClearErase, ClearClose, ClearDangles, SigLooks, SigDangles, connVars
<1>4. \A c \in Clients : /\ session[c] \in Staying => session'[c] \in Staying
                         /\ session[c] \in Left => session'[c] \in Left
  BY <1>3 DEF SignalInv, TypeInv, TypeOK, Staying, Left
<1>5. \A c \in connections' : c \in connections /\ c \in Clients /\ hdlToId'[c] = hdlToId[c]
  BY <1>3 DEF SignalInv, TypeInv, TypeOK
<1>6. EntriesAreLive'
  BY <1>4, <1>5 DEF CleanupInv, PlainInv, EntriesAreLive, Staying
<1> QED
  BY <1>1, <1>2, <1>4, <1>6, WalkKeepsCleanup DEF ClearPlaces

\* The end of clear(): what is tracked from now on has its entry.
LEMMA ClearEndKeepsCleanup ==
    ASSUME SignalInv, CleanupInv, UNCHANGED <<timerVars, asio>>, ClearEnd
    PROVE  CleanupInv'
<1> DEFINE ids == {timers[k] : k \in Keys} \ {0}
<1>1. /\ sig.at \in ClearPlaces /\ sig' = [sig EXCEPT !.at = "cleanup", !.tracked = ids]
      /\ UNCHANGED <<session, connVars>>
  BY DEF ClearEnd, ClearEnds, SigLooks, ClearPlaces
<1>2. /\ sig'.at = "cleanup" /\ sig'.tracked = ids /\ sig'.key = sig.key
      /\ ConnectionsLive /\ TimersLive /\ ~ConnectionsLive' /\ TimersLive'
  BY <1>1 DEF SignalInv, SignalThread, ConnectionsLive, TimersLive, ClearPlaces
<1>3. EntriesAreLive'
  BY <1>1 DEF CleanupInv, PlainInv, EntriesAreLive, connVars
<1>4. PlainInv' /\ TaskInv'
  BY <1>1, <1>2, <1>3, StillTasks DEF SignalInv, CleanupInv
<1>5. \A t \in ids : \E k \in Keys : timers[k] = t /\ t # 0 /\ task[t].key = k
  BY DEF CleanupInv, PlainInv, EntriesOwned
<1> HIDE DEF ids
<1>6. sig.key = NoKey
  BY <1>2 DEF CleanupInv, SweepInv, SweepToCome
<1>7. SweepToCome' /\ SweepStopsTracked'
  BY <1>2 DEF SweepToCome, SweepStopsTracked, TrackedAreStopped
<1>8. TrackedExist'
  BY <1>2, <1>5 DEF TrackedExist, SignalInv, TypeInv, EntriesExist, timerVars
<1>9. SweepReaches'
  <2>1. ASSUME NEW t \in ids
        PROVE  ~Inserting(t)
    BY <1>5, <2>1 DEF Inserting, CleanupInv, PlainInv, OverrideState
  <2> QED
    BY <1>2, <1>6, <2>1 DEF SweepReaches, Inserting, Passed
<1> QED
  BY <1>4, <1>7, <1>8, <1>9 DEF CleanupInv, SweepInv

\* cleanupAll() stops the task of one entry: nothing tracked runs on its key any more.
LEMMA CleanupStopKeeps ==
    ASSUME SignalInv, CleanupInv, NEW k \in Keys, CleanupStop(k),
           UNCHANGED <<connVars, asio>>
    PROVE  CleanupInv'
<1> USE DEF CleanupInv, PlainInv
<1>1. /\ sig.at = "cleanup" /\ timers[k] # 0 /\ ClearInterval(timers[k])
      /\ sig' = [sig EXCEPT !.key = k, !.entry = timers[k],
                            !.astray = sig.astray \/ TimerFreed]
      /\ UNCHANGED <<session, timers, counter>>
  BY DEF CleanupStop, Reached, Following
<1>2. /\ sig'.at = "cleanup" /\ sig'.tracked = sig.tracked /\ sig'.key = k
      /\ sig'.astray = (sig.astray \/ TimerFreed) /\ sig.tracked \subseteq TimerIds
      /\ ~ConnectionsLive /\ ~ConnectionsLive' /\ TimersLive /\ TimersLive'
  BY <1>1 DEF SignalInv, SignalThread, ConnectionsLive, TimersLive, ClearPlaces
<1>3. timers[k] \in TimerIds /\ task[timers[k]].key = k
  BY <1>1 DEF SignalInv, TypeInv, TypeOK, TimerIds, EntriesOwned
<1>4. \A t \in TimerIds : Inserting(t) => task[t].key # k
  BY <1>1 DEF Inserting, OverrideState
<1>5. /\ EntriesOwned' /\ UnusedTimers'
      /\ \A t \in TimerIds :
            /\ task'[t].pc = task[t].pc /\ task'[t].key = task[t].key
            /\ task'[t].active => task[t].active
            /\ Silenced(t)' => Silenced(t) \/ task[t].key = k
      /\ RunningIsTracked =>
            \A t \in TimerIds : Running(t)' =>
                task[t].key # k /\ (Inserting(t) \/ timers[task[t].key] = t)
      /\ RunningIsTracked /\ SilencedAreAlone => SilencedAreAlone'
  BY <1>1, <1>3, <1>4, ClearedTasks DEF SignalInv
<1>6. TaskInv
  BY <1>2
<1>7. OverrideState'
  <2>1. asio.at \in {"stop", "erase", "insert"} => asio.id \in TimerIds
    BY DEF SignalInv, TypeInv, HandlerOperands, Clearing
  <2> QED
    BY <1>1, <1>5, <2>1 DEF OverrideState
<1>8. SenderStays' /\ EntriesAreLive' /\ CloserKeys'
  BY <1>1 DEF SenderStays, EntriesAreLive, CloserKeys, connVars
<1>9. RunningIsTracked' /\ SilencedAreAlone'
  BY <1>1, <1>5, <1>6 DEF TaskInv, RunningIsTracked, Inserting
<1>10. Awaited(k)'
  BY <1>1, <1>2 DEF Awaited, OverrideState, SendingPCs
<1>11. \A t \in TimerIds : Silenced(t) => Awaited(task[t].key)
  BY <1>6 DEF TaskInv, ClearedAreAwaited
<1>12. ClearedAreAwaited'
  <2> SUFFICES ASSUME NEW t \in TimerIds, Silenced(t)'
               PROVE  Awaited(task[t].key)'
    BY DEF ClearedAreAwaited
  <2>1. task'[t].key = task[t].key
    BY <1>5
  <2>2. CASE task[t].key = k
    BY <1>10, <2>1, <2>2 DEF Awaited
  <2>3. CASE Silenced(t)
    BY <1>1, <1>2, <1>11, <2>1, <2>3 DEF Awaited
  <2> QED
    BY <1>5, <2>2, <2>3
<1>13. CloserErases'
  BY <1>5, <1>6 DEF TaskInv, CloserErases, Running
<1>14. SweepToCome' /\ SweepStopsTracked'
  BY <1>2 DEF SweepToCome, SweepStopsTracked, TrackedAreStopped
<1>15. TrackedExist'
  BY <1>2, <1>5 DEF SweepInv, TrackedExist
<1>16. SweepReaches'
  <2> SUFFICES ASSUME ~sig'.astray, NEW t \in sig.tracked, Running(t)'
               PROVE  ~Inserting(t)' /\ ~Passed(task[t].key)'
    BY <1>2 DEF SweepReaches
  <2>1. ~sig.astray /\ ~TimerFreed
    BY <1>2
  <2>2. /\ Running(t) /\ task'[t].key = task[t].key /\ task[t].key \in Keys
        /\ task[t].key # k
    BY <1>2, <1>5, <1>6 DEF TaskInv, Running, SignalInv, TypeInv, TaskOperands
  <2>3. ~Inserting(t) /\ ~Passed(task[t].key)
    BY <1>1, <2>1, <2>2 DEF SweepInv, SweepReaches
  <2>4. timers[task[t].key] = t /\ t # 0
    BY <1>2, <1>6, <2>2, <2>3, TimerIdBounds DEF TaskInv, RunningIsTracked
  <2>5. sig.key = NoKey \/ (sig.key \in Keys /\ Rank[task[t].key] > Rank[sig.key])
    BY <2>2, <2>3 DEF Passed, SignalInv, SignalThread
  <2>6. task[t].key \in Following
    BY <2>2, <2>4, <2>5 DEF Following
  <2>7. Rank[k] <= Rank[task[t].key]
    BY <2>1, <2>6 DEF CleanupStop, Reached
  <2>8. Rank[k] \in Nat /\ Rank[task[t].key] \in Nat /\ Rank[k] # Rank[task[t].key]
    BY <2>2
  <2>9. ~(Rank[task[t].key] <= Rank[k])
    BY <2>7, <2>8
  <2> QED
    BY <1>1, <1>2, <2>2, <2>3, <2>9 DEF Passed, Inserting
<1> QED
  BY <1>5, <1>7, <1>8, <1>9, <1>12, <1>13, <1>14, <1>15, <1>16 DEF SweepInv, TaskInv

\* The end of cleanupAll(): no entry is ahead, and so no tracked task runs,
\* unless the iterator has gone astray.
LEMMA CleanupEndKeeps ==
    ASSUME SignalInv, CleanupInv, CleanupEnd, UNCHANGED <<connVars, asio>>
    PROVE  CleanupInv'
<1> USE DEF CleanupInv, PlainInv
<1>1. /\ sig.at = "cleanup"
      /\ sig' = [sig EXCEPT !.at = "stop", !.astray = sig.astray \/ TimerFreed]
      /\ timers' = [k \in Keys |-> 0] /\ UNCHANGED <<session, task, counter>>
      /\ TimerFreed \/ Following = {}
  BY DEF CleanupEnd
<1>2. /\ sig'.at = "stop" /\ sig'.tracked = sig.tracked /\ sig.tracked \subseteq TimerIds
      /\ sig'.astray = (sig.astray \/ TimerFreed)
      /\ ~ConnectionsLive' /\ TimersLive /\ ~TimersLive'
  BY <1>1 DEF SignalInv, SignalThread, ConnectionsLive, TimersLive, ClearPlaces
<1>3. EntriesOwned' /\ UnusedTimers'
  BY <1>1 DEF EntriesOwned, UnusedTimers
<1>4. OverrideState'
  <2>1. asio.at \in SendingPCs => asio.key \in Keys
    BY DEF SignalInv, TypeInv, HandlerOperands
  <2> QED
    BY <1>1, <2>1 DEF OverrideState, SendingPCs
<1>5. SenderStays' /\ EntriesAreLive' /\ CloserKeys'
  BY <1>1 DEF SenderStays, EntriesAreLive, CloserKeys, connVars
<1>6. ASSUME ~sig'.astray, NEW t \in sig.tracked, Running(t)
      PROVE  FALSE
  <2>1. ~sig.astray /\ Following = {}
    BY <1>1, <1>2, <1>6
  <2>2. ~Inserting(t) /\ ~Passed(task[t].key)
    BY <1>1, <1>6, <2>1 DEF SweepInv, SweepReaches
  <2>3. task[t].key \in Keys /\ timers[task[t].key] = t /\ t # 0
    BY <1>2, <1>6, <2>2, TimerIdBounds
    DEF TaskInv, RunningIsTracked, SignalInv, TypeInv, TaskOperands, Running
  <2>4. sig.key = NoKey \/ (sig.key \in Keys /\ Rank[task[t].key] > Rank[sig.key])
    BY <2>2, <2>3 DEF Passed, SignalInv, SignalThread
  <2> QED
    BY <2>1, <2>3, <2>4 DEF Following
<1>7. SweepStopsTracked'
  BY <1>1, <1>2, <1>6 DEF SweepStopsTracked, TrackedAreStopped, Running
<1>8. SweepToCome' /\ TrackedExist' /\ SweepReaches'
  BY <1>1, <1>2 DEF SweepToCome, SweepInv, TrackedExist, SweepReaches
<1> QED
  BY <1>2, <1>3, <1>4, <1>5, <1>7, <1>8 DEF SweepInv

\* The server is stopped, and main returns: no manager is left to be freed.
LEMMA StopKeepsCleanup ==
    ASSUME SignalInv, CleanupInv, UNCHANGED <<session, connVars, timerVars, asio>>,
           \/ sig.at = "stop" /\ sig' = [sig EXCEPT !.at = "done"]
           \/ sig.at = "done" /\ sig' = [sig EXCEPT !.at = "exited"]
           \/ UNCHANGED sig
    PROVE  CleanupInv'
<1>1. EntriesAreLive'
  BY DEF CleanupInv, PlainInv, EntriesAreLive, connVars
<1>2. CASE UNCHANGED sig
  BY <1>1, <1>2, WalkKeepsCleanup DEF ConnectionsLive, TimersLive
<1>3. CASE ~UNCHANGED sig
  <2>1. /\ sig.at \in {"stop", "done"} /\ sig'.at \in {"done", "exited"}
        /\ sig'.tracked = sig.tracked /\ sig'.key = sig.key /\ sig'.astray = sig.astray
    BY <1>3 DEF SignalInv, SignalThread
  <2> QED
    BY <1>1, <2>1, WalkKeepsCleanup DEF ConnectionsLive, TimersLive, ClearPlaces
<1> QED
  BY <1>2, <1>3

-----------------------------------------------------------------------------
(* The theorem.                                                            *)

\* Every step of every thread keeps the invariant.
LEMMA CleanupStep ==
    ASSUME SleepCoversCallback, SignalInv, CleanupInv, [ShutdownNext]_shutdownVars
    PROVE  CleanupInv'
<1>1. CASE SignalConnections
  BY <1>1, ClearKeepsCleanup, ClearEndKeepsCleanup DEF SignalConnections
<1>2. CASE SignalTimers
  <2>1. CASE StopServer
    BY <1>2, <2>1, StopKeepsCleanup DEF SignalTimers, StopServer
  <2>2. CASE CleanupDangles
    BY <1>2, <2>2, StopKeepsCleanup DEF SignalTimers, CleanupDangles
  <2> QED
    BY <1>2, <2>1, <2>2, CleanupStopKeeps, CleanupEndKeeps DEF SignalTimers
<1>3. CASE MainReturns
  BY <1>3, StopKeepsCleanup DEF MainReturns, Throws
<1>4. CASE \/ (IoServes \/ IoNetwork \/ HandlerMeetsNull \/ IoContinues) /\ UNCHANGED sig
           \/ (\E t \in TimerIds : WaveformStep(t)) /\ UNCHANGED sig
           \/ HeartbeatDangles /\ UNCHANGED sig
  BY <1>4, OthersKeepCleanup
<1>5. CASE UNCHANGED shutdownVars
  BY <1>5, StopKeepsCleanup DEF shutdownVars, vars
<1> QED
  BY <1>1, <1>2, <1>3, <1>4, <1>5 DEF ShutdownNext, SignalStep

\* The inductive invariant holds in every behaviour.
LEMMA CleanupInvariant == ASSUME SleepCoversCallback PROVE ShutdownSpec => []CleanupInv
<1>1. SignalInv /\ CleanupInv /\ [ShutdownNext]_shutdownVars => CleanupInv'
  BY CleanupStep
<1> QED
  BY <1>1, InitCleanup, SignalInvariant, PTL DEF ShutdownSpec

\* Every waveform that was in timers when cleanupAll() began is stopped when the timer
\* manager is freed, although overrides, on_close and the waveforms' own threads erase,
\* replace and insert entries during its walk, unless one of them erases the very entry
\* that its iterator is at.
THEOREM SweepComplete == ASSUME SleepCoversCallback PROVE ShutdownSpec => []SweepStopsTracked
<1>1. CleanupInv => SweepStopsTracked
  BY DEF CleanupInv, SweepInv
<1> QED
  BY <1>1, CleanupInvariant, PTL

=============================================================================
