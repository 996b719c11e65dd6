# DG-LAB relay server: TLA+ models

The server pairs a web page with a phone app over websockets, relays strength
commands and messages between them, and repeats waveform messages on a timer.
This directory models its connection manager, message router, timer manager,
server callbacks, heartbeat, shutdown and configuration, checks them with TLC on
small instances, and proves every safety property of the passing runs with TLAPS.

## 1. Inventory

Threads: one *io thread* inside `m_server.run()` runs `on_open`, `on_close` and
`on_message` one at a time; one detached thread per running waveform and one for
the heartbeat (`JSTimer`); on a signal, a thread that runs `gracefulShutdown`.

| Part | State | Operations | Interacts with |
|---|---|---|---|
| Endpoint (websocketpp) | session state of each connection, life of the object behind each weak handle | send, close, `get_con_from_hdl` (throws on an expired handle) | calls the handlers of `Server` |
| `ConnectionManager` (`connect.cpp`) | `connections`, `hdlToId`, `pairings`, `reversePairings`; `mtx` guards writes only | registerConn, pair, unpair, disconnect, getPair, isPaired, getClientId, updateHeartbeat, forEachClient, clear | io thread, heartbeat thread, shutdown |
| `MessageRouter` (`message.cpp`) | none | validate, validateSource, handleBind, handleStrengthAdjust, handleCustomStrength, forwardMessage, handleClientMessage | connection manager, timer manager, `conf.ini` |
| `TimerManager` (`timer.cpp`) | `timers`, without a lock | sendMessage, _startSending, clearTimer, clearClientTimers, callback, cleanupAll | io thread, timer threads |
| `JSTimer` (`JSTimer.hpp`) | `global_counter`, `timer_map`, per object `active` and the thread | setInterval, clearInterval, generateId | starts threads that call back |
| `Server` (`server.cpp`) | the three managers, the heartbeat's id | on_open, on_close, on_message, sendHeartbeats, gracefulShutdown | everything |
| Configuration (`tool.hpp`, `main.cpp`, `conf.ini`) | none | readConfig, getUUID, main, signalHandler | read at start and for every waveform |

Hard parts: the timer threads share `timers` and `timer_map` with the io thread;
an override sleeps on the io thread and trusts that its predecessor is quiet
afterwards; handles expire under the threads that captured them; a pairing is two
map entries that must be made and dissolved together, from either end; a walk over a
map goes on while another thread, or the walk's own callee, erases the node that it
is at; any exception that leaves a handler or a thread ends the process.

What makes the parts correct: the pairing maps behave like one set of disjoint
pairs of connected clients; a message stays in its pair; partners hear of each
other's coming and going; a running waveform is the one its key names, alone on
its channel, and ends; what may end the process is known. `PROJECT.json` lists every
hazard at its line with the properties aimed at it.

## 2. Plan

The models were written in the order of what the server is for:

1. pairing and messages: `Endpoint`, `ConnectionManager`, `PairRegistry`,
   `MessageRouter`, `Server`;
2. the waveform tasks and their threads: `TimerManager`, composed in `Server`;
3. the heartbeat thread against the io thread: `Heartbeat`;
4. shutdown against every other thread: `Shutdown`, which composes with `Server`;
5. the numbers of `conf.ini` and of a request: `Config`.

The proofs are in modules of their own. What could still be added: `clearClientTimers`'
iteration cut at each entry (section 6), and `on_close` of the io thread cut within
`disconnect` in `Shutdown`.

## 3. Modules

* **Endpoint** (external). A client is one connection incarnation: `on_open`
  draws a fresh UUID per connection, so handle and id are one value of `Clients`,
  and a reconnecting browser is another client. `session` follows a connection
  through `none, open, closing, closed` (on_close due), `detached` (on_close has
  returned, the object is still referenced) and `released` (the handle expired).
  `out` is the set of frames sent by the last step; `Deliver` sends when the
  session is open, which is what `_safeSend` and every guarded or caught `send`
  amount to. `alive` becomes FALSE when the process ends.
* **ConnectionManager**. The four maps; a missing entry is `NoId`. One operator per
  method. Of the fields of `ClientInfo`, `lastHeartbeat` appears in `Heartbeat` as the
  set `fresh`; `type` and `isAlive` are left out: no modelled handler reads them.
* **PairRegistry**. The abstract promise: clients join, leave, and two unbonded
  clients are bonded; a leaver takes its bond along in the same step.
* **WaveformRegistry**. The abstract promise for waveforms, on top of `PairRegistry`: one
  starts on a free channel of a client and for its partner, it may stop at any moment, and
  nobody leaves before its own waveforms have stopped.
* **TimerManager**. `timers` maps client-channel keys to timer ids (0: no entry).
  `task[t]` is timer t's JSTimer object, thread and TimerInfo together: `pc` is the
  thread's place in the loop and callback, `active` the flag, `remaining` the
  callback's own countdown. `asio` is the io thread's place in `sendMessage` or in
  the clearing part of `on_close`. An operation is cut at each access to `timers`,
  `timer_map` or `active`: `SendMessage` (find), `OverrideEntry` (at),
  `ClearTimerFind`, `ClearTimerCopy`, `ClearTimerStop`, `ClearTimerErase`,
  `StartSingle` or `StartRepeating`, `InsertEntry`; `CloseStop`, `CloseErase`; and for
  a thread `Wake`, `CheckTarget`, `SendPulse`, `EraseOwnEntry`, `NotifyDone`,
  `ThreadExit`, with `CallbackThrows` for the expired handle. `EntryVanished` is the
  throwing `at` of an entry erased since it was found.
* **MessageRouter**. One action per outcome of `on_message` that differs in control.
  A message is its named ids and, where read, channel, time and whether its numbers
  are numbers; texts are classes of payload. `Malformed` names the messages that
  `on_message` cannot take apart: a root that is no object (`RootThrows`: `isMember`
  throws outside the `try` of `validate`), an id that is an object or an array
  (`IdThrows`, before the sender is looked at), and any other such field (`FieldThrows`).
  Any client can send one, paired or not, and it ends the process. The unassigned
  `result.success` of `message.cpp:132` is a free Boolean.
* **Server**. Composition, `on_open`, `on_close`, the dispatch, the network, fairness,
  and the properties of pairing and waveforms. A handler without a waveform is one step
  here; the two following modules cut the connection manager's handlers where another
  thread can look.
* **Heartbeat**. `beat` is the heartbeat thread's place in `sendHeartbeats`: `getStats`
  under the mutex, then `forEachClient` without it, and in each visit the test of the
  session (outside the `try`), `getPair`'s find, at and copy (called twice), the send, and
  `updateHeartbeat` with its own lock. `io` is the io thread's place in `registerConn`,
  `pair` or `disconnect`; taking `mtx` and the critical section are two steps. `fresh`
  and `due` are the clients reached in a round and those it owes a visit. Ids are
  numbers, because `std::map` visits its keys in order. A step of the iterator from a
  freed node (`WalkFromFreed`) arrives at any client, at another freed node or at the end,
  and the round is `astray` from then on; `Dangles` is the other outcome of using a freed
  node, of a client or of the pairing that `getPair` copies.
* **Shutdown**. `sig` is the place of the thread that the signal runs on. `clear()` and the
  `disconnect` that it calls are cut at each access of a map that the io thread may write:
  the finds of `getPair` (`ClearVisit`), the partner's connection and the break frame
  (`ClearNotify`), the unlocked finds of `unpair` (`ClearUnpair`), its locked erases
  (`ClearErase`), the locked erases of `disconnect` (`ClearClose`). The node at the
  iterator is then freed, so the walk may go on anywhere, end, or end the process
  (`ClearAdvance`, `ClearEnd`, `ClearDangles`): some clients may never be closed. Then
  `cleanupAll` entry by entry in the order of the keys (`Rank`), where a step from an entry
  that another thread has erased may likewise go anywhere (`astray`); `stop`; and the
  return of `main`. The io thread and the waveform threads
  take their steps of `Server`; after `delete` they meet a null pointer
  (`HandlerMeetsNull`) or freed memory, which has its old content or ends the process.
  Of the well-formed messages only binds and waveform requests are kept, the ones that
  change state. A heartbeat round that was under way is one outcome, `HeartbeatDangles`.
* **Config**. `main` is the process between its start and its end, `conf` the file, which
  each reader parses anew and anybody may edit; `wave` the countdown and the timer of one
  waveform, from the product of frequency and time at the width of an int to the deletion
  of the timer's thread object. An overflow wraps, as the usual compilers do it. A callback
  may come before `setInterval` has detached its thread, and the last one then ends the
  process: nothing in the code excludes it.
* **MCServer, MCHeartbeat, MCShutdown, MCConfig**. The instances.
* **Server_proofs, Waveform_proofs, Heartbeat_proofs, Shutdown_proofs, Cleanup_proofs,
  Config_proofs**. The theorems; `Cleanup_proofs` is the part of `Shutdown` about waveforms.

The definitions marked *Mutant* are wrong versions of the definition after them;
each is named in `PROJECT.json` with the property that it breaks.

## 4. Runs

Deadlock is not checked in any run: behaviours end when every client has left or the
process has ended. In `Heartbeats`, where a lock could block a thread for ever, the
liveness properties take its place.

| Run | Result | Shows |
|---|---|---|
| Pairing | holds | With clients that keep to their roles and send well-formed messages nobody has two partners, the maps implement `PairRegistry`, partners are told of every change in the step that makes it, relayed messages stay in the pair, nothing throws. |
| AnyRoles | holds | With arbitrary bind requests (self-pairing, chains) the two maps are still inverse and registration is still exact. |
| Waveforms | holds | Assuming the sleep covers callbacks, a running waveform is tracked by its key, alone on its channel and free of its predecessor's callbacks; it never outlives its own client, and outlives its pairing only when its target has left; the running waveforms implement `WaveformRegistry`; and what ends the process is a waveform whose target or sender is gone, or whose entry vanished under an override. |
| Liveness | holds | A lost connection is deregistered, a waveform thread ends, or the process died. |
| Heartbeats | holds | A round ends, every handler ends, a round that never steps from a freed node reaches every client that stays, the statistics do not wrap, of what these two threads do only the use of a freed node can end the process, and the maps implement `PairRegistry` although `disconnect` is cut in two. |
| Shutdown | holds | While `clear()` and `on_close` erase the same clients, the two maps of clients agree and hold no expired handle; and the process ends. |
| Sweep | holds | `cleanupAll` stops every waveform that was tracked when it began, whatever ends and is replaced beside its iterator, unless the very entry at the iterator is erased. |
| Config | holds | The sleeps that a waveform asks for fit the time it was requested for, it sends the pulses asked for, and ends; a port is sixteen bits. |
| TargetLeaves | violated | The timer thread's test for a lost target throws (`timer.cpp:110`). |
| LateCallback | violated | Without the assumption on the sleep, two waveforms run on one channel (`timer.cpp:20`). |
| UnlockedTimerMap | violated | `timer_map` is read without its mutex while a thread erases from it (`JSTimer.hpp:16`). |
| RenewedPairing | violated | On the signal thread `unpair` erases half of a pairing that the io thread has renewed since it looked (`connect.cpp:138`): the maps are not inverse any more. |

Three more departures are in the models, as what the runs leave room for: with arbitrary
roles `pair` accepts a client that has a partner in its other role, or itself
(`connect.cpp:75`; `OnePartner` is only claimed in Pairing); `clear()` may leave connected
clients open (`connect.cpp:325`), and `cleanupAll` miss a waveform (`timer.cpp:279`), since
both step on from freed nodes.

Bounds, and why they suffice:

* `Clients`: two web pages and two apps for pairing, so that a refusal, a re-pairing
  after a break and a bystander all occur; three for arbitrary roles, enough for a
  chain and for a self-pairing beside another client; one web page and two apps for
  waveforms, so that the target of an override differs from its predecessor's. For the
  heartbeat, web pages 1 and 3 and app 2: a partner stands before or behind in the walk,
  and a third client joins or leaves under it. For shutdown one pair: the clients under
  `clear()` are the two ends, each of which may also be in `on_close`; RenewedPairing has
  a second app, which the renewed pairing needs.
* `MaxTimers`: tasks started in a behaviour. 2 gives one override with both tasks
  alive; 3 is needed in LateCallback (the victim, the override, the intruder); 1 in
  Shutdown, whose question is the clients and one waveform against the end of their
  managers. Sweep begins with two waveforms under way on two channels (`WavingSpec`, from a
  state that `ShutdownSpec` reaches) and has a third to start: each of the two may end, be
  overridden, or be replaced before, at or behind the iterator. Nobody binds there, and
  connections are lost only as `clear()` closes them.
* `Times`, `Frequency`, `DefaultDuration`: one pulse (no thread) or two (a thread that
  sends one more), so that a task may end at every point of an override.
* `Leavers`: the clients whose connection may be lost. In Liveness only the web page
  leaves, as the owner of its waveforms and as the target of the app's.
* Config: `MaxInt` 1023 makes an int of eleven bits, so that 2 * 512 overflows into the
  smallest int (one less is the largest) and 2 * 1001 into a small negative number; the
  frequencies -1, 0, 3, 512 and 1001 have a negative, an undefined, two rounded and a zero
  period; a port of -1 does
  not fit sixteen bits; every value may also be a text that is no number.
* `VIEW WithoutOut` in Waveforms, LateCallback and Sweep joins states that differ in the
  frames of the last step; the properties there do not read them.
* Symmetry over web pages and over apps is used in runs of `MCServer` without liveness.

What is assumed about the program's surroundings, by name:

* `SleepCoversCallback`: a callback that was running when its task was cleared has ended
  before the 150 ms sleep of the override does. Waveforms and Sweep hold under it,
  LateCallback shows what it buys.
* `WellFormed`: no message is malformed and every number is one. Where it is not assumed
  (AnyRoles, Liveness), any client can end the process.
* In Heartbeat and Shutdown, a find, a step of an iterator or a change of a map is one
  whole step while the nodes it starts from are in the map. A freed node has its old
  content or its use ends the process. A step from a freed node arrives somewhere; in
  Shutdown it does not go round for ever, which `ShutdownEnds` needs, and in Heartbeat
  `RoundsEnd` says nothing of a round that went astray.
* `ScheduleFitsTime` counts a sleep as what `sleep_for` was asked for. What it sleeps
  longer, and the time of the callbacks, make a waveform last longer by the clock; nothing
  in the code bounds it.

Fairness, which the liveness properties need:

* Liveness: weak fairness of the io thread's steps inside a handler and of every timer
  thread, since the operating system schedules them; strong fairness of `on_close` for
  each client, since a stream of messages keeps making the io thread busy while asio
  serves its ready handlers in the order in which they became ready. No fairness for what
  clients send or for the network.
* Heartbeats: weak fairness of both threads' steps, and strong fairness of taking the
  mutex: each thread holds it for a few instructions only and the heartbeat sleeps for
  seconds between rounds.
* Shutdown: weak fairness of the signal thread once the signal came, of the handler under
  way, of `main`'s return and of each waveform thread. Whether a signal comes is free.
* Config: weak fairness of the timer's thread and of the io thread inside `setInterval`.

## 5. Proofs

All for every value of the constants, from the constants' own assumptions
(`EndpointAssumption`, `TimerAssumption`, `RouterAssumption`, `HeartbeatAssumption`,
`ShutdownAssumption`, `ConfigAssumption`: what kind of value each is) and what the second
column adds.

| Theorem | Adds | Property |
|---|---|---|
| `TypeCorrect`, `Registered`, `MapsInverse` | | `TypeOK`, `RegisteredWhileConnected`, `PairingsInverse` |
| `SinglePartner`, `PairsStayConnected`, `RegistryImplemented`, `RelayConfined` | `RolesDisjoint` | `OnePartner`, `PairedAreConnected`, `ImplementsRegistry`, `RelayStaysInPair` |
| `WaveformsEndProcess` | `RolesDisjoint`, `WellFormed` | `OnlyWaveformsEndProcess` |
| `PartnersInformed` | `RolesDisjoint`, `AppsAsk` | `PartnerChangesAnnounced` |
| `NeverThrows` | `RolesDisjoint`, `Quiet` | `NeverTerminates` |
| `RunningTracked`, `OnePerChannel`, `PredecessorSilent`, `RunningServes` | `SleepCoversCallback` | `RunningIsTracked`, `OneRunningPerChannel`, `PredecessorIsSilent`, `RunningServesPair` |
| `WaveformsImplemented` | `RolesDisjoint`, `SleepCoversCallback` | `ImplementsWaveforms` |
| `HeartbeatTypeCorrect`, `RoundReaches`, `OnlyFreedKills`, `HeartbeatRegistry` | `RolesDisjoint` | `HeartbeatTypeOK`, `RoundReachesAll`, `OnlyFreedNodeKills`, `ImplementsRegistry` (of `Heartbeat`) |
| `StatsNotNegative` | `RolesDisjoint`, `Clients` finite | `StatsAddUp` |
| `ShutdownTypeCorrect`, `LiveEntries` | | `ShutdownTypeOK`, `EntriesAreLive` |
| `SweepComplete` | `SleepCoversCallback` | `SweepStopsTracked` |
| `ConfigTypeCorrect`, `ScheduleKept`, `PulsesCounted` | | `ConfigTypeOK`, `ScheduleFitsTime`, `PulsesAsAsked` |

`RolesDisjoint`: no client is named as a web page in one bind request and as an app in
another. It is needed, because `pair` looks at one map for each side.
`AppsAsk`: the app's own connection asks for the pairing, as the app does; otherwise
`handleBind` tells the sender only (`message.cpp:102`). `WellFormed`: see section 4.
`Quiet`: no waveform requests, and `WellFormed`; TargetLeaves shows that the first is needed.

**Pairing** (`Server_proofs`). `TypeInv` strengthens `TypeOK`: a handler under way has
its operands, a task that exists has its own, an entry of `timers` names a task that
exists, and an on_close under way is for a session in `closed`; without them `timers.at`
or the next frame would have no type. `ConnectionSteps` reduces `Next` to the four kinds
of step that touch a session or a connection map. On it rest `RegisteredWhileConnected`
(which makes `disconnect` find its client), `PairingsInverse`, and then `PairsBound`:
every pairing was asked for in these roles and has both ends connected. `PairsBound` and
`RolesDisjoint` give `OnePartner` (what `pair` tests excludes a second partner in the
same role, the roles exclude one in the other), and that makes the end of on_close dissolve
everything the client was part of, which is the step of the registry and the change that
the break frame tells. Without channels no task exists, so the lookup in `disconnect` is
the only thing left that could throw, and `PairedAreConnected` makes it succeed.
`WaveformsEndProcess` goes through every step that may throw (`FatalStep`): a well-formed
message does not, `disconnect` finds its partner (`PairedAreConnected`), so what is left is
an expired handle of a waveform's target or sender (`Orphaned`), or an entry that was erased
between the find and the at of an override. `NeverThrows` is the case without channels.

**Waveforms** (`Waveform_proofs`). `RunningIsTracked` is not inductive: whether a callback
of a cleared task may erase its successor's entry depends on where the io thread is.
`WaveInv` adds that entries own their task and unused timers have none; that each place of
`sendMessage` still knows what it replaces (`OverrideState`), and that its pair lasts
(`SenderPaired`, since only the io thread dissolves pairs); that a cleared task whose
callback still runs is waited for (`SilencedAreAwaited`): the io thread is between the
clear and the sleep, or the client is leaving; hence nothing runs on its channel
(`SilencedAreAlone`); that on_close's snapshot of keys covers what still runs for its
client (`CloserStops`); and whom a running task serves (`RunnersServe`). It needs
`ConnInv` of the pairing proofs and no assumption on roles.

`WaveformsImplemented` maps a state to the set of what its running tasks send
(`wavesBar`). A step of a handler or of a thread clears one flag, starts one task or leaves
the set alone; the clear that an override or on_close makes is `Stop`, the erase of the
entry and the end of the thread are stutters. `StartRepeating` is `Start`, because
`SilencedAreAlone` and `RunningIsTracked` leave its channel free and `SenderPaired` bonds
its clients; the end of on_close is `Leave`, because `CloserStops` has stopped what the
client sent. The roles are needed as for the registry of pairs.

**Heartbeat** (`Heartbeat_proofs`). `BeatInv` adds to the type invariant that pairings were
asked for between connected clients (`PairsBound`), that a connected client's handle has
not expired (`ConnectedLive`), that what a handler found before it waited for the mutex
still holds when it gets it, because only the io thread writes (`IoOperands`), and that
each client owed a visit has had it, is ahead of the iterator, or is being visited and is
then found in the map it was seen in, as long as the round is not astray (`Reaching`). The
roles matter in `disconnect`: after `unpair` the client must have no pairing left. `HeartbeatRegistry` takes the same operands:
a client has left the registry when its handler is at the second section of `disconnect`,
so `unpair` is its `Leave`, or the test that finds no partner is; the erase after it is a
stutter. `StatsNotNegative` counts: the web and the
app ends of all pairings are disjoint sets of connected clients of the same size.

**Shutdown** (`Shutdown_proofs`). A step of another thread is a step of `Server` or ends
the process, so the lemmas on `TypeInv` apply. Little survives two threads that disconnect:
`OwnHandles` (a handle's entry is its own id or missing, so that `on_close` never takes
another client's entry away) makes `EntriesAreLive` inductive. Registration is not exact any
more, and the pairing maps are not inverse (RenewedPairing).

**cleanupAll** (`Cleanup_proofs`). `SweepStopsTracked` is about a walk whose entries are
erased and replaced under it. `SweepReaches` says why it is enough: as long as the iterator
has not been stepped on from an erased entry, a tracked task that runs has its entry, at a
key that the iterator has not passed in the order of the keys (`Passed`); so when nothing
follows the iterator none runs. `ShutdownAssumption` makes `Rank` a strict order; which one
does not matter.
It rests on the invariant of the waveforms, which cannot be taken from `Waveform_proofs`:
under a shutdown nobody's registration or pairing can be relied on, cleanupAll() clears
tasks too, and once the manager is freed entries mean nothing. `CleanupInv` splits it:
`PlainInv` (entries own their task, what `sendMessage` and on_close know of their operands,
`EntriesAreLive`) holds throughout; `TaskInv` (`RunningIsTracked`, `SilencedAreAlone`, and
why a cleared task whose callback still runs cannot meet a successor, `Awaited`) holds until
the manager is freed. In `Awaited` the fourth case is new: cleanupAll() may clear the task of
any key but one that an override is about to start anew. After the end only `OldTasks`
matters: a task once stopped is never started again, because timers get fresh numbers.

**Config** (`Config_proofs`). `ConfigInv` strengthens the properties over a running timer:
what is sent and what is left add up to `frequency * time` when that fits an int
(`CountAddsUp`), the sleeps asked for and the periods still to come fit the time asked for
(`TimeRemains`), the period belongs to the frequency (`PeriodKept`), and a timer runs only
in a process that serves or has died under it (`RunsWhileServing`). The lemmas under it are
about truncated division and wrapping at any width.

Only model-checked: the liveness properties (`ClosedIsDeregistered`, `TasksEnd`,
`RoundsEnd`, `HandlersEnd`, `ShutdownEnds`, `WaveformsEnd`), which are out of the prover's
reach.

## 6. Not modelled

* `cleanupExpired` and `TimerManager::getStats`: nothing in the repository calls them.
* What undefined behaviour inside `std::map` does beyond the outcomes named in section 4.
  In `Server` the iteration in `clearClientTimers` (`timer.cpp:215`) and each find with its
  dereference are single steps.
* In Shutdown, `disconnect` of the io thread is one step between the cuts of the signal
  thread's; the moment between the `delete` of a manager and the reset of its pointer is not
  told apart; and a second signal while the first is handled is not followed.
* Logging, the wording of messages, UUID collisions, and the failure of thread creation.
* Time, apart from the assumptions of section 4: it is only the order of steps. Config
  follows one waveform and counts the milliseconds that it asks to sleep.
* `on_fail`, which only prints, and the editor and build files.
