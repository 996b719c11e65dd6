---------------------------- MODULE TimerManager ----------------------------
(***************************************************************************)
(* class TimerManager and the JSTimer threads it starts.                   *)
(*                                                                         *)
(* sendMessage runs on the io thread and shares timers, without a lock,    *)
(* with one detached thread per running task; it is cut at every access to *)
(* that map and to a task's active flag.  The io thread's place in a       *)
(* handler is asio; the place of the thread of task t is task[t].pc.       *)
(***************************************************************************)
EXTENDS Endpoint

CONSTANTS
    Channels,       \* the channel names clients use, "A" and "B"
    NoChannel,      \* a message without a channel
    MaxTimers,      \* bound: tasks started in a behaviour
    SleepCoversCallback     \* TRUE: no callback outlasts the 150 ms sleep

ASSUME TimerAssumption == /\ NoChannel \notin Channels
                          /\ MaxTimers \in Nat
                          /\ SleepCoversCallback \in BOOLEAN

VARIABLES
    timers,     \* clientId-channel -> id of its TimerInfo, 0 for no entry
    task,       \* the JSTimer object, thread and TimerInfo of each timer id
    counter,    \* JSTimer::global_counter
    asio        \* where the io thread is in the handler it runs

timerVars == <<timers, task, counter>>

TimerIds == 1 .. MaxTimers
Keys == Clients \X Channels
NoKey == <<NoId, NoChannel>>

(***************************************************************************)
(* The program counter of a JSTimer thread: sleep (in sleep_for), check    *)
(* (callback begun), send (target seen open), abort (target seen not       *)
(* open), finish (last pulse sent), notify (entry erased), exit (loop      *)
(* left), gone (object deleted).                                           *)
(***************************************************************************)
ThreadPCs == {"none", "sleep", "check", "send", "abort", "finish", "notify",
              "exit", "gone"}

Tasks == [pc : ThreadPCs, active : BOOLEAN, key : Keys \cup {NoKey}, target : Ids,
          source : Ids, remaining : Int]

NoTask == [pc |-> "none", active |-> FALSE, key |-> NoKey, target |-> NoId,
           source |-> NoId, remaining |-> 0]

\* Inside the callback and not past its timers.erase.
InCallback(t) == task[t].pc \in {"check", "send", "abort", "finish"}

SendingPCs == {"override", "find", "copy", "stop", "erase", "start", "insert"}
ClosingPCs == {"closing", "closeErase"}

Handlers == [at : {"idle"} \cup SendingPCs \cup ClosingPCs, client : Ids,
             keys : SUBSET Keys, key : Keys \cup {NoKey}, target : Ids, source : Ids,
             total : Int, id : 0 .. MaxTimers, replacing : BOOLEAN]

Idle == [at |-> "idle", client |-> NoId, keys |-> {}, key |-> NoKey, target |-> NoId,
         source |-> NoId, total |-> 0, id |-> 0, replacing |-> FALSE]

TimerManagerInit ==
    /\ timers = [k \in Keys |-> 0]
    /\ task = [t \in TimerIds |-> NoTask]
    /\ counter = 0
    /\ asio = Idle

\* Mutant: the flag is never cleared.
ClearIntervalNothing(t) == UNCHANGED task

\* JSTimer::clearInterval: an object still in timer_map loses its active flag.
ClearInterval(t) == task' = [task EXCEPT ![t].active = FALSE]

-----------------------------------------------------------------------------
(* sendMessage, _startSending and clearTimer on the io thread.             *)

\* Mutant: no look at an existing entry.
SendMessageBlindly(key, target, total, source) ==
    /\ counter < MaxTimers
    /\ asio' = [Idle EXCEPT !.at = "start", !.key = key, !.target = target,
                            !.source = source, !.total = total]
    /\ UNCHANGED timerVars

\* sendMessage up to its first find: whether the key has an entry.
SendMessage(key, target, total, source) ==
    /\ counter < MaxTimers
    /\ asio' = [Idle EXCEPT !.at = IF timers[key] = 0 THEN "start" ELSE "override",
                            !.key = key, !.target = target, !.source = source,
                            !.total = total, !.replacing = timers[key] # 0]
    /\ UNCHANGED timerVars

\* timers.at(timerKey) in sendMessage or in clearTimer: the entry that find saw
\* has been erased by a timer thread, and at throws std::out_of_range.
EntryVanished ==
    /\ asio.at \in {"override", "copy"}
    /\ timers[asio.key] = 0
    /\ Terminate
    /\ UNCHANGED <<session, asio, timerVars>>

\* sendMessage copies the entry: oldTask.
OverrideEntry ==
    /\ asio.at = "override"
    /\ timers[asio.key] # 0
    /\ asio' = [asio EXCEPT !.at = "find", !.id = timers[asio.key]]
    /\ out' = {}
    /\ UNCHANGED <<session, alive, timerVars>>

\* The clear command of sendMessage goes to the new target and names the old one.
ClearCommand == Deliver(asio.target, "msg", asio.key[1], task[asio.id].target, "clear")

\* clearTimer returns at once when the entry is gone; sendMessage goes on to send
\* the clear command to the new target and to sleep.
ClearTimerFind ==
    /\ asio.at = "find"
    /\ IF timers[asio.key] = 0
       THEN /\ asio' = [asio EXCEPT !.at = "start"]
            /\ out' = ClearCommand
       ELSE /\ asio' = [asio EXCEPT !.at = "copy"]
            /\ out' = {}
    /\ UNCHANGED <<session, alive, timerVars>>

\* clearTimer copies the entry and sends the clear command to the old target.
ClearTimerCopy ==
    /\ asio.at = "copy"
    /\ timers[asio.key] # 0
    /\ LET old == timers[asio.key] IN
       IF HandleExpired(task[old].target)
       THEN Terminate /\ UNCHANGED asio
       ELSE /\ asio' = [asio EXCEPT !.at = "stop", !.id = old]
            /\ out' = Deliver(task[old].target, "msg", asio.key[1], task[old].target, "clear")
            /\ UNCHANGED alive
    /\ UNCHANGED <<session, timerVars>>

ClearTimerStop ==
    /\ asio.at = "stop"
    /\ ClearInterval(asio.id)
    /\ asio' = [asio EXCEPT !.at = "erase"]
    /\ out' = {}
    /\ UNCHANGED <<session, alive, timers, counter>>

\* clearTimer erases the entry; sendMessage sends the clear command to the new
\* target and sleeps for 150 ms.
ClearTimerErase ==
    /\ asio.at = "erase"
    /\ timers' = [timers EXCEPT ![asio.key] = 0]
    /\ asio' = [asio EXCEPT !.at = "start"]
    /\ out' = ClearCommand
    /\ UNCHANGED <<session, alive, task, counter>>

\* Mutant: sendMessage does not sleep.
NoSleep == TRUE

\* The timing assumption: a callback that was running when its task was cleared
\* has returned when the sleep of 150 ms ends.
SleepIsOver ==
    SleepCoversCallback /\ asio.replacing =>
        \A t \in TimerIds : task[t].key = asio.key => ~InCallback(t)

Notice(message) ==
    Deliver(asio.source, "notify", asio.key[1],
            IF message = "done" THEN asio.target ELSE NoId, message)

FirstPulse == Deliver(asio.target, "msg", asio.key[1], asio.target, "pulse")

\* _startSending with one pulse to send, or fewer.
StartSingle ==
    /\ asio.at = "start"
    /\ SleepIsOver
    /\ asio.total - 1 <= 0
    /\ asio' = Idle
    /\ out' = FirstPulse \cup Notice("done")
                  \cup (IF asio.replacing THEN Notice("override") ELSE {})
    /\ UNCHANGED <<session, alive, timerVars>>

\* _startSending with more to send, up to and including JSTimer::setInterval.
StartRepeating ==
    /\ asio.at = "start"
    /\ SleepIsOver
    /\ asio.total - 1 > 0
    /\ counter' = counter + 1
    /\ task' = [task EXCEPT ![counter + 1] =
                    [pc |-> "sleep", active |-> TRUE, key |-> asio.key,
                     target |-> asio.target, source |-> asio.source,
                     remaining |-> asio.total - 1]]
    /\ asio' = [asio EXCEPT !.at = "insert", !.id = counter + 1]
    /\ out' = FirstPulse
    /\ UNCHANGED <<session, alive, timers>>

\* std::map::insert keeps an entry that exists.
InsertEntry ==
    /\ asio.at = "insert"
    /\ timers' = [timers EXCEPT ![asio.key] = IF @ = 0 THEN asio.id ELSE @]
    /\ asio' = Idle
    /\ out' = IF asio.replacing THEN Notice("override") ELSE {}
    /\ UNCHANGED <<session, alive, task, counter>>

-----------------------------------------------------------------------------
(* clearClientTimers on the io thread, called by on_close.                 *)

\* Mutant: the prefix never matches.
KeysOfNobody(client) == {k \in Keys : k[1] = NoId /\ timers[k] # 0}

KeysOf(client) == {k \in Keys : k[1] = client /\ timers[k] # 0}

CloseStop(k) ==
    /\ asio.at = "closing"
    /\ k \in asio.keys
    /\ IF timers[k] # 0 THEN ClearInterval(timers[k]) ELSE UNCHANGED task
    /\ asio' = [asio EXCEPT !.at = "closeErase", !.key = k]
    /\ out' = {}
    /\ UNCHANGED <<session, alive, timers, counter>>

CloseErase ==
    /\ asio.at = "closeErase"
    /\ timers' = [timers EXCEPT ![asio.key] = 0]
    /\ asio' = [asio EXCEPT !.at = "closing", !.keys = @ \ {asio.key}]
    /\ out' = {}
    /\ UNCHANGED <<session, alive, task, counter>>

-----------------------------------------------------------------------------
(* The thread of task t.                                                   *)

SetPC(t, pc) == task' = [task EXCEPT ![t].pc = pc]

\* The thread wakes up and reads its active flag.
Wake(t) ==
    /\ task[t].pc = "sleep"
    /\ SetPC(t, IF task[t].active THEN "check" ELSE "exit")
    /\ out' = {}
    /\ UNCHANGED <<session, alive, timers, counter, asio>>

\* The callback looks at the target's connection.
CheckTarget(t) ==
    /\ task[t].pc = "check"
    /\ ~HandleExpired(task[t].target)
    /\ SetPC(t, IF session[task[t].target] = "open" THEN "send" ELSE "abort")
    /\ out' = {}
    /\ UNCHANGED <<session, alive, timers, counter, asio>>

\* get_con_from_hdl throws on the timer thread, outside any try block.
CallbackThrows(t) ==
    /\ \/ task[t].pc \in {"check", "send"} /\ HandleExpired(task[t].target)
       \/ task[t].pc = "notify" /\ HandleExpired(task[t].source)
    /\ Terminate
    /\ UNCHANGED <<session, timerVars, asio>>

\* Mutant: the countdown works on a copy that is thrown away.
SendPulseForever(t) ==
    /\ task[t].pc = "send"
    /\ ~HandleExpired(task[t].target)
    /\ SetPC(t, "sleep")
    /\ out' = Deliver(task[t].target, "msg", task[t].key[1], task[t].target, "pulse")
    /\ UNCHANGED <<session, alive, timers, counter, asio>>

\* _safeSend and the countdown of the callback's own copy of remaining.
SendPulse(t) ==
    /\ task[t].pc = "send"
    /\ ~HandleExpired(task[t].target)
    /\ task' = [task EXCEPT ![t].remaining = @ - 1,
                            ![t].pc = IF task[t].remaining - 1 <= 0 THEN "finish" ELSE "sleep"]
    /\ out' = Deliver(task[t].target, "msg", task[t].key[1], task[t].target, "pulse")
    /\ UNCHANGED <<session, alive, timers, counter, asio>>

\* clearInterval(timerId) and timers.erase(timerKey), whoever owns the entry now:
\* after the last pulse, or because the target is not open.
EraseOwnEntry(t) ==
    /\ task[t].pc \in {"finish", "abort"}
    /\ timers' = [timers EXCEPT ![task[t].key] = 0]
    /\ task' = [task EXCEPT ![t].active = FALSE,
                            ![t].pc = IF task[t].pc = "finish" THEN "notify" ELSE "exit"]
    /\ out' = {}
    /\ UNCHANGED <<session, alive, counter, asio>>

NotifyDone(t) ==
    /\ task[t].pc = "notify"
    /\ ~HandleExpired(task[t].source)
    /\ SetPC(t, "exit")
    /\ out' = Deliver(task[t].source, "notify", task[t].key[1], task[t].target, "done")
    /\ UNCHANGED <<session, alive, timers, counter, asio>>

\* The thread erases itself from timer_map and deletes the object.
ThreadExit(t) ==
    /\ task[t].pc = "exit"
    /\ SetPC(t, "gone")
    /\ out' = {}
    /\ UNCHANGED <<session, alive, timers, counter, asio>>

SendSteps ==
    \/ OverrideEntry \/ ClearTimerFind \/ ClearTimerCopy \/ ClearTimerStop
    \/ ClearTimerErase \/ StartSingle \/ StartRepeating \/ InsertEntry \/ EntryVanished

ThreadStep(t) ==
    \/ Wake(t) \/ CheckTarget(t) \/ CallbackThrows(t) \/ SendPulse(t)
    \/ EraseOwnEntry(t) \/ NotifyDone(t) \/ ThreadExit(t)
=============================================================================
