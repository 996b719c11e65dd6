------------------------------- MODULE Config -------------------------------
(***************************************************************************)
(* The numbers: what main, the constructor of Server and the handler of a  *)
(* waveform make of conf.ini, which they each read anew, and the countdown *)
(* of the waveform's timer that follows from them.  One waveform at a time *)
(* is followed.                                                            *)
(***************************************************************************)
EXTENDS Integers

CONSTANTS
    Ports, Intervals, Frequencies, Durations,   \* what may be written in conf.ini
    Times,          \* the time fields of requests
    NoTime,         \* a request without a time field
    NotNumber,      \* a text, a number beyond int or a missing key: std::stoi throws
    MaxInt          \* the largest int

Ints == -MaxInt - 1 .. MaxInt

ASSUME ConfigAssumption ==
    /\ MaxInt \in Nat /\ MaxInt >= 1000
    /\ NotNumber \notin Int
    /\ NoTime \notin Int /\ NoTime # NotNumber
    /\ Ports \cup Intervals \cup Frequencies \cup Durations \subseteq Ints \cup {NotNumber}
    /\ Times \subseteq Ints \cup {NotNumber, NoTime}

VARIABLES
    conf,   \* the contents of conf.ini
    main,   \* where the process is: start, construct, serving, refused, dead; its port
    wave    \* the waveform: its frequency and time, its timer, the pulses it has sent and
            \* the sleep its thread has asked for, in milliseconds

configVars == <<conf, main, wave>>

Confs == [port : Ports, interval : Intervals, frequency : Frequencies, duration : Durations]

PortNumbers == 0 .. 65535

Mains == [at : {"start", "construct", "serving", "refused", "dead"}, port : PortNumbers]

(***************************************************************************)
(* none: not requested yet.  started: the timer's thread runs, setInterval *)
(* has not detached it.  ticking: detached.  over: all is sent.            *)
(***************************************************************************)
Waves == [at : {"none", "started", "ticking", "over"}, frequency : Ints, time : Ints,
          period : Int, left : Int, sent : Nat, asked : Nat]

NoWave == [at |-> "none", frequency |-> 1, time |-> 1, period |-> 1, left |-> 0,
           sent |-> 0, asked |-> 0]

ConfigInit ==
    /\ conf \in Confs
    /\ main = [at |-> "start", port |-> 0]
    /\ wave = NoWave

Dies == main' = [main EXCEPT !.at = "dead"]

-----------------------------------------------------------------------------
(* Arithmetic.                                                             *)

\* An int that overflows wraps around, as the compilers the server is built with do it.
Wrap(n) == ((n + MaxInt + 1) % (2 * (MaxInt + 1))) - (MaxInt + 1)

\* Mutant: the period is rounded to the next millisecond.
PeriodRounded(frequency) ==
    IF frequency > 0 THEN (1000 + frequency - 1) \div frequency
                     ELSE -(1000 \div (-frequency))

\* timeSpace, in milliseconds: the quotient of ints is truncated towards zero.
Period(frequency) ==
    IF frequency > 0 THEN 1000 \div frequency ELSE -(1000 \div (-frequency))

\* The callback's remaining after the first pulse: totalSends - 1.
FirstLeft(frequency, time) == Wrap(Wrap(frequency * time) - 1)

-----------------------------------------------------------------------------
(* The start of the process.                                               *)

\* Mutant: the port stays an int.
ReadWidePort ==
    /\ main.at = "start"
    /\ main' = IF conf.port = NotNumber
               THEN [main EXCEPT !.at = "refused"]
               ELSE [at |-> "construct", port |-> conf.port]
    /\ UNCHANGED <<conf, wave>>

\* main catches what stoi throws and returns 1;
\* run() takes the port as sixteen bits.
ReadPort ==
    /\ main.at = "start"
    /\ main' = IF conf.port = NotNumber
               THEN [main EXCEPT !.at = "refused"]
               ELSE [at |-> "construct", port |-> conf.port % 65536]
    /\ UNCHANGED <<conf, wave>>

\* The constructor of Server reads the file again and catches nothing.
Construct ==
    /\ main.at = "construct"
    /\ IF conf.interval = NotNumber THEN Dies ELSE main' = [main EXCEPT !.at = "serving"]
    /\ UNCHANGED <<conf, wave>>

\* A value of conf.ini is edited while the process runs.  (The port is read once.)
Edit ==
    /\ main.at \in {"start", "construct", "serving"}
    /\ \/ \E value \in Intervals : conf' = [conf EXCEPT !.interval = value]
       \/ \E value \in Frequencies : conf' = [conf EXCEPT !.frequency = value]
       \/ \E value \in Durations : conf' = [conf EXCEPT !.duration = value]
    /\ UNCHANGED <<main, wave>>

-----------------------------------------------------------------------------
(* A waveform.                                                             *)

SendTime(time) == IF time = NoTime THEN conf.duration ELSE time

\* A stoi throws, or 1000 is divided by zero.
RequestDies(time) ==
    /\ main.at = "serving"
    /\ wave.at \in {"none", "over"}
    /\ conf.frequency \in {NotNumber, 0} \/ SendTime(time) = NotNumber
    /\ Dies
    /\ UNCHANGED <<conf, wave>>

\* handleClientMessage, and _startSending with its first pulse.
Request(time) ==
    /\ main.at = "serving"
    /\ wave.at \in {"none", "over"}
    /\ conf.frequency \notin {NotNumber, 0}
    /\ SendTime(time) # NotNumber
    /\ LET left == FirstLeft(conf.frequency, SendTime(time)) IN
       wave' = [at |-> IF left > 0 THEN "started" ELSE "over",
                frequency |-> conf.frequency, time |-> SendTime(time),
                period |-> Period(conf.frequency), left |-> left, sent |-> 1, asked |-> 0]
    /\ UNCHANGED <<conf, main>>

Detach ==
    /\ main.at = "serving"
    /\ wave.at = "started"
    /\ wave' = [wave EXCEPT !.at = "ticking"]
    /\ UNCHANGED <<conf, main>>

\* Mutant: a timer without a period is never due.
TimerDuePositive == wave.at \in {"started", "ticking"} /\ wave.period > 0

\* The thread runs from its constructor on: nothing makes a sleep, however long, outlast
\* what setInterval has left to do, so a callback may come before detach.
TimerDue == wave.at \in {"started", "ticking"}

\* The milliseconds that sleep_for is asked to sleep at least; what it sleeps longer, and
\* the time of the callback, are not counted.
SleepAskedFor == IF wave.period > 0 THEN wave.period ELSE 0

\* A callback that is not the last one.
Pulse ==
    /\ main.at = "serving"
    /\ TimerDue
    /\ wave.left - 1 > 0
    /\ wave' = [wave EXCEPT !.left = @ - 1, !.sent = @ + 1, !.asked = @ + SleepAskedFor]
    /\ UNCHANGED <<conf, main>>

\* Mutant: the test for the end comes before the countdown.
LastPulseLate ==
    /\ main.at = "serving"
    /\ TimerDue
    /\ wave.left - 1 <= 0
    /\ IF wave.left = 1
       THEN wave' = [wave EXCEPT !.left = @ - 1, !.sent = @ + 1, !.asked = @ + SleepAskedFor]
       ELSE wave' = [wave EXCEPT !.at = "over", !.left = @ - 1, !.sent = @ + 1,
                                 !.asked = @ + SleepAskedFor]
    /\ UNCHANGED <<conf, main>>

\* The last callback stops the timer, and the thread deletes its JSTimer object: the
\* destructor of a thread that was not detached terminates the process.
LastPulse ==
    /\ main.at = "serving"
    /\ TimerDue
    /\ wave.left - 1 <= 0
    /\ IF wave.at = "started"
       THEN Dies /\ UNCHANGED wave
       ELSE /\ wave' = [wave EXCEPT !.at = "over", !.left = @ - 1, !.sent = @ + 1,
                                    !.asked = @ + SleepAskedFor]
            /\ UNCHANGED main
    /\ UNCHANGED conf

ConfigNext ==
    \/ ReadPort \/ Construct \/ Edit
    \/ \E time \in Times : RequestDies(time) \/ Request(time)
    \/ Detach \/ Pulse \/ LastPulse

ConfigSpec == ConfigInit /\ [][ConfigNext]_configVars

\* The timer's thread and the io thread inside setInterval are scheduled.
FairConfigSpec == ConfigSpec /\ WF_configVars(Detach) /\ WF_configVars(Pulse \/ LastPulse)

-----------------------------------------------------------------------------
ConfigTypeOK == conf \in Confs /\ main \in Mains /\ wave \in Waves

Running == wave.at \in {"started", "ticking"}

\* The schedule of a waveform fits into the time it was requested for: the sleeps that its
\* thread asks for, one more period included, add up to no more, whatever the rounding of
\* the period and the width of the product do, and whatever is written to conf.ini while
\* it runs.  (The schedule, not the clock: each sleep lasts at least as long as asked.)
ScheduleFitsTime ==
    wave.at # "none" /\ wave.frequency >= 1 /\ wave.time >= 1 =>
        wave.asked + wave.period <= 1000 * wave.time

\* A waveform that is over has sent as many pulses as frequency and time multiply to,
\* and never less than one, as long as the product fits an int.  (The smallest int does
\* not count: _startSending subtracts one before it looks.)
PulsesAsAsked ==
    wave.at = "over" /\ wave.frequency * wave.time \in -MaxInt .. MaxInt =>
        wave.sent = IF wave.frequency * wave.time > 1 THEN wave.frequency * wave.time ELSE 1

\* Every waveform ends, at any frequency, time and width.
WaveformsEnd == Running ~> ~Running \/ main.at = "dead"
=============================================================================
