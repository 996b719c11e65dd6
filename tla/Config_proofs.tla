---------------------------- MODULE Config_proofs ----------------------------
(***************************************************************************)
(* Proofs about Config for every width of int, every configuration file    *)
(* and every request: the schedule of a waveform fits into its duration,   *)
(* and it sends as many pulses as it was asked to.                         *)
(***************************************************************************)
EXTENDS Config, TLAPS

-----------------------------------------------------------------------------
(* Arithmetic.                                                             *)

\* A product with a positive number is not smaller than the other factor.
LEMMA TimesPositive ==
    ASSUME NEW a \in Nat, NEW k \in Int, k >= 1
    PROVE  a * k >= a
  BY SMT

\* A remainder stays below its divisor.
LEMMA Remainder ==
    ASSUME NEW a \in Int, NEW m \in Nat, m > 0
    PROVE  a % m \in 0 .. m - 1
  BY SMT

\* What is left of an int in sixteen bits is a port number.
LEMMA PortRemainder ==
    ASSUME NEW a \in Int
    PROVE  a % 65536 \in PortNumbers
<1>1. ASSUME NEW m \in Nat, m = 65536 PROVE a % m \in PortNumbers
  BY <1>1, Remainder, SMT DEF PortNumbers
<1>2. 65536 \in Nat
  BY SMT
<1> QED BY <1>1, <1>2

\* Wrapping keeps a number in the range of int and changes it by a multiple of the
\* number of ints.
LEMMA WrapShift ==
    ASSUME NEW n \in Int
    PROVE  /\ Wrap(n) \in Ints
           /\ \E k \in Int : Wrap(n) = n - (2 * (MaxInt + 1)) * k
<1> DEFINE m == 2 * (MaxInt + 1)
           a == n + MaxInt + 1
<1>1. m \in Nat /\ m > 0 /\ a \in Int
  BY ConfigAssumption, SMT
<1>2. a % m \in 0 .. m - 1
  BY <1>1, Remainder
<1>3. a = m * (a \div m) + (a % m) /\ a \div m \in Int
  <2> HIDE DEF m, a
  <2> QED BY <1>1, SMT
<1>4. Wrap(n) = (a % m) - (MaxInt + 1)
  BY DEF Wrap
<1>5. Wrap(n) = n - m * (a \div m)
  <2> DEFINE q == m * (a \div m)
             r == a % m
  <2>1. q \in Int /\ r \in Int
    <3> HIDE DEF m, a
    <3> QED BY <1>1, <1>2, <1>3, SMT
  <2>2. a = q + r /\ Wrap(n) = r - (MaxInt + 1)
    BY <1>3, <1>4
  <2> HIDE DEF q, r
  <2>3. Wrap(n) = n - q
    BY <2>1, <2>2, ConfigAssumption, SMT
  <2> QED BY <2>3 DEF q
<1>6. Wrap(n) \in Ints
  <2> DEFINE r == a % m
  <2>1. r \in 0 .. 2 * (MaxInt + 1) - 1 /\ Wrap(n) = r - (MaxInt + 1)
    BY <1>2, <1>4
  <2> HIDE DEF r
  <2> QED BY <2>1, ConfigAssumption, SMT DEF Ints
<1> QED BY <1>3, <1>5, <1>6

\* A number that is an int stays what it is.
LEMMA WrapInt ==
    ASSUME NEW n \in Ints
    PROVE  Wrap(n) = n
<1> DEFINE m == 2 * (MaxInt + 1)
<1>1. n \in Int /\ m \in Nat /\ m > 0
  BY ConfigAssumption, SMT DEF Ints
<1>2. PICK k \in Int : Wrap(n) = n - m * k
  BY <1>1, WrapShift
<1>3. Wrap(n) \in Ints
  BY <1>1, WrapShift
<1>4. ASSUME k >= 1 PROVE FALSE
  <2>1. m * k >= m /\ m * k \in Int
    BY <1>1, <1>4, TimesPositive, SMT
  <2> QED BY <1>2, <1>3, <2>1, ConfigAssumption, SMT DEF Ints
<1>5. ASSUME k <= -1 PROVE FALSE
  <2>1. m * (-k) >= m /\ m * (-k) = -(m * k) /\ m * k \in Int
    BY <1>1, <1>5, TimesPositive, SMT
  <2> QED BY <1>2, <1>3, <2>1, ConfigAssumption, SMT DEF Ints
<1>6. k = 0
  BY <1>4, <1>5, SMT
<1> QED BY <1>1, <1>2, <1>6, SMT

\* The countdown of a positive number of pulses never starts above it, wherever the
\* product and the subtraction wrap.
LEMMA FirstLeftBound ==
    ASSUME NEW frequency \in Int, NEW time \in Int, frequency * time >= 1
    PROVE  /\ FirstLeft(frequency, time) \in Ints
           /\ FirstLeft(frequency, time) <= frequency * time - 1
<1> DEFINE m == 2 * (MaxInt + 1)
           n == frequency * time
           w == Wrap(n)
<1>1. n \in Int /\ n >= 1 /\ m \in Nat /\ m > MaxInt
  BY ConfigAssumption, SMT
<1>2. w \in Ints /\ \E k \in Int : w = n - m * k
  BY <1>1, WrapShift
<1>3. PICK k \in Int : w = n - m * k
  BY <1>2
<1>4. w - 1 \in Int
  BY <1>2, ConfigAssumption, SMT DEF Ints
<1>5. Wrap(w - 1) \in Ints /\ \E j \in Int : Wrap(w - 1) = w - 1 - m * j
  BY <1>4, WrapShift
<1>6. PICK j \in Int : Wrap(w - 1) = w - 1 - m * j
  BY <1>5
<1> DEFINE l == Wrap(w - 1)
<1>7. l = FirstLeft(frequency, time) /\ l \in Ints
  BY <1>5 DEF FirstLeft
<1> HIDE DEF n, l, w, m
<1>8. l = n - 1 - m * (k + j)
  <2>1. m * (k + j) = m * k + m * j /\ m * k \in Int /\ m * j \in Int
    BY <1>1, SMT
  <2> QED BY <1>1, <1>3, <1>6, <2>1, SMT DEF l
<1>9. ASSUME k + j <= -1 PROVE FALSE
  <2>1. m * (-(k + j)) >= m /\ m * (-(k + j)) = -(m * (k + j)) /\ m * (k + j) \in Int
    BY <1>1, <1>9, TimesPositive, SMT
  <2> QED BY <1>1, <1>7, <1>8, <2>1, ConfigAssumption, SMT DEF Ints
<1>10. m * (k + j) >= 0 /\ m * (k + j) \in Int
  BY <1>1, <1>9, SMT
<1>11. l <= n - 1
  BY <1>1, <1>8, <1>10, SMT
<1> QED BY <1>7, <1>11 DEF n

\* The period of a positive frequency fits as often into a second as it is asked for.
LEMMA PeriodFits ==
    ASSUME NEW frequency \in Int, frequency >= 1
    PROVE  /\ Period(frequency) \in Nat
           /\ frequency * Period(frequency) <= 1000
           /\ frequency <= 1000 => Period(frequency) >= 1
<1> DEFINE p == 1000 \div frequency
           r == 1000 % frequency
<1>1. Period(frequency) = p
  BY SMT DEF Period
<1>2. 1000 = frequency * p + r /\ p \in Int
  BY SMT
<1>3. r \in 0 .. frequency - 1
  BY SMT
<1> HIDE DEF p, r
<1>4. frequency * p \in Int /\ frequency * p <= 1000 /\ frequency * p > 1000 - frequency
  BY <1>2, <1>3, SMT
<1>5. ASSUME p <= -1 PROVE FALSE
  <2>1. frequency * (-p) >= frequency /\ frequency * (-p) = -(frequency * p)
    BY <1>2, <1>5, TimesPositive, SMT
  <2> QED BY <1>4, <2>1, SMT
<1>6. ASSUME frequency <= 1000, p = 0 PROVE FALSE
  <2>1. frequency * p = 0
    BY <1>6, SMT
  <2> QED BY <1>4, <1>6, <2>1, SMT
<1> QED BY <1>1, <1>2, <1>4, <1>5, <1>6, SMT

\* The period is a whole number of milliseconds.
LEMMA PeriodInt ==
    ASSUME NEW frequency \in Int, frequency # 0
    PROVE  Period(frequency) \in Int
<1>1. CASE frequency > 0
  BY <1>1, PeriodFits, SMT
<1>2. CASE frequency < 0
  <2> DEFINE f == -frequency
  <2>1. f \in Int /\ f > 0
    BY <1>2, SMT
  <2>2. 1000 \div f \in Int
    BY <2>1, SMT
  <2>3. Period(frequency) = -(1000 \div f)
    BY <1>2, SMT DEF Period
  <2> QED BY <2>2, <2>3, SMT
<1> QED BY <1>1, <1>2, SMT

-----------------------------------------------------------------------------
(* The inductive invariant.                                                *)

\* The pulses that the timer still has to send.
Pending == IF wave.left > 0 THEN wave.left ELSE 0

\* What is left would end within the time that was asked for.
TimeRemains ==
    wave.at # "none" /\ wave.frequency >= 1 /\ wave.time >= 1 =>
        wave.asked + (Pending + 1) * wave.period <= 1000 * wave.time

\* While the timer runs, what is sent and what is left add up to what was asked for.
CountAddsUp ==
    /\ Running => wave.left > 0
    /\ Running /\ wave.frequency * wave.time \in -MaxInt .. MaxInt =>
           wave.sent + wave.left = wave.frequency * wave.time
    /\ PulsesAsAsked

\* A timer only runs in a process that serves, or has died under it.
RunsWhileServing == Running => main.at \in {"serving", "dead"}

\* A positive frequency has no negative period.
PeriodKept == wave.frequency >= 1 => wave.period >= 0

ConfigInv ==
    /\ ConfigTypeOK
    /\ TimeRemains
    /\ CountAddsUp
    /\ PeriodKept
    /\ RunsWhileServing

\* No waveform has been asked for when the process starts.
LEMMA ConfigInvInit == ConfigInit => ConfigInv
<1> SUFFICES ASSUME ConfigInit PROVE ConfigInv
  OBVIOUS
<1>1. ConfigTypeOK
  BY ConfigAssumption, SMT DEF ConfigInit, ConfigTypeOK, Mains, Waves, NoWave, Ints, PortNumbers
<1>2. TimeRemains /\ CountAddsUp /\ PeriodKept /\ RunsWhileServing
  BY SMT DEF ConfigInit, NoWave, TimeRemains, CountAddsUp, PulsesAsAsked, PeriodKept,
             RunsWhileServing, Running
<1> QED BY <1>1, <1>2 DEF ConfigInv

\* The first pulse of a waveform leaves a countdown that fits into its duration.
LEMMA RequestFits ==
    ASSUME NEW frequency \in Int, NEW time \in Int, frequency >= 1, time >= 1,
           NEW pending \in Nat,
           pending = IF FirstLeft(frequency, time) > 0 THEN FirstLeft(frequency, time) ELSE 0
    PROVE  (pending + 1) * Period(frequency) <= 1000 * time
<1> DEFINE p == Period(frequency)
           n == frequency * time
<1>1. n \in Int /\ n >= 1
  BY TimesPositive, SMT
<1>2. p \in Nat /\ frequency * p <= 1000
  BY PeriodFits
<1>3. pending + 1 <= n
  BY <1>1, FirstLeftBound, ConfigAssumption, SMT DEF Ints
<1>4. time * (frequency * p) = n * p /\ n * p \in Int
  <2> HIDE DEF p
  <2> QED BY <1>2, SMT
<1> HIDE DEF p, n
<1>5. (pending + 1) * p <= n * p
  <2>1. (n - (pending + 1)) * p >= 0 /\ (n - (pending + 1)) * p = n * p - (pending + 1) * p
    BY <1>1, <1>2, <1>3, SMT
  <2>2. (pending + 1) * p \in Int
    BY <1>2, SMT
  <2> QED BY <1>4, <2>1, <2>2, SMT
<1>6. time * (frequency * p) <= time * 1000
  <2> DEFINE c == frequency * p
  <2>1. c \in Int /\ c <= 1000
    BY <1>2, SMT
  <2> HIDE DEF c
  <2>2. time * (1000 - c) >= 0 /\ time * (1000 - c) = time * 1000 - time * c /\ time * c \in Int
    BY <2>1, SMT
  <2>3. time * c <= time * 1000
    BY <2>2, SMT
  <2> QED BY <2>3 DEF c
<1>7. (pending + 1) * p \in Int /\ time * 1000 = 1000 * time
  BY <1>2, SMT
<1> QED BY <1>4, <1>5, <1>6, <1>7, SMT DEF p

\* The records keep their kinds under the changes that the actions make.
LEMMA MainKinds ==
    ASSUME NEW m \in Mains
    PROVE  /\ m = [at |-> m.at, port |-> m.port]
           /\ \A at \in {"start", "construct", "serving", "refused", "dead"} :
                 [m EXCEPT !.at = at] = [at |-> at, port |-> m.port]
                 /\ [m EXCEPT !.at = at] \in Mains
<1>1. m = [at |-> m.at, port |-> m.port]
  BY DEF Mains
<1>2. \A at \in {"start", "construct", "serving", "refused", "dead"} :
         [m EXCEPT !.at = at] = [at |-> at, port |-> m.port]
  BY DEF Mains
<1>3. \A at \in {"start", "construct", "serving", "refused", "dead"} :
         [at |-> at, port |-> m.port] \in Mains
  <2>1. m.port \in PortNumbers
    BY DEF Mains
  <2> QED BY <2>1 DEF Mains
<1> QED BY <1>1, <1>2, <1>3

\* A request that throws nothing keeps the invariant: its waveform starts in it.
LEMMA RequestKeeps ==
    ASSUME ConfigInv, NEW time \in Times, Request(time)
    PROVE  ConfigInv'
<1> DEFINE f == conf.frequency
           t == SendTime(time)
           l == FirstLeft(f, t)
<1>1. f \in Ints /\ f \in Int /\ f # 0
  BY ConfigAssumption, SMT DEF ConfigInv, ConfigTypeOK, Confs, Request, Ints
<1>2. t \in Ints /\ t \in Int
  BY ConfigAssumption, SMT DEF ConfigInv, ConfigTypeOK, Confs, Request, SendTime, Ints
<1>3. f * t \in Int
  BY <1>1, <1>2, SMT
<1>4. l \in Ints /\ l \in Int
  <2>1. Wrap(f * t) \in Ints
    BY <1>3, WrapShift
  <2>2. Wrap(f * t) - 1 \in Int
    BY <2>1, ConfigAssumption, SMT DEF Ints
  <2> QED BY <2>2, WrapShift, ConfigAssumption, SMT DEF FirstLeft, Ints
<1>5. Period(f) \in Int
  BY <1>1, PeriodInt
<1>6. wave' = [at |-> IF l > 0 THEN "started" ELSE "over", frequency |-> f, time |-> t,
               period |-> Period(f), left |-> l, sent |-> 1, asked |-> 0]
      /\ UNCHANGED <<conf, main>> /\ main.at = "serving"
  BY DEF Request
<1> HIDE DEF f, t, l
<1>7. ConfigTypeOK'
  BY <1>1, <1>2, <1>4, <1>5, <1>6, SMT DEF ConfigInv, ConfigTypeOK, Waves
<1>8. TimeRemains'
  <2> SUFFICES ASSUME f >= 1, t >= 1
               PROVE  0 + ((IF l > 0 THEN l ELSE 0) + 1) * Period(f) <= 1000 * t
    BY <1>6 DEF TimeRemains, Pending
  <2> DEFINE pending == IF l > 0 THEN l ELSE 0
  <2>1. pending \in Nat
    BY <1>4, SMT
  <2>2. (pending + 1) * Period(f) <= 1000 * t
    BY <1>1, <1>2, <2>1, RequestFits DEF l
  <2>3. (pending + 1) * Period(f) \in Int
    BY <2>1, <1>5, SMT
  <2> QED BY <2>2, <2>3, SMT
<1>9. CountAddsUp'
  <2>1. ASSUME f * t \in -MaxInt .. MaxInt PROVE l = f * t - 1
    <3>1. f * t \in Ints /\ f * t - 1 \in Ints
      BY <1>3, <2>1, ConfigAssumption, SMT DEF Ints
    <3> QED BY <3>1, WrapInt DEF l, FirstLeft
  <2> DEFINE n == f * t
  <2>2. n \in Int /\ (n \in -MaxInt .. MaxInt => l = n - 1)
    BY <1>3, <2>1
  <2>3. /\ wave'.at = (IF l > 0 THEN "started" ELSE "over")
        /\ wave'.left = l /\ wave'.sent = 1 /\ wave'.frequency * wave'.time = n
    BY <1>6
  <2> HIDE DEF n
  <2> QED BY <1>4, <2>2, <2>3, SMT DEF CountAddsUp, Running, PulsesAsAsked
<1>10. PeriodKept'
  BY <1>1, <1>6, PeriodFits, SMT DEF PeriodKept
<1>11. RunsWhileServing'
  BY <1>6 DEF RunsWhileServing
<1> QED BY <1>7, <1>8, <1>9, <1>10, <1>11 DEF ConfigInv

\* One callback takes one period and one pulse off what is left.
LEMMA CallbackKeeps ==
    ASSUME ConfigInv, Pulse \/ LastPulse
    PROVE  ConfigInv'
<1> DEFINE goesOn == wave.left - 1 > 0
<1>1. main.at = "serving" /\ Running
  BY DEF Pulse, LastPulse, TimerDue, Running
<1>2. wave \in Waves /\ wave.left > 0 /\ wave.left \in Int
  BY <1>1 DEF ConfigInv, ConfigTypeOK, CountAddsUp, Waves
<1>3. CASE LastPulse /\ wave.at = "started"
  <2>1. wave' = wave /\ conf' = conf /\ main' = [main EXCEPT !.at = "dead"]
    BY <1>3 DEF LastPulse, Dies
  <2>4. ConfigTypeOK'
    <3>1. main \in Mains /\ conf \in Confs
      BY DEF ConfigInv, ConfigTypeOK
    <3>2. main' \in Mains
      BY <2>1, <3>1, MainKinds
    <3> QED BY <1>2, <2>1, <3>1, <3>2 DEF ConfigTypeOK
  <2>5. TimeRemains' /\ CountAddsUp' /\ PeriodKept'
    BY <2>1 DEF ConfigInv, TimeRemains, Pending, CountAddsUp, PulsesAsAsked, PeriodKept, Running
  <2>6. RunsWhileServing'
    <3>1. main'.at = "dead"
      BY <2>1 DEF ConfigInv, ConfigTypeOK, Mains
    <3> QED BY <3>1 DEF RunsWhileServing
  <2> QED BY <2>4, <2>5, <2>6 DEF ConfigInv
<1>4. CASE Pulse \/ (LastPulse /\ wave.at = "ticking")
  <2>1. main' = main /\ conf' = conf
    BY <1>4 DEF Pulse, LastPulse
  <2>2. /\ wave'.left = wave.left - 1 /\ wave'.sent = wave.sent + 1
        /\ wave'.asked = wave.asked + SleepAskedFor /\ wave'.period = wave.period
        /\ wave'.frequency = wave.frequency /\ wave'.time = wave.time
        /\ wave'.at = IF goesOn THEN wave.at ELSE "over"
    <3>1. CASE Pulse
      BY <1>2, <3>1 DEF Pulse, Waves
    <3>2. CASE LastPulse /\ wave.at = "ticking"
      <4>1. ~goesOn
        BY <1>2, <3>2, SMT DEF LastPulse
      <4> QED BY <1>2, <3>2, <4>1 DEF LastPulse, Waves
    <3> QED BY <1>4, <3>1, <3>2
  <2>3. /\ wave.period \in Int /\ wave.sent \in Nat /\ wave.asked \in Nat
        /\ wave.frequency \in Ints /\ wave.time \in Ints
    BY <1>2 DEF Waves
  <2>4. SleepAskedFor \in Nat
    BY <2>3, SMT DEF SleepAskedFor
  <2>5. ConfigTypeOK'
    <3>1. wave.left - 1 \in Int /\ wave.sent + 1 \in Nat /\ wave.asked + SleepAskedFor \in Nat
      BY <1>2, <2>3, <2>4, SMT
    <3>2. wave' \in Waves
      <4>1. CASE Pulse
        BY <1>2, <3>1, <4>1 DEF Pulse, Waves
      <4>2. CASE LastPulse /\ wave.at = "ticking"
        BY <1>2, <3>1, <4>2 DEF LastPulse, Waves
      <4> QED BY <1>4, <4>1, <4>2
    <3> QED BY <2>1, <3>2 DEF ConfigInv, ConfigTypeOK
  <2>6. TimeRemains'
    <3> SUFFICES ASSUME wave.frequency >= 1, wave.time >= 1
                 PROVE  wave'.asked + (Pending' + 1) * wave'.period <= 1000 * wave'.time
      BY <2>2 DEF TimeRemains
    <3>1. wave.period >= 0 /\ SleepAskedFor = wave.period
      BY <2>3, SMT DEF ConfigInv, PeriodKept, SleepAskedFor
    <3>2. Pending' = wave.left - 1 /\ Pending = wave.left
      BY <1>2, <2>2, SMT DEF Pending
    <3>3. wave.asked + (wave.left + 1) * wave.period <= 1000 * wave.time
      BY <1>1, <3>2 DEF ConfigInv, TimeRemains, Running
    <3>4. /\ (wave.left - 1 + 1) * wave.period = wave.left * wave.period
          /\ (wave.left + 1) * wave.period = wave.left * wave.period + wave.period
          /\ wave.left * wave.period \in Int
      BY <1>2, <2>3, SMT
    <3> DEFINE q == wave.left * wave.period
    <3>5. /\ q \in Int /\ 1000 * wave.time \in Int
          /\ wave.asked + (q + wave.period) <= 1000 * wave.time
          /\ (Pending' + 1) * wave'.period = q
      BY <2>2, <2>3, <3>2, <3>3, <3>4, ConfigAssumption, SMT DEF Ints
    <3> HIDE DEF q
    <3> QED BY <2>2, <2>3, <3>1, <3>5, SMT
  <2>7. CountAddsUp'
    <3> DEFINE n == wave.frequency * wave.time
    <3>1. n \in Int
      BY <2>3, ConfigAssumption, SMT DEF Ints
    <3>2. n \in -MaxInt .. MaxInt => wave.sent + wave.left = n
      BY <1>1 DEF ConfigInv, CountAddsUp
    <3>3. wave'.frequency * wave'.time = n
      BY <2>2
    <3>4. wave.at \in {"started", "ticking"} /\ wave'.at # "none"
      BY <1>1, <2>2, SMT DEF Running
    <3> HIDE DEF n
    <3>5. Running' => wave'.left > 0
      BY <1>2, <2>2, SMT DEF Running
    <3>6. n \in -MaxInt .. MaxInt => wave'.sent + wave'.left = n
      BY <1>2, <2>2, <2>3, <3>1, <3>2, SMT
    <3>7. wave'.at = "over" /\ n \in -MaxInt .. MaxInt => wave'.sent = IF n > 1 THEN n ELSE 1
      BY <1>2, <2>2, <2>3, <3>1, <3>2, <3>4, SMT
    <3> QED BY <3>3, <3>5, <3>6, <3>7 DEF CountAddsUp, PulsesAsAsked
  <2>8. PeriodKept'
    BY <2>2 DEF ConfigInv, PeriodKept
  <2>9. RunsWhileServing'
    BY <1>1, <2>1 DEF RunsWhileServing
  <2> QED BY <2>5, <2>6, <2>7, <2>8, <2>9 DEF ConfigInv
<1> QED BY <1>1, <1>3, <1>4 DEF Running

\* Every step keeps the invariant.
LEMMA ConfigInvStep == ConfigInv /\ [ConfigNext]_configVars => ConfigInv'
<1> SUFFICES ASSUME ConfigInv, [ConfigNext]_configVars PROVE ConfigInv'
  OBVIOUS
<1> USE DEF Running
<1>1. conf \in Confs /\ main \in Mains /\ wave \in Waves
  BY DEF ConfigInv, ConfigTypeOK
\* Steps that leave the waveform alone.
<1>2. ASSUME wave' = wave, conf' \in Confs, main' \in Mains, main' = main \/ ~Running
      PROVE  ConfigInv'
  BY <1>1, <1>2 DEF ConfigInv, ConfigTypeOK, TimeRemains, Pending, CountAddsUp, PulsesAsAsked,
              PeriodKept, RunsWhileServing
<1>3. ASSUME Dies PROVE main' \in Mains
  BY <1>1, <1>3, MainKinds DEF Dies
<1>4. CASE ReadPort
  <2>1. main.at = "start" /\ conf' = conf /\ wave' = wave
    BY <1>4 DEF ReadPort
  <2>2. CASE conf.port = NotNumber
    <3>1. main' = [main EXCEPT !.at = "refused"]
      BY <1>4, <2>2 DEF ReadPort
    <3>2. main' \in Mains
      BY <1>1, <3>1, MainKinds
    <3> QED BY <1>1, <1>2, <2>1, <3>2 DEF ConfigInv, RunsWhileServing
  <2>3. CASE conf.port # NotNumber
    <3>1. conf.port \in Int
      BY <1>1, <2>3, ConfigAssumption, SMT DEF Confs, Ints
    <3>2. conf.port % 65536 \in PortNumbers
      BY <3>1, PortRemainder
    <3>3. main' = [at |-> "construct", port |-> conf.port % 65536]
      BY <1>4, <2>3 DEF ReadPort
    <3>4. main' \in Mains
      BY <3>2, <3>3 DEF Mains
    <3> QED BY <1>1, <1>2, <2>1, <3>4 DEF ConfigInv, RunsWhileServing
  <2> QED BY <2>2, <2>3
<1>5. CASE Construct
  <2>1. main.at = "construct" /\ conf' = conf /\ wave' = wave
    BY <1>5 DEF Construct
  <2>2. main' \in Mains
    BY <1>1, <1>3, <1>5, MainKinds DEF Construct
  <2> QED BY <1>1, <1>2, <2>1, <2>2 DEF ConfigInv, RunsWhileServing
<1>6. CASE Edit
  <2>1. main' = main /\ wave' = wave
    BY <1>6 DEF Edit
  <2>2. conf' \in Confs
    BY <1>1, <1>6, SMT DEF Edit, Confs
  <2> QED BY <1>1, <1>2, <2>1, <2>2
<1>7. ASSUME NEW time \in Times, RequestDies(time) PROVE ConfigInv'
  <2>1. ~Running /\ conf' = conf /\ wave' = wave /\ Dies
    BY <1>7 DEF RequestDies
  <2> QED BY <1>1, <1>2, <1>3, <2>1
<1>8. ASSUME NEW time \in Times, Request(time) PROVE ConfigInv'
  BY <1>8, RequestKeeps
<1>9. CASE Detach
  <2>1. main.at = "serving" /\ conf' = conf /\ main' = main /\ wave.at = "started"
        /\ wave' = [wave EXCEPT !.at = "ticking"]
    BY <1>9 DEF Detach
  <2>2. wave' \in Waves
    BY <1>1, <2>1, SMT DEF Waves
  <2>3. /\ wave'.at = "ticking" /\ wave'.left = wave.left /\ wave'.sent = wave.sent
        /\ wave'.asked = wave.asked /\ wave'.period = wave.period
        /\ wave'.frequency = wave.frequency /\ wave'.time = wave.time
    BY <1>1, <2>1 DEF Waves
  <2> QED BY <1>1, <2>1, <2>2, <2>3
          DEF ConfigInv, ConfigTypeOK, TimeRemains, Pending, CountAddsUp, PulsesAsAsked,
              PeriodKept, RunsWhileServing
<1>10. CASE Pulse \/ LastPulse
  BY <1>10, CallbackKeeps
<1>11. CASE UNCHANGED configVars
  BY <1>1, <1>2, <1>11 DEF configVars
<1> QED BY <1>4, <1>5, <1>6, <1>7, <1>8, <1>9, <1>10, <1>11 DEF ConfigNext

\* The inductive invariant holds in every behaviour.
THEOREM ConfigInvariant == ConfigSpec => []ConfigInv
  BY ConfigInvInit, ConfigInvStep, PTL DEF ConfigSpec

-----------------------------------------------------------------------------
(* The results.                                                            *)

\* Every number of the model is of its kind: the port has sixteen bits, the numbers that
\* stoi returned are ints.
THEOREM ConfigTypeCorrect == ConfigSpec => []ConfigTypeOK
<1>1. ConfigInv => ConfigTypeOK
  BY DEF ConfigInv
<1> QED BY <1>1, ConfigInvariant, PTL

\* For every frequency, time and width of int, the sleeps that a waveform's thread asks for
\* add up to no more than the time that was requested: truncating the period never rounds it
\* up, and a product that wraps never makes the countdown longer.
THEOREM ScheduleKept == ConfigSpec => []ScheduleFitsTime
<1>1. ConfigInv => ScheduleFitsTime
  <2> SUFFICES ASSUME ConfigInv, wave.at # "none", wave.frequency >= 1, wave.time >= 1
               PROVE  wave.asked + wave.period <= 1000 * wave.time
    BY DEF ScheduleFitsTime
  <2>1. /\ wave.period \in Int /\ wave.period >= 0 /\ wave.asked \in Nat
        /\ wave.left \in Int /\ wave.time \in Int
    BY ConfigAssumption, SMT DEF ConfigInv, ConfigTypeOK, Waves, PeriodKept, Ints
  <2>2. Pending \in Nat
    BY <2>1, SMT DEF Pending
  <2>3. (Pending + 1) * wave.period = Pending * wave.period + wave.period
        /\ Pending * wave.period \in Nat
    <3> HIDE DEF Pending
    <3> QED BY <2>1, <2>2, SMT
  <2>4. wave.asked + (Pending + 1) * wave.period <= 1000 * wave.time
    BY DEF ConfigInv, TimeRemains
  <2> DEFINE q == Pending * wave.period
  <2>5. q \in Nat /\ wave.asked + (q + wave.period) <= 1000 * wave.time
    BY <2>3, <2>4
  <2> HIDE DEF q
  <2> QED BY <2>1, <2>5, SMT
<1> QED BY <1>1, ConfigInvariant, PTL

\* A waveform sends as many pulses as frequency and time ask for.
THEOREM PulsesCounted == ConfigSpec => []PulsesAsAsked
<1>1. ConfigInv => PulsesAsAsked
  BY DEF ConfigInv, CountAddsUp
<1> QED BY <1>1, ConfigInvariant, PTL
=============================================================================
