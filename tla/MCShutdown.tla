----------------------------- MODULE MCShutdown -----------------------------
(***************************************************************************)
(* Small instances of Shutdown: one web page, the others are apps.         *)
(***************************************************************************)
EXTENDS Shutdown, TLC

CONSTANTS Webs, Apps

AppBinds == {<<a, w, a>> : w \in Webs, a \in Apps}

\* Any one order of the keys.
KeyOrder == CHOOSE r \in [Keys -> 1 .. Cardinality(Keys)] : \A j, k \in Keys : r[j] = r[k] => j = k

\* The web page and the app are paired, and a waveform of the web page sleeps on each
\* channel: a state that ShutdownSpec reaches, from which the signal and whatever the two
\* clients do begin.
Waving ==
    \E w \in Webs, a \in Apps, id \in [Channels -> 1 .. Cardinality(Channels)] :
        /\ \A x, y \in Channels : id[x] = id[y] => x = y
        /\ session = [c \in Clients |-> "open"]
        /\ out = {}
        /\ alive = TRUE
        /\ connections = Clients
        /\ hdlToId = [c \in Clients |-> c]
        /\ pairings = [c \in Clients |-> IF c = w THEN a ELSE NoId]
        /\ reversePairings = [c \in Clients |-> IF c = a THEN w ELSE NoId]
        /\ timers = [k \in Keys |-> IF k[1] = w THEN id[k[2]] ELSE 0]
        /\ task = [t \in TimerIds |->
                      IF \E c \in Channels : id[c] = t
                      THEN [pc |-> "sleep", active |-> TRUE,
                            key |-> <<w, CHOOSE c \in Channels : id[c] = t>>, target |-> a,
                            source |-> w, remaining |-> 1]
                      ELSE NoTask]
        /\ counter = Cardinality(Channels)
        /\ asio = Idle
        /\ sig = NoSignal

WavingSpec == Waving /\ [][ShutdownNext]_shutdownVars

\* States that differ only in the frames of the last step are one state.
WithoutOut == <<session, alive, connVars, timerVars, asio, sig>>
=============================================================================
