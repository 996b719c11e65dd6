-------------------------- MODULE WaveformRegistry --------------------------
(***************************************************************************)
(* What the server promises of waveforms, without threads, handlers and    *)
(* maps: a waveform starts on a free channel of an online client and goes  *)
(* to the client it is bonded with; it may stop at any moment; nobody      *)
(* leaves before its own waveforms have stopped.  A waveform whose target  *)
(* has left may be on for a while.                                         *)
(***************************************************************************)
CONSTANTS Clients, Channels

VARIABLES
    online, bonds,      \* as in PairRegistry
    waves               \* the waveforms that are on

Pairs == INSTANCE PairRegistry

Waves == [client : Clients, channel : Channels, target : Clients]

Init == Pairs!Init /\ waves = {}

Start(w) ==
    /\ {w.client, w.target} \in bonds
    /\ \A v \in waves : v.client # w.client \/ v.channel # w.channel
    /\ waves' = waves \cup {w}
    /\ UNCHANGED <<online, bonds>>

Stop(w) ==
    /\ w \in waves
    /\ waves' = waves \ {w}
    /\ UNCHANGED <<online, bonds>>

Leave(c) ==
    /\ \A w \in waves : w.client # c
    /\ Pairs!Leave(c)
    /\ UNCHANGED waves

Meet ==
    /\ \/ \E c \in Clients : Pairs!Join(c)
       \/ \E c, d \in Clients : Pairs!Bond(c, d)
    /\ UNCHANGED waves

Next ==
    \/ Meet
    \/ \E c \in Clients : Leave(c)
    \/ \E w \in Waves : Start(w)
    \/ \E w \in waves : Stop(w)

Spec == Init /\ [][Next]_<<online, bonds, waves>>
=============================================================================
