------------------------------ MODULE Heartbeat ------------------------------
(***************************************************************************)
(* The heartbeat thread walks over connections without the mutex while the *)
(* io thread registers, pairs and disconnects clients under it.            *)
(*                                                                         *)
(* Every critical section of the connection manager is two steps: taking   *)
(* mtx, and the section's writes with its release.  What runs outside the  *)
(* mutex is cut at each access of a map that the other thread may write.   *)
(* The module's assumption about the races: a find, a step of an iterator  *)
(* or a change of a map is one whole step while the nodes it starts from   *)
(* are in the map; only the use of a node that has been freed is undefined.*)
(* The ids are numbers because std::map visits its keys in their order;    *)
(* NoId stands before the first of them.                                   *)
(***************************************************************************)
EXTENDS ConnectionManager

CONSTANT Pairs      \* <<clientId, targetId>> of the bind requests that apps send

ASSUME HeartbeatAssumption == /\ Clients \subseteq Nat \ {0}
                              /\ NoId = 0
                              /\ Pairs \subseteq Clients \X Clients

VARIABLES
    mtx,    \* which thread holds ConnectionManager::mtx
    io,     \* where the io thread is in a handler, and its operands
    beat,   \* where the heartbeat thread is in sendHeartbeats, and its operands
    fresh,  \* the clients whose lastHeartbeat was set in this round or the last
    due     \* history: clients registered, and not unpaired, since the walk began

mapVars == <<session, connections, hdlToId, pairings, reversePairings>>
roundVars == <<fresh, due>>
beatVars == <<mapVars, out, alive, mtx, io, beat, roundVars>>

\* Waiting for the mutex, or inside the section when mtx = "io".
IoSections == {"register", "pair", "unpair", "erase"}

IoPlaces == [at : {"idle", "disconnect"} \cup IoSections, client : Ids, partner : Ids]

IoIdle == [at |-> "idle", client |-> NoId, partner |-> NoId]

BeatSections == {"stats", "refresh"}

\* The places of the callback of forEachClient: it holds references to the key and
\* the value of the node it was called with.
Visiting == {"look", "find", "at", "copy", "send", "update", "refresh"}

\* astray: the iterator has been stepped on from a freed node in this round.
BeatPlaces == [at : {"sleep", "walk"} \cup BeatSections \cup Visiting, client : Ids,
               inMap : {"pairings", "reversePairings"}, second : BOOLEAN, target : Ids,
               astray : BOOLEAN]

Asleep == [at |-> "sleep", client |-> NoId, inMap |-> "pairings", second |-> FALSE,
           target |-> NoId, astray |-> FALSE]

HeartbeatInit ==
    /\ EndpointInit
    /\ ConnectionManagerInit
    /\ mtx = "free"
    /\ io = IoIdle
    /\ beat = Asleep
    /\ fresh = {}
    /\ due = {}

-----------------------------------------------------------------------------
(* The io thread.                                                          *)

IoReturns == io' = IoIdle

IoGoes(place) == io' = [io EXCEPT !.at = place]

IoLock ==
    /\ io.at \in IoSections
    /\ mtx = "free"
    /\ mtx' = "io"
    /\ out' = {}
    /\ UNCHANGED <<mapVars, alive, io, beat, roundVars>>

IoUnlocks == mtx = "io" /\ mtx' = "free"

\* on_open up to registerConn's lock.
Open(c) ==
    /\ io.at = "idle"
    /\ session[c] = "none"
    /\ session' = [session EXCEPT ![c] = "open"]
    /\ io' = [IoIdle EXCEPT !.at = "register", !.client = c]
    /\ out' = {}
    /\ UNCHANGED <<connVars, alive, mtx, beat, roundVars>>

Register ==
    /\ io.at = "register"
    /\ IoUnlocks
    /\ RegisterConn(io.client, io.client)
    /\ out' = Deliver(io.client, "bind", io.client, NoId, "targetId")
    /\ IoReturns
    /\ UNCHANGED <<session, alive, beat, roundVars>>

\* A bind request of the app that pair() does not refuse, up to pair()'s lock.
Bind(web, app) ==
    /\ io.at = "idle"
    /\ session[app] = "open"
    /\ GetClientId(app) = app
    /\ ~PairRefused(web, app)
    /\ io' = [at |-> "pair", client |-> web, partner |-> app]
    /\ out' = {}
    /\ UNCHANGED <<mapVars, alive, mtx, beat, roundVars>>

PairLocked ==
    /\ io.at = "pair"
    /\ IoUnlocks
    /\ Pair(io.client, io.partner)
    /\ out' = UNION {Deliver(c, "bind", io.client, io.partner, "200") :
                        c \in {io.client, io.partner}}
    /\ IoReturns
    /\ UNCHANGED <<session, alive, beat, roundVars>>

\* on_close up to disconnect(): error 500 to the partner.
Close(c) ==
    /\ io.at = "idle"
    /\ session[c] = "closed"
    /\ io' = [IoIdle EXCEPT !.at = "disconnect", !.client = c]
    /\ out' = IF GetPair(c) # NoId /\ HasClient(GetPair(c))
              THEN Deliver(GetPair(c), "error", c, GetPair(c), "500")
              ELSE {}
    /\ UNCHANGED <<mapVars, alive, mtx, beat, roundVars>>

\* Mutant: disconnect takes the lock before it calls unpair, which takes it again.
TellPartnerLocked ==
    /\ io.at = "disconnect"
    /\ mtx = "free"
    /\ LET partner == GetPair(io.client) IN
       IF partner = NoId
       THEN IoGoes("erase") /\ out' = {} /\ UNCHANGED mtx
       ELSE IoGoes("unpair") /\ out' = {} /\ mtx' = "ioDisconnect"
    /\ UNCHANGED <<mapVars, alive, beat, roundVars>>

\* disconnect() outside the mutex: the break frame to the partner.
TellPartner ==
    /\ io.at = "disconnect"
    /\ LET partner == GetPair(io.client) IN
       IF partner = NoId
       THEN IoGoes("erase") /\ out' = {} /\ UNCHANGED alive
       ELSE IF HasClient(partner)
       THEN /\ IoGoes("unpair")
            /\ out' = Deliver(partner, "break", io.client, partner, "209")
            /\ UNCHANGED alive
       ELSE Terminate /\ UNCHANGED io
    /\ UNCHANGED <<mapVars, mtx, beat, roundVars>>

UnpairLocked ==
    /\ io.at = "unpair"
    /\ IoUnlocks
    /\ Unpair(io.client)
    /\ due' = due \ {io.client, GetPair(io.client)}
    /\ IoGoes("erase")
    /\ out' = {}
    /\ UNCHANGED <<session, connections, hdlToId, alive, beat, fresh>>

\* The end of disconnect() and of on_close.
EraseLocked ==
    /\ io.at = "erase"
    /\ IoUnlocks
    /\ hdlToId' = [hdlToId EXCEPT ![io.client] = NoId]
    /\ connections' = connections \ {io.client}
    /\ due' = due \ {io.client}
    /\ session' = [session EXCEPT ![io.client] = "detached"]
    /\ IoReturns
    /\ out' = {}
    /\ UNCHANGED <<pairVars, alive, beat, fresh>>

IoStep == IoLock \/ Register \/ PairLocked \/ TellPartner \/ UnpairLocked \/ EraseLocked

\* The network, seen by the io thread between two handlers.
Lose(c) ==
    /\ io.at = "idle"
    /\ c \in Leavers
    /\ PeerCloses(c) \/ Drop(c) \/ Release(c)
    /\ out' = {}
    /\ UNCHANGED <<connVars, alive, mtx, io, beat, roundVars>>

-----------------------------------------------------------------------------
(* The heartbeat thread.                                                   *)

BeatGoes(place) == beat' = [beat EXCEPT !.at = place]

BeatOnly ==
    /\ out' = {}
    /\ UNCHANGED <<mapVars, alive, io>>

BeatLock ==
    /\ beat.at \in BeatSections
    /\ mtx = "free"
    /\ mtx' = "beat"
    /\ BeatOnly
    /\ UNCHANGED <<beat, roundVars>>

BeatUnlocks == mtx = "beat" /\ mtx' = "free"

\* The timer fires and calls sendHeartbeats.
WakeUp ==
    /\ beat.at = "sleep"
    /\ BeatGoes("stats")
    /\ BeatOnly
    /\ UNCHANGED <<mtx, roundVars>>

\* Mutant: forEachClient is guarded by the mutex that updateHeartbeat takes.
GetStatsKeepsLock ==
    /\ beat.at = "stats"
    /\ mtx = "beat"
    /\ beat' = [Asleep EXCEPT !.at = "walk"]
    /\ fresh' = {}
    /\ due' = connections
    /\ mtx' = "forEachClient"
    /\ BeatOnly

\* getStats, and the begin of forEachClient.
GetStats ==
    /\ beat.at = "stats"
    /\ BeatUnlocks
    /\ beat' = [Asleep EXCEPT !.at = "walk"]
    /\ fresh' = {}
    /\ due' = connections
    /\ BeatOnly

\* The node that the thread works on, or steps on from, has been erased and freed.
\* What follows is undefined.
NodeErased == beat.client # NoId /\ ~HasClient(beat.client)

\* The clients whose nodes follow the one that the iterator is at.
Ahead == {c \in connections : c > beat.client}

\* The clients whose nodes have been freed.
Freed == {c \in Clients : session[c] \in {"detached", "released"}}

\* The next node in the order of the ids, or the end of the round.
Walk ==
    /\ beat.at = "walk"
    /\ ~NodeErased
    /\ IF Ahead = {}
       THEN beat' = [Asleep EXCEPT !.astray = beat.astray]
       ELSE \E c \in Ahead :
               /\ \A d \in Ahead : c <= d
               /\ beat' = [Asleep EXCEPT !.at = "look", !.client = c, !.astray = beat.astray]
    /\ BeatOnly
    /\ UNCHANGED <<mtx, roundVars>>

\* From a freed node the iterator follows the pointers that are left in it: past clients,
\* back, to another freed node, or to the end.
WalkFromFreed ==
    /\ beat.at = "walk"
    /\ NodeErased
    /\ \/ beat' = [Asleep EXCEPT !.astray = TRUE]
       \/ \E c \in connections \cup Freed :
             beat' = [Asleep EXCEPT !.at = "look", !.client = c, !.astray = TRUE]
    /\ BeatOnly
    /\ UNCHANGED <<mtx, roundVars>>

\* The test of the connection's state, outside the try block.
Look ==
    /\ beat.at = "look"
    /\ IF HandleExpired(beat.client)
       THEN Terminate /\ UNCHANGED <<mapVars, io, beat>>
       ELSE /\ BeatGoes(IF session[beat.client] = "open" THEN "find" ELSE "walk")
            /\ BeatOnly
    /\ UNCHANGED <<mtx, roundVars>>

\* getPair's finds, once for the test against "" and once for the value.
Find ==
    /\ beat.at = "find"
    /\ LET id == beat.client IN
       beat' = IF GetPair(id) = NoId
               THEN [beat EXCEPT !.at = "send", !.target = NoId]
               ELSE [beat EXCEPT !.at = "at", !.inMap = IF pairings[id] # NoId
                                                        THEN "pairings"
                                                        ELSE "reversePairings"]
    /\ BeatOnly
    /\ UNCHANGED <<mtx, roundVars>>

Found == IF beat.inMap = "pairings" THEN pairings[beat.client]
                                    ELSE reversePairings[beat.client]

\* Mutant: at is called outside the try block.
AtUncaught ==
    /\ beat.at = "at"
    /\ IF Found = NoId
       THEN Terminate /\ UNCHANGED <<mapVars, io, beat>>
       ELSE beat' = [beat EXCEPT !.at = "copy", !.target = Found] /\ BeatOnly
    /\ UNCHANGED <<mtx, roundVars>>

\* Mutant: the try block stands around the whole walk.
AtEndsRound ==
    /\ beat.at = "at"
    /\ beat' = IF Found = NoId THEN [Asleep EXCEPT !.astray = beat.astray]
               ELSE [beat EXCEPT !.at = "copy", !.target = Found]
    /\ BeatOnly
    /\ UNCHANGED <<mtx, roundVars>>

\* getPair's at finds the entry, which holds target; when the entry is gone it throws,
\* and the callback's catch ends the visit without a frame.
At ==
    /\ beat.at = "at"
    /\ beat' = IF Found = NoId THEN [beat EXCEPT !.at = "walk"]
               ELSE [beat EXCEPT !.at = "copy", !.target = Found]
    /\ BeatOnly
    /\ UNCHANGED <<mtx, roundVars>>

\* The node of the pairing has been erased and freed before getPair has copied it.
PairFreed == beat.at = "copy" /\ Found # beat.target

\* getPair returns a copy of the entry's string.  From a freed node it copies the old
\* content, or an exception of the copy is caught.
Copy ==
    /\ beat.at = "copy"
    /\ \/ beat' = IF beat.second THEN [beat EXCEPT !.at = "send"]
                  ELSE [beat EXCEPT !.at = "find", !.second = TRUE, !.target = NoId]
       \/ PairFreed /\ BeatGoes("walk")
    /\ BeatOnly
    /\ UNCHANGED <<mtx, roundVars>>

\* send throws, and is caught, when the session is not open any more.
Send ==
    /\ beat.at = "send"
    /\ out' = Deliver(beat.client, "heartbeat", beat.client, beat.target, "200")
    /\ BeatGoes(IF session[beat.client] = "open" THEN "update" ELSE "walk")
    /\ UNCHANGED <<mapVars, alive, io, mtx, roundVars>>

\* updateHeartbeat's hasClient, outside the mutex.
Update ==
    /\ beat.at = "update"
    /\ BeatGoes(IF HasClient(beat.client) THEN "refresh" ELSE "walk")
    /\ BeatOnly
    /\ UNCHANGED <<mtx, roundVars>>

\* The rest of updateHeartbeat; its at throws, and is caught, for an erased client.
Refresh ==
    /\ beat.at = "refresh"
    /\ BeatUnlocks
    /\ fresh' = fresh \cup ({beat.client} \cap connections)
    /\ BeatGoes("walk")
    /\ BeatOnly
    /\ UNCHANGED due

\* The thread uses a freed node: the steps above go on with its old content, this one
\* is the other outcome.
Dangles ==
    /\ beat.at \in Visiting \cup {"walk"}
    /\ NodeErased \/ PairFreed
    /\ Terminate
    /\ UNCHANGED <<mapVars, mtx, io, beat, roundVars>>

BeatStep ==
    \/ BeatLock \/ WakeUp \/ GetStats \/ Walk \/ WalkFromFreed \/ Look \/ Find \/ At \/ Copy
    \/ Send \/ Update \/ Refresh \/ Dangles

-----------------------------------------------------------------------------
HeartbeatNext ==
    /\ alive
    /\ \/ \E c \in Clients : Open(c) \/ Close(c) \/ Lose(c)
       \/ \E p \in Pairs : Bind(p[1], p[2])
       \/ IoStep
       \/ BeatStep

HeartbeatSpec == HeartbeatInit /\ [][HeartbeatNext]_beatVars

\* Both threads are scheduled.  Each keeps the mutex for a few instructions only, and
\* the heartbeat sleeps for seconds between its rounds, so a thread that waits for the
\* mutex finds it free again and again and gets it (a strong fairness).
FairHeartbeatSpec ==
    /\ HeartbeatSpec
    /\ WF_beatVars(alive /\ IoStep)
    /\ SF_beatVars(alive /\ IoLock)
    /\ WF_beatVars(alive /\ BeatStep)
    /\ SF_beatVars(alive /\ BeatLock)

-----------------------------------------------------------------------------
HeartbeatTypeOK ==
    /\ session \in [Clients -> SessionStates]
    /\ out \subseteq Frames
    /\ alive \in BOOLEAN
    /\ connections \subseteq Clients
    /\ hdlToId \in [Clients -> Ids]
    /\ pairings \in [Clients -> Ids]
    /\ reversePairings \in [Clients -> Ids]
    /\ mtx \in {"free", "io", "beat"}
    /\ io \in IoPlaces
    /\ beat \in BeatPlaces
    /\ fresh \subseteq Clients
    /\ due \subseteq Clients

\* getStats subtracts two clients per pairing from the number of connections in
\* unsigned arithmetic: whenever it can hold the mutex the difference is not negative.
StatsAddUp ==
    Cardinality(connections) >= 2 * Cardinality({w \in Clients : pairings[w] # NoId})

\* A round reaches every client that was there when it began, is still open and has
\* not lost its partner meanwhile, although others join and leave while it walks: its
\* lastHeartbeat has been set when the thread sleeps again.  The exception is the round
\* whose iterator stood on a client that left.
RoundReachesAll ==
    beat.at = "sleep" /\ ~beat.astray => \A c \in due : session[c] = "open" => c \in fresh

\* disconnect is cut in two by the mutex, yet the maps implement the registry of pairs:
\* a client has left when its pairing is dissolved, although its node stays for the
\* heartbeat thread to find until the second section.
Registry == INSTANCE PairRegistry
            WITH online <- {c \in connections : ~(io.at = "erase" /\ io.client = c)},
                 bonds <- {{c, pairings[c]} : c \in {w \in Clients : pairings[w] # NoId}}

ImplementsRegistry == Registry!Spec

\* Of what the heartbeat thread does, and the io thread in opening, binding and closing,
\* only the heartbeat's use of a freed node can end the process, a client's or the
\* pairing's that it copies: every exception of theirs is caught, and no lookup that
\* nobody guards ever fails.
OnlyFreedNodeKills ==
    [][alive /\ ~alive' => NodeErased \/ PairFreed]_beatVars

\* A round of heartbeats ends, although clients come and go and both threads use the
\* mutex, unless its iterator has left the map.
RoundsEnd == beat.at # "sleep" ~> beat.at = "sleep" \/ beat.astray \/ ~alive

\* Every handler of the io thread returns.
HandlersEnd == io.at # "idle" ~> io.at = "idle" \/ ~alive
=============================================================================
