--------------------------- MODULE Heartbeat_proofs ---------------------------
(***************************************************************************)
(* Theorems about Heartbeat, for every number of clients and every set of  *)
(* bind requests in which no client is asked for in both roles.            *)
(***************************************************************************)
EXTENDS Heartbeat, FiniteSetTheorems, TLAPS

USE EndpointAssumption, HeartbeatAssumption

\* No client is the web page of one bind request and the app of another.
RolesDisjoint == \A p, q \in Pairs : p[1] # q[2]

\* Every pairing was asked for and has both ends connected; the maps are inverse.
PairsBound ==
    \A c, d \in Clients :
        /\ pairings[c] = d <=> reversePairings[d] = c
        /\ pairings[c] = d => <<c, d>> \in Pairs /\ c \in connections /\ d \in connections

\* No connected client has a handle that could expire.
ConnectedLive ==
    \A c \in connections : session[c] \in {"open", "closing", "closed"}

\* What a handler of the io thread established before it waited for the mutex.
IoOperands ==
    /\ io.at # "idle" => io.client \in Clients
    /\ io.at = "register" => session[io.client] = "open"
    /\ io.at = "pair" => /\ <<io.client, io.partner>> \in Pairs
                         /\ {io.client, io.partner} \subseteq connections
                         /\ pairings[io.client] = NoId
                         /\ reversePairings[io.partner] = NoId
    /\ io.at = "erase" => pairings[io.client] = NoId /\ reversePairings[io.client] = NoId

\* Who has to be reached has been, is ahead of the walk, or is being visited, as long as
\* the iterator has not left the map; and the pairing of a visited client that is due
\* stays where the visit found it.
Reaching ==
    /\ due \subseteq connections
    /\ beat.at \in Visiting => beat.client \in Clients
    /\ beat.at \notin {"sleep", "stats"} /\ ~beat.astray =>
          \A c \in due : session[c] = "open" =>
              \/ c \in fresh
              \/ c > beat.client
              \/ beat.at \in Visiting /\ c = beat.client
    /\ beat.at \in {"at", "copy"} /\ beat.client \in due => Found # NoId
    /\ beat.at = "copy" /\ beat.client \in due => beat.target = Found

BeatInv ==
    HeartbeatTypeOK /\ PairsBound /\ ConnectedLive /\ IoOperands /\ Reaching /\ RoundReachesAll

\* Ids are numbers, and the empty one is the first.
LEMMA IdsOrdered ==
    /\ Clients \subseteq Ids /\ NoId \in Ids /\ NoId = 0
    /\ \A c \in Clients : c \in Nat /\ c > NoId /\ c # NoId
    /\ \A i \in Ids : i \in Nat
BY DEF Ids

\* A frame whose fields have their types is a frame.
LEMMA DeliverTyped ==
    ASSUME NEW to \in Clients, NEW type \in FrameTypes, NEW clientId \in Ids,
           NEW targetId \in Ids, NEW message \in Payloads
    PROVE  Deliver(to, type, clientId, targetId, message) \subseteq Frames
BY DEF Deliver, Frame, Frames

-----------------------------------------------------------------------------
(* Types.                                                                  *)

\* The types hold when the process starts.
LEMMA TypeInit == HeartbeatInit => HeartbeatTypeOK
BY IdsOrdered
DEF HeartbeatInit, EndpointInit, ConnectionManagerInit, HeartbeatTypeOK, SessionStates,
    IoPlaces, IoIdle, BeatPlaces, Asleep

\* A pair of the bind requests names two clients.
LEMMA PairEnds ==
    ASSUME NEW p \in Pairs
    PROVE  p[1] \in Clients /\ p[2] \in Clients /\ p = <<p[1], p[2]>>
OBVIOUS

\* The partner of a client that has one is a client.
LEMMA PartnerIsClient ==
    ASSUME HeartbeatTypeOK, NEW c \in Clients
    PROVE  GetPair(c) \in Ids /\ (GetPair(c) # NoId => GetPair(c) \in Clients)
BY DEF HeartbeatTypeOK, GetPair, Ids

\* The io thread's steps keep the types.
LEMMA IoTypes ==
    ASSUME HeartbeatTypeOK, IoOperands,
           \/ \E c \in Clients : Open(c) \/ Close(c) \/ Lose(c)
           \/ \E p \in Pairs : Bind(p[1], p[2])
           \/ IoStep
    PROVE  HeartbeatTypeOK'
<1> USE IdsOrdered DEF HeartbeatTypeOK
<1>1. ASSUME NEW c \in Clients, Open(c)
      PROVE  HeartbeatTypeOK'
  BY <1>1 DEF Open, connVars, roundVars, SessionStates, IoPlaces, IoIdle, IoSections
<1>2. ASSUME NEW c \in Clients, Lose(c)
      PROVE  HeartbeatTypeOK'
  BY <1>2 DEF Lose, PeerCloses, Drop, Release, connVars, roundVars, SessionStates
<1>3. ASSUME NEW c \in Clients, Close(c)
      PROVE  HeartbeatTypeOK'
  <2>1. io' \in IoPlaces
    BY <1>3 DEF Close, IoPlaces, IoIdle
  <2>2. out' \subseteq Frames
    BY <1>3, PartnerIsClient, DeliverTyped DEF Close, FrameTypes, Payloads
  <2> QED
    BY <1>3, <2>1, <2>2 DEF Close, mapVars, roundVars
<1>4. ASSUME NEW p \in Pairs, Bind(p[1], p[2])
      PROVE  HeartbeatTypeOK'
  <2>1. io' \in IoPlaces
    BY <1>4, PairEnds DEF Bind, IoPlaces, IoSections
  <2> QED
    BY <1>4, <2>1 DEF Bind, mapVars, roundVars
<1>5. CASE IoLock
  BY <1>5 DEF IoLock, mapVars, roundVars
<1>6. CASE Register
  <2>1. io.client \in Clients
    BY <1>6 DEF Register, IoOperands
  <2>2. out' \subseteq Frames
    BY <1>6, <2>1, DeliverTyped DEF Register, FrameTypes, Payloads
  <2>3. io' \in IoPlaces
    BY <1>6 DEF Register, IoReturns, IoPlaces, IoIdle
  <2> QED
    BY <1>6, <2>1, <2>2, <2>3 DEF Register, IoUnlocks, RegisterConn, pairVars, roundVars
<1>7. CASE PairLocked
  <2>1. io.client \in Clients /\ io.partner \in Clients
    BY <1>7, PairEnds DEF PairLocked, IoOperands
  <2>2. out' \subseteq Frames
    <3> DEFINE Told(c) == Deliver(c, "bind", io.client, io.partner, "200")
    <3>1. \A c \in {io.client, io.partner} : Told(c) \subseteq Frames
      BY <2>1, DeliverTyped DEF FrameTypes, Payloads
    <3>2. out' = UNION {Told(c) : c \in {io.client, io.partner}}
      BY <1>7 DEF PairLocked
    <3> QED
      BY <3>1, <3>2, Zenon
  <2>3. io' \in IoPlaces
    BY <1>7 DEF PairLocked, IoReturns, IoPlaces, IoIdle
  <2> QED
    BY <1>7, <2>1, <2>2, <2>3 DEF PairLocked, IoUnlocks, Pair, roundVars
<1>8. CASE TellPartner
  <2>1. io.client \in Clients
    BY <1>8 DEF TellPartner, IoOperands
  <2>2. out' \subseteq Frames
    <3> DEFINE partner == GetPair(io.client)
    <3>1. CASE partner # NoId
      <4>1. Deliver(partner, "break", io.client, partner, "209") \subseteq Frames
        BY <2>1, <3>1, PartnerIsClient, DeliverTyped DEF FrameTypes, Payloads
      <4> QED
        BY <1>8, <3>1, <4>1 DEF TellPartner, Terminate
    <3>2. CASE partner = NoId
      BY <1>8, <3>2 DEF TellPartner
    <3> QED
      BY <3>1, <3>2
  <2>3. io' \in IoPlaces /\ alive' \in BOOLEAN
    BY <1>8 DEF TellPartner, IoGoes, IoPlaces, IoSections, Terminate
  <2> QED
    BY <1>8, <2>2, <2>3 DEF TellPartner, mapVars, roundVars
<1>9. CASE UnpairLocked
  <2>1. io' \in IoPlaces
    BY <1>9 DEF UnpairLocked, IoGoes, IoPlaces, IoSections
  <2> QED
    BY <1>9, <2>1 DEF UnpairLocked, IoUnlocks, Unpair
<1>10. CASE EraseLocked
  <2>1. io' \in IoPlaces
    BY <1>10 DEF EraseLocked, IoReturns, IoPlaces, IoIdle
  <2> QED
    BY <1>10, <2>1 DEF EraseLocked, IoUnlocks, pairVars, SessionStates
<1> QED
  BY <1>1, <1>2, <1>3, <1>4, <1>5, <1>6, <1>7, <1>8, <1>9, <1>10 DEF IoStep

\* The heartbeat thread's steps keep the types.
LEMMA BeatTypes ==
    ASSUME HeartbeatTypeOK, Reaching, BeatStep
    PROVE  HeartbeatTypeOK'
<1> USE IdsOrdered DEF HeartbeatTypeOK
<1>1. CASE BeatLock
  BY <1>1 DEF BeatLock, BeatOnly, mapVars, roundVars
<1>2. CASE WakeUp
  <2>1. beat' \in BeatPlaces
    BY <1>2 DEF WakeUp, BeatGoes, BeatPlaces, BeatSections
  <2> QED
    BY <1>2, <2>1 DEF WakeUp, BeatOnly, mapVars, roundVars
<1>3. CASE GetStats
  <2>1. beat' \in BeatPlaces
    BY <1>3 DEF GetStats, Asleep, BeatPlaces
  <2> QED
    BY <1>3, <2>1 DEF GetStats, BeatUnlocks, BeatOnly, mapVars
<1>4. CASE Walk \/ WalkFromFreed
  <2>1. ASSUME NEW stray \in BOOLEAN, beat' = [Asleep EXCEPT !.astray = stray]
        PROVE  beat' \in BeatPlaces
    <3>1. beat' = [at |-> "sleep", client |-> NoId, inMap |-> "pairings", second |-> FALSE,
                   target |-> NoId, astray |-> stray]
      BY <2>1, Zenon DEF Asleep
    <3> QED
      BY <3>1 DEF BeatPlaces
  <2>2. ASSUME NEW c \in Clients, NEW stray \in BOOLEAN,
               beat' = [Asleep EXCEPT !.at = "look", !.client = c, !.astray = stray]
        PROVE  beat' \in BeatPlaces
    <3>1. beat' = [at |-> "look", client |-> c, inMap |-> "pairings", second |-> FALSE,
                   target |-> NoId, astray |-> stray]
      BY <2>2, Zenon DEF Asleep
    <3> QED
      BY <3>1 DEF BeatPlaces, Visiting
  <2>3. beat.astray \in BOOLEAN /\ Ahead \subseteq Clients /\ Freed \subseteq Clients
    BY DEF BeatPlaces, Ahead, Freed
  <2>4. beat' \in BeatPlaces
    <3>1. CASE Walk
      <4>1. \/ beat' = [Asleep EXCEPT !.astray = beat.astray]
            \/ \E c \in Ahead :
                  beat' = [Asleep EXCEPT !.at = "look", !.client = c, !.astray = beat.astray]
        BY <3>1, Zenon DEF Walk
      <4> QED
        BY <2>1, <2>2, <2>3, <4>1, Zenon
    <3>2. CASE WalkFromFreed
      <4>1. \/ beat' = [Asleep EXCEPT !.astray = TRUE]
            \/ \E c \in connections \cup Freed :
                  beat' = [Asleep EXCEPT !.at = "look", !.client = c, !.astray = TRUE]
        BY <3>2, Zenon DEF WalkFromFreed
      <4> QED
        BY <2>1, <2>2, <2>3, <4>1, Zenon
    <3> QED
      BY <1>4, <3>1, <3>2
  <2> QED
    BY <1>4, <2>4 DEF Walk, WalkFromFreed, BeatOnly, mapVars, roundVars
<1>5. CASE Look
  <2>1. beat' \in BeatPlaces /\ alive' \in BOOLEAN /\ out' = {}
    BY <1>5 DEF Look, BeatOnly, BeatGoes, BeatPlaces, Visiting, Terminate
  <2> QED
    BY <1>5, <2>1 DEF Look, BeatOnly, mapVars, roundVars
<1>6. CASE Find
  <2>1. beat' \in BeatPlaces
    BY <1>6 DEF Find, BeatPlaces, Visiting
  <2> QED
    BY <1>6, <2>1 DEF Find, BeatOnly, mapVars, roundVars
<1>7. CASE At
  <2>1. Found \in Ids
    BY <1>7 DEF At, Reaching, Visiting, Found
  <2>2. beat' \in BeatPlaces
    BY <1>7, <2>1 DEF At, BeatPlaces, Visiting
  <2> QED
    BY <1>7, <2>2 DEF At, BeatOnly, mapVars, roundVars
<1>12. CASE Copy
  <2>1. beat' \in BeatPlaces
    BY <1>12 DEF Copy, BeatGoes, BeatPlaces, Visiting
  <2> QED
    BY <1>12, <2>1 DEF Copy, BeatOnly, mapVars, roundVars
<1>8. CASE Send
  <2>1. beat' \in BeatPlaces
    BY <1>8 DEF Send, BeatGoes, BeatPlaces, Visiting
  <2>2. beat.target \in Ids /\ beat.client \in Clients
    BY <1>8 DEF Send, BeatPlaces, Reaching, Visiting
  <2>3. out' \subseteq Frames
    BY <1>8, <2>2, DeliverTyped DEF Send, FrameTypes, Payloads
  <2> QED
    BY <1>8, <2>1, <2>3 DEF Send, mapVars, roundVars
<1>9. CASE Update
  <2>1. beat' \in BeatPlaces
    BY <1>9 DEF Update, BeatGoes, BeatPlaces, Visiting, BeatSections
  <2> QED
    BY <1>9, <2>1 DEF Update, BeatOnly, mapVars, roundVars
<1>10. CASE Refresh
  <2>1. beat' \in BeatPlaces
    BY <1>10 DEF Refresh, BeatGoes, BeatPlaces
  <2> QED
    BY <1>10, <2>1 DEF Refresh, BeatUnlocks, BeatOnly, mapVars
<1>11. CASE Dangles
  BY <1>11 DEF Dangles, Terminate, mapVars, roundVars
<1> QED
  BY <1>1, <1>2, <1>3, <1>4, <1>5, <1>6, <1>7, <1>8, <1>9, <1>10, <1>11, <1>12 DEF BeatStep

-----------------------------------------------------------------------------
(* The io thread's invariants.                                             *)

IoInv == PairsBound /\ ConnectedLive /\ IoOperands

\* Nobody is connected and no handler runs when the process starts.
LEMMA IoInit == HeartbeatInit => IoInv
BY DEF HeartbeatInit, EndpointInit, ConnectionManagerInit, IoInv, PairsBound, ConnectedLive,
       IoOperands, IoIdle

\* The heartbeat thread changes nothing that the io thread relies on.
LEMMA BeatLeavesMaps == BeatStep => UNCHANGED <<mapVars, io>>
BY DEF BeatStep, BeatLock, WakeUp, GetStats, Walk, WalkFromFreed, Look, Find, At, Copy,
       Send, Update, Refresh, Dangles, BeatOnly

\* No step frees the handle of a connected client.
LEMMA LiveStep ==
    ASSUME HeartbeatTypeOK, IoInv,
           \/ \E c \in Clients : Open(c) \/ Close(c) \/ Lose(c)
           \/ \E p \in Pairs : Bind(p[1], p[2])
           \/ IoStep
    PROVE  ConnectedLive'
<1> USE DEF HeartbeatTypeOK, IoInv, ConnectedLive
<1>1. ASSUME NEW c \in Clients, Open(c) \/ Close(c)
      PROVE  ConnectedLive'
  BY <1>1 DEF Open, Close, connVars, mapVars
<1>2. ASSUME NEW c \in Clients, Lose(c)
      PROVE  ConnectedLive'
  BY <1>2 DEF Lose, PeerCloses, Drop, Release, connVars
<1>3. ASSUME NEW p \in Pairs, Bind(p[1], p[2])
      PROVE  ConnectedLive'
  BY <1>3 DEF Bind, mapVars
<1>4. CASE IoLock \/ TellPartner \/ UnpairLocked \/ PairLocked
  BY <1>4 DEF IoLock, TellPartner, UnpairLocked, PairLocked, Pair, mapVars
<1>5. CASE Register
  BY <1>5 DEF Register, RegisterConn, IoOperands
<1>6. CASE EraseLocked
  BY <1>6 DEF EraseLocked
<1> QED
  BY <1>1, <1>2, <1>3, <1>4, <1>5, <1>6 DEF IoStep

\* pair and unpair write both maps at the two ends of one pairing, and a client is not
\* erased before its pairing is dissolved.
LEMMA PairsBoundStep ==
    ASSUME HeartbeatTypeOK, IoInv, RolesDisjoint,
           \/ \E c \in Clients : Open(c) \/ Close(c) \/ Lose(c)
           \/ \E p \in Pairs : Bind(p[1], p[2])
           \/ IoStep
    PROVE  PairsBound'
<1> USE IdsOrdered DEF HeartbeatTypeOK, IoInv, PairsBound
<1>1. CASE \/ \E c \in Clients : Open(c) \/ Close(c) \/ Lose(c)
           \/ \E p \in Pairs : Bind(p[1], p[2])
           \/ IoLock \/ TellPartner
  <2>1. UNCHANGED <<connections, pairings, reversePairings>>
    BY <1>1 DEF Open, Close, Lose, Bind, IoLock, TellPartner, connVars, mapVars
  <2> QED
    BY <2>1
<1>2. CASE Register
  BY <1>2 DEF Register, RegisterConn, pairVars
<1>3. CASE PairLocked
  <2> DEFINE w == io.client
             a == io.partner
  <2>1. /\ <<w, a>> \in Pairs /\ w \in connections /\ a \in connections
        /\ w \in Clients /\ a \in Clients
        /\ pairings[w] = NoId /\ reversePairings[a] = NoId
    BY <1>3 DEF PairLocked, IoOperands
  <2>2. /\ pairings' = [pairings EXCEPT ![w] = a]
        /\ reversePairings' = [reversePairings EXCEPT ![a] = w]
        /\ connections' = connections
    BY <1>3 DEF PairLocked, Pair
  <2>3. SUFFICES ASSUME NEW c \in Clients, NEW d \in Clients
                 PROVE  /\ pairings'[c] = d <=> reversePairings'[d] = c
                        /\ pairings'[c] = d => /\ <<c, d>> \in Pairs
                                               /\ c \in connections /\ d \in connections
    BY <2>2
  <2>4. /\ pairings'[c] = IF c = w THEN a ELSE pairings[c]
        /\ reversePairings'[d] = IF d = a THEN w ELSE reversePairings[d]
    BY <2>2
  <2>5. /\ pairings[c] = d <=> reversePairings[d] = c
        /\ pairings[c] = d => <<c, d>> \in Pairs /\ c \in connections /\ d \in connections
        /\ pairings[w] # d /\ reversePairings[d] # w /\ reversePairings[a] # c
        /\ pairings[c] # a
    BY <2>1
  <2> HIDE DEF w, a
  <2> QED
    BY <2>1, <2>4, <2>5
<1>4. CASE UnpairLocked
  <2> DEFINE id == io.client
             w == WebSide(id)
             a == AppSide(id)
  <2>1. id \in Clients /\ GetPair(id) # NoId
    BY <1>4 DEF UnpairLocked, Unpair, IoOperands
  <2>2. w \in Clients /\ a \in Clients /\ pairings[w] = a /\ reversePairings[a] = w
    <3> HIDE DEF id
    <3>1. CASE pairings[id] # NoId
      <4>1. pairings[id] \in Clients /\ w = id /\ a = pairings[id]
        BY <2>1, <3>1 DEF WebSide, AppSide, Ids
      <4> QED
        BY <2>1, <4>1
    <3>2. CASE pairings[id] = NoId
      <4>1. reversePairings[id] \in Clients /\ w = reversePairings[id] /\ a = id
        BY <2>1, <3>2 DEF WebSide, AppSide, GetPair, Ids
      <4> QED
        BY <2>1, <4>1
    <3> QED
      BY <3>1, <3>2
  <2>3. /\ pairings' = [pairings EXCEPT ![w] = NoId]
        /\ reversePairings' = [reversePairings EXCEPT ![a] = NoId]
        /\ connections' = connections
    BY <1>4 DEF UnpairLocked, Unpair
  <2>4. SUFFICES ASSUME NEW c \in Clients, NEW d \in Clients
                 PROVE  /\ pairings'[c] = d <=> reversePairings'[d] = c
                        /\ pairings'[c] = d => /\ <<c, d>> \in Pairs
                                               /\ c \in connections /\ d \in connections
    BY <2>3
  <2>5. /\ pairings'[c] = IF c = w THEN NoId ELSE pairings[c]
        /\ reversePairings'[d] = IF d = a THEN NoId ELSE reversePairings[d]
    BY <2>3
  <2>6. /\ pairings[c] = d <=> reversePairings[d] = c
        /\ pairings[c] = d => <<c, d>> \in Pairs /\ c \in connections /\ d \in connections
        /\ NoId # c /\ NoId # d
    OBVIOUS
  <2> HIDE DEF w, a
  <2> QED
    BY <2>2, <2>5, <2>6
<1>5. CASE EraseLocked
  <2>1. /\ UNCHANGED <<pairings, reversePairings>>
        /\ connections' = connections \ {io.client}
        /\ pairings[io.client] = NoId /\ reversePairings[io.client] = NoId
    BY <1>5 DEF EraseLocked, IoOperands, pairVars
  <2>2. SUFFICES ASSUME NEW c \in Clients, NEW d \in Clients, pairings[c] = d
                 PROVE  c # io.client /\ d # io.client
    BY <2>1
  <2> QED
    BY <2>1, <2>2
<1> QED
  BY <1>1, <1>2, <1>3, <1>4, <1>5 DEF IoStep

\* With disjoint roles, dissolving the pairing that getPair finds leaves a client without
\* any.
LEMMA UnpairLeavesNone ==
    ASSUME HeartbeatTypeOK, PairsBound, RolesDisjoint, NEW id \in Clients, Unpair(id)
    PROVE  pairings'[id] = NoId /\ reversePairings'[id] = NoId
<1> USE IdsOrdered DEF HeartbeatTypeOK, PairsBound
<1>1. pairings[id] \in Ids /\ reversePairings[id] \in Ids
  OBVIOUS
<1>2. CASE pairings[id] # NoId
  <2>1. pairings[id] \in Clients /\ <<id, pairings[id]>> \in Pairs
    BY <1>1, <1>2 DEF Ids
  <2>2. ASSUME reversePairings[id] # NoId
        PROVE  FALSE
    <3>1. reversePairings[id] \in Clients
      BY <1>1, <2>2 DEF Ids
    <3>2. <<reversePairings[id], id>> \in Pairs
      BY <3>1
    <3> QED
      BY <2>1, <3>2 DEF RolesDisjoint
  <2> QED
    BY <1>2, <2>2 DEF Unpair, WebSide, AppSide
<1>3. CASE pairings[id] = NoId
  BY <1>3 DEF Unpair, WebSide, AppSide
<1> QED
  BY <1>2, <1>3

\* A handler finds what it established still true when it gets the mutex.
LEMMA OperandsStep ==
    ASSUME HeartbeatTypeOK, IoInv, RolesDisjoint,
           \/ \E c \in Clients : Open(c) \/ Close(c) \/ Lose(c)
           \/ \E p \in Pairs : Bind(p[1], p[2])
           \/ IoStep
    PROVE  IoOperands'
<1> USE IdsOrdered DEF HeartbeatTypeOK, IoInv, IoOperands
<1>1. ASSUME NEW c \in Clients, Open(c) \/ Close(c)
      PROVE  IoOperands'
  <2>1. /\ io'.client = c /\ io'.at \in {"register", "disconnect"}
        /\ io'.at = "register" => session'[c] = "open"
    BY <1>1 DEF Open, Close, IoIdle
  <2> QED
    BY <2>1
<1>2. ASSUME NEW c \in Clients, Lose(c)
      PROVE  IoOperands'
  BY <1>2 DEF Lose
<1>3. ASSUME NEW p \in Pairs, Bind(p[1], p[2])
      PROVE  IoOperands'
  <2>1. io' = [at |-> "pair", client |-> p[1], partner |-> p[2]]
    BY <1>3 DEF Bind
  <2>2. /\ {p[1], p[2]} \subseteq connections
        /\ pairings[p[1]] = NoId /\ reversePairings[p[2]] = NoId
    BY <1>3 DEF Bind, PairRefused, HasClient
  <2>3. UNCHANGED mapVars
    BY <1>3 DEF Bind
  <2> QED
    BY <2>1, <2>2, <2>3, PairEnds DEF mapVars
<1>4. CASE IoLock
  BY <1>4 DEF IoLock, mapVars
<1>5. CASE Register \/ PairLocked \/ EraseLocked
  BY <1>5 DEF Register, PairLocked, EraseLocked, IoReturns, IoIdle
<1>6. CASE TellPartner
  <2>1. io.client \in Clients
    BY <1>6 DEF TellPartner
  <2>2. \/ io' = io
        \/ io' = [io EXCEPT !.at = "unpair"]
        \/ io' = [io EXCEPT !.at = "erase"] /\ GetPair(io.client) = NoId
    BY <1>6 DEF TellPartner, IoGoes
  <2>3. GetPair(io.client) = NoId => /\ pairings[io.client] = NoId
                                     /\ reversePairings[io.client] = NoId
    BY DEF GetPair
  <2>4. UNCHANGED mapVars
    BY <1>6 DEF TellPartner
  <2>5. io.at = "disconnect"
    BY <1>6 DEF TellPartner
  <2> QED
    BY <2>1, <2>2, <2>3, <2>4, <2>5 DEF mapVars, IoPlaces
<1>7. CASE UnpairLocked
  <2>1. io.client \in Clients /\ Unpair(io.client) /\ io' = [io EXCEPT !.at = "erase"]
    BY <1>7 DEF UnpairLocked, IoGoes
  <2> QED
    BY <2>1, UnpairLeavesNone DEF IoPlaces
<1> QED
  BY <1>1, <1>2, <1>3, <1>4, <1>5, <1>6, <1>7 DEF IoStep

-----------------------------------------------------------------------------
(* The walk.                                                               *)

RoundInv == Reaching /\ RoundReachesAll

\* Nobody is due before the first round.
LEMMA RoundInit == HeartbeatInit => RoundInv
BY DEF HeartbeatInit, RoundInv, Reaching, RoundReachesAll, Asleep, Visiting

\* The io thread adds nobody to the clients that are due, and opens no session of theirs.
LEMMA DueShrinks ==
    ASSUME HeartbeatTypeOK, IoInv, Reaching,
           \/ \E c \in Clients : Open(c) \/ Close(c) \/ Lose(c)
           \/ \E p \in Pairs : Bind(p[1], p[2])
           \/ IoStep
    PROVE  /\ UNCHANGED <<beat, fresh>>
           /\ due' \subseteq due /\ due' \subseteq connections'
           /\ \A c \in due' : session'[c] = "open" => session[c] = "open"
<1> DEFINE Shrinks == /\ UNCHANGED <<beat, fresh>>
                      /\ due' \subseteq due /\ due' \subseteq connections'
                      /\ \A c \in due' : session'[c] = "open" => session[c] = "open"
<1> USE DEF HeartbeatTypeOK, IoInv, Reaching, roundVars, mapVars, connVars
<1>1. ASSUME NEW c \in Clients, Open(c)
      PROVE  Shrinks
  <2>1. /\ UNCHANGED <<beat, fresh, due, connections>> /\ c \notin due
        /\ session' = [session EXCEPT ![c] = "open"]
    BY <1>1 DEF Open, ConnectedLive
  <2> QED
    BY <2>1
<1>2. ASSUME NEW c \in Clients, Lose(c)
      PROVE  Shrinks
  BY <1>2 DEF Lose, PeerCloses, Drop, Release
<1>3. CASE \/ \E c \in Clients : Close(c)
           \/ \E p \in Pairs : Bind(p[1], p[2])
           \/ IoLock \/ TellPartner \/ PairLocked
  BY <1>3 DEF Close, Bind, IoLock, TellPartner, PairLocked, Pair
<1>4. CASE Register
  BY <1>4 DEF Register, RegisterConn
<1>5. CASE UnpairLocked
  BY <1>5 DEF UnpairLocked
<1>6. CASE EraseLocked
  BY <1>6 DEF EraseLocked
<1> QED
  BY <1>1, <1>2, <1>3, <1>4, <1>5, <1>6, Zenon DEF IoStep

\* The pairing that the visit has found stays as long as its client is due.
LEMMA FoundStays ==
    ASSUME HeartbeatTypeOK, IoInv, beat.client \in Clients, Found # NoId,
           \/ \E c \in Clients : Open(c) \/ Close(c) \/ Lose(c)
           \/ \E p \in Pairs : Bind(p[1], p[2])
           \/ IoStep
    PROVE  beat.client \in due' => Found' = Found
<1> USE IdsOrdered DEF HeartbeatTypeOK, IoInv, roundVars, mapVars, connVars
<1>1. CASE \/ \E c \in Clients : Open(c) \/ Close(c) \/ Lose(c)
           \/ \E p \in Pairs : Bind(p[1], p[2])
           \/ IoLock \/ TellPartner \/ Register \/ EraseLocked
  BY <1>1
  DEF Open, Close, Lose, Bind, IoLock, TellPartner, Register, RegisterConn, EraseLocked,
      pairVars, Found
<1>2. CASE PairLocked
  <2>1. io.client \in Clients /\ io.partner \in Clients
    BY <1>2 DEF PairLocked, IoOperands
  <2>2. /\ pairings' = [pairings EXCEPT ![io.client] = io.partner]
        /\ reversePairings' = [reversePairings EXCEPT ![io.partner] = io.client]
        /\ pairings[io.client] = NoId /\ reversePairings[io.partner] = NoId
        /\ beat' = beat
    BY <1>2 DEF PairLocked, Pair, IoOperands
  <2> QED
    BY <2>1, <2>2 DEF Found
<1>3. CASE UnpairLocked
  <2> DEFINE id == io.client
  <2>1. /\ pairings' = [pairings EXCEPT ![WebSide(id)] = NoId]
        /\ reversePairings' = [reversePairings EXCEPT ![AppSide(id)] = NoId]
        /\ beat' = beat /\ due' = due \ {id, GetPair(id)}
    BY <1>3 DEF UnpairLocked, Unpair
  <2>2. {WebSide(id), AppSide(id)} \subseteq {id, GetPair(id)}
    BY DEF WebSide, AppSide, GetPair
  <2> HIDE DEF id
  <2> QED
    BY <2>1, <2>2 DEF Found
<1> QED
  BY <1>1, <1>2, <1>3 DEF IoStep

\* The io thread drops from the round whom it changes.
LEMMA IoRound ==
    ASSUME HeartbeatTypeOK, IoInv, RoundInv,
           \/ \E c \in Clients : Open(c) \/ Close(c) \/ Lose(c)
           \/ \E p \in Pairs : Bind(p[1], p[2])
           \/ IoStep
    PROVE  RoundInv'
<1>1. /\ UNCHANGED <<beat, fresh>>
      /\ due' \subseteq due /\ due' \subseteq connections'
      /\ \A c \in due' : session'[c] = "open" => session[c] = "open"
  BY DueShrinks DEF RoundInv
<1>2. RoundReachesAll'
  BY <1>1 DEF RoundInv, RoundReachesAll
<1>3. ASSUME beat.at \in {"at", "copy"}, beat.client \in due'
      PROVE  Found' = Found
  <2>1. beat.client \in Clients /\ Found # NoId
    BY <1>1, <1>3 DEF RoundInv, Reaching, Visiting
  <2> QED
    BY <1>3, <2>1, FoundStays
<1> QED
  BY <1>1, <1>2, <1>3 DEF RoundInv, Reaching

\* Between two nodes nobody behind the iterator is missing.
LEMMA WalkRound ==
    ASSUME HeartbeatTypeOK, RoundInv, Walk
    PROVE  RoundInv'
<1> USE IdsOrdered DEF RoundInv
<1>1. UNCHANGED <<connections, session, fresh, due>> /\ beat.at = "walk"
  BY DEF Walk, BeatOnly, mapVars, roundVars
<1>2. ~beat.astray => \A c \in due : session[c] = "open" => c \in fresh \/ c \in Ahead
  BY <1>1 DEF Reaching, Ahead, Visiting
<1>3. ASSUME Ahead = {}, beat' = [Asleep EXCEPT !.astray = beat.astray]
      PROVE  RoundInv'
  <2>1. beat'.at = "sleep" /\ beat'.astray = beat.astray
    BY <1>3 DEF Asleep
  <2> QED
    BY <1>1, <1>2, <1>3, <2>1 DEF Reaching, RoundReachesAll, Visiting
<1>4. ASSUME NEW c \in Ahead, \A d \in Ahead : c <= d,
             beat' = [Asleep EXCEPT !.at = "look", !.client = c, !.astray = beat.astray]
      PROVE  RoundInv'
  <2>1. c \in Clients /\ \A d \in Ahead : d \in Clients
    BY DEF Ahead, HeartbeatTypeOK
  <2>2. beat'.at = "look" /\ beat'.client = c /\ beat'.astray = beat.astray
    BY <1>4 DEF Asleep
  <2>3. \A d \in Ahead : d > c \/ d = c
    BY <1>4, <2>1
  <2> QED
    BY <1>1, <1>2, <2>1, <2>2, <2>3 DEF Reaching, RoundReachesAll, Visiting
<1> QED
  BY <1>3, <1>4, Zenon DEF Walk

\* A round that has left the map promises nothing.
LEMMA StrayRound ==
    ASSUME HeartbeatTypeOK, RoundInv, WalkFromFreed
    PROVE  RoundInv'
<1>1. UNCHANGED <<connections, session, fresh, due>>
  BY DEF WalkFromFreed, BeatOnly, mapVars, roundVars
<1>2. ASSUME beat' = [Asleep EXCEPT !.astray = TRUE]
      PROVE  beat'.at = "sleep" /\ beat'.astray
  BY <1>2 DEF Asleep
<1>3. ASSUME NEW c \in connections \cup Freed,
             beat' = [Asleep EXCEPT !.at = "look", !.client = c, !.astray = TRUE]
      PROVE  beat'.at = "look" /\ beat'.client \in Clients /\ beat'.astray
  BY <1>3 DEF Asleep, Freed, HeartbeatTypeOK
<1>4. /\ beat'.at \in {"sleep", "look"} /\ beat'.astray
      /\ beat'.at \in Visiting => beat'.client \in Clients
  BY <1>2, <1>3, Zenon DEF WalkFromFreed, Visiting
<1> QED
  BY <1>1, <1>4 DEF RoundInv, Reaching, RoundReachesAll

\* A visit goes on, or ends with its client reached or not to be reached any more.
LEMMA VisitRound ==
    ASSUME HeartbeatTypeOK, RoundInv, UNCHANGED <<connections, session, due>>,
           fresh \subseteq fresh', beat.at \in Visiting, beat'.client = beat.client,
           beat'.astray = beat.astray,
           beat'.at \in Visiting \cup {"walk"},
           beat'.at = "walk" /\ beat.client \in due /\ session[beat.client] = "open" =>
               beat.client \in fresh',
           beat'.at \in {"at", "copy"} /\ beat.client \in due => Found' # NoId,
           beat'.at = "copy" => beat'.target = Found'
    PROVE  RoundInv'
BY DEF RoundInv, Reaching, RoundReachesAll, Visiting

\* The heartbeat thread's steps.
LEMMA BeatRound ==
    ASSUME HeartbeatTypeOK, IoInv, RoundInv, BeatStep
    PROVE  RoundInv'
<1> USE IdsOrdered DEF HeartbeatTypeOK, roundVars
<1>1. UNCHANGED <<mapVars, connections, session, pairings, reversePairings>>
  BY BeatLeavesMaps DEF mapVars
<1>2. CASE BeatLock
  BY <1>1, <1>2 DEF BeatLock, RoundInv, Reaching, RoundReachesAll, Found
<1>3. CASE WakeUp
  <2>1. beat' = [beat EXCEPT !.at = "stats"] /\ UNCHANGED <<fresh, due>>
    BY <1>3 DEF WakeUp, BeatGoes
  <2> QED
    BY <1>1, <2>1 DEF RoundInv, Reaching, RoundReachesAll, BeatPlaces, Visiting
<1>4. CASE GetStats
  <2>1. /\ beat'.at = "walk" /\ beat'.client = NoId
        /\ due' = connections /\ fresh' = {}
    BY <1>4 DEF GetStats, Asleep
  <2> QED
    BY <1>1, <2>1 DEF RoundInv, Reaching, RoundReachesAll, Visiting
<1>5. CASE Walk \/ WalkFromFreed
  BY <1>5, WalkRound, StrayRound
<1>6. CASE Look
  <2>1. UNCHANGED <<fresh, due>> /\ beat.at = "look"
    BY <1>6 DEF Look
  <2>2. CASE beat' = beat
    BY <1>1, <2>1, <2>2 DEF RoundInv, Reaching, RoundReachesAll, Found
  <2>3. CASE beat' = [beat EXCEPT !.at = IF session[beat.client] = "open" THEN "find"
                                         ELSE "walk"]
    <3>1. /\ beat'.client = beat.client /\ beat'.astray = beat.astray
          /\ beat'.at = IF session[beat.client] = "open" THEN "find" ELSE "walk"
      BY <2>3 DEF BeatPlaces
    <3> QED
      BY <1>1, <2>1, <3>1, VisitRound DEF Visiting
  <2> QED
    BY <1>6, <2>2, <2>3 DEF Look, BeatGoes
<1>7. CASE Find
  <2>1. UNCHANGED <<fresh, due>> /\ beat.at = "find" /\ beat.client \in Clients
    BY <1>7 DEF Find, RoundInv, Reaching, Visiting
  <2>2. CASE beat' = [beat EXCEPT !.at = "send", !.target = NoId]
    <3>1. beat'.client = beat.client /\ beat'.at = "send" /\ beat'.astray = beat.astray
      BY <2>2 DEF BeatPlaces
    <3> QED
      BY <1>1, <2>1, <3>1, VisitRound DEF Visiting
  <2>3. CASE /\ GetPair(beat.client) # NoId
             /\ beat' = [beat EXCEPT !.at = "at", !.inMap = IF pairings[beat.client] # NoId
                                                           THEN "pairings"
                                                           ELSE "reversePairings"]
    <3>1. /\ beat'.client = beat.client /\ beat'.at = "at" /\ beat'.astray = beat.astray
          /\ beat'.inMap = IF pairings[beat.client] # NoId THEN "pairings"
                                                            ELSE "reversePairings"
      BY <2>3 DEF BeatPlaces
    <3>2. Found' # NoId
      BY <1>1, <2>3, <3>1 DEF Found, GetPair
    <3> QED
      BY <1>1, <2>1, <3>1, <3>2, VisitRound DEF Visiting
  <2> QED
    BY <1>7, <2>2, <2>3 DEF Find
<1>8. CASE At
  <2>1. UNCHANGED <<fresh, due>> /\ beat.at = "at"
    BY <1>8 DEF At
  <2>2. beat.client \in due => Found # NoId
    BY <2>1 DEF RoundInv, Reaching
  <2>3. /\ beat'.client = beat.client /\ beat'.astray = beat.astray
        /\ beat'.inMap = beat.inMap
        /\ beat'.at \in {"walk", "copy"}
        /\ beat'.at = "walk" => Found = NoId
        /\ beat'.at = "copy" => Found # NoId /\ beat'.target = Found
    BY <1>8 DEF At, BeatPlaces
  <2>4. Found' = Found
    BY <1>1, <2>3 DEF Found
  <2> QED
    BY <1>1, <2>1, <2>2, <2>3, <2>4, VisitRound DEF Visiting
<1>13. CASE Copy
  <2>1. UNCHANGED <<fresh, due>> /\ beat.at = "copy"
    BY <1>13 DEF Copy
  <2>2. beat.client \in due => beat.target = Found
    BY <2>1 DEF RoundInv, Reaching
  <2>3. /\ beat'.client = beat.client /\ beat'.astray = beat.astray
        /\ beat'.at \in {"walk", "send", "find"}
        /\ beat'.at = "walk" => Found # beat.target
    BY <1>13 DEF Copy, BeatGoes, PairFreed, BeatPlaces
  <2> QED
    BY <1>1, <2>1, <2>2, <2>3, VisitRound DEF Visiting
<1>9. CASE Send
  <2>1. UNCHANGED <<fresh, due>> /\ beat.at = "send"
    BY <1>9 DEF Send
  <2>2. /\ beat'.client = beat.client /\ beat'.astray = beat.astray
        /\ beat'.at = IF session[beat.client] = "open" THEN "update" ELSE "walk"
    BY <1>9 DEF Send, BeatGoes, BeatPlaces
  <2> QED
    BY <1>1, <2>1, <2>2, VisitRound DEF Visiting
<1>10. CASE Update
  <2>1. UNCHANGED <<fresh, due>> /\ beat.at = "update"
    BY <1>10 DEF Update
  <2>2. /\ beat'.client = beat.client /\ beat'.astray = beat.astray
        /\ beat'.at = IF beat.client \in connections THEN "refresh" ELSE "walk"
    BY <1>10 DEF Update, BeatGoes, HasClient, BeatPlaces
  <2>3. beat'.at = "walk" => beat.client \notin due
    BY <2>2 DEF RoundInv, Reaching
  <2> QED
    BY <1>1, <2>1, <2>2, <2>3, VisitRound DEF Visiting
<1>11. CASE Refresh
  <2>1. /\ fresh' = fresh \cup ({beat.client} \cap connections) /\ due' = due
        /\ beat.at = "refresh"
    BY <1>11 DEF Refresh
  <2>2. beat'.client = beat.client /\ beat'.at = "walk" /\ beat'.astray = beat.astray
    BY <1>11 DEF Refresh, BeatGoes, BeatPlaces
  <2>3. beat.client \in due => beat.client \in connections
    BY DEF RoundInv, Reaching
  <2> QED
    BY <1>1, <2>1, <2>2, <2>3, VisitRound DEF Visiting
<1>12. CASE Dangles
  BY <1>1, <1>12 DEF Dangles, RoundInv, Reaching, RoundReachesAll, Found
<1> QED
  BY <1>2, <1>3, <1>4, <1>5, <1>6, <1>7, <1>8, <1>9, <1>10, <1>11, <1>12,
     <1>13 DEF BeatStep

-----------------------------------------------------------------------------
(* The theorems.                                                           *)

\* Every step of the two threads keeps the invariant.
LEMMA BeatInvStep ==
    ASSUME RolesDisjoint, BeatInv, [HeartbeatNext]_beatVars
    PROVE  BeatInv'
<1> USE DEF BeatInv
<1>1. CASE \/ \E c \in Clients : Open(c) \/ Close(c) \/ Lose(c)
           \/ \E p \in Pairs : Bind(p[1], p[2])
           \/ IoStep
  BY <1>1, IoTypes, LiveStep, PairsBoundStep, OperandsStep, IoRound DEF IoInv, RoundInv
<1>2. CASE BeatStep
  <2>1. PairsBound' /\ ConnectedLive' /\ IoOperands'
    BY <1>2, BeatLeavesMaps DEF mapVars, PairsBound, ConnectedLive, IoOperands
  <2> QED
    BY <1>2, <2>1, BeatTypes, BeatRound DEF IoInv, RoundInv
<1>3. CASE UNCHANGED beatVars
  BY <1>3
  DEF beatVars, mapVars, roundVars, HeartbeatTypeOK, PairsBound, ConnectedLive, IoOperands,
      Reaching, RoundReachesAll, Found
<1> QED
  BY <1>1, <1>2, <1>3 DEF HeartbeatNext

\* The inductive invariant holds in every behaviour.
LEMMA BeatInvariant == ASSUME RolesDisjoint PROVE HeartbeatSpec => []BeatInv
<1>1. HeartbeatInit => BeatInv
  BY TypeInit, IoInit, RoundInit DEF BeatInv, IoInv, RoundInv
<1>2. BeatInv /\ [HeartbeatNext]_beatVars => BeatInv'
  BY BeatInvStep
<1> QED
  BY <1>1, <1>2, PTL DEF HeartbeatSpec

\* A round of heartbeats that steps on from no freed node reaches every client that was
\* there when it began and stays, for any number of clients that come, pair and go while
\* it walks.
THEOREM RoundReaches == ASSUME RolesDisjoint PROVE HeartbeatSpec => []RoundReachesAll
<1>1. BeatInv => RoundReachesAll
  BY DEF BeatInv
<1> QED
  BY <1>1, BeatInvariant, PTL

\* Every variable keeps its type: a heartbeat frame names clients, a place its operands.
THEOREM HeartbeatTypeCorrect == ASSUME RolesDisjoint PROVE HeartbeatSpec => []HeartbeatTypeOK
<1>1. BeatInv => HeartbeatTypeOK
  BY DEF BeatInv
<1> QED
  BY <1>1, BeatInvariant, PTL

\* Each pairing counts for two connections.
LEMMA PairsCounted ==
    ASSUME RolesDisjoint, IsFiniteSet(Clients), BeatInv
    PROVE  StatsAddUp
<1> DEFINE W == {w \in Clients : pairings[w] # NoId}
           rest == connections \ W
           f == [w \in W |-> pairings[w]]
<1> USE IdsOrdered
<1>1. \A w \in W : /\ pairings[w] \in Clients
                   /\ <<w, pairings[w]>> \in Pairs
                   /\ w \in connections /\ pairings[w] \in connections
                   /\ reversePairings[pairings[w]] = w
  BY DEF BeatInv, HeartbeatTypeOK, PairsBound, Ids
<1>2. \A w \in W : pairings[w] \in rest
  <2>1. \A v, w \in W : pairings[v] # w
    BY <1>1 DEF RolesDisjoint
  <2> QED
    BY <1>1, <2>1
<1>3. f \in Injection(W, rest)
  <2>1. f \in [W -> rest]
    BY <1>2, Zenon
  <2>2. \A v, w \in W : f[v] = f[w] => v = w
    <3>1. \A w \in W : reversePairings[f[w]] = w
      BY <1>1
    <3> QED
      BY <3>1, Zenon
  <2> HIDE DEF W, rest, f
  <2>3. DOMAIN f = W
    BY <2>1
  <2> QED
    BY <2>1, <2>2, <2>3, Zenon DEF Injection, IsInjective
<1>4. IsFiniteSet(connections) /\ IsFiniteSet(rest)
  BY FS_Subset DEF BeatInv, HeartbeatTypeOK
<1>5. IsFiniteSet(W) /\ Cardinality(W) <= Cardinality(rest)
  BY <1>3, <1>4, FS_Injection
<1>6. Cardinality(rest) = Cardinality(connections) - Cardinality(W)
  <2>1. connections \cap W = W
    BY <1>1
  <2> QED
    BY <1>4, <1>5, <2>1, FS_Difference
<1>7. Cardinality(W) \in Nat /\ Cardinality(connections) \in Nat
  BY <1>4, <1>5, FS_CardinalityType
<1> HIDE DEF rest
<1> QED
  BY <1>5, <1>6, <1>7 DEF StatsAddUp

\* However many clients there are, getStats never subtracts more clients than there are
\* connections: the unsigned difference does not wrap.
THEOREM StatsNotNegative ==
    ASSUME RolesDisjoint, IsFiniteSet(Clients) PROVE HeartbeatSpec => []StatsAddUp
<1>1. BeatInv => StatsAddUp
  BY PairsCounted
<1> QED
  BY <1>1, BeatInvariant, PTL

\* The two threads throw nothing that leaves a thread, but for the use of a freed node.
LEMMA OnlyFreedStep ==
    ASSUME BeatInv, [HeartbeatNext]_beatVars, alive, ~alive'
    PROVE  NodeErased \/ PairFreed
<1> USE IdsOrdered DEF BeatInv
<1>1. CASE \/ \E c \in Clients : Open(c) \/ Close(c) \/ Lose(c)
           \/ \E p \in Pairs : Bind(p[1], p[2])
           \/ IoLock \/ Register \/ PairLocked \/ UnpairLocked \/ EraseLocked
  BY <1>1 DEF Open, Close, Lose, Bind, IoLock, Register, PairLocked, UnpairLocked, EraseLocked
<1>2. CASE TellPartner
  <2>1. io.client \in Clients
    BY <1>2 DEF TellPartner, IoOperands
  <2>2. GetPair(io.client) # NoId => HasClient(GetPair(io.client))
    BY <2>1 DEF HeartbeatTypeOK, PairsBound, GetPair, HasClient, Ids
  <2> QED
    BY <1>2, <2>2 DEF TellPartner
<1>3. CASE Look
  <2>1. beat.client \in Clients /\ session[beat.client] = "released"
    BY <1>3 DEF Look, BeatOnly, HandleExpired, Reaching, Visiting
  <2> QED
    BY <2>1 DEF ConnectedLive, NodeErased, HasClient
<1>4. CASE Dangles
  BY <1>4 DEF Dangles
<1>5. CASE BeatStep /\ ~Look /\ ~Dangles
  BY <1>5
  DEF BeatStep, BeatLock, WakeUp, GetStats, Walk, WalkFromFreed, Find, At, Copy, Send,
      Update, Refresh, BeatOnly
<1>6. CASE UNCHANGED beatVars
  BY <1>6 DEF beatVars
<1> QED
  BY <1>1, <1>2, <1>3, <1>4, <1>5, <1>6 DEF HeartbeatNext, IoStep

\* Of all the exceptions and expired handles that the heartbeat thread, and the io thread in
\* opening, binding and closing, can meet, only those of a node that was freed under the
\* heartbeat's visit end the process.
THEOREM OnlyFreedKills == ASSUME RolesDisjoint PROVE HeartbeatSpec => OnlyFreedNodeKills
<1>1. BeatInv /\ [HeartbeatNext]_beatVars
          => [alive /\ ~alive' => NodeErased \/ PairFreed]_beatVars
  BY OnlyFreedStep
<1> QED
  BY <1>1, BeatInvariant, PTL DEF HeartbeatSpec, OnlyFreedNodeKills

-----------------------------------------------------------------------------
(* The two sections of disconnect implement one step of the registry.      *)

onlineBar == {c \in connections : ~(io.at = "erase" /\ io.client = c)}

bondsBar == {{c, pairings[c]} : c \in {w \in Clients : pairings[w] # NoId}}

\* A bond is a web page with its entry in pairings.
LEMMA BondMembers ==
    \A b : b \in bondsBar <=> \E w \in Clients : pairings[w] # NoId /\ b = {w, pairings[w]}
BY DEF bondsBar

\* The same after a step.
LEMMA BondMembersNext ==
    \A b : b \in bondsBar' <=>
        \E w \in Clients : pairings'[w] # NoId /\ b = {w, pairings'[w]}
BY DEF bondsBar

\* The handler of pair() bonds two clients of the registry.
LEMMA PairBonds ==
    ASSUME HeartbeatTypeOK, IoInv, RolesDisjoint, PairLocked, NEW web \in Clients,
           NEW app \in Clients, web = io.client, app = io.partner
    PROVE  Registry!Bond(web, app)
<1> USE IdsOrdered DEF HeartbeatTypeOK, IoInv, PairsBound
<1>1. /\ io.at = "pair" /\ io'.at = "idle" /\ <<web, app>> \in Pairs
      /\ web \in connections /\ app \in connections
      /\ pairings[web] = NoId /\ reversePairings[app] = NoId
      /\ pairings' = [pairings EXCEPT ![web] = app]
      /\ connections' = connections
  BY DEF PairLocked, IoReturns, IoIdle, IoOperands, Pair
<1>2. web # app /\ app # NoId
  BY <1>1 DEF RolesDisjoint
<1>3. \A w \in Clients : pairings[w] # NoId =>
          /\ w # web /\ w # app
          /\ pairings[w] # web /\ pairings[w] # app
  <2> SUFFICES ASSUME NEW w \in Clients, pairings[w] # NoId
               PROVE  w # web /\ w # app /\ pairings[w] # web /\ pairings[w] # app
    OBVIOUS
  <2>1. pairings[w] \in Clients
    BY DEF Ids
  <2>2. <<w, pairings[w]>> \in Pairs /\ reversePairings[pairings[w]] = w
    BY <2>1
  <2>3. w # app /\ pairings[w] # web
    BY <1>1, <2>2 DEF RolesDisjoint
  <2>4. w # web /\ pairings[w] # app
    BY <1>1, <2>2
  <2> QED
    BY <2>3, <2>4
<1>4. \A e \in bondsBar : web \notin e /\ app \notin e
  BY <1>3, BondMembers
<1>5. bondsBar' = bondsBar \cup {{web, app}}
  <2>1. \A w \in Clients : pairings'[w] = IF w = web THEN app ELSE pairings[w]
    BY <1>1
  <2>2. ASSUME NEW e, e \in bondsBar'
        PROVE  e \in bondsBar \/ e = {web, app}
    BY <2>1, <2>2, BondMembers, BondMembersNext
  <2>3. ASSUME NEW e \in bondsBar
        PROVE  e \in bondsBar'
    <3> PICK w \in Clients : pairings[w] # NoId /\ e = {w, pairings[w]}
      BY BondMembers
    <3>1. pairings'[w] = pairings[w]
      BY <1>3, <2>1
    <3> QED
      BY <3>1, BondMembersNext
  <2>4. {web, app} \in bondsBar'
    <3>1. pairings'[web] = app
      BY <2>1
    <3> QED
      BY <1>2, <3>1, BondMembersNext
  <2>5. \A e : e \in bondsBar' <=> e \in bondsBar \/ e = {web, app}
    BY <2>2, <2>3, <2>4
  <2> QED
    BY <2>5
<1>6. onlineBar = connections /\ onlineBar' = onlineBar
  BY <1>1 DEF onlineBar
<1>7. ~Registry!Bonded(web) /\ ~Registry!Bonded(app)
  BY <1>4 DEF Registry!Bonded, bondsBar
<1>8. {web, app} \subseteq onlineBar
  BY <1>1, <1>6
<1> QED
  BY <1>2, <1>5, <1>6, <1>7, <1>8, Zenon DEF Registry!Bond, onlineBar, bondsBar

\* The section of unpair() makes its client leave the registry with its pairing.
LEMMA UnpairLeaves ==
    ASSUME HeartbeatTypeOK, IoInv, RolesDisjoint, UnpairLocked, NEW id \in Clients,
           id = io.client
    PROVE  Registry!Leave(id)
<1> USE IdsOrdered DEF HeartbeatTypeOK, IoInv, PairsBound
<1>1. /\ io.at = "unpair" /\ io'.at = "erase" /\ io'.client = id
      /\ connections' = connections /\ id \in connections
      /\ Unpair(id) /\ GetPair(id) # NoId
  BY DEF UnpairLocked, IoGoes, IoPlaces, Unpair, HasClient
<1>2. /\ pairings'[id] = NoId
      /\ pairings' = [pairings EXCEPT ![WebSide(id)] = NoId]
  BY <1>1, UnpairLeavesNone DEF Unpair
<1>3. WebSide(id) \in Clients /\ id \in {WebSide(id), pairings[WebSide(id)]}
  BY <1>1 DEF WebSide, GetPair, Ids
<1>4. \A w \in Clients : pairings[w] # NoId /\ w # WebSide(id) => id \notin {w, pairings[w]}
  <2> SUFFICES ASSUME NEW w \in Clients, pairings[w] # NoId, w # WebSide(id)
               PROVE  w # id /\ pairings[w] # id
    OBVIOUS
  <2>1. w # id
    BY <1>1, <1>2
  <2>2. ASSUME pairings[w] = id
        PROVE  FALSE
    <3>1. reversePairings[id] = w /\ <<w, id>> \in Pairs
      BY <1>1, <2>2
    <3>2. pairings[id] = NoId
      <4> SUFFICES ASSUME pairings[id] \in Clients
                   PROVE  FALSE
        BY <1>1 DEF Ids
      <4>1. <<id, pairings[id]>> \in Pairs
        BY <1>1
      <4> QED
        BY <3>1, <4>1 DEF RolesDisjoint
    <3> QED
      BY <3>1, <3>2 DEF WebSide
  <2> QED
    BY <2>1, <2>2
<1>5. \A w \in Clients : pairings'[w] = IF w = WebSide(id) THEN NoId ELSE pairings[w]
  BY <1>2
<1>6. \A e : e \in bondsBar' <=> e \in bondsBar /\ id \notin e
  BY <1>3, <1>4, <1>5, BondMembers, BondMembersNext
<1>7. bondsBar' = {e \in bondsBar : id \notin e}
  BY <1>6
<1>8. onlineBar = connections /\ onlineBar' = onlineBar \ {id}
  BY <1>1 DEF onlineBar
<1> QED
  BY <1>1, <1>7, <1>8 DEF Registry!Leave, onlineBar, bondsBar

\* A client without a partner leaves the registry when disconnect has found that.
LEMMA AloneLeaves ==
    ASSUME HeartbeatTypeOK, IoInv, TellPartner
    PROVE  [Registry!Next]_<<onlineBar, bondsBar>>
<1> USE IdsOrdered DEF HeartbeatTypeOK, IoInv, PairsBound
<1> PICK id \in Clients : id = io.client
  BY DEF TellPartner, IoOperands
<1>1. io.at = "disconnect" /\ UNCHANGED <<connections, pairings>>
  BY DEF TellPartner, mapVars
<1>2. UNCHANGED bondsBar
  BY <1>1 DEF bondsBar
<1>3. \/ io'.at # "erase"
      \/ io'.at = "erase" /\ io'.client = id /\ GetPair(id) = NoId
  BY DEF TellPartner, IoGoes, IoPlaces
<1>4. CASE io'.at # "erase"
  BY <1>1, <1>2, <1>4 DEF onlineBar
<1>5. CASE io'.at = "erase" /\ io'.client = id /\ GetPair(id) = NoId
  <2>1. onlineBar = connections /\ onlineBar' = connections \ {id}
    BY <1>1, <1>5 DEF onlineBar
  <2>2. CASE id \notin connections
    BY <1>2, <2>1, <2>2
  <2>3. CASE id \in connections
    <3>0. pairings[id] = NoId /\ reversePairings[id] = NoId
      BY <1>5 DEF GetPair
    <3>1. \A w \in Clients : pairings[w] # NoId => w # id /\ pairings[w] # id
      <4> SUFFICES ASSUME NEW w \in Clients, pairings[w] = id
                   PROVE  FALSE
        BY <3>0
      <4>1. reversePairings[id] = w
        OBVIOUS
      <4> QED
        BY <3>0, <4>1
    <3>2. \A e \in bondsBar : id \notin e
      BY <3>1, BondMembers
    <3>3. bondsBar' = {e \in bondsBar : id \notin e}
      BY <1>2, <3>2
    <3>4. Registry!Leave(id)
      BY <2>1, <2>3, <3>3 DEF Registry!Leave, onlineBar, bondsBar
    <3> QED
      BY <3>4 DEF Registry!Next
  <2> QED
    BY <2>2, <2>3
<1> QED
  BY <1>3, <1>4, <1>5

\* Every step is a step of the registry or leaves it alone.
LEMMA RegistryStep ==
    ASSUME HeartbeatTypeOK, IoInv, RolesDisjoint, [HeartbeatNext]_beatVars
    PROVE  [Registry!Next]_<<onlineBar, bondsBar>>
<1> DEFINE Simulated == [Registry!Next]_<<onlineBar, bondsBar>>
<1> SUFFICES Simulated
  OBVIOUS
<1>1. UNCHANGED <<connections, pairings>> /\ (UNCHANGED io \/ "erase" \notin {io.at, io'.at})
          => Simulated
  BY DEF onlineBar, bondsBar
<1>2. UNCHANGED <<onlineBar, bondsBar>> => Simulated
  OBVIOUS
<1>3. ASSUME NEW c \in Clients, NEW d \in Clients,
             Registry!Join(c) \/ Registry!Leave(c) \/ Registry!Bond(c, d)
      PROVE  Simulated
  BY <1>3 DEF Registry!Next
<1> HIDE DEF Simulated
<1>4. ASSUME NEW c \in Clients, Open(c) \/ Close(c) \/ Lose(c)
      PROVE  Simulated
  BY <1>1, <1>4 DEF Open, Close, Lose, IoIdle, connVars, mapVars
<1>5. ASSUME NEW p \in Pairs, Bind(p[1], p[2])
      PROVE  Simulated
  BY <1>1, <1>5 DEF Bind, mapVars
<1>6. CASE IoLock \/ BeatStep
  BY <1>1, <1>6, BeatLeavesMaps DEF IoLock, mapVars
<1>7. CASE Register
  <2>1. /\ io.at = "register" /\ io'.at = "idle" /\ io.client \in Clients
        /\ connections' = connections \cup {io.client} /\ UNCHANGED pairings
    BY <1>7 DEF Register, RegisterConn, IoReturns, IoIdle, IoInv, IoOperands, pairVars
  <2> PICK c \in Clients : c = io.client
    BY <2>1
  <2>2. onlineBar = connections /\ onlineBar' = connections' /\ UNCHANGED bondsBar
    BY <2>1 DEF onlineBar, bondsBar
  <2>3. CASE c \in connections
    BY <1>2, <2>1, <2>2, <2>3
  <2>4. CASE c \notin connections
    <3>1. Registry!Join(c)
      BY <2>1, <2>2, <2>4 DEF Registry!Join, onlineBar, bondsBar
    <3> QED
      BY <1>3, <3>1
  <2> QED
    BY <2>3, <2>4
<1>8. CASE PairLocked
  <2>1. <<io.client, io.partner>> \in Pairs
    BY <1>8 DEF PairLocked, IoInv, IoOperands
  <2> PICK c \in Clients, d \in Clients : c = io.client /\ d = io.partner
    BY <2>1
  <2> QED
    BY <1>3, <1>8, PairBonds
<1>9. CASE TellPartner
  BY <1>9, AloneLeaves DEF Simulated
<1>10. CASE UnpairLocked
  <2> PICK c \in Clients : c = io.client
    BY <1>10 DEF UnpairLocked, IoInv, IoOperands
  <2> QED
    BY <1>3, <1>10, UnpairLeaves
<1>11. CASE EraseLocked
  <2>1. /\ io.at = "erase" /\ io'.at = "idle" /\ UNCHANGED pairings
        /\ connections' = connections \ {io.client}
    BY <1>11 DEF EraseLocked, IoReturns, IoIdle, pairVars
  <2>2. UNCHANGED <<onlineBar, bondsBar>>
    BY <2>1 DEF onlineBar, bondsBar
  <2> QED
    BY <1>2, <2>2
<1>12. CASE UNCHANGED beatVars
  BY <1>1, <1>12 DEF beatVars, mapVars
<1> QED
  BY <1>4, <1>5, <1>6, <1>7, <1>8, <1>9, <1>10, <1>11, <1>12 DEF HeartbeatNext, IoStep

\* The maps under the mutex implement the registry of pairs, although the heartbeat
\* thread runs between the sections and disconnect() is two of them: a client leaves,
\* with its pairing, in the section of unpair or when it is found to have none.
THEOREM HeartbeatRegistry == ASSUME RolesDisjoint PROVE HeartbeatSpec => ImplementsRegistry
<1>1. HeartbeatInit => Registry!Init
  BY DEF HeartbeatInit, ConnectionManagerInit, Registry!Init
<1>2. BeatInv /\ [HeartbeatNext]_beatVars => [Registry!Next]_<<onlineBar, bondsBar>>
  BY RegistryStep DEF BeatInv, IoInv
<1> QED
  BY <1>1, <1>2, BeatInvariant, PTL
  DEF HeartbeatSpec, ImplementsRegistry, Registry!Spec, onlineBar, bondsBar
=============================================================================
