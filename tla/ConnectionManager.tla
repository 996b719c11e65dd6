-------------------------- MODULE ConnectionManager --------------------------
(***************************************************************************)
(* class ConnectionManager: who is connected and who is paired with whom.  *)
(* A map is a total function to Ids in which NoId stands for "no entry".   *)
(* Of a ClientInfo only the handle is ever read by the modelled handlers,  *)
(* and that handle is the client itself, so connections is the set of its  *)
(* keys.                                                                   *)
(***************************************************************************)
EXTENDS Endpoint

VARIABLES
    connections,        \* keys of std::map connections
    hdlToId,            \* handle -> id
    pairings,           \* webSocketId -> appSocketId
    reversePairings     \* appSocketId -> webSocketId

pairVars == <<pairings, reversePairings>>
connVars == <<connections, hdlToId, pairings, reversePairings>>

ConnectionManagerInit ==
    /\ connections = {}
    /\ hdlToId = [c \in Clients |-> NoId]
    /\ pairings = [c \in Clients |-> NoId]
    /\ reversePairings = [c \in Clients |-> NoId]

-----------------------------------------------------------------------------
(* Queries.                                                                *)

HasClient(id) == id \in connections

GetClientId(hdl) == hdlToId[hdl]

GetPair(id) == IF pairings[id] # NoId THEN pairings[id] ELSE reversePairings[id]

IsPaired(clientId, targetId) ==
    /\ HasClient(clientId)
    /\ HasClient(targetId)
    /\ \/ pairings[clientId] = targetId
       \/ reversePairings[clientId] = targetId

\* Mutant: a web page that is not connected is not refused.
PairRefusedUnlessApp(web, app) ==
    \/ ~HasClient(app)
    \/ pairings[web] # NoId
    \/ reversePairings[app] # NoId

\* Mutant: only the web side is tested for an existing pairing.
PairRefusedOneSided(web, app) ==
    \/ ~HasClient(web)
    \/ ~HasClient(app)
    \/ pairings[web] # NoId

\* pair() answers 401 or 400 and changes nothing.
PairRefused(web, app) ==
    \/ ~HasClient(web)
    \/ ~HasClient(app)
    \/ pairings[web] # NoId
    \/ reversePairings[app] # NoId

-----------------------------------------------------------------------------
(* Operations.                                                             *)

RegisterConn(hdl, id) ==
    /\ connections' = connections \cup {id}
    /\ hdlToId' = [hdlToId EXCEPT ![hdl] = id]
    /\ UNCHANGED pairVars

Pair(web, app) ==
    /\ ~PairRefused(web, app)
    /\ pairings' = [pairings EXCEPT ![web] = app]
    /\ reversePairings' = [reversePairings EXCEPT ![app] = web]
    /\ UNCHANGED <<connections, hdlToId>>

\* The web side of the pairing that unpair(id) dissolves, and its app side:
\* an entry of pairings is preferred to one of reversePairings.
WebSide(id) == IF pairings[id] # NoId THEN id ELSE reversePairings[id]
AppSide(id) == IF pairings[id] # NoId THEN pairings[id] ELSE id

\* Mutant: both maps are erased at id, not at the two ends.
UnpairOwnKey(id) ==
    /\ pairings' = [pairings EXCEPT ![id] = NoId]
    /\ reversePairings' = [reversePairings EXCEPT ![id] = NoId]

\* unpair() returns 401 or 404 and changes nothing when a guard fails.
Unpair(id) ==
    /\ HasClient(id)
    /\ GetPair(id) # NoId
    /\ pairings' = [pairings EXCEPT ![WebSide(id)] = NoId]
    /\ reversePairings' = [reversePairings EXCEPT ![AppSide(id)] = NoId]

\* connections.at(pairId) inside disconnect throws std::out_of_range.
DisconnectThrows(id) ==
    /\ HasClient(id)
    /\ GetPair(id) # NoId
    /\ ~HasClient(GetPair(id))

\* Mutant: the handle's entry is forgotten.
DisconnectKeepsHandle(id) ==
    /\ out' = {}
    /\ IF GetPair(id) # NoId THEN Unpair(id) ELSE UNCHANGED pairVars
    /\ connections' = connections \ {id}
    /\ UNCHANGED hdlToId

\* Mutant: the pairing is left to the partner's own on_close.
DisconnectKeepsPair(id) ==
    /\ out' = {}
    /\ hdlToId' = [hdlToId EXCEPT ![id] = NoId]
    /\ connections' = connections \ {id}
    /\ UNCHANGED pairVars

\* Mutant: a client without a partner is skipped.
DisconnectPairedOnly(id) ==
    /\ out' = {}
    /\ IF GetPair(id) # NoId
       THEN /\ Unpair(id)
            /\ hdlToId' = [hdlToId EXCEPT ![id] = NoId]
            /\ connections' = connections \ {id}
       ELSE UNCHANGED connVars

\* disconnect() as on_close calls it: the session of id is no longer open, so
\* the code does not close it.
Disconnect(id) ==
    IF HasClient(id)
    THEN /\ IF GetPair(id) # NoId
            THEN /\ HasClient(GetPair(id))
                 /\ out' = Deliver(GetPair(id), "break", id, GetPair(id), "209")
                 /\ Unpair(id)
            ELSE out' = {} /\ UNCHANGED pairVars
         /\ hdlToId' = [hdlToId EXCEPT ![id] = NoId]
         /\ connections' = connections \ {id}
    ELSE out' = {} /\ UNCHANGED connVars
=============================================================================
