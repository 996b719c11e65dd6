---------------------------- MODULE PairRegistry ----------------------------
(***************************************************************************)
(* What the connection manager promises, without its maps: clients join    *)
(* and leave, two unbonded clients may be bonded, and a client that leaves *)
(* takes its bond with it in the same instant.                             *)
(***************************************************************************)
CONSTANT Clients

VARIABLES
    online,     \* the clients that have joined and not left
    bonds       \* the set of bonded pairs, each a set of two clients

Init == online = {} /\ bonds = {}

Bonded(c) == \E b \in bonds : c \in b

Join(c) ==
    /\ c \notin online
    /\ online' = online \cup {c}
    /\ UNCHANGED bonds

Bond(c, d) ==
    /\ c # d
    /\ {c, d} \subseteq online
    /\ ~Bonded(c)
    /\ ~Bonded(d)
    /\ bonds' = bonds \cup {{c, d}}
    /\ UNCHANGED online

Leave(c) ==
    /\ c \in online
    /\ online' = online \ {c}
    /\ bonds' = {b \in bonds : c \notin b}

Next == \/ \E c \in Clients : Join(c) \/ Leave(c)
        \/ \E c, d \in Clients : Bond(c, d)

Spec == Init /\ [][Next]_<<online, bonds>>
=============================================================================
