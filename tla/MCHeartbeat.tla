----------------------------- MODULE MCHeartbeat -----------------------------
(***************************************************************************)
(* Small instances of Heartbeat: the odd ids are web pages, the even ones  *)
(* apps, so that a partner may stand before or behind in the walk.         *)
(***************************************************************************)
EXTENDS Heartbeat

AppPairs == {p \in Clients \X Clients : p[1] % 2 = 1 /\ p[2] % 2 = 0}
=============================================================================
