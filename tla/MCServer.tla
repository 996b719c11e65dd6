------------------------------ MODULE MCServer ------------------------------
(***************************************************************************)
(* Small instances of Server.                                              *)
(***************************************************************************)
EXTENDS Server, TLC

CONSTANTS
    Webs,   \* the clients that play the web page
    Apps    \* the clients that play the phone

ASSUME RolesPartition == Webs \cap Apps = {} /\ Webs \cup Apps = Clients

\* The protocol: an app scans the web page's id and asks to be bound to it.
AppBinds == {<<a, w, a>> : w \in Webs, a \in Apps}

\* Any client may name itself and any other client in either role.
AnyBinds == {b \in Clients \X Clients \X Clients : b[1] \in {b[2], b[3]}}

\* States that differ only in the frames of the last step are one state.  Sound
\* for invariants that do not read out, and for action properties that read only
\* out'.
WithoutOut == <<session, alive, connVars, timerVars, asio>>

RoleSymmetry == Permutations(Webs) \cup Permutations(Apps)
=============================================================================
