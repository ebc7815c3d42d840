------------------------------ MODULE MCRooms ------------------------------
(* Small instances of Rooms for TLC. *)
EXTENDS Rooms, TLC

CONSTANTS c1, c2, alice, bob, carol

\* Alice, who may do everything, and Bob, who may open public rooms and
\* talk; Carol is not connected.
Owners == (c1 :> alice) @@ [c \in Conns |-> bob]
Ranks == (c1 :> 2) @@ [c \in Conns |-> 1]
Powers ==
  (c1 :> Privileges) @@ [c \in Conns |-> {"CHAT_SEND", "CHAT_CREATE_ROOM"}]
PanelOnly == {[gate |-> 2, muted |-> TRUE]}
============================================================================
