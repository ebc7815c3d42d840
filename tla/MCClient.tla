------------------------------ MODULE MCClient ------------------------------
(* Small instances of ClientCalls for TLC. *)
EXTENDS ClientCalls

CONSTANTS lobby, guest

\* Any command before a request; one of each kind in each order; and rooms
\* joined, left and invited to.
Kinds == {"ListFiles", "SendChat", "Login"}
RoomCalls == {"Invite", "Join", "Leave"}
SomeScripts == {<<k, "ListFiles">> : k \in Commands}
                 \cup {<<k, l>> : k, l \in Kinds}
                 \cup {<<k, l>> : k, l \in RoomCalls}

\* An invitation behind a room that was joined and left.
LateScripts == {<<"Join", "Leave", "Invite">>}
=============================================================================
