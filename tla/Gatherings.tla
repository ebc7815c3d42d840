----------------------------- MODULE Gatherings -----------------------------
(***************************************************************************)
(* What the chat promises its users: under each name there is one          *)
(* gathering.  A connection that was told it is inside a gathering is      *)
(* present in it, together with everybody else who uses that name, until   *)
(* it says that it leaves or is lost.                                      *)
(***************************************************************************)
CONSTANTS Conns, Names

VARIABLES
  present,  \* the connections that hear what is said under a name
  inside,   \* the gatherings a connection counts itself in
  lost      \* connections that are no more

vars == <<present, inside, lost>>

Init ==
  /\ present = [n \in Names |-> {}]
  /\ inside = [c \in Conns |-> {}]
  /\ lost = {}

\* One connection may come in; those who left or were lost may drop out.
Move(n, S) ==
  /\ \E c \in Conns : S \subseteq present[n] \cup {c}
  /\ \A c \in present[n] \ S : n \notin inside[c] \/ c \in lost
  /\ present' = [present EXCEPT ![n] = S]
  /\ UNCHANGED <<inside, lost>>

Enter(c, n) ==
  /\ c \in present[n]
  /\ inside' = [inside EXCEPT ![c] = @ \cup {n}]
  /\ UNCHANGED <<present, lost>>

Quit(c, n) ==
  /\ inside' = [inside EXCEPT ![c] = @ \ {n}]
  /\ UNCHANGED <<present, lost>>

Lose(c) ==
  /\ lost' = lost \cup {c}
  /\ UNCHANGED <<present, inside>>

Next ==
  \/ \E n \in Names, S \in SUBSET Conns : Move(n, S)
  \/ \E c \in Conns, n \in Names : Enter(c, n) \/ Quit(c, n)
  \/ \E c \in Conns : Lose(c)

Spec == Init /\ [][Next]_vars
=============================================================================
