------------------------------ MODULE Presence ------------------------------
(***************************************************************************)
(* presence.rs: the actor that keeps the roster of logged-in connections   *)
(* and through which kicks, bans and shutdown reach them.  Callers append  *)
(* a command to its mailbox and, for all but Leave, wait for the answer;   *)
(* the actor handles one command at a time.                                *)
(***************************************************************************)
EXTENDS Naturals, Sequences, FiniteSets

CONSTANTS
  Conns,     \* connections; each carries at most one login, hence one session
  Accounts,  \* usernames
  Admins     \* administrators' request handlers

NoUser == "no user"

\* A login is one session id; its connection never logs in a second time.
ASSUME PresenceConstants ==
  /\ NoUser \notin Accounts
  /\ Conns \cap Admins = {}
  /\ IsFiniteSet(Conns)

VARIABLES
  inbox,    \* the mailbox: commands not yet handled, oldest first
  roster,   \* Roster::entries: the sessions listed as online
  kill,     \* sessions whose kill signal has fired
  closing,  \* Roster::closing: DisconnectAll was handled
  listing,  \* the answer to an administrator's last List
  who,      \* the username of a connection's session, NoUser before login
  gone      \* connections whose task has ended: both their channels are closed

presenceVars == <<inbox, roster, kill, closing, listing>>

Commands ==
  [op : {"join", "leave", "kick", "others", "list", "notice", "all"},
   by : Conns \cup Admins, user : Accounts \cup {NoUser}]

PresenceTypeOK ==
  /\ inbox \in Seq(Commands)
  /\ {roster, kill, gone} \subseteq SUBSET Conns
  /\ closing \in BOOLEAN
  /\ listing \in [Admins -> SUBSET Conns]
  /\ who \in [Conns -> Accounts \cup {NoUser}]

PresenceInit ==
  /\ inbox = <<>>
  /\ roster = {} /\ kill = {} /\ gone = {}
  /\ closing = FALSE
  /\ listing = [k \in Admins |-> {}]
  /\ who = [c \in Conns |-> NoUser]

---------------------------------------------------------------------------
(* Callers.                                                                *)

Command(op, by, user) == [op |-> op, by |-> by, user |-> user]

Send(op, by, user) == inbox' = Append(inbox, Command(op, by, user))

\* The caller's command has been handled and its answer sent.
Answered(x) == \A i \in DOMAIN inbox : inbox[i].by # x

---------------------------------------------------------------------------
(* The actor.                                                              *)

\* Broadcasting to entries finds the ones whose channel is closed; each is
\* removed and announced in turn, so one closed recipient clears them all.
Announce(entries, except) ==
  IF (entries \ except) \cap gone = {} THEN entries ELSE entries \ gone

\* The sessions a kick applies to.
Reaches(cmd, c) ==
  \/ cmd.op = "all"
  \/ cmd.op \in {"kick", "others"} /\ who[c] = cmd.user
                                   /\ (cmd.op = "others" => c # cmd.by)

HandleJoin(cmd) ==
  /\ cmd.op = "join"
  /\ roster' = Announce(roster \cup {cmd.by}, {cmd.by})
  /\ kill' = IF closing THEN kill \cup {cmd.by} ELSE kill
  /\ UNCHANGED <<closing, listing>>

HandleLeave(cmd) ==
  /\ cmd.op = "leave"
  /\ roster' = IF cmd.by \in roster THEN Announce(roster \ {cmd.by}, {})
                                    ELSE roster
  /\ UNCHANGED <<kill, closing, listing>>

\* Disconnect, DisconnectOthers and DisconnectAll: signal the live sessions,
\* drop the entries whose connection is gone.
HandleKill_Mutation(cmd) ==
  LET reached == {c \in roster : Reaches(cmd, c)} IN
  /\ cmd.op \in {"kick", "others", "all"}
  /\ kill' = kill \cup (reached \ gone)
  /\ roster' = IF reached \cap gone = {} THEN roster ELSE roster \ gone
  /\ UNCHANGED <<closing, listing>>

HandleKill(cmd) ==
  LET reached == {c \in roster : Reaches(cmd, c)} IN
  /\ cmd.op \in {"kick", "others", "all"}
  /\ kill' = kill \cup (reached \ gone)
  /\ roster' = IF reached \cap gone = {} THEN roster ELSE roster \ gone
  /\ closing' = (closing \/ cmd.op = "all")
  /\ UNCHANGED listing

\* BroadcastAll: what a session is told is not modelled, the clearing of
\* closed recipients is.
HandleNotice(cmd) ==
  /\ cmd.op = "notice"
  /\ roster' = Announce(roster, {})
  /\ UNCHANGED <<kill, closing, listing>>

HandleList(cmd) ==
  /\ cmd.op = "list"
  /\ listing' = [listing EXCEPT ![cmd.by] = roster]
  /\ UNCHANGED <<roster, kill, closing>>

\* One turn of the actor's loop.
PresenceStep ==
  /\ inbox # <<>>
  /\ inbox' = Tail(inbox)
  /\ LET cmd == Head(inbox) IN
       \/ HandleJoin(cmd) \/ HandleLeave(cmd) \/ HandleKill(cmd)
       \/ HandleNotice(cmd) \/ HandleList(cmd)
  /\ UNCHANGED <<who, gone>>
=============================================================================
