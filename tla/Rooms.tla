------------------------------- MODULE Rooms -------------------------------
(***************************************************************************)
(* Chat rooms: one actor task per room (chat/room.rs), the directory of    *)
(* live rooms that all connections share (chat/room_manager.rs), and the   *)
(* chat requests and the cleanup of a connection (connection.rs).          *)
(*                                                                         *)
(* A connection finds a room's sender in the directory, and by the time    *)
(* its command reaches the actor the room may have been closed and another *)
(* one of that name opened.  Rooms are told apart by the order in which    *)
(* they were spawned.                                                      *)
(*                                                                         *)
(* Left out: the contents of messages and topics, the flood gates (a       *)
(* request they refuse changes nothing here), the depth of the queues (a   *)
(* full one delays a sender; the actor never waits for anybody), and a     *)
(* full outbound queue (that member misses one message).                   *)
(***************************************************************************)
EXTENDS Integers, Sequences, FiniteSets

CONSTANTS
  Conns,         \* connections, each with one session
  Users,         \* usernames
  UserOf,        \* the username of a connection's session
  ClassOf,       \* its base class, 0..3
  PrivilegesOf,  \* its privileges
  Names,         \* room names
  PrivateNames,  \* the ones under PRIVATE_ROOM_PREFIX
  Lobby,         \* DEFAULT_ROOM
  Flags,         \* what set_flags is asked for: [gate, muted]
  MaxRooms,      \* limits::MAX_ROOMS
  MaxJoined,     \* limits::MAX_JOINED_ROOMS_PER_CONNECTION
  JoinAttempts,  \* JOIN_ATTEMPTS
  MaxSpawned,    \* bound: rooms spawned
  MaxOps         \* bound: requests made, except leaving

Classes == 0..3
Privileges == {"CHAT_SEND", "CHAT_CREATE_ROOM", "CHAT_PRIVATE",
               "CHAT_SET_TOPIC", "SERVER_ADMIN"}
NoRoom == 0
Nobody == "nobody"
RoomIds == 1..MaxSpawned
Handles == 0..MaxSpawned

ASSUME RoomConstants ==
  /\ UserOf \in [Conns -> Users] /\ ClassOf \in [Conns -> Classes]
  /\ PrivilegesOf \in [Conns -> SUBSET Privileges]
  /\ Lobby \in Names \ PrivateNames /\ PrivateNames \subseteq Names
  /\ Flags \subseteq [gate : Nat, muted : BOOLEAN]
  /\ {MaxRooms, MaxJoined, JoinAttempts, MaxSpawned} \subseteq Nat \ {0}
  /\ MaxOps \in Nat /\ Nobody \notin Users
  /\ IsFiniteSet(Conns) /\ Conns # {}

VARIABLES
  \* RoomManager::rooms
  dir,      \* the room listed under a name, or NoRoom
  private,  \* invite-only rooms
  invited,  \* who may join them
  \* the room actors
  spawned,  \* how many there have been
  nameOf, members, closed,
  gate,     \* min_class_join
  muted,    \* interview_mode
  inbox,    \* commands not handled yet
  \* the connection tasks
  pc,
  job,      \* locals: room name, the sender found, attempts of the join, and
            \*   whom a private room is for (Nobody in a plain join)
  reply,    \* the answer of the room it waits for
  joined,   \* by name, the sender kept for a room the connection is in
  ending,   \* connections past their dispatch loop
  gone,     \* connections whose outbound channel is closed
  ops,      \* requests made
  \* history
  meant     \* the users a private room's name was made for

dirVars == <<dir, private, invited>>
actorVars == <<spawned, nameOf, members, closed, gate, muted>>
connVars == <<joined, ending, gone, ops, meant>>
vars == <<dirVars, actorVars, inbox, pc, job, reply, connVars>>

Commands ==
  [op : {"join", "leave", "close", "say", "topic"}, conn : Conns]
    \cup [op : {"flags"}, conn : Conns, flags : Flags]
Command(op, c) == [op |-> op, conn |-> c]

Jobs == [room : Names, tx : Handles, tries : 0..(JoinAttempts - 1),
         target : Users \cup {Nobody}]
NoJob == [room |-> Lobby, tx |-> NoRoom, tries |-> 0, target |-> Nobody]

Answers == {"none", "ok", "refused", "closed"}
Positions ==
  {"idle", "lookup", "create", "insert", "send", "joining", "deliver",
   "sendLeave", "sendClose", "closing", "waiting", "cleanup", "done"}

Has(c, privilege) == privilege \in PrivilegesOf[c]
Live == 1..spawned
Listed == {n \in Names : dir[n] # NoRoom}
RoomsOf(c) == {n \in Names : joined[c][n] # NoRoom}

Init ==
  /\ dir = [n \in Names |-> IF n = Lobby THEN 1 ELSE NoRoom]
  /\ spawned = 1 /\ nameOf = [i \in RoomIds |-> Lobby]
  /\ private = [i \in RoomIds |-> FALSE] /\ invited = [i \in RoomIds |-> {}]
  /\ members = [i \in RoomIds |-> {}] /\ closed = [i \in RoomIds |-> FALSE]
  /\ gate = [i \in RoomIds |-> 0] /\ muted = [i \in RoomIds |-> FALSE]
  /\ inbox = [i \in RoomIds |-> <<>>]
  /\ pc = [c \in Conns |-> "idle"] /\ job = [c \in Conns |-> NoJob]
  /\ reply = [c \in Conns |-> "none"]
  /\ joined = [c \in Conns |-> [n \in Names |-> NoRoom]]
  /\ ending = {} /\ gone = {} /\ ops = 0
  /\ meant = [n \in PrivateNames |-> {}]

---------------------------------------------------------------------------
(* Joining.                                                                *)

Goto(c, at) == pc' = [pc EXCEPT ![c] = at]

Work(c, at, n, u) ==
  Goto(c, at) /\ job' = [job EXCEPT ![c] = [NoJob EXCEPT !.room = n,
                                                         !.target = u]]

\* The request is done or refused; in the cleanup, the next room follows.
Return(c) ==
  /\ Goto(c, IF c \in ending THEN "cleanup" ELSE "idle")
  /\ job' = [job EXCEPT ![c] = NoJob]

Ask(c) == pc[c] = "idle" /\ ops < MaxOps /\ ops' = ops + 1

MayJoinMore(c, n) ==
  n \in RoomsOf(c) \/ Cardinality(RoomsOf(c)) < MaxJoined

AskJoin(c, n) ==
  /\ Ask(c) /\ MayJoinMore(c, n)
  /\ n \in PrivateNames => meant[n] # {}
  /\ Work(c, "lookup", n, Nobody)
  /\ UNCHANGED <<dirVars, actorVars, inbox, reply, joined, ending, gone,
                 meant>>

\* A private room has a fresh UUID for its name, whichever it is.
FreshName == CHOOSE n \in PrivateNames : meant[n] = {}

AskInvite(c, u) ==
  LET n == FreshName IN
  /\ Ask(c) /\ Has(c, "CHAT_PRIVATE") /\ Cardinality(RoomsOf(c)) < MaxJoined
  /\ u # UserOf[c] /\ \E m \in PrivateNames : meant[m] = {}
  /\ Work(c, "create", n, u)
  /\ meant' = [meant EXCEPT ![n] = {u, UserOf[c]}]
  /\ UNCHANGED <<dirVars, actorVars, inbox, reply, joined, ending, gone>>

Admits(i, c) == private[i] => UserOf[c] \in invited[i]

MayCreate_AnyName(c, n) == Has(c, "CHAT_CREATE_ROOM")

MayCreate(c, n) == n \notin PrivateNames /\ Has(c, "CHAT_CREATE_ROOM")

Lookup(c) ==
  LET n == job[c].room IN
  /\ pc[c] = "lookup"
  /\ \/ /\ dir[n] # NoRoom /\ Admits(dir[n], c)
        /\ Goto(c, "send") /\ job' = [job EXCEPT ![c].tx = dir[n]]
     \/ /\ dir[n] = NoRoom /\ MayCreate(c, n)
        /\ Goto(c, "create") /\ UNCHANGED job
     \/ /\ IF dir[n] = NoRoom THEN ~MayCreate(c, n) ELSE ~Admits(dir[n], c)
        /\ Return(c)
  /\ UNCHANGED <<dirVars, actorVars, inbox, reply, connVars>>

\* create: the count is taken before the entry is locked.
Crowded(n) == dir[n] = NoRoom /\ Cardinality(Listed) >= MaxRooms

CountRooms(c) ==
  /\ pc[c] = "create"
  /\ IF Crowded(job[c].room) THEN Return(c)
     ELSE Goto(c, "insert") /\ UNCHANGED job
  /\ UNCHANGED <<dirVars, actorVars, inbox, reply, connVars>>

\* create, continued: the entry of that name, or a new room.
Insert(c) ==
  LET n == job[c].room
      new == spawned + 1
      i == IF dir[n] = NoRoom THEN new ELSE dir[n] IN
  /\ pc[c] = "insert" /\ i \in RoomIds
  /\ Goto(c, "send") /\ job' = [job EXCEPT ![c].tx = i]
  /\ dir' = [dir EXCEPT ![n] = i]
  /\ IF i = new
     THEN /\ spawned' = new /\ nameOf' = [nameOf EXCEPT ![i] = n]
          /\ private' = [private EXCEPT ![i] = job[c].target # Nobody]
     ELSE UNCHANGED <<spawned, nameOf, private>>
  /\ invited' = IF job[c].target = Nobody THEN invited
                ELSE [invited EXCEPT ![i] = @ \cup {UserOf[c]}]
  /\ UNCHANGED <<members, closed, gate, muted, inbox, reply, connVars>>

Send(i, cmd) == inbox' = [inbox EXCEPT ![i] = Append(@, cmd)]

SendJoin(c) ==
  /\ pc[c] = "send" /\ Goto(c, "joining")
  /\ Send(job[c].tx, Command("join", c))
  /\ UNCHANGED <<dirVars, actorVars, job, reply, connVars>>

\* The answer on the oneshot channel a request waits on.
Receive(c, at) ==
  /\ pc[c] = at /\ reply[c] # "none"
  /\ reply' = [reply EXCEPT ![c] = "none"]

\* forget: only the very room the sender belongs to (same_channel).
Forget_ByName(n, i) == dir' = [dir EXCEPT ![n] = NoRoom]

Forget(n, i) == dir' = IF dir[n] = i THEN [dir EXCEPT ![n] = NoRoom] ELSE dir

\* The room was closed meanwhile: drop it from the directory and try again.
Retry(c) ==
  LET tried == job[c].tries + 1 IN
  /\ Forget(job[c].room, job[c].tx)
  /\ IF tried = JoinAttempts THEN Return(c)
     ELSE /\ job' = [job EXCEPT ![c].tries = tried, ![c].tx = NoRoom]
          /\ Goto(c, IF job[c].target = Nobody THEN "lookup" ELSE "create")

\* Whom a private room is for is invited once the inviter is in it.
JoinAnswered(c) ==
  LET n == job[c].room
      u == job[c].target IN
  /\ Receive(c, "joining")
  /\ \/ /\ reply[c] = "ok" /\ UNCHANGED dir
        /\ joined' = [joined EXCEPT ![c][n] = job[c].tx]
        /\ IF u = Nobody THEN Return(c) /\ UNCHANGED invited
           ELSE /\ Goto(c, "deliver") /\ UNCHANGED job
                /\ invited' = IF dir[n] # NoRoom /\ private[dir[n]]
                              THEN [invited EXCEPT ![dir[n]] = @ \cup {u}]
                              ELSE invited
     \/ reply[c] = "refused" /\ Return(c) /\ UNCHANGED <<dir, invited, joined>>
     \/ reply[c] = "closed" /\ Retry(c) /\ UNCHANGED <<invited, joined>>
  /\ UNCHANGED <<private, actorVars, inbox, ending, gone, ops, meant>>

---------------------------------------------------------------------------
(* Leaving, and the end of a connection.                                   *)

\* joined.remove, then RoomManager::leave, which finds the room by its name,
\* not through the sender of the join.
StartLeave(c, n) ==
  /\ n \in RoomsOf(c) /\ joined' = [joined EXCEPT ![c][n] = NoRoom]
  /\ IF dir[n] = NoRoom THEN Return(c)
     ELSE /\ Goto(c, "sendLeave")
          /\ job' = [job EXCEPT ![c] =
                       [NoJob EXCEPT !.room = n, !.tx = dir[n]]]

AskLeave(c, n) ==
  /\ pc[c] = "idle" /\ StartLeave(c, n)
  /\ UNCHANGED <<dirVars, actorVars, inbox, reply, ending, gone, ops, meant>>

\* The invitation reaches a session of the user, or nobody: then the inviter
\* leaves again.
Deliver_StaysMember(c) ==
  /\ pc[c] = "deliver" /\ Return(c)
  /\ \/ UNCHANGED joined
     \/ joined' = [joined EXCEPT ![c][job[c].room] = NoRoom]
  /\ UNCHANGED <<dirVars, actorVars, inbox, reply, ending, gone, ops, meant>>

Deliver(c) ==
  /\ pc[c] = "deliver"
  /\ \/ Return(c) /\ UNCHANGED joined
     \/ StartLeave(c, job[c].room)
  /\ UNCHANGED <<dirVars, actorVars, inbox, reply, ending, gone, ops, meant>>

SendLeave_NoClose(c) ==
  /\ pc[c] = "sendLeave"
  /\ Send(job[c].tx, Command("leave", c))
  /\ IF job[c].room = Lobby \/ c \in ending THEN Return(c)
     ELSE Goto(c, "sendClose") /\ UNCHANGED job
  /\ UNCHANGED <<dirVars, actorVars, reply, connVars>>

SendLeave(c) ==
  /\ pc[c] = "sendLeave"
  /\ Send(job[c].tx, Command("leave", c))
  /\ IF job[c].room = Lobby THEN Return(c)
     ELSE Goto(c, "sendClose") /\ UNCHANGED job
  /\ UNCHANGED <<dirVars, actorVars, reply, connVars>>

SendClose(c) ==
  /\ pc[c] = "sendClose" /\ Goto(c, "closing")
  /\ Send(job[c].tx, Command("close", c))
  /\ UNCHANGED <<dirVars, actorVars, job, reply, connVars>>

CloseAnswered(c) ==
  /\ Receive(c, "closing") /\ Return(c)
  /\ IF reply[c] = "closed" THEN Forget(job[c].room, job[c].tx)
     ELSE UNCHANGED dir
  /\ UNCHANGED <<private, invited, actorVars, inbox, connVars>>

\* The dispatch loop ends, or the task panics: then its outbound channel
\* closes at once.  SessionGuard leaves every room, in the second case from a
\* task that Drop spawns.
Close(c) ==
  /\ pc[c] = "idle" /\ Goto(c, "cleanup")
  /\ ending' = ending \cup {c}
  /\ \/ UNCHANGED gone
     \/ gone' = gone \cup {c}
  /\ UNCHANGED <<dirVars, actorVars, inbox, job, reply, joined, ops, meant>>

Cleanup(c) ==
  /\ pc[c] = "cleanup"
  /\ \/ (\E n \in Names : StartLeave(c, n)) /\ UNCHANGED gone
     \/ /\ RoomsOf(c) = {} /\ Goto(c, "done") /\ gone' = gone \cup {c}
        /\ UNCHANGED <<job, joined>>
  /\ UNCHANGED <<dirVars, actorVars, inbox, reply, ending, ops, meant>>

---------------------------------------------------------------------------
(* Talking and moderating.                                                 *)

\* ChatMessage goes through the sender kept at the join.
Say(c, n) ==
  /\ Ask(c) /\ Has(c, "CHAT_SEND") /\ n \in RoomsOf(c)
  /\ Send(joined[c][n], Command("say", c))
  /\ UNCHANGED <<dirVars, actorVars, pc, job, reply, joined, ending, gone,
                 meant>>

\* So does ChatTopicSet, which waits for the answer.
SetTopic(c, n) ==
  /\ Ask(c) /\ n \in RoomsOf(c) /\ Goto(c, "waiting")
  /\ Send(joined[c][n], Command("topic", c))
  /\ UNCHANGED <<dirVars, actorVars, job, reply, joined, ending, gone, meant>>

\* RoomManager::set_flags finds the room by its name, joined or not.
SetFlags(c, n, f) ==
  /\ Ask(c) /\ dir[n] # NoRoom /\ Goto(c, "waiting")
  /\ Send(dir[n], [op |-> "flags", conn |-> c, flags |-> f])
  /\ UNCHANGED <<dirVars, actorVars, job, reply, joined, ending, gone, meant>>

Answered(c) ==
  /\ Receive(c, "waiting") /\ Goto(c, "idle")
  /\ UNCHANGED <<dirVars, actorVars, inbox, job, connVars>>

---------------------------------------------------------------------------
(* The room actor: one command at a time.                                  *)

Due(i, op) == i \in Live /\ inbox[i] # <<>> /\ Head(inbox[i]).op = op
Sender(i) == Head(inbox[i]).conn
Handled(i) == inbox' = [inbox EXCEPT ![i] = Tail(@)]
Reply(c, answer) == reply' = [reply EXCEPT ![c] = answer]

\* broadcast, prune: whoever turns out to be gone is no member any more.
Broadcast(i, to) == members' = [members EXCEPT ![i] = to \ gone]

HandleJoin_IntoClosed(i) ==
  LET c == Sender(i)
      admitted == c \notin members[i] /\ ClassOf[c] >= gate[i] IN
  /\ Due(i, "join") /\ Handled(i)
  /\ IF admitted THEN Reply(c, "ok") /\ Broadcast(i, members[i] \cup {c})
     ELSE Reply(c, "refused") /\ UNCHANGED members
  /\ UNCHANGED <<dirVars, spawned, nameOf, closed, gate, muted, pc, job,
                 connVars>>

HandleJoin(i) ==
  LET c == Sender(i)
      admitted == c \notin members[i] /\ ClassOf[c] >= gate[i] IN
  /\ Due(i, "join") /\ Handled(i)
  /\ IF ~closed[i] /\ admitted
     THEN Reply(c, "ok") /\ Broadcast(i, members[i] \cup {c})
     ELSE /\ Reply(c, IF closed[i] THEN "closed" ELSE "refused")
          /\ UNCHANGED members
  /\ UNCHANGED <<dirVars, spawned, nameOf, closed, gate, muted, pc, job,
                 connVars>>

HandleLeave(i) ==
  LET c == Sender(i) IN
  /\ Due(i, "leave") /\ Handled(i)
  /\ IF c \in members[i]
     THEN Broadcast(i, members[i] \ {c}) ELSE UNCHANGED members
  /\ UNCHANGED <<dirVars, spawned, nameOf, closed, gate, muted, pc, job,
                 reply, connVars>>

\* A message of somebody who is not a member, or may not speak in interview
\* mode, goes nowhere.
HandleSay(i) ==
  LET c == Sender(i) IN
  /\ Due(i, "say") /\ Handled(i)
  /\ IF c \in members[i] /\ (muted[i] => Has(c, "CHAT_SET_TOPIC"))
     THEN Broadcast(i, members[i]) ELSE UNCHANGED members
  /\ UNCHANGED <<dirVars, spawned, nameOf, closed, gate, muted, pc, job,
                 reply, connVars>>

HandleTopic(i) ==
  LET c == Sender(i) IN
  /\ Due(i, "topic") /\ Handled(i)
  /\ IF c \in members[i] /\ Has(c, "CHAT_SET_TOPIC")
     THEN Reply(c, "ok") /\ Broadcast(i, members[i])
     ELSE Reply(c, "refused") /\ UNCHANGED members
  /\ UNCHANGED <<dirVars, spawned, nameOf, closed, gate, muted, pc, job,
                 connVars>>

Clamp(g) == IF g > 3 THEN 3 ELSE g

MayModerate(c, i, g) ==
  /\ c \in members[i] /\ Has(c, "CHAT_SET_TOPIC")
  /\ nameOf[i] = Lobby => Has(c, "SERVER_ADMIN")
  /\ Clamp(g) <= ClassOf[c]

HandleFlags(i) ==
  LET c == Sender(i)
      f == Head(inbox[i]).flags IN
  /\ Due(i, "flags") /\ Handled(i)
  /\ IF MayModerate(c, i, f.gate)
     THEN /\ gate' = [gate EXCEPT ![i] = Clamp(f.gate)]
          /\ muted' = [muted EXCEPT ![i] = f.muted]
          /\ Reply(c, "ok") /\ Broadcast(i, members[i])
     ELSE Reply(c, "refused") /\ UNCHANGED <<gate, muted, members>>
  /\ UNCHANGED <<dirVars, spawned, nameOf, closed, pc, job, connVars>>

\* CloseIfEmpty.
HandleClose(i) ==
  LET empty == members[i] = {} IN
  /\ Due(i, "close") /\ Handled(i)
  /\ closed' = [closed EXCEPT ![i] = @ \/ empty]
  /\ Reply(Sender(i), IF empty THEN "closed" ELSE "refused")
  /\ UNCHANGED <<dirVars, spawned, nameOf, members, gate, muted, pc, job,
                 connVars>>

---------------------------------------------------------------------------
ClientStep(c) ==
  \/ \E n \in Names : AskJoin(c, n) \/ AskLeave(c, n) \/ Say(c, n)
                       \/ SetTopic(c, n)
  \/ \E u \in Users : AskInvite(c, u)
  \/ \E n \in Names, f \in Flags : SetFlags(c, n, f)
  \/ Close(c)

TaskStep(c) ==
  \/ Lookup(c) \/ CountRooms(c) \/ Insert(c) \/ SendJoin(c)
  \/ JoinAnswered(c) \/ Deliver(c) \/ SendLeave(c) \/ SendClose(c)
  \/ CloseAnswered(c) \/ Cleanup(c) \/ Answered(c)

ActorStep(i) ==
  \/ HandleJoin(i) \/ HandleLeave(i) \/ HandleSay(i) \/ HandleTopic(i)
  \/ HandleFlags(i) \/ HandleClose(i)

Next ==
  \/ \E c \in Conns : ClientStep(c) \/ TaskStep(c)
  \/ \E i \in RoomIds : ActorStep(i)

Spec == Init /\ [][Next]_vars

\* The runtime polls every task that can go on; clients need not do anything.
Fairness ==
  /\ \A c \in Conns : WF_vars(TaskStep(c))
  /\ \A i \in RoomIds : WF_vars(ActorStep(i))

FairSpec == Spec /\ Fairness

---------------------------------------------------------------------------
DirTypeOK ==
  /\ dir \in [Names -> Handles] /\ private \in [RoomIds -> BOOLEAN]
  /\ invited \in [RoomIds -> SUBSET Users]

ActorTypeOK ==
  /\ spawned \in RoomIds /\ nameOf \in [RoomIds -> Names]
  /\ members \in [RoomIds -> SUBSET Conns] /\ closed \in [RoomIds -> BOOLEAN]
  /\ gate \in [RoomIds -> Classes] /\ muted \in [RoomIds -> BOOLEAN]

TaskTypeOK == pc \in [Conns -> Positions] /\ job \in [Conns -> Jobs]

ConnTypeOK ==
  /\ joined \in [Conns -> [Names -> Handles]]
  /\ ending \subseteq Conns /\ gone \subseteq Conns
  /\ ops \in 0..MaxOps /\ meant \in [PrivateNames -> SUBSET Users]

RoomsTypeOK ==
  /\ DirTypeOK /\ ActorTypeOK /\ TaskTypeOK /\ ConnTypeOK
  /\ inbox \in [RoomIds -> Seq(Commands)] /\ reply \in [Conns -> Answers]

(* Nobody lands in a room nobody can find (RoomManager::leave): a room     *)
(* that has members is the one listed under its name and is open, so there *)
(* are never two live rooms of one name; and the lobby always exists.      *)
Findable ==
  /\ \A i \in Live : members[i] # {} => ~closed[i] /\ dir[nameOf[i]] = i
  /\ dir[Lobby] = 1 /\ ~closed[1]

(* While a connection keeps a sender for a room, the room listed under     *)
(* that name is the one behind it and has the connection as a member: what *)
(* it says is not dropped as coming from outside, and leaving by name      *)
(* leaves the room it joined.                                              *)
JoinedPresent ==
  \A c \in Conns \ gone : \A n \in RoomsOf(c) :
    joined[c][n] = dir[n] /\ c \in members[dir[n]]

(* No ghosts: a member is a connection that still keeps the room, is being *)
(* told that it joined, or has its Leave on the way, also when the task    *)
(* was lost or a private room is taken back.                               *)
NoGhosts ==
  \A i \in Live : \A c \in members[i] :
    LET n == nameOf[i] IN
    \/ joined[c][n] = i
    \/ job[c].room = n /\ pc[c] \in {"joining", "sendLeave"}
    \/ \E k \in 1..Len(inbox[i]) : inbox[i][k] = Command("leave", c)

(* create counts the rooms before it locks the entry, so the directory can *)
(* outgrow MAX_ROOMS, but only by the rooms being created at that moment,  *)
(* less one.                                                               *)
RoomsBounded ==
  LET opening == {c \in Conns : pc[c] = "insert"} IN
  Cardinality(Listed \cup {job[c].room : c \in opening})
    <= MaxRooms + Cardinality(Conns) - 1

(* Connections and rooms agree on who is in which room, and there are not  *)
(* many more rooms than allowed.                                           *)
RoomsExact == JoinedPresent /\ NoGhosts /\ RoomsBounded

(* A private room never has a member other than those it was made for,     *)
(* also after it was evicted and its name is asked for again.              *)
InvitedOnly ==
  \A i \in Live : nameOf[i] \in PrivateNames =>
    \A c \in members[i] : UserOf[c] \in meant[nameOf[i]]

(* Directory and actors together are one gathering per name: nobody who    *)
(* was told that it joined drops out of the room listed under that name,   *)
(* through eviction, re-creation or pruning.                               *)
Chat == INSTANCE Gatherings WITH
  present <- [n \in Names |-> IF dir[n] = NoRoom THEN {} ELSE members[dir[n]]],
  inside <- [c \in Conns |-> RoomsOf(c)],
  lost <- gone

ImplementsGatherings == Chat!Spec

(* A room other than the lobby that is left empty leaves the directory or  *)
(* gets a member: whoever leaves last closes it, however joins and lost    *)
(* connections get in between.                                             *)
EmptyRoomsGo ==
  \A n \in Names \ {Lobby} :
    dir[n] # NoRoom /\ members[dir[n]] = {} ~>
      dir[n] = NoRoom \/ members[dir[n]] # {}
============================================================================
