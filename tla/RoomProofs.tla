----------------------------- MODULE RoomProofs -----------------------------
(***************************************************************************)
(* Theorems about Rooms, for any connections, users, names and limits.     *)
(***************************************************************************)
EXTENDS Rooms, FiniteSetTheorems, FunctionTheorems, TLAPS

(* The commands a connection waits on, and where it waits.                 *)
AskOps == {"join", "close", "topic", "flags"}
Waiting == {"joining", "closing", "waiting"}
WaitsAt(op) ==
  IF op = "join" THEN "joining" ELSE IF op = "close" THEN "closing"
  ELSE "waiting"

(* A command in an inbox that wants an answer belongs to a connection that *)
(* waits for it, and it is the only such command of that connection.       *)
AskedOK(m, i) ==
  m.op \in AskOps =>
    /\ pc[m.conn] = WaitsAt(m.op) /\ reply[m.conn] = "none"
    /\ m.op \in {"join", "close"} => job[m.conn].tx = i

InboxOK ==
  \A i \in RoomIds : \A k \in 1..Len(inbox[i]) : AskedOK(inbox[i][k], i)

OneAsk ==
  \A i, j \in RoomIds : \A k \in 1..Len(inbox[i]), l \in 1..Len(inbox[j]) :
    /\ inbox[i][k].op \in AskOps /\ inbox[j][l].op \in AskOps
    /\ inbox[i][k].conn = inbox[j][l].conn
    => i = j /\ k = l

(* Who holds an answer waits for one; "closed" speaks of the room it asked.*)
ReplyOf(c) ==
  reply[c] # "none" =>
    /\ pc[c] \in Waiting
    /\ reply[c] = "closed" =>
         pc[c] \in {"joining", "closing"} /\ closed[job[c].tx]

(* The sender in hand belongs to a room of the name being worked on, and   *)
(* only rooms other than the lobby are asked to close.                     *)
TxOf(c) ==
  /\ pc[c] \in {"send", "joining", "sendLeave", "sendClose", "closing"} =>
       job[c].tx \in Live /\ nameOf[job[c].tx] = job[c].room
  /\ pc[c] \in {"sendClose", "closing"} => job[c].room # Lobby

(* The directory lists live rooms under their names, and every open one.   *)
DirOK ==
  /\ \A n \in Names : dir[n] # NoRoom => dir[n] \in Live /\ nameOf[dir[n]] = n
  /\ \A i \in Live : ~closed[i] => dir[nameOf[i]] = i
  /\ nameOf[1] = Lobby /\ ~closed[1]

MembersOK == \A i \in RoomIds : members[i] # {} => ~closed[i]

RoomInv ==
  /\ RoomsTypeOK /\ InboxOK /\ OneAsk /\ DirOK /\ MembersOK
  /\ \A c \in Conns : ReplyOf(c) /\ TxOf(c)

---------------------------------------------------------------------------
(* The limits are positive, and the lobby is a name.                       *)
LEMMA Bounds ==
  /\ MaxSpawned \in Nat /\ MaxSpawned >= 1 /\ JoinAttempts \in Nat
  /\ JoinAttempts >= 1 /\ MaxOps \in Nat /\ Lobby \in Names
  BY RoomConstants

(* What an inbox is after a command was appended, and after its head was   *)
(* taken.                                                                  *)
LEMMA Appended ==
  ASSUME NEW i \in RoomIds, NEW m \in Commands,
         inbox \in [RoomIds -> Seq(Commands)], Send(i, m)
  PROVE  /\ inbox' \in [RoomIds -> Seq(Commands)]
         /\ \A j \in RoomIds : j # i => inbox'[j] = inbox[j]
         /\ Len(inbox'[i]) = Len(inbox[i]) + 1
         /\ inbox'[i][Len(inbox[i]) + 1] = m
         /\ \A k \in 1..Len(inbox[i]) : inbox'[i][k] = inbox[i][k]
  BY DEF Send

LEMMA Taken ==
  ASSUME NEW i \in RoomIds, inbox \in [RoomIds -> Seq(Commands)],
         inbox[i] # <<>>, Handled(i)
  PROVE  /\ inbox' \in [RoomIds -> Seq(Commands)]
         /\ \A j \in RoomIds : j # i => inbox'[j] = inbox[j]
         /\ Len(inbox[i]) \in Nat \ {0} /\ Len(inbox'[i]) = Len(inbox[i]) - 1
         /\ Head(inbox[i]) = inbox[i][1] /\ Head(inbox[i]) \in Commands
         /\ \A k \in 1..Len(inbox'[i]) : inbox'[i][k] = inbox[i][k + 1]
  BY DEF Handled

(* A connection that waits for nothing, or has its answer, may go on.      *)
LEMMA Local ==
  ASSUME RoomsTypeOK, InboxOK, OneAsk, NEW c \in Conns,
         pc[c] \notin Waiting \/ reply[c] # "none",
         UNCHANGED inbox,
         \A d \in Conns \ {c} : /\ pc'[d] = pc[d] /\ job'[d] = job[d]
                                /\ reply'[d] = reply[d]
  PROVE  InboxOK' /\ OneAsk'
<1>1. ASSUME NEW i \in RoomIds, NEW k \in 1..Len(inbox[i])
      PROVE  AskedOK(inbox[i][k], i)'
  <2>1. AskedOK(inbox[i][k], i) /\ inbox[i][k].conn \in Conns
    BY <1>1 DEF InboxOK, RoomsTypeOK, Commands
  <2>2. inbox[i][k].op \in AskOps => WaitsAt(inbox[i][k].op) \in Waiting
    BY DEF WaitsAt, Waiting, AskOps
  <2> QED BY <2>1, <2>2 DEF AskedOK
<1> QED BY <1>1 DEF InboxOK, OneAsk

(* It may also send a command that wants no answer,                        *)
LEMMA Tells ==
  ASSUME RoomsTypeOK, InboxOK, OneAsk, NEW c \in Conns, NEW i \in RoomIds,
         NEW m \in Commands, m.op \notin AskOps,
         pc[c] \notin Waiting, Send(i, m),
         \A d \in Conns \ {c} : /\ pc'[d] = pc[d] /\ job'[d] = job[d]
                                /\ reply'[d] = reply[d]
  PROVE  InboxOK' /\ OneAsk'
<1>1. inbox \in [RoomIds -> Seq(Commands)]
  BY DEF RoomsTypeOK
<1>2. ASSUME NEW j \in RoomIds, NEW k \in 1..Len(inbox'[j]),
             inbox'[j][k].op \in AskOps
      PROVE  k \in 1..Len(inbox[j]) /\ inbox'[j][k] = inbox[j][k]
  <2>1. \/ k \in 1..Len(inbox[j]) /\ inbox'[j][k] = inbox[j][k]
        \/ j = i /\ k = Len(inbox[i]) + 1 /\ inbox'[j][k] = m
    BY <1>1, Appended
  <2> QED BY <2>1, <1>2
<1>3. ASSUME NEW j \in RoomIds, NEW k \in 1..Len(inbox'[j])
      PROVE  AskedOK(inbox[j][k], j)'
  <2>1. CASE inbox'[j][k].op \notin AskOps
    BY <2>1 DEF AskedOK
  <2>2. CASE inbox'[j][k].op \in AskOps
    <3>1. AskedOK(inbox[j][k], j) /\ inbox[j][k].conn \in Conns
      BY <1>2, <2>2, <1>1 DEF InboxOK, Commands
    <3>2. WaitsAt(inbox[j][k].op) \in Waiting
      BY DEF WaitsAt, Waiting
    <3> QED BY <1>2, <2>2, <3>1, <3>2 DEF AskedOK
  <2> QED BY <2>1, <2>2
<1>4. InboxOK'
  BY <1>3 DEF InboxOK
<1>5. OneAsk'
  <2> SUFFICES ASSUME NEW j \in RoomIds, NEW h \in RoomIds,
                      NEW k \in 1..Len(inbox'[j]), NEW l \in 1..Len(inbox'[h]),
                      inbox'[j][k].op \in AskOps, inbox'[h][l].op \in AskOps,
                      inbox'[j][k].conn = inbox'[h][l].conn
               PROVE  j = h /\ k = l
    BY DEF OneAsk
  <2>1. k \in 1..Len(inbox[j]) /\ inbox'[j][k] = inbox[j][k]
    BY <1>2
  <2>2. l \in 1..Len(inbox[h]) /\ inbox'[h][l] = inbox[h][l]
    BY <1>2
  <2> QED BY <2>1, <2>2 DEF OneAsk
<1> QED BY <1>4, <1>5

(* or one that does, and wait.                                             *)
LEMMA Asks ==
  ASSUME RoomsTypeOK, InboxOK, OneAsk, NEW c \in Conns, NEW i \in RoomIds,
         NEW m \in Commands, m.op \in AskOps, m.conn = c,
         pc[c] \notin Waiting, reply[c] = "none", Send(i, m),
         pc'[c] = WaitsAt(m.op), UNCHANGED <<job, reply>>,
         m.op \in {"join", "close"} => job[c].tx = i,
         \A d \in Conns \ {c} : pc'[d] = pc[d]
  PROVE  InboxOK' /\ OneAsk'
<1>1. inbox \in [RoomIds -> Seq(Commands)]
  BY DEF RoomsTypeOK
<1>2. ASSUME NEW j \in RoomIds, NEW k \in 1..Len(inbox'[j])
      PROVE  \/ k \in 1..Len(inbox[j]) /\ inbox'[j][k] = inbox[j][k]
             \/ j = i /\ k = Len(inbox[i]) + 1 /\ inbox'[j][k] = m
  BY <1>1, Appended
<1>3. ASSUME NEW j \in RoomIds, NEW k \in 1..Len(inbox[j]),
             inbox[j][k].op \in AskOps
      PROVE  AskedOK(inbox[j][k], j) /\ inbox[j][k].conn \in Conns \ {c}
  <2>1. AskedOK(inbox[j][k], j) /\ inbox[j][k].conn \in Conns
    BY <1>1 DEF InboxOK, Commands
  <2>2. WaitsAt(inbox[j][k].op) \in Waiting
    BY DEF WaitsAt, Waiting
  <2> QED BY <1>3, <2>1, <2>2 DEF AskedOK
<1>4. ASSUME NEW j \in RoomIds, NEW k \in 1..Len(inbox'[j])
      PROVE  AskedOK(inbox[j][k], j)'
  <2>1. CASE k \in 1..Len(inbox[j]) /\ inbox'[j][k] = inbox[j][k]
    BY <2>1, <1>3 DEF AskedOK
  <2>2. CASE j = i /\ k = Len(inbox[i]) + 1 /\ inbox'[j][k] = m
    BY <2>2 DEF AskedOK
  <2> QED BY <1>2, <2>1, <2>2
<1>5. InboxOK'
  BY <1>4 DEF InboxOK
<1>6. OneAsk'
  <2> SUFFICES ASSUME NEW j \in RoomIds, NEW h \in RoomIds,
                      NEW k \in 1..Len(inbox'[j]), NEW l \in 1..Len(inbox'[h]),
                      inbox'[j][k].op \in AskOps, inbox'[h][l].op \in AskOps,
                      inbox'[j][k].conn = inbox'[h][l].conn
               PROVE  j = h /\ k = l
    BY DEF OneAsk
  <2>1. CASE /\ k \in 1..Len(inbox[j]) /\ inbox'[j][k] = inbox[j][k]
             /\ l \in 1..Len(inbox[h]) /\ inbox'[h][l] = inbox[h][l]
    BY <2>1 DEF OneAsk
  <2>2. CASE /\ k \in 1..Len(inbox[j]) /\ inbox'[j][k] = inbox[j][k]
             /\ inbox'[h][l] = m
    BY <2>2, <1>3
  <2>3. CASE /\ l \in 1..Len(inbox[h]) /\ inbox'[h][l] = inbox[h][l]
             /\ inbox'[j][k] = m
    BY <2>3, <1>3
  <2>4. CASE j = i /\ h = i /\ k = Len(inbox[i]) + 1 /\ l = Len(inbox[i]) + 1
    BY <2>4
  <2> QED BY <1>2, <2>1, <2>2, <2>3, <2>4
<1> QED BY <1>5, <1>6

(* An actor answers the command it takes out, if that one wants an answer. *)
LEMMA Answering ==
  ASSUME RoomsTypeOK, InboxOK, OneAsk, NEW i \in RoomIds, inbox[i] # <<>>,
         Handled(i), UNCHANGED <<pc, job>>,
         \/ reply' = reply
         \/ /\ Head(inbox[i]).op \in AskOps
            /\ \A d \in Conns \ {Sender(i)} : reply'[d] = reply[d]
  PROVE  InboxOK' /\ OneAsk'
<1>1. inbox \in [RoomIds -> Seq(Commands)]
  BY DEF RoomsTypeOK
<1>2. ASSUME NEW j \in RoomIds, NEW k \in 1..Len(inbox'[j])
      PROVE  \E l \in 1..Len(inbox[j]) :
               /\ inbox'[j][k] = inbox[j][l]
               /\ IF j = i THEN l = k + 1 ELSE l = k
  BY <1>1, Taken
<1>3. ASSUME NEW j \in RoomIds, NEW k \in 1..Len(inbox'[j]),
             inbox'[j][k].op \in AskOps, Head(inbox[i]).op \in AskOps
      PROVE  inbox'[j][k].conn # Sender(i)
  <2>1. PICK l \in 1..Len(inbox[j]) :
               /\ inbox'[j][k] = inbox[j][l]
               /\ IF j = i THEN l = k + 1 ELSE l = k
    BY <1>2
  <2>2. ~(j = i /\ l = 1)
    BY <2>1
  <2>3. Head(inbox[i]) = inbox[i][1] /\ 1 \in 1..Len(inbox[i])
    BY <1>1, Taken
  <2> QED BY <1>3, <2>1, <2>2, <2>3 DEF OneAsk, Sender
<1>4. ASSUME NEW j \in RoomIds, NEW k \in 1..Len(inbox'[j])
      PROVE  AskedOK(inbox[j][k], j)'
  <2>1. PICK l \in 1..Len(inbox[j]) : inbox'[j][k] = inbox[j][l]
    BY <1>2
  <2>2. AskedOK(inbox[j][l], j) /\ inbox[j][l].conn \in Conns
    BY <1>1, <2>1 DEF InboxOK, Commands
  <2> QED BY <1>3, <2>1, <2>2 DEF AskedOK
<1>5. OneAsk'
  <2> SUFFICES ASSUME NEW j \in RoomIds, NEW h \in RoomIds,
                      NEW k \in 1..Len(inbox'[j]), NEW l \in 1..Len(inbox'[h]),
                      inbox'[j][k].op \in AskOps, inbox'[h][l].op \in AskOps,
                      inbox'[j][k].conn = inbox'[h][l].conn
               PROVE  j = h /\ k = l
    BY DEF OneAsk
  <2>1. PICK x \in 1..Len(inbox[j]) :
               /\ inbox'[j][k] = inbox[j][x]
               /\ IF j = i THEN x = k + 1 ELSE x = k
    BY <1>2
  <2>2. PICK y \in 1..Len(inbox[h]) :
               /\ inbox'[h][l] = inbox[h][y]
               /\ IF h = i THEN y = l + 1 ELSE y = l
    BY <1>2
  <2>3. j = h /\ x = y
    BY <2>1, <2>2 DEF OneAsk
  <2> QED BY <2>1, <2>2, <2>3
<1> QED BY <1>4, <1>5 DEF InboxOK

---------------------------------------------------------------------------
(* Types.                                                                  *)

(* The records that requests work on.                                      *)
LEMMA JobTypes ==
  /\ NoJob \in Jobs
  /\ \A n \in Names, u \in Users \cup {Nobody} :
       [NoJob EXCEPT !.room = n, !.target = u] \in Jobs
  /\ \A n \in Names, i \in Handles :
       [NoJob EXCEPT !.room = n, !.tx = i] \in Jobs
  /\ \A j \in Jobs, i \in Handles :
       /\ [j EXCEPT !.tx = i] \in Jobs
       /\ \A k \in 0..(JoinAttempts - 1) :
            [j EXCEPT !.tries = k, !.tx = i] \in Jobs
<1>1. /\ NoRoom \in Handles /\ 0 \in 0..(JoinAttempts - 1)
      /\ Lobby \in Names /\ Nobody \in Users \cup {Nobody}
  BY Bounds DEF Handles, NoRoom
<1>2. NoJob \in Jobs
  BY <1>1 DEF Jobs, NoJob
<1> HIDE DEF NoJob, Handles, NoRoom
<1>3. \A n \in Names, u \in Users \cup {Nobody} :
        [NoJob EXCEPT !.room = n, !.target = u] \in Jobs
  BY <1>2 DEF Jobs
<1>4. \A n \in Names, i \in Handles :
        [NoJob EXCEPT !.room = n, !.tx = i] \in Jobs
  BY <1>2 DEF Jobs
<1>5. \A j \in Jobs, i \in Handles :
        /\ [j EXCEPT !.tx = i] \in Jobs
        /\ \A k \in 0..(JoinAttempts - 1) :
             [j EXCEPT !.tries = k, !.tx = i] \in Jobs
  BY DEF Jobs
<1> QED BY <1>2, <1>3, <1>4, <1>5

(* Types after a request is done, a room left, a name forgotten, a join    *)
(* tried again.                                                            *)
LEMMA Returns ==
  ASSUME TaskTypeOK, NEW c \in Conns, Return(c)
  PROVE  TaskTypeOK'
  BY JobTypes DEF TaskTypeOK, Return, Goto, Positions

LEMMA Leaves ==
  ASSUME TaskTypeOK, DirTypeOK, ConnTypeOK, NEW c \in Conns, NEW n \in Names,
         StartLeave(c, n)
  PROVE  TaskTypeOK' /\ joined' \in [Conns -> [Names -> Handles]]
<1>1. joined' \in [Conns -> [Names -> Handles]]
  BY Bounds DEF ConnTypeOK, StartLeave, Handles, NoRoom
<1>2. CASE Return(c)
  BY <1>1, <1>2, Returns
<1>3. CASE /\ Goto(c, "sendLeave")
           /\ job' = [job EXCEPT ![c] =
                        [NoJob EXCEPT !.room = n, !.tx = dir[n]]]
  BY <1>1, <1>3, JobTypes DEF TaskTypeOK, DirTypeOK, Goto, Positions
<1> QED BY <1>2, <1>3 DEF StartLeave

LEMMA Forgets ==
  ASSUME dir \in [Names -> Handles], NEW n, NEW i, Forget(n, i)
  PROVE  dir' \in [Names -> Handles]
<1>1. NoRoom \in Handles
  BY Bounds DEF Handles, NoRoom
<1> QED BY <1>1 DEF Forget

LEMMA Retries ==
  ASSUME TaskTypeOK, NEW c \in Conns, Retry(c)
  PROVE  TaskTypeOK'
<1>1. CASE Return(c)
  BY <1>1, Returns
<1>2. CASE /\ job[c].tries + 1 # JoinAttempts
           /\ job' = [job EXCEPT ![c].tries = job[c].tries + 1,
                                 ![c].tx = NoRoom]
           /\ Goto(c, IF job[c].target = Nobody THEN "lookup" ELSE "create")
  <2>1. job[c].tries + 1 \in 0..(JoinAttempts - 1) /\ NoRoom \in Handles
    BY <1>2, Bounds DEF TaskTypeOK, Jobs, Handles, NoRoom
  <2>2. [job[c] EXCEPT !.tries = job[c].tries + 1, !.tx = NoRoom] \in Jobs
    BY <2>1, JobTypes DEF TaskTypeOK
  <2>3. job' = [job EXCEPT ![c] = [job[c] EXCEPT !.tries = job[c].tries + 1,
                                                 !.tx = NoRoom]]
    BY <1>2 DEF TaskTypeOK
  <2>4. job' \in [Conns -> Jobs]
    BY <2>2, <2>3 DEF TaskTypeOK
  <2> QED BY <2>4, <1>2 DEF TaskTypeOK, Goto, Positions
<1> QED BY <1>1, <1>2 DEF Retry

(* Parts that a step leaves alone keep their types.                        *)
LEMMA Kept ==
  /\ DirTypeOK /\ UNCHANGED dirVars => DirTypeOK'
  /\ ActorTypeOK /\ UNCHANGED actorVars => ActorTypeOK'
  /\ TaskTypeOK /\ UNCHANGED <<pc, job>> => TaskTypeOK'
  /\ ConnTypeOK /\ UNCHANGED connVars => ConnTypeOK'
  BY DEF DirTypeOK, dirVars, ActorTypeOK, actorVars, TaskTypeOK, ConnTypeOK,
         connVars

(* A connection that goes to another position goes alone.                  *)
LEMMA Moves ==
  ASSUME TaskTypeOK, NEW c \in Conns, NEW p \in Positions, Goto(c, p)
  PROVE  /\ pc' \in [Conns -> Positions] /\ pc'[c] = p
         /\ \A d \in Conns \ {c} : pc'[d] = pc[d]
         /\ UNCHANGED job => TaskTypeOK'
  BY DEF TaskTypeOK, Goto

---------------------------------------------------------------------------
(* A step of connection c that changes nothing of the others.              *)
OnlyOf(c) ==
  \A d \in Conns \ {c} :
    pc'[d] = pc[d] /\ job'[d] = job[d] /\ reply'[d] = reply[d]

(* What holds of the other connections goes on to hold.                    *)
LEMMA OthersKeep ==
  ASSUME RoomInv, NEW c \in Conns, OnlyOf(c), UNCHANGED actorVars,
         NEW d \in Conns \ {c}
  PROVE  ReplyOf(d)' /\ TxOf(d)'
  BY DEF RoomInv, OnlyOf, ReplyOf, TxOf, actorVars, Live

(* Steps that send nothing,                                                *)
LEMMA LocalStep ==
  ASSUME RoomInv, NEW c \in Conns, OnlyOf(c),
         pc[c] \notin Waiting \/ reply[c] # "none",
         UNCHANGED <<inbox, actorVars>>,
         RoomsTypeOK', DirOK', TxOf(c)', reply'[c] = "none"
  PROVE  RoomInv'
<1>1. InboxOK' /\ OneAsk'
  BY Local DEF RoomInv, OnlyOf
<1>2. \A d \in Conns : ReplyOf(d)' /\ TxOf(d)'
  BY OthersKeep DEF ReplyOf
<1>3. MembersOK'
  BY DEF RoomInv, MembersOK, actorVars
<1> QED BY <1>1, <1>2, <1>3 DEF RoomInv

(* send a command without an answer,                                       *)
LEMMA TellingStep ==
  ASSUME RoomInv, NEW c \in Conns, OnlyOf(c), NEW i \in RoomIds,
         NEW m \in Commands, m.op \notin AskOps, pc[c] \notin Waiting,
         Send(i, m), UNCHANGED <<dirVars, actorVars>>,
         RoomsTypeOK', TxOf(c)', reply'[c] = "none"
  PROVE  RoomInv'
<1>1. InboxOK' /\ OneAsk'
  BY Tells DEF RoomInv, OnlyOf
<1>2. \A d \in Conns : ReplyOf(d)' /\ TxOf(d)'
  BY OthersKeep DEF ReplyOf
<1>3. MembersOK' /\ DirOK'
  BY DEF RoomInv, MembersOK, DirOK, actorVars, dirVars, Live
<1> QED BY <1>1, <1>2, <1>3 DEF RoomInv

(* or ask for an answer.                                                   *)
LEMMA AskingStep ==
  ASSUME RoomInv, NEW c \in Conns, NEW i \in RoomIds, NEW m \in Commands,
         m.op \in AskOps, m.conn = c, pc[c] \notin Waiting, reply[c] = "none",
         Send(i, m), Goto(c, WaitsAt(m.op)),
         m.op \in {"join", "close"} => job[c].tx = i,
         UNCHANGED <<dirVars, actorVars, job, reply>>,
         RoomsTypeOK', TxOf(c)'
  PROVE  RoomInv'
<1>1. pc'[c] = WaitsAt(m.op) /\ OnlyOf(c)
  BY DEF OnlyOf, Goto, RoomInv, RoomsTypeOK, TaskTypeOK
<1>2. InboxOK' /\ OneAsk'
  BY <1>1, Asks DEF RoomInv, OnlyOf
<1>3. \A d \in Conns : ReplyOf(d)' /\ TxOf(d)'
  BY <1>1, OthersKeep DEF ReplyOf
<1>4. MembersOK' /\ DirOK'
  BY DEF RoomInv, MembersOK, DirOK, actorVars, dirVars, Live
<1> QED BY <1>2, <1>3, <1>4 DEF RoomInv

(* Who does not wait holds no answer.                                      *)
LEMMA NoAnswer ==
  ASSUME RoomInv, NEW c \in Conns, pc[c] \notin Waiting
  PROVE  reply[c] = "none"
  BY DEF RoomInv, ReplyOf

(* Ending a request, and starting to leave, are the connection's own       *)
(* affair.                                                                 *)
LEMMA ReturnOnly ==
  ASSUME TaskTypeOK, NEW c \in Conns, Return(c)
  PROVE  /\ pc'[c] \in {"idle", "cleanup"} /\ TxOf(c)'
         /\ \A d \in Conns \ {c} : pc'[d] = pc[d] /\ job'[d] = job[d]
<1>1. /\ pc'[c] \in {"idle", "cleanup"}
      /\ \A d \in Conns \ {c} : pc'[d] = pc[d] /\ job'[d] = job[d]
  BY DEF TaskTypeOK, Return, Goto
<1> QED BY <1>1 DEF TxOf

LEMMA LeaveOnly ==
  ASSUME RoomInv, NEW c \in Conns, NEW n \in Names, StartLeave(c, n),
         UNCHANGED actorVars
  PROVE  /\ TxOf(c)'
         /\ \A d \in Conns \ {c} : pc'[d] = pc[d] /\ job'[d] = job[d]
<1>1. TaskTypeOK
  BY DEF RoomInv, RoomsTypeOK
<1>2. CASE Return(c)
  BY <1>1, <1>2, ReturnOnly
<1>3. CASE /\ dir[n] # NoRoom /\ Goto(c, "sendLeave")
           /\ job' = [job EXCEPT ![c] =
                        [NoJob EXCEPT !.room = n, !.tx = dir[n]]]
  <2>1. /\ pc'[c] = "sendLeave" /\ job'[c].tx = dir[n] /\ job'[c].room = n
        /\ \A d \in Conns \ {c} : pc'[d] = pc[d] /\ job'[d] = job[d]
    BY <1>1, <1>3 DEF TaskTypeOK, Goto, NoJob
  <2>2. dir[n] \in Live /\ nameOf[dir[n]] = n
    BY <1>3 DEF RoomInv, DirOK
  <2> QED BY <2>1, <2>2 DEF TxOf, actorVars, Live
<1> QED BY <1>2, <1>3 DEF StartLeave

(* A forgotten room was closed, so the directory still lists every open    *)
(* room.                                                                   *)
LEMMA Forgetting ==
  ASSUME RoomInv, NEW n \in Names, NEW i \in Live, closed[i], Forget(n, i),
         UNCHANGED actorVars
  PROVE  DirOK'
<1>1. CASE dir' = dir
  BY <1>1 DEF RoomInv, DirOK, actorVars, Live
<1>2. CASE dir[n] = i /\ dir' = [dir EXCEPT ![n] = NoRoom]
  <2>1. dir \in [Names -> Handles] /\ nameOf \in [RoomIds -> Names]
    BY DEF RoomInv, RoomsTypeOK, DirTypeOK, ActorTypeOK
  <2>2. Live \subseteq RoomIds
    BY Bounds DEF RoomInv, RoomsTypeOK, ActorTypeOK, Live, RoomIds
  <2>3. \A m \in Names : dir'[m] # NoRoom => dir'[m] = dir[m]
    BY <1>2, <2>1
  <2>4. \A j \in Live : ~closed[j] => dir'[nameOf[j]] = dir[nameOf[j]]
    BY <1>2, <2>1, <2>2 DEF RoomInv, DirOK
  <2> QED BY <2>3, <2>4 DEF RoomInv, DirOK, actorVars, Live
<1> QED BY <1>1, <1>2 DEF Forget

(* Rooms are spawned one after the other, the lobby first.                 *)
LEMMA LiveRooms ==
  ASSUME RoomInv
  PROVE  Live \subseteq RoomIds /\ 1 \in Live /\ spawned \in Nat
  BY Bounds DEF RoomInv, RoomsTypeOK, ActorTypeOK, Live, RoomIds

---------------------------------------------------------------------------
(* One lemma per action of a connection.                                   *)

(* ChatJoin.                                                               *)
LEMMA AskJoinStep ==
  ASSUME RoomInv, NEW c \in Conns, NEW n \in Names, AskJoin(c, n)
  PROVE  RoomInv'
<1>1. RoomsTypeOK /\ pc[c] \notin Waiting /\ reply[c] = "none"
  BY NoAnswer DEF AskJoin, Ask, Waiting, RoomInv
<1>2. /\ OnlyOf(c) /\ pc'[c] = "lookup" /\ TaskTypeOK'
  BY <1>1, JobTypes
     DEF AskJoin, Work, Goto, OnlyOf, RoomsTypeOK, TaskTypeOK, Positions
<1>3. ConnTypeOK'
  BY <1>1, Bounds DEF AskJoin, Ask, RoomsTypeOK, ConnTypeOK
<1>4. RoomsTypeOK'
  BY <1>1, <1>2, <1>3, Kept DEF AskJoin, RoomsTypeOK
<1>5. DirOK' /\ TxOf(c)'
  BY <1>2 DEF AskJoin, RoomInv, DirOK, TxOf, dirVars, actorVars, Live
<1> QED BY <1>1, <1>2, <1>4, <1>5, LocalStep DEF AskJoin

(* ChatInvite: a fresh name to create.                                     *)
LEMMA AskInviteStep ==
  ASSUME RoomInv, NEW c \in Conns, NEW u \in Users, AskInvite(c, u)
  PROVE  RoomInv'
<1>1. RoomsTypeOK /\ pc[c] \notin Waiting /\ reply[c] = "none"
  BY NoAnswer DEF AskInvite, Ask, Waiting, RoomInv
<1>2. FreshName \in PrivateNames /\ FreshName \in Names /\ UserOf[c] \in Users
  <2>1. FreshName \in PrivateNames
    BY DEF AskInvite, FreshName
  <2> QED BY <2>1, RoomConstants
<1>3. /\ OnlyOf(c) /\ pc'[c] = "create" /\ TaskTypeOK'
  BY <1>1, <1>2, JobTypes
     DEF AskInvite, Work, Goto, OnlyOf, RoomsTypeOK, TaskTypeOK, Positions
<1>4. ConnTypeOK'
  BY <1>1, <1>2, Bounds DEF AskInvite, Ask, RoomsTypeOK, ConnTypeOK
<1>5. RoomsTypeOK'
  BY <1>1, <1>3, <1>4, Kept DEF AskInvite, RoomsTypeOK
<1>6. DirOK' /\ TxOf(c)'
  BY <1>3 DEF AskInvite, RoomInv, DirOK, TxOf, dirVars, actorVars, Live
<1> QED BY <1>1, <1>3, <1>5, <1>6, LocalStep DEF AskInvite

(* The sender found in the directory is of a live room of that name.       *)
LEMMA LookupStep ==
  ASSUME RoomInv, NEW c \in Conns, Lookup(c)
  PROVE  RoomInv'
<1>1. RoomsTypeOK /\ TaskTypeOK /\ pc[c] \notin Waiting /\ reply[c] = "none"
  BY NoAnswer DEF Lookup, Waiting, RoomInv, RoomsTypeOK
<1>2. job[c].room \in Names
  BY <1>1 DEF TaskTypeOK, Jobs
<1>3. OnlyOf(c) /\ TxOf(c)' /\ TaskTypeOK'
  <2>1. CASE Return(c)
    BY <1>1, <2>1, ReturnOnly, Returns DEF OnlyOf, Lookup
  <2>2. CASE Goto(c, "create") /\ UNCHANGED job
    BY <1>1, <2>2 DEF OnlyOf, Goto, TxOf, TaskTypeOK, Positions, Lookup
  <2>3. CASE /\ dir[job[c].room] # NoRoom /\ Goto(c, "send")
             /\ job' = [job EXCEPT ![c].tx = dir[job[c].room]]
    <3>1. dir[job[c].room] \in Live /\ nameOf[dir[job[c].room]] = job[c].room
      BY <1>2, <2>3 DEF RoomInv, DirOK
    <3>2. job'[c] = [job[c] EXCEPT !.tx = dir[job[c].room]]
      BY <1>1, <2>3 DEF TaskTypeOK
    <3>3. job'[c].tx = dir[job[c].room] /\ job'[c].room = job[c].room
      BY <1>1, <3>2 DEF TaskTypeOK, Jobs
    <3>4. /\ job'[c] \in Jobs /\ job' = [job EXCEPT ![c] = job'[c]]
      BY <1>1, <1>2, <2>3, <3>2, JobTypes
         DEF RoomsTypeOK, DirTypeOK, TaskTypeOK
    <3>5. OnlyOf(c) /\ TaskTypeOK' /\ pc'[c] = "send"
      BY <1>1, <2>3, <3>4 DEF OnlyOf, Goto, TaskTypeOK, Positions, Lookup
    <3> QED BY <3>1, <3>3, <3>5 DEF TxOf, Lookup, actorVars, Live
  <2> QED BY <2>1, <2>2, <2>3 DEF Lookup
<1>4. RoomsTypeOK'
  BY <1>1, <1>3, Kept DEF Lookup, RoomsTypeOK
<1>5. DirOK'
  BY DEF Lookup, RoomInv, DirOK, dirVars, actorVars, Live
<1> QED BY <1>1, <1>3, <1>4, <1>5, LocalStep DEF Lookup

(* The cap is met, or the entry is next.                                   *)
LEMMA CountRoomsStep ==
  ASSUME RoomInv, NEW c \in Conns, CountRooms(c)
  PROVE  RoomInv'
<1>1. RoomsTypeOK /\ TaskTypeOK /\ pc[c] \notin Waiting /\ reply[c] = "none"
  BY NoAnswer DEF CountRooms, Waiting, RoomInv, RoomsTypeOK
<1>2. OnlyOf(c) /\ TxOf(c)' /\ TaskTypeOK'
  <2>1. CASE Return(c)
    BY <1>1, <2>1, ReturnOnly, Returns DEF OnlyOf, CountRooms
  <2>2. CASE Goto(c, "insert") /\ UNCHANGED job
    BY <1>1, <2>2 DEF OnlyOf, Goto, TxOf, TaskTypeOK, Positions, CountRooms
  <2> QED BY <2>1, <2>2 DEF CountRooms
<1>3. RoomsTypeOK'
  BY <1>1, <1>2, Kept DEF CountRooms, RoomsTypeOK
<1>4. DirOK'
  BY DEF CountRooms, RoomInv, DirOK, dirVars, actorVars, Live
<1> QED BY <1>1, <1>2, <1>3, <1>4, LocalStep DEF CountRooms

(* The new room is listed at once, under a name that listed none.          *)
LEMMA InsertStep ==
  ASSUME RoomInv, NEW c \in Conns, Insert(c)
  PROVE  RoomInv'
<1> DEFINE n == job[c].room
           i == IF dir[n] = NoRoom THEN spawned + 1 ELSE dir[n]
<1>1. RoomsTypeOK /\ TaskTypeOK /\ pc[c] \notin Waiting /\ reply[c] = "none"
  BY NoAnswer DEF Insert, Waiting, RoomInv, RoomsTypeOK
<1>2. n \in Names /\ UserOf[c] \in Users
  BY <1>1, RoomConstants DEF TaskTypeOK, Jobs
<1>3. /\ dir \in [Names -> Handles] /\ nameOf \in [RoomIds -> Names]
      /\ Live \subseteq RoomIds /\ spawned \in Nat /\ 1 \in Live
      /\ i \in RoomIds /\ i \in Handles
  BY <1>1, LiveRooms
     DEF RoomsTypeOK, DirTypeOK, ActorTypeOK, Insert, RoomIds, Handles
<1>4. /\ dir' = [dir EXCEPT ![n] = i]
      /\ job' = [job EXCEPT ![c].tx = i] /\ Goto(c, "send")
      /\ UNCHANGED <<members, closed, gate, muted, inbox, reply, connVars>>
  BY DEF Insert
<1> HIDE DEF i
<1>5. OnlyOf(c) /\ TaskTypeOK' /\ pc'[c] = "send"
      /\ job'[c].tx = i /\ job'[c].room = n
  <2>1. job'[c] = [job[c] EXCEPT !.tx = i]
    BY <1>1, <1>4 DEF TaskTypeOK
  <2>2. job'[c].tx = i /\ job'[c].room = n
    BY <1>1, <2>1 DEF TaskTypeOK, Jobs
  <2>3. job'[c] \in Jobs /\ job' = [job EXCEPT ![c] = job'[c]]
    BY <1>1, <1>3, <1>4, <2>1, JobTypes DEF TaskTypeOK
  <2> QED BY <1>1, <1>4, <2>2, <2>3 DEF OnlyOf, Goto, TaskTypeOK, Positions
\* Either the room was there, or it is the next one.
<1>6. \/ /\ i \in Live /\ dir[n] = i /\ UNCHANGED <<spawned, nameOf, private>>
      \/ /\ i = spawned + 1 /\ spawned' = i /\ dir[n] = NoRoom
         /\ nameOf' = [nameOf EXCEPT ![i] = n]
         /\ private' = [private EXCEPT ![i] = job[c].target # Nobody]
  <2>1. CASE dir[n] = NoRoom
    BY <2>1 DEF Insert, i
  <2>2. CASE dir[n] # NoRoom
    <3>1. dir[n] \in Live
      BY <1>2, <2>2 DEF RoomInv, DirOK
    <3>2. i = dir[n] /\ i # spawned + 1
      BY <1>3, <2>2, <3>1 DEF Live, i
    <3> QED BY <3>1, <3>2 DEF Insert, i
  <2> QED BY <2>1, <2>2
<1>7. RoomsTypeOK'
  <2>1. ActorTypeOK'
    BY <1>1, <1>2, <1>3, <1>4, <1>6 DEF RoomsTypeOK, ActorTypeOK
  <2>2. invited' \in [RoomIds -> SUBSET Users]
    BY <1>1, <1>2, <1>3 DEF Insert, RoomsTypeOK, DirTypeOK, i
  <2>3. DirTypeOK'
    BY <1>1, <1>2, <1>3, <1>4, <1>6, <2>2 DEF RoomsTypeOK, DirTypeOK
  <2> QED BY <1>1, <1>4, <1>5, <2>1, <2>3, Kept DEF RoomsTypeOK
<1>8. /\ Live \subseteq Live' /\ \A j \in Live : nameOf'[j] = nameOf[j]
      /\ i \in Live' /\ nameOf'[i] = n /\ \A j \in Live' \ Live : j = i
  <2>1. CASE /\ i \in Live /\ dir[n] = i
             /\ UNCHANGED <<spawned, nameOf, private>>
    <3>1. Live' = Live /\ dir[n] # NoRoom
      BY <1>3, <2>1 DEF Live, NoRoom
    <3>2. nameOf[i] = n
      BY <1>2, <2>1, <3>1 DEF RoomInv, DirOK
    <3> QED BY <2>1, <3>1, <3>2
  <2>2. CASE /\ i = spawned + 1 /\ spawned' = i
             /\ nameOf' = [nameOf EXCEPT ![i] = n]
    BY <1>2, <1>3, <2>2 DEF Live
  <2> QED BY <1>6, <2>1, <2>2
<1>9. DirOK'
  <2>1. \A m \in Names : dir'[m] # NoRoom =>
          dir'[m] \in Live' /\ nameOf'[dir'[m]] = m
    BY <1>2, <1>3, <1>4, <1>8 DEF RoomInv, DirOK
  <2>2. \A j \in Live' : ~closed[j] => dir'[nameOf'[j]] = j
    <3> SUFFICES ASSUME NEW j \in Live', ~closed[j]
                 PROVE  dir'[nameOf'[j]] = j
      OBVIOUS
    <3>1. CASE j = i
      BY <1>2, <1>3, <1>4, <1>8, <3>1
    <3>2. CASE j # i
      <4>1. j \in Live /\ nameOf'[j] = nameOf[j] /\ dir[nameOf[j]] = j
        BY <1>8, <3>2 DEF RoomInv, DirOK
      <4>2. nameOf[j] # n
        BY <1>3, <1>6, <3>2, <4>1 DEF NoRoom, Live
      <4> QED BY <1>3, <1>4, <4>1, <4>2
    <3> QED BY <3>1, <3>2
  <2>3. nameOf'[1] = Lobby /\ ~closed'[1]
    BY <1>3, <1>4, <1>8 DEF RoomInv, DirOK
  <2> QED BY <1>4, <2>1, <2>2, <2>3 DEF DirOK
<1>10. InboxOK' /\ OneAsk'
  BY <1>1, <1>4, <1>5, Local DEF RoomInv, OnlyOf
<1>11. MembersOK'
  BY <1>4 DEF RoomInv, MembersOK
<1>12. ASSUME NEW d \in Conns
       PROVE  ReplyOf(d)' /\ TxOf(d)'
  <2>1. CASE d = c
    BY <1>1, <1>4, <1>5, <1>8, <2>1 DEF ReplyOf, TxOf
  <2>2. CASE d # c
    BY <1>4, <1>5, <1>8, <2>2 DEF RoomInv, OnlyOf, ReplyOf, TxOf
  <2> QED BY <2>1, <2>2
<1> QED BY <1>7, <1>9, <1>10, <1>11, <1>12 DEF RoomInv

(* Join waits for the actor.                                               *)
LEMMA SendJoinStep ==
  ASSUME RoomInv, NEW c \in Conns, SendJoin(c)
  PROVE  RoomInv'
<1> DEFINE m == Command("join", c)
<1>1. RoomsTypeOK /\ TaskTypeOK /\ pc[c] = "send" /\ reply[c] = "none"
  BY NoAnswer DEF SendJoin, Waiting, RoomInv, RoomsTypeOK
<1>2. m \in Commands /\ m.op = "join" /\ m.conn = c
  BY DEF Commands, Command
<1>3. job[c].tx \in RoomIds
  BY <1>1, LiveRooms DEF RoomInv, TxOf
<1>4. TaskTypeOK' /\ TxOf(c)' /\ WaitsAt("join") = "joining"
  BY <1>1 DEF SendJoin, Goto, TaskTypeOK, Positions, RoomInv, TxOf, actorVars,
              Live, WaitsAt
<1>5. RoomsTypeOK'
  BY <1>1, <1>2, <1>3, <1>4, Appended, Kept DEF SendJoin, RoomsTypeOK
<1> HIDE DEF m
<1> QED BY <1>1, <1>2, <1>3, <1>4, <1>5, AskingStep
        DEF SendJoin, Waiting, AskOps, m

(* An answer "closed" speaks of the room in hand, so forgetting it unlists *)
(* no open room.                                                           *)
LEMMA JoinAnsweredStep ==
  ASSUME RoomInv, NEW c \in Conns, JoinAnswered(c)
  PROVE  RoomInv'
<1>1. /\ RoomsTypeOK /\ TaskTypeOK /\ DirTypeOK /\ pc[c] = "joining"
      /\ reply[c] # "none" /\ reply' = [reply EXCEPT ![c] = "none"]
      /\ UNCHANGED <<actorVars, inbox>>
  BY DEF JoinAnswered, Receive, RoomInv, RoomsTypeOK
<1>2. /\ job[c].room \in Names /\ job[c].tx \in Live /\ job[c].tx \in Handles
      /\ job[c].target \in Users \cup {Nobody}
  BY <1>1 DEF TaskTypeOK, Jobs, RoomInv, TxOf
<1>3. /\ reply' \in [Conns -> Answers] /\ reply'[c] = "none"
      /\ \A d \in Conns \ {c} : reply'[d] = reply[d]
  BY <1>1 DEF RoomsTypeOK, Answers
<1>4. /\ TxOf(c)' /\ TaskTypeOK' /\ DirTypeOK' /\ DirOK'
      /\ joined' \in [Conns -> [Names -> Handles]]
      /\ \A d \in Conns \ {c} : pc'[d] = pc[d] /\ job'[d] = job[d]
  <2>1. CASE /\ reply[c] = "ok" /\ UNCHANGED dir
             /\ joined' = [joined EXCEPT ![c][job[c].room] = job[c].tx]
    <3>1. joined' \in [Conns -> [Names -> Handles]]
      BY <1>1, <1>2, <2>1 DEF RoomsTypeOK, ConnTypeOK
    <3>2. DirOK'
      BY <1>1, <2>1 DEF RoomInv, DirOK, actorVars, Live
    <3>3. CASE Return(c) /\ UNCHANGED invited
      BY <1>1, <2>1, <3>1, <3>2, <3>3, ReturnOnly, Returns
         DEF JoinAnswered, DirTypeOK
    <3>4. CASE /\ job[c].target # Nobody
               /\ Goto(c, "deliver") /\ UNCHANGED job
               /\ \/ UNCHANGED invited
                  \/ invited' = [invited EXCEPT ![dir[job[c].room]] =
                                   @ \cup {job[c].target}]
      <4>1. TxOf(c)' /\ TaskTypeOK'
            /\ \A d \in Conns \ {c} : pc'[d] = pc[d] /\ job'[d] = job[d]
        BY <1>1, <3>4 DEF Goto, TaskTypeOK, Positions, TxOf
      <4>2. DirTypeOK'
        BY <1>1, <1>2, <2>1, <3>4 DEF DirTypeOK, JoinAnswered
      <4> QED BY <3>1, <3>2, <4>1, <4>2
    <3> QED BY <2>1, <3>3, <3>4 DEF JoinAnswered
  <2>2. CASE /\ reply[c] = "refused" /\ Return(c)
             /\ UNCHANGED <<dir, invited, joined>>
    BY <1>1, <2>2, ReturnOnly, Returns
       DEF JoinAnswered, DirTypeOK, RoomsTypeOK, ConnTypeOK, RoomInv, DirOK,
           actorVars, Live
  <2>3. CASE reply[c] = "closed" /\ Retry(c) /\ UNCHANGED <<invited, joined>>
    <3>1. closed[job[c].tx]
      BY <2>3 DEF RoomInv, ReplyOf
    <3>2. Forget(job[c].room, job[c].tx)
      BY <2>3 DEF Retry
    <3>3. DirOK' /\ dir' \in [Names -> Handles]
      BY <1>1, <1>2, <3>1, <3>2, Forgetting, Forgets DEF DirTypeOK
    <3>4. DirTypeOK' /\ joined' \in [Conns -> [Names -> Handles]]
      BY <1>1, <2>3, <3>3 DEF JoinAnswered, DirTypeOK, RoomsTypeOK, ConnTypeOK
    <3>5. CASE Return(c)
      BY <1>1, <2>3, <3>3, <3>4, <3>5, ReturnOnly, Returns
    <3>6. CASE /\ job' = [job EXCEPT ![c].tries = job[c].tries + 1,
                                     ![c].tx = NoRoom]
               /\ Goto(c, IF job[c].target = Nobody THEN "lookup"
                          ELSE "create")
      <4>1. /\ pc'[c] \in {"lookup", "create"}
            /\ \A d \in Conns \ {c} : pc'[d] = pc[d] /\ job'[d] = job[d]
        BY <1>1, <3>6 DEF TaskTypeOK, Goto
      <4>2. TxOf(c)'
        BY <4>1 DEF TxOf
      <4> QED BY <1>1, <2>3, <3>3, <3>4, <4>1, <4>2, Retries
    <3> QED BY <2>3, <3>5, <3>6 DEF Retry
  <2> QED BY <2>1, <2>2, <2>3 DEF JoinAnswered
<1>5. ConnTypeOK'
  BY <1>1, <1>4 DEF JoinAnswered, RoomsTypeOK, ConnTypeOK
<1>6. RoomsTypeOK'
  BY <1>1, <1>3, <1>4, <1>5, Kept DEF RoomsTypeOK
<1>7. OnlyOf(c)
  BY <1>3, <1>4 DEF OnlyOf
<1> QED BY <1>1, <1>3, <1>4, <1>6, <1>7, LocalStep

(* ChatLeave.                                                              *)
LEMMA AskLeaveStep ==
  ASSUME RoomInv, NEW c \in Conns, NEW n \in Names, AskLeave(c, n)
  PROVE  RoomInv'
<1>1. RoomsTypeOK /\ pc[c] \notin Waiting /\ reply[c] = "none"
  BY NoAnswer DEF AskLeave, Waiting, RoomInv
<1>2. /\ StartLeave(c, n) /\ UNCHANGED <<dirVars, actorVars, inbox, reply>>
      /\ UNCHANGED <<ending, gone, ops, meant>>
  BY DEF AskLeave
<1>3. OnlyOf(c) /\ TxOf(c)'
  BY <1>2, LeaveOnly DEF OnlyOf
<1>4. TaskTypeOK' /\ ConnTypeOK'
  BY <1>1, <1>2, Leaves DEF RoomsTypeOK, ConnTypeOK
<1>5. RoomsTypeOK'
  BY <1>1, <1>2, <1>4, Kept DEF RoomsTypeOK
<1>6. DirOK'
  BY <1>2 DEF RoomInv, DirOK, dirVars, actorVars, Live
<1> QED BY <1>1, <1>2, <1>3, <1>5, <1>6, LocalStep

(* The invitation is delivered or taken back.                              *)
LEMMA DeliverStep ==
  ASSUME RoomInv, NEW c \in Conns, Deliver(c)
  PROVE  RoomInv'
<1>1. /\ RoomsTypeOK /\ TaskTypeOK /\ pc[c] \notin Waiting
      /\ reply[c] = "none" /\ job[c].room \in Names
  BY NoAnswer DEF Deliver, Waiting, RoomInv, RoomsTypeOK, TaskTypeOK, Jobs
<1>2. /\ UNCHANGED <<dirVars, actorVars, inbox, reply>>
      /\ UNCHANGED <<ending, gone, ops, meant>>
  BY DEF Deliver
<1>3. OnlyOf(c) /\ TxOf(c)' /\ TaskTypeOK' /\ ConnTypeOK'
  <2>1. CASE Return(c) /\ UNCHANGED joined
    BY <1>1, <1>2, <2>1, ReturnOnly, Returns
       DEF OnlyOf, RoomsTypeOK, ConnTypeOK
  <2>2. CASE StartLeave(c, job[c].room)
    BY <1>1, <1>2, <2>2, LeaveOnly, Leaves
       DEF OnlyOf, RoomsTypeOK, ConnTypeOK
  <2> QED BY <2>1, <2>2 DEF Deliver
<1>4. RoomsTypeOK'
  BY <1>1, <1>2, <1>3, Kept DEF RoomsTypeOK
<1>5. DirOK'
  BY <1>2 DEF RoomInv, DirOK, dirVars, actorVars, Live
<1> QED BY <1>1, <1>2, <1>3, <1>4, <1>5, LocalStep

(* The cleanup leaves room after room.                                     *)
LEMMA CleanupStep ==
  ASSUME RoomInv, NEW c \in Conns, Cleanup(c)
  PROVE  RoomInv'
<1>1. RoomsTypeOK /\ TaskTypeOK /\ pc[c] \notin Waiting /\ reply[c] = "none"
  BY NoAnswer DEF Cleanup, Waiting, RoomInv, RoomsTypeOK
<1>2. /\ UNCHANGED <<dirVars, actorVars, inbox, reply>>
      /\ UNCHANGED <<ending, ops, meant>>
  BY DEF Cleanup
<1>3. OnlyOf(c) /\ TxOf(c)' /\ TaskTypeOK' /\ ConnTypeOK'
  <2>1. CASE (\E n \in Names : StartLeave(c, n)) /\ UNCHANGED gone
    <3>1. PICK n \in Names : StartLeave(c, n)
      BY <2>1
    <3> QED BY <1>1, <1>2, <2>1, <3>1, LeaveOnly, Leaves
            DEF OnlyOf, RoomsTypeOK, ConnTypeOK
  <2>2. CASE /\ Goto(c, "done") /\ gone' = gone \cup {c}
             /\ UNCHANGED <<job, joined>>
    <3>1. pc'[c] = "done" /\ OnlyOf(c) /\ TaskTypeOK'
      BY <1>1, <1>2, <2>2 DEF Goto, OnlyOf, TaskTypeOK, Positions
    <3> QED BY <1>1, <1>2, <2>2, <3>1 DEF TxOf, RoomsTypeOK, ConnTypeOK
  <2> QED BY <2>1, <2>2 DEF Cleanup
<1>4. RoomsTypeOK'
  BY <1>1, <1>2, <1>3, Kept DEF RoomsTypeOK
<1>5. DirOK'
  BY <1>2 DEF RoomInv, DirOK, dirVars, actorVars, Live
<1> QED BY <1>1, <1>2, <1>3, <1>4, <1>5, LocalStep

(* A connection ends.                                                      *)
LEMMA CloseStep ==
  ASSUME RoomInv, NEW c \in Conns, Close(c)
  PROVE  RoomInv'
<1>1. RoomsTypeOK /\ TaskTypeOK /\ pc[c] \notin Waiting /\ reply[c] = "none"
  BY NoAnswer DEF Close, Waiting, RoomInv, RoomsTypeOK
<1>2. pc'[c] = "cleanup" /\ OnlyOf(c) /\ TaskTypeOK' /\ TxOf(c)'
  BY <1>1 DEF Close, Goto, OnlyOf, TaskTypeOK, Positions, TxOf
<1>3. ConnTypeOK'
  BY <1>1 DEF Close, RoomsTypeOK, ConnTypeOK
<1>4. RoomsTypeOK'
  BY <1>1, <1>2, <1>3, Kept DEF Close, RoomsTypeOK
<1>5. DirOK'
  BY DEF Close, RoomInv, DirOK, dirVars, actorVars, Live
<1> QED BY <1>1, <1>2, <1>4, <1>5, LocalStep DEF Close

(* The answer to a topic or to flags.                                      *)
LEMMA AnsweredStep ==
  ASSUME RoomInv, NEW c \in Conns, Answered(c)
  PROVE  RoomInv'
<1>1. /\ RoomsTypeOK /\ TaskTypeOK /\ reply[c] # "none"
      /\ reply' = [reply EXCEPT ![c] = "none"]
  BY DEF Answered, Receive, RoomInv, RoomsTypeOK
<1>2. /\ reply' \in [Conns -> Answers] /\ reply'[c] = "none"
      /\ \A d \in Conns \ {c} : reply'[d] = reply[d]
  BY <1>1 DEF RoomsTypeOK, Answers
<1>3. OnlyOf(c) /\ TaskTypeOK' /\ TxOf(c)'
  BY <1>1, <1>2 DEF Answered, Goto, OnlyOf, TaskTypeOK, Positions, TxOf
<1>4. RoomsTypeOK'
  BY <1>1, <1>2, <1>3, Kept DEF Answered, RoomsTypeOK
<1>5. DirOK'
  BY DEF Answered, RoomInv, DirOK, dirVars, actorVars, Live
<1> QED BY <1>1, <1>2, <1>3, <1>4, <1>5, LocalStep DEF Answered

(* The closed room is forgotten.                                           *)
LEMMA CloseAnsweredStep ==
  ASSUME RoomInv, NEW c \in Conns, CloseAnswered(c)
  PROVE  RoomInv'
<1>1. /\ RoomsTypeOK /\ TaskTypeOK /\ pc[c] = "closing"
      /\ reply[c] # "none" /\ reply' = [reply EXCEPT ![c] = "none"]
      /\ Return(c)
      /\ UNCHANGED <<private, invited, actorVars, inbox, connVars>>
  BY DEF CloseAnswered, Receive, RoomInv, RoomsTypeOK
<1>2. /\ reply' \in [Conns -> Answers] /\ reply'[c] = "none"
      /\ \A d \in Conns \ {c} : reply'[d] = reply[d]
  BY <1>1 DEF RoomsTypeOK, Answers
<1>3. OnlyOf(c) /\ TxOf(c)' /\ TaskTypeOK'
  BY <1>1, <1>2, ReturnOnly, Returns DEF OnlyOf
<1>4. job[c].room \in Names /\ job[c].tx \in Live
  BY <1>1 DEF TaskTypeOK, Jobs, RoomInv, TxOf
<1>5. DirOK' /\ dir' \in [Names -> Handles]
  <2>1. CASE reply[c] = "closed" /\ Forget(job[c].room, job[c].tx)
    <3>1. closed[job[c].tx]
      BY <2>1 DEF RoomInv, ReplyOf
    <3> QED BY <1>1, <1>4, <2>1, <3>1, Forgetting, Forgets
            DEF RoomsTypeOK, DirTypeOK
  <2>2. CASE UNCHANGED dir
    BY <1>1, <2>2
       DEF RoomInv, RoomsTypeOK, DirTypeOK, DirOK, actorVars, Live
  <2> QED BY <2>1, <2>2 DEF CloseAnswered
<1>6. RoomsTypeOK'
  BY <1>1, <1>2, <1>3, <1>5, Kept DEF RoomsTypeOK, DirTypeOK
<1> QED BY <1>1, <1>2, <1>3, <1>5, <1>6, LocalStep

(* Leave waits for nothing; only rooms other than the lobby are asked to   *)
(* close.                                                                  *)
LEMMA SendLeaveStep ==
  ASSUME RoomInv, NEW c \in Conns, SendLeave(c)
  PROVE  RoomInv'
<1> DEFINE m == Command("leave", c)
<1>1. /\ RoomsTypeOK /\ TaskTypeOK /\ pc[c] = "sendLeave"
      /\ pc[c] \notin Waiting /\ reply[c] = "none"
  BY NoAnswer DEF SendLeave, Waiting, RoomInv, RoomsTypeOK
<1>2. m \in Commands /\ m.op = "leave"
  BY DEF Commands, Command
<1>3. job[c].tx \in RoomIds
  BY <1>1, LiveRooms DEF RoomInv, TxOf
<1>4. OnlyOf(c) /\ TaskTypeOK' /\ TxOf(c)'
  <2>1. CASE Return(c)
    BY <1>1, <2>1, ReturnOnly, Returns DEF OnlyOf, SendLeave
  <2>2. CASE job[c].room # Lobby /\ Goto(c, "sendClose") /\ UNCHANGED job
    <3>1. pc'[c] = "sendClose" /\ OnlyOf(c) /\ TaskTypeOK'
      BY <1>1, <2>2 DEF Goto, OnlyOf, TaskTypeOK, Positions, SendLeave
    <3> QED BY <1>1, <2>2, <3>1
            DEF RoomInv, TxOf, SendLeave, actorVars, Live
  <2> QED BY <2>1, <2>2 DEF SendLeave
<1>5. RoomsTypeOK'
  BY <1>1, <1>2, <1>3, <1>4, Appended, Kept DEF SendLeave, RoomsTypeOK
<1> HIDE DEF m
<1> QED BY <1>1, <1>2, <1>3, <1>4, <1>5, TellingStep
        DEF SendLeave, AskOps, m

(* CloseIfEmpty waits for the actor.                                       *)
LEMMA SendCloseStep ==
  ASSUME RoomInv, NEW c \in Conns, SendClose(c)
  PROVE  RoomInv'
<1> DEFINE m == Command("close", c)
<1>1. /\ RoomsTypeOK /\ TaskTypeOK /\ pc[c] = "sendClose"
      /\ reply[c] = "none"
  BY NoAnswer DEF SendClose, Waiting, RoomInv, RoomsTypeOK
<1>2. m \in Commands /\ m.op = "close" /\ m.conn = c
  BY DEF Commands, Command
<1>3. job[c].tx \in RoomIds
  BY <1>1, LiveRooms DEF RoomInv, TxOf
<1>4. TaskTypeOK' /\ TxOf(c)' /\ WaitsAt("close") = "closing"
  BY <1>1 DEF SendClose, Goto, TaskTypeOK, Positions, RoomInv, TxOf,
              actorVars, Live, WaitsAt
<1>5. RoomsTypeOK'
  BY <1>1, <1>2, <1>3, <1>4, Appended, Kept DEF SendClose, RoomsTypeOK
<1> HIDE DEF m
<1> QED BY <1>1, <1>2, <1>3, <1>4, <1>5, AskingStep
        DEF SendClose, Waiting, AskOps, m

(* The sender kept for a room it is in is one of a room.                   *)
LEMMA SenderKept ==
  ASSUME RoomInv, NEW c \in Conns, NEW n \in RoomsOf(c)
  PROVE  joined[c][n] \in RoomIds
  BY Bounds DEF RoomInv, RoomsTypeOK, ConnTypeOK, RoomsOf, Handles, RoomIds,
                NoRoom

(* ChatMessage.                                                            *)
LEMMA SayStep ==
  ASSUME RoomInv, NEW c \in Conns, NEW n \in Names, Say(c, n)
  PROVE  RoomInv'
<1> DEFINE m == Command("say", c)
<1>1. /\ RoomsTypeOK /\ pc[c] = "idle" /\ pc[c] \notin Waiting
      /\ reply[c] = "none"
  BY NoAnswer DEF Say, Ask, Waiting, RoomInv
<1>2. m \in Commands /\ m.op = "say"
  BY DEF Commands, Command
<1>3. joined[c][n] \in RoomIds
  BY SenderKept DEF Say
<1>4. OnlyOf(c) /\ TxOf(c)'
  BY <1>1 DEF Say, OnlyOf, TxOf
<1>5. ConnTypeOK'
  BY <1>1, Bounds DEF Say, Ask, RoomsTypeOK, ConnTypeOK
<1>6. RoomsTypeOK'
  BY <1>1, <1>2, <1>3, <1>5, Appended, Kept DEF Say, RoomsTypeOK
<1> HIDE DEF m
<1> QED BY <1>1, <1>2, <1>3, <1>4, <1>6, TellingStep DEF Say, AskOps, m

(* ChatTopicSet.                                                           *)
LEMMA SetTopicStep ==
  ASSUME RoomInv, NEW c \in Conns, NEW n \in Names, SetTopic(c, n)
  PROVE  RoomInv'
<1> DEFINE m == Command("topic", c)
<1>1. /\ RoomsTypeOK /\ TaskTypeOK /\ pc[c] = "idle" /\ reply[c] = "none"
  BY NoAnswer DEF SetTopic, Ask, Waiting, RoomInv, RoomsTypeOK
<1>2. m \in Commands /\ m.op = "topic" /\ m.conn = c
  BY DEF Commands, Command
<1>3. joined[c][n] \in RoomIds
  BY SenderKept DEF SetTopic
<1>4. TaskTypeOK' /\ TxOf(c)' /\ WaitsAt("topic") = "waiting"
  BY <1>1 DEF SetTopic, Goto, TaskTypeOK, Positions, TxOf, WaitsAt
<1>5. ConnTypeOK'
  BY <1>1, Bounds DEF SetTopic, Ask, RoomsTypeOK, ConnTypeOK
<1>6. RoomsTypeOK'
  BY <1>1, <1>2, <1>3, <1>4, <1>5, Appended, Kept DEF SetTopic, RoomsTypeOK
<1> HIDE DEF m
<1> QED BY <1>1, <1>2, <1>3, <1>4, <1>6, AskingStep
        DEF SetTopic, Waiting, AskOps, m

(* ChatRoomFlags.                                                          *)
LEMMA SetFlagsStep ==
  ASSUME RoomInv, NEW c \in Conns, NEW n \in Names, NEW f \in Flags,
         SetFlags(c, n, f)
  PROVE  RoomInv'
<1> DEFINE m == [op |-> "flags", conn |-> c, flags |-> f]
<1>1. /\ RoomsTypeOK /\ TaskTypeOK /\ pc[c] = "idle" /\ reply[c] = "none"
  BY NoAnswer DEF SetFlags, Ask, Waiting, RoomInv, RoomsTypeOK
<1>2. m \in Commands /\ m.op = "flags" /\ m.conn = c
  BY DEF Commands
<1>3. dir[n] \in RoomIds
  BY LiveRooms DEF SetFlags, RoomInv, DirOK
<1>4. TaskTypeOK' /\ TxOf(c)' /\ WaitsAt("flags") = "waiting"
  BY <1>1 DEF SetFlags, Goto, TaskTypeOK, Positions, TxOf, WaitsAt
<1>5. ConnTypeOK'
  BY <1>1, Bounds DEF SetFlags, Ask, RoomsTypeOK, ConnTypeOK
<1>6. RoomsTypeOK'
  BY <1>1, <1>2, <1>3, <1>4, <1>5, Appended, Kept DEF SetFlags, RoomsTypeOK
<1> HIDE DEF m
<1> QED BY <1>1, <1>2, <1>3, <1>4, <1>6, AskingStep
        DEF SetFlags, Waiting, AskOps, m

---------------------------------------------------------------------------
(* The actors.  What a room keeps when it handles the command at the head  *)
(* of its inbox: no closed room opens again, and the lobby never closes.   *)

LEMMA HandlingStep ==
  ASSUME RoomInv, NEW i \in RoomIds, inbox[i] # <<>>, Handled(i),
         UNCHANGED <<dirVars, spawned, nameOf, pc, job, connVars>>,
         \/ reply' = reply
         \/ /\ Head(inbox[i]).op \in AskOps
            /\ \E a \in Answers :
                 /\ Reply(Sender(i), a)
                 /\ a = "closed" => Head(inbox[i]).op \in {"join", "close"}
                                    /\ closed'[i],
         ActorTypeOK', MembersOK', ~closed'[1],
         \A j \in RoomIds : closed[j] => closed'[j]
  PROVE  RoomInv'
<1>1. RoomsTypeOK /\ inbox \in [RoomIds -> Seq(Commands)]
  BY DEF RoomInv, RoomsTypeOK
<1>2. /\ Head(inbox[i]) = inbox[i][1] /\ Head(inbox[i]) \in Commands
      /\ 1 \in 1..Len(inbox[i]) /\ inbox' \in [RoomIds -> Seq(Commands)]
  BY <1>1, Taken
<1>3. Sender(i) \in Conns
  BY <1>2 DEF Sender, Commands
<1>4. AskedOK(Head(inbox[i]), i)
  BY <1>2 DEF RoomInv, InboxOK
<1>5. /\ reply' \in [Conns -> Answers]
      /\ \A d \in Conns \ {Sender(i)} : reply'[d] = reply[d]
  BY <1>1, <1>3 DEF RoomsTypeOK, Reply
<1>6. InboxOK' /\ OneAsk'
  BY <1>1, <1>5, Answering DEF RoomInv
<1>7. RoomsTypeOK'
  BY <1>1, <1>2, <1>5, Kept DEF RoomsTypeOK
<1>8. DirOK'
  BY LiveRooms DEF RoomInv, DirOK, dirVars, Live
<1>9. ASSUME NEW d \in Conns
      PROVE  ReplyOf(d)' /\ TxOf(d)'
  <2>1. ReplyOf(d) /\ TxOf(d) /\ TxOf(d)' /\ Live \subseteq RoomIds
    BY LiveRooms DEF RoomInv, TxOf, Live
  <2>2. CASE reply'[d] = reply[d]
    BY <2>1, <2>2 DEF ReplyOf, TxOf
  <2>3. CASE reply'[d] # reply[d]
    <3>1. d = Sender(i) /\ Head(inbox[i]).op \in AskOps
      BY <1>5, <2>3
    <3>2. pc[d] = WaitsAt(Head(inbox[i]).op) /\ pc[d] \in Waiting
      BY <1>4, <3>1 DEF AskedOK, Sender, WaitsAt, Waiting
    <3>3. reply'[d] = "closed" =>
            Head(inbox[i]).op \in {"join", "close"} /\ closed'[i]
      BY <1>1, <2>3, <3>1 DEF Reply, RoomsTypeOK
    <3>4. reply'[d] = "closed" =>
            pc[d] \in {"joining", "closing"} /\ job[d].tx = i
      BY <1>4, <3>1, <3>2, <3>3 DEF AskedOK, Sender, WaitsAt
    <3> QED BY <2>1, <3>2, <3>3, <3>4 DEF ReplyOf
  <2> QED BY <2>2, <2>3
<1> QED BY <1>6, <1>7, <1>8, <1>9 DEF RoomInv

(* What the members of a room are after a broadcast to some of them.       *)
LEMMA Broadcasts ==
  ASSUME RoomInv, NEW i \in RoomIds, NEW to \in SUBSET Conns,
         Broadcast(i, to)
  PROVE  /\ members' \in [RoomIds -> SUBSET Conns]
         /\ members'[i] \subseteq to
         /\ \A j \in RoomIds : j # i => members'[j] = members[j]
  BY DEF RoomInv, RoomsTypeOK, ActorTypeOK, Broadcast

(* A room that is due has a command of a connection at hand.               *)
LEMMA AtHand ==
  ASSUME RoomInv, NEW i \in RoomIds, NEW op, Due(i, op), Handled(i)
  PROVE  /\ inbox[i] # <<>> /\ Head(inbox[i]).op = op
         /\ Sender(i) \in Conns /\ Head(inbox[i]) \in Commands
         /\ AskedOK(Head(inbox[i]), i)
         /\ ActorTypeOK /\ members[i] \in SUBSET Conns /\ ~closed[1]
<1>1. inbox \in [RoomIds -> Seq(Commands)] /\ ActorTypeOK
  BY DEF RoomInv, RoomsTypeOK
<1>2. inbox[i] # <<>> /\ Head(inbox[i]).op = op
  BY DEF Due
<1>3. /\ Head(inbox[i]) = inbox[i][1] /\ 1 \in 1..Len(inbox[i])
      /\ Head(inbox[i]) \in Commands
  BY <1>1, <1>2, Taken
<1>4. Sender(i) \in Conns /\ AskedOK(Head(inbox[i]), i)
  BY <1>3 DEF Sender, Commands, RoomInv, InboxOK
<1> QED BY <1>1, <1>2, <1>3, <1>4 DEF ActorTypeOK, RoomInv, DirOK

(* A closed room takes nobody in.                                          *)
LEMMA HandleJoinStep ==
  ASSUME RoomInv, NEW i \in RoomIds, HandleJoin(i)
  PROVE  RoomInv'
<1>1. /\ inbox[i] # <<>> /\ Head(inbox[i]).op = "join" /\ Sender(i) \in Conns
      /\ ActorTypeOK /\ members[i] \in SUBSET Conns /\ ~closed[1]
  BY AtHand DEF HandleJoin
<1>2. /\ Handled(i)
      /\ UNCHANGED <<dirVars, spawned, nameOf, pc, job, connVars>>
      /\ UNCHANGED <<closed, gate, muted>>
  BY DEF HandleJoin
<1>3. /\ members' \in [RoomIds -> SUBSET Conns]
      /\ \A j \in RoomIds : members'[j] # members[j] => ~closed[j]
      /\ \E a \in Answers : Reply(Sender(i), a) /\ (a = "closed" => closed[i])
  <2>1. CASE /\ ~closed[i] /\ Reply(Sender(i), "ok")
             /\ Broadcast(i, members[i] \cup {Sender(i)})
    BY <1>1, <2>1, Broadcasts DEF Answers
  <2>2. CASE /\ Reply(Sender(i), IF closed[i] THEN "closed" ELSE "refused")
             /\ UNCHANGED members
    BY <1>1, <2>2 DEF Answers, ActorTypeOK
  <2> QED BY <2>1, <2>2 DEF HandleJoin
<1>4. ActorTypeOK' /\ MembersOK'
  BY <1>1, <1>2, <1>3 DEF ActorTypeOK, RoomInv, MembersOK
<1> QED BY <1>1, <1>2, <1>3, <1>4, HandlingStep DEF AskOps

(* A leave, a message, a topic, flags: members may only get fewer.         *)
LEMMA HandleLeaveStep ==
  ASSUME RoomInv, NEW i \in RoomIds, HandleLeave(i)
  PROVE  RoomInv'
<1>1. /\ inbox[i] # <<>> /\ ActorTypeOK /\ members[i] \in SUBSET Conns
      /\ ~closed[1]
  BY AtHand DEF HandleLeave
<1>2. /\ Handled(i)
      /\ UNCHANGED <<dirVars, spawned, nameOf, pc, job, connVars>>
      /\ UNCHANGED <<closed, gate, muted, reply>>
  BY DEF HandleLeave
<1>3. /\ members' \in [RoomIds -> SUBSET Conns]
      /\ \A j \in RoomIds : members'[j] \subseteq members[j]
  <2>1. CASE Broadcast(i, members[i] \ {Sender(i)})
    BY <1>1, <2>1, Broadcasts
  <2>2. CASE UNCHANGED members
    BY <1>1, <2>2 DEF ActorTypeOK
  <2> QED BY <2>1, <2>2 DEF HandleLeave
<1>4. ActorTypeOK' /\ MembersOK'
  BY <1>1, <1>2, <1>3 DEF ActorTypeOK, RoomInv, MembersOK
<1> QED BY <1>1, <1>2, <1>4, HandlingStep

LEMMA HandleSayStep ==
  ASSUME RoomInv, NEW i \in RoomIds, HandleSay(i)
  PROVE  RoomInv'
<1>1. /\ inbox[i] # <<>> /\ ActorTypeOK /\ members[i] \in SUBSET Conns
      /\ ~closed[1]
  BY AtHand DEF HandleSay
<1>2. /\ Handled(i)
      /\ UNCHANGED <<dirVars, spawned, nameOf, pc, job, connVars>>
      /\ UNCHANGED <<closed, gate, muted, reply>>
  BY DEF HandleSay
<1>3. /\ members' \in [RoomIds -> SUBSET Conns]
      /\ \A j \in RoomIds : members'[j] \subseteq members[j]
  <2>1. CASE Broadcast(i, members[i])
    BY <1>1, <2>1, Broadcasts
  <2>2. CASE UNCHANGED members
    BY <1>1, <2>2 DEF ActorTypeOK
  <2> QED BY <2>1, <2>2 DEF HandleSay
<1>4. ActorTypeOK' /\ MembersOK'
  BY <1>1, <1>2, <1>3 DEF ActorTypeOK, RoomInv, MembersOK
<1> QED BY <1>1, <1>2, <1>4, HandlingStep

LEMMA HandleTopicStep ==
  ASSUME RoomInv, NEW i \in RoomIds, HandleTopic(i)
  PROVE  RoomInv'
<1>1. /\ inbox[i] # <<>> /\ Head(inbox[i]).op = "topic"
      /\ ActorTypeOK /\ members[i] \in SUBSET Conns /\ ~closed[1]
  BY AtHand DEF HandleTopic
<1>2. /\ Handled(i)
      /\ UNCHANGED <<dirVars, spawned, nameOf, pc, job, connVars>>
      /\ UNCHANGED <<closed, gate, muted>>
  BY DEF HandleTopic
<1>3. /\ members' \in [RoomIds -> SUBSET Conns]
      /\ \A j \in RoomIds : members'[j] \subseteq members[j]
      /\ \E a \in Answers : Reply(Sender(i), a) /\ a # "closed"
  <2>1. CASE Reply(Sender(i), "ok") /\ Broadcast(i, members[i])
    BY <1>1, <2>1, Broadcasts DEF Answers
  <2>2. CASE Reply(Sender(i), "refused") /\ UNCHANGED members
    BY <1>1, <2>2 DEF ActorTypeOK, Answers
  <2> QED BY <2>1, <2>2 DEF HandleTopic
<1>4. ActorTypeOK' /\ MembersOK'
  BY <1>1, <1>2, <1>3 DEF ActorTypeOK, RoomInv, MembersOK
<1> QED BY <1>1, <1>2, <1>3, <1>4, HandlingStep DEF AskOps

LEMMA HandleFlagsStep ==
  ASSUME RoomInv, NEW i \in RoomIds, HandleFlags(i)
  PROVE  RoomInv'
<1> DEFINE f == Head(inbox[i]).flags
<1>1. /\ inbox[i] # <<>> /\ Head(inbox[i]).op = "flags"
      /\ Head(inbox[i]) \in Commands
      /\ ActorTypeOK /\ members[i] \in SUBSET Conns /\ ~closed[1]
  BY AtHand DEF HandleFlags
<1>2. /\ Handled(i)
      /\ UNCHANGED <<dirVars, spawned, nameOf, pc, job, connVars>>
      /\ UNCHANGED closed
  BY DEF HandleFlags
<1>3. f \in Flags
  BY <1>1 DEF Commands
<1>4. f.gate \in Nat /\ f.muted \in BOOLEAN
  BY <1>3, RoomConstants
<1>5. Clamp(f.gate) \in Classes
  BY <1>4 DEF Clamp, Classes
<1> HIDE DEF f
<1>6. /\ members' \in [RoomIds -> SUBSET Conns]
      /\ \A j \in RoomIds : members'[j] \subseteq members[j]
      /\ \E a \in Answers : Reply(Sender(i), a) /\ a # "closed"
      /\ gate' \in [RoomIds -> Classes] /\ muted' \in [RoomIds -> BOOLEAN]
  <2>1. CASE /\ gate' = [gate EXCEPT ![i] = Clamp(f.gate)]
             /\ muted' = [muted EXCEPT ![i] = f.muted]
             /\ Reply(Sender(i), "ok") /\ Broadcast(i, members[i])
    <3>1. gate' \in [RoomIds -> Classes] /\ muted' \in [RoomIds -> BOOLEAN]
      BY <1>1, <1>4, <1>5, <2>1 DEF ActorTypeOK
    <3> QED BY <1>1, <2>1, <3>1, Broadcasts DEF Answers
  <2>2. CASE Reply(Sender(i), "refused") /\ UNCHANGED <<gate, muted, members>>
    BY <1>1, <2>2 DEF ActorTypeOK, Answers
  <2> QED BY <2>1, <2>2 DEF HandleFlags, f
<1>7. ActorTypeOK' /\ MembersOK'
  BY <1>1, <1>2, <1>6 DEF ActorTypeOK, RoomInv, MembersOK
<1> QED BY <1>1, <1>2, <1>6, <1>7, HandlingStep DEF AskOps

(* Only an empty room closes, and never the lobby: whoever asks a room to  *)
(* close works on another name.                                            *)
LEMMA HandleCloseStep ==
  ASSUME RoomInv, NEW i \in RoomIds, HandleClose(i)
  PROVE  RoomInv'
<1>1. /\ inbox[i] # <<>> /\ Head(inbox[i]).op = "close"
      /\ Sender(i) \in Conns /\ AskedOK(Head(inbox[i]), i)
      /\ ActorTypeOK /\ ~closed[1]
  BY AtHand DEF HandleClose
<1>2. /\ Handled(i)
      /\ UNCHANGED <<dirVars, spawned, nameOf, pc, job, connVars>>
      /\ UNCHANGED <<members, gate, muted>>
      /\ closed' = [closed EXCEPT ![i] = @ \/ members[i] = {}]
  BY DEF HandleClose
<1>3. /\ closed' \in [RoomIds -> BOOLEAN]
      /\ \A j \in RoomIds : closed[j] => closed'[j]
      /\ \A j \in RoomIds :
           closed'[j] => closed[j] \/ (j = i /\ members[i] = {})
      /\ members[i] = {} => closed'[i]
  <2>1. closed \in [RoomIds -> BOOLEAN]
    BY <1>1 DEF ActorTypeOK
  <2>2. \A j \in RoomIds :
          closed'[j] = IF j = i THEN closed[i] \/ members[i] = {}
                       ELSE closed[j]
    BY <1>2, <2>1, Zenon
  <2>3. closed' \in [RoomIds -> BOOLEAN]
    BY <1>2, <2>1, Zenon
  <2> QED BY <2>2, <2>3, Zenon
<1>4. i # 1
  <2>1. pc[Sender(i)] = "closing" /\ job[Sender(i)].tx = i
    BY <1>1 DEF AskedOK, AskOps, WaitsAt, Sender
  <2>2. nameOf[i] # Lobby
    BY <1>1, <2>1 DEF RoomInv, TxOf
  <2> QED BY <2>2 DEF RoomInv, DirOK
<1>5. ~closed'[1]
  <2>1. 1 \in RoomIds
    BY LiveRooms
  <2> QED BY <1>1, <1>3, <1>4, <2>1
<1>6. ActorTypeOK' /\ MembersOK'
  BY <1>1, <1>2, <1>3 DEF ActorTypeOK, RoomInv, MembersOK
<1>7. \E a \in Answers : Reply(Sender(i), a) /\ (a = "closed" => closed'[i])
  <2>1. CASE members[i] = {}
    BY <1>3, <2>1 DEF HandleClose, Answers
  <2>2. CASE members[i] # {}
    BY <2>2 DEF HandleClose, Answers
  <2> QED BY <2>1, <2>2
<1> QED BY <1>1, <1>2, <1>3, <1>5, <1>6, <1>7, HandlingStep DEF AskOps

---------------------------------------------------------------------------
(* The server starts with the lobby, open, empty and listed.               *)
LEMMA InitInv == Init => RoomInv
<1> SUFFICES ASSUME Init PROVE RoomInv
  OBVIOUS
<1>1. 1 \in RoomIds /\ NoRoom \in Handles /\ 1 \in Handles
  BY Bounds DEF RoomIds, Handles, NoRoom
<1>2. DirTypeOK /\ ActorTypeOK
  BY <1>1, Bounds DEF Init, DirTypeOK, ActorTypeOK, Classes
<1>3. TaskTypeOK /\ ConnTypeOK
  <2>1. TaskTypeOK
    BY JobTypes DEF Init, TaskTypeOK, Positions
  <2>2. ops \in 0..MaxOps
    BY Bounds DEF Init
  <2> HIDE DEF NoRoom, Handles
  <2>3. joined \in [Conns -> [Names -> Handles]]
    BY <1>1 DEF Init
  <2>4. /\ ending \subseteq Conns /\ gone \subseteq Conns
        /\ meant \in [PrivateNames -> SUBSET Users]
    BY DEF Init
  <2> QED BY <2>1, <2>2, <2>3, <2>4 DEF ConnTypeOK
<1>4. RoomsTypeOK
  BY <1>2, <1>3 DEF Init, RoomsTypeOK, Answers
<1>5. InboxOK /\ OneAsk
  BY DEF Init, InboxOK, OneAsk
<1>6. DirOK
  BY <1>1, Bounds DEF Init, DirOK, Live, NoRoom
<1>7. MembersOK
  BY DEF Init, MembersOK
<1>8. ASSUME NEW c \in Conns PROVE ReplyOf(c) /\ TxOf(c)
  BY <1>8 DEF Init, ReplyOf, TxOf
<1> QED BY <1>4, <1>5, <1>6, <1>7, <1>8 DEF RoomInv

(* Every step keeps the invariant.                                         *)
LEMMA NextInv == RoomInv /\ [Next]_vars => RoomInv'
<1> SUFFICES ASSUME RoomInv, [Next]_vars PROVE RoomInv'
  OBVIOUS
<1>1. CASE UNCHANGED vars
  <2>1. RoomsTypeOK'
    BY <1>1, Kept DEF vars, RoomInv, RoomsTypeOK
  <2>2. InboxOK' /\ OneAsk'
    BY <1>1 DEF vars, RoomInv, InboxOK, AskedOK, OneAsk
  <2>3. DirOK' /\ MembersOK'
    BY <1>1 DEF vars, RoomInv, DirOK, MembersOK, dirVars, actorVars, Live
  <2>4. \A c \in Conns : ReplyOf(c)' /\ TxOf(c)'
    BY <1>1 DEF vars, RoomInv, ReplyOf, TxOf, actorVars, Live
  <2> QED BY <2>1, <2>2, <2>3, <2>4 DEF RoomInv
<1>2. ASSUME NEW c \in Conns, ClientStep(c) PROVE RoomInv'
  BY <1>2, AskJoinStep, AskLeaveStep, SayStep, SetTopicStep, AskInviteStep,
     SetFlagsStep, CloseStep DEF ClientStep
<1>3. ASSUME NEW c \in Conns, TaskStep(c) PROVE RoomInv'
  BY <1>3, LookupStep, CountRoomsStep, InsertStep, SendJoinStep,
     JoinAnsweredStep, DeliverStep, SendLeaveStep, SendCloseStep,
     CloseAnsweredStep, CleanupStep, AnsweredStep DEF TaskStep
<1>4. ASSUME NEW i \in RoomIds, ActorStep(i) PROVE RoomInv'
  BY <1>4, HandleJoinStep, HandleLeaveStep, HandleSayStep, HandleTopicStep,
     HandleFlagsStep, HandleCloseStep DEF ActorStep
<1> QED BY <1>1, <1>2, <1>3, <1>4 DEF Next

(* Directory, actors and connection tasks stay within their types: no      *)
(* actor is sent a command it does not know, no task waits where nothing   *)
(* answers, whatever the number of connections, rooms and requests.        *)
THEOREM RoomsTyped == Spec => []RoomsTypeOK
<1>1. RoomInv => RoomsTypeOK
  BY DEF RoomInv
<1> QED BY <1>1, InitInv, NextInv, PTL DEF Spec

(* Nobody lands in a room nobody can find: the retry of a join that hits a *)
(* closed room, the eviction of an empty one (CloseIfEmpty, forget by the  *)
(* same channel) and creation under the entry lock keep every room that    *)
(* has members open and listed under its name, and the lobby always.       *)
THEOREM NobodyStranded == Spec => []Findable
<1>1. RoomInv => Findable
  <2> SUFFICES ASSUME RoomInv PROVE Findable
    OBVIOUS
  <2>1. Live \subseteq RoomIds /\ 1 \in Live
    BY LiveRooms
  <2>2. \A i \in Live :
          members[i] # {} => ~closed[i] /\ dir[nameOf[i]] = i
    BY <2>1 DEF RoomInv, MembersOK, DirOK
  <2>3. dir[Lobby] = 1 /\ ~closed[1]
    BY <2>1 DEF RoomInv, DirOK
  <2> QED BY <2>2, <2>3 DEF Findable
<1> QED BY <1>1, InitInv, NextInv, PTL DEF Spec

---------------------------------------------------------------------------
(* Beyond the invariant: who is in which room, who may be, how many rooms  *)
(* there are, and that Rooms implements Gatherings.                        *)

(* c's Leave is on its way to room i.                                      *)
LeaveIn(c, i) ==
  \E k \in 1..Len(inbox[i]) : inbox[i][k] = Command("leave", c)

(* Who is past its dispatch loop does nothing but leave.                   *)
EndingOK ==
  /\ gone \subseteq ending
  /\ \A c \in ending :
       pc[c] \in {"cleanup", "sendLeave", "sendClose", "closing", "done"}
  /\ \A c \in Conns : pc[c] \in {"cleanup", "done"} => c \in ending

(* A Leave is ahead of the Join that follows it.                           *)
LeaveFirst ==
  \A i \in RoomIds, c \in Conns : \A k, l \in 1..Len(inbox[i]) :
    inbox[i][k] = Command("leave", c) /\ inbox[i][l] = Command("join", c)
      => k < l

(* A sender that is kept is of a live room of that name, which has the     *)
(* connection for a member and will not be told that it leaves.            *)
KeptOK(c, n) ==
  joined[c][n] # NoRoom =>
    /\ joined[c][n] \in Live /\ nameOf[joined[c][n]] = n
    /\ c \notin gone => c \in members[joined[c][n]]
    /\ ~LeaveIn(c, joined[c][n])
    /\ pc[c] = "sendLeave" => job[c].room # n

(* So it is from the moment the join was granted.                          *)
ToldOK(c) ==
  pc[c] = "joining" /\ reply[c] = "ok" =>
    c \in members[job[c].tx] /\ ~LeaveIn(c, job[c].tx)

(* Why c is a member of room i.                                            *)
Accounted(c, i) ==
  c \in members[i] =>
    \/ joined[c][nameOf[i]] = i
    \/ pc[c] = "joining" /\ reply[c] = "ok" /\ job[c].tx = i
    \/ pc[c] = "sendLeave" /\ job[c].tx = i
    \/ LeaveIn(c, i)

PresenceOK ==
  /\ EndingOK /\ LeaveFirst
  /\ \A c \in Conns : ToldOK(c) /\ \A n \in Names : KeptOK(c, n)
  /\ \A c \in Conns, i \in RoomIds : Accounted(c, i)

(* Rooms to come are empty.                                                *)
Unborn == \A i \in RoomIds \ Live : members[i] = {} /\ invited[i] = {}

(* A room under a private name is private, and those invited and those in  *)
(* it are those it was made for.                                           *)
PrivateOK(i) ==
  nameOf[i] \in PrivateNames =>
    /\ private[i] /\ invited[i] \subseteq meant[nameOf[i]]
    /\ \A c \in members[i] : UserOf[c] \in meant[nameOf[i]]

(* Only an inviter creates a room under a private name, and only somebody  *)
(* it was made for is about to join one.                                   *)
InviterOK(c) ==
  LET n == job[c].room
      u == job[c].target IN
  /\ pc[c] = "lookup" => u = Nobody
  /\ pc[c] \in {"create", "insert"} /\ n \in PrivateNames => u # Nobody
  /\ pc[c] \in {"create", "insert", "send", "joining"} /\ u # Nobody =>
       n \in PrivateNames /\ u \in meant[n] /\ UserOf[c] \in meant[n]
  /\ pc[c] \in {"send", "joining"} /\ n \in PrivateNames =>
       UserOf[c] \in meant[n]

PrivacyOK ==
  (\A i \in Live : PrivateOK(i)) /\ (\A c \in Conns : InviterOK(c))

BoundOK == RoomsBounded /\ IsFiniteSet(Listed)

PromiseInv == PresenceOK /\ Unborn /\ PrivacyOK /\ BoundOK

---------------------------------------------------------------------------
(* What an inbox says of leaving after a command was appended, and after   *)
(* its head was taken.                                                     *)
LEMMA LeaveAppended ==
  ASSUME inbox \in [RoomIds -> Seq(Commands)], NEW i \in RoomIds,
         NEW m \in Commands, Send(i, m), NEW c, NEW j \in RoomIds
  PROVE  LeaveIn(c, j)' <=>
           LeaveIn(c, j) \/ (j = i /\ m = Command("leave", c))
<1> DEFINE x == Command("leave", c)
<1>1. CASE j # i
  BY <1>1, Appended DEF LeaveIn
<1>2. CASE j = i
  <2>1. /\ Len(inbox[i]) \in Nat /\ Len(inbox'[i]) = Len(inbox[i]) + 1
        /\ inbox'[i][Len(inbox[i]) + 1] = m
        /\ \A k \in 1..Len(inbox[i]) : inbox'[i][k] = inbox[i][k]
    BY Appended
  <2> HIDE DEF x
  <2> QED BY <1>2, <2>1 DEF LeaveIn, x
<1> QED BY <1>1, <1>2

LEMMA LeaveTaken ==
  ASSUME inbox \in [RoomIds -> Seq(Commands)], NEW i \in RoomIds,
         inbox[i] # <<>>, Handled(i), NEW c, NEW j \in RoomIds
  PROVE  /\ LeaveIn(c, j)' => LeaveIn(c, j)
         /\ LeaveIn(c, j) =>
              LeaveIn(c, j)' \/ (j = i /\ Head(inbox[i]) = Command("leave", c))
<1>1. CASE j # i
  BY <1>1, Taken DEF LeaveIn
<1>2. CASE j = i
  <2>1. /\ Len(inbox[i]) \in Nat \ {0} /\ Len(inbox'[i]) = Len(inbox[i]) - 1
        /\ Head(inbox[i]) = inbox[i][1]
        /\ \A k \in 1..Len(inbox'[i]) : inbox'[i][k] = inbox[i][k + 1]
    BY Taken
  <2>2. ASSUME NEW k \in 1..Len(inbox'[i]),
               inbox'[i][k] = Command("leave", c)
        PROVE  LeaveIn(c, i)
    <3>1. k + 1 \in 1..Len(inbox[i]) /\ inbox[i][k + 1] = Command("leave", c)
      BY <2>1, <2>2
    <3> QED BY <3>1 DEF LeaveIn
  <2>3. ASSUME NEW k \in 1..Len(inbox[i]), inbox[i][k] = Command("leave", c),
               Head(inbox[i]) # Command("leave", c)
        PROVE  \E l \in 1..Len(inbox'[i]) : inbox'[i][l] = Command("leave", c)
    <3>1. k # 1 /\ k - 1 \in 1..Len(inbox'[i])
      BY <2>1, <2>3
    <3>2. inbox'[i][k - 1] = inbox[i][k]
      BY <2>1, <3>1
    <3> QED BY <2>3, <3>1, <3>2
  <2> QED BY <1>2, <2>2, <2>3 DEF LeaveIn
<1> QED BY <1>1, <1>2

(* Rooms keep their names, and new ones are still empty.                   *)
Grows ==
  /\ Live \subseteq Live' /\ \A j \in Live : nameOf'[j] = nameOf[j]
  /\ \A j \in RoomIds \ Live : members[j] = {}

(* A step of one connection that sends nothing disturbs nothing of the     *)
(* others.                                                                 *)
LEMMA OwnStep ==
  ASSUME RoomInv, PresenceOK, NEW c \in Conns, OnlyOf(c), Grows,
         UNCHANGED <<inbox, members>>, gone \subseteq gone',
         \A d \in Conns \ {c} : joined'[d] = joined[d],
         EndingOK', ToldOK(c)', \A n \in Names : KeptOK(c, n)',
         \A i \in Live : Accounted(c, i)'
  PROVE  PresenceOK'
<1>1. LeaveFirst'
  BY DEF PresenceOK, LeaveFirst
<1>2. \A d, i : LeaveIn(d, i)' <=> LeaveIn(d, i)
  BY DEF LeaveIn
<1>3. ASSUME NEW d \in Conns \ {c}
      PROVE  ToldOK(d)' /\ \A n \in Names : KeptOK(d, n)'
  <2>1. ToldOK(d)'
    BY <1>2 DEF PresenceOK, ToldOK, OnlyOf
  <2>2. ASSUME NEW n \in Names PROVE KeptOK(d, n)'
    <3>1. KeptOK(d, n)
      BY DEF PresenceOK
    <3> QED BY <1>2, <3>1 DEF KeptOK, OnlyOf, Grows
  <2> QED BY <2>1, <2>2
<1>4. ASSUME NEW d \in Conns \ {c}, NEW i \in Live
      PROVE  Accounted(d, i)'
  <2>1. Accounted(d, i) /\ nameOf'[i] = nameOf[i]
    BY LiveRooms DEF PresenceOK, Grows
  <2> QED BY <1>2, <2>1 DEF Accounted, OnlyOf
<1>5. ASSUME NEW d \in Conns, NEW i \in RoomIds
      PROVE  Accounted(d, i)'
  <2>1. CASE i \in Live
    BY <1>4, <2>1
  <2>2. CASE i \notin Live
    BY <2>2 DEF Grows, Accounted
  <2> QED BY <2>1, <2>2
<1> QED BY <1>1, <1>3, <1>5 DEF PresenceOK

(* Nor does one that comes from no join and goes to no leave.              *)
LEMMA QuietStep ==
  ASSUME RoomInv, PresenceOK, NEW c \in Conns, OnlyOf(c), Grows,
         UNCHANGED <<inbox, members, joined>>, gone \subseteq gone', EndingOK',
         pc[c] \notin {"joining", "sendLeave"},
         pc'[c] \notin {"joining", "sendLeave"}
  PROVE  PresenceOK'
<1>1. \A d, i : LeaveIn(d, i)' <=> LeaveIn(d, i)
  BY DEF LeaveIn
<1>2. ToldOK(c)'
  BY DEF ToldOK
<1>3. ASSUME NEW n \in Names PROVE KeptOK(c, n)'
  <2>1. KeptOK(c, n)
    BY DEF PresenceOK
  <2> QED BY <1>1, <2>1 DEF KeptOK, Grows
<1>4. ASSUME NEW i \in Live PROVE Accounted(c, i)'
  <2>1. Accounted(c, i) /\ nameOf'[i] = nameOf[i]
    BY LiveRooms DEF PresenceOK, Grows
  <2> QED BY <1>1, <2>1 DEF Accounted
<1> QED BY <1>2, <1>3, <1>4, OwnStep

(* Steps that leave the actors alone spawn no room.                        *)
LEMMA NoSpawn ==
  ASSUME Unborn, UNCHANGED actorVars
  PROVE  Grows /\ UNCHANGED members
  BY DEF Unborn, Grows, actorVars, Live

(* Ends and steps of others do not concern who is past its loop.           *)
LEMMA EndingKept ==
  ASSUME RoomInv, PresenceOK, NEW c \in Conns, UNCHANGED <<ending, gone>>,
         \A d \in Conns \ {c} : pc'[d] = pc[d],
         \/ c \notin ending
         \/ pc'[c] \in {"cleanup", "sendLeave", "sendClose", "closing", "done"},
         pc'[c] \in {"cleanup", "done"} => c \in ending
  PROVE  EndingOK'
<1>1. ending \subseteq Conns
  BY DEF RoomInv, RoomsTypeOK, ConnTypeOK
<1> QED BY <1>1 DEF PresenceOK, EndingOK

(* Starting to leave: the room that has the connection for a member is the *)
(* one listed, so its Leave goes there.                                    *)
LEMMA StartLeaveKeeps ==
  ASSUME RoomInv, PresenceOK, Unborn, NEW c \in Conns, NEW n \in Names,
         pc[c] \in {"idle", "deliver", "cleanup"}, StartLeave(c, n),
         UNCHANGED <<actorVars, inbox, reply, ending, gone>>
  PROVE  PresenceOK'
<1>1. /\ TaskTypeOK /\ joined \in [Conns -> [Names -> Handles]]
      /\ nameOf \in [RoomIds -> Names] /\ Live \subseteq RoomIds
  BY LiveRooms DEF RoomInv, RoomsTypeOK, ConnTypeOK, ActorTypeOK
<1>2. /\ \A d \in Conns \ {c} : joined'[d] = joined[d]
      /\ joined'[c][n] = NoRoom
      /\ \A m \in Names \ {n} : joined'[c][m] = joined[c][m]
  BY <1>1 DEF StartLeave
<1>3. /\ \A d \in Conns \ {c} : pc'[d] = pc[d] /\ job'[d] = job[d]
      /\ OnlyOf(c)
  BY LeaveOnly DEF OnlyOf
<1>4. \/ /\ pc'[c] = IF c \in ending THEN "cleanup" ELSE "idle"
         /\ dir[n] = NoRoom
      \/ pc'[c] = "sendLeave" /\ job'[c].room = n /\ job'[c].tx = dir[n]
  <2>1. CASE dir[n] = NoRoom /\ Return(c)
    BY <1>1, <2>1 DEF Return, Goto, TaskTypeOK
  <2>2. CASE /\ Goto(c, "sendLeave")
             /\ job' = [job EXCEPT ![c] =
                          [NoJob EXCEPT !.room = n, !.tx = dir[n]]]
    BY <1>1, <2>2 DEF Goto, TaskTypeOK, NoJob
  <2> QED BY <2>1, <2>2 DEF StartLeave
<1>5. EndingOK'
  <2>1. c \notin ending => pc'[c] \in {"idle", "sendLeave"}
    BY <1>4
  <2>2. c \in ending => pc'[c] \in {"cleanup", "sendLeave"}
    BY <1>4
  <2> QED BY <1>3, <2>1, <2>2, EndingKept
<1>6. ToldOK(c)'
  BY <1>4 DEF ToldOK
<1>7. ASSUME NEW m \in Names PROVE KeptOK(c, m)'
  <2>1. CASE m = n
    BY <1>2, <2>1 DEF KeptOK
  <2>2. CASE m # n
    <3>1. KeptOK(c, m) /\ joined'[c][m] = joined[c][m]
      BY <1>2, <2>2 DEF PresenceOK
    <3> QED BY <1>4, <2>2, <3>1 DEF KeptOK, LeaveIn, actorVars, Live
  <2> QED BY <2>1, <2>2
<1>8. ASSUME NEW i \in Live, c \in members[i]
      PROVE  Accounted(c, i)'
  <2>1. Accounted(c, i) /\ nameOf[i] \in Names /\ dir[nameOf[i]] = i
    BY <1>1, <1>8 DEF PresenceOK, RoomInv, MembersOK, DirOK
  <2>2. i # NoRoom
    BY DEF Live, NoRoom
  <2>3. CASE joined[c][nameOf[i]] = i /\ nameOf[i] = n
    BY <1>4, <2>1, <2>2, <2>3 DEF Accounted
  <2>4. CASE joined[c][nameOf[i]] = i /\ nameOf[i] # n
    BY <1>2, <2>1, <2>4 DEF Accounted, actorVars
  <2>5. CASE LeaveIn(c, i)
    BY <2>5 DEF Accounted, LeaveIn
  <2> QED BY <1>8, <2>1, <2>3, <2>4, <2>5 DEF Accounted
<1>9. \A i \in Live : Accounted(c, i)'
  BY <1>8 DEF Accounted, actorVars
<1> QED BY <1>2, <1>3, <1>5, <1>6, <1>7, <1>9, NoSpawn, OwnStep

(* Who was granted a join keeps the sender of the room it is in.           *)
LEMMA JoinAnsweredKeeps ==
  ASSUME RoomInv, PresenceOK, Unborn, NEW c \in Conns, JoinAnswered(c)
  PROVE  PresenceOK'
<1> DEFINE n == job[c].room
           i == job[c].tx
<1>1. /\ TaskTypeOK /\ joined \in [Conns -> [Names -> Handles]]
      /\ nameOf \in [RoomIds -> Names] /\ Live \subseteq RoomIds
      /\ reply \in [Conns -> Answers] /\ n \in Names
  BY LiveRooms DEF RoomInv, RoomsTypeOK, ConnTypeOK, ActorTypeOK, TaskTypeOK,
                   Jobs
<1>2. /\ pc[c] = "joining" /\ c \notin ending /\ i \in Live /\ nameOf[i] = n
      /\ UNCHANGED <<actorVars, inbox, ending, gone>>
  BY DEF JoinAnswered, Receive, PresenceOK, EndingOK, RoomInv, TxOf
<1>3. /\ \A d \in Conns \ {c} :
           pc'[d] = pc[d] /\ job'[d] = job[d] /\ reply'[d] = reply[d]
      /\ pc'[c] \in {"idle", "deliver", "lookup", "create"}
  BY <1>1, <1>2 DEF JoinAnswered, Receive, Return, Retry, Goto, TaskTypeOK
<1>4. OnlyOf(c) /\ EndingOK'
  BY <1>2, <1>3, EndingKept DEF OnlyOf
<1>5. ToldOK(c)'
  BY <1>3 DEF ToldOK
<1>6. Grows /\ UNCHANGED members
  BY <1>2, NoSpawn
<1>7. \A d, j : LeaveIn(d, j)' <=> LeaveIn(d, j)
  BY <1>2 DEF LeaveIn
<1> HIDE DEF n, i
<1>8. CASE reply[c] = "ok" /\ joined' = [joined EXCEPT ![c][n] = i]
  <2>1. c \in members[i] /\ ~LeaveIn(c, i)
    BY <1>2, <1>8 DEF PresenceOK, ToldOK, i
  <2>2. /\ \A d \in Conns \ {c} : joined'[d] = joined[d]
        /\ joined'[c][n] = i
        /\ \A m \in Names \ {n} : joined'[c][m] = joined[c][m]
    BY <1>1, <1>8
  <2>3. ASSUME NEW m \in Names PROVE KeptOK(c, m)'
    <3>1. CASE m = n
      BY <1>2, <1>3, <1>6, <1>7, <2>1, <2>2, <3>1
         DEF KeptOK, Live, actorVars
    <3>2. CASE m # n
      <4>1. KeptOK(c, m) /\ joined'[c][m] = joined[c][m]
        BY <2>2, <3>2 DEF PresenceOK
      <4> QED BY <1>2, <1>3, <1>6, <1>7, <4>1 DEF KeptOK, Live, actorVars
    <3> QED BY <3>1, <3>2
  <2>4. ASSUME NEW j \in Live, c \in members[j] PROVE Accounted(c, j)'
    <3>1. Accounted(c, j) /\ nameOf[j] \in Names /\ dir[nameOf[j]] = j
      BY <1>1, <2>4 DEF PresenceOK, RoomInv, MembersOK, DirOK
    <3>2. dir[n] = i
      BY <1>1, <1>2, <2>1 DEF RoomInv, MembersOK, DirOK
    <3>3. CASE nameOf[j] = n
      BY <1>2, <2>2, <3>1, <3>2, <3>3 DEF Accounted, actorVars
    <3>4. CASE nameOf[j] # n
      BY <1>2, <1>7, <2>2, <3>1, <3>4 DEF Accounted, actorVars, i
    <3> QED BY <3>3, <3>4
  <2>5. \A j \in Live : Accounted(c, j)'
    BY <1>6, <2>4 DEF Accounted
  <2> QED BY <1>2, <1>4, <1>5, <1>6, <2>2, <2>3, <2>5, OwnStep
<1>9. CASE reply[c] # "ok" /\ joined' = joined
  <2>1. ASSUME NEW m \in Names PROVE KeptOK(c, m)'
    <3>1. KeptOK(c, m)
      BY DEF PresenceOK
    <3> QED BY <1>2, <1>3, <1>6, <1>7, <1>9, <3>1 DEF KeptOK, Live, actorVars
  <2>2. ASSUME NEW j \in Live PROVE Accounted(c, j)'
    <3>1. Accounted(c, j)
      BY <1>1 DEF PresenceOK
    <3> QED BY <1>2, <1>6, <1>7, <1>9, <3>1 DEF Accounted, actorVars
  <2> QED BY <1>2, <1>4, <1>5, <1>6, <1>9, <2>1, <2>2, OwnStep
<1> QED BY <1>8, <1>9 DEF JoinAnswered, n, i

(* A record of one of the plain commands.                                  *)
LEMMA PlainCommand ==
  ASSUME NEW m \in Commands, m.op \in {"join", "leave"}
  PROVE  m = Command(m.op, m.conn) /\ m.conn \in Conns
  BY DEF Commands, Command

LEMMA CommandsDiffer ==
  ASSUME NEW c, NEW d, NEW m \in Commands
  PROVE  /\ Command("leave", c) # Command("join", d)
         /\ Command("leave", c) = Command("leave", d) => c = d
         /\ Command("join", c) = Command("join", d) => c = d
         /\ m = Command("leave", c) => m.op = "leave" /\ m.conn = c
         /\ m = Command("join", c) => m.op = "join" /\ m.conn = c
<1>1. /\ Command("leave", c).op = "leave" /\ Command("join", d).op = "join"
      /\ Command("leave", c).conn = c /\ Command("leave", d).conn = d
      /\ Command("join", c).conn = c /\ Command("join", d).conn = d
      /\ Command("join", c).op = "join"
  BY DEF Command
<1> QED BY <1>1

(* A command that is no Leave, sent by a connection that was not joining   *)
(* or leaving.                                                             *)
LEMMA SendKeeps ==
  ASSUME RoomInv, PresenceOK, NEW c \in Conns, OnlyOf(c), NEW i \in RoomIds,
         NEW m \in Commands, m.op # "leave", Send(i, m),
         UNCHANGED <<actorVars, joined, reply, ending, gone>>, EndingOK',
         pc[c] \notin {"joining", "sendLeave"}, pc'[c] # "sendLeave",
         reply[c] = "none"
  PROVE  PresenceOK'
<1>1. inbox \in [RoomIds -> Seq(Commands)] /\ Live \subseteq RoomIds
  BY LiveRooms DEF RoomInv, RoomsTypeOK
<1>2. ASSUME NEW d, NEW j \in RoomIds
      PROVE  LeaveIn(d, j)' <=> LeaveIn(d, j)
  BY <1>1, LeaveAppended, CommandsDiffer
<1>3. LeaveFirst'
  <2> SUFFICES ASSUME NEW j \in RoomIds, NEW d \in Conns,
                      NEW k \in 1..Len(inbox'[j]), NEW l \in 1..Len(inbox'[j]),
                      inbox'[j][k] = Command("leave", d),
                      inbox'[j][l] = Command("join", d)
               PROVE  k < l
    BY DEF LeaveFirst
  <2>1. CASE j # i
    <3>1. inbox'[j] = inbox[j]
      BY <1>1, <2>1, Appended
    <3> QED BY <3>1 DEF PresenceOK, LeaveFirst
  <2>2. CASE j = i
    <3>1. /\ Len(inbox[i]) \in Nat /\ Len(inbox'[i]) = Len(inbox[i]) + 1
          /\ inbox'[i][Len(inbox[i]) + 1] = m
          /\ \A x \in 1..Len(inbox[i]) : inbox'[i][x] = inbox[i][x]
      BY <1>1, Appended
    <3>2. k \in 1..Len(inbox[i])
      BY <2>2, <3>1, CommandsDiffer
    <3>3. CASE l = Len(inbox[i]) + 1
      BY <3>1, <3>2, <3>3
    <3>4. CASE l \in 1..Len(inbox[i])
      BY <2>2, <3>1, <3>2, <3>4 DEF PresenceOK, LeaveFirst
    <3> QED BY <2>2, <3>1, <3>3, <3>4
  <2> QED BY <2>1, <2>2
<1>4. ASSUME NEW d \in Conns PROVE ToldOK(d)'
  <2>1. CASE d = c
    BY <2>1 DEF ToldOK
  <2>2. CASE d # c
    <3>1. ToldOK(d) /\ pc'[d] = pc[d] /\ job'[d] = job[d]
      BY <2>2 DEF PresenceOK, OnlyOf
    <3>2. pc[d] = "joining" => job[d].tx \in RoomIds
      BY <1>1 DEF RoomInv, TxOf
    <3> QED BY <1>2, <3>1, <3>2 DEF ToldOK, actorVars
  <2> QED BY <2>1, <2>2
<1>5. ASSUME NEW d \in Conns, NEW n \in Names PROVE KeptOK(d, n)'
  <2>1. KeptOK(d, n)
    BY DEF PresenceOK
  <2>2. joined[d][n] # NoRoom => joined[d][n] \in RoomIds
    BY <1>1, <2>1 DEF KeptOK
  <2>3. pc'[d] = "sendLeave" => pc[d] = "sendLeave" /\ job'[d] = job[d]
    BY DEF OnlyOf
  <2> QED BY <1>2, <2>1, <2>2, <2>3 DEF KeptOK, actorVars, Live
<1>6. ASSUME NEW d \in Conns, NEW j \in RoomIds PROVE Accounted(d, j)'
  <2>1. Accounted(d, j)
    BY DEF PresenceOK
  <2>2. pc[d] \in {"joining", "sendLeave"} => pc'[d] = pc[d] /\ job'[d] = job[d]
    BY DEF OnlyOf
  <2> QED BY <1>2, <2>1, <2>2 DEF Accounted, actorVars
<1> QED BY <1>3, <1>4, <1>5, <1>6 DEF PresenceOK

(* The Leave goes to the room that may have the connection for a member,   *)
(* and no Join of it is there.                                             *)
LEMMA SendLeaveKeeps ==
  ASSUME RoomInv, PresenceOK, NEW c \in Conns, SendLeave(c)
  PROVE  PresenceOK'
<1> DEFINE i == job[c].tx
           m == Command("leave", c)
<1>1. /\ inbox \in [RoomIds -> Seq(Commands)] /\ Live \subseteq RoomIds
      /\ TaskTypeOK
  BY LiveRooms DEF RoomInv, RoomsTypeOK
<1>2. /\ pc[c] = "sendLeave" /\ i \in Live /\ nameOf[i] = job[c].room
      /\ Send(i, m) /\ reply[c] = "none"
      /\ UNCHANGED <<actorVars, joined, reply, ending, gone>>
  BY NoAnswer DEF SendLeave, RoomInv, TxOf, Waiting, connVars
<1>3. m \in Commands /\ m.op = "leave" /\ m.conn = c
  BY DEF Commands, Command
<1>4. /\ \A d \in Conns \ {c} : pc'[d] = pc[d] /\ job'[d] = job[d]
      /\ pc'[c] \in {"idle", "cleanup", "sendClose"}
      /\ c \in ending => pc'[c] \in {"cleanup", "sendClose"}
      /\ pc'[c] = "cleanup" => c \in ending
  BY <1>1, <1>2 DEF SendLeave, Return, Goto, TaskTypeOK
<1>5. EndingOK'
  BY <1>2, <1>4, EndingKept
<1> HIDE DEF i, m
<1>6. ASSUME NEW d, NEW j \in RoomIds
      PROVE  LeaveIn(d, j)' <=> LeaveIn(d, j) \/ (d = c /\ j = i)
  <2>1. i \in RoomIds
    BY <1>1, <1>2
  <2>2. LeaveIn(d, j)' <=> LeaveIn(d, j) \/ (j = i /\ m = Command("leave", d))
    BY <1>1, <1>2, <1>3, <2>1, LeaveAppended
  <2>3. m = Command("leave", d) <=> d = c
    BY <1>3, CommandsDiffer DEF m
  <2> QED BY <2>2, <2>3
<1>7. LeaveFirst'
  <2> SUFFICES ASSUME NEW j \in RoomIds, NEW d \in Conns,
                      NEW k \in 1..Len(inbox'[j]), NEW l \in 1..Len(inbox'[j]),
                      inbox'[j][k] = Command("leave", d),
                      inbox'[j][l] = Command("join", d)
               PROVE  k < l
    BY DEF LeaveFirst
  <2>1. CASE j # i
    <3>1. inbox'[j] = inbox[j]
      BY <1>1, <1>2, <1>3, <2>1, Appended
    <3> QED BY <3>1 DEF PresenceOK, LeaveFirst
  <2>2. CASE j = i
    <3>1. /\ Len(inbox[i]) \in Nat /\ Len(inbox'[i]) = Len(inbox[i]) + 1
          /\ inbox'[i][Len(inbox[i]) + 1] = m
          /\ \A x \in 1..Len(inbox[i]) : inbox'[i][x] = inbox[i][x]
      BY <1>1, <1>2, <1>3, Appended
    <3>2. l \in 1..Len(inbox[i])
      BY <1>3, <2>2, <3>1, CommandsDiffer DEF m
    <3>3. inbox[i][l] = Command("join", d) /\ inbox[i][l] \in Commands
      BY <1>1, <1>2, <2>2, <3>1, <3>2
    <3>4. AskedOK(inbox[i][l], i) /\ inbox[i][l].op = "join"
          /\ inbox[i][l].conn = d
      BY <1>1, <1>2, <3>2, <3>3, CommandsDiffer DEF RoomInv, InboxOK
    <3>5. d # c
      BY <1>2, <3>4 DEF AskedOK, AskOps, WaitsAt
    <3>6. k \in 1..Len(inbox[i])
      BY <1>3, <2>2, <3>1, <3>5, CommandsDiffer DEF m
    <3> QED BY <1>1, <1>2, <2>2, <3>1, <3>2, <3>6 DEF PresenceOK, LeaveFirst
  <2> QED BY <2>1, <2>2
<1>8. ASSUME NEW d \in Conns PROVE ToldOK(d)'
  <2>1. CASE d = c
    BY <1>4, <2>1 DEF ToldOK
  <2>2. CASE d # c
    <3>1. ToldOK(d) /\ pc'[d] = pc[d] /\ job'[d] = job[d]
      BY <1>4, <2>2 DEF PresenceOK
    <3>2. pc[d] = "joining" => job[d].tx \in RoomIds
      BY <1>1 DEF RoomInv, TxOf
    <3> QED BY <1>2, <1>6, <2>2, <3>1, <3>2 DEF ToldOK, actorVars
  <2> QED BY <2>1, <2>2
<1>9. ASSUME NEW d \in Conns, NEW n \in Names PROVE KeptOK(d, n)'
  <2>1. KeptOK(d, n)
    BY DEF PresenceOK
  <2>2. joined[d][n] # NoRoom => joined[d][n] \in RoomIds
    BY <1>1, <2>1 DEF KeptOK
  <2>3. d = c /\ joined[d][n] # NoRoom => joined[d][n] # i
    BY <1>2, <2>1 DEF KeptOK
  <2>4. pc'[d] = "sendLeave" => pc[d] = "sendLeave" /\ job'[d] = job[d]
    BY <1>4
  <2> QED BY <1>2, <1>6, <2>1, <2>2, <2>3, <2>4 DEF KeptOK, actorVars, Live
<1>10. ASSUME NEW d \in Conns, NEW j \in RoomIds PROVE Accounted(d, j)'
  <2>1. Accounted(d, j)
    BY DEF PresenceOK
  <2>2. d # c => pc'[d] = pc[d] /\ job'[d] = job[d]
    BY <1>4
  <2> QED BY <1>2, <1>6, <2>1, <2>2 DEF Accounted, actorVars, i
<1> QED BY <1>5, <1>7, <1>8, <1>9, <1>10 DEF PresenceOK

(* A room handles the command at the head of its inbox: whom it loses is   *)
(* gone or leaves, whom it gains is told so.                               *)
LEMMA HandleKeeps ==
  ASSUME RoomInv, PresenceOK, NEW i \in RoomIds, inbox[i] # <<>>, Handled(i),
         UNCHANGED <<spawned, nameOf, pc, job, joined, ending, gone>>,
         \A j \in RoomIds, d \in Conns :
           /\ d \in members[j] /\ d \notin gone =>
                d \in members'[j] \/ (j = i /\ Head(inbox[i]) = Command("leave", d))
           /\ d \in members'[j] =>
                \/ d \in members[j]
                \/ j = i /\ Head(inbox[i]) = Command("join", d)
                   /\ reply'[d] = "ok",
         \A d \in Conns :
           /\ pc[d] = "joining" /\ reply[d] = "ok" => reply'[d] = "ok"
           /\ pc[d] = "joining" /\ reply'[d] = "ok" =>
                \/ reply[d] = "ok"
                \/ Head(inbox[i]) = Command("join", d) /\ d \in members'[i]
           /\ Head(inbox[i]) = Command("leave", d) => d \notin members'[i]
  PROVE  PresenceOK'
<1>1. /\ inbox \in [RoomIds -> Seq(Commands)] /\ Live \subseteq RoomIds
      /\ Live' = Live
  BY LiveRooms DEF RoomInv, RoomsTypeOK, Live
<1>2. /\ \A j \in RoomIds : j # i => inbox'[j] = inbox[j]
      /\ Len(inbox[i]) \in Nat \ {0} /\ Len(inbox'[i]) = Len(inbox[i]) - 1
      /\ Head(inbox[i]) = inbox[i][1] /\ Head(inbox[i]) \in Commands
      /\ \A k \in 1..Len(inbox'[i]) : inbox'[i][k] = inbox[i][k + 1]
  BY <1>1, Taken
<1>3. ASSUME NEW d, NEW j \in RoomIds
      PROVE  /\ LeaveIn(d, j)' => LeaveIn(d, j)
             /\ LeaveIn(d, j) => LeaveIn(d, j)' \/
                  (j = i /\ Head(inbox[i]) = Command("leave", d))
  BY <1>1, LeaveTaken
<1>4. \A d : Head(inbox[i]) = Command("leave", d) => LeaveIn(d, i)
  BY <1>2 DEF LeaveIn
<1>5. EndingOK'
  BY DEF PresenceOK, EndingOK
<1>6. LeaveFirst'
  <2> SUFFICES ASSUME NEW j \in RoomIds, NEW d \in Conns,
                      NEW k \in 1..Len(inbox'[j]), NEW l \in 1..Len(inbox'[j]),
                      inbox'[j][k] = Command("leave", d),
                      inbox'[j][l] = Command("join", d)
               PROVE  k < l
    BY DEF LeaveFirst
  <2>1. CASE j # i
    BY <1>2, <2>1 DEF PresenceOK, LeaveFirst
  <2>2. CASE j = i
    <3>1. /\ k + 1 \in 1..Len(inbox[i]) /\ inbox[i][k + 1] = inbox'[i][k]
          /\ l + 1 \in 1..Len(inbox[i]) /\ inbox[i][l + 1] = inbox'[i][l]
      BY <1>2, <2>2
    <3>2. k + 1 < l + 1
      BY <2>2, <3>1 DEF PresenceOK, LeaveFirst
    <3> QED BY <1>2, <2>2, <3>2
  <2> QED BY <2>1, <2>2
<1>7. ASSUME NEW d \in Conns, pc[d] = "joining", reply'[d] = "ok"
      PROVE  d \in members'[job[d].tx] /\ ~LeaveIn(d, job[d].tx)'
  <2>1. d \notin gone /\ job[d].tx \in RoomIds
    BY <1>1, <1>7 DEF PresenceOK, EndingOK, RoomInv, TxOf
  <2>2. CASE reply[d] = "ok"
    <3>1. d \in members[job[d].tx] /\ ~LeaveIn(d, job[d].tx)
      BY <1>7, <2>2 DEF PresenceOK, ToldOK
    <3> QED BY <1>3, <1>4, <2>1, <3>1
  <2>3. CASE Head(inbox[i]) = Command("join", d) /\ d \in members'[i]
    <3>1. /\ Head(inbox[i]).op = "join" /\ Head(inbox[i]).conn = d
      BY <1>2, <2>3, CommandsDiffer
    <3>2. AskedOK(Head(inbox[i]), i)
      BY <1>2 DEF RoomInv, InboxOK
    <3>3. job[d].tx = i
      BY <3>1, <3>2 DEF AskedOK, AskOps
    <3>4. ASSUME LeaveIn(d, i)' PROVE FALSE
      <4>1. PICK k \in 1..Len(inbox'[i]) : inbox'[i][k] = Command("leave", d)
        BY <3>4 DEF LeaveIn
      <4>2. /\ k + 1 \in 1..Len(inbox[i]) /\ 1 \in 1..Len(inbox[i])
            /\ inbox[i][k + 1] = Command("leave", d)
            /\ inbox[i][1] = Command("join", d)
        BY <1>2, <2>3, <4>1
      <4>3. k + 1 < 1
        BY <4>2 DEF PresenceOK, LeaveFirst
      <4> QED BY <1>2, <4>1, <4>3
    <3> QED BY <2>3, <3>3, <3>4
  <2> QED BY <1>7, <2>2, <2>3
<1>8. ASSUME NEW d \in Conns, NEW n \in Names PROVE KeptOK(d, n)'
  <2>1. KeptOK(d, n)
    BY DEF PresenceOK
  <2>2. joined[d][n] # NoRoom => joined[d][n] \in RoomIds
    BY <1>1, <2>1 DEF KeptOK
  <2> QED BY <1>1, <1>3, <1>4, <2>1, <2>2 DEF KeptOK
<1>9. ASSUME NEW d \in Conns, NEW j \in RoomIds, d \in members'[j]
      PROVE  Accounted(d, j)'
  <2>1. CASE d \in members[j]
    <3>1. Accounted(d, j)
      BY DEF PresenceOK
    <3> QED BY <1>3, <1>9, <2>1, <3>1 DEF Accounted
  <2>2. CASE /\ j = i /\ Head(inbox[i]) = Command("join", d)
             /\ reply'[d] = "ok"
    <3>1. /\ Head(inbox[i]).op = "join" /\ Head(inbox[i]).conn = d
      BY <1>2, <2>2, CommandsDiffer
    <3>2. AskedOK(Head(inbox[i]), i)
      BY <1>2 DEF RoomInv, InboxOK
    <3>3. job[d].tx = i /\ pc[d] = "joining"
      BY <3>1, <3>2 DEF AskedOK, AskOps, WaitsAt
    <3> QED BY <2>2, <3>3 DEF Accounted
  <2> QED BY <1>9, <2>1, <2>2
<1> QED BY <1>5, <1>6, <1>7, <1>8, <1>9 DEF PresenceOK, ToldOK, Accounted

(* One lemma per action that is not covered yet.                           *)
LEMMA AskJoinKeeps ==
  ASSUME RoomInv, PresenceOK, Unborn, NEW c \in Conns, NEW n \in Names,
         AskJoin(c, n)
  PROVE  PresenceOK'
<1>1. TaskTypeOK /\ pc[c] = "idle" /\ c \notin ending
  BY DEF RoomInv, RoomsTypeOK, AskJoin, Ask, PresenceOK, EndingOK
<1>2. OnlyOf(c) /\ pc'[c] = "lookup"
  BY <1>1 DEF AskJoin, Work, Goto, OnlyOf, TaskTypeOK
<1>3. EndingOK'
  BY <1>1, <1>2, EndingKept DEF AskJoin, OnlyOf
<1> QED BY <1>1, <1>2, <1>3, NoSpawn, QuietStep DEF AskJoin

LEMMA AskInviteKeeps ==
  ASSUME RoomInv, PresenceOK, Unborn, NEW c \in Conns, NEW u \in Users,
         AskInvite(c, u)
  PROVE  PresenceOK'
<1>1. TaskTypeOK /\ pc[c] = "idle" /\ c \notin ending
  BY DEF RoomInv, RoomsTypeOK, AskInvite, Ask, PresenceOK, EndingOK
<1>2. OnlyOf(c) /\ pc'[c] = "create"
  BY <1>1 DEF AskInvite, Work, Goto, OnlyOf, TaskTypeOK
<1>3. EndingOK'
  BY <1>1, <1>2, EndingKept DEF AskInvite, OnlyOf
<1> QED BY <1>1, <1>2, <1>3, NoSpawn, QuietStep DEF AskInvite

LEMMA LookupKeeps ==
  ASSUME RoomInv, PresenceOK, Unborn, NEW c \in Conns, Lookup(c)
  PROVE  PresenceOK'
<1>1. TaskTypeOK /\ pc[c] = "lookup" /\ c \notin ending
  BY DEF RoomInv, RoomsTypeOK, Lookup, PresenceOK, EndingOK
<1>2. OnlyOf(c) /\ pc'[c] \in {"send", "create", "idle"}
  BY <1>1 DEF Lookup, Return, Goto, OnlyOf, TaskTypeOK
<1>3. EndingOK'
  BY <1>1, <1>2, EndingKept DEF Lookup, OnlyOf, connVars
<1> QED BY <1>1, <1>2, <1>3, NoSpawn, QuietStep DEF Lookup, connVars

LEMMA CountRoomsKeeps ==
  ASSUME RoomInv, PresenceOK, Unborn, NEW c \in Conns, CountRooms(c)
  PROVE  PresenceOK'
<1>1. TaskTypeOK /\ pc[c] = "create" /\ c \notin ending
  BY DEF RoomInv, RoomsTypeOK, CountRooms, PresenceOK, EndingOK
<1>2. OnlyOf(c) /\ pc'[c] \in {"insert", "idle"}
  BY <1>1 DEF CountRooms, Return, Goto, OnlyOf, TaskTypeOK
<1>3. EndingOK'
  BY <1>1, <1>2, EndingKept DEF CountRooms, OnlyOf, connVars
<1> QED BY <1>1, <1>2, <1>3, NoSpawn, QuietStep DEF CountRooms, connVars

(* What an insertion does to the rooms: the listed one is taken, or the    *)
(* next is spawned.                                                        *)
LEMMA Inserted ==
  ASSUME RoomInv, Unborn, NEW c \in Conns, Insert(c)
  PROVE  /\ Grows /\ UNCHANGED <<inbox, members, joined, ending, gone, reply,
                                 meant, closed>>
         /\ OnlyOf(c) /\ pc[c] = "insert" /\ pc'[c] = "send"
         /\ job'[c].room = job[c].room /\ job'[c].target = job[c].target
         /\ \/ UNCHANGED <<spawned, nameOf, private>> /\ dir' = dir
               /\ job'[c].tx = dir[job[c].room] /\ dir[job[c].room] \in Live
            \/ /\ job'[c].tx = spawned + 1 /\ spawned' = spawned + 1
               /\ spawned + 1 \in RoomIds /\ dir[job[c].room] = NoRoom
               /\ nameOf' = [nameOf EXCEPT ![spawned + 1] = job[c].room]
               /\ private' = [private EXCEPT ![spawned + 1] =
                                job[c].target # Nobody]
               /\ dir' = [dir EXCEPT ![job[c].room] = spawned + 1]
         /\ invited' = IF job[c].target = Nobody THEN invited
                       ELSE [invited EXCEPT ![job'[c].tx] = @ \cup {UserOf[c]}]
<1> DEFINE n == job[c].room
<1>1. /\ TaskTypeOK /\ dir \in [Names -> Handles] /\ spawned \in Nat
      /\ nameOf \in [RoomIds -> Names] /\ Live \subseteq RoomIds
      /\ n \in Names
  BY LiveRooms DEF RoomInv, RoomsTypeOK, DirTypeOK, ActorTypeOK, TaskTypeOK,
                   Jobs
<1>2. /\ UNCHANGED <<inbox, members, joined, ending, gone, reply, meant,
                     closed>>
      /\ pc[c] = "insert" /\ Goto(c, "send")
  BY DEF Insert, connVars
<1>3. \A i : job' = [job EXCEPT ![c].tx = i] =>
        /\ job'[c].room = n /\ job'[c].target = job[c].target
        /\ job'[c].tx = i /\ \A d \in Conns \ {c} : job'[d] = job[d]
  BY <1>1 DEF TaskTypeOK, Jobs
<1>4. pc'[c] = "send" /\ \A d \in Conns \ {c} : pc'[d] = pc[d]
  BY <1>1, <1>2 DEF Goto, TaskTypeOK
<1>5. CASE dir[n] = NoRoom
  <2>1. /\ spawned + 1 \in RoomIds /\ spawned' = spawned + 1
        /\ job' = [job EXCEPT ![c].tx = spawned + 1]
        /\ nameOf' = [nameOf EXCEPT ![spawned + 1] = n]
        /\ private' = [private EXCEPT ![spawned + 1] = job[c].target # Nobody]
        /\ dir' = [dir EXCEPT ![n] = spawned + 1]
        /\ invited' = IF job[c].target = Nobody THEN invited
                      ELSE [invited EXCEPT ![spawned + 1] = @ \cup {UserOf[c]}]
    BY <1>5 DEF Insert
  <2>2. Grows
    BY <1>1, <2>1 DEF Grows, Live, Unborn
  <2> QED BY <1>2, <1>3, <1>4, <1>5, <2>1, <2>2 DEF OnlyOf
<1>6. CASE dir[n] # NoRoom
  <2>1. dir[n] \in Live
    BY <1>1, <1>6 DEF RoomInv, DirOK
  <2>2. dir[n] # spawned + 1
    BY <1>1, <2>1 DEF Live
  <2>3. /\ UNCHANGED <<spawned, nameOf, private>>
        /\ job' = [job EXCEPT ![c].tx = dir[n]]
        /\ dir' = [dir EXCEPT ![n] = dir[n]]
        /\ invited' = IF job[c].target = Nobody THEN invited
                      ELSE [invited EXCEPT ![dir[n]] = @ \cup {UserOf[c]}]
    BY <1>6, <2>2 DEF Insert
  <2>4. dir' = dir
    BY <1>1, <2>3
  <2>5. Grows
    BY <2>3 DEF Grows, Live, Unborn
  <2> QED BY <1>2, <1>3, <1>4, <2>1, <2>3, <2>4, <2>5 DEF OnlyOf
<1> QED BY <1>5, <1>6

LEMMA InsertKeeps ==
  ASSUME RoomInv, PresenceOK, Unborn, NEW c \in Conns, Insert(c)
  PROVE  PresenceOK'
<1>1. /\ pc[c] = "insert" /\ c \notin ending /\ OnlyOf(c) /\ pc'[c] = "send"
      /\ Grows /\ UNCHANGED <<inbox, members, joined, ending, gone>>
  BY Inserted DEF PresenceOK, EndingOK
<1>2. EndingOK'
  BY <1>1, EndingKept DEF OnlyOf
<1> QED BY <1>1, <1>2, QuietStep

LEMMA SendJoinKeeps ==
  ASSUME RoomInv, PresenceOK, NEW c \in Conns, SendJoin(c)
  PROVE  PresenceOK'
<1> DEFINE m == Command("join", c)
<1>1. /\ TaskTypeOK /\ pc[c] = "send" /\ c \notin ending /\ reply[c] = "none"
      /\ job[c].tx \in RoomIds
  BY NoAnswer, LiveRooms DEF RoomInv, RoomsTypeOK, SendJoin, PresenceOK,
     EndingOK, Waiting, TxOf
<1>2. OnlyOf(c) /\ pc'[c] = "joining"
  BY <1>1 DEF SendJoin, Goto, OnlyOf, TaskTypeOK
<1>3. EndingOK'
  BY <1>1, <1>2, EndingKept DEF SendJoin, OnlyOf, connVars
<1>4. m \in Commands /\ m.op # "leave"
  BY DEF Commands, Command
<1> HIDE DEF m
<1> QED BY <1>1, <1>2, <1>3, <1>4, SendKeeps DEF SendJoin, connVars, m

LEMMA SendCloseKeeps ==
  ASSUME RoomInv, PresenceOK, NEW c \in Conns, SendClose(c)
  PROVE  PresenceOK'
<1> DEFINE m == Command("close", c)
<1>1. /\ TaskTypeOK /\ pc[c] = "sendClose" /\ reply[c] = "none"
      /\ job[c].tx \in RoomIds
  BY NoAnswer, LiveRooms DEF RoomInv, RoomsTypeOK, SendClose, Waiting, TxOf
<1>2. OnlyOf(c) /\ pc'[c] = "closing"
  BY <1>1 DEF SendClose, Goto, OnlyOf, TaskTypeOK
<1>3. EndingOK'
  BY <1>1, <1>2, EndingKept DEF SendClose, OnlyOf, connVars
<1>4. m \in Commands /\ m.op # "leave"
  BY DEF Commands, Command
<1> HIDE DEF m
<1> QED BY <1>1, <1>2, <1>3, <1>4, SendKeeps DEF SendClose, connVars, m

LEMMA SayKeeps ==
  ASSUME RoomInv, PresenceOK, NEW c \in Conns, NEW n \in Names, Say(c, n)
  PROVE  PresenceOK'
<1> DEFINE m == Command("say", c)
<1>1. /\ TaskTypeOK /\ pc[c] = "idle" /\ c \notin ending /\ reply[c] = "none"
      /\ joined[c][n] \in RoomIds
  BY NoAnswer, SenderKept DEF RoomInv, RoomsTypeOK, Say, Ask, Waiting,
     PresenceOK, EndingOK
<1>2. OnlyOf(c) /\ pc'[c] = "idle"
  BY <1>1 DEF Say, OnlyOf
<1>3. EndingOK'
  BY <1>1, <1>2, EndingKept DEF Say, OnlyOf
<1>4. m \in Commands /\ m.op # "leave"
  BY DEF Commands, Command
<1> HIDE DEF m
<1> QED BY <1>1, <1>2, <1>3, <1>4, SendKeeps DEF Say, m

LEMMA SetTopicKeeps ==
  ASSUME RoomInv, PresenceOK, NEW c \in Conns, NEW n \in Names,
         SetTopic(c, n)
  PROVE  PresenceOK'
<1> DEFINE m == Command("topic", c)
<1>1. /\ TaskTypeOK /\ pc[c] = "idle" /\ c \notin ending /\ reply[c] = "none"
      /\ joined[c][n] \in RoomIds
  BY NoAnswer, SenderKept DEF RoomInv, RoomsTypeOK, SetTopic, Ask, Waiting,
     PresenceOK, EndingOK
<1>2. OnlyOf(c) /\ pc'[c] = "waiting"
  BY <1>1 DEF SetTopic, Goto, OnlyOf, TaskTypeOK
<1>3. EndingOK'
  BY <1>1, <1>2, EndingKept DEF SetTopic, OnlyOf
<1>4. m \in Commands /\ m.op # "leave"
  BY DEF Commands, Command
<1> HIDE DEF m
<1> QED BY <1>1, <1>2, <1>3, <1>4, SendKeeps DEF SetTopic, m

LEMMA SetFlagsKeeps ==
  ASSUME RoomInv, PresenceOK, NEW c \in Conns, NEW n \in Names,
         NEW f \in Flags, SetFlags(c, n, f)
  PROVE  PresenceOK'
<1> DEFINE m == [op |-> "flags", conn |-> c, flags |-> f]
<1>1. /\ TaskTypeOK /\ pc[c] = "idle" /\ c \notin ending /\ reply[c] = "none"
      /\ dir[n] \in RoomIds
  BY NoAnswer, LiveRooms DEF RoomInv, RoomsTypeOK, SetFlags, Ask, Waiting,
     PresenceOK, EndingOK, DirOK
<1>2. OnlyOf(c) /\ pc'[c] = "waiting"
  BY <1>1 DEF SetFlags, Goto, OnlyOf, TaskTypeOK
<1>3. EndingOK'
  BY <1>1, <1>2, EndingKept DEF SetFlags, OnlyOf
<1>4. m \in Commands /\ m.op # "leave"
  BY DEF Commands
<1> HIDE DEF m
<1> QED BY <1>1, <1>2, <1>3, <1>4, SendKeeps DEF SetFlags, m

LEMMA AnsweredKeeps ==
  ASSUME RoomInv, PresenceOK, Unborn, NEW c \in Conns, Answered(c)
  PROVE  PresenceOK'
<1>1. /\ TaskTypeOK /\ pc[c] = "waiting" /\ c \notin ending
      /\ reply \in [Conns -> Answers]
  BY DEF RoomInv, RoomsTypeOK, Answered, Receive, PresenceOK, EndingOK
<1>2. OnlyOf(c) /\ pc'[c] = "idle"
  BY <1>1 DEF Answered, Receive, Goto, OnlyOf, TaskTypeOK
<1>3. EndingOK'
  BY <1>1, <1>2, EndingKept DEF Answered, OnlyOf, connVars
<1> QED BY <1>1, <1>2, <1>3, NoSpawn, QuietStep DEF Answered, connVars

LEMMA CloseAnsweredKeeps ==
  ASSUME RoomInv, PresenceOK, Unborn, NEW c \in Conns, CloseAnswered(c)
  PROVE  PresenceOK'
<1>1. /\ TaskTypeOK /\ pc[c] = "closing" /\ reply \in [Conns -> Answers]
  BY DEF RoomInv, RoomsTypeOK, CloseAnswered, Receive
<1>2. OnlyOf(c) /\ pc'[c] = IF c \in ending THEN "cleanup" ELSE "idle"
  BY <1>1 DEF CloseAnswered, Receive, Return, Goto, OnlyOf, TaskTypeOK
<1>3. EndingOK'
  BY <1>1, <1>2, EndingKept DEF CloseAnswered, OnlyOf, connVars
<1> QED BY <1>1, <1>2, <1>3, NoSpawn, QuietStep DEF CloseAnswered, connVars

LEMMA CloseKeeps ==
  ASSUME RoomInv, PresenceOK, Unborn, NEW c \in Conns, Close(c)
  PROVE  PresenceOK'
<1>1. TaskTypeOK /\ pc[c] = "idle" /\ ending \subseteq Conns
  BY DEF RoomInv, RoomsTypeOK, ConnTypeOK, Close
<1>2. OnlyOf(c) /\ pc'[c] = "cleanup"
  BY <1>1 DEF Close, Goto, OnlyOf, TaskTypeOK
<1>3. EndingOK'
  BY <1>1, <1>2 DEF Close, OnlyOf, PresenceOK, EndingOK
<1> QED BY <1>1, <1>2, <1>3, NoSpawn, QuietStep DEF Close

LEMMA CleanupKeeps ==
  ASSUME RoomInv, PresenceOK, Unborn, NEW c \in Conns, Cleanup(c)
  PROVE  PresenceOK'
<1>1. TaskTypeOK /\ pc[c] = "cleanup" /\ c \in ending /\ ending \subseteq Conns
  BY DEF RoomInv, RoomsTypeOK, ConnTypeOK, Cleanup, PresenceOK, EndingOK
<1>2. CASE (\E n \in Names : StartLeave(c, n)) /\ UNCHANGED gone
  BY <1>1, <1>2, StartLeaveKeeps DEF Cleanup
<1>3. CASE /\ Goto(c, "done") /\ gone' = gone \cup {c}
           /\ UNCHANGED <<job, joined>>
  <2>1. OnlyOf(c) /\ pc'[c] = "done"
    BY <1>1, <1>3 DEF Cleanup, Goto, OnlyOf, TaskTypeOK
  <2>2. EndingOK'
    BY <1>1, <1>3, <2>1 DEF Cleanup, OnlyOf, PresenceOK, EndingOK
  <2> QED BY <1>1, <1>3, <2>1, <2>2, NoSpawn, QuietStep DEF Cleanup
<1> QED BY <1>2, <1>3 DEF Cleanup

LEMMA DeliverKeeps ==
  ASSUME RoomInv, PresenceOK, Unborn, NEW c \in Conns, Deliver(c)
  PROVE  PresenceOK'
<1>1. TaskTypeOK /\ pc[c] = "deliver" /\ c \notin ending
      /\ job[c].room \in Names
  BY DEF RoomInv, RoomsTypeOK, Deliver, PresenceOK, EndingOK, TaskTypeOK, Jobs
<1>2. CASE StartLeave(c, job[c].room)
  BY <1>1, <1>2, StartLeaveKeeps DEF Deliver
<1>3. CASE Return(c) /\ UNCHANGED joined
  <2>1. OnlyOf(c) /\ pc'[c] = "idle"
    BY <1>1, <1>3 DEF Deliver, Return, Goto, OnlyOf, TaskTypeOK
  <2>2. EndingOK'
    BY <1>1, <2>1, EndingKept DEF Deliver, OnlyOf
  <2> QED BY <1>1, <1>3, <2>1, <2>2, NoSpawn, QuietStep DEF Deliver
<1> QED BY <1>2, <1>3 DEF Deliver

(* A message to all members loses those who are gone.                      *)
LEMMA Pruned ==
  ASSUME RoomInv, NEW i \in RoomIds, NEW to \in SUBSET Conns, Broadcast(i, to)
  PROVE  /\ members'[i] = to \ gone
         /\ \A j \in RoomIds : j # i => members'[j] = members[j]
  BY DEF RoomInv, RoomsTypeOK, ActorTypeOK, Broadcast

(* The command at the head of an inbox, and what it is not.                *)
LEMMA HeadIs ==
  ASSUME RoomInv, NEW i \in RoomIds, NEW op, Due(i, op), Handled(i)
  PROVE  /\ inbox[i] # <<>> /\ Sender(i) \in Conns
         /\ op \notin {"leave"} => \A d : Head(inbox[i]) # Command("leave", d)
         /\ op \notin {"join"} => \A d : Head(inbox[i]) # Command("join", d)
         /\ op \in {"join", "leave"} => Head(inbox[i]) = Command(op, Sender(i))
         /\ op \in {"join", "leave"} =>
              \A d : Head(inbox[i]) = Command(op, d) => d = Sender(i)
         /\ i \in Live /\ members[i] \in SUBSET Conns
<1>1. /\ inbox[i] # <<>> /\ Head(inbox[i]).op = op /\ Sender(i) \in Conns
      /\ Head(inbox[i]) \in Commands /\ members[i] \in SUBSET Conns
  BY AtHand
<1>2. /\ op # "leave" => \A d : Head(inbox[i]) # Command("leave", d)
      /\ op # "join" => \A d : Head(inbox[i]) # Command("join", d)
  BY <1>1, CommandsDiffer
<1>3. op \in {"join", "leave"} => Head(inbox[i]) = Command(op, Sender(i))
  BY <1>1, PlainCommand DEF Sender
<1>4. op \in {"join", "leave"} =>
        \A d : Head(inbox[i]) = Command(op, d) => d = Sender(i)
  BY <1>1, CommandsDiffer DEF Sender
<1> QED BY <1>1, <1>2, <1>3, <1>4 DEF Due

(* Granted or not, a join is told the truth.                               *)
LEMMA HandleJoinKeeps ==
  ASSUME RoomInv, PresenceOK, NEW i \in RoomIds, HandleJoin(i)
  PROVE  PresenceOK'
<1> DEFINE c == Sender(i)
<1>1. /\ inbox[i] # <<>> /\ c \in Conns /\ members[i] \in SUBSET Conns
      /\ \A d : Head(inbox[i]) # Command("leave", d)
      /\ Head(inbox[i]) = Command("join", c) /\ Handled(i)
  BY HeadIs DEF HandleJoin
<1>2. /\ UNCHANGED <<spawned, nameOf, pc, job, joined, ending, gone>>
      /\ reply \in [Conns -> Answers]
  BY DEF HandleJoin, connVars, RoomInv, RoomsTypeOK
<1>3. pc[c] = "joining" /\ reply[c] = "none" /\ c \notin gone
  <2>1. AskedOK(Head(inbox[i]), i) /\ Head(inbox[i]).op = "join"
    BY AtHand DEF HandleJoin
  <2> QED BY <2>1 DEF AskedOK, AskOps, WaitsAt, PresenceOK, EndingOK, Sender
<1> HIDE DEF c
<1>4. CASE Reply(c, "ok") /\ Broadcast(i, members[i] \cup {c})
  <2>1. /\ members'[i] = (members[i] \cup {c}) \ gone
        /\ \A j \in RoomIds : j # i => members'[j] = members[j]
    BY <1>1, <1>4, Pruned
  <2>2. reply'[c] = "ok" /\ \A d \in Conns : d # c => reply'[d] = reply[d]
    BY <1>1, <1>2, <1>4 DEF Reply
  <2> QED BY <1>1, <1>2, <1>3, <2>1, <2>2, HandleKeeps
<1>5. CASE \E a \in {"closed", "refused"} : Reply(c, a) /\ UNCHANGED members
  <2>1. reply'[c] # "ok" /\ \A d \in Conns : d # c => reply'[d] = reply[d]
    BY <1>1, <1>2, <1>5 DEF Reply
  <2> QED BY <1>1, <1>2, <1>3, <1>5, <2>1, HandleKeeps
<1> QED BY <1>4, <1>5 DEF HandleJoin, c

LEMMA HandleLeaveKeeps ==
  ASSUME RoomInv, PresenceOK, NEW i \in RoomIds, HandleLeave(i)
  PROVE  PresenceOK'
<1> DEFINE c == Sender(i)
<1>1. /\ inbox[i] # <<>> /\ c \in Conns /\ members[i] \in SUBSET Conns
      /\ \A d : Head(inbox[i]) # Command("join", d)
      /\ \A d : Head(inbox[i]) = Command("leave", d) => d = c
      /\ Head(inbox[i]) = Command("leave", c) /\ Handled(i)
  BY HeadIs DEF HandleLeave
<1>2. UNCHANGED <<spawned, nameOf, pc, job, joined, ending, gone, reply>>
  BY DEF HandleLeave, connVars
<1> HIDE DEF c
<1>3. /\ \A d \in Conns : d \in members[i] /\ d \notin gone =>
                            d \in members'[i] \/ d = c
      /\ c \notin members'[i] /\ members'[i] \subseteq members[i]
      /\ \A j \in RoomIds : j # i => members'[j] = members[j]
  <2>1. CASE Broadcast(i, members[i] \ {c})
    BY <1>1, <2>1, Pruned
  <2>2. CASE c \notin members[i] /\ UNCHANGED members
    BY <2>2
  <2> QED BY <2>1, <2>2 DEF HandleLeave, c
<1> QED BY <1>1, <1>2, <1>3, HandleKeeps

(* Commands that only lose members who are gone, and are answered, if at   *)
(* all, to somebody who is not joining.                                    *)
LEMMA OtherHandleKeeps ==
  ASSUME RoomInv, PresenceOK, NEW i \in RoomIds,
         NEW op \in {"say", "topic", "flags", "close"}, Due(i, op), Handled(i),
         UNCHANGED <<spawned, nameOf, pc, job, joined, ending, gone>>,
         UNCHANGED members \/ Broadcast(i, members[i]),
         UNCHANGED reply \/ (op # "say" /\ \E a : Reply(Sender(i), a))
  PROVE  PresenceOK'
<1> DEFINE c == Sender(i)
<1>1. /\ inbox[i] # <<>> /\ c \in Conns /\ members[i] \in SUBSET Conns
      /\ \A d : Head(inbox[i]) # Command("join", d)
      /\ \A d : Head(inbox[i]) # Command("leave", d)
  BY HeadIs
<1>2. op # "say" => pc[c] # "joining"
  <2>1. AskedOK(Head(inbox[i]), i) /\ Head(inbox[i]).op = op
    BY AtHand
  <2> QED BY <2>1 DEF AskedOK, AskOps, WaitsAt, Sender
<1>3. \A d \in Conns : pc[d] = "joining" => reply'[d] = reply[d]
  <2>1. reply \in [Conns -> Answers]
    BY DEF RoomInv, RoomsTypeOK
  <2> QED BY <1>1, <1>2, <2>1 DEF Reply
<1> HIDE DEF c
<1>4. /\ \A d \in Conns : d \in members[i] /\ d \notin gone =>
                            d \in members'[i]
      /\ members'[i] \subseteq members[i]
      /\ \A j \in RoomIds : j # i => members'[j] = members[j]
  BY <1>1, Pruned
<1> QED BY <1>1, <1>3, <1>4, HandleKeeps

LEMMA HandleSayKeeps ==
  ASSUME RoomInv, PresenceOK, NEW i \in RoomIds, HandleSay(i)
  PROVE  PresenceOK'
  BY OtherHandleKeeps DEF HandleSay, connVars

LEMMA HandleTopicKeeps ==
  ASSUME RoomInv, PresenceOK, NEW i \in RoomIds, HandleTopic(i)
  PROVE  PresenceOK'
  BY OtherHandleKeeps DEF HandleTopic, connVars

LEMMA HandleFlagsKeeps ==
  ASSUME RoomInv, PresenceOK, NEW i \in RoomIds, HandleFlags(i)
  PROVE  PresenceOK'
  BY OtherHandleKeeps DEF HandleFlags, connVars

LEMMA HandleCloseKeeps ==
  ASSUME RoomInv, PresenceOK, NEW i \in RoomIds, HandleClose(i)
  PROVE  PresenceOK'
  BY OtherHandleKeeps DEF HandleClose, connVars

(* Every step keeps connections and rooms in agreement.                    *)
LEMMA PresenceKept ==
  ASSUME RoomInv, PresenceOK, Unborn, [Next]_vars
  PROVE  PresenceOK'
<1>1. CASE UNCHANGED vars
  BY <1>1 DEF vars, actorVars, connVars, dirVars, PresenceOK, EndingOK,
     LeaveFirst, ToldOK, KeptOK, Accounted, LeaveIn, Live, RoomsOf
<1>2. ASSUME NEW c \in Conns, ClientStep(c) PROVE PresenceOK'
  <2>1. ASSUME NEW n \in Names, AskLeave(c, n) PROVE PresenceOK'
    BY <2>1, StartLeaveKeeps DEF AskLeave
  <2> QED BY <1>2, <2>1, AskJoinKeeps, SayKeeps, SetTopicKeeps,
          AskInviteKeeps, SetFlagsKeeps, CloseKeeps DEF ClientStep
<1>3. ASSUME NEW c \in Conns, TaskStep(c) PROVE PresenceOK'
  BY <1>3, LookupKeeps, CountRoomsKeeps, InsertKeeps, SendJoinKeeps,
     JoinAnsweredKeeps, DeliverKeeps, SendLeaveKeeps, SendCloseKeeps,
     CloseAnsweredKeeps, CleanupKeeps, AnsweredKeeps DEF TaskStep
<1>4. ASSUME NEW i \in RoomIds, ActorStep(i) PROVE PresenceOK'
  BY <1>4, HandleJoinKeeps, HandleLeaveKeeps, HandleSayKeeps,
     HandleTopicKeeps, HandleFlagsKeeps, HandleCloseKeeps DEF ActorStep
<1> QED BY <1>1, <1>2, <1>3, <1>4 DEF Next

---------------------------------------------------------------------------
(* Rooms to come.                                                          *)
LEMMA UnbornKept ==
  ASSUME RoomInv, Unborn, [Next]_vars
  PROVE  Unborn'
<1>1. ASSUME UNCHANGED <<spawned, invited, members>> PROVE Unborn'
  BY <1>1 DEF Unborn, Live
<1>2. ASSUME NEW c \in Conns, Insert(c) PROVE Unborn'
  <2>1. /\ Live \subseteq RoomIds /\ spawned \in Nat
        /\ invited \in [RoomIds -> SUBSET Users]
    BY LiveRooms DEF RoomInv, RoomsTypeOK, DirTypeOK
  <2>2. /\ UNCHANGED members /\ Live \subseteq Live' /\ job'[c].tx \in Live'
        /\ invited' = invited \/
             invited' = [invited EXCEPT ![job'[c].tx] = @ \cup {UserOf[c]}]
    BY <1>2, <2>1, Inserted DEF Live
  <2> QED BY <2>1, <2>2 DEF Unborn
<1>3. ASSUME NEW c \in Conns, JoinAnswered(c) PROVE Unborn'
  <2>1. /\ UNCHANGED <<spawned, members>> /\ job[c].room \in Names
        /\ invited \in [RoomIds -> SUBSET Users] /\ Live \subseteq RoomIds
        /\ dir[job[c].room] # NoRoom => dir[job[c].room] \in Live
    BY <1>3, LiveRooms DEF JoinAnswered, actorVars, RoomInv, RoomsTypeOK,
       TaskTypeOK, Jobs, DirOK, DirTypeOK
  <2>2. \/ UNCHANGED invited
        \/ /\ dir[job[c].room] # NoRoom
           /\ invited' = [invited EXCEPT ![dir[job[c].room]] =
                            @ \cup {job[c].target}]
    BY <1>3 DEF JoinAnswered
  <2> QED BY <2>1, <2>2 DEF Unborn, Live
<1>4. ASSUME NEW i \in RoomIds, ActorStep(i) PROVE Unborn'
  <2>1. /\ UNCHANGED <<spawned, invited>> /\ i \in Live
        /\ UNCHANGED members \/ \E to : Broadcast(i, to)
    BY <1>4 DEF ActorStep, HandleJoin, HandleLeave, HandleSay, HandleTopic,
       HandleFlags, HandleClose, dirVars, Due
  <2>2. members \in [RoomIds -> SUBSET Conns]
    BY DEF RoomInv, RoomsTypeOK, ActorTypeOK
  <2> QED BY <2>1, <2>2 DEF Unborn, Broadcast, Live
<1>5. ASSUME NEW c \in Conns, ClientStep(c)
      PROVE  UNCHANGED <<spawned, invited, members>>
  BY <1>5 DEF ClientStep, AskJoin, AskLeave, Say, SetTopic, AskInvite,
     SetFlags, Close, dirVars, actorVars
<1>6. ASSUME NEW c \in Conns,
             \/ Lookup(c) \/ CountRooms(c) \/ SendJoin(c) \/ Deliver(c)
             \/ SendLeave(c) \/ SendClose(c) \/ CloseAnswered(c)
             \/ Cleanup(c) \/ Answered(c)
      PROVE  UNCHANGED <<spawned, invited, members>>
  BY <1>6 DEF Lookup, CountRooms, SendJoin, Deliver, SendLeave, SendClose,
     CloseAnswered, Cleanup, Answered, dirVars, actorVars
<1>7. CASE UNCHANGED vars
  BY <1>1, <1>7 DEF vars, dirVars, actorVars
<1> QED BY <1>1, <1>2, <1>3, <1>4, <1>5, <1>6, <1>7 DEF Next, TaskStep

---------------------------------------------------------------------------
(* Privacy.                                                                *)

(* A step of one task that touches no room,                                *)
LEMMA PrivacyTask ==
  ASSUME PrivacyOK, NEW c \in Conns,
         \A d \in Conns \ {c} : pc'[d] = pc[d] /\ job'[d] = job[d],
         UNCHANGED <<spawned, nameOf, private, invited, members, meant>>,
         InviterOK(c)'
  PROVE  PrivacyOK'
<1>1. ASSUME NEW d \in Conns PROVE InviterOK(d)'
  <2>1. CASE d = c
    BY <2>1
  <2>2. CASE d # c
    BY <2>2 DEF PrivacyOK, InviterOK
  <2> QED BY <2>1, <2>2
<1>2. ASSUME NEW i \in Live' PROVE PrivateOK(i)'
  BY <1>2 DEF PrivacyOK, PrivateOK, Live
<1> QED BY <1>1, <1>2 DEF PrivacyOK

(* and goes nowhere near a join.                                           *)
LEMMA PrivacyElsewhere ==
  ASSUME PrivacyOK, NEW c \in Conns,
         \A d \in Conns \ {c} : pc'[d] = pc[d] /\ job'[d] = job[d],
         UNCHANGED <<spawned, nameOf, private, invited, members, meant>>,
         pc'[c] \notin {"lookup", "create", "insert", "send", "joining"}
  PROVE  PrivacyOK'
<1>1. InviterOK(c)'
  BY DEF InviterOK
<1> QED BY <1>1, PrivacyTask

LEMMA AskInvitePrivate ==
  ASSUME RoomInv, PrivacyOK, NEW c \in Conns, NEW u \in Users,
         AskInvite(c, u)
  PROVE  PrivacyOK'
<1> DEFINE n == FreshName
<1>1. n \in PrivateNames /\ meant[n] = {} /\ UserOf[c] \in Users /\ u # Nobody
  <2>1. \E m \in PrivateNames : meant[m] = {}
    BY DEF AskInvite
  <2>2. n \in PrivateNames /\ meant[n] = {}
    BY <2>1 DEF FreshName
  <2> QED BY <2>2, RoomConstants
<1> HIDE DEF n
<1>2. /\ TaskTypeOK /\ meant \in [PrivateNames -> SUBSET Users]
      /\ meant' = [meant EXCEPT ![n] = {u, UserOf[c]}]
      /\ UNCHANGED <<spawned, nameOf, private, invited, members>>
      /\ Work(c, "create", n, u)
  BY DEF AskInvite, RoomInv, RoomsTypeOK, ConnTypeOK, dirVars, actorVars, n
<1>3. /\ meant'[n] = {u, UserOf[c]}
      /\ \A m \in PrivateNames : m # n => meant'[m] = meant[m]
  BY <1>1, <1>2
<1>4. /\ pc'[c] = "create" /\ job'[c].room = n /\ job'[c].target = u
      /\ \A d \in Conns \ {c} : pc'[d] = pc[d] /\ job'[d] = job[d]
  BY <1>2 DEF Work, Goto, TaskTypeOK, NoJob
<1>5. ASSUME NEW i \in Live' PROVE PrivateOK(i)'
  <2>1. i \in Live /\ PrivateOK(i)
    BY <1>2, <1>5 DEF PrivacyOK, Live
  <2>2. nameOf[i] = n => invited[i] \subseteq meant[n] /\ members[i] = {}
    BY <1>1, <2>1 DEF PrivateOK
  <2> QED BY <1>1, <1>2, <1>3, <2>1, <2>2 DEF PrivateOK
<1>6. ASSUME NEW d \in Conns PROVE InviterOK(d)'
  <2>1. CASE d = c
    BY <1>1, <1>3, <1>4, <2>1 DEF InviterOK
  <2>2. CASE d # c
    <3>1. InviterOK(d) /\ pc'[d] = pc[d] /\ job'[d] = job[d]
      BY <1>4, <2>2 DEF PrivacyOK
    <3> QED BY <1>1, <1>3, <3>1 DEF InviterOK
  <2> QED BY <2>1, <2>2
<1> QED BY <1>5, <1>6 DEF PrivacyOK

(* A room of a private name admits those it was made for, and is not       *)
(* created by a join.                                                      *)
LEMMA LookupPrivate ==
  ASSUME RoomInv, PrivacyOK, NEW c \in Conns, Lookup(c)
  PROVE  PrivacyOK'
<1> DEFINE n == job[c].room
<1>1. /\ TaskTypeOK /\ pc[c] = "lookup" /\ job[c].target = Nobody
      /\ n \in Names
      /\ UNCHANGED <<spawned, nameOf, private, invited, members, meant>>
  BY DEF Lookup, RoomInv, RoomsTypeOK, TaskTypeOK, Jobs, PrivacyOK, InviterOK,
         dirVars, actorVars, connVars
<1>2. \A d \in Conns \ {c} : pc'[d] = pc[d] /\ job'[d] = job[d]
  BY <1>1 DEF Lookup, Return, Goto, TaskTypeOK
<1>3. CASE /\ dir[n] # NoRoom /\ Admits(dir[n], c)
           /\ Goto(c, "send") /\ job' = [job EXCEPT ![c].tx = dir[n]]
  <2>1. dir[n] \in Live /\ nameOf[dir[n]] = n /\ PrivateOK(dir[n])
    BY <1>1, <1>3 DEF RoomInv, DirOK, PrivacyOK
  <2>2. n \in PrivateNames => UserOf[c] \in meant[n]
    BY <1>3, <2>1 DEF PrivateOK, Admits
  <2>3. /\ pc'[c] = "send" /\ job'[c].room = n /\ job'[c].target = Nobody
    BY <1>1, <1>3 DEF Goto, TaskTypeOK, Jobs
  <2>4. InviterOK(c)'
    BY <1>1, <2>2, <2>3 DEF InviterOK
  <2> QED BY <1>1, <1>2, <2>4, PrivacyTask
<1>4. CASE MayCreate(c, n) /\ Goto(c, "create") /\ UNCHANGED job
  <2>1. pc'[c] = "create" /\ n \notin PrivateNames
    BY <1>1, <1>4 DEF MayCreate, Goto, TaskTypeOK
  <2>2. InviterOK(c)'
    BY <1>1, <1>4, <2>1 DEF InviterOK
  <2> QED BY <1>1, <1>2, <2>2, PrivacyTask
<1>5. CASE Return(c)
  <2>1. pc'[c] \in {"idle", "cleanup"}
    BY <1>1, <1>5 DEF Return, Goto, TaskTypeOK
  <2> QED BY <1>1, <1>2, <2>1, PrivacyElsewhere
<1> QED BY <1>3, <1>4, <1>5 DEF Lookup

LEMMA CountRoomsPrivate ==
  ASSUME RoomInv, PrivacyOK, NEW c \in Conns, CountRooms(c)
  PROVE  PrivacyOK'
<1>1. /\ TaskTypeOK /\ pc[c] = "create" /\ InviterOK(c)
      /\ UNCHANGED <<spawned, nameOf, private, invited, members, meant>>
  BY DEF CountRooms, RoomInv, RoomsTypeOK, PrivacyOK, dirVars, actorVars,
         connVars
<1>2. \A d \in Conns \ {c} : pc'[d] = pc[d] /\ job'[d] = job[d]
  BY <1>1 DEF CountRooms, Return, Goto, TaskTypeOK
<1>3. CASE Goto(c, "insert") /\ UNCHANGED job
  <2>1. InviterOK(c)'
    BY <1>1, <1>3 DEF Goto, TaskTypeOK, InviterOK
  <2> QED BY <1>1, <1>2, <2>1, PrivacyTask
<1>4. CASE Return(c)
  <2>1. pc'[c] \in {"idle", "cleanup"}
    BY <1>1, <1>4 DEF Return, Goto, TaskTypeOK
  <2> QED BY <1>1, <1>2, <2>1, PrivacyElsewhere
<1> QED BY <1>3, <1>4 DEF CountRooms

LEMMA SendJoinPrivate ==
  ASSUME RoomInv, PrivacyOK, NEW c \in Conns, SendJoin(c)
  PROVE  PrivacyOK'
<1>1. /\ TaskTypeOK /\ pc[c] = "send" /\ InviterOK(c) /\ UNCHANGED job
      /\ UNCHANGED <<spawned, nameOf, private, invited, members, meant>>
      /\ Goto(c, "joining")
  BY DEF SendJoin, RoomInv, RoomsTypeOK, PrivacyOK, dirVars, actorVars,
         connVars
<1>2. pc'[c] = "joining" /\ \A d \in Conns \ {c} : pc'[d] = pc[d]
  BY <1>1 DEF Goto, TaskTypeOK
<1>3. InviterOK(c)'
  BY <1>1, <1>2 DEF InviterOK
<1> QED BY <1>1, <1>2, <1>3, PrivacyTask

(* The inviter's room is private from the start.                           *)
LEMMA InsertPrivate ==
  ASSUME RoomInv, PrivacyOK, Unborn, NEW c \in Conns, Insert(c)
  PROVE  PrivacyOK'
<1> DEFINE n == job[c].room
           u == job[c].target
           i == job'[c].tx
<1>1. /\ OnlyOf(c) /\ pc[c] = "insert" /\ pc'[c] = "send"
      /\ job'[c].room = n /\ job'[c].target = u
      /\ UNCHANGED <<members, meant>> /\ InviterOK(c) /\ n \in Names
      /\ Live \subseteq RoomIds /\ spawned \in Nat
      /\ nameOf \in [RoomIds -> Names]
      /\ invited \in [RoomIds -> SUBSET Users]
      /\ private \in [RoomIds -> BOOLEAN]
  BY Inserted, LiveRooms DEF PrivacyOK, RoomInv, RoomsTypeOK, TaskTypeOK,
     Jobs, ActorTypeOK, DirTypeOK
<1>2. invited' = IF u = Nobody THEN invited
                 ELSE [invited EXCEPT ![i] = @ \cup {UserOf[c]}]
  BY Inserted
<1>3. \/ /\ UNCHANGED <<spawned, nameOf, private>>
         /\ i = dir[n] /\ i \in Live /\ nameOf[i] = n
      \/ /\ i = spawned + 1 /\ spawned' = i /\ i \in RoomIds
         /\ nameOf' = [nameOf EXCEPT ![i] = n]
         /\ private' = [private EXCEPT ![i] = u # Nobody]
  <2>1. dir[n] \in Live => dir[n] # NoRoom
    BY <1>1 DEF Live, NoRoom
  <2>2. dir[n] # NoRoom => nameOf[dir[n]] = n
    BY <1>1 DEF RoomInv, DirOK
  <2> QED BY <2>1, <2>2, Inserted
<1> HIDE DEF n, u, i
<1>4. /\ u # Nobody => n \in PrivateNames /\ UserOf[c] \in meant[n]
      /\ n \in PrivateNames => u # Nobody
  BY <1>1 DEF InviterOK, n, u
<1>5. ASSUME NEW d \in Conns PROVE InviterOK(d)'
  <2>1. CASE d = c
    BY <1>1, <1>4, <2>1 DEF InviterOK, n, u
  <2>2. CASE d # c
    BY <1>1, <2>2 DEF InviterOK, OnlyOf, PrivacyOK
  <2> QED BY <2>1, <2>2
<1>6. ASSUME NEW j \in Live' PROVE PrivateOK(j)'
  <2>1. CASE j \in Live /\ nameOf'[j] = nameOf[j] /\ private'[j] = private[j]
    <3>1. PrivateOK(j) /\ j \in RoomIds
      BY <1>1, <2>1 DEF PrivacyOK
    <3>2. invited'[j] = invited[j] \/
            (j = i /\ u # Nobody /\ invited'[j] = invited[j] \cup {UserOf[c]})
      BY <1>1, <1>2, <3>1
    <3>3. j = i => nameOf[j] = n
      BY <1>1, <1>3, <2>1 DEF Live
    <3> QED BY <1>1, <1>4, <2>1, <3>1, <3>2, <3>3 DEF PrivateOK
  <2>2. CASE j = i /\ i = spawned + 1 /\ i \in RoomIds
             /\ nameOf' = [nameOf EXCEPT ![i] = n]
             /\ private' = [private EXCEPT ![i] = u # Nobody]
    <3>1. members[i] = {} /\ invited[i] = {}
      BY <1>1, <2>2 DEF Unborn, Live
    <3>2. nameOf'[i] = n /\ private'[i] = (u # Nobody)
      BY <1>1, <2>2
    <3>3. invited'[i] \subseteq {UserOf[c]} /\ (u = Nobody => invited'[i] = {})
      BY <1>1, <1>2, <2>2, <3>1
    <3>4. n \in PrivateNames => private'[i]
      BY <1>4, <3>2
    <3> QED BY <1>1, <1>4, <2>2, <3>1, <3>2, <3>3, <3>4 DEF PrivateOK
  <2>3. \/ j \in Live /\ nameOf'[j] = nameOf[j] /\ private'[j] = private[j]
        \/ j = i /\ i = spawned + 1 /\ spawned' = i
    BY <1>1, <1>3, <1>6 DEF Live
  <2> QED BY <1>1, <1>3, <2>1, <2>2, <2>3 DEF Live
<1> QED BY <1>5, <1>6 DEF PrivacyOK

(* Whom the room is for is invited to that room.                           *)
LEMMA JoinAnsweredPrivate ==
  ASSUME RoomInv, PrivacyOK, NEW c \in Conns, JoinAnswered(c)
  PROVE  PrivacyOK'
<1> DEFINE n == job[c].room
           u == job[c].target
<1>1. /\ TaskTypeOK /\ pc[c] = "joining" /\ InviterOK(c) /\ n \in Names
      /\ UNCHANGED <<spawned, nameOf, private, members, meant>>
      /\ invited \in [RoomIds -> SUBSET Users] /\ Live \subseteq RoomIds
      /\ dir[n] # NoRoom => dir[n] \in Live /\ nameOf[dir[n]] = n
  BY LiveRooms
     DEF JoinAnswered, Receive, RoomInv, RoomsTypeOK, TaskTypeOK, Jobs,
         DirTypeOK, PrivacyOK, DirOK, actorVars
<1>2. /\ \A d \in Conns \ {c} : pc'[d] = pc[d] /\ job'[d] = job[d]
      /\ \/ pc'[c] \in {"idle", "cleanup", "deliver"}
         \/ /\ pc'[c] = IF u = Nobody THEN "lookup" ELSE "create"
            /\ job'[c].room = n /\ job'[c].target = u
  <2>1. CASE Return(c)
    BY <1>1, <2>1 DEF Return, Goto, TaskTypeOK
  <2>2. CASE Goto(c, "deliver") /\ UNCHANGED job
    BY <1>1, <2>2 DEF Goto, TaskTypeOK
  <2>3. CASE /\ job' = [job EXCEPT ![c].tries = job[c].tries + 1,
                                   ![c].tx = NoRoom]
             /\ Goto(c, IF u = Nobody THEN "lookup" ELSE "create")
    BY <1>1, <2>3 DEF Goto, TaskTypeOK, Jobs
  <2> QED BY <2>1, <2>2, <2>3 DEF JoinAnswered, Retry
<1>3. \/ UNCHANGED invited
      \/ /\ u # Nobody /\ dir[n] # NoRoom
         /\ invited' = [invited EXCEPT ![dir[n]] = @ \cup {u}]
  BY DEF JoinAnswered
<1> HIDE DEF n, u
<1>4. /\ u # Nobody => n \in PrivateNames /\ u \in meant[n]
                       /\ UserOf[c] \in meant[n]
  BY <1>1 DEF InviterOK, n, u
<1>5. ASSUME NEW d \in Conns PROVE InviterOK(d)'
  <2>1. CASE d = c
    BY <1>1, <1>2, <1>4, <2>1 DEF InviterOK
  <2>2. CASE d # c
    BY <1>1, <1>2, <2>2 DEF InviterOK, PrivacyOK
  <2> QED BY <2>1, <2>2
<1>6. ASSUME NEW j \in Live' PROVE PrivateOK(j)'
  <2>1. PrivateOK(j) /\ j \in RoomIds
    BY <1>1, <1>6 DEF PrivacyOK, Live
  <2>2. invited'[j] = invited[j] \/
          (j = dir[n] /\ nameOf[j] = n /\ u # Nobody
           /\ invited'[j] = invited[j] \cup {u})
    BY <1>1, <1>3, <2>1
  <2> QED BY <1>1, <1>4, <2>1, <2>2 DEF PrivateOK
<1> QED BY <1>5, <1>6 DEF PrivacyOK

(* Whoever is let in was about to join, and so was allowed to.             *)
LEMMA HandlePrivate ==
  ASSUME RoomInv, PrivacyOK, NEW i \in RoomIds, ActorStep(i)
  PROVE  PrivacyOK'
<1>1. /\ UNCHANGED <<spawned, nameOf, private, invited, meant, pc, job>>
      /\ i \in Live
  BY DEF ActorStep, HandleJoin, HandleLeave, HandleSay, HandleTopic,
     HandleFlags, HandleClose, dirVars, connVars, Due
<1>2. /\ \A j \in RoomIds : j # i => members'[j] = members[j]
      /\ \A c \in members'[i] :
           \/ c \in members[i]
           \/ c = Sender(i) /\ pc[c] = "joining" /\ job[c].tx = i
              /\ c \in Conns
  <2>1. CASE HandleJoin(i)
    <3>1. /\ Sender(i) \in Conns /\ members[i] \in SUBSET Conns
          /\ AskedOK(Head(inbox[i]), i) /\ Head(inbox[i]).op = "join"
      BY <2>1, AtHand DEF HandleJoin
    <3>2. pc[Sender(i)] = "joining" /\ job[Sender(i)].tx = i
      BY <3>1 DEF AskedOK, AskOps, WaitsAt, Sender
    <3> QED BY <2>1, <3>1, <3>2, Pruned DEF HandleJoin
  <2>2. CASE HandleLeave(i)
    BY <2>2, HeadIs, Pruned DEF HandleLeave
  <2>3. CASE HandleSay(i)
    BY <2>3, HeadIs, Pruned DEF HandleSay
  <2>4. CASE HandleTopic(i)
    BY <2>4, HeadIs, Pruned DEF HandleTopic
  <2>5. CASE HandleFlags(i)
    BY <2>5, HeadIs, Pruned DEF HandleFlags
  <2>6. CASE HandleClose(i)
    BY <2>6 DEF HandleClose
  <2> QED BY <2>1, <2>2, <2>3, <2>4, <2>5, <2>6 DEF ActorStep
<1>3. ASSUME NEW c \in Conns PROVE InviterOK(c)'
  BY <1>1 DEF InviterOK, PrivacyOK
<1>4. ASSUME NEW j \in Live' PROVE PrivateOK(j)'
  <2>1. PrivateOK(j) /\ j \in RoomIds
    BY <1>1, <1>4, LiveRooms DEF PrivacyOK, Live
  <2>2. CASE j # i
    BY <1>1, <1>2, <2>1, <2>2 DEF PrivateOK
  <2>3. CASE j = i
    <3>1. ASSUME NEW c \in Conns, pc[c] = "joining", job[c].tx = i,
                 nameOf[i] \in PrivateNames
          PROVE  UserOf[c] \in meant[nameOf[i]]
      <4>1. nameOf[i] = job[c].room /\ InviterOK(c)
        BY <3>1 DEF RoomInv, TxOf, PrivacyOK
      <4> QED BY <3>1, <4>1 DEF InviterOK
    <3> QED BY <1>1, <1>2, <2>1, <2>3, <3>1 DEF PrivateOK
  <2> QED BY <2>2, <2>3
<1> QED BY <1>3, <1>4 DEF PrivacyOK

(* No other step comes near a join,                                        *)
LEMMA OffTheJoin ==
  ASSUME RoomInv, NEW c \in Conns,
         \/ \E n \in Names : AskLeave(c, n) \/ Say(c, n) \/ SetTopic(c, n)
         \/ \E n \in Names, f \in Flags : SetFlags(c, n, f)
         \/ Close(c) \/ Deliver(c) \/ SendLeave(c) \/ SendClose(c)
         \/ CloseAnswered(c) \/ Cleanup(c) \/ Answered(c)
  PROVE  /\ \A d \in Conns \ {c} : pc'[d] = pc[d] /\ job'[d] = job[d]
         /\ pc'[c] \notin {"lookup", "create", "insert", "send", "joining"}
<1>1. TaskTypeOK
  BY DEF RoomInv, RoomsTypeOK
<1> DEFINE Off == /\ \A d \in Conns \ {c} : pc'[d] = pc[d] /\ job'[d] = job[d]
                  /\ pc'[c] \notin {"lookup", "create", "insert", "send",
                                    "joining"}
<1>2. Return(c) => Off
  BY <1>1 DEF Return, Goto, TaskTypeOK
<1>3. ASSUME NEW n \in Names, StartLeave(c, n) PROVE Off
  <2>1. CASE Goto(c, "sendLeave") /\
             job' = [job EXCEPT ![c] = [NoJob EXCEPT !.room = n, !.tx = dir[n]]]
    BY <1>1, <2>1 DEF Goto, TaskTypeOK
  <2> HIDE DEF Off
  <2> QED BY <1>2, <1>3, <2>1 DEF StartLeave
<1>4. ASSUME NEW x \in {"sendClose", "closing", "cleanup", "done", "idle",
                        "waiting"}, Goto(c, x), UNCHANGED job
      PROVE  Off
  BY <1>1, <1>4 DEF Goto, TaskTypeOK
<1>5. pc[c] = "idle" /\ UNCHANGED <<pc, job>> => Off
  OBVIOUS
<1> HIDE DEF Off
<1>6. job[c].room \in Names
  BY <1>1 DEF TaskTypeOK, Jobs
<1>7. Off
  <2>1. ASSUME NEW n \in Names, AskLeave(c, n) \/ Say(c, n) \/ SetTopic(c, n)
        PROVE  Off
    BY <1>3, <1>4, <1>5, <2>1 DEF AskLeave, Say, SetTopic, Ask
  <2>2. ASSUME NEW n \in Names, NEW f \in Flags, SetFlags(c, n, f) PROVE Off
    BY <1>4, <2>2 DEF SetFlags
  <2>3. CASE Close(c) \/ Deliver(c) \/ Cleanup(c)
    BY <1>2, <1>3, <1>4, <1>6, <2>3 DEF Close, Deliver, Cleanup
  <2>4. CASE SendLeave(c) \/ SendClose(c) \/ CloseAnswered(c) \/ Answered(c)
    BY <1>2, <1>4, <2>4 DEF SendLeave, SendClose, CloseAnswered, Answered
  <2> QED BY <2>1, <2>2, <2>3, <2>4
<1> QED BY <1>7 DEF Off

(* nor touches who may be in a room.                                       *)
LEMMA OthersPrivate ==
  ASSUME RoomInv, PrivacyOK, NEW c \in Conns,
         \/ \E n \in Names : AskLeave(c, n) \/ Say(c, n) \/ SetTopic(c, n)
         \/ \E n \in Names, f \in Flags : SetFlags(c, n, f)
         \/ Close(c) \/ Deliver(c) \/ SendLeave(c) \/ SendClose(c)
         \/ CloseAnswered(c) \/ Cleanup(c) \/ Answered(c)
  PROVE  PrivacyOK'
<1>1. UNCHANGED <<spawned, nameOf, private, invited, members, meant>>
  BY DEF AskLeave, Say, SetTopic, SetFlags, Close, Deliver, SendLeave,
     SendClose, CloseAnswered, Cleanup, Answered, dirVars, actorVars, connVars
<1> QED BY <1>1, OffTheJoin, PrivacyElsewhere

LEMMA PrivacyKept ==
  ASSUME RoomInv, PrivacyOK, Unborn, [Next]_vars
  PROVE  PrivacyOK'
<1>1. CASE UNCHANGED vars
  <2>1. UNCHANGED <<spawned, nameOf, private, invited, members, meant, pc, job>>
    BY <1>1 DEF vars, dirVars, actorVars, connVars
  <2>2. \A i : PrivateOK(i)' <=> PrivateOK(i)
    BY <2>1 DEF PrivateOK
  <2>3. \A c : InviterOK(c)' <=> InviterOK(c)
    BY <2>1 DEF InviterOK
  <2> QED BY <2>1, <2>2, <2>3 DEF PrivacyOK, Live
<1>2. ASSUME NEW c \in Conns, NEW n \in Names, AskJoin(c, n)
      PROVE  PrivacyOK'
  <2>1. /\ pc'[c] = "lookup" /\ job'[c].target = Nobody
        /\ \A d \in Conns \ {c} : pc'[d] = pc[d] /\ job'[d] = job[d]
    BY <1>2 DEF AskJoin, Work, Goto, RoomInv, RoomsTypeOK, TaskTypeOK, NoJob
  <2>2. InviterOK(c)'
    BY <2>1 DEF InviterOK
  <2>3. UNCHANGED <<spawned, nameOf, private, invited, members, meant>>
    BY <1>2 DEF AskJoin, dirVars, actorVars
  <2> QED BY <2>1, <2>2, <2>3, PrivacyTask
<1>3. ASSUME NEW c \in Conns, ClientStep(c) PROVE PrivacyOK'
  BY <1>2, <1>3, AskInvitePrivate, OthersPrivate DEF ClientStep
<1>4. ASSUME NEW c \in Conns, TaskStep(c) PROVE PrivacyOK'
  BY <1>4, LookupPrivate, CountRoomsPrivate, InsertPrivate, SendJoinPrivate,
     JoinAnsweredPrivate, OthersPrivate DEF TaskStep
<1> QED BY <1>1, <1>3, <1>4, HandlePrivate DEF Next

---------------------------------------------------------------------------
(* How many rooms there are.                                               *)

(* The rooms that are listed or about to be.                               *)
Wanted == Listed \cup {job[c].room : c \in {d \in Conns : pc[d] = "insert"}}

(* The names that some connections work on are no more than those are.     *)
LEMMA UnionBounded ==
  ASSUME NEW L, IsFiniteSet(L), NEW jobs, NEW opening \in SUBSET Conns
  PROVE  LET W == L \cup {jobs[c].room : c \in opening} IN
         /\ IsFiniteSet(W) /\ Cardinality(W) \in Nat /\ Cardinality(L) \in Nat
         /\ Cardinality(Conns) \in Nat
         /\ Cardinality(W) <= Cardinality(L) + Cardinality(Conns)
<1> DEFINE S == {jobs[c].room : c \in opening}
           W == L \cup S
<1>1. IsFiniteSet(Conns)
  BY RoomConstants
<1>2. IsFiniteSet(opening) /\ Cardinality(opening) <= Cardinality(Conns)
  BY <1>1, FS_Subset
<1>3. IsFiniteSet(S) /\ Cardinality(S) <= Cardinality(opening)
  <2> DEFINE f == [c \in opening |-> jobs[c].room]
  <2>1. f \in Surjection(opening, S)
    <3>1. f \in [opening -> S] /\ \A t \in S : \E c \in opening : f[c] = t
      OBVIOUS
    <3> QED BY <3>1, Fun_IsSurj
  <2> HIDE DEF f, S
  <2> QED BY <1>2, <2>1, FS_Surjection
<1> HIDE DEF S
<1>4. {Cardinality(opening), Cardinality(S), Cardinality(L),
       Cardinality(Conns)} \subseteq Nat
  BY <1>1, <1>2, <1>3, FS_CardinalityType
<1>5. /\ IsFiniteSet(W) /\ IsFiniteSet(L \cap S)
      /\ Cardinality(W) = Cardinality(L) + Cardinality(S) - Cardinality(L \cap S)
  BY <1>3, FS_Union, FS_Intersection
<1>6. Cardinality(L \cap S) \in Nat /\ Cardinality(W) \in Nat
  BY <1>5, FS_CardinalityType
<1>7. Cardinality(W) <= Cardinality(L) + Cardinality(Conns)
  BY <1>2, <1>3, <1>4, <1>5, <1>6
<1> QED BY <1>4, <1>5, <1>6, <1>7 DEF S

LEMMA WantedFinite ==
  ASSUME IsFiniteSet(Listed)
  PROVE  /\ IsFiniteSet(Wanted)
         /\ Cardinality(Wanted) \in Nat /\ Cardinality(Conns) \in Nat
  BY UnionBounded DEF Wanted

(* A step that wants no new room,                                          *)
LEMMA NotMore ==
  ASSUME BoundOK, Wanted' \subseteq Wanted
  PROVE  BoundOK'
<1>1. /\ IsFiniteSet(Wanted)
      /\ Cardinality(Wanted) \in Nat /\ Cardinality(Conns) \in Nat
  BY WantedFinite DEF BoundOK
<1>2. /\ IsFiniteSet(Wanted') /\ Cardinality(Wanted') <= Cardinality(Wanted)
      /\ Cardinality(Wanted') \in Nat
  BY <1>1, FS_Subset, FS_CardinalityType
<1>3. IsFiniteSet(Listed')
  <2>1. Listed' \subseteq Wanted'
    BY DEF Wanted
  <2> QED BY <1>2, <2>1, FS_Subset
<1>4. Cardinality(Wanted) <= MaxRooms + Cardinality(Conns) - 1
  BY DEF BoundOK, RoomsBounded, Wanted
<1>5. Cardinality(Wanted') <= MaxRooms + Cardinality(Conns) - 1
  BY <1>1, <1>2, <1>4, RoomConstants
<1> QED BY <1>3, <1>5 DEF BoundOK, RoomsBounded, Wanted

(* like one that starts no creation and lists nothing.                     *)
LEMMA NoneOpened ==
  ASSUME BoundOK, Listed' \subseteq Listed,
         \A d \in Conns : pc'[d] = "insert" =>
           pc[d] = "insert" /\ job'[d].room = job[d].room
  PROVE  BoundOK'
<1>1. Wanted' \subseteq Wanted
  BY DEF Wanted
<1> QED BY <1>1, NotMore

(* Only one who found fewer than MAX_ROOMS rooms wants another.            *)
LEMMA CountRoomsBounded ==
  ASSUME RoomInv, BoundOK, NEW c \in Conns, CountRooms(c)
  PROVE  BoundOK'
<1> DEFINE n == job[c].room
<1>1. TaskTypeOK /\ n \in Names /\ Listed' = Listed
  BY DEF RoomInv, RoomsTypeOK, TaskTypeOK, Jobs, CountRooms, dirVars, Listed
<1>2. CASE Return(c)
  <2>1. \A d \in Conns : pc'[d] = "insert" =>
          pc[d] = "insert" /\ job'[d].room = job[d].room
    BY <1>1, <1>2 DEF Return, Goto, TaskTypeOK
  <2> QED BY <1>1, <2>1, NoneOpened
<1>3. CASE Goto(c, "insert") /\ UNCHANGED job /\ ~Crowded(n)
  <2>1. /\ pc'[c] = "insert" /\ \A d \in Conns \ {c} : pc'[d] = pc[d]
    BY <1>1, <1>3 DEF Goto, TaskTypeOK
  <2>2. CASE dir[n] # NoRoom
    <3>1. Wanted' \subseteq Wanted
      BY <1>1, <1>3, <2>1, <2>2 DEF Wanted, Listed
    <3> QED BY <3>1, NotMore
  <2>3. CASE dir[n] = NoRoom /\ ~(Cardinality(Listed) >= MaxRooms)
    <3>1. IsFiniteSet(Listed')
      BY <1>1 DEF BoundOK
    <3>2. /\ Cardinality(Wanted') <= Cardinality(Listed') + Cardinality(Conns)
          /\ Cardinality(Wanted') \in Nat /\ Cardinality(Listed') \in Nat
          /\ Cardinality(Conns) \in Nat
      BY <3>1, UnionBounded DEF Wanted
    <3>3. Cardinality(Wanted') <= MaxRooms + Cardinality(Conns) - 1
      BY <1>1, <2>3, <3>2, RoomConstants
    <3> QED BY <3>1, <3>3 DEF BoundOK, RoomsBounded, Wanted
  <2> QED BY <1>3, <2>2, <2>3 DEF Crowded
<1> QED BY <1>2, <1>3 DEF CountRooms

LEMMA InsertBounded ==
  ASSUME RoomInv, BoundOK, NEW c \in Conns, Insert(c)
  PROVE  BoundOK'
<1> DEFINE n == job[c].room
<1>1. /\ TaskTypeOK /\ dir \in [Names -> Handles] /\ n \in Names
      /\ pc[c] = "insert" /\ Goto(c, "send")
  BY DEF RoomInv, RoomsTypeOK, TaskTypeOK, Jobs, DirTypeOK, Insert
<1>2. \A m \in Names \ {n} : dir'[m] = dir[m]
  BY <1>1 DEF Insert
<1>3. /\ pc'[c] = "send" /\ \A d \in Conns \ {c} : pc'[d] = pc[d]
  BY <1>1 DEF Goto, TaskTypeOK
<1>4. \A d \in Conns \ {c} : job'[d] = job[d]
  BY <1>1 DEF Insert, TaskTypeOK
<1>5. Wanted' \subseteq Wanted
  BY <1>1, <1>2, <1>3, <1>4 DEF Wanted, Listed
<1> QED BY <1>5, NotMore

(* The rest of a join wants no more, nor does the rest of the requests,    *)
(* and forgetting a room only helps.                                       *)
LEMMA BoundKept ==
  ASSUME RoomInv, BoundOK, [Next]_vars
  PROVE  BoundOK'
<1> DEFINE Idle(c) == /\ \A d \in Conns \ {c} : pc'[d] = pc[d] /\ job'[d] = job[d]
                      /\ pc'[c] # "insert"
<1>1. TaskTypeOK /\ dir \in [Names -> Handles]
  BY DEF RoomInv, RoomsTypeOK, DirTypeOK
<1>2. ASSUME NEW c \in Conns, Listed' \subseteq Listed, Idle(c) PROVE BoundOK'
  BY <1>2, NoneOpened
<1>3. UNCHANGED dir => Listed' \subseteq Listed
  BY DEF Listed
<1>4. ASSUME NEW n, NEW i, Forget(n, i) PROVE Listed' \subseteq Listed
  BY <1>1, <1>4 DEF Forget, Listed, NoRoom
<1>5. ASSUME NEW c \in Conns,
             \/ \E n \in Names : AskLeave(c, n) \/ Say(c, n) \/ SetTopic(c, n)
             \/ \E n \in Names, f \in Flags : SetFlags(c, n, f)
             \/ Close(c) \/ Deliver(c) \/ SendLeave(c) \/ SendClose(c)
             \/ CloseAnswered(c) \/ Cleanup(c) \/ Answered(c)
      PROVE  BoundOK'
  <2>1. Idle(c)
    BY <1>5, OffTheJoin
  <2>2. Listed' \subseteq Listed
    <3>1. CASE CloseAnswered(c)
      BY <1>3, <1>4, <3>1 DEF CloseAnswered
    <3>2. CASE UNCHANGED dir
      BY <1>3, <3>2
    <3> QED BY <1>5, <3>1, <3>2
        DEF AskLeave, Say, SetTopic, SetFlags, Close, Deliver, SendLeave,
            SendClose, Cleanup, Answered, dirVars
  <2> QED BY <1>2, <2>1, <2>2
<1>6. ASSUME NEW c \in Conns, NEW n, NEW u, NEW x \in {"lookup", "create"},
             Work(c, x, n, u), UNCHANGED dir
      PROVE  BoundOK'
  <2>1. Idle(c)
    BY <1>1, <1>6 DEF Work, Goto, TaskTypeOK
  <2> QED BY <1>2, <1>3, <1>6, <2>1
<1>7. ASSUME NEW c \in Conns, ClientStep(c) PROVE BoundOK'
  <2>1. ASSUME NEW n \in Names, AskJoin(c, n) PROVE BoundOK'
    BY <1>6, <2>1 DEF AskJoin, dirVars
  <2>2. ASSUME NEW u \in Users, AskInvite(c, u) PROVE BoundOK'
    BY <1>6, <2>2 DEF AskInvite, dirVars
  <2> QED BY <1>5, <1>7, <2>1, <2>2 DEF ClientStep
<1>8. ASSUME NEW c \in Conns, Lookup(c) \/ SendJoin(c) PROVE BoundOK'
  <2>1. Idle(c)
    BY <1>1, <1>8 DEF Lookup, SendJoin, Return, Goto, TaskTypeOK
  <2>2. UNCHANGED dir
    BY <1>8 DEF Lookup, SendJoin, dirVars
  <2> QED BY <1>2, <1>3, <2>1, <2>2
<1>9. ASSUME NEW c \in Conns, JoinAnswered(c) PROVE BoundOK'
  <2>1. Return(c) => Idle(c)
    BY <1>1 DEF Return, Goto, TaskTypeOK
  <2>2. Goto(c, "deliver") /\ UNCHANGED job => Idle(c)
    BY <1>1 DEF Goto, TaskTypeOK
  <2>3. Retry(c) => Idle(c)
    BY <1>1, <2>1 DEF Retry, Goto, TaskTypeOK
  <2>4. Idle(c)
    BY <1>9, <2>1, <2>2, <2>3 DEF JoinAnswered
  <2>5. Listed' \subseteq Listed
    BY <1>3, <1>4, <1>9 DEF JoinAnswered, Retry
  <2> QED BY <1>2, <2>4, <2>5
<1>10. ASSUME NEW c \in Conns, TaskStep(c) PROVE BoundOK'
  BY <1>5, <1>8, <1>9, <1>10, CountRoomsBounded, InsertBounded DEF TaskStep
<1>11. CASE UNCHANGED <<dir, pc, job>>
  BY <1>11, <1>3, NoneOpened
<1>12. ASSUME NEW i \in RoomIds, ActorStep(i) PROVE UNCHANGED <<dir, pc, job>>
  BY <1>12 DEF ActorStep, HandleJoin, HandleLeave, HandleSay, HandleTopic,
     HandleFlags, HandleClose, dirVars
<1>13. UNCHANGED vars => UNCHANGED <<dir, pc, job>>
  BY DEF vars, dirVars
<1> QED BY <1>7, <1>10, <1>11, <1>12, <1>13 DEF Next

---------------------------------------------------------------------------
(* The invariant holds at the start and is kept.                           *)
LEMMA InitPromises == Init => PromiseInv
<1> SUFFICES ASSUME Init PROVE PromiseInv
  OBVIOUS
<1>1. \A i \in RoomIds : inbox[i] = <<>> /\ members[i] = {} /\ invited[i] = {}
  BY DEF Init
<1>2. /\ \A c \in Conns : pc[c] = "idle" /\ reply[c] = "none"
      /\ \A c \in Conns, n \in Names : joined[c][n] = NoRoom
      /\ ending = {} /\ gone = {} /\ spawned = 1 /\ nameOf[1] = Lobby
      /\ Lobby \notin PrivateNames /\ Live = {1} /\ 1 \in RoomIds
  BY RoomConstants, Bounds DEF Init, Live, RoomIds
<1>3. PresenceOK
  BY <1>1, <1>2 DEF PresenceOK, EndingOK, LeaveFirst, KeptOK, ToldOK, Accounted
<1>4. Unborn /\ PrivacyOK
  BY <1>1, <1>2 DEF Unborn, PrivacyOK, PrivateOK, InviterOK
<1>5. BoundOK
  <2>1. Listed = {Lobby} /\ Wanted = Listed
    BY <1>2, RoomConstants DEF Init, Listed, Wanted, NoRoom
  <2>2. IsFiniteSet(Listed) /\ Cardinality(Wanted) = 1
    BY <2>1, FS_Singleton
  <2>3. Cardinality(Conns) \in Nat \ {0}
    BY RoomConstants, FS_EmptySet, FS_CardinalityType
  <2>4. Cardinality(Wanted) <= MaxRooms + Cardinality(Conns) - 1
    BY <2>2, <2>3, RoomConstants
  <2> QED BY <2>2, <2>4 DEF BoundOK, RoomsBounded, Wanted
<1> QED BY <1>3, <1>4, <1>5 DEF PromiseInv

LEMMA NextPromises ==
  RoomInv /\ PromiseInv /\ [Next]_vars => PromiseInv'
  BY PresenceKept, UnbornKept, PrivacyKept, BoundKept DEF PromiseInv

(* Connections and rooms agree on who is in which room, whatever joins,    *)
(* leaves, evictions, panics and late answers get in between, and there    *)
(* are fewer than MAX_ROOMS rooms plus one per connection                  *)
(* (RoomManager::create counts before it locks the entry).                 *)
THEOREM RoomsAgree == Spec => []RoomsExact
<1>1. RoomInv /\ PromiseInv => RoomsExact
  <2> SUFFICES ASSUME RoomInv, PromiseInv PROVE RoomsExact
    OBVIOUS
  <2>1. Live \subseteq RoomIds
    BY LiveRooms
  <2>2. JoinedPresent
    <3> SUFFICES ASSUME NEW c \in Conns \ gone, NEW n \in RoomsOf(c)
                 PROVE  joined[c][n] = dir[n] /\ c \in members[dir[n]]
      BY DEF JoinedPresent
    <3> DEFINE i == joined[c][n]
    <3>1. i \in Live /\ nameOf[i] = n /\ c \in members[i]
      BY DEF RoomsOf, PromiseInv, PresenceOK, KeptOK
    <3>2. dir[n] = i
      BY <2>1, <3>1 DEF RoomInv, MembersOK, DirOK
    <3> QED BY <3>1, <3>2
  <2>3. NoGhosts
    <3> SUFFICES ASSUME NEW i \in Live, NEW c \in members[i]
                 PROVE  \/ joined[c][nameOf[i]] = i
                        \/ job[c].room = nameOf[i]
                           /\ pc[c] \in {"joining", "sendLeave"}
                        \/ LeaveIn(c, i)
      BY DEF NoGhosts, LeaveIn
    <3>1. c \in Conns
      BY <2>1 DEF RoomInv, RoomsTypeOK, ActorTypeOK
    <3>2. Accounted(c, i) /\ TxOf(c)
      BY <2>1, <3>1 DEF PromiseInv, PresenceOK, RoomInv
    <3> QED BY <3>2 DEF Accounted, TxOf
  <2> QED BY <2>2, <2>3 DEF RoomsExact, PromiseInv, BoundOK
<1> QED BY <1>1, InitInv, NextInv, InitPromises, NextPromises, PTL DEF Spec

(* A private room never has a member other than those it was made for,     *)
(* also after an eviction: only an inviter creates a room under a private  *)
(* name, and it is private from the start.                                 *)
THEOREM PrivateStaysPrivate == Spec => []InvitedOnly
<1>1. PromiseInv => InvitedOnly
  BY DEF PromiseInv, PrivacyOK, PrivateOK, InvitedOnly
<1> QED BY <1>1, InitInv, NextInv, InitPromises, NextPromises, PTL DEF Spec

---------------------------------------------------------------------------
(* Rooms implements Gatherings.                                            *)

(* Who hears what is said under a name.                                    *)
Heard(n) == IF dir[n] = NoRoom THEN {} ELSE members[dir[n]]

(* The refinement mapping.                                                 *)
PresentMap == [n \in Names |-> Heard(n)]
InsideMap == [c \in Conns |-> RoomsOf(c)]

(* A room that has somebody in it is the one under its name.               *)
LEMMA ListedRoom ==
  ASSUME RoomInv, NEW i \in Live, members[i] # {}
  PROVE  ~closed[i] /\ dir[nameOf[i]] = i /\ i # NoRoom
  BY LiveRooms DEF RoomInv, MembersOK, DirOK, Live, NoRoom

(* A step that neither joins nor leaves, and changes nothing anybody hears.*)
LEMMA Stutter ==
  ASSUME \A n \in Names : Heard(n)' = Heard(n), UNCHANGED <<joined, gone>>
  PROVE  UNCHANGED <<PresentMap, InsideMap, gone>>
  BY DEF PresentMap, InsideMap, RoomsOf

(* Forgetting a closed room and listing a new one is nothing to hear.      *)
LEMMA ForgetUnheard ==
  ASSUME RoomInv, NEW n, NEW i \in Live, closed[i], Forget(n, i),
         UNCHANGED members, NEW m \in Names
  PROVE  Heard(m)' = Heard(m)
<1>1. members[i] = {} /\ dir \in [Names -> Handles]
  BY LiveRooms DEF RoomInv, MembersOK, RoomsTypeOK, DirTypeOK
<1>2. dir'[m] = dir[m] \/ (dir'[m] = NoRoom /\ dir[m] = i)
  BY <1>1 DEF Forget
<1> QED BY <1>1, <1>2 DEF Heard

LEMMA InsertUnheard ==
  ASSUME RoomInv, Unborn, NEW c \in Conns, Insert(c), NEW m \in Names
  PROVE  Heard(m)' = Heard(m)
<1>1. /\ UNCHANGED members /\ dir \in [Names -> Handles] /\ spawned \in Nat
      /\ \/ dir' = dir
         \/ /\ spawned + 1 \in RoomIds /\ dir[job[c].room] = NoRoom
            /\ dir' = [dir EXCEPT ![job[c].room] = spawned + 1]
  BY Inserted, LiveRooms DEF RoomInv, RoomsTypeOK, DirTypeOK
<1>2. spawned + 1 \in RoomIds => members[spawned + 1] = {}
  BY <1>1 DEF Unborn, Live
<1> QED BY <1>1, <1>2 DEF Heard

(* Leaving is a Quit.                                                      *)
LEMMA LeavingQuits ==
  ASSUME RoomInv, NEW c \in Conns, NEW n \in Names, StartLeave(c, n),
         UNCHANGED <<dir, members, gone>>
  PROVE  /\ UNCHANGED PresentMap
         /\ InsideMap' = [InsideMap EXCEPT ![c] = @ \ {n}]
<1>1. joined \in [Conns -> [Names -> Handles]]
  BY DEF RoomInv, RoomsTypeOK, ConnTypeOK
<1>2. joined' = [joined EXCEPT ![c][n] = NoRoom]
  BY DEF StartLeave
<1>3. RoomsOf(c)' = RoomsOf(c) \ {n}
  BY <1>1, <1>2 DEF RoomsOf
<1>4. \A d \in Conns \ {c} : RoomsOf(d)' = RoomsOf(d)
  BY <1>1, <1>2 DEF RoomsOf
<1>5. UNCHANGED PresentMap
  BY DEF PresentMap, Heard
<1> QED BY <1>3, <1>4, <1>5 DEF InsideMap

(* A granted join is an Enter: the room is the one under that name.        *)
LEMMA JoinEnters ==
  ASSUME RoomInv, PresenceOK, NEW c \in Conns, JoinAnswered(c),
         reply[c] = "ok"
  PROVE  LET n == job[c].room IN
         /\ n \in Names /\ c \in PresentMap[n]
         /\ InsideMap' = [InsideMap EXCEPT ![c] = @ \cup {n}]
         /\ UNCHANGED <<PresentMap, gone>>
<1> DEFINE n == job[c].room
           i == job[c].tx
<1>1. /\ joined \in [Conns -> [Names -> Handles]] /\ n \in Names
      /\ pc[c] = "joining" /\ i \in Live /\ nameOf[i] = n
      /\ c \in members[i]
  BY DEF RoomInv, RoomsTypeOK, ConnTypeOK, TaskTypeOK, Jobs, JoinAnswered,
     Receive, TxOf, PresenceOK, ToldOK
<1>2. /\ joined' = [joined EXCEPT ![c][n] = i]
      /\ UNCHANGED <<dir, members, gone>>
  BY DEF JoinAnswered, actorVars
<1>3. i # NoRoom /\ dir[n] = i
  BY <1>1, ListedRoom
<1> HIDE DEF n, i
<1>4. RoomsOf(c)' = RoomsOf(c) \cup {n}
  BY <1>1, <1>2, <1>3 DEF RoomsOf
<1>5. \A d \in Conns \ {c} : RoomsOf(d)' = RoomsOf(d)
  BY <1>1, <1>2 DEF RoomsOf
<1>6. UNCHANGED PresentMap
  BY <1>2 DEF PresentMap, Heard
<1>7. c \in PresentMap[n]
  BY <1>1, <1>3 DEF PresentMap, Heard
<1>8. InsideMap' = [InsideMap EXCEPT ![c] = @ \cup {n}]
  BY <1>4, <1>5 DEF InsideMap
<1> QED BY <1>1, <1>2, <1>6, <1>7, <1>8 DEF n

(* What a room does to its members.                                        *)
LEMMA HandleMoves ==
  ASSUME RoomInv, NEW i \in RoomIds, ActorStep(i)
  PROVE  /\ UNCHANGED <<dir, joined, gone>> /\ i \in Live
         /\ members[i] \in SUBSET Conns /\ members'[i] \in SUBSET Conns
         /\ \A j \in RoomIds : j # i => members'[j] = members[j]
         /\ \E c \in Conns : members'[i] \subseteq members[i] \cup {c}
         /\ closed[i] => members'[i] \subseteq members[i]
         /\ \A d \in members[i] \ members'[i] : d \in gone \/ LeaveIn(d, i)
<1>1. UNCHANGED <<dir, joined, gone>>
  BY DEF ActorStep, HandleJoin, HandleLeave, HandleSay, HandleTopic,
     HandleFlags, HandleClose, dirVars, connVars
<1>2. PICK op : Due(i, op) /\ Handled(i)
  BY DEF ActorStep, HandleJoin, HandleLeave, HandleSay, HandleTopic,
     HandleFlags, HandleClose
<1>3. /\ inbox[i] # <<>> /\ Sender(i) \in Conns
      /\ i \in Live /\ members[i] \in SUBSET Conns
  BY <1>2, HeadIs
<1>4. \/ UNCHANGED members \/ Broadcast(i, members[i])
      \/ HandleJoin(i) /\ ~closed[i] /\ Broadcast(i, members[i] \cup {Sender(i)})
      \/ HandleLeave(i) /\ Broadcast(i, members[i] \ {Sender(i)})
  BY DEF ActorStep, HandleJoin, HandleLeave, HandleSay, HandleTopic,
     HandleFlags, HandleClose
<1>5. CASE UNCHANGED members
  BY <1>1, <1>3, <1>5
<1>6. CASE Broadcast(i, members[i])
  BY <1>1, <1>3, <1>6, Pruned
<1>7. CASE ~closed[i] /\ Broadcast(i, members[i] \cup {Sender(i)})
  <2>1. members[i] \cup {Sender(i)} \in SUBSET Conns
    BY <1>3
  <2> QED BY <1>1, <1>3, <1>7, <2>1, Pruned
<1>8. CASE HandleLeave(i) /\ Broadcast(i, members[i] \ {Sender(i)})
  <2>1. Head(inbox[i]) = Command("leave", Sender(i))
    BY <1>8, HeadIs DEF HandleLeave
  <2>2. Head(inbox[i]) = inbox[i][1] /\ 1 \in 1..Len(inbox[i])
    <3>1. inbox \in [RoomIds -> Seq(Commands)]
      BY DEF RoomInv, RoomsTypeOK
    <3> QED BY <1>2, <1>3, <3>1, Taken
  <2>3. LeaveIn(Sender(i), i)
    BY <2>1, <2>2 DEF LeaveIn
  <2>4. members[i] \ {Sender(i)} \in SUBSET Conns
    BY <1>3
  <2> QED BY <1>1, <1>3, <1>8, <2>3, <2>4, Pruned
<1> QED BY <1>4, <1>5, <1>6, <1>7, <1>8

(* So it is a Move of the gathering under its name, or nothing.            *)
LEMMA HandleIsMove ==
  ASSUME RoomInv, PresenceOK, NEW i \in RoomIds, ActorStep(i)
  PROVE  \/ UNCHANGED <<PresentMap, InsideMap, gone>>
         \/ \E n \in Names, S \in SUBSET Conns :
              /\ \E c \in Conns : S \subseteq PresentMap[n] \cup {c}
              /\ \A c \in PresentMap[n] \ S : n \notin InsideMap[c] \/ c \in gone
              /\ PresentMap' = [PresentMap EXCEPT ![n] = S]
              /\ UNCHANGED <<InsideMap, gone>>
<1> DEFINE n == nameOf[i]
           S == members'[i]
<1>1. /\ UNCHANGED <<dir, joined, gone>> /\ i \in Live
      /\ members[i] \in SUBSET Conns /\ S \in SUBSET Conns
      /\ \A j \in RoomIds : j # i => members'[j] = members[j]
      /\ \E c \in Conns : S \subseteq members[i] \cup {c}
      /\ closed[i] => S \subseteq members[i]
      /\ \A d \in members[i] \ S : d \in gone \/ LeaveIn(d, i)
  BY HandleMoves
<1>2. /\ n \in Names /\ i # NoRoom /\ Live \subseteq RoomIds
      /\ \A m \in Names : dir[m] # NoRoom =>
           dir[m] \in RoomIds /\ (dir[m] = i => m = n)
  BY <1>1, LiveRooms
     DEF RoomInv, RoomsTypeOK, ActorTypeOK, DirOK, Live, NoRoom
<1>3. CASE dir[n] # i
  <2>1. closed[i]
    BY <1>1, <1>3 DEF RoomInv, DirOK
  <2>2. members[i] = {}
    BY <2>1 DEF RoomInv, MembersOK
  <2>3. \A j \in RoomIds : members'[j] = members[j]
    BY <1>1, <2>1, <2>2
  <2>4. \A m \in Names : Heard(m)' = Heard(m)
    BY <1>1, <1>2, <2>3 DEF Heard
  <2> QED BY <1>1, <2>4, Stutter
<1>4. CASE dir[n] = i
  <2>1. PresentMap[n] = members[i]
    BY <1>2, <1>4 DEF PresentMap, Heard
  <2>2. ASSUME NEW m \in Names
        PROVE  Heard(m)' = IF m = n THEN S ELSE Heard(m)
    BY <1>1, <1>2, <1>4 DEF Heard
  <2> HIDE DEF n, S
  <2>3. PresentMap' = [PresentMap EXCEPT ![n] = S]
    BY <1>2, <2>2 DEF PresentMap
  <2>4. UNCHANGED <<InsideMap, gone>>
    BY <1>1 DEF InsideMap, RoomsOf
  <2>5. ASSUME NEW d \in members[i] \ S
        PROVE  n \notin InsideMap[d] \/ d \in gone
    <3> SUFFICES ASSUME n \in InsideMap[d], d \notin gone PROVE FALSE
      OBVIOUS
    <3>1. d \in Conns /\ joined[d][n] # NoRoom
      BY <1>1, <2>5 DEF InsideMap, RoomsOf
    <3> DEFINE j == joined[d][n]
    <3>2. j \in Live /\ nameOf[j] = n /\ d \in members[j] /\ ~LeaveIn(d, j)
      BY <1>2, <3>1 DEF PresenceOK, KeptOK
    <3>3. dir[n] = j
      BY <3>2, ListedRoom
    <3> QED BY <1>1, <1>4, <2>5, <3>2, <3>3
  <2> QED BY <1>1, <1>2, <2>1, <2>3, <2>4, <2>5
<1> QED BY <1>3, <1>4

(* Every step is a step of the gatherings, or none.                        *)
LEMMA StepSimulates ==
  ASSUME RoomInv, PromiseInv, [Next]_vars
  PROVE  [Chat!Next]_<<PresentMap, InsideMap, gone>>
<1> DEFINE Still == UNCHANGED <<PresentMap, InsideMap, gone>>
           Goal == Still \/ Chat!Next
<1>0. PresenceOK /\ Unborn
  BY DEF PromiseInv
<1>1. UNCHANGED <<dir, members, joined, gone>> => Still
  BY DEF PresentMap, InsideMap, Heard, RoomsOf
<1>2. ASSUME NEW c \in Conns, NEW n \in Names, StartLeave(c, n),
             UNCHANGED <<dir, members, gone>>
      PROVE  Chat!Next
  <2>1. Chat!Quit(c, n)
    BY <1>2, LeavingQuits
       DEF Chat!Quit, PresentMap, InsideMap, Heard
  <2> QED BY <2>1 DEF Chat!Next
<1>3. ASSUME NEW c \in Conns, gone' = gone \cup {c},
             UNCHANGED <<dir, members, joined>>
      PROVE  Chat!Next
  <2>1. UNCHANGED <<PresentMap, InsideMap>>
    BY <1>3 DEF PresentMap, InsideMap, Heard, RoomsOf
  <2>2. Chat!Lose(c)
    BY <1>3, <2>1 DEF Chat!Lose, PresentMap, InsideMap, Heard
  <2> QED BY <2>2 DEF Chat!Next
<1>4. ASSUME NEW c \in Conns, NEW i \in Live, closed[i], NEW n, Forget(n, i),
             UNCHANGED <<members, joined, gone>>
      PROVE  Still
  BY <1>4, ForgetUnheard, Stutter
<1>5. ASSUME NEW c \in Conns, ClientStep(c) PROVE Goal
  <2>1. ASSUME NEW n \in Names, AskLeave(c, n) PROVE Goal
    BY <1>2, <2>1 DEF AskLeave, dirVars, actorVars
  <2>2. CASE Close(c)
    BY <1>1, <1>3, <2>2 DEF Close, dirVars, actorVars
  <2>3. ASSUME \/ \E n \in Names : AskJoin(c, n) \/ Say(c, n) \/ SetTopic(c, n)
               \/ \E u \in Users : AskInvite(c, u)
               \/ \E n \in Names, f \in Flags : SetFlags(c, n, f)
        PROVE  Still
    <3>1. UNCHANGED <<dir, members, joined, gone>>
      BY <2>3 DEF AskJoin, Say, SetTopic, AskInvite, SetFlags, dirVars,
                  actorVars
    <3> QED BY <1>1, <3>1
  <2> QED BY <1>5, <2>1, <2>2, <2>3 DEF ClientStep
<1>6. ASSUME NEW c \in Conns,
             \/ Lookup(c) \/ CountRooms(c) \/ SendJoin(c) \/ SendLeave(c)
             \/ SendClose(c) \/ Answered(c)
      PROVE  Still
  <2>1. UNCHANGED <<dir, members, joined, gone>>
    BY <1>6 DEF Lookup, CountRooms, SendJoin, SendLeave, SendClose, Answered,
                dirVars, actorVars, connVars
  <2> QED BY <1>1, <2>1
<1>7. ASSUME NEW c \in Conns, Insert(c) PROVE Still
  <2>1. UNCHANGED <<joined, gone>>
    BY <1>7 DEF Insert, connVars
  <2> QED BY <1>0, <1>7, <2>1, InsertUnheard, Stutter
<1>8. ASSUME NEW c \in Conns, JoinAnswered(c) PROVE Goal
  <2>1. UNCHANGED <<members, gone>>
    BY <1>8 DEF JoinAnswered, actorVars
  <2>2. CASE reply[c] = "ok"
    <3> DEFINE n == job[c].room
    <3>1. n \in Names /\ Chat!Enter(c, n)
      BY <1>0, <1>8, <2>2, JoinEnters
         DEF Chat!Enter, PresentMap, InsideMap, Heard
    <3> QED BY <3>1 DEF Chat!Next
  <2>3. CASE reply[c] = "refused"
    BY <1>1, <1>8, <2>1, <2>3 DEF JoinAnswered
  <2>4. CASE reply[c] = "closed"
    <3>1. pc[c] = "joining" /\ job[c].tx \in Live /\ closed[job[c].tx]
      BY <1>8, <2>4 DEF JoinAnswered, Receive, RoomInv, ReplyOf, TxOf
    <3>2. Forget(job[c].room, job[c].tx) /\ UNCHANGED joined
      BY <1>8, <2>4 DEF JoinAnswered, Retry
    <3> QED BY <1>4, <2>1, <3>1, <3>2
  <2> QED BY <1>8, <2>2, <2>3, <2>4 DEF JoinAnswered
<1>9. ASSUME NEW c \in Conns, Deliver(c) \/ Cleanup(c) PROVE Goal
  <2>1. job[c].room \in Names
    BY DEF RoomInv, RoomsTypeOK, TaskTypeOK, Jobs
  <2>2. UNCHANGED <<dir, members>>
    BY <1>9 DEF Deliver, Cleanup, dirVars, actorVars
  <2> HIDE DEF Still
  <2> QED BY <1>1, <1>2, <1>3, <1>9, <2>1, <2>2 DEF Deliver, Cleanup
<1>10. ASSUME NEW c \in Conns, CloseAnswered(c) PROVE Still
  <2>1. UNCHANGED <<members, joined, gone>>
    BY <1>10 DEF CloseAnswered, actorVars, connVars
  <2>2. CASE reply[c] = "closed"
    <3>1. pc[c] = "closing" /\ job[c].tx \in Live /\ closed[job[c].tx]
      BY <1>10, <2>2 DEF CloseAnswered, Receive, RoomInv, ReplyOf, TxOf
    <3>2. Forget(job[c].room, job[c].tx)
      BY <1>10, <2>2 DEF CloseAnswered
    <3> QED BY <1>4, <2>1, <3>1, <3>2
  <2>3. CASE UNCHANGED dir
    BY <1>1, <2>1, <2>3
  <2> QED BY <1>10, <2>2, <2>3 DEF CloseAnswered
<1>11. ASSUME NEW i \in RoomIds, ActorStep(i) PROVE Goal
  <2>1. ASSUME NEW n \in Names, NEW S \in SUBSET Conns,
               \E c \in Conns : S \subseteq PresentMap[n] \cup {c},
               \A c \in PresentMap[n] \ S : n \notin InsideMap[c] \/ c \in gone,
               PresentMap' = [PresentMap EXCEPT ![n] = S],
               UNCHANGED <<InsideMap, gone>>
        PROVE  Chat!Next
    <3>1. Chat!Move(n, S)
      BY <2>1 DEF Chat!Move, PresentMap, InsideMap, Heard
    <3> QED BY <3>1 DEF Chat!Next
  <2> QED BY <1>0, <1>11, <2>1, HandleIsMove
<1>12. CASE UNCHANGED vars
  BY <1>1, <1>12 DEF vars, dirVars, actorVars, connVars
<1>13. ASSUME NEW c \in Conns, TaskStep(c) PROVE Goal
  BY <1>6, <1>7, <1>8, <1>9, <1>10, <1>13 DEF TaskStep
<1>14. Goal
  BY <1>5, <1>11, <1>12, <1>13 DEF Next
<1> QED BY <1>14

(* Directory and actors together (RoomManager, room actors, cleanup) keep  *)
(* one gathering per name: whatever is closed, forgotten, made anew or     *)
(* evicted, at most one connection comes in under a name in a step, nobody *)
(* who counts itself inside and is not lost drops out, and it comes to     *)
(* count itself inside only where it is present.                           *)
THEOREM RoomsAreGatherings == Spec => ImplementsGatherings
<1>1. Init => Chat!Init
  <2> SUFFICES ASSUME Init PROVE Chat!Init
    OBVIOUS
  <2>1. ASSUME NEW n \in Names
        PROVE  (IF dir[n] = NoRoom THEN {} ELSE members[dir[n]]) = {}
    BY Bounds DEF Init, NoRoom, RoomIds
  <2>2. ASSUME NEW c \in Conns PROVE RoomsOf(c) = {}
    BY DEF Init, RoomsOf
  <2> QED BY <2>1, <2>2 DEF Chat!Init, Init
<1>2. RoomInv /\ PromiseInv /\ [Next]_vars => [Chat!Next]_Chat!vars
  BY StepSimulates DEF Chat!vars, PresentMap, InsideMap, Heard
<1> QED BY <1>1, <1>2, InitInv, NextInv, InitPromises, NextPromises, PTL
        DEF Spec, ImplementsGatherings, Chat!Spec

=============================================================================
