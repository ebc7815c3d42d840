---------------------------- MODULE ClientProofs ----------------------------
(***************************************************************************)
(* Theorems about ClientCalls, for any calls, rooms, scripts and queue     *)
(* bounds: a caller is told the server's answer to its own call, and the   *)
(* client never takes the server's answers for a violation.                *)
(*                                                                         *)
(* The protocol has no request numbers, so the proof is a ledger.  Each    *)
(* frame still on its way down, then each packet still on its way up, is   *)
(* given the turn it settles; turn k is the k-th entry the client keeps    *)
(* in pending.  DownFits and UpFits say what a frame of a turn may be.     *)
(***************************************************************************)
EXTENDS ClientCalls, FiniteSetTheorems, NaturalsInduction,
        WellFoundedInduction, TLAPS

---------------------------------------------------------------------------
(* What the two sides of a connection owe each other.  Everything is said  *)
(* of given calls, debts and frames, so that a step can be taken apart.    *)

UpTypes ==
  {"Ping", "AuthRequest", "AuthResponse", "ChatJoin", "ChatLeave",
   "ChatInvite"} \cup DOMAIN Answers \cup DOMAIN QuietAnswers
Packets == {"ChatJoin", "ChatLeave", "ChatInvite"} \cup DOMAIN QuietAnswers
DownTypes ==
  {"Pong", "Error", "AuthChallenge", "AuthOk", "AuthFailed", "Info",
   "Warning", "Disconnect", "ChatUserList"} \cup ReplyTypes
AuthUp == {"AuthRequest", "AuthResponse"}
AuthDown == {"AuthChallenge", "AuthOk", "AuthFailed"}
Rooms == ChatRooms \cup {None}
FramesOf(types) == [type : types, call : Calls \cup {None}, room : Rooms]

Outcomes ==
  {"idle", "open", "ok", "refused", "invalid", "gone", "timeout"}
CallRecords ==
  [cmd : Commands \cup {"none"}, room : Rooms, outcome : Outcomes,
   verdict : {"none", "granted", "refused"}, got : Rooms]
Kinds == {"reply", "ping", "plain", "join", "invite"}
Quiet == {"plain", "join", "invite"}
OwedRecords ==
  {p \in [is : Kinds, call : Calls \cup {None},
          expects : ReplyTypes \cup {"Pong"}, forget : BOOLEAN,
          error : BOOLEAN] : p.is # "ping" => p.call \in Calls}
InviteRecords ==
  [call : Calls, failed : BOOLEAN, settled : BOOLEAN, room : Rooms]

(* Calls, debts, and frames on their way down and up.                      *)
LinkTyped(cs, pd, dn, u) ==
  /\ cs \in [Calls -> CallRecords] /\ pd \in Seq(OwedRecords)
  /\ dn \in Seq(FramesOf(DownTypes)) /\ u \in Seq(FramesOf(UpTypes))

(* The calls that are owed a reply or an Error, and the frames that end a  *)
(* turn: what was owed first is then settled.                              *)
Requesters(cs) == {c \in Calls : cs[c].cmd \in DOMAIN Requests}
Closes(f, R) ==
  \/ f.type \in {"Ping", "Pong"} \cup DOMAIN Answers \cup ReplyTypes
  \/ f.type = "Error" /\ f.call \in R

(* T numbers the turns the frames of s belong to, and the one after them.  *)
Numbers(s, T, R) ==
  /\ T \in [1 .. (Len(s) + 1) -> Nat]
  /\ \A i \in 1 .. Len(s) :
       T[i + 1] = T[i] + IF Closes(s[i], R) THEN 1 ELSE 0
  /\ \A i, j \in 1 .. (Len(s) + 1) : i <= j => T[i] <= T[j]

(* The server has handled the call of debt p in turn k; if it refused it,  *)
(* the client knows, or the Error is among the first h frames down.        *)
Handled(cs, p, dn, D, k, h) ==
  /\ cs[p.call].verdict # "none"
  /\ cs[p.call].verdict = "refused" =>
       \/ p.error
       \/ \E r \in 1 .. h : /\ dn[r].type = "Error" /\ D[r] = k
                            /\ dn[r].call = p.call

(* A frame on its way down answers the debt of its turn.                   *)
DownFits(cs, p, dn, D, i) ==
  LET f == dn[i] IN
  /\ f.type = "Pong" =>
       /\ p.is # "reply"
       /\ p.is \in {"join", "invite"} => Handled(cs, p, dn, D, D[i], i - 1)
  /\ f.type \in ReplyTypes =>
       /\ p.is = "reply" /\ p.call = f.call /\ p.expects = f.type
       /\ cs[f.call].verdict = "granted"
  /\ f.type = "Error" =>
       /\ p.call = f.call /\ f.call \in Calls
       /\ cs[f.call].verdict = "refused"
       /\ IF f.call \in Requesters(cs) THEN p.is = "reply" ELSE p.is \in Quiet

(* A packet on its way up is owed the debt of its turn.                    *)
UpFits(cs, p, dn, D, u, U, i) ==
  LET f == u[i] IN
  /\ f.type = "Ping" =>
       /\ p.is # "reply"
       /\ p.is \in {"join", "invite"} =>
            \/ /\ i > 1 /\ u[i - 1].call = p.call
               /\ u[i - 1].type \in {"ChatJoin", "ChatInvite"}
            \/ Handled(cs, p, dn, D, U[i], Len(dn))
  /\ f.type \in DOMAIN Answers =>
       /\ p.is = "reply" /\ p.call = f.call /\ f.call \in Requesters(cs)
       /\ f.type = Requests[cs[f.call].cmd].packet
       /\ p.expects = Requests[cs[f.call].cmd].expects
  /\ f.type \in Packets =>
       p.is \in Quiet /\ p.call = f.call /\ f.call \in Calls \ Requesters(cs)

Turned(f) ==
  f.type \in {"Ping", "Pong", "Error"} \cup Packets \cup DOMAIN Answers
               \cup ReplyTypes

(* The answers on their way down and, while the server listens, the        *)
(* packets on their way up settle what the server owes, in its order.      *)
DownAt(cs, pd, dn, D) ==
  /\ Numbers(dn, D, Requesters(cs)) /\ D[1] = 1
  /\ D[Len(dn) + 1] <= Len(pd) + 1
  /\ \A i \in 1 .. Len(dn) : Turned(dn[i]) =>
       D[i] \in 1 .. Len(pd) /\ DownFits(cs, pd[D[i]], dn, D, i)
Sends(cs, pd, dn, u, D, U) ==
  /\ Numbers(u, U, Requesters(cs)) /\ U[1] = D[Len(dn) + 1]
  /\ \A i \in 1 .. Len(u) : Turned(u[i]) =>
       U[i] \in 1 .. Len(pd) /\ UpFits(cs, pd[U[i]], dn, D, u, U, i)
UpAt(cs, pd, dn, u, D, U) ==
  Sends(cs, pd, dn, u, D, U) /\ U[Len(u) + 1] = Len(pd) + 1
LedgerAt(cs, pd, dn, u, listens, D, U) ==
  /\ DownAt(cs, pd, dn, D)
  /\ listens => UpAt(cs, pd, dn, u, D, U)
LedgerOf(cs, pd, dn, u, listens) ==
  \E D, U : LedgerAt(cs, pd, dn, u, listens, D, U)
(* A call travels once: it waits in the queue, then in one packet, and is  *)
(* judged when the packet is served.                                       *)
Unsent(cs, u, c) ==
  cs[c].verdict = "none" /\ \A q \in 1 .. Len(u) : u[q].call # c
TravelsOf(cs, qu, u) ==
  /\ \A i, j \in 1 .. Len(qu) : qu[i] = qu[j] => i = j
  /\ \A i \in 1 .. Len(qu) : cs[qu[i]].cmd # "none" /\ Unsent(cs, u, qu[i])
  /\ \A c \in Calls : cs[c].cmd = "none" => Unsent(cs, u, c)
  /\ \A q \in 1 .. Len(u) : u[q].call # None =>
       /\ cs[u[q].call].cmd # "none" /\ cs[u[q].call].verdict = "none"
       /\ \A r \in 1 .. Len(u) : u[r].call = u[q].call => r = q

(* A debt is that of its call; one that was refused knows it from the      *)
(* server.                                                                 *)
DebtOf(cs, p) ==
  /\ p.is = "reply" => /\ p.call \in Requesters(cs)
                       /\ p.expects = Requests[cs[p.call].cmd].expects
  /\ p.is = "plain" =>
       cs[p.call].cmd \in DOMAIN QuietCommands \cup {"Leave"}
  /\ p.is = "join" => cs[p.call].cmd = "Join"
  /\ p.is = "invite" => cs[p.call].cmd = "Invite"
  /\ p.error => p.is \in Quiet /\ cs[p.call].verdict = "refused"
DebtsOf(cs, pd) == \A k \in 1 .. Len(pd) : DebtOf(cs, pd[k])

InvitesOf(cs, iv, pd) ==
  \A i \in 1 .. Len(iv) :
    /\ cs[iv[i].call].cmd = "Invite"
    /\ iv[i].settled /\ ~iv[i].failed => cs[iv[i].call].verdict = "granted"
    /\ \A k \in 1 .. Len(pd) :
         pd[k].is = "invite" /\ pd[k].error /\ pd[k].call = iv[i].call
           => iv[i].failed

(* One login is on its way at a time, as the client sees it.               *)
LoginOf(cs, qu, lg, dn, u) ==
  /\ lg.phase # "none" =>
       /\ lg.call \in Calls /\ cs[lg.call].cmd = "Login"
       /\ \A i \in 1 .. Len(qu) : qu[i] # lg.call
  /\ \A q \in 1 .. Len(u) : u[q].type \in AuthUp =>
       /\ lg.phase = IF u[q].type = "AuthRequest" THEN "challenge"
                     ELSE "result"
       /\ u[q].call = lg.call
       /\ \A r \in 1 .. Len(u) : u[r].type \in AuthUp => r = q
       /\ \A r \in 1 .. Len(dn) : dn[r].type \notin AuthDown
  /\ \A q \in 1 .. Len(dn) : dn[q].type \in AuthDown =>
       /\ lg.phase # "none" /\ dn[q].call = lg.call
       /\ \A r \in 1 .. Len(dn) : dn[r].type \in AuthDown => r = q
       /\ dn[q].type = "AuthChallenge" =>
            lg.phase = "challenge" /\ Unsent(cs, u, lg.call)
       /\ dn[q].type = "AuthOk" =>
            lg.phase = "result" /\ cs[lg.call].verdict = "granted"

AnswersOf(cs) ==
  \A c \in Calls :
    LET me == cs[c] IN
    /\ me.outcome = "ok" /\ me.cmd \in DOMAIN Requests \cup {"Login"} =>
         me.got = c /\ me.verdict = "granted"
    /\ me.outcome = "ok" /\ me.cmd \in {"Join", "Invite"} =>
         me.verdict = "granted"
    /\ me.outcome = "refused" /\ me.cmd # "Login" => me.verdict = "refused"

(* No call has changed hands; or some were judged that had not been.       *)
SameStory(cs, cs2) ==
  \A c \in Calls : cs2[c].cmd = cs[c].cmd /\ cs2[c].verdict = cs[c].verdict
Judges(cs, cs2) ==
  \A c \in Calls : /\ cs2[c].cmd = cs[c].cmd
                   /\ cs[c].verdict # "none" => cs2[c].verdict = cs[c].verdict

LoginRecords == [phase : {"none", "challenge", "result"},
                 call : Calls \cup {None}]

(* What holds of calls, command channel, login, debts, invitations, and    *)
(* the link.                                                               *)
SoundTyped(cs, qu, lg, pd, iv, dn, u) ==
  /\ LinkTyped(cs, pd, dn, u) /\ qu \in Seq(Calls)
  /\ iv \in Seq(InviteRecords) /\ lg \in LoginRecords
SoundOf(cs, qu, lg, pd, iv, dn, u, listens) ==
  /\ SoundTyped(cs, qu, lg, pd, iv, dn, u)
  /\ LedgerOf(cs, pd, dn, u, listens) /\ TravelsOf(cs, qu, u)
  /\ DebtsOf(cs, pd) /\ InvitesOf(cs, iv, pd) /\ LoginOf(cs, qu, lg, dn, u)
  /\ AnswersOf(cs)
---------------------------------------------------------------------------
(* The tables of the two sides.                                            *)

(* Table g holds whatever table f, a part of it, holds.                    *)
Includes(g, f) ==
  DOMAIN f \subseteq DOMAIN g /\ \A x \in DOMAIN f : g[x] = f[x]

(* Tables with no key in common are both in the joined table.              *)
LEMMA JoinedIncludes ==
  ASSUME NEW f, NEW g, DOMAIN f \cap DOMAIN g = {}
  PROVE  /\ DOMAIN Joined(f, g) = DOMAIN f \cup DOMAIN g
         /\ Includes(Joined(f, g), f) /\ Includes(Joined(f, g), g)
BY DEF Joined, Includes

(* A table in a table is in whatever that one is in.                       *)
LEMMA IncludesTransitive ==
  ASSUME NEW f, NEW g, NEW h, Includes(g, f), Includes(h, g)
  PROVE  Includes(h, f)
BY DEF Includes

RequestTables ==
  {FileRequests, ServerRequests, RoleRequests, AccountRequests, NewsRequests}
AnswerTables ==
  {PresenceAnswers, TreeAnswers, CatalogAnswers, RoleAnswers, AccountAnswers,
   ServerAnswers, GroupAnswers, ThreadAnswers, BanAnswers}

(* Requests is made of all its tables and of nothing else.                 *)
LEMMA RequestsWhole ==
  /\ \A f \in RequestTables : Includes(Requests, f)
  /\ DOMAIN Requests = UNION {DOMAIN f : f \in RequestTables}
<1> DEFINE news == Joined(AccountRequests, NewsRequests)
           role == Joined(RoleRequests, news)
           file == Joined(FileRequests, ServerRequests)
<1>1. /\ DOMAIN news = DOMAIN AccountRequests \cup DOMAIN NewsRequests
      /\ Includes(news, AccountRequests) /\ Includes(news, NewsRequests)
  <2>1. DOMAIN AccountRequests \cap DOMAIN NewsRequests = {}
    BY DEF AccountRequests, NewsRequests
  <2> QED BY <2>1, JoinedIncludes
<1>2. /\ DOMAIN file = DOMAIN FileRequests \cup DOMAIN ServerRequests
      /\ Includes(file, FileRequests) /\ Includes(file, ServerRequests)
  <2>1. DOMAIN FileRequests \cap DOMAIN ServerRequests = {}
    BY DEF FileRequests, ServerRequests
  <2> QED BY <2>1, JoinedIncludes
<1> HIDE DEF news, file
<1>3. /\ DOMAIN role = DOMAIN RoleRequests \cup DOMAIN news
      /\ Includes(role, RoleRequests) /\ Includes(role, news)
  <2>1. DOMAIN RoleRequests \cap DOMAIN news = {}
    BY <1>1 DEF RoleRequests, AccountRequests, NewsRequests
  <2> QED BY <2>1, JoinedIncludes
<1>4. /\ DOMAIN Joined(file, role) = DOMAIN file \cup DOMAIN role
      /\ Includes(Joined(file, role), file)
      /\ Includes(Joined(file, role), role)
  <2>1. DOMAIN file \cap DOMAIN role = {}
    BY <1>1, <1>2, <1>3 DEF FileRequests, ServerRequests, RoleRequests,
                            AccountRequests, NewsRequests
  <2> HIDE DEF role
  <2> QED BY <2>1, JoinedIncludes
<1>5. Requests = Joined(file, role)
  BY DEF Requests, file, news
<1> HIDE DEF role
<1>6. Includes(Requests, file) /\ Includes(Requests, role)
  BY <1>4, <1>5
<1>7. Includes(Requests, news)
  BY <1>3, <1>6, IncludesTransitive
<1>8. /\ Includes(Requests, FileRequests) /\ Includes(Requests, ServerRequests)
      /\ Includes(Requests, RoleRequests)
      /\ Includes(Requests, AccountRequests)
      /\ Includes(Requests, NewsRequests)
  BY <1>1, <1>2, <1>3, <1>6, <1>7, IncludesTransitive
<1>9. DOMAIN Requests = UNION {DOMAIN f : f \in RequestTables}
  BY <1>1, <1>2, <1>3, <1>4, <1>5 DEF RequestTables
<1> QED BY <1>8, <1>9 DEF RequestTables

(* Answers is made of all its tables and of nothing else.                  *)
LEMMA AnswersWhole ==
  /\ \A f \in AnswerTables : Includes(Answers, f)
  /\ DOMAIN Answers = UNION {DOMAIN f : f \in AnswerTables}
<1> DEFINE a == Joined(PresenceAnswers, TreeAnswers)
           b == Joined(CatalogAnswers, RoleAnswers)
           c == Joined(AccountAnswers, ServerAnswers)
           d == Joined(ThreadAnswers, BanAnswers)
           e == Joined(GroupAnswers, d)
           l == Joined(a, b)
           r == Joined(c, e)
<1>1. /\ DOMAIN a = DOMAIN PresenceAnswers \cup DOMAIN TreeAnswers
      /\ Includes(a, PresenceAnswers) /\ Includes(a, TreeAnswers)
  <2>1. DOMAIN PresenceAnswers \cap DOMAIN TreeAnswers = {}
    BY DEF PresenceAnswers, TreeAnswers
  <2> QED BY <2>1, JoinedIncludes
<1>2. /\ DOMAIN b = DOMAIN CatalogAnswers \cup DOMAIN RoleAnswers
      /\ Includes(b, CatalogAnswers) /\ Includes(b, RoleAnswers)
  <2>1. DOMAIN CatalogAnswers \cap DOMAIN RoleAnswers = {}
    BY DEF CatalogAnswers, RoleAnswers
  <2> QED BY <2>1, JoinedIncludes
<1>3. /\ DOMAIN c = DOMAIN AccountAnswers \cup DOMAIN ServerAnswers
      /\ Includes(c, AccountAnswers) /\ Includes(c, ServerAnswers)
  <2>1. DOMAIN AccountAnswers \cap DOMAIN ServerAnswers = {}
    BY DEF AccountAnswers, ServerAnswers
  <2> QED BY <2>1, JoinedIncludes
<1>4. /\ DOMAIN d = DOMAIN ThreadAnswers \cup DOMAIN BanAnswers
      /\ Includes(d, ThreadAnswers) /\ Includes(d, BanAnswers)
  <2>1. DOMAIN ThreadAnswers \cap DOMAIN BanAnswers = {}
    BY DEF ThreadAnswers, BanAnswers
  <2> QED BY <2>1, JoinedIncludes
<1> HIDE DEF a, b, c, d
<1>5. /\ DOMAIN e = DOMAIN GroupAnswers \cup DOMAIN d
      /\ Includes(e, GroupAnswers) /\ Includes(e, d)
  <2>1. DOMAIN GroupAnswers \cap DOMAIN d = {}
    BY <1>4 DEF GroupAnswers, ThreadAnswers, BanAnswers
  <2> QED BY <2>1, JoinedIncludes
<1>6. /\ DOMAIN l = DOMAIN a \cup DOMAIN b /\ Includes(l, a) /\ Includes(l, b)
  <2>1. DOMAIN a \cap DOMAIN b = {}
    BY <1>1, <1>2 DEF PresenceAnswers, TreeAnswers, CatalogAnswers,
                      RoleAnswers
  <2> QED BY <2>1, JoinedIncludes
<1> HIDE DEF e
<1>7. /\ DOMAIN r = DOMAIN c \cup DOMAIN e /\ Includes(r, c) /\ Includes(r, e)
  <2>1. DOMAIN c \cap DOMAIN e = {}
    BY <1>3, <1>4, <1>5 DEF AccountAnswers, ServerAnswers, GroupAnswers,
                            ThreadAnswers, BanAnswers
  <2> QED BY <2>1, JoinedIncludes
<1> HIDE DEF l, r
<1>8. /\ DOMAIN Joined(l, r) = DOMAIN l \cup DOMAIN r
      /\ Includes(Joined(l, r), l) /\ Includes(Joined(l, r), r)
  <2>1. DOMAIN l \cap DOMAIN r = {}
    BY <1>1, <1>2, <1>3, <1>4, <1>5, <1>6, <1>7
    DEF PresenceAnswers, TreeAnswers, CatalogAnswers, RoleAnswers,
        AccountAnswers, ServerAnswers, GroupAnswers, ThreadAnswers, BanAnswers
  <2> QED BY <2>1, JoinedIncludes
<1>9. Answers = Joined(l, r)
  BY DEF Answers, l, r, a, b, c, d, e
<1>10. Includes(Answers, l) /\ Includes(Answers, r)
  BY <1>8, <1>9
<1>11. /\ Includes(Answers, a) /\ Includes(Answers, b)
       /\ Includes(Answers, c) /\ Includes(Answers, e)
  BY <1>6, <1>7, <1>10, IncludesTransitive
<1>12. Includes(Answers, GroupAnswers) /\ Includes(Answers, d)
  BY <1>5, <1>11, IncludesTransitive
<1>13. /\ Includes(Answers, PresenceAnswers) /\ Includes(Answers, TreeAnswers)
       /\ Includes(Answers, CatalogAnswers) /\ Includes(Answers, RoleAnswers)
       /\ Includes(Answers, AccountAnswers) /\ Includes(Answers, ServerAnswers)
       /\ Includes(Answers, ThreadAnswers) /\ Includes(Answers, BanAnswers)
  BY <1>1, <1>2, <1>3, <1>4, <1>11, <1>12, IncludesTransitive
<1>14. DOMAIN Answers = UNION {DOMAIN f : f \in AnswerTables}
  BY <1>1, <1>2, <1>3, <1>4, <1>5, <1>6, <1>7, <1>8, <1>9 DEF AnswerTables
<1> QED BY <1>12, <1>13, <1>14 DEF AnswerTables

(* The client expects of every request the type the server answers its     *)
(* packet with.                                                            *)
LEMMA TablesAgree ==
  ASSUME NEW k \in DOMAIN Requests
  PROVE  /\ Requests[k].packet \in DOMAIN Answers
         /\ Answers[Requests[k].packet] = Requests[k].expects
<1> DEFINE Agrees(f, g) ==
             \A x \in DOMAIN f : /\ f[x].packet \in DOMAIN g
                                 /\ g[f[x].packet] = f[x].expects
           Good(f) == \A x \in DOMAIN f :
                        /\ f[x].packet \in DOMAIN Answers
                        /\ Answers[f[x].packet] = f[x].expects
<1>1. Good(FileRequests)
  <2>1. \A x \in DOMAIN FileRequests :
          \/ /\ FileRequests[x].packet \in DOMAIN TreeAnswers
             /\ TreeAnswers[FileRequests[x].packet] = FileRequests[x].expects
          \/ /\ FileRequests[x].packet \in DOMAIN CatalogAnswers
             /\ CatalogAnswers[FileRequests[x].packet]
                  = FileRequests[x].expects
    BY DEF FileRequests, TreeAnswers, CatalogAnswers, Request
  <2> QED BY <2>1, AnswersWhole DEF AnswerTables, Includes
<1>2. Good(ServerRequests)
  <2>1. \A x \in DOMAIN ServerRequests :
          \/ /\ ServerRequests[x].packet \in DOMAIN PresenceAnswers
             /\ PresenceAnswers[ServerRequests[x].packet]
                  = ServerRequests[x].expects
          \/ /\ ServerRequests[x].packet \in DOMAIN ServerAnswers
             /\ ServerAnswers[ServerRequests[x].packet]
                  = ServerRequests[x].expects
    BY DEF ServerRequests, PresenceAnswers, ServerAnswers, Request
  <2> QED BY <2>1, AnswersWhole DEF AnswerTables, Includes
<1>3. Good(RoleRequests)
  <2>1. Agrees(RoleRequests, RoleAnswers)
    BY DEF RoleRequests, RoleAnswers, Request
  <2> QED BY <2>1, AnswersWhole DEF AnswerTables, Includes
<1>4. Good(AccountRequests)
  <2>1. Agrees(AccountRequests, AccountAnswers)
    BY DEF AccountRequests, AccountAnswers, Request
  <2> QED BY <2>1, AnswersWhole DEF AnswerTables, Includes
<1>5. Good(NewsRequests)
  <2>1. \A x \in DOMAIN NewsRequests :
          \/ /\ NewsRequests[x].packet \in DOMAIN GroupAnswers
             /\ GroupAnswers[NewsRequests[x].packet] = NewsRequests[x].expects
          \/ /\ NewsRequests[x].packet \in DOMAIN ThreadAnswers
             /\ ThreadAnswers[NewsRequests[x].packet]
                  = NewsRequests[x].expects
          \/ /\ NewsRequests[x].packet \in DOMAIN BanAnswers
             /\ BanAnswers[NewsRequests[x].packet] = NewsRequests[x].expects
    BY DEF NewsRequests, GroupAnswers, ThreadAnswers, BanAnswers, Request
  <2> QED BY <2>1, AnswersWhole DEF AnswerTables, Includes
<1> HIDE DEF Good
<1>6. PICK f \in RequestTables : k \in DOMAIN f
  BY RequestsWhole
<1>7. Good(f)
  BY <1>1, <1>2, <1>3, <1>4, <1>5, <1>6 DEF RequestTables
<1>8. Requests[k] = f[k]
  BY <1>6, RequestsWhole DEF Includes
<1> QED BY <1>6, <1>7, <1>8 DEF Good

(* No request is another kind of command as well.                          *)
LEMMA CommandsDistinct ==
  /\ DOMAIN Requests \cap ({"none", "Login", "Join", "Leave", "Invite"}
                             \cup DOMAIN QuietCommands) = {}
  /\ DOMAIN QuietCommands \cap {"none", "Login", "Join", "Leave", "Invite"}
       = {}
<1>1. \A f \in RequestTables :
        DOMAIN f \cap ({"none", "Login", "Join", "Leave", "Invite"}
                         \cup DOMAIN QuietCommands) = {}
  BY DEF RequestTables, FileRequests, ServerRequests, RoleRequests,
         AccountRequests, NewsRequests, QuietCommands
<1> QED BY <1>1, RequestsWhole DEF QuietCommands

(* The packets of the two directions differ in type, and those that are    *)
(* answered from those that are not.                                       *)
LEMMA PacketsDistinct ==
  /\ DOMAIN Answers \cap ({"Ping", "AuthRequest", "AuthResponse"}
                            \cup Packets \cup DownTypes) = {}
  /\ ReplyTypes \cap ({"Pong", "Error", "AuthChallenge", "AuthOk",
                       "AuthFailed", "Info", "Warning", "Disconnect",
                       "ChatUserList"} \cup UpTypes) = {}
  /\ Packets \cap {"Ping", "Pong", "Error", "AuthRequest", "AuthResponse"}
       = {}
<1> DEFINE notices == {"Pong", "Error", "AuthChallenge", "AuthOk",
                       "AuthFailed", "Info", "Warning", "Disconnect",
                       "ChatUserList"}
           plain == {"Ping", "AuthRequest", "AuthResponse"} \cup Packets
<1>1. /\ plain \cap notices = {}
      /\ Packets \cap {"Ping", "AuthRequest", "AuthResponse"} = {}
  BY DEF Packets, QuietAnswers
<1>2. DOMAIN Answers \cap (plain \cup notices) = {}
  <2>1. \A f \in AnswerTables : DOMAIN f \cap (plain \cup notices) = {}
    BY DEF AnswerTables, Packets, QuietAnswers,
           PresenceAnswers, TreeAnswers, CatalogAnswers, RoleAnswers,
           AccountAnswers, ServerAnswers, GroupAnswers, ThreadAnswers,
           BanAnswers
  <2> QED BY <2>1, AnswersWhole
<1>3. ReplyTypes \cap (plain \cup notices) = {}
  <2>1. \A f \in RequestTables : \A x \in DOMAIN f :
          f[x].expects \notin plain \cup notices
    BY DEF RequestTables, FileRequests, ServerRequests, RoleRequests,
           AccountRequests, NewsRequests, Request, Packets, QuietAnswers
  <2>2. \A k \in DOMAIN Requests : \E f \in RequestTables :
          k \in DOMAIN f /\ Requests[k] = f[k]
    BY RequestsWhole DEF Includes
  <2> QED BY <2>1, <2>2 DEF ReplyTypes
<1>4. ReplyTypes \cap DOMAIN Answers = {}
  <2>1. \A k \in DOMAIN Requests : Requests[k].expects \notin DOMAIN Answers
    <3> DEFINE names ==
          {"FileListResponse", "FileInfoResponse", "FileCatalogGenerated",
           "FileSearchResponse", "PresenceListResponse",
           "TrackerListResponse", "ServerSettingsResponse",
           "HistoryListResponse", "IpRuleListResponse",
           "ConnectionListResponse", "UserInfoResponse", "RoleListResponse",
           "AccountRolesResponse", "AccountListResponse",
           "PasswordChangeChallenge", "PasswordChangeResult",
           "NewsgroupListResponse", "NewsThreadListResponse",
           "BanListResponse"}
    <3>0. \A f \in RequestTables : \A x \in DOMAIN f : f[x].expects \in names
      BY DEF RequestTables, FileRequests, ServerRequests, RoleRequests,
             AccountRequests, NewsRequests, Request
    <3>1. \A g \in AnswerTables : DOMAIN g \cap names = {}
      BY DEF AnswerTables, PresenceAnswers, TreeAnswers, CatalogAnswers,
             RoleAnswers, AccountAnswers, ServerAnswers, GroupAnswers,
             ThreadAnswers, BanAnswers
    <3> HIDE DEF names
    <3>2. \A k \in DOMAIN Requests : \E f \in RequestTables :
            k \in DOMAIN f /\ Requests[k] = f[k]
      BY RequestsWhole DEF Includes
    <3> QED BY <3>0, <3>1, <3>2, AnswersWhole
  <2> QED BY <2>1 DEF ReplyTypes
<1>5. UpTypes = plain \cup DOMAIN Answers /\ DownTypes = notices \cup ReplyTypes
  BY DEF UpTypes, DownTypes, Packets
<1> QED BY <1>1, <1>2, <1>3, <1>4, <1>5

(* A command without a reply has a packet the server takes without one.    *)
LEMMA QuietTables ==
  /\ \A k \in DOMAIN QuietCommands : QuietCommands[k] \in DOMAIN QuietAnswers
  /\ \A t \in DOMAIN QuietAnswers :
       QuietAnswers[t] \subseteq {"none", "Warning", "Info"}
BY DEF QuietCommands, QuietAnswers

---------------------------------------------------------------------------
(* Numbering turns.                                                        *)

Longer(T, n, d) == [i \in 1 .. (n + 2) |-> IF i <= n + 1 THEN T[i]
                                                        ELSE T[n + 1] + d]
Shorter(T, n, d) == [i \in 1 .. n |-> T[i + 1] - d]
Lowered(T, n, d) == [i \in 1 .. (n + 1) |-> T[i] - d]

(* One more frame at the end takes the turn after the last.                *)
LEMMA NumbersAppend ==
  ASSUME NEW X, NEW s \in Seq(X), NEW f \in X, NEW R, NEW T, Numbers(s, T, R),
         NEW d \in Nat, d = IF Closes(f, R) THEN 1 ELSE 0
  PROVE  /\ Numbers(Append(s, f), Longer(T, Len(s), d), R)
         /\ \A i \in 1 .. (Len(s) + 1) : Longer(T, Len(s), d)[i] = T[i]
         /\ Longer(T, Len(s), d)[Len(s) + 2] = T[Len(s) + 1] + d
<1> DEFINE n == Len(s)
           V == Longer(T, n, d)
<1>1. n \in Nat /\ Len(Append(s, f)) = n + 1
      /\ (\A i \in 1 .. n : Append(s, f)[i] = s[i]) /\ Append(s, f)[n + 1] = f
  OBVIOUS
<1>2. /\ T \in [1 .. (n + 1) -> Nat]
      /\ \A i \in 1 .. n : T[i + 1] = T[i] + IF Closes(s[i], R) THEN 1 ELSE 0
      /\ \A i, j \in 1 .. (n + 1) : i <= j => T[i] <= T[j]
  BY DEF Numbers
<1> HIDE DEF n
<1>3. /\ \A i \in 1 .. (n + 1) : V[i] = T[i]
      /\ V[n + 2] = T[n + 1] + d
      /\ V \in [1 .. (n + 2) -> Nat]
  BY <1>1, <1>2 DEF Longer
<1> HIDE DEF V
<1>4. \A i \in 1 .. (n + 1) :
        V[i + 1] = V[i] + IF Closes(Append(s, f)[i], R) THEN 1 ELSE 0
  <2> TAKE i \in 1 .. (n + 1)
  <2>1. CASE i = n + 1
    <3>1. i + 1 = n + 2 /\ i \in 1 .. (n + 1)
      BY <2>1, <1>1
    <3> QED BY <2>1, <3>1, <1>1, <1>3
  <2>2. CASE i # n + 1
    <3>1. i \in 1 .. n /\ i + 1 \in 1 .. (n + 1)
      BY <2>2, <1>1
    <3> QED BY <3>1, <1>1, <1>2, <1>3
  <2> QED BY <2>1, <2>2
<1>5. \A i, j \in 1 .. (n + 2) : i <= j => V[i] <= V[j]
  <2> TAKE i, j \in 1 .. (n + 2)
  <2> HAVE i <= j
  <2>0. n + 1 \in 1 .. (n + 1) /\ T[n + 1] \in Nat
    BY <1>1, <1>2
  <2>1. CASE j = n + 2 /\ i # n + 2
    <3>1. i \in 1 .. (n + 1) /\ i <= n + 1 /\ T[i] \in Nat
      BY <2>1, <1>1, <1>2
    <3>2. T[i] <= T[n + 1]
      BY <3>1, <2>0, <1>2
    <3> QED BY <2>1, <3>1, <3>2, <2>0, <1>3
  <2>2. CASE j = n + 2 /\ i = n + 2
    BY <2>2, <2>0, <1>3
  <2>3. CASE j # n + 2
    <3>1. i \in 1 .. (n + 1) /\ j \in 1 .. (n + 1)
      BY <2>3, <1>1
    <3> QED BY <3>1, <1>2, <1>3
  <2> QED BY <2>1, <2>2, <2>3
<1>6. Numbers(Append(s, f), V, R)
  <2>1. Len(Append(s, f)) + 1 = n + 2
    BY <1>1
  <2> QED BY <1>1, <1>3, <1>4, <1>5, <2>1 DEF Numbers
<1> QED BY <1>3, <1>6 DEF n, V

(* Once the first frame is read, the others keep their turns, lowered by   *)
(* those it closed.                                                        *)
LEMMA NumbersTail ==
  ASSUME NEW X, NEW s \in Seq(X), s # <<>>, NEW R, NEW T, Numbers(s, T, R),
         NEW d \in Nat, d <= T[2]
  PROVE  /\ Numbers(Tail(s), Shorter(T, Len(s), d), R)
         /\ Len(s) \in Nat \ {0} /\ Len(Tail(s)) = Len(s) - 1
         /\ \A i \in 1 .. (Len(s) - 1) : Tail(s)[i] = s[i + 1]
         /\ \A i \in 1 .. Len(s) : /\ Shorter(T, Len(s), d)[i] = T[i + 1] - d
                                   /\ T[i + 1] \in Nat /\ d <= T[i + 1]
<1> DEFINE n == Len(s)
           V == Shorter(T, n, d)
<1>1. n \in Nat \ {0} /\ Len(Tail(s)) = n - 1
      /\ \A i \in 1 .. (n - 1) : Tail(s)[i] = s[i + 1]
  OBVIOUS
<1>2. /\ T \in [1 .. (n + 1) -> Nat]
      /\ \A i \in 1 .. n : T[i + 1] = T[i] + IF Closes(s[i], R) THEN 1 ELSE 0
      /\ \A i, j \in 1 .. (n + 1) : i <= j => T[i] <= T[j]
  BY DEF Numbers
<1> HIDE DEF n
<1>3. \A i \in 1 .. n : /\ V[i] = T[i + 1] - d /\ T[i + 1] \in Nat
                        /\ d <= T[i + 1]
  <2> TAKE i \in 1 .. n
  <2>1. i + 1 \in 1 .. (n + 1) /\ 2 \in 1 .. (n + 1) /\ 2 <= i + 1
    BY <1>1
  <2>2. T[i + 1] \in Nat /\ T[2] \in Nat /\ T[2] <= T[i + 1]
    BY <1>2, <2>1
  <2>3. V[i] = T[i + 1] - d
    BY DEF Shorter
  <2> QED BY <2>2, <2>3
<1>4. V \in [1 .. n -> Nat]
  <2>1. V = [i \in 1 .. n |-> V[i]]
    BY DEF Shorter
  <2> HIDE DEF V
  <2> QED BY <1>3, <2>1
<1> HIDE DEF V
<1>5. \A i \in 1 .. (n - 1) :
        V[i + 1] = V[i] + IF Closes(Tail(s)[i], R) THEN 1 ELSE 0
  <2> TAKE i \in 1 .. (n - 1)
  <2>1. i \in 1 .. n /\ i + 1 \in 1 .. n /\ i + 1 + 1 \in 1 .. (n + 1)
    BY <1>1
  <2>2. /\ V[i] = T[i + 1] - d /\ V[i + 1] = T[i + 1 + 1] - d
        /\ T[i + 1] \in Nat /\ T[i + 1 + 1] \in Nat
    BY <1>3, <2>1
  <2>3. T[i + 1 + 1] = T[i + 1] + IF Closes(s[i + 1], R) THEN 1 ELSE 0
    BY <1>2, <2>1
  <2> QED BY <1>1, <2>2, <2>3
<1>6. \A i, j \in 1 .. n : i <= j => V[i] <= V[j]
  <2> TAKE i, j \in 1 .. n
  <2> HAVE i <= j
  <2>1. i + 1 \in 1 .. (n + 1) /\ j + 1 \in 1 .. (n + 1) /\ i + 1 <= j + 1
    BY <1>1
  <2>2. T[i + 1] <= T[j + 1]
    BY <1>2, <2>1
  <2> QED BY <1>3, <2>2
<1>7. Numbers(Tail(s), V, R)
  <2>1. Len(Tail(s)) + 1 = n
    BY <1>1
  <2> QED BY <1>1, <1>4, <1>5, <1>6, <2>1 DEF Numbers
<1> QED BY <1>1, <1>3, <1>7 DEF n, V

(* Turns stay turns when all are lowered by the same number.               *)
LEMMA NumbersLower ==
  ASSUME NEW X, NEW s \in Seq(X), NEW R, NEW T, Numbers(s, T, R),
         NEW d \in Nat, d <= T[1]
  PROVE  /\ Numbers(s, Lowered(T, Len(s), d), R)
         /\ \A i \in 1 .. (Len(s) + 1) :
              /\ Lowered(T, Len(s), d)[i] = T[i] - d
              /\ T[i] \in Nat /\ d <= T[i]
<1> DEFINE n == Len(s)
           V == Lowered(T, n, d)
<1>1. n \in Nat
  OBVIOUS
<1>2. /\ T \in [1 .. (n + 1) -> Nat]
      /\ \A i \in 1 .. n : T[i + 1] = T[i] + IF Closes(s[i], R) THEN 1 ELSE 0
      /\ \A i, j \in 1 .. (n + 1) : i <= j => T[i] <= T[j]
  BY DEF Numbers
<1> HIDE DEF n
<1>3. \A i \in 1 .. (n + 1) : V[i] = T[i] - d /\ T[i] \in Nat /\ d <= T[i]
  <2> TAKE i \in 1 .. (n + 1)
  <2>1. 1 \in 1 .. (n + 1) /\ 1 <= i
    BY <1>1
  <2>2. T[1] <= T[i] /\ T[1] \in Nat /\ T[i] \in Nat
    BY <1>2, <2>1
  <2>3. V[i] = T[i] - d
    BY DEF Lowered
  <2> QED BY <2>2, <2>3
<1>4. V \in [1 .. (n + 1) -> Nat]
  <2>1. V = [i \in 1 .. (n + 1) |-> V[i]]
    BY DEF Lowered
  <2> HIDE DEF V
  <2> QED BY <1>3, <2>1
<1> HIDE DEF V
<1>5. \A i \in 1 .. n : V[i + 1] = V[i] + IF Closes(s[i], R) THEN 1 ELSE 0
  <2> TAKE i \in 1 .. n
  <2>1. i \in 1 .. (n + 1) /\ i + 1 \in 1 .. (n + 1)
    BY <1>1
  <2>2. /\ V[i] = T[i] - d /\ V[i + 1] = T[i + 1] - d
        /\ T[i] \in Nat /\ T[i + 1] \in Nat
    BY <1>3, <2>1
  <2> QED BY <1>2, <2>2
<1>6. \A i, j \in 1 .. (n + 1) : i <= j => V[i] <= V[j]
  BY <1>2, <1>3
<1>7. Numbers(s, V, R)
  BY <1>4, <1>5, <1>6 DEF Numbers, n
<1> QED BY <1>3, <1>7 DEF n, V
---------------------------------------------------------------------------
(* What happens to the ledger.                                             *)

(* What the types say of every call, debt and frame.                       *)
LEMMA Linked ==
  ASSUME NEW cs, NEW pd, NEW dn, NEW u, LinkTyped(cs, pd, dn, u)
  PROVE  /\ Len(pd) \in Nat /\ Len(dn) \in Nat /\ Len(u) \in Nat
         /\ \A c \in Calls : cs[c] \in CallRecords
         /\ \A k \in 1 .. Len(pd) : pd[k] \in OwedRecords
         /\ \A i \in 1 .. Len(dn) : /\ dn[i] \in FramesOf(DownTypes)
                                    /\ dn[i].type \in DownTypes
                                    /\ dn[i].call \in Calls \cup {None}
         /\ \A i \in 1 .. Len(u) : /\ u[i] \in FramesOf(UpTypes)
                                   /\ u[i].type \in UpTypes
                                   /\ u[i].call \in Calls \cup {None}
<1>1. \A X, s : s \in Seq(X) =>
        Len(s) \in Nat /\ \A i \in 1 .. Len(s) : s[i] \in X
  OBVIOUS
<1>2. /\ cs \in [Calls -> CallRecords] /\ pd \in Seq(OwedRecords)
      /\ dn \in Seq(FramesOf(DownTypes)) /\ u \in Seq(FramesOf(UpTypes))
  BY DEF LinkTyped
<1>3. \A T, f : f \in FramesOf(T) =>
        f.type \in T /\ f.call \in Calls \cup {None}
  BY DEF FramesOf
<1>4. \A i \in 1 .. Len(dn) : dn[i] \in FramesOf(DownTypes)
  BY <1>1, <1>2
<1>5. \A i \in 1 .. Len(u) : u[i] \in FramesOf(UpTypes)
  BY <1>1, <1>2
<1> QED BY <1>1, <1>2, <1>3, <1>4, <1>5

(* What a frame on its way up never is.                                    *)
LEMMA UpDistinct ==
  /\ {"Error", "Pong"} \cap UpTypes = {} /\ ReplyTypes \cap UpTypes = {}
  /\ \A t \in UpTypes : \/ t \in {"AuthRequest", "AuthResponse"}
                        \/ t = "Ping" \/ t \in DOMAIN Answers \/ t \in Packets
  /\ \A t \in DownTypes : \/ t \in {"AuthChallenge", "AuthOk", "AuthFailed",
                                    "Info", "Warning", "Disconnect",
                                    "ChatUserList"}
                          \/ t \in {"Pong", "Error"} \/ t \in ReplyTypes
<1>1. {"Error", "Pong"} \cap UpTypes = {}
  BY PacketsDistinct DEF UpTypes, DownTypes, Packets
<1>2. ReplyTypes \cap UpTypes = {}
  BY PacketsDistinct
<1> QED BY <1>1, <1>2 DEF UpTypes, DownTypes, Packets
(* Turns depend only on which frames close one.                            *)
LEMMA NumbersSame ==
  ASSUME NEW s, NEW T, NEW R, NEW S, Numbers(s, T, R),
         \A i \in 1 .. Len(s) : Closes(s[i], R) <=> Closes(s[i], S)
  PROVE  Numbers(s, T, S)
BY DEF Numbers

(* Calls are answered, judged or issued.                                   *)
LEMMA LedgerCalls ==
  ASSUME NEW cs, NEW cs2, NEW pd, NEW dn, NEW u, NEW listens,
         LinkTyped(cs, pd, dn, u), LedgerOf(cs, pd, dn, u, listens),
         \A c \in Calls : cs[c].verdict # "none" =>
            cs2[c].verdict = cs[c].verdict,
         \A c \in Calls : \/ cs2[c].cmd = cs[c].cmd
                          \/ /\ cs[c].verdict = "none"
                             /\ \A q \in 1 .. Len(u) : u[q].call # c
  PROVE  LedgerOf(cs2, pd, dn, u, listens)
<1> DEFINE R == Requesters(cs)
           S == Requesters(cs2)
<1>1. PICK D, U : LedgerAt(cs, pd, dn, u, listens, D, U)
  BY DEF LedgerOf
<1>2. \A c \in Calls : \/ cs[c].verdict # "none"
                       \/ \E q \in 1 .. Len(u) : u[q].call = c
         => cs2[c].cmd = cs[c].cmd
  OBVIOUS
<1>3. \A k, h, p : p.call \in Calls /\ Handled(cs, p, dn, D, k, h)
                     => Handled(cs2, p, dn, D, k, h)
  BY DEF Handled
<1>4. ASSUME NEW i \in 1 .. Len(dn), Turned(dn[i])
      PROVE  /\ D[i] \in 1 .. Len(pd) /\ DownFits(cs, pd[D[i]], dn, D, i)
  BY <1>1, <1>4 DEF LedgerAt, DownAt
<1>5. ASSUME NEW i \in 1 .. Len(dn), Turned(dn[i])
      PROVE  DownFits(cs2, pd[D[i]], dn, D, i)
  <2> DEFINE p == pd[D[i]]
             f == dn[i]
  <2>1. p \in OwedRecords
    BY <1>4, <1>5 DEF LinkTyped
  <2>2. f.type \in ReplyTypes => f.call \in Calls
    BY <1>4, <1>5, <2>1 DEF DownFits, OwedRecords
  <2>3. p.is \in {"join", "invite"} => p.call \in Calls
    BY <2>1 DEF OwedRecords
  <2>4. DownFits(cs, p, dn, D, i)
    BY <1>4, <1>5
  <2>5. f.type = "Error" => (f.call \in R <=> f.call \in S)
    BY <2>4, <1>2 DEF DownFits, Requesters
  <2> HIDE DEF p, R, S
  <2>6. f.type = "Error" => /\ p.call = f.call /\ f.call \in Calls
                            /\ cs2[f.call].verdict = "refused"
                            /\ IF f.call \in S THEN p.is = "reply"
                               ELSE p.is \in Quiet
    BY <2>4, <2>5 DEF DownFits, R
  <2>7. f.type = "Pong" =>
         /\ p.is # "reply"
         /\ p.is \in {"join", "invite"} => Handled(cs2, p, dn, D, D[i], i - 1)
    BY <2>3, <2>4, <1>3 DEF DownFits
  <2>8. f.type \in ReplyTypes =>
         /\ p.is = "reply" /\ p.call = f.call /\ p.expects = f.type
         /\ cs2[f.call].verdict = "granted"
    BY <2>2, <2>4 DEF DownFits
  <2> QED BY <2>6, <2>7, <2>8 DEF DownFits, p, S
<1>6. \A i \in 1 .. Len(dn) : Closes(dn[i], R) <=> Closes(dn[i], S)
  <2> TAKE i \in 1 .. Len(dn)
  <2>1. CASE dn[i].type = "Error"
    <3>1. dn[i].call \in R <=> dn[i].call \in S
      BY <1>2, <1>4, <2>1 DEF DownFits, Turned, Requesters
    <3> HIDE DEF R, S
    <3> QED BY <3>1 DEF Closes
  <2>2. CASE dn[i].type # "Error"
    BY <2>2 DEF Closes
  <2> QED BY <2>1, <2>2
<1>7. DownAt(cs2, pd, dn, D)
  <2>1. DownAt(cs, pd, dn, D)
    BY <1>1 DEF LedgerAt
  <2>2. Numbers(dn, D, S)
    <3>1. Numbers(dn, D, R)
      BY <2>1 DEF DownAt
    <3> HIDE DEF R, S
    <3> QED BY <3>1, <1>6, NumbersSame
  <2> QED BY <2>1, <2>2, <1>4, <1>5 DEF DownAt
<1>8. ASSUME listens
      PROVE  UpAt(cs2, pd, dn, u, D, U)
  <2>1. UpAt(cs, pd, dn, u, D, U)
    BY <1>1, <1>8 DEF LedgerAt
  <2>2. \A i \in 1 .. Len(u) : u[i].type # "Error"
    <3>1. \A i \in 1 .. Len(u) : u[i].type \in UpTypes
      BY Linked
    <3> QED BY <3>1, UpDistinct
  <2>3. \A i \in 1 .. Len(u) : Closes(u[i], R) <=> Closes(u[i], S)
    BY <2>2 DEF Closes
  <2>4. Numbers(u, U, S)
    <3>1. Numbers(u, U, R)
      BY <2>1 DEF UpAt, Sends
    <3> HIDE DEF R, S
    <3> QED BY <3>1, <2>3, NumbersSame
  <2>5. ASSUME NEW i \in 1 .. Len(u), Turned(u[i])
        PROVE  /\ U[i] \in 1 .. Len(pd)
               /\ UpFits(cs2, pd[U[i]], dn, D, u, U, i)
    <3> DEFINE p == pd[U[i]]
               f == u[i]
    <3>1. U[i] \in 1 .. Len(pd) /\ UpFits(cs, p, dn, D, u, U, i)
      BY <2>1, <2>5 DEF UpAt, Sends
    <3>2. p \in OwedRecords
      BY <3>1 DEF LinkTyped
    <3>3. p.is \in {"join", "invite"} => p.call \in Calls
      BY <3>2 DEF OwedRecords
    <3>4. f.call \in Calls => cs2[f.call].cmd = cs[f.call].cmd
      BY <1>2
    <3>5. f.call \in Calls => (f.call \in R <=> f.call \in S)
      BY <3>4 DEF Requesters
    <3>6. f.call \in R => f.call \in Calls
      BY DEF Requesters
    <3> HIDE DEF p, R, S
    <3>7. f.type \in DOMAIN Answers =>
            /\ p.is = "reply" /\ p.call = f.call /\ f.call \in S
            /\ f.type = Requests[cs2[f.call].cmd].packet
            /\ p.expects = Requests[cs2[f.call].cmd].expects
      BY <3>1, <3>4, <3>5, <3>6 DEF UpFits, R
    <3>8. f.type \in Packets =>
            p.is \in Quiet /\ p.call = f.call /\ f.call \in Calls \ S
      BY <3>1, <3>4, <3>5, <3>6 DEF UpFits, R
    <3>9. f.type = "Ping" =>
            /\ p.is # "reply"
            /\ p.is \in {"join", "invite"} =>
                 \/ /\ i > 1 /\ u[i - 1].call = p.call
                    /\ u[i - 1].type \in {"ChatJoin", "ChatInvite"}
                 \/ Handled(cs2, p, dn, D, U[i], Len(dn))
      BY <3>1, <3>3, <1>3 DEF UpFits
    <3> QED BY <3>1, <3>7, <3>8, <3>9 DEF UpFits, p, S
  <2> QED BY <2>1, <2>4, <2>5 DEF UpAt, Sends
<1> QED BY <1>7, <1>8 DEF LedgerAt, LedgerOf
(* The client sends a frame; or first writes down what it will be owed.    *)
LEMMA FitsElsewhere ==
  ASSUME NEW cs, NEW p, NEW dn, NEW D, NEW u, NEW U, NEW i \in Nat,
         NEW v, NEW V, NEW j \in Nat, UpFits(cs, p, dn, D, u, U, i),
         u[i] = v[j], U[i] = V[j], i > 1 => j > 1 /\ u[i - 1] = v[j - 1]
  PROVE  UpFits(cs, p, dn, D, v, V, j)
BY DEF UpFits

(* A frame written last belongs to the debt entered last.                  *)
LEMMA SendsFrame ==
  ASSUME NEW cs, NEW pd, NEW dn, NEW u, NEW D, NEW U,
         NEW f \in FramesOf(UpTypes), u \in Seq(FramesOf(UpTypes)),
         Sends(cs, pd, dn, u, D, U),
         Turned(f) =>
           /\ U[Len(u) + 1] \in 1 .. Len(pd)
           /\ \A V : V[Len(u) + 1] = U[Len(u) + 1] =>
                UpFits(cs, pd[U[Len(u) + 1]], dn, D, Append(u, f), V,
                       Len(u) + 1)
  PROVE  \E V : /\ Sends(cs, pd, dn, Append(u, f), D, V)
                /\ V[Len(u) + 2] = U[Len(u) + 1]
                     + IF Closes(f, Requesters(cs)) THEN 1 ELSE 0
                /\ \A i \in 1 .. (Len(u) + 1) : V[i] = U[i]
<1> DEFINE n == Len(u)
           v == Append(u, f)
           d == IF Closes(f, Requesters(cs)) THEN 1 ELSE 0
           V == Longer(U, n, d)
           R == Requesters(cs)
<1>1. /\ n \in Nat /\ Len(v) = n + 1 /\ v[n + 1] = f
      /\ \A i \in 1 .. n : v[i] = u[i]
  OBVIOUS
<1>2. /\ Numbers(v, V, R) /\ \A i \in 1 .. (n + 1) : V[i] = U[i]
      /\ V[n + 2] = U[n + 1] + d
  BY NumbersAppend DEF Sends
<1> HIDE DEF n, v, V, R, d
<1>3. V[1] = D[Len(dn) + 1]
  BY <1>1, <1>2 DEF Sends
<1>4. ASSUME NEW i \in 1 .. Len(v), Turned(v[i])
      PROVE  V[i] \in 1 .. Len(pd) /\ UpFits(cs, pd[V[i]], dn, D, v, V, i)
  <2>1. CASE i \in 1 .. n
    <3>1. /\ v[i] = u[i] /\ V[i] = U[i] /\ i \in Nat
          /\ i > 1 => v[i - 1] = u[i - 1]
      BY <2>1, <1>1, <1>2
    <3>2. U[i] \in 1 .. Len(pd) /\ UpFits(cs, pd[U[i]], dn, D, u, U, i)
      BY <2>1, <3>1, <1>4 DEF Sends, n
    <3>3. UpFits(cs, pd[U[i]], dn, D, v, V, i)
      BY <3>1, <3>2, FitsElsewhere
    <3> QED BY <3>1, <3>2, <3>3
  <2>2. CASE i = n + 1
    <3>1. Turned(f) /\ V[n + 1] = U[n + 1]
      BY <2>2, <1>1, <1>2, <1>4
    <3>2. /\ U[n + 1] \in 1 .. Len(pd)
          /\ UpFits(cs, pd[U[n + 1]], dn, D, v, V, n + 1)
      BY <3>1 DEF n, v
    <3> QED BY <2>2, <3>1, <3>2
  <2> QED BY <2>1, <2>2, <1>1
<1>5. Sends(cs, pd, dn, v, D, V)
  BY <1>2, <1>3, <1>4 DEF Sends, R
<1> QED BY <1>2, <1>5 DEF n, v, d

(* A debt entered behind the others disturbs none of the turns.            *)
LEMMA OwesMore ==
  ASSUME NEW cs, NEW pd, NEW dn, NEW u, NEW D, NEW U, NEW p,
         LinkTyped(cs, pd, dn, u), p \in OwedRecords,
         DownAt(cs, pd, dn, D)
  PROVE  /\ DownAt(cs, Append(pd, p), dn, D)
         /\ Len(Append(pd, p)) = Len(pd) + 1
         /\ Append(pd, p)[Len(pd) + 1] = p
         /\ Sends(cs, pd, dn, u, D, U) => Sends(cs, Append(pd, p), dn, u, D, U)
<1> DEFINE qd == Append(pd, p)
<1>1. /\ Len(pd) \in Nat /\ Len(qd) = Len(pd) + 1 /\ qd[Len(pd) + 1] = p
      /\ \A k \in 1 .. Len(pd) : qd[k] = pd[k] /\ k \in 1 .. Len(qd)
  BY DEF LinkTyped
<1>2. D[Len(dn) + 1] \in Nat
  BY Linked DEF DownAt, Numbers
<1> HIDE DEF qd
<1>3. DownAt(cs, qd, dn, D)
  BY <1>1, <1>2 DEF DownAt
<1>4. Sends(cs, pd, dn, u, D, U) => Sends(cs, qd, dn, u, D, U)
  BY <1>1 DEF Sends
<1> QED BY <1>1, <1>3, <1>4 DEF qd
(* A login frame belongs to no turn.                                       *)
LEMMA LedgerAuthUp ==
  ASSUME NEW cs, NEW pd, NEW dn, NEW u, NEW listens, NEW f,
         LinkTyped(cs, pd, dn, u), LedgerOf(cs, pd, dn, u, listens),
         f \in FramesOf(UpTypes), f.type \in AuthUp
  PROVE  LedgerOf(cs, pd, dn, Append(u, f), listens)
<1>1. PICK D, U : LedgerAt(cs, pd, dn, u, listens, D, U)
  BY DEF LedgerOf
<1>2. ~Turned(f) /\ ~Closes(f, Requesters(cs))
  BY PacketsDistinct DEF Turned, Closes, AuthUp, UpTypes, DownTypes
<1>3. ASSUME listens
      PROVE  \E V : UpAt(cs, pd, dn, Append(u, f), D, V)
  <2>1. Sends(cs, pd, dn, u, D, U) /\ U[Len(u) + 1] = Len(pd) + 1
    BY <1>1, <1>3 DEF LedgerAt, UpAt
  <2>2. u \in Seq(FramesOf(UpTypes)) /\ Len(Append(u, f)) = Len(u) + 1
    BY DEF LinkTyped
  <2>3. PICK V : /\ Sends(cs, pd, dn, Append(u, f), D, V)
                 /\ V[Len(u) + 2] = U[Len(u) + 1] + 0
    BY <2>1, <2>2, <1>2, SendsFrame
  <2>4. Len(u) \in Nat /\ Len(pd) \in Nat
    BY Linked
  <2> QED BY <2>1, <2>2, <2>3, <2>4 DEF UpAt
<1> QED BY <1>1, <1>3 DEF LedgerAt, LedgerOf

(* A frame that ends a turn, and the debt it makes.                        *)
Asks(cs, f, p) ==
  \/ f.type = "Ping" /\ p.is \in {"ping", "plain"}
  \/ /\ f.type \in DOMAIN Answers
     /\ p.is = "reply" /\ p.call = f.call /\ f.call \in Requesters(cs)
     /\ f.type = Requests[cs[f.call].cmd].packet
     /\ p.expects = Requests[cs[f.call].cmd].expects

(* A request and its debt, entered together, are the last turn.            *)
LEMMA LedgerRequest ==
  ASSUME NEW cs, NEW pd, NEW dn, NEW u, NEW listens, NEW f, NEW p,
         LinkTyped(cs, pd, dn, u), LedgerOf(cs, pd, dn, u, listens),
         f \in FramesOf(UpTypes), p \in OwedRecords, Asks(cs, f, p)
  PROVE  LedgerOf(cs, Append(pd, p), dn, Append(u, f), listens)
<1> DEFINE qd == Append(pd, p)
           n == Len(u)
<1>1. PICK D, U : LedgerAt(cs, pd, dn, u, listens, D, U)
  BY DEF LedgerOf
<1>2. /\ DownAt(cs, qd, dn, D) /\ Len(qd) = Len(pd) + 1 /\ qd[Len(pd) + 1] = p
      /\ Sends(cs, pd, dn, u, D, U) => Sends(cs, qd, dn, u, D, U)
  BY <1>1, OwesMore DEF LedgerAt
<1> HIDE DEF qd
<1>3. ASSUME listens
      PROVE  \E V : UpAt(cs, qd, dn, Append(u, f), D, V)
  <2>1. /\ Sends(cs, qd, dn, u, D, U) /\ U[n + 1] = Len(pd) + 1
        /\ Len(pd) \in Nat /\ n \in Nat
    BY <1>1, <1>2, <1>3, Linked DEF LedgerAt, UpAt
  <2>2. u \in Seq(FramesOf(UpTypes)) /\ Len(Append(u, f)) = n + 1
    BY DEF LinkTyped
  <2>3. Closes(f, Requesters(cs))
    BY DEF Asks, Closes
  <2>4. \A V : UpFits(cs, p, dn, D, Append(u, f), V, n + 1)
    <3>1. Append(u, f)[n + 1] = f
      BY <2>2
    <3>2. \/ /\ f.type = "Ping" /\ f.type \notin DOMAIN Answers
             /\ f.type \notin Packets
          \/ /\ f.type \in DOMAIN Answers /\ f.type # "Ping"
             /\ f.type \notin Packets
      BY PacketsDistinct DEF Asks
    <3> QED BY <3>1, <3>2 DEF UpFits, Asks
  <2>5. PICK V : /\ Sends(cs, qd, dn, Append(u, f), D, V)
                 /\ V[n + 2] = U[n + 1] + 1
    <3>1. U[n + 1] \in 1 .. Len(qd) /\ qd[U[n + 1]] = p
      BY <2>1, <1>2
    <3> QED BY <2>1, <2>2, <2>3, <2>4, <3>1, SendsFrame
  <2> QED BY <1>2, <2>1, <2>2, <2>5 DEF UpAt
<1> QED BY <1>2, <1>3 DEF LedgerAt, LedgerOf, qd

(* A packet that may go unanswered, with its barrier.                      *)
LEMMA LedgerPair ==
  ASSUME NEW cs, NEW pd, NEW dn, NEW u, NEW listens, NEW f, NEW p,
         LinkTyped(cs, pd, dn, u), LedgerOf(cs, pd, dn, u, listens),
         f \in FramesOf(UpTypes), p \in OwedRecords, f.type \in Packets,
         p.is \in Quiet, p.call = f.call, f.call \in Calls \ Requesters(cs),
         p.is \in {"join", "invite"} => f.type \in {"ChatJoin", "ChatInvite"}
  PROVE  LedgerOf(cs, Append(pd, p), dn, u \o <<f, Ping>>, listens)
<1> DEFINE qd == Append(pd, p)
           n == Len(u)
           v == Append(u, f)
           w == Append(v, Ping)
<1>1. PICK D, U : LedgerAt(cs, pd, dn, u, listens, D, U)
  BY DEF LedgerOf
<1>2. /\ DownAt(cs, qd, dn, D) /\ Len(qd) = Len(pd) + 1 /\ qd[Len(pd) + 1] = p
      /\ Sends(cs, pd, dn, u, D, U) => Sends(cs, qd, dn, u, D, U)
  BY <1>1, OwesMore DEF LedgerAt
<1>3. Ping \in FramesOf(UpTypes) /\ Ping.type = "Ping"
  BY DEF Ping, Frame, FramesOf, UpTypes, Rooms
<1>4. /\ u \in Seq(FramesOf(UpTypes)) /\ v \in Seq(FramesOf(UpTypes))
      /\ Len(v) = n + 1 /\ v[n + 1] = f /\ Len(w) = n + 2
      /\ w[n + 1] = f /\ w[n + 2] = Ping /\ w = u \o <<f, Ping>>
  <2>1. u \in Seq(FramesOf(UpTypes))
    BY DEF LinkTyped
  <2>2. /\ v \in Seq(FramesOf(UpTypes)) /\ n \in Nat
        /\ Len(v) = n + 1 /\ v[n + 1] = f
        /\ \A i \in 1 .. n : v[i] = u[i]
    BY <2>1
  <2> HIDE DEF v
  <2>3. /\ w \in Seq(FramesOf(UpTypes)) /\ Len(w) = n + 2
        /\ w[n + 1] = f /\ w[n + 2] = Ping
        /\ \A i \in 1 .. n : w[i] = u[i]
    BY <1>3, <2>2
  <2> HIDE DEF w, n
  <2>4. w = u \o <<f, Ping>>
    <3> DEFINE x == u \o <<f, Ping>>
    <3>1. /\ x \in Seq(FramesOf(UpTypes)) /\ Len(x) = n + 2
          /\ x[n + 1] = f /\ x[n + 2] = Ping
          /\ \A i \in 1 .. n : x[i] = u[i]
      BY <1>3, <2>1 DEF n
    <3> HIDE DEF x
    <3>2. \A i \in 1 .. (n + 2) : x[i] = w[i]
      <4> TAKE i \in 1 .. (n + 2)
      <4>1. i \in 1 .. n \/ i = n + 1 \/ i = n + 2
        BY <2>2
      <4> QED BY <4>1, <3>1, <2>3
    <3>3. x = w
      BY ONLY <3>1, <3>2, <2>2, <2>3
    <3> QED BY ONLY <3>3 DEF x
  <2> QED BY <2>1, <2>2, <2>3, <2>4
<1> HIDE DEF qd, n, v, w
<1>5. ASSUME listens
      PROVE  \E V : UpAt(cs, qd, dn, w, D, V)
  <2>1. /\ Sends(cs, qd, dn, u, D, U) /\ U[n + 1] = Len(pd) + 1
        /\ Len(pd) \in Nat /\ n \in Nat
    BY <1>1, <1>2, <1>5, Linked DEF LedgerAt, UpAt, n
  <2>2. /\ f.type # "Ping" /\ f.type \notin DOMAIN Answers
        /\ ~Closes(f, Requesters(cs))
    BY PacketsDistinct DEF Closes, UpTypes, Packets
  <2>3. \A V : UpFits(cs, p, dn, D, v, V, n + 1)
    BY <1>4, <2>2 DEF UpFits
  <2>4. U[n + 1] \in 1 .. Len(qd) /\ qd[U[n + 1]] = p
    BY <2>1, <1>2
  <2>5. PICK V : /\ Sends(cs, qd, dn, v, D, V)
                 /\ V[n + 2] = U[n + 1] + 0
    <3>1. /\ U[Len(u) + 1] \in 1 .. Len(qd)
          /\ \A V : V[Len(u) + 1] = U[Len(u) + 1] =>
               UpFits(cs, qd[U[Len(u) + 1]], dn, D, Append(u, f), V,
                      Len(u) + 1)
      BY <2>3, <2>4 DEF v, n
    <3>2. 0 = IF Closes(f, Requesters(cs)) THEN 1 ELSE 0
      BY <2>2
    <3>3. \E V : /\ Sends(cs, qd, dn, Append(u, f), D, V)
                 /\ V[Len(u) + 2] = U[Len(u) + 1] + 0
      <4>1. u \in Seq(FramesOf(UpTypes)) /\ f \in FramesOf(UpTypes)
        BY <1>4
      <4>2. Sends(cs, qd, dn, u, D, U)
        BY <2>1
      <4> QED BY ONLY <4>1, <4>2, <3>1, <3>2, SendsFrame
    <3> QED BY <3>3 DEF v, n
  <2>6. /\ V[n + 2] \in 1 .. Len(qd) /\ qd[V[n + 2]] = p
        /\ V[n + 2] = Len(pd) + 1
    BY <2>1, <2>4, <2>5
  <2>7. \A W : UpFits(cs, p, dn, D, w, W, n + 2)
    <3>1. "Ping" \notin DOMAIN Answers /\ "Ping" \notin Packets
      BY PacketsDistinct
    <3>2. n + 2 > 1 /\ n + 2 - 1 = n + 1
      BY <2>1
    <3>3. p.is # "reply"
      BY DEF Quiet
    <3> QED BY <1>3, <1>4, <3>1, <3>2, <3>3 DEF UpFits
  <2>8. Closes(Ping, Requesters(cs))
    BY <1>3 DEF Closes
  <2>9. PICK W : /\ Sends(cs, qd, dn, w, D, W)
                 /\ W[Len(v) + 2] = V[Len(v) + 1] + 1
    <3>1. n + 1 + 1 = n + 2
      BY <2>1
    <3>2. /\ V[Len(v) + 1] \in 1 .. Len(qd)
          /\ \A W : W[Len(v) + 1] = V[Len(v) + 1] =>
               UpFits(cs, qd[V[Len(v) + 1]], dn, D, Append(v, Ping), W,
                      Len(v) + 1)
      BY <2>6, <2>7, <3>1, <1>4 DEF w
    <3>3. 1 = IF Closes(Ping, Requesters(cs)) THEN 1 ELSE 0
      BY <2>8
    <3>4. \E W : /\ Sends(cs, qd, dn, Append(v, Ping), D, W)
                 /\ W[Len(v) + 2] = V[Len(v) + 1] + 1
      <4>1. v \in Seq(FramesOf(UpTypes)) /\ Ping \in FramesOf(UpTypes)
        BY <1>3, <1>4
      <4>2. Sends(cs, qd, dn, v, D, V)
        BY <2>5
      <4> QED BY ONLY <4>1, <4>2, <3>2, <3>3, SendsFrame
    <3> QED BY <3>4 DEF w
  <2>10. W[Len(w) + 1] = Len(qd) + 1
    <3>1. n + 1 + 2 = n + 3 /\ n + 1 + 1 = n + 2 /\ n + 2 + 1 = n + 3
      BY <2>1
    <3> QED BY <3>1, <2>6, <2>9, <1>2, <1>4
  <2> QED BY <2>9, <2>10 DEF UpAt
<1> QED BY <1>2, <1>4, <1>5 DEF LedgerAt, LedgerOf, qd
(* The client reads a frame.  A debt that stays may have its refusal noted.  *)
Like(p, q) ==
  /\ q.is = p.is /\ q.call = p.call /\ q.expects = p.expects
  /\ p.error => q.error

Behind(dn, D, en, E, d, m) ==
  \A r \in 1 .. m : en[r] = dn[r + 1] /\ E[r] = D[r + 1] - d

(* What the server has handled stays handled when the first frame down is  *)
(* read.                                                                   *)
LEMMA HandledRead ==
  ASSUME NEW cs, NEW p, NEW q, NEW dn, NEW en, NEW D, NEW E, NEW k, NEW d,
         NEW h \in Nat, NEW m \in Nat, NEW l, NEW g, h <= m + 1, l = k - d,
         g = h - 1,
         Handled(cs, p, dn, D, k, h), Like(p, q), Behind(dn, D, en, E, d, m),
         dn[1].type = "Error" /\ D[1] = k => q.error
  PROVE  Handled(cs, q, en, E, l, g)
<1>1. q.call = p.call /\ cs[q.call].verdict # "none"
  BY DEF Handled, Like
<1>2. ASSUME cs[q.call].verdict = "refused", ~q.error
      PROVE  \E r \in 1 .. (h - 1) : /\ en[r].type = "Error" /\ E[r] = k - d
                                     /\ en[r].call = q.call
  <2>1. PICK r \in 1 .. h : /\ dn[r].type = "Error" /\ D[r] = k
                            /\ dn[r].call = p.call
    BY <1>1, <1>2 DEF Handled, Like
  <2>2. r # 1
    BY <2>1, <1>2
  <2>3. r - 1 \in 1 .. (h - 1) /\ r - 1 \in 1 .. m /\ r - 1 + 1 = r
    BY <2>2
  <2>4. en[r - 1] = dn[r] /\ E[r - 1] = D[r] - d
    BY <2>3 DEF Behind
  <2> QED BY <1>1, <2>1, <2>3, <2>4
<1> QED BY <1>1, <1>2 DEF Handled

(* The first frame down is read, and its debt struck off if it closes the  *)
(* turn.                                                                   *)
LEMMA LedgerRead ==
  ASSUME NEW cs, NEW pd, NEW dn, NEW u, NEW listens, NEW qd, NEW d \in {0, 1},
         LinkTyped(cs, pd, dn, u), LedgerOf(cs, pd, dn, u, listens),
         dn # <<>>, d = 1 <=> Closes(dn[1], Requesters(cs)),
         qd \in Seq(OwedRecords), Len(qd) = Len(pd) - d,
         \A k \in 1 .. Len(pd) : k > d => Like(pd[k], qd[k - d]),
         dn[1].type = "Error" /\ d = 0 => qd[1].error
  PROVE  LedgerOf(cs, qd, Tail(dn), u, listens)
<1> DEFINE n == Len(dn)
           en == Tail(dn)
           R == Requesters(cs)
<1>1. PICK D, U : LedgerAt(cs, pd, dn, u, listens, D, U)
  BY DEF LedgerOf
<1> DEFINE E == Shorter(D, n, d)
           V == Lowered(U, Len(u), d)
<1>2. /\ D[1] = 1 /\ Numbers(dn, D, R) /\ D[n + 1] <= Len(pd) + 1
      /\ Len(pd) \in Nat /\ n \in Nat \ {0} /\ Len(u) \in Nat
  BY <1>1, Linked DEF LedgerAt, DownAt, LinkTyped
<1>3. D[2] = 1 + d
  BY <1>2 DEF Numbers
<1>4. /\ Numbers(en, E, R) /\ Len(en) = n - 1
      /\ \A i \in 1 .. (n - 1) : en[i] = dn[i + 1]
      /\ \A i \in 1 .. n : /\ E[i] = D[i + 1] - d
                           /\ D[i + 1] \in Nat /\ d <= D[i + 1]
  <2>1. dn \in Seq(FramesOf(DownTypes)) /\ d \in Nat /\ d <= D[2]
    BY <1>3 DEF LinkTyped
  <2> QED BY <1>2, <2>1, NumbersTail
<1>5. \A i \in 2 .. (n + 1) : D[i] >= 1 + d
  <2>1. \A i \in 2 .. (n + 1) :
          2 \in 1 .. (n + 1) /\ i \in 1 .. (n + 1) /\ 2 <= i
    BY <1>2
  <2>2. \A i, j \in 1 .. (n + 1) : i <= j => D[i] <= D[j]
    BY <1>2 DEF Numbers
  <2> QED BY <2>1, <2>2, <1>2, <1>3
<1>6. \A k \in 1 .. Len(pd) : k > d =>
         (dn[1].type = "Error" /\ D[1] = k => qd[k - d].error)
  <2> TAKE k \in 1 .. Len(pd)
  <2> HAVE k > d
  <2> HAVE dn[1].type = "Error" /\ D[1] = k
  <2> QED BY <1>2
<1> HIDE DEF n, en, R, E, V
<1> DEFINE m == n - 1
<1>7. /\ Behind(dn, D, en, E, d, m) /\ m \in Nat /\ n = m + 1
  BY <1>4, <1>2 DEF Behind
<1> HIDE DEF m
<1>8. ASSUME NEW i \in 1 .. Len(en), Turned(en[i])
      PROVE  E[i] \in 1 .. Len(qd) /\ DownFits(cs, qd[E[i]], en, E, i)
  <2> DEFINE k == D[i + 1]
  <2>1. /\ i + 1 \in 1 .. n /\ i \in 1 .. n /\ en[i] = dn[i + 1]
        /\ i + 1 \in 2 .. (n + 1) /\ E[i] = k - d
    <3>1. Len(en) = n - 1 /\ n \in Nat
      BY <1>2, <1>4
    <3>2. /\ i \in 1 .. (n - 1) /\ i \in 1 .. n
          /\ i + 1 \in 1 .. n /\ i + 1 \in 2 .. (n + 1)
      BY ONLY <3>1, i \in 1 .. Len(en)
    <3>3. en[i] = dn[i + 1] /\ E[i] = D[i + 1] - d
      BY ONLY <1>4, <3>2
    <3> QED BY ONLY <3>2, <3>3
  <2>2. k \in 1 .. Len(pd) /\ DownFits(cs, pd[k], dn, D, i + 1)
    <3>1. DownAt(cs, pd, dn, D)
      BY <1>1 DEF LedgerAt
    <3>2. i + 1 \in 1 .. Len(dn) /\ Turned(dn[i + 1])
      BY <1>8, <2>1 DEF n
    <3> QED BY ONLY <3>1, <3>2 DEF DownAt
  <2>3. k > d /\ k - d \in 1 .. Len(qd)
    <3>1. k >= 1 + d /\ k \in 1 .. Len(pd)
      BY <1>5, <2>1, <2>2
    <3> HIDE DEF k
    <3> QED BY ONLY <3>1, <1>2, Len(qd) = Len(pd) - d, d \in {0, 1}
  <2>4. Like(pd[k], qd[k - d])
    BY <2>2, <2>3
  <2> HIDE DEF k
  <2>5. Handled(cs, pd[k], dn, D, k, i) =>
          Handled(cs, qd[k - d], en, E, k - d, i - 1)
    <3>1. i \in Nat /\ i <= m + 1
      BY <2>1, <1>7
    <3>2. dn[1].type = "Error" /\ D[1] = k => qd[k - d].error
      BY <1>6, <2>2, <2>3
    <3> DEFINE l == k - d
               g == i - 1
    <3>3. l = k - d /\ g = i - 1
      OBVIOUS
    <3> HIDE DEF l, g
    <3>4. Handled(cs, pd[k], dn, D, k, i) => Handled(cs, qd[l], en, E, l, g)
      BY <2>4, <3>1, <3>2, <3>3, <1>7, HandledRead
    <3> QED BY <3>3, <3>4
  <2>6. i + 1 - 1 = i
    BY <2>1
  <2>7. DownFits(cs, qd[k - d], en, E, i)
    BY <2>1, <2>2, <2>4, <2>5, <2>6 DEF DownFits, Like, k
  <2> QED BY <2>1, <2>3, <2>7
<1>9. DownAt(cs, qd, en, E)
  <2>1. 1 \in 1 .. n /\ n \in 1 .. n /\ D[n + 1] \in Nat
    BY <1>2, <1>4
  <2>2. E[1] = 1
    BY <2>1, <1>3, <1>4
  <2>3. E[Len(en) + 1] <= Len(qd) + 1
    BY <2>1, <1>2, <1>4
  <2> QED BY <2>2, <2>3, <1>4, <1>8 DEF DownAt, R
<1>10. ASSUME listens
       PROVE  UpAt(cs, qd, en, u, E, V)
  <2>1. /\ Numbers(u, U, R) /\ U[1] = D[n + 1] /\ U[Len(u) + 1] = Len(pd) + 1
    BY <1>1, <1>10 DEF LedgerAt, UpAt, Sends, n, R
  <2>2. n + 1 \in 2 .. (n + 1)
    BY <1>2
  <2>3. U[1] >= 1 + d /\ U[1] \in Nat
    BY <2>1, <2>2, <1>5, <1>2, <1>4
  <2>4. /\ Numbers(u, V, R)
        /\ \A i \in 1 .. (Len(u) + 1) : V[i] = U[i] - d /\ U[i] \in Nat
    <3>1. d \in Nat /\ d <= U[1] /\ u \in Seq(FramesOf(UpTypes))
      BY <2>3 DEF LinkTyped
    <3> QED BY <2>1, <3>1, NumbersLower DEF V
  <2>5. \A i \in 1 .. (Len(u) + 1) : U[i] >= 1 + d
    <3>1. \A i \in 1 .. (Len(u) + 1) : 1 \in 1 .. (Len(u) + 1) /\ 1 <= i
      BY <1>2
    <3>2. \A i, j \in 1 .. (Len(u) + 1) : i <= j => U[i] <= U[j]
      BY <2>1 DEF Numbers
    <3> QED BY <3>1, <3>2, <2>3, <2>4
  <2>6. V[1] = E[Len(en) + 1]
    <3>1. 1 \in 1 .. (Len(u) + 1) /\ n \in 1 .. n
      BY <1>2
    <3>2. V[1] = U[1] - d /\ E[n] = D[n + 1] - d
      BY ONLY <3>1, <2>4, <1>4
    <3>3. U[1] = D[n + 1] /\ Len(en) + 1 = n
      BY <2>1, <1>2, <1>4
    <3> QED BY ONLY <3>2, <3>3
  <2>7. V[Len(u) + 1] = Len(qd) + 1
    <3>1. Len(u) + 1 \in 1 .. (Len(u) + 1)
      BY <1>2
    <3>2. V[Len(u) + 1] = U[Len(u) + 1] - d
      BY <3>1, <2>4
    <3> QED BY <3>2, <2>1, <1>2
  <2>8. ASSUME NEW i \in 1 .. Len(u), Turned(u[i])
        PROVE  V[i] \in 1 .. Len(qd) /\ UpFits(cs, qd[V[i]], en, E, u, V, i)
    <3> DEFINE k == U[i]
    <3>1. k \in 1 .. Len(pd) /\ UpFits(cs, pd[k], dn, D, u, U, i)
      BY <1>1, <1>10, <2>8 DEF LedgerAt, UpAt, Sends
    <3>6. i \in 1 .. (Len(u) + 1)
      BY <1>2
    <3>7. V[i] = k - d /\ k >= 1 + d /\ k \in Nat
      BY ONLY <2>4, <2>5, <3>6
    <3> HIDE DEF k
    <3>2. i \in 1 .. (Len(u) + 1) /\ V[i] = k - d /\ k > d
      BY ONLY <3>6, <3>7, d \in {0, 1}
    <3>3. k - d \in 1 .. Len(qd)
      BY ONLY <3>1, <3>2, <3>7, <1>2, d \in {0, 1}, Len(qd) = Len(pd) - d
    <3>4. Like(pd[k], qd[k - d])
      BY <3>1, <3>2
    <3>5. Handled(cs, pd[k], dn, D, k, n)
            => Handled(cs, qd[k - d], en, E, k - d, n - 1)
      <4>1. n \in Nat /\ n <= m + 1
        BY <1>7
      <4>2. dn[1].type = "Error" /\ D[1] = k => qd[k - d].error
        BY <1>6, <3>1, <3>2
      <4> DEFINE l == k - d
                 g == n - 1
      <4>3. l = k - d /\ g = n - 1
        OBVIOUS
      <4> HIDE DEF l, g
      <4>4. Handled(cs, pd[k], dn, D, k, n) => Handled(cs, qd[l], en, E, l, g)
        <5>1. Behind(dn, D, en, E, d, m) /\ m \in Nat
          BY <1>7
        <5> QED BY <3>4, <4>1, <4>2, <4>3, <5>1, HandledRead
      <4> QED BY <4>3, <4>4
    <3>8. UpFits(cs, qd[k - d], en, E, u, V, i)
      BY <3>1, <3>2, <3>4, <3>5, <1>4 DEF UpFits, Like, k, n
    <3> QED BY <3>2, <3>3, <3>8
  <2> QED BY <2>4, <2>6, <2>7, <2>8 DEF UpAt, Sends, R
<1> QED BY <1>9, <1>10 DEF LedgerAt, LedgerOf, en
(* The server writes frames: what was on its way stays as it was.          *)
Extends(en, E, dn, D, n) ==
  \A i \in 1 .. n : en[i] = dn[i] /\ E[i] = D[i]

(* What the server has handled stays handled when it says more.            *)
LEMMA HandledGrows ==
  ASSUME NEW cs, NEW p, NEW dn, NEW en, NEW D, NEW E, NEW k, NEW n,
         NEW h \in Nat, NEW l \in Nat, h <= n, h <= l, n \in Nat,
         Handled(cs, p, dn, D, k, h), Extends(en, E, dn, D, n)
  PROVE  Handled(cs, p, en, E, k, l)
<1>1. ASSUME cs[p.call].verdict = "refused", ~p.error
      PROVE  \E r \in 1 .. l : /\ en[r].type = "Error" /\ E[r] = k
                               /\ en[r].call = p.call
  <2>1. PICK r \in 1 .. h : /\ dn[r].type = "Error" /\ D[r] = k
                            /\ dn[r].call = p.call
    BY <1>1 DEF Handled
  <2>2. r \in 1 .. n /\ r \in 1 .. l
    OBVIOUS
  <2>3. en[r] = dn[r] /\ E[r] = D[r]
    BY <2>2 DEF Extends
  <2> QED BY <2>1, <2>2, <2>3
<1> QED BY <1>1 DEF Handled

(* The server's next frame down is numbered like the packet it answers.    *)
LEMMA DownGrows ==
  ASSUME NEW cs, NEW pd, NEW dn, NEW D, NEW g \in FramesOf(DownTypes),
         dn \in Seq(FramesOf(DownTypes)), pd \in Seq(OwedRecords),
         DownAt(cs, pd, dn, D),
         D[Len(dn) + 1] + (IF Closes(g, Requesters(cs)) THEN 1 ELSE 0)
           <= Len(pd) + 1,
         Turned(g) =>
           /\ D[Len(dn) + 1] \in 1 .. Len(pd)
           /\ \A E : Extends(Append(dn, g), E, dn, D, Len(dn))
                       /\ E[Len(dn) + 1] = D[Len(dn) + 1] =>
                DownFits(cs, pd[D[Len(dn) + 1]], Append(dn, g), E,
                         Len(dn) + 1)
  PROVE  \E E : /\ DownAt(cs, pd, Append(dn, g), E)
                /\ E[Len(dn) + 2] = D[Len(dn) + 1]
                     + IF Closes(g, Requesters(cs)) THEN 1 ELSE 0
                /\ Extends(Append(dn, g), E, dn, D, Len(dn))
                /\ E[Len(dn) + 1] = D[Len(dn) + 1]
<1> DEFINE n == Len(dn)
           en == Append(dn, g)
           d == IF Closes(g, Requesters(cs)) THEN 1 ELSE 0
           E == Longer(D, n, d)
           R == Requesters(cs)
<1>1. /\ n \in Nat /\ Len(en) = n + 1 /\ en[n + 1] = g /\ Len(pd) \in Nat
      /\ \A i \in 1 .. n : en[i] = dn[i]
  OBVIOUS
<1>2. /\ Numbers(en, E, R) /\ \A i \in 1 .. (n + 1) : E[i] = D[i]
      /\ E[n + 2] = D[n + 1] + d
  BY NumbersAppend DEF DownAt
<1> HIDE DEF n, en, E, R, d
<1>3. Extends(en, E, dn, D, n) /\ E[n + 1] = D[n + 1] /\ E[1] = 1
  <2>1. /\ \A i \in 1 .. n : i \in 1 .. (n + 1)
        /\ n + 1 \in 1 .. (n + 1) /\ 1 \in 1 .. (n + 1)
    BY <1>1
  <2> QED BY <2>1, <1>1, <1>2 DEF Extends, DownAt
<1>4. ASSUME NEW i \in 1 .. Len(en), Turned(en[i])
      PROVE  E[i] \in 1 .. Len(pd) /\ DownFits(cs, pd[E[i]], en, E, i)
  <2>1. CASE i \in 1 .. n
    <3>1. en[i] = dn[i] /\ E[i] = D[i] /\ i - 1 \in Nat /\ i - 1 <= n
      BY <2>1, <1>1, <1>3 DEF Extends
    <3>2. D[i] \in 1 .. Len(pd) /\ DownFits(cs, pd[D[i]], dn, D, i)
      BY <2>1, <3>1, <1>4 DEF DownAt, n
    <3> DEFINE h == i - 1
    <3>3. h \in Nat /\ h <= n /\ h <= h /\ n \in Nat
      BY <3>1, <1>1
    <3> HIDE DEF h
    <3>4. Handled(cs, pd[D[i]], dn, D, D[i], h) =>
            Handled(cs, pd[D[i]], en, E, D[i], h)
      BY <3>3, <1>3, HandledGrows
    <3>5. DownFits(cs, pd[D[i]], en, E, i)
      BY <3>1, <3>2, <3>4 DEF DownFits, h
    <3> QED BY <3>1, <3>2, <3>5
  <2>2. CASE i = n + 1
    <3>1. Turned(g)
      BY <2>2, <1>1, <1>4
    <3>2. D[n + 1] \in 1 .. Len(pd) /\ DownFits(cs, pd[D[n + 1]], en, E, n + 1)
      BY <3>1, <1>3 DEF n, en
    <3> QED BY <2>2, <3>2, <1>3
  <2> QED BY <2>1, <2>2, <1>1
<1>5. DownAt(cs, pd, en, E)
  <2>1. E[Len(en) + 1] <= Len(pd) + 1
    <3>1. D[n + 1] + d <= Len(pd) + 1 /\ n + 1 + 1 = n + 2
      BY <1>1 DEF n, d
    <3> QED BY <3>1, <1>1, <1>2
  <2> QED BY <2>1, <1>2, <1>3, <1>4 DEF DownAt, R
<1> QED BY <1>2, <1>3, <1>5 DEF n, en, d

(* The server takes the first packet up, and the others keep their turns.  *)
LEMMA UpDrops ==
  ASSUME NEW cs, NEW pd, NEW dn, NEW u, NEW D, NEW U, NEW en, NEW E,
         u \in Seq(FramesOf(UpTypes)), u # <<>>, UpAt(cs, pd, dn, u, D, U),
         Len(dn) \in Nat, Len(en) \in Nat, Len(dn) <= Len(en),
         Extends(en, E, dn, D, Len(dn)), E[Len(en) + 1] = U[2],
         \A p : /\ p.call = u[1].call
                /\ u[1].type \in {"ChatJoin", "ChatInvite"}
                => Handled(cs, p, en, E, U[1], Len(en))
  PROVE  \E V : UpAt(cs, pd, en, Tail(u), E, V)
<1> DEFINE n == Len(u)
           v == Tail(u)
           V == Shorter(U, n, 0)
           R == Requesters(cs)
<1>1. /\ Numbers(u, U, R) /\ U[n + 1] = Len(pd) + 1
      /\ U \in [1 .. (n + 1) -> Nat]
      /\ \A i \in 1 .. n :
           U[i + 1] = U[i] + IF Closes(u[i], R) THEN 1 ELSE 0
  BY DEF UpAt, Sends, Numbers
<1>2. /\ Numbers(v, V, R) /\ n \in Nat \ {0} /\ Len(v) = n - 1
      /\ \A i \in 1 .. (n - 1) : v[i] = u[i + 1]
      /\ \A i \in 1 .. n : V[i] = U[i + 1] - 0 /\ U[i + 1] \in Nat
  <2>1. 0 \in Nat /\ 0 <= U[2]
    <3>1. n \in Nat \ {0}
      OBVIOUS
    <3>2. 2 \in 1 .. (n + 1)
      BY <3>1
    <3> QED BY <3>2, <1>1 DEF Numbers
  <2> QED BY <2>1, <1>1, NumbersTail
<1>3. \A i \in 1 .. n : V[i] = U[i + 1]
  BY <1>2
<1> HIDE DEF n, v, V, R
<1>4. V[1] = E[Len(en) + 1] /\ V[Len(v) + 1] = Len(pd) + 1
  <2>1. 1 \in 1 .. n /\ n \in 1 .. n /\ n - 1 + 1 = n /\ 1 + 1 = 2
    BY <1>2
  <2> QED BY <2>1, <1>1, <1>2, <1>3
<1>5. ASSUME NEW i \in 1 .. Len(v), Turned(v[i])
      PROVE  V[i] \in 1 .. Len(pd) /\ UpFits(cs, pd[V[i]], en, E, v, V, i)
  <2> DEFINE k == U[i + 1]
             p == pd[k]
             f == v[i]
  <2>1. /\ i \in 1 .. n /\ i + 1 \in 1 .. n /\ V[i] = k /\ f = u[i + 1]
        /\ i + 1 - 1 = i /\ i + 1 > 1
    BY <1>2, <1>3
  <2>2. k \in 1 .. Len(pd) /\ UpFits(cs, p, dn, D, u, U, i + 1)
    BY <2>1, <1>5 DEF UpAt, Sends, n
  <2>3. Handled(cs, p, dn, D, k, Len(dn)) => Handled(cs, p, en, E, k, Len(en))
    <3> HIDE DEF p, k
    <3>1. Len(dn) <= Len(dn)
      OBVIOUS
    <3> QED BY <3>1, HandledGrows
  <2>4. ASSUME u[i].call = p.call, u[i].type \in {"ChatJoin", "ChatInvite"}
        PROVE  \/ /\ i > 1 /\ v[i - 1].call = p.call
                  /\ v[i - 1].type \in {"ChatJoin", "ChatInvite"}
               \/ Handled(cs, p, en, E, k, Len(en))
    <3>1. CASE i > 1
      <4>1. i - 1 \in 1 .. (n - 1) /\ i - 1 + 1 = i
        BY <2>1, <3>1, <1>2
      <4>2. v[i - 1] = u[i]
        BY <4>1, <1>2
      <4> QED BY <4>2, <3>1, <2>4
    <3>2. CASE i = 1
      <4>1. Handled(cs, p, en, E, U[1], Len(en))
        BY <3>2, <2>4
      <4>2. u[1].type \in Packets
        BY <3>2, <2>4 DEF Packets
      <4>3. ~Closes(u[1], R)
        BY <4>2, PacketsDistinct DEF Closes, UpTypes, Packets
      <4>4. U[2] = U[1]
        <5>1. 1 \in 1 .. n /\ 1 \in 1 .. (n + 1) /\ 1 + 1 = 2
          BY <1>2
        <5>2. U[1] \in Nat
          BY <5>1, <1>1
        <5> QED BY <5>1, <5>2, <4>3, <1>1
      <4> QED BY <4>1, <4>4, <3>2
    <3> QED BY <3>1, <3>2, <2>1
  <2> HIDE DEF k, p, f
  <2>5. UpFits(cs, p, en, E, v, V, i)
    <3>1. f.type = "Ping" =>
            /\ p.is # "reply"
            /\ p.is \in {"join", "invite"} =>
                 \/ /\ i > 1 /\ v[i - 1].call = p.call
                    /\ v[i - 1].type \in {"ChatJoin", "ChatInvite"}
                 \/ Handled(cs, p, en, E, V[i], Len(en))
      BY <2>1, <2>2, <2>3, <2>4 DEF UpFits, k
    <3> QED BY <2>1, <2>2, <3>1 DEF UpFits, f
  <2> QED BY <2>1, <2>2, <2>5 DEF p
<1>6. UpAt(cs, pd, en, v, E, V)
  BY <1>2, <1>4, <1>5 DEF UpAt, Sends, R
<1> QED BY <1>6 DEF v
(* A notice belongs to no turn.                                            *)
LEMMA LedgerNotice ==
  ASSUME NEW cs, NEW pd, NEW dn, NEW u, NEW listens, NEW g,
         LinkTyped(cs, pd, dn, u), LedgerOf(cs, pd, dn, u, listens),
         g \in FramesOf(DownTypes), ~Turned(g)
  PROVE  LedgerOf(cs, pd, Append(dn, g), u, listens)
<1> DEFINE n == Len(dn)
           en == Append(dn, g)
<1>1. PICK D, U : LedgerAt(cs, pd, dn, u, listens, D, U)
  BY DEF LedgerOf
<1>2. /\ dn \in Seq(FramesOf(DownTypes)) /\ pd \in Seq(OwedRecords)
      /\ DownAt(cs, pd, dn, D) /\ n \in Nat /\ Len(en) = n + 1
  BY <1>1 DEF LinkTyped, LedgerAt
<1>3. ~Closes(g, Requesters(cs))
  BY DEF Turned, Closes
<1>4. D[n + 1] \in Nat /\ D[n + 1] <= Len(pd) + 1
  BY <1>2 DEF DownAt, Numbers
<1>5. PICK E : /\ DownAt(cs, pd, en, E)
               /\ E[n + 2] = D[n + 1] + 0
               /\ Extends(en, E, dn, D, n)
               /\ E[n + 1] = D[n + 1]
  BY <1>2, <1>3, <1>4, DownGrows
<1> HIDE DEF n, en
<1>6. ASSUME listens
      PROVE  UpAt(cs, pd, en, u, E, U)
  <2>1. UpAt(cs, pd, dn, u, D, U)
    BY <1>1, <1>6 DEF LedgerAt
  <2>2. U[1] = E[Len(en) + 1]
    <3>1. n + 1 + 1 = n + 2 /\ D[n + 1] + 0 = D[n + 1]
      BY <1>2, <1>4
    <3> QED BY <3>1, <2>1, <1>2, <1>5 DEF UpAt, Sends, n
  <2>3. ASSUME NEW i \in 1 .. Len(u), Turned(u[i])
        PROVE  U[i] \in 1 .. Len(pd) /\ UpFits(cs, pd[U[i]], en, E, u, U, i)
    <3>1. U[i] \in 1 .. Len(pd) /\ UpFits(cs, pd[U[i]], dn, D, u, U, i)
      BY <2>1, <2>3 DEF UpAt, Sends
    <3> DEFINE m == Len(en)
               p == pd[U[i]]
               k == U[i]
    <3>2. m \in Nat /\ n \in Nat /\ n <= n /\ n <= m
      BY <1>2
    <3> HIDE DEF m, p, k
    <3>3. Handled(cs, p, dn, D, k, n) => Handled(cs, p, en, E, k, m)
      BY <1>5, <3>2, HandledGrows
    <3>4. UpFits(cs, p, en, E, u, U, i)
      BY <3>1, <3>3 DEF UpFits, m, n, k, p
    <3> QED BY <3>1, <3>4 DEF p
  <2> QED BY <2>1, <2>2, <2>3 DEF UpAt, Sends
<1> QED BY <1>5, <1>6 DEF LedgerAt, LedgerOf, en

(* The server takes a packet and says nothing to it.                       *)
LEMMA LedgerDrop ==
  ASSUME NEW cs, NEW pd, NEW dn, NEW u,
         LinkTyped(cs, pd, dn, u), LedgerOf(cs, pd, dn, u, TRUE), u # <<>>,
         \/ u[1].type \in AuthUp
         \/ u[1].type \in Packets /\ cs[u[1].call].verdict = "granted"
  PROVE  LedgerOf(cs, pd, dn, Tail(u), TRUE)
<1>1. PICK D, U : LedgerAt(cs, pd, dn, u, TRUE, D, U)
  BY DEF LedgerOf
<1>2. /\ DownAt(cs, pd, dn, D) /\ UpAt(cs, pd, dn, u, D, U)
      /\ U[1] = D[Len(dn) + 1]
  BY <1>1 DEF LedgerAt, UpAt, Sends
<1>3. u \in Seq(FramesOf(UpTypes)) /\ Len(dn) \in Nat /\ Len(u) \in Nat \ {0}
  BY DEF LinkTyped
<1>4. ~Closes(u[1], Requesters(cs))
  BY PacketsDistinct DEF Closes, UpTypes, DownTypes, Packets, AuthUp
<1>5. U[2] = U[1]
  <2>1. 1 \in 1 .. Len(u) /\ 1 \in 1 .. (Len(u) + 1) /\ 1 + 1 = 2
    BY <1>3
  <2>2. U[1] \in Nat /\ U[1 + 1] = U[1] + 0
    BY <1>2, <1>4, <2>1 DEF UpAt, Sends, Numbers
  <2> QED BY <2>1, <2>2
<1>6. \A p : /\ p.call = u[1].call
             /\ u[1].type \in {"ChatJoin", "ChatInvite"}
             => Handled(cs, p, dn, D, U[1], Len(dn))
  BY DEF Handled, AuthUp
<1>7. Extends(dn, D, dn, D, Len(dn)) /\ Len(dn) <= Len(dn)
  BY <1>3 DEF Extends
<1>8. \E V : UpAt(cs, pd, dn, Tail(u), D, V)
  BY <1>2, <1>3, <1>5, <1>6, <1>7, UpDrops
<1> QED BY <1>2, <1>8 DEF LedgerAt, LedgerOf

(* The server answers frame f with frame g.                                *)
Replies(cs, f, g) ==
  \/ f.type = "Ping" /\ g.type = "Pong"
  \/ /\ f.type \in DOMAIN Answers /\ g.call = f.call
     /\ \/ g.type = Answers[f.type] /\ cs[f.call].verdict = "granted"
        \/ g.type = "Error" /\ cs[f.call].verdict = "refused"
  \/ /\ f.type \in Packets /\ g.call = f.call
     /\ g.type = "Error" /\ cs[f.call].verdict = "refused"

(* An answer goes down for the packet taken up: it takes over its turn.    *)
LEMMA LedgerReply ==
  ASSUME NEW cs, NEW pd, NEW dn, NEW u, NEW g,
         LinkTyped(cs, pd, dn, u), LedgerOf(cs, pd, dn, u, TRUE), u # <<>>,
         g \in FramesOf(DownTypes), Replies(cs, u[1], g)
  PROVE  LedgerOf(cs, pd, Append(dn, g), Tail(u), TRUE)
<1> DEFINE n == Len(dn)
           en == Append(dn, g)
           f == u[1]
           R == Requesters(cs)
           d == IF Closes(g, R) THEN 1 ELSE 0
<1>1. PICK D, U : LedgerAt(cs, pd, dn, u, TRUE, D, U)
  BY DEF LedgerOf
<1>2. /\ DownAt(cs, pd, dn, D) /\ UpAt(cs, pd, dn, u, D, U)
      /\ U[1] = D[n + 1]
  BY <1>1 DEF LedgerAt, UpAt, Sends
<1>3. /\ u \in Seq(FramesOf(UpTypes)) /\ n \in Nat /\ Len(u) \in Nat \ {0}
      /\ dn \in Seq(FramesOf(DownTypes)) /\ pd \in Seq(OwedRecords)
      /\ Len(en) = n + 1 /\ en[n + 1] = g /\ Len(pd) \in Nat
  <2>1. /\ u \in Seq(FramesOf(UpTypes)) /\ dn \in Seq(FramesOf(DownTypes))
        /\ pd \in Seq(OwedRecords)
    BY DEF LinkTyped
  <2>2. Len(u) \in Nat \ {0}
    BY <2>1
  <2>3. Len(en) = n + 1 /\ en[n + 1] = g /\ n \in Nat
    BY <2>1
  <2> QED BY <2>1, <2>2, <2>3, Linked
<1> DEFINE k == U[1]
           p == pd[k]
<1>4. k \in 1 .. Len(pd) /\ UpFits(cs, p, dn, D, u, U, 1)
  <2>1. 1 \in 1 .. Len(u)
    BY <1>3
  <2>2. Turned(f)
    BY DEF Turned, Replies
  <2> QED BY <1>2, <2>1, <2>2 DEF UpAt, Sends
<1>5. \/ f.type = "Ping" /\ f.type \notin DOMAIN Answers \cup Packets
      \/ f.type \in DOMAIN Answers /\ f.type # "Ping" /\ f.type \notin Packets
      \/ f.type \in Packets /\ f.type # "Ping" /\ f.type \notin DOMAIN Answers
  BY PacketsDistinct DEF Replies
<1> HIDE DEF n, en, k, p, f, R, d
<1>6. f.type = "Ping" =>
        /\ p.is # "reply"
        /\ p.is \in {"join", "invite"} => Handled(cs, p, dn, D, k, n)
  BY <1>4 DEF UpFits, f, k, n
<1>7. f.type \in DOMAIN Answers =>
        /\ p.is = "reply" /\ p.call = f.call /\ f.call \in R
        /\ f.call \in Calls /\ Answers[f.type] = p.expects
        /\ p.expects \in ReplyTypes
  <2> HAVE f.type \in DOMAIN Answers
  <2>1. /\ p.is = "reply" /\ p.call = f.call /\ f.call \in R
        /\ f.type = Requests[cs[f.call].cmd].packet
        /\ p.expects = Requests[cs[f.call].cmd].expects
    BY <1>4 DEF UpFits, f, R
  <2>2. f.call \in Calls /\ cs[f.call].cmd \in DOMAIN Requests
    BY <2>1 DEF R, Requesters
  <2> QED BY <2>1, <2>2, TablesAgree DEF ReplyTypes
<1>8. f.type \in Packets =>
        p.is \in Quiet /\ p.call = f.call /\ f.call \in Calls \ R
  BY <1>4 DEF UpFits, f, R
<1>9. /\ "Error" \notin {"Ping", "Pong"} \cup DOMAIN Answers \cup ReplyTypes
      /\ "Pong" \notin ReplyTypes /\ "Ping" \notin ReplyTypes
  BY PacketsDistinct DEF DownTypes, UpTypes
<1>10. Closes(g, R) <=> f.type \notin Packets
  BY <1>5, <1>7, <1>8, <1>9 DEF Closes, Replies, f
<1>11. Closes(f, R) <=> f.type \notin Packets
  <2>1. /\ Packets \cap {"Ping", "Pong", "Error"} = {}
        /\ Packets \cap DOMAIN Answers = {} /\ Packets \cap ReplyTypes = {}
    BY PacketsDistinct DEF UpTypes, Packets
  <2> HIDE DEF f
  <2> QED BY <1>5, <2>1 DEF Closes
<1>12. \A E : Extends(en, E, dn, D, n) /\ E[n + 1] = k
                => DownFits(cs, p, en, E, n + 1)
  <2> TAKE E
  <2> HAVE Extends(en, E, dn, D, n) /\ E[n + 1] = k
  <2>1. n + 1 - 1 = n /\ n <= n
    BY <1>3
  <2>2. Handled(cs, p, dn, D, k, n) => Handled(cs, p, en, E, k, n)
    BY <2>1, <1>3, HandledGrows
  <2>3. g.type = "Pong" =>
          /\ p.is # "reply"
          /\ p.is \in {"join", "invite"} => Handled(cs, p, en, E, k, n)
    BY <2>2, <1>5, <1>6, <1>7, <1>9 DEF Replies, f
  <2>4. g.type \in ReplyTypes =>
          /\ p.is = "reply" /\ p.call = g.call /\ p.expects = g.type
          /\ cs[g.call].verdict = "granted"
    BY <1>5, <1>7, <1>9 DEF Replies, f
  <2>5. g.type = "Error" =>
          /\ p.call = g.call /\ g.call \in Calls
          /\ cs[g.call].verdict = "refused"
          /\ IF g.call \in R THEN p.is = "reply" ELSE p.is \in Quiet
    BY <1>5, <1>7, <1>8, <1>9 DEF Replies, f
  <2> QED BY <2>1, <2>3, <2>4, <2>5, <1>3 DEF DownFits, R
<1>13. k + d <= Len(pd) + 1
  BY <1>3, <1>4 DEF d
<1>14. PICK E : /\ DownAt(cs, pd, en, E) /\ E[n + 2] = D[n + 1] + d
                /\ Extends(en, E, dn, D, n) /\ E[n + 1] = D[n + 1]
  <2>1. D[n + 1] = k
    BY <1>2 DEF k
  <2>2. D[Len(dn) + 1] + (IF Closes(g, Requesters(cs)) THEN 1 ELSE 0)
          <= Len(pd) + 1
    BY <2>1, <1>13 DEF d, R, n
  <2>3. /\ D[Len(dn) + 1] \in 1 .. Len(pd)
        /\ \A E : Extends(Append(dn, g), E, dn, D, Len(dn))
                    /\ E[Len(dn) + 1] = D[Len(dn) + 1] =>
             DownFits(cs, pd[D[Len(dn) + 1]], Append(dn, g), E, Len(dn) + 1)
    BY <2>1, <1>4, <1>12 DEF n, en, p
  <2>4. /\ dn \in Seq(FramesOf(DownTypes)) /\ pd \in Seq(OwedRecords)
        /\ DownAt(cs, pd, dn, D)
    BY <1>2, <1>3
  <2>5. \E E : /\ DownAt(cs, pd, Append(dn, g), E)
               /\ E[Len(dn) + 2] = D[Len(dn) + 1]
                    + IF Closes(g, Requesters(cs)) THEN 1 ELSE 0
               /\ Extends(Append(dn, g), E, dn, D, Len(dn))
               /\ E[Len(dn) + 1] = D[Len(dn) + 1]
    BY <2>2, <2>3, <2>4, DownGrows
  <2> QED BY <2>5 DEF n, en, d, R
<1>15. U[2] = k + d
  <2>1. 1 \in 1 .. Len(u) /\ 1 + 1 = 2
    BY <1>3
  <2>2. U[1 + 1] = U[1] + IF Closes(u[1], Requesters(cs)) THEN 1 ELSE 0
    BY <1>2, <2>1 DEF UpAt, Sends, Numbers
  <2> QED BY <2>1, <2>2, <1>10, <1>11 DEF k, d, f, R
<1>16. E[Len(en) + 1] = U[2]
  <2>1. n + 1 + 1 = n + 2
    BY <1>3
  <2> QED BY <2>1, <1>2, <1>3, <1>14, <1>15 DEF k
<1>17. \A q : /\ q.call = u[1].call
              /\ u[1].type \in {"ChatJoin", "ChatInvite"}
              => Handled(cs, q, en, E, U[1], Len(en))
  <2> TAKE q
  <2> HAVE q.call = u[1].call /\ u[1].type \in {"ChatJoin", "ChatInvite"}
  <2>1. f.type \in Packets
    BY DEF f, Packets
  <2>2. g.type = "Error" /\ g.call = q.call /\ cs[q.call].verdict = "refused"
    BY <2>1, <1>5 DEF Replies, f
  <2>3. Len(en) \in 1 .. Len(en) /\ en[Len(en)] = g /\ E[Len(en)] = U[1]
    BY <1>2, <1>3, <1>14
  <2> QED BY <2>2, <2>3 DEF Handled
<1>18. \E V : UpAt(cs, pd, en, Tail(u), E, V)
  <2>1. Len(en) \in Nat /\ Len(dn) \in Nat /\ Len(dn) <= Len(en)
    BY <1>3 DEF n
  <2>2. Extends(en, E, dn, D, Len(dn))
    BY <1>14 DEF n
  <2> QED BY <2>1, <2>2, <1>2, <1>3, <1>16, <1>17, UpDrops
<1> QED BY <1>14, <1>18 DEF LedgerAt, LedgerOf, en

(* The server stops listening; what it has written still arrives.          *)
LEMMA LedgerDeaf ==
  ASSUME NEW cs, NEW pd, NEW dn, NEW u, NEW v, NEW listens,
         LedgerOf(cs, pd, dn, u, listens)
  PROVE  LedgerOf(cs, pd, dn, v, FALSE)
BY DEF LedgerOf, LedgerAt

(* Nothing owed, nothing under way.                                        *)
LEMMA LedgerVoid ==
  ASSUME NEW cs
  PROVE  LedgerOf(cs, <<>>, <<>>, <<>>, TRUE)
<1> DEFINE T == [i \in 1 .. 1 |-> 1]
<1>1. Len(<<>>) = 0 /\ T[1] = 1 /\ T \in [1 .. 1 -> Nat]
  OBVIOUS
<1>2. \A i, j \in 1 .. 1 : i = 1 /\ j = 1
  OBVIOUS
<1> HIDE DEF T
<1>3. Numbers(<<>>, T, Requesters(cs))
  BY <1>1, <1>2 DEF Numbers
<1>4. DownAt(cs, <<>>, <<>>, T)
  BY <1>1, <1>3 DEF DownAt
<1>5. UpAt(cs, <<>>, <<>>, <<>>, T, T)
  BY <1>1, <1>3 DEF UpAt, Sends
<1> QED BY <1>4, <1>5 DEF LedgerAt, LedgerOf
---------------------------------------------------------------------------
(* A call travels once.                                                    *)

(* No call is None.                                                        *)
LEMMA NoneIsNoCall == None \notin Calls /\ Calls \subseteq Nat
<1>1. ASSUME NEW s \in Scripts
      PROVE  DOMAIN s \subseteq Nat \ {0}
  <2>1. s \in Seq(Commands)
    BY ClientScripts
  <2>2. DOMAIN s = 1 .. Len(s) /\ Len(s) \in Nat
    BY <2>1
  <2> QED BY <2>2
<1> QED BY <1>1 DEF Calls, None

(* The server takes a packet, and judges its call or does not.             *)
LEMMA TravelsTail ==
  ASSUME NEW cs, NEW cs2, NEW qu, NEW u, NEW v,
         TravelsOf(cs, qu, u), Len(u) \in Nat \ {0}, Len(v) = Len(u) - 1,
         \A i \in 1 .. (Len(u) - 1) : v[i] = u[i + 1],
         \A i \in 1 .. Len(qu) : qu[i] \in Calls, None \notin Calls,
         \A i \in 1 .. Len(u) : u[i].call \in Calls \cup {None},
         \A c \in Calls : /\ cs2[c].cmd = cs[c].cmd
                          /\ c # u[1].call => cs2[c].verdict = cs[c].verdict
  PROVE  TravelsOf(cs2, qu, v)
<1> DEFINE n == Len(u)
<1>1. \A i \in 1 .. (n - 1) : i + 1 \in 1 .. n /\ i + 1 # 1 /\ v[i] = u[i + 1]
  OBVIOUS
<1>2. \A c \in Calls : Unsent(cs, u, c) => Unsent(cs2, v, c)
  <2>1. 1 \in 1 .. n
    OBVIOUS
  <2> QED BY <1>1, <2>1 DEF Unsent
<1>3. \A i \in 1 .. Len(qu) : cs2[qu[i]].cmd # "none" /\ Unsent(cs2, v, qu[i])
  BY <1>2 DEF TravelsOf
<1>4. ASSUME NEW q \in 1 .. Len(v), v[q].call # None
      PROVE  /\ cs2[v[q].call].cmd # "none" /\ cs2[v[q].call].verdict = "none"
             /\ \A r \in 1 .. Len(v) : v[r].call = v[q].call => r = q
  <2>1. /\ v[q] = u[q + 1] /\ q + 1 \in 1 .. n /\ q + 1 # 1
        /\ 1 \in 1 .. n
    BY <1>1
  <2>2. /\ cs[v[q].call].cmd # "none" /\ cs[v[q].call].verdict = "none"
        /\ \A r \in 1 .. n : u[r].call = v[q].call => r = q + 1
    BY <1>4, <2>1 DEF TravelsOf
  <2>3. u[1].call # v[q].call /\ v[q].call \in Calls
    BY <2>1, <2>2, <1>4
  <2>4. \A r \in 1 .. Len(v) : v[r].call = v[q].call => r = q
    <3> TAKE r \in 1 .. Len(v)
    <3> HAVE v[r].call = v[q].call
    <3>1. r + 1 = q + 1
      BY <2>2, <1>1
    <3> QED BY <3>1
  <2> QED BY <2>2, <2>3, <2>4
<1>5. \A c \in Calls : cs2[c].cmd = "none" => Unsent(cs2, v, c)
  BY <1>2 DEF TravelsOf
<1> QED BY <1>3, <1>4, <1>5 DEF TravelsOf

(* A call is issued.                                                       *)
LEMMA TravelsIssue ==
  ASSUME NEW cs, NEW cs2, NEW qu, NEW q2, NEW u, NEW c \in Calls,
         TravelsOf(cs, qu, u), cs[c].cmd = "none", cs2[c].cmd # "none",
         qu \in Seq(Calls), q2 \in {qu, Append(qu, c)},
         \A i \in 1 .. Len(u) : u[i].call \in Calls \cup {None},
         \A d \in Calls : /\ cs2[d].verdict = cs[d].verdict
                          /\ d # c => cs2[d].cmd = cs[d].cmd
  PROVE  TravelsOf(cs2, q2, u)
<1>1. \A d \in Calls : Unsent(cs, u, d) <=> Unsent(cs2, u, d)
  BY DEF Unsent
<1>2. \A i \in 1 .. Len(qu) : /\ cs[qu[i]].cmd # "none" /\ qu[i] # c
                              /\ qu[i] \in Calls
  BY DEF TravelsOf
<1>3. TravelsOf(cs2, qu, u)
  <2>1. \A i \in 1 .. Len(qu) : cs2[qu[i]].cmd # "none" /\ Unsent(cs2, u, qu[i])
    BY <1>1, <1>2 DEF TravelsOf
  <2>2. \A d \in Calls : cs2[d].cmd = "none" => Unsent(cs2, u, d)
    BY <1>1 DEF TravelsOf
  <2>3. \A q \in 1 .. Len(u) : u[q].call # None =>
         /\ cs2[u[q].call].cmd # "none" /\ cs2[u[q].call].verdict = "none"
    BY DEF TravelsOf
  <2> QED BY <2>1, <2>2, <2>3 DEF TravelsOf
<1>4. ASSUME q2 = Append(qu, c)
      PROVE  TravelsOf(cs2, q2, u)
  <2>1. /\ Len(q2) = Len(qu) + 1 /\ q2[Len(qu) + 1] = c /\ Len(qu) \in Nat
        /\ \A i \in 1 .. Len(qu) : q2[i] = qu[i]
    BY <1>4
  <2>2. \A i \in 1 .. Len(q2) : i \in 1 .. Len(qu) \/ i = Len(qu) + 1
    BY <2>1
  <2>3. Unsent(cs2, u, c)
    BY <1>1 DEF TravelsOf
  <2>4. \A i, j \in 1 .. Len(q2) : q2[i] = q2[j] => i = j
    BY <2>1, <2>2, <1>2 DEF TravelsOf
  <2>5. \A i \in 1 .. Len(q2) : cs2[q2[i]].cmd # "none" /\ Unsent(cs2, u, q2[i])
    BY <2>1, <2>2, <2>3, <1>3 DEF TravelsOf
  <2> QED BY <2>4, <2>5, <1>3 DEF TravelsOf
<1> QED BY <1>3, <1>4

(* Calls travel once also when some are dropped on the way.                *)
LEMMA TravelsFewer ==
  ASSUME NEW cs, NEW qu, NEW q2, NEW u, NEW v, TravelsOf(cs, qu, u),
         \A i, j \in 1 .. Len(q2) : q2[i] = q2[j] => i = j,
         \A i \in 1 .. Len(q2) : \E j \in 1 .. Len(qu) : q2[i] = qu[j],
         v = u \/ v = <<>>
  PROVE  TravelsOf(cs, q2, v)
<1>1. \A c : Unsent(cs, u, c) => Unsent(cs, v, c)
  BY DEF Unsent
<1>2. Len(<<>>) = 0
  OBVIOUS
<1>3. \A i \in 1 .. Len(q2) : cs[q2[i]].cmd # "none" /\ Unsent(cs, v, q2[i])
  BY <1>1 DEF TravelsOf
<1>4. \A c \in Calls : cs[c].cmd = "none" => Unsent(cs, v, c)
  BY <1>1 DEF TravelsOf
<1> QED BY <1>2, <1>3, <1>4 DEF TravelsOf
---------------------------------------------------------------------------
(* What happens to calls and channels, one piece at a time.                *)

(* The elements of the sequences have their types.                         *)
LEMMA Channels ==
  ASSUME NEW cs, NEW qu, NEW lg, NEW pd, NEW iv, NEW dn, NEW u,
         SoundTyped(cs, qu, lg, pd, iv, dn, u)
  PROVE  /\ Len(qu) \in Nat /\ \A i \in 1 .. Len(qu) : qu[i] \in Calls
         /\ Len(iv) \in Nat /\ \A i \in 1 .. Len(iv) : iv[i] \in InviteRecords
         /\ Len(pd) \in Nat /\ \A k \in 1 .. Len(pd) : pd[k] \in OwedRecords
         /\ Len(u) \in Nat /\ Len(dn) \in Nat
         /\ \A i \in 1 .. Len(u) : u[i].call \in Calls \cup {None}
         /\ \A i \in 1 .. Len(dn) : dn[i].call \in Calls \cup {None}
<1>1. \A X, s : s \in Seq(X) =>
        Len(s) \in Nat /\ \A i \in 1 .. Len(s) : s[i] \in X
  OBVIOUS
<1>2. qu \in Seq(Calls) /\ iv \in Seq(InviteRecords)
  BY DEF SoundTyped
<1>3. LinkTyped(cs, pd, dn, u)
  BY DEF SoundTyped
<1> QED BY <1>1, <1>2, <1>3, Linked

(* A debt stays sound when the server judges a call.                       *)
LEMMA DebtsJudged ==
  ASSUME NEW cs, NEW cs2, NEW p \in OwedRecords, Judges(cs, cs2), DebtOf(cs, p)
  PROVE  DebtOf(cs2, p)
<1>1. p.is # "ping" => p.call \in Calls
  BY DEF OwedRecords
<1>2. p.is \in Quiet => p.is # "ping"
  BY DEF Quiet
<1>3. \A c \in Calls : c \in Requesters(cs) <=> c \in Requesters(cs2)
  BY DEF Judges, Requesters
<1>4. p.is # "ping" => /\ cs2[p.call].cmd = cs[p.call].cmd
                       /\ cs[p.call].verdict = "refused" =>
                            cs2[p.call].verdict = "refused"
  BY <1>1 DEF Judges
<1> QED BY <1>1, <1>2, <1>3, <1>4 DEF DebtOf

(* Invites stay sound when the server judges a call.                       *)
LEMMA InvitesJudged ==
  ASSUME NEW cs, NEW cs2, NEW iv \in Seq(InviteRecords), NEW pd,
         Judges(cs, cs2), InvitesOf(cs, iv, pd)
  PROVE  InvitesOf(cs2, iv, pd)
<1>1. \A i \in 1 .. Len(iv) : iv[i].call \in Calls
  <2>1. \A i \in 1 .. Len(iv) : iv[i] \in InviteRecords
    OBVIOUS
  <2> QED BY <2>1 DEF InviteRecords
<1> QED BY <1>1 DEF InvitesOf, Judges

(* Telling a caller disturbs nothing but what the callers know.            *)
LEMMA SoundSame ==
  ASSUME NEW cs, NEW cs2, NEW qu, NEW lg, NEW pd, NEW iv, NEW dn, NEW u,
         NEW listens, SoundOf(cs, qu, lg, pd, iv, dn, u, listens),
         cs2 \in [Calls -> CallRecords], SameStory(cs, cs2), AnswersOf(cs2)
  PROVE  SoundOf(cs2, qu, lg, pd, iv, dn, u, listens)
<1>1. SoundTyped(cs, qu, lg, pd, iv, dn, u)
  BY DEF SoundOf
<1>2. SoundTyped(cs2, qu, lg, pd, iv, dn, u)
  BY <1>1 DEF SoundTyped, LinkTyped
<1>3. Judges(cs, cs2)
  BY DEF Judges, SameStory
<1>4. LedgerOf(cs2, pd, dn, u, listens)
  BY <1>1, LedgerCalls DEF SoundOf, SoundTyped, SameStory
<1>5. \A c \in Calls : Unsent(cs, u, c) <=> Unsent(cs2, u, c)
  BY DEF Unsent, SameStory
<1>6. TravelsOf(cs2, qu, u)
  <2>1. /\ \A i \in 1 .. Len(qu) : qu[i] \in Calls
        /\ \A i \in 1 .. Len(u) : u[i].call \in Calls \cup {None}
    BY <1>1, Channels
  <2>2. TravelsOf(cs, qu, u)
    BY DEF SoundOf
  <2> QED BY <2>1, <2>2, <1>5 DEF TravelsOf, SameStory
<1>7. DebtsOf(cs2, pd)
  <2>1. \A k \in 1 .. Len(pd) : pd[k] \in OwedRecords /\ DebtOf(cs, pd[k])
    BY <1>1, Channels DEF SoundOf, DebtsOf
  <2> QED BY <2>1, <1>3, DebtsJudged DEF DebtsOf
<1>8. InvitesOf(cs2, iv, pd)
  BY <1>1, <1>3, InvitesJudged DEF SoundOf, SoundTyped
<1>9. LoginOf(cs2, qu, lg, dn, u)
  <2>1. LoginOf(cs, qu, lg, dn, u)
    BY DEF SoundOf
  <2> QED BY <2>1, <1>5 DEF LoginOf, SameStory
<1> QED BY <1>2, <1>4, <1>6, <1>7, <1>8, <1>9 DEF SoundOf

(* A call is issued.                                                       *)
LEMMA SoundIssue ==
  ASSUME NEW cs, NEW cs2, NEW qu, NEW q2, NEW lg, NEW pd, NEW iv, NEW dn,
         NEW u, NEW listens, SoundOf(cs, qu, lg, pd, iv, dn, u, listens),
         NEW c \in Calls, cs[c].cmd = "none", cs2[c].cmd # "none",
         cs2 \in [Calls -> CallRecords], AnswersOf(cs2),
         q2 \in {qu, Append(qu, c)},
         \A d \in Calls : /\ cs2[d].verdict = cs[d].verdict
                          /\ d # c => cs2[d].cmd = cs[d].cmd
  PROVE  SoundOf(cs2, q2, lg, pd, iv, dn, u, listens)
<1>1. SoundTyped(cs, qu, lg, pd, iv, dn, u)
  BY DEF SoundOf
<1>2. SoundTyped(cs2, q2, lg, pd, iv, dn, u)
  <2>1. qu \in Seq(Calls)
    BY <1>1 DEF SoundTyped
  <2>2. Append(qu, c) \in Seq(Calls)
    BY <2>1
  <2>3. q2 \in Seq(Calls)
    BY <2>1, <2>2
  <2> QED BY <1>1, <2>3 DEF SoundTyped, LinkTyped
<1>3. Unsent(cs, u, c)
  BY DEF SoundOf, TravelsOf
<1>4. LedgerOf(cs2, pd, dn, u, listens)
  <2>1. \A d \in Calls : \/ cs2[d].cmd = cs[d].cmd
                         \/ /\ cs[d].verdict = "none"
                            /\ \A q \in 1 .. Len(u) : u[q].call # d
    BY <1>3 DEF Unsent
  <2> QED BY <1>1, <2>1, LedgerCalls DEF SoundOf, SoundTyped
<1>5. TravelsOf(cs2, q2, u)
  <2>1. /\ qu \in Seq(Calls)
        /\ \A i \in 1 .. Len(u) : u[i].call \in Calls \cup {None}
    BY <1>1, Channels DEF SoundTyped
  <2>2. TravelsOf(cs, qu, u)
    BY DEF SoundOf
  <2> QED BY <2>1, <2>2, TravelsIssue
<1>6. DebtsOf(cs2, pd)
  <2> SUFFICES ASSUME NEW k \in 1 .. Len(pd)
               PROVE  DebtOf(cs2, pd[k])
    BY DEF DebtsOf
  <2>1. pd[k] \in OwedRecords /\ DebtOf(cs, pd[k])
    BY <1>1, Channels DEF SoundOf, DebtsOf
  <2> DEFINE p == pd[k]
  <2>2. p.is # "ping" => p.call \in Calls
    BY <2>1 DEF OwedRecords
  <2>3. p.is \in Kinds
    BY <2>1 DEF OwedRecords
  <2>4. p.is # "ping" => p.call # c
    <3>1. p.is = "ping" \/ p.is = "reply" \/ p.is = "plain" \/ p.is = "join"
          \/ p.is = "invite"
      BY <2>3 DEF Kinds
    <3>2. /\ "none" \notin DOMAIN Requests
          /\ "none" \notin DOMAIN QuietCommands \cup {"Leave"}
      BY CommandsDistinct
    <3> HIDE DEF p
    <3>3. DebtOf(cs, p)
      BY <2>1 DEF p
    <3> QED BY <3>1, <3>2, <3>3 DEF DebtOf, Requesters
  <2>5. \A d \in Calls :
          d # c => (d \in Requesters(cs) <=> d \in Requesters(cs2))
    BY DEF Requesters
  <2>6. p.is \in Quiet => p.is # "ping"
    BY DEF Quiet
  <2> HIDE DEF p
  <2>7. p.is # "ping" => /\ cs2[p.call].cmd = cs[p.call].cmd
                         /\ cs2[p.call].verdict = cs[p.call].verdict
                         /\ p.call \in Requesters(cs) =>
                              p.call \in Requesters(cs2)
    BY <2>2, <2>3, <2>4, <2>5
  <2> QED BY <2>1, <2>6, <2>7 DEF DebtOf, p
<1>7. InvitesOf(cs2, iv, pd)
  <2>1. \A i \in 1 .. Len(iv) : iv[i].call \in Calls
    <3>1. \A i \in 1 .. Len(iv) : iv[i] \in InviteRecords
      BY <1>1, Channels
    <3> QED BY <3>1 DEF InviteRecords
  <2>2. InvitesOf(cs, iv, pd)
    BY DEF SoundOf
  <2>3. \A i \in 1 .. Len(iv) : iv[i].call # c
    BY <2>2 DEF InvitesOf
  <2> QED BY <2>1, <2>2, <2>3 DEF InvitesOf
<1>8. LoginOf(cs2, q2, lg, dn, u)
  <2>1. LoginOf(cs, qu, lg, dn, u)
    BY DEF SoundOf
  <2>2. lg.phase # "none" => lg.call # c /\ cs2[lg.call].cmd = "Login"
    BY <2>1 DEF LoginOf
  <2>3. lg.phase # "none" => \A i \in 1 .. Len(q2) : q2[i] # lg.call
    <3>1. CASE q2 = qu
      BY <2>1, <3>1 DEF LoginOf
    <3>2. CASE q2 = Append(qu, c)
      <4>1. qu \in Seq(Calls)
        BY <1>1 DEF SoundTyped
      <4>2. /\ \A i \in 1 .. Len(q2) : i \in 1 .. Len(qu) \/ i = Len(qu) + 1
            /\ \A i \in 1 .. Len(qu) : q2[i] = qu[i]
            /\ q2[Len(qu) + 1] = c
        BY <3>2, <4>1
      <4> QED BY <4>2, <2>1, <2>2 DEF LoginOf
    <3> QED BY <3>1, <3>2
  <2>4. \A d : d \in Calls /\ Unsent(cs, u, d) => Unsent(cs2, u, d)
    BY DEF Unsent
  <2>5. ASSUME lg.phase = "none"
        PROVE  /\ \A q \in 1 .. Len(u) : u[q].type \notin AuthUp
               /\ \A q \in 1 .. Len(dn) : dn[q].type \notin AuthDown
    BY <2>1, <2>5 DEF LoginOf
  <2>6. CASE lg.phase = "none"
    BY <2>5, <2>6 DEF LoginOf
  <2>7. CASE lg.phase # "none"
    <3>1. lg.call \in Calls
      BY <2>1, <2>7 DEF LoginOf
    <3> QED BY <3>1, <2>1, <2>2, <2>3, <2>4, <2>7 DEF LoginOf
  <2> QED BY <2>6, <2>7
<1> QED BY <1>2, <1>4, <1>5, <1>6, <1>7, <1>8 DEF SoundOf
(* The actor takes the first command off its channel.                      *)
Fewer(q2, qu) ==
  /\ \A i, j \in 1 .. Len(q2) : q2[i] = q2[j] => i = j
  /\ \A i \in 1 .. Len(q2) : \E j \in 1 .. Len(qu) : q2[i] = qu[j]

(* The call taken off the queue is a call that has sent nothing yet.       *)
LEMMA TakenOff ==
  ASSUME NEW cs, NEW qu \in Seq(Calls), NEW u, TravelsOf(cs, qu, u),
         qu # <<>>
  PROVE  /\ Tail(qu) \in Seq(Calls) /\ Fewer(Tail(qu), qu)
         /\ \A i \in 1 .. Len(Tail(qu)) : Tail(qu)[i] # Head(qu)
         /\ Head(qu) \in Calls /\ cs[Head(qu)].cmd # "none"
         /\ Unsent(cs, u, Head(qu))
<1> DEFINE n == Len(qu)
           q2 == Tail(qu)
<1>1. /\ n \in Nat \ {0} /\ q2 \in Seq(Calls) /\ Len(q2) = n - 1
      /\ Head(qu) = qu[1] /\ qu[1] \in Calls
      /\ \A i \in 1 .. (n - 1) : q2[i] = qu[i + 1]
  OBVIOUS
<1> HIDE DEF n, q2
<1>2. \A i \in 1 .. Len(q2) : i + 1 \in 1 .. n /\ q2[i] = qu[i + 1]
  BY <1>1
<1>3. /\ \A i, j \in 1 .. n : qu[i] = qu[j] => i = j
      /\ \A i \in 1 .. n : cs[qu[i]].cmd # "none" /\ Unsent(cs, u, qu[i])
  BY DEF TravelsOf, n
<1>4. \A i, j \in 1 .. Len(q2) : q2[i] = q2[j] => i = j
  <2> TAKE i, j \in 1 .. Len(q2)
  <2> HAVE q2[i] = q2[j]
  <2>1. i + 1 = j + 1
    BY <1>2, <1>3
  <2> QED BY <2>1
<1>5. \A i \in 1 .. Len(q2) : q2[i] # qu[1]
  <2> TAKE i \in 1 .. Len(q2)
  <2>1. 1 \in 1 .. n /\ i + 1 # 1
    BY <1>1
  <2> QED BY <2>1, <1>2, <1>3
<1>6. Fewer(q2, qu)
  BY <1>2, <1>4 DEF Fewer, n
<1>7. 1 \in 1 .. n
  BY <1>1
<1> QED BY <1>1, <1>3, <1>5, <1>6, <1>7 DEF q2

(* Nothing is said of a login by the calls that leave the queue.           *)
LEMMA LoginFewer ==
  ASSUME NEW cs, NEW qu, NEW q2, NEW lg, NEW dn, NEW u,
         LoginOf(cs, qu, lg, dn, u), Fewer(q2, qu)
  PROVE  LoginOf(cs, q2, lg, dn, u)
<1>1. lg.phase # "none" => \A i \in 1 .. Len(q2) : q2[i] # lg.call
  BY DEF LoginOf, Fewer
<1> QED BY <1>1 DEF LoginOf

(* Calls may leave the queue.                                              *)
LEMMA SoundPop ==
  ASSUME NEW cs, NEW qu, NEW q2, NEW lg, NEW pd, NEW iv, NEW dn, NEW u,
         NEW listens, SoundOf(cs, qu, lg, pd, iv, dn, u, listens),
         q2 \in Seq(Calls), Fewer(q2, qu)
  PROVE  SoundOf(cs, q2, lg, pd, iv, dn, u, listens)
<1>1. TravelsOf(cs, q2, u)
  BY TravelsFewer DEF SoundOf, Fewer
<1>2. LoginOf(cs, q2, lg, dn, u)
  BY LoginFewer DEF SoundOf
<1> QED BY <1>1, <1>2 DEF SoundOf, SoundTyped

(* A frame that has nothing to do with a login is sent.                    *)
LEMMA LoginSend ==
  ASSUME NEW cs, NEW qu, NEW lg, NEW dn, NEW u, NEW f,
         LoginOf(cs, qu, lg, dn, u), u \in Seq(FramesOf(UpTypes)),
         f \in FramesOf(UpTypes), f.type \notin AuthUp,
         f.call \in Calls => cs[f.call].cmd # "Login", None \notin Calls
  PROVE  LoginOf(cs, qu, lg, dn, Append(u, f))
<1> DEFINE v == Append(u, f)
           n == Len(u)
<1>1. /\ n \in Nat /\ Len(v) = n + 1 /\ v[n + 1] = f
      /\ \A i \in 1 .. n : v[i] = u[i] /\ i \in 1 .. Len(v)
      /\ \A i \in 1 .. Len(v) : i \in 1 .. n \/ i = n + 1
  OBVIOUS
<1> HIDE DEF v, n
<1>2. \A i \in 1 .. Len(v) : v[i].type \in AuthUp => i \in 1 .. n /\ v[i] = u[i]
  BY <1>1
<1>3. lg.phase # "none" => (Unsent(cs, u, lg.call) => Unsent(cs, v, lg.call))
  <2> HAVE lg.phase # "none"
  <2>1. lg.call \in Calls /\ cs[lg.call].cmd = "Login"
    BY DEF LoginOf
  <2>2. f.call # lg.call
    BY <2>1
  <2> QED BY <2>2, <1>1 DEF Unsent, n
<1>4. ASSUME NEW q \in 1 .. Len(v), v[q].type \in AuthUp
      PROVE  /\ lg.phase = IF v[q].type = "AuthRequest" THEN "challenge"
                           ELSE "result"
             /\ v[q].call = lg.call
             /\ \A r \in 1 .. Len(v) : v[r].type \in AuthUp => r = q
             /\ \A r \in 1 .. Len(dn) : dn[r].type \notin AuthDown
  <2>1. q \in 1 .. n /\ v[q] = u[q]
    BY <1>2, <1>4
  <2>2. /\ lg.phase = IF u[q].type = "AuthRequest" THEN "challenge"
                      ELSE "result"
        /\ u[q].call = lg.call
        /\ \A r \in 1 .. n : u[r].type \in AuthUp => r = q
        /\ \A r \in 1 .. Len(dn) : dn[r].type \notin AuthDown
    BY <2>1, <1>4 DEF LoginOf, n
  <2> QED BY <2>1, <2>2, <1>2
<1> QED BY <1>3, <1>4 DEF LoginOf, v

(* A sound debt may be entered behind the others.                          *)
LEMMA DebtsMore ==
  ASSUME NEW cs, NEW pd \in Seq(OwedRecords), NEW p \in OwedRecords, NEW iv,
         DebtsOf(cs, pd), InvitesOf(cs, iv, pd), DebtOf(cs, p), ~p.error
  PROVE  /\ Append(pd, p) \in Seq(OwedRecords) /\ DebtsOf(cs, Append(pd, p))
         /\ InvitesOf(cs, iv, Append(pd, p))
<1> DEFINE qd == Append(pd, p)
           n == Len(pd)
<1>1. /\ qd \in Seq(OwedRecords) /\ Len(qd) = n + 1 /\ qd[n + 1] = p
      /\ \A i \in 1 .. n : qd[i] = pd[i]
      /\ \A i \in 1 .. Len(qd) : i \in 1 .. n \/ i = n + 1
  OBVIOUS
<1> HIDE DEF qd, n
<1>2. DebtsOf(cs, qd)
  BY <1>1 DEF DebtsOf, n
<1>3. InvitesOf(cs, iv, qd)
  BY <1>1 DEF InvitesOf, n
<1> QED BY <1>1, <1>2, <1>3 DEF qd

(* What may be sent: a packet for a call that just left the queue, or a    *)
(* keepalive.                                                              *)
MaySend(cs, q2, u, f) ==
  /\ f \in FramesOf(UpTypes) /\ f.type \notin AuthUp
  /\ f.call # None => /\ cs[f.call].cmd \notin {"none", "Login"}
                      /\ Unsent(cs, u, f.call)
                      /\ \A i \in 1 .. Len(q2) : q2[i] # f.call

(* A frame is sent for a call that left the queue, or for none.            *)
LEMMA TravelsOn ==
  ASSUME NEW cs, NEW qu \in Seq(Calls), NEW q2 \in Seq(Calls), NEW u,
         NEW f \in FramesOf(UpTypes),
         u \in Seq(FramesOf(UpTypes)), TravelsOf(cs, qu, u), Fewer(q2, qu),
         f.call # None => /\ cs[f.call].cmd # "none" /\ Unsent(cs, u, f.call)
                          /\ \A i \in 1 .. Len(q2) : q2[i] # f.call
  PROVE  TravelsOf(cs, q2, Append(u, f))
<1> DEFINE v == Append(u, f)
<1>1. /\ Len(u) \in Nat /\ Len(v) = Len(u) + 1 /\ v[Len(u) + 1] = f
      /\ \A i \in 1 .. Len(u) : v[i] = u[i]
  OBVIOUS
<1>2. /\ \A i \in 1 .. Len(qu) : qu[i] \in Calls
      /\ \A i \in 1 .. Len(q2) : q2[i] \in Calls
  OBVIOUS
<1>3. None \notin Calls
  BY NoneIsNoCall
<1>4. \A i \in 1 .. Len(q2) :
        q2[i] # f.call /\ \E j \in 1 .. Len(qu) : q2[i] = qu[j]
  BY <1>2, <1>3 DEF Fewer
<1>5. \A i, j \in 1 .. Len(q2) : q2[i] = q2[j] => i = j
  BY DEF Fewer
<1> DEFINE n == Len(u)
<1> HIDE DEF v
<1>6. \A i \in 1 .. (n + 1) : i \in 1 .. n \/ i = n + 1
  BY <1>1
<1>7. \A c : Unsent(cs, u, c) /\ c # f.call => Unsent(cs, v, c)
  BY <1>1, <1>6 DEF Unsent
<1>8. \A i \in 1 .. Len(q2) : cs[q2[i]].cmd # "none" /\ Unsent(cs, v, q2[i])
  BY <1>4, <1>7 DEF TravelsOf
<1>9. \A c \in Calls : cs[c].cmd = "none" => Unsent(cs, v, c)
  <2> TAKE c \in Calls
  <2> HAVE cs[c].cmd = "none"
  <2>1. Unsent(cs, u, c) /\ c # None
    BY <1>3 DEF TravelsOf
  <2>2. c # f.call
    BY <2>1
  <2> QED BY <2>1, <2>2, <1>7
<1>10. ASSUME NEW q \in 1 .. Len(v), v[q].call # None
      PROVE  /\ cs[v[q].call].cmd # "none" /\ cs[v[q].call].verdict = "none"
             /\ \A r \in 1 .. Len(v) : v[r].call = v[q].call => r = q
  <2>1. CASE q \in 1 .. n
    <3>1. /\ v[q] = u[q] /\ cs[u[q].call].cmd # "none"
          /\ cs[u[q].call].verdict = "none"
          /\ \A r \in 1 .. Len(u) : u[r].call = u[q].call => r = q
      BY <1>1, <1>10, <2>1 DEF TravelsOf
    <3>2. f.call # u[q].call
      BY <3>1, <2>1, <1>1, <1>10 DEF Unsent
    <3> QED BY <3>1, <3>2, <1>1, <1>6
  <2>2. CASE q = n + 1
    <3>1. \A r \in 1 .. n : v[r].call # f.call
      BY <2>2, <1>1, <1>10 DEF Unsent
    <3> QED BY <2>2, <3>1, <1>1, <1>6, <1>10 DEF Unsent
  <2> QED BY <2>1, <2>2, <1>1, <1>6
<1>11. TravelsOf(cs, q2, v)
  BY <1>5, <1>8, <1>9, <1>10 DEF TravelsOf
<1> QED BY <1>11 DEF v

(* A request is written and its debt entered (push_pending).               *)
LEMMA SoundAsk ==
  ASSUME NEW cs, NEW qu, NEW q2, NEW lg, NEW pd, NEW iv, NEW dn, NEW u,
         NEW listens, SoundOf(cs, qu, lg, pd, iv, dn, u, listens), NEW f,
         NEW p \in OwedRecords, q2 \in Seq(Calls), Fewer(q2, qu),
         MaySend(cs, q2, u, f), Asks(cs, f, p), DebtOf(cs, p), ~p.error
  PROVE  SoundOf(cs, q2, lg, Append(pd, p), iv, dn, Append(u, f), listens)
<1>1. SoundTyped(cs, qu, lg, pd, iv, dn, u) /\ None \notin Calls
  BY NoneIsNoCall DEF SoundOf
<1>2. /\ f \in FramesOf(UpTypes) /\ f.type \notin AuthUp
      /\ u \in Seq(FramesOf(UpTypes)) /\ pd \in Seq(OwedRecords)
      /\ LinkTyped(cs, pd, dn, u) /\ qu \in Seq(Calls)
  BY <1>1 DEF MaySend, SoundTyped, LinkTyped
<1>3. /\ Append(pd, p) \in Seq(OwedRecords) /\ DebtsOf(cs, Append(pd, p))
      /\ InvitesOf(cs, iv, Append(pd, p))
  BY <1>2, DebtsMore DEF SoundOf
<1>4. Append(u, f) \in Seq(FramesOf(UpTypes))
  BY <1>2
<1>5. SoundTyped(cs, q2, lg, Append(pd, p), iv, dn, Append(u, f))
  BY <1>1, <1>3, <1>4 DEF SoundTyped, LinkTyped
<1>6. LedgerOf(cs, Append(pd, p), dn, Append(u, f), listens)
  BY <1>2, LedgerRequest DEF SoundOf
<1>7. TravelsOf(cs, q2, Append(u, f))
  BY <1>2, TravelsOn DEF SoundOf, MaySend
<1>8. LoginOf(cs, q2, lg, dn, Append(u, f))
  <2>1. LoginOf(cs, q2, lg, dn, u)
    BY LoginFewer DEF SoundOf
  <2>2. f.call \in Calls => cs[f.call].cmd # "Login"
    BY <1>1 DEF MaySend
  <2> QED BY <1>1, <1>2, <2>1, <2>2, LoginSend
<1> QED BY <1>3, <1>5, <1>6, <1>7, <1>8 DEF SoundOf

(* A packet without a reply is written with its barrier: a Ping behind it. *)
LEMMA SoundPair ==
  ASSUME NEW cs, NEW qu, NEW q2, NEW lg, NEW pd, NEW iv, NEW jv, NEW dn,
         NEW u, NEW listens, SoundOf(cs, qu, lg, pd, iv, dn, u, listens),
         NEW f, NEW p \in OwedRecords, q2 \in Seq(Calls), Fewer(q2, qu),
         MaySend(cs, q2, u, f), DebtOf(cs, p), ~p.error,
         f.type \in Packets, p.is \in Quiet, p.call = f.call,
         f.call \in Calls \ Requesters(cs),
         p.is \in {"join", "invite"} => f.type \in {"ChatJoin", "ChatInvite"},
         jv \in Seq(InviteRecords), InvitesOf(cs, jv, pd)
  PROVE  SoundOf(cs, q2, lg, Append(pd, p), jv, dn, u \o <<f, Ping>>, listens)
<1>1. SoundTyped(cs, qu, lg, pd, iv, dn, u) /\ None \notin Calls
  BY NoneIsNoCall DEF SoundOf
<1>2. /\ f \in FramesOf(UpTypes) /\ f.type \notin AuthUp
      /\ u \in Seq(FramesOf(UpTypes)) /\ pd \in Seq(OwedRecords)
      /\ LinkTyped(cs, pd, dn, u) /\ qu \in Seq(Calls)
  BY <1>1 DEF MaySend, SoundTyped, LinkTyped
<1>3. /\ Append(pd, p) \in Seq(OwedRecords) /\ DebtsOf(cs, Append(pd, p))
      /\ InvitesOf(cs, jv, Append(pd, p))
  BY <1>2, DebtsMore DEF SoundOf
<1> DEFINE v == Append(u, f)
           w == Append(v, Ping)
<1>4. /\ Ping \in FramesOf(UpTypes) /\ Ping.type \notin AuthUp
      /\ Ping.call = None
  BY DEF Ping, Frame, FramesOf, UpTypes, Rooms, AuthUp
<1>5. v \in Seq(FramesOf(UpTypes)) /\ w \in Seq(FramesOf(UpTypes))
  BY <1>2, <1>4
<1>6. w = u \o <<f, Ping>>
  BY <1>2, <1>4
<1> HIDE DEF w
<1>7. SoundTyped(cs, q2, lg, Append(pd, p), jv, dn, w)
  BY <1>1, <1>3, <1>5 DEF SoundTyped, LinkTyped
<1>8. LedgerOf(cs, Append(pd, p), dn, w, listens)
  BY <1>2, <1>6, LedgerPair DEF SoundOf
<1>9. TravelsOf(cs, q2, w)
  <2>1. TravelsOf(cs, q2, v)
    BY <1>2, TravelsOn DEF SoundOf, MaySend
  <2>2. Fewer(q2, q2)
    BY DEF Fewer
  <2> HIDE DEF v
  <2> QED BY <1>4, <1>5, <2>1, <2>2, TravelsOn DEF w
<1>10. LoginOf(cs, q2, lg, dn, w)
  <2>1. LoginOf(cs, q2, lg, dn, u)
    BY LoginFewer DEF SoundOf
  <2>2. f.call \in Calls => cs[f.call].cmd # "Login"
    BY <1>1 DEF MaySend
  <2>3. LoginOf(cs, q2, lg, dn, v)
    BY <1>1, <1>2, <2>1, <2>2, LoginSend
  <2> HIDE DEF v
  <2> QED BY <1>1, <1>4, <1>5, <2>3, LoginSend DEF w
<1> QED BY <1>3, <1>6, <1>7, <1>8, <1>9, <1>10 DEF SoundOf
(* A login is sent.                                                        *)
LEMMA SoundLogin ==
  ASSUME NEW cs, NEW qu, NEW q2, NEW lg, NEW lh, NEW pd, NEW iv, NEW dn,
         NEW u, NEW listens, SoundOf(cs, qu, lg, pd, iv, dn, u, listens),
         NEW f \in FramesOf(UpTypes), q2 \in Seq(Calls), Fewer(q2, qu),
         f.type = "AuthRequest", f.call \in Calls, cs[f.call].cmd = "Login",
         Unsent(cs, u, f.call), \A i \in 1 .. Len(q2) : q2[i] # f.call,
         lg.phase = "none", lh \in LoginRecords, lh.phase = "challenge",
         lh.call = f.call
  PROVE  SoundOf(cs, q2, lh, pd, iv, dn, Append(u, f), listens)
<1> DEFINE v == Append(u, f)
           n == Len(u)
<1>1. /\ SoundTyped(cs, qu, lg, pd, iv, dn, u) /\ LinkTyped(cs, pd, dn, u)
      /\ qu \in Seq(Calls) /\ u \in Seq(FramesOf(UpTypes))
  BY DEF SoundOf, SoundTyped, LinkTyped
<1>2. /\ n \in Nat /\ Len(v) = n + 1 /\ v[n + 1] = f
      /\ v \in Seq(FramesOf(UpTypes))
      /\ \A i \in 1 .. n : v[i] = u[i] /\ i \in 1 .. Len(v)
      /\ \A i \in 1 .. Len(v) : i \in 1 .. n \/ i = n + 1
  BY <1>1
<1>3. SoundTyped(cs, q2, lh, pd, iv, dn, v)
  BY <1>1, <1>2 DEF SoundTyped, LinkTyped
<1>4. LedgerOf(cs, pd, dn, v, listens)
  BY <1>1, LedgerAuthUp DEF SoundOf, AuthUp
<1>5. TravelsOf(cs, q2, v)
  BY <1>1, TravelsOn DEF SoundOf
<1> HIDE DEF v, n
<1>6. /\ \A i \in 1 .. n : u[i].type \notin AuthUp
      /\ \A i \in 1 .. Len(dn) : dn[i].type \notin AuthDown
  BY DEF SoundOf, LoginOf, n
<1>7. \A i \in 1 .. Len(v) : v[i].type \in AuthUp => i = n + 1
  BY <1>2, <1>6
<1>8. LoginOf(cs, q2, lh, dn, v)
  BY <1>2, <1>6, <1>7 DEF LoginOf
<1> QED BY <1>3, <1>4, <1>5, <1>8 DEF SoundOf, v
(* The client reads a frame.                                               *)
LEMMA FrameFront ==
  ASSUME NEW X, NEW s \in Seq(X), s # <<>>
  PROVE  /\ Tail(s) \in Seq(X) /\ Len(s) \in Nat \ {0} /\ Head(s) = s[1]
         /\ Len(Tail(s)) = Len(s) - 1 /\ s[1] \in X /\ 1 \in 1 .. Len(s)
         /\ \A i \in 1 .. Len(Tail(s)) :
              Tail(s)[i] = s[i + 1] /\ i + 1 \in 1 .. Len(s) /\ i + 1 # 1
OBVIOUS

(* The only login answer down is the one that is read.                     *)
LEMMA LoginRead ==
  ASSUME NEW cs, NEW qu, NEW lg, NEW dn, NEW u,
         LoginOf(cs, qu, lg, dn, u), dn \in Seq(FramesOf(DownTypes)),
         dn # <<>>
  PROVE  /\ LoginOf(cs, qu, lg, Tail(dn), u)
         /\ dn[1].type \in AuthDown =>
              /\ \A i \in 1 .. Len(Tail(dn)) : Tail(dn)[i].type \notin AuthDown
              /\ \A q \in 1 .. Len(u) : u[q].type \notin AuthUp
<1> DEFINE en == Tail(dn)
<1>1. /\ 1 \in 1 .. Len(dn)
      /\ \A i \in 1 .. Len(en) : /\ en[i] = dn[i + 1] /\ i + 1 \in 1 .. Len(dn)
                                 /\ i + 1 # 1
  BY FrameFront
<1>e. \A i, j \in 1 .. Len(en) : i + 1 = j + 1 => i = j
  OBVIOUS
<1> HIDE DEF en
<1>2. \A q \in 1 .. Len(en) : en[q].type \in AuthDown =>
       /\ lg.phase # "none" /\ en[q].call = lg.call
       /\ \A r \in 1 .. Len(en) : en[r].type \in AuthDown => r = q
       /\ en[q].type = "AuthChallenge" =>
            lg.phase = "challenge" /\ Unsent(cs, u, lg.call)
       /\ en[q].type = "AuthOk" =>
            lg.phase = "result" /\ cs[lg.call].verdict = "granted"
  <2> SUFFICES ASSUME NEW q \in 1 .. Len(en), en[q].type \in AuthDown
               PROVE  /\ lg.phase # "none" /\ en[q].call = lg.call
                      /\ \A r \in 1 .. Len(en) :
                           en[r].type \in AuthDown => r = q
                      /\ en[q].type = "AuthChallenge" =>
                           lg.phase = "challenge" /\ Unsent(cs, u, lg.call)
                      /\ en[q].type = "AuthOk" =>
                           /\ lg.phase = "result"
                           /\ cs[lg.call].verdict = "granted"
    OBVIOUS
  <2>1. en[q] = dn[q + 1] /\ q + 1 \in 1 .. Len(dn)
    BY <1>1
  <2>2. \A r \in 1 .. Len(dn) : dn[r].type \in AuthDown => r = q + 1
    BY <2>1 DEF LoginOf
  <2>3. \A r \in 1 .. Len(en) : en[r].type \in AuthDown => r + 1 = q + 1
    BY <2>2, <1>1
  <2>4. \A r \in 1 .. Len(en) : en[r].type \in AuthDown => r = q
    BY <2>3, <1>e
  <2> QED BY <2>1, <2>4 DEF LoginOf
<1>3. LoginOf(cs, qu, lg, en, u)
  <2>1. \A q \in 1 .. Len(u) : u[q].type \in AuthUp =>
          \A r \in 1 .. Len(en) : en[r].type \notin AuthDown
    BY <1>1 DEF LoginOf
  <2> QED BY <1>2, <2>1 DEF LoginOf
<1>4. ASSUME dn[1].type \in AuthDown
      PROVE  /\ \A i \in 1 .. Len(en) : en[i].type \notin AuthDown
             /\ \A q \in 1 .. Len(u) : u[q].type \notin AuthUp
  <2>1. \A r \in 1 .. Len(dn) : dn[r].type \in AuthDown => r = 1
    BY <1>1, <1>4 DEF LoginOf
  <2> QED BY <1>1, <1>4, <2>1 DEF LoginOf
<1> QED BY <1>3, <1>4 DEF en

(* The first frame down is read: what a reading handler must leave behind. *)
LEMMA SoundRead ==
  ASSUME NEW cs, NEW qu, NEW lg, NEW pd, NEW qd, NEW iv, NEW jv, NEW dn,
         NEW u, NEW listens, SoundOf(cs, qu, lg, pd, iv, dn, u, listens),
         NEW d \in {0, 1}, dn # <<>>,
         d = 1 <=> Closes(dn[1], Requesters(cs)),
         qd \in Seq(OwedRecords), Len(qd) = Len(pd) - d,
         \A k \in 1 .. Len(pd) : k > d => Like(pd[k], qd[k - d]),
         dn[1].type = "Error" /\ d = 0 => qd[1].error,
         DebtsOf(cs, qd), jv \in Seq(InviteRecords), InvitesOf(cs, jv, qd)
  PROVE  SoundOf(cs, qu, lg, qd, jv, Tail(dn), u, listens)
<1>1. /\ SoundTyped(cs, qu, lg, pd, iv, dn, u) /\ LinkTyped(cs, pd, dn, u)
      /\ dn \in Seq(FramesOf(DownTypes))
  BY DEF SoundOf, SoundTyped, LinkTyped
<1>2. Tail(dn) \in Seq(FramesOf(DownTypes))
  BY <1>1, FrameFront
<1>3. SoundTyped(cs, qu, lg, qd, jv, Tail(dn), u)
  BY <1>1, <1>2 DEF SoundTyped, LinkTyped
<1>4. LedgerOf(cs, pd, dn, u, listens)
  BY DEF SoundOf
<1>5. LedgerOf(cs, qd, Tail(dn), u, listens)
  BY <1>1, <1>4, LedgerRead
<1>6. LoginOf(cs, qu, lg, Tail(dn), u)
  BY <1>1, LoginRead DEF SoundOf
<1> QED BY <1>3, <1>5, <1>6 DEF SoundOf

(* A frame that settles nothing is read; a frame that settles the oldest   *)
(* debt is.                                                                *)
LEMMA SoundGlance ==
  ASSUME NEW cs, NEW qu, NEW lg, NEW pd, NEW iv, NEW dn, NEW u, NEW listens,
         SoundOf(cs, qu, lg, pd, iv, dn, u, listens), dn # <<>>,
         ~Turned(dn[1])
  PROVE  SoundOf(cs, qu, lg, pd, iv, Tail(dn), u, listens)
<1>1. /\ pd \in Seq(OwedRecords) /\ iv \in Seq(InviteRecords)
      /\ DebtsOf(cs, pd) /\ InvitesOf(cs, iv, pd)
  BY DEF SoundOf, SoundTyped, LinkTyped
<1>2. ~Closes(dn[1], Requesters(cs)) /\ dn[1].type # "Error"
  BY DEF Turned, Closes
<1>3. Len(pd) \in Nat
  BY <1>1
<1>4. /\ Len(pd) = Len(pd) - 0
      /\ \A k \in 1 .. Len(pd) : k > 0 => Like(pd[k], pd[k - 0])
  <2>1. \A k \in 1 .. Len(pd) : k - 0 = k
    BY <1>3
  <2> QED BY <2>1, <1>3 DEF Like
<1>5. 0 \in {0, 1} /\ (0 = 1 <=> Closes(dn[1], Requesters(cs)))
  BY <1>2
<1> QED BY <1>1, <1>2, <1>4, <1>5, SoundRead

(* The first frame down is read and settles the first debt.                *)
LEMMA SoundSettle ==
  ASSUME NEW cs, NEW qu, NEW lg, NEW pd, NEW iv, NEW dn, NEW u, NEW listens,
         SoundOf(cs, qu, lg, pd, iv, dn, u, listens), dn # <<>>, pd # <<>>,
         Closes(dn[1], Requesters(cs))
  PROVE  SoundOf(cs, qu, lg, Tail(pd), iv, Tail(dn), u, listens)
<1> DEFINE qd == Tail(pd)
<1>1. /\ pd \in Seq(OwedRecords) /\ iv \in Seq(InviteRecords)
      /\ DebtsOf(cs, pd) /\ InvitesOf(cs, iv, pd)
  BY DEF SoundOf, SoundTyped, LinkTyped
<1>2. /\ qd \in Seq(OwedRecords) /\ Len(qd) = Len(pd) - 1
      /\ Len(pd) \in Nat \ {0}
      /\ \A i \in 1 .. Len(qd) : qd[i] = pd[i + 1] /\ i + 1 \in 1 .. Len(pd)
  BY <1>1, FrameFront
<1> HIDE DEF qd
<1> DEFINE d == 1
<1>3. \A k \in 1 .. Len(pd) : k > d => Like(pd[k], qd[k - d])
  <2> TAKE k \in 1 .. Len(pd)
  <2> HAVE k > 1
  <2>1. k - 1 \in 1 .. Len(qd) /\ k - 1 + 1 = k
    BY <1>2
  <2>2. qd[k - 1] = pd[k]
    BY ONLY <2>1, <1>2
  <2> QED BY <2>2 DEF Like
<1>4. DebtsOf(cs, qd)
  BY <1>1, <1>2 DEF DebtsOf
<1>5. InvitesOf(cs, iv, qd)
  <2>1. \A i \in 1 .. Len(iv) : \A k \in 1 .. Len(qd) :
          qd[k].is = "invite" /\ qd[k].error /\ qd[k].call = iv[i].call
            => iv[i].failed
    <3>1. \A i \in 1 .. Len(iv) : \A k \in 1 .. Len(pd) :
            pd[k].is = "invite" /\ pd[k].error /\ pd[k].call = iv[i].call
              => iv[i].failed
      BY <1>1 DEF InvitesOf
    <3> QED BY ONLY <1>2, <3>1
  <2> QED BY ONLY <1>1, <2>1 DEF InvitesOf
<1>6. /\ d \in {0, 1} /\ (d = 1 <=> Closes(dn[1], Requesters(cs)))
      /\ ~(dn[1].type = "Error" /\ d = 0) /\ Len(qd) = Len(pd) - d
  BY <1>2
<1> HIDE DEF d
<1>7. SoundOf(cs, qu, lg, qd, iv, Tail(dn), u, listens)
  BY <1>1, <1>2, <1>3, <1>4, <1>5, <1>6, SoundRead
<1> QED BY <1>7 DEF qd
(* Logins and notices settle nothing.                                      *)
Notices == AuthUp \cup AuthDown
             \cup {"Info", "Warning", "Disconnect", "ChatUserList"}
(* Notices belong to no turn.                                              *)
LEMMA Aside == \A f : f.type \in Notices => ~Turned(f)
<1>1. Notices \cap ({"Ping", "Pong", "Error"} \cup Packets) = {}
  BY DEF Notices, AuthUp, AuthDown, Packets, QuietAnswers
<1>2. Notices \subseteq {"AuthRequest", "AuthResponse"} \cup DownTypes
  BY DEF Notices, AuthUp, AuthDown, DownTypes
<1>3. Notices \cap DOMAIN Answers = {}
  BY <1>2, PacketsDistinct
<1>4. Notices \cap ReplyTypes = {}
  BY PacketsDistinct DEF Notices, AuthUp, AuthDown, UpTypes
<1> QED BY <1>1, <1>3, <1>4 DEF Turned

(* What a frame that arrives says.                                         *)
LEMMA FrontFits ==
  ASSUME NEW cs, NEW pd, NEW dn, NEW u, NEW listens,
         LinkTyped(cs, pd, dn, u), LedgerOf(cs, pd, dn, u, listens),
         dn # <<>>, Turned(dn[1])
  PROVE  /\ pd # <<>> /\ pd[1] \in OwedRecords
         /\ \E D : D[1] = 1 /\ DownFits(cs, pd[1], dn, D, 1)
<1>1. PICK D, U : LedgerAt(cs, pd, dn, u, listens, D, U)
  BY DEF LedgerOf
<1>2. 1 \in 1 .. Len(dn) /\ pd \in Seq(OwedRecords)
  <2>1. dn \in Seq(FramesOf(DownTypes)) /\ pd \in Seq(OwedRecords)
    BY DEF LinkTyped
  <2> QED BY <2>1, FrameFront
<1>3. D[1] = 1 /\ 1 \in 1 .. Len(pd) /\ DownFits(cs, pd[1], dn, D, 1)
  BY <1>1, <1>2 DEF LedgerAt, DownAt
<1>4. pd # <<>> /\ pd[1] \in OwedRecords
  BY <1>2, <1>3
<1> QED BY <1>3, <1>4

(* A Pong is for a Ping: the first debt is a keep-alive or a barrier, and  *)
(* the server has handled what the barrier stands behind.                  *)
LEMMA PongMeans ==
  ASSUME NEW cs, NEW pd, NEW dn, NEW u, NEW listens,
         LinkTyped(cs, pd, dn, u), LedgerOf(cs, pd, dn, u, listens),
         dn # <<>>, dn[1].type = "Pong"
  PROVE  /\ pd # <<>> /\ pd[1] \in OwedRecords /\ pd[1].is # "reply"
         /\ pd[1].is \in {"join", "invite"} =>
              \/ pd[1].error
              \/ cs[pd[1].call].verdict \notin {"none", "refused"}
<1>1. /\ pd # <<>> /\ pd[1] \in OwedRecords
      /\ \E D : D[1] = 1 /\ DownFits(cs, pd[1], dn, D, 1)
  BY FrontFits DEF Turned
<1>2. PICK D : D[1] = 1 /\ DownFits(cs, pd[1], dn, D, 1)
  BY <1>1
<1>3. pd[1].is \in {"join", "invite"} => Handled(cs, pd[1], dn, D, 1, 0)
  BY <1>2 DEF DownFits
<1>4. pd[1].is # "reply"
  BY <1>2 DEF DownFits
<1> QED BY <1>1, <1>3, <1>4 DEF Handled

(* A reply is for the first debt, of the type it expects, and the server   *)
(* granted that call.                                                      *)
LEMMA ReplyMeans ==
  ASSUME NEW cs, NEW pd, NEW dn, NEW u, NEW listens,
         LinkTyped(cs, pd, dn, u), LedgerOf(cs, pd, dn, u, listens),
         dn # <<>>, dn[1].type \in ReplyTypes
  PROVE  /\ pd # <<>> /\ pd[1] \in OwedRecords /\ pd[1].is = "reply"
         /\ pd[1].call = dn[1].call /\ pd[1].expects = dn[1].type
         /\ cs[pd[1].call].verdict = "granted"
<1>1. /\ pd # <<>> /\ pd[1] \in OwedRecords
      /\ \E D : D[1] = 1 /\ DownFits(cs, pd[1], dn, D, 1)
  BY FrontFits DEF Turned
<1> QED BY <1>1 DEF DownFits

(* An Error is about the call of the first debt, and the server refused    *)
(* it.                                                                     *)
LEMMA ErrorMeans ==
  ASSUME NEW cs, NEW pd, NEW dn, NEW u, NEW listens,
         LinkTyped(cs, pd, dn, u), LedgerOf(cs, pd, dn, u, listens),
         dn # <<>>, dn[1].type = "Error"
  PROVE  /\ pd # <<>> /\ pd[1] \in OwedRecords /\ pd[1].call = dn[1].call
         /\ dn[1].call \in Calls /\ cs[pd[1].call].verdict = "refused"
         /\ IF dn[1].call \in Requesters(cs) THEN pd[1].is = "reply"
            ELSE pd[1].is \in Quiet
<1>1. /\ pd # <<>> /\ pd[1] \in OwedRecords
      /\ \E D : D[1] = 1 /\ DownFits(cs, pd[1], dn, D, 1)
  BY FrontFits DEF Turned
<1> QED BY <1>1 DEF DownFits

(* An Error for a packet that is not answered otherwise is noted.          *)
LEMMA SoundNote ==
  ASSUME NEW cs, NEW qu, NEW lg, NEW pd, NEW qd, NEW iv, NEW jv, NEW dn,
         NEW u, NEW listens, SoundOf(cs, qu, lg, pd, iv, dn, u, listens),
         dn # <<>>, dn[1].type = "Error", pd[1].is \in Quiet,
         qd \in Seq(OwedRecords), Len(qd) = Len(pd), qd[1].error,
         \A k \in 1 .. Len(pd) : Like(pd[k], qd[k]) /\ (k # 1 => qd[k] = pd[k]),
         jv \in Seq(InviteRecords), InvitesOf(cs, jv, qd)
  PROVE  SoundOf(cs, qu, lg, qd, jv, Tail(dn), u, listens)
<1>1. /\ LinkTyped(cs, pd, dn, u) /\ LedgerOf(cs, pd, dn, u, listens)
      /\ DebtsOf(cs, pd) /\ Len(pd) \in Nat
  BY DEF SoundOf, SoundTyped, LinkTyped
<1>2. /\ pd[1].call = dn[1].call /\ cs[pd[1].call].verdict = "refused"
      /\ dn[1].call \notin Requesters(cs)
  <2>1. pd[1].is # "reply"
    BY DEF Quiet
  <2> QED BY <1>1, <2>1, ErrorMeans
<1> DEFINE d == 0
<1>3. /\ d \in {0, 1} /\ (d = 1 <=> Closes(dn[1], Requesters(cs)))
      /\ Len(qd) = Len(pd) - d
  <2>1. "Error" \notin {"Ping", "Pong"} \cup DOMAIN Answers \cup ReplyTypes
    BY PacketsDistinct DEF DownTypes
  <2> QED BY <1>1, <1>2, <2>1 DEF Closes
<1>4. \A k \in 1 .. Len(pd) : k > d => Like(pd[k], qd[k - d])
  <2>1. \A k \in 1 .. Len(pd) : k - d = k
    BY <1>1
  <2> QED BY <2>1
<1> HIDE DEF d
<1>5. DebtsOf(cs, qd)
  <2> SUFFICES ASSUME NEW k \in 1 .. Len(pd)
               PROVE  DebtOf(cs, qd[k])
    BY DEF DebtsOf
  <2>1. CASE k = 1
    <3>1. DebtOf(cs, pd[1]) /\ Like(pd[1], qd[1])
      BY <2>1, <1>1 DEF DebtsOf
    <3> QED BY <2>1, <3>1, <1>2 DEF DebtOf, Like
  <2>2. CASE k # 1
    BY <2>2, <1>1 DEF DebtsOf
  <2> QED BY <2>1, <2>2
<1> QED BY <1>3, <1>4, <1>5, SoundRead

(* The answer to a login is read: another frame of it is sent, or it is    *)
(* over.                                                                   *)
LEMMA SoundOver ==
  ASSUME NEW cs, NEW qu, NEW lg, NEW lh, NEW pd, NEW iv, NEW dn, NEW u,
         NEW listens, SoundOf(cs, qu, lg, pd, iv, dn, u, listens),
         dn # <<>>, dn[1].type \in AuthDown, lh \in LoginRecords,
         lh.phase = "none"
  PROVE  SoundOf(cs, qu, lh, pd, iv, Tail(dn), u, listens)
<1>1. ~Turned(dn[1])
  BY Aside DEF Notices
<1>2. SoundOf(cs, qu, lg, pd, iv, Tail(dn), u, listens)
  BY <1>1, SoundGlance
<1>3. /\ \A i \in 1 .. Len(Tail(dn)) : Tail(dn)[i].type \notin AuthDown
      /\ \A q \in 1 .. Len(u) : u[q].type \notin AuthUp
  <2>1. dn \in Seq(FramesOf(DownTypes)) /\ LoginOf(cs, qu, lg, dn, u)
    BY DEF SoundOf, SoundTyped, LinkTyped
  <2> QED BY <2>1, LoginRead
<1>4. LoginOf(cs, qu, lh, Tail(dn), u)
  BY <1>3 DEF LoginOf
<1> QED BY <1>2, <1>4 DEF SoundOf, SoundTyped

(* The proof of a login goes up when its challenge is read.                *)
LEMMA SoundProof ==
  ASSUME NEW cs, NEW qu, NEW lg, NEW lh, NEW pd, NEW iv, NEW dn, NEW u,
         NEW listens, SoundOf(cs, qu, lg, pd, iv, dn, u, listens),
         NEW f \in FramesOf(UpTypes), dn # <<>>,
         dn[1].type = "AuthChallenge", f.type = "AuthResponse",
         f.call = lg.call, lh \in LoginRecords, lh.phase = "result",
         lh.call = lg.call
  PROVE  SoundOf(cs, qu, lh, pd, iv, Tail(dn), Append(u, f), listens)
<1> DEFINE v == Append(u, f)
           n == Len(u)
           en == Tail(dn)
<1>1. /\ u \in Seq(FramesOf(UpTypes)) /\ dn \in Seq(FramesOf(DownTypes))
      /\ qu \in Seq(Calls) /\ LoginOf(cs, qu, lg, dn, u)
      /\ TravelsOf(cs, qu, u)
  BY DEF SoundOf, SoundTyped, LinkTyped
<1>2. /\ n \in Nat /\ Len(v) = n + 1 /\ v[n + 1] = f
      /\ v \in Seq(FramesOf(UpTypes))
      /\ \A i \in 1 .. n : v[i] = u[i] /\ i \in 1 .. Len(v)
      /\ \A i \in 1 .. Len(v) : i \in 1 .. n \/ i = n + 1
  BY <1>1
<1>3. /\ lg.call \in Calls /\ cs[lg.call].cmd = "Login"
      /\ Unsent(cs, u, lg.call)
      /\ \A i \in 1 .. Len(qu) : qu[i] # lg.call
  <2>1. 1 \in 1 .. Len(dn) /\ dn[1].type \in AuthDown
    BY <1>1, FrameFront DEF AuthDown
  <2> QED BY <1>1, <2>1 DEF LoginOf
<1>4. ~Turned(dn[1]) /\ dn[1].type \in AuthDown
  BY Aside DEF Notices, AuthDown
<1>5. SoundOf(cs, qu, lg, pd, iv, en, u, listens)
  BY <1>4, SoundGlance
<1>6. /\ \A i \in 1 .. Len(en) : en[i].type \notin AuthDown
      /\ \A q \in 1 .. n : u[q].type \notin AuthUp
  BY <1>1, <1>4, LoginRead
<1>7. TravelsOf(cs, qu, v)
  <2>1. Fewer(qu, qu)
    BY <1>1 DEF Fewer, TravelsOf
  <2>2. f.call # None => /\ cs[f.call].cmd # "none" /\ Unsent(cs, u, f.call)
                         /\ \A i \in 1 .. Len(qu) : qu[i] # f.call
    BY <1>3
  <2> QED BY <1>1, <2>1, <2>2, TravelsOn
<1>8. LedgerOf(cs, pd, en, v, listens)
  <2>1. LinkTyped(cs, pd, en, u) /\ LedgerOf(cs, pd, en, u, listens)
    BY <1>5 DEF SoundOf, SoundTyped
  <2> QED BY <2>1, LedgerAuthUp DEF AuthUp
<1>9. SoundTyped(cs, qu, lh, pd, iv, en, v)
  BY <1>2, <1>5 DEF SoundOf, SoundTyped, LinkTyped
<1> HIDE DEF v, n, en
<1>10. \A i \in 1 .. Len(v) : v[i].type \in AuthUp => i = n + 1
  BY <1>2, <1>6
<1>11. LoginOf(cs, qu, lh, en, v)
  BY <1>2, <1>3, <1>6, <1>10 DEF LoginOf
<1> QED BY <1>5, <1>7, <1>8, <1>9, <1>11 DEF SoundOf, v, en
(* The server judges the call of a packet it takes.                        *)
JudgesAt(cs, cs2, c) ==
  /\ cs2 \in [Calls -> CallRecords]
  /\ \A d \in Calls :
       /\ cs2[d].cmd = cs[d].cmd /\ cs2[d].outcome = cs[d].outcome
       /\ cs2[d].got = cs[d].got
       /\ d # c => cs2[d].verdict = cs[d].verdict

(* The server has not judged the call whose packet it takes next.          *)
LEMMA FrontUnjudged ==
  ASSUME NEW cs, NEW qu, NEW lg, NEW pd, NEW iv, NEW dn, NEW u, NEW listens,
         SoundOf(cs, qu, lg, pd, iv, dn, u, listens), u # <<>>
  PROVE  /\ u[1].call \in Calls \cup {None} /\ u[1].type \in UpTypes
         /\ u[1].room \in Rooms /\ None \notin Calls
         /\ u[1].call \in Calls => /\ cs[u[1].call].verdict = "none"
                                   /\ cs[u[1].call].cmd # "none"
         /\ Len(u) \in Nat \ {0} /\ 1 \in 1 .. Len(u)
<1>1. u \in Seq(FramesOf(UpTypes)) /\ TravelsOf(cs, qu, u) /\ None \notin Calls
  BY NoneIsNoCall DEF SoundOf, SoundTyped, LinkTyped
<1>2. u[1] \in FramesOf(UpTypes) /\ 1 \in 1 .. Len(u) /\ Len(u) \in Nat \ {0}
  BY <1>1, FrameFront
<1>3. /\ u[1].call \in Calls \cup {None} /\ u[1].type \in UpTypes
      /\ u[1].room \in Rooms
  BY <1>2 DEF FramesOf
<1> QED BY <1>1, <1>2, <1>3 DEF TravelsOf

(* The server takes a packet: what a serving handler must leave behind.    *)
LEMMA SoundServed ==
  ASSUME NEW cs, NEW cs2, NEW qu, NEW lg, NEW pd, NEW iv, NEW dn, NEW en,
         NEW u, SoundOf(cs, qu, lg, pd, iv, dn, u, TRUE), u # <<>>,
         JudgesAt(cs, cs2, u[1].call), en \in Seq(FramesOf(DownTypes)),
         LedgerOf(cs2, pd, dn, u, TRUE) =>
           LedgerOf(cs2, pd, en, Tail(u), TRUE),
         LoginOf(cs2, qu, lg, en, Tail(u))
  PROVE  SoundOf(cs2, qu, lg, pd, iv, en, Tail(u), TRUE)
<1> DEFINE c == u[1].call
<1>1. /\ SoundTyped(cs, qu, lg, pd, iv, dn, u) /\ LinkTyped(cs, pd, dn, u)
      /\ u \in Seq(FramesOf(UpTypes)) /\ qu \in Seq(Calls)
      /\ iv \in Seq(InviteRecords) /\ cs2 \in [Calls -> CallRecords]
  BY DEF SoundOf, SoundTyped, LinkTyped, JudgesAt
<1>2. /\ c \in Calls => cs[c].verdict = "none"
      /\ c \in Calls \cup {None} /\ None \notin Calls
  BY FrontUnjudged
<1>3. Judges(cs, cs2)
  BY <1>2 DEF Judges, JudgesAt
<1>4. LedgerOf(cs2, pd, dn, u, TRUE)
  <2>1. LedgerOf(cs, pd, dn, u, TRUE)
    BY DEF SoundOf
  <2> QED BY <1>1, <1>3, <2>1, LedgerCalls DEF Judges
<1>5. /\ Tail(u) \in Seq(FramesOf(UpTypes)) /\ Len(u) \in Nat \ {0}
      /\ Len(Tail(u)) = Len(u) - 1
      /\ \A i \in 1 .. (Len(u) - 1) : Tail(u)[i] = u[i + 1]
  BY <1>1, FrameFront
<1>6. SoundTyped(cs2, qu, lg, pd, iv, en, Tail(u))
  BY <1>1, <1>5 DEF SoundTyped, LinkTyped
<1>7. TravelsOf(cs2, qu, Tail(u))
  <2>1. /\ \A i \in 1 .. Len(qu) : qu[i] \in Calls
        /\ \A i \in 1 .. Len(u) : u[i].call \in Calls \cup {None}
    BY <1>1, Channels
  <2>2. TravelsOf(cs, qu, u)
    BY DEF SoundOf
  <2> DEFINE v == Tail(u)
  <2>3. /\ Len(v) = Len(u) - 1
        /\ \A i \in 1 .. (Len(u) - 1) : v[i] = u[i + 1]
    BY <1>5
  <2> HIDE DEF v
  <2>4. \A d \in Calls : /\ cs2[d].cmd = cs[d].cmd
                         /\ d # u[1].call => cs2[d].verdict = cs[d].verdict
    BY DEF JudgesAt
  <2>5. TravelsOf(cs2, qu, v)
    BY <1>2, <1>5, <2>1, <2>2, <2>3, <2>4, TravelsTail
  <2> QED BY <2>5 DEF v
<1>8. DebtsOf(cs2, pd)
  <2>1. \A k \in 1 .. Len(pd) : pd[k] \in OwedRecords /\ DebtOf(cs, pd[k])
    BY <1>1, Channels DEF SoundOf, DebtsOf
  <2> QED BY <2>1, <1>3, DebtsJudged DEF DebtsOf
<1>9. InvitesOf(cs2, iv, pd)
  BY <1>1, <1>3, InvitesJudged DEF SoundOf
<1>10. AnswersOf(cs2)
  <2>1. AnswersOf(cs)
    BY DEF SoundOf
  <2>2. \A d \in Calls : /\ cs2[d].cmd = cs[d].cmd
                         /\ cs2[d].outcome = cs[d].outcome
                         /\ cs2[d].got = cs[d].got
                         /\ cs[d].verdict # "none" =>
                              cs2[d].verdict = cs[d].verdict
    BY <1>3 DEF JudgesAt, Judges
  <2> QED BY <2>1, <2>2 DEF AnswersOf
<1> QED BY <1>4, <1>6, <1>7, <1>8, <1>9, <1>10 DEF SoundOf

(* The server's frames, as the login sees them.                            *)
LEMMA LoginPlain ==
  ASSUME NEW cs, NEW qu, NEW lg, NEW dn, NEW en, NEW u,
         LoginOf(cs, qu, lg, dn, u), Len(dn) \in Nat,
         Len(en) = Len(dn) \/ Len(en) = Len(dn) + 1,
         \A i \in 1 .. Len(dn) : en[i] = dn[i],
         Len(en) = Len(dn) + 1 => en[Len(dn) + 1].type \notin AuthDown
  PROVE  LoginOf(cs, qu, lg, en, u)
<1>1. \A i \in 1 .. Len(en) : en[i].type \in AuthDown =>
         i \in 1 .. Len(dn) /\ en[i] = dn[i]
  <2> TAKE i \in 1 .. Len(en)
  <2> HAVE en[i].type \in AuthDown
  <2>1. CASE Len(en) = Len(dn)
    BY <2>1
  <2>2. CASE Len(en) = Len(dn) + 1
    <3>1. i \in 1 .. Len(dn) \/ i = Len(dn) + 1
      BY <2>2
    <3> QED BY <2>2, <3>1
  <2> QED BY <2>1, <2>2
<1>2. ASSUME NEW q \in 1 .. Len(en), en[q].type \in AuthDown
      PROVE  /\ lg.phase # "none" /\ en[q].call = lg.call
             /\ \A r \in 1 .. Len(en) : en[r].type \in AuthDown => r = q
             /\ en[q].type = "AuthChallenge" =>
                  lg.phase = "challenge" /\ Unsent(cs, u, lg.call)
             /\ en[q].type = "AuthOk" =>
                  lg.phase = "result" /\ cs[lg.call].verdict = "granted"
  <2>1. q \in 1 .. Len(dn) /\ en[q] = dn[q]
    BY <1>1, <1>2
  <2>2. \A r \in 1 .. Len(dn) : dn[r].type \in AuthDown => r = q
    BY <2>1, <1>2 DEF LoginOf
  <2>3. \A r \in 1 .. Len(en) : en[r].type \in AuthDown => r = q
    BY <1>1, <2>2
  <2> QED BY <1>2, <2>1, <2>3 DEF LoginOf
<1>3. \A q \in 1 .. Len(u) : u[q].type \in AuthUp =>
        \A r \in 1 .. Len(en) : en[r].type \notin AuthDown
  BY <1>1 DEF LoginOf
<1> QED BY <1>2, <1>3 DEF LoginOf

(* A packet taken leaves a login where it is.                              *)
LEMMA LoginServed ==
  ASSUME NEW cs, NEW cs2, NEW qu, NEW lg, NEW dn, NEW u, NEW v,
         LoginOf(cs, qu, lg, dn, u), Len(u) \in Nat \ {0},
         Len(v) = Len(u) - 1, \A i \in 1 .. (Len(u) - 1) : v[i] = u[i + 1],
         \A d \in Calls :
           /\ cs2[d].cmd = cs[d].cmd
           /\ d # u[1].call \/ cs[d].verdict # "none" =>
                cs2[d].verdict = cs[d].verdict
  PROVE  LoginOf(cs2, qu, lg, dn, v)
<1>1. /\ \A i \in 1 .. Len(v) : /\ v[i] = u[i + 1] /\ i + 1 \in 1 .. Len(u)
      /\ \A i, j \in 1 .. Len(v) : i + 1 = j + 1 => i = j
      /\ 1 \in 1 .. Len(u)
  OBVIOUS
<1>2. \A c \in Calls : Unsent(cs, u, c) => Unsent(cs2, v, c)
  BY <1>1 DEF Unsent
<1>3. ASSUME NEW q \in 1 .. Len(v), v[q].type \in AuthUp
      PROVE  /\ lg.phase = IF v[q].type = "AuthRequest" THEN "challenge"
                           ELSE "result"
             /\ v[q].call = lg.call
             /\ \A r \in 1 .. Len(v) : v[r].type \in AuthUp => r = q
             /\ \A r \in 1 .. Len(dn) : dn[r].type \notin AuthDown
  <2>1. v[q] = u[q + 1] /\ q + 1 \in 1 .. Len(u)
    BY <1>1
  <2>2. \A r \in 1 .. Len(u) : u[r].type \in AuthUp => r = q + 1
    BY <2>1, <1>3 DEF LoginOf
  <2>3. \A r \in 1 .. Len(v) : v[r].type \in AuthUp => r = q
    BY <1>1, <2>2
  <2> QED BY <1>3, <2>1, <2>3 DEF LoginOf
<1>4. lg.phase # "none" => lg.call \in Calls /\ cs2[lg.call].cmd = "Login"
  BY DEF LoginOf
<1>5. \A q \in 1 .. Len(dn) : dn[q].type \in AuthDown =>
       /\ dn[q].type = "AuthChallenge" => Unsent(cs2, v, lg.call)
       /\ dn[q].type = "AuthOk" => cs2[lg.call].verdict = "granted"
  BY <1>2, <1>4 DEF LoginOf
<1> QED BY <1>3, <1>4, <1>5 DEF LoginOf

(* The server's frames: a notice, an answer, a packet that is granted.     *)
LEMMA Grown ==
  ASSUME NEW X, NEW s \in Seq(X), NEW x \in X
  PROVE  /\ Append(s, x) \in Seq(X) /\ Len(s) \in Nat
         /\ Len(Append(s, x)) = Len(s) + 1 /\ Append(s, x)[Len(s) + 1] = x
         /\ \A i \in 1 .. Len(s) : Append(s, x)[i] = s[i]
OBVIOUS

(* The server may say anything that is neither an answer nor of a login.   *)
LEMMA SoundSays ==
  ASSUME NEW cs, NEW qu, NEW lg, NEW pd, NEW iv, NEW dn, NEW u, NEW listens,
         SoundOf(cs, qu, lg, pd, iv, dn, u, listens),
         NEW g \in FramesOf(DownTypes), ~Turned(g), g.type \notin AuthDown
  PROVE  SoundOf(cs, qu, lg, pd, iv, Append(dn, g), u, listens)
<1>1. /\ LinkTyped(cs, pd, dn, u) /\ dn \in Seq(FramesOf(DownTypes))
      /\ LedgerOf(cs, pd, dn, u, listens) /\ LoginOf(cs, qu, lg, dn, u)
  BY DEF SoundOf, SoundTyped, LinkTyped
<1>2. LedgerOf(cs, pd, Append(dn, g), u, listens)
  BY <1>1, LedgerNotice
<1> DEFINE en == Append(dn, g)
<1>3. /\ en \in Seq(FramesOf(DownTypes)) /\ Len(dn) \in Nat
      /\ Len(en) = Len(dn) + 1 /\ en[Len(dn) + 1] = g
      /\ \A i \in 1 .. Len(dn) : en[i] = dn[i]
  BY <1>1, Grown
<1> HIDE DEF en
<1>4. LoginOf(cs, qu, lg, en, u)
  BY <1>1, <1>3, LoginPlain
<1>5. SoundTyped(cs, qu, lg, pd, iv, en, u)
  BY <1>3 DEF SoundOf, SoundTyped, LinkTyped
<1> QED BY <1>2, <1>4, <1>5 DEF SoundOf, en

(* The verdict on a call whose packet is next changes nothing else.        *)
LEMMA JudgedOnce ==
  ASSUME NEW cs, NEW cs2, NEW qu, NEW lg, NEW pd, NEW iv, NEW dn, NEW u,
         SoundOf(cs, qu, lg, pd, iv, dn, u, TRUE), u # <<>>,
         JudgesAt(cs, cs2, u[1].call)
  PROVE  /\ LinkTyped(cs2, pd, dn, u) /\ LoginOf(cs2, qu, lg, dn, Tail(u))
         /\ dn \in Seq(FramesOf(DownTypes)) /\ u \in Seq(FramesOf(UpTypes))
<1>1. /\ LinkTyped(cs2, pd, dn, u) /\ LoginOf(cs, qu, lg, dn, u)
      /\ dn \in Seq(FramesOf(DownTypes)) /\ u \in Seq(FramesOf(UpTypes))
  BY DEF SoundOf, SoundTyped, LinkTyped, JudgesAt
<1> DEFINE v == Tail(u)
<1>2. /\ Len(u) \in Nat \ {0} /\ Len(v) = Len(u) - 1
      /\ \A i \in 1 .. (Len(u) - 1) : v[i] = u[i + 1]
  BY <1>1, FrameFront
<1> HIDE DEF v
<1>3. \A d \in Calls : /\ cs2[d].cmd = cs[d].cmd
                       /\ d # u[1].call \/ cs[d].verdict # "none" =>
                            cs2[d].verdict = cs[d].verdict
  <2>1. u[1].call \in Calls => cs[u[1].call].verdict = "none"
    BY FrontUnjudged
  <2>2. \A d \in Calls : cs[d].verdict # "none" => d # u[1].call
    BY <2>1
  <2> QED BY <2>2 DEF JudgesAt
<1>4. LoginOf(cs2, qu, lg, dn, v)
  BY <1>1, <1>2, <1>3, LoginServed
<1> QED BY <1>1, <1>4 DEF v

(* The oldest packet is that of a call, and one that is answered is one    *)
(* that is asked with.                                                     *)
LEMMA FrontAsks ==
  ASSUME NEW cs, NEW qu, NEW lg, NEW pd, NEW iv, NEW dn, NEW u,
         SoundOf(cs, qu, lg, pd, iv, dn, u, TRUE), u # <<>>
  PROVE  /\ u[1].type # "Ping" => u[1].call \in Calls
         /\ u[1].type \in DOMAIN Answers => Answers[u[1].type] \in ReplyTypes
<1>1. PICK D, U : LedgerAt(cs, pd, dn, u, TRUE, D, U)
  BY DEF SoundOf, LedgerOf
<1>2. 1 \in 1 .. Len(u) /\ u[1].type \in UpTypes
  BY FrontUnjudged
<1>3. Turned(u[1]) => UpFits(cs, pd[U[1]], dn, D, u, U, 1)
  BY <1>1, <1>2 DEF LedgerAt, UpAt, Sends
<1>4. CASE u[1].type \in AuthUp
  <2>1. LoginOf(cs, qu, lg, dn, u)
    BY DEF SoundOf
  <2>2. u[1].call \in Calls
    BY <1>2, <1>4, <2>1 DEF LoginOf
  <2> QED BY <1>4, <2>2, PacketsDistinct DEF AuthUp
<1>5. CASE u[1].type \in Packets
  BY <1>3, <1>5, PacketsDistinct DEF UpFits, Turned
<1>6. CASE u[1].type \in DOMAIN Answers
  <2>1. /\ u[1].call \in Requesters(cs)
        /\ u[1].type = Requests[cs[u[1].call].cmd].packet
    BY <1>3, <1>6 DEF UpFits, Turned
  <2> QED BY <2>1, TablesAgree DEF Requesters, ReplyTypes
<1>7. CASE u[1].type = "Ping"
  BY <1>7, PacketsDistinct
<1> QED BY <1>2, <1>4, <1>5, <1>6, <1>7, UpDistinct DEF AuthUp

(* The server answers the packet it takes with one reply.                  *)
LEMMA SoundReplied ==
  ASSUME NEW cs, NEW cs2, NEW qu, NEW lg, NEW pd, NEW iv, NEW dn, NEW u,
         SoundOf(cs, qu, lg, pd, iv, dn, u, TRUE), u # <<>>,
         JudgesAt(cs, cs2, u[1].call), NEW g \in FramesOf(DownTypes),
         Replies(cs2, u[1], g)
  PROVE  SoundOf(cs2, qu, lg, pd, iv, Append(dn, g), Tail(u), TRUE)
<1>1. /\ LinkTyped(cs2, pd, dn, u) /\ LoginOf(cs2, qu, lg, dn, Tail(u))
      /\ dn \in Seq(FramesOf(DownTypes)) /\ u \in Seq(FramesOf(UpTypes))
  BY JudgedOnce
<1>2. LedgerOf(cs2, pd, dn, u, TRUE) =>
        LedgerOf(cs2, pd, Append(dn, g), Tail(u), TRUE)
  BY <1>1, LedgerReply
<1> DEFINE en == Append(dn, g)
<1>3. /\ en \in Seq(FramesOf(DownTypes)) /\ Len(dn) \in Nat
      /\ Len(en) = Len(dn) + 1 /\ en[Len(dn) + 1] = g
      /\ \A i \in 1 .. Len(dn) : en[i] = dn[i]
  BY <1>1, Grown
<1>4. g.type \notin AuthDown
  <2>1. Turned(g)
    BY FrontAsks DEF Replies, Turned
  <2> QED BY <2>1, Aside DEF Notices
<1> HIDE DEF en
<1>5. LoginOf(cs2, qu, lg, en, Tail(u))
  BY <1>1, <1>3, <1>4, LoginPlain
<1> QED BY <1>2, <1>3, <1>5, SoundServed DEF en

(* The server takes a packet that wants no reply and grants it.            *)
LEMMA SoundGranted ==
  ASSUME NEW cs, NEW cs2, NEW qu, NEW lg, NEW pd, NEW iv, NEW dn, NEW u,
         SoundOf(cs, qu, lg, pd, iv, dn, u, TRUE), u # <<>>,
         JudgesAt(cs, cs2, u[1].call), u[1].type \in Packets,
         cs2[u[1].call].verdict = "granted"
  PROVE  SoundOf(cs2, qu, lg, pd, iv, dn, Tail(u), TRUE)
<1>1. /\ LinkTyped(cs2, pd, dn, u) /\ LoginOf(cs2, qu, lg, dn, Tail(u))
      /\ dn \in Seq(FramesOf(DownTypes)) /\ u \in Seq(FramesOf(UpTypes))
  BY JudgedOnce
<1>2. LedgerOf(cs2, pd, dn, u, TRUE) => LedgerOf(cs2, pd, dn, Tail(u), TRUE)
  BY <1>1, LedgerDrop
<1> QED BY <1>1, <1>2, SoundServed

(* The answer to the packet of a login.                                    *)
LoginReplies(cs, f, g) ==
  /\ f.type \in AuthUp /\ g.call = f.call
  /\ \/ g.type = "AuthFailed"
     \/ /\ f.type = "AuthRequest" /\ g.type = "AuthChallenge"
        /\ cs[f.call].verdict = "none"
     \/ /\ f.type = "AuthResponse" /\ g.type = "AuthOk"
        /\ cs[f.call].verdict = "granted"

(* The server answers a login packet.                                      *)
LEMMA SoundLoginReplied ==
  ASSUME NEW cs, NEW cs2, NEW qu, NEW lg, NEW pd, NEW iv, NEW dn, NEW u,
         SoundOf(cs, qu, lg, pd, iv, dn, u, TRUE), u # <<>>,
         JudgesAt(cs, cs2, u[1].call), NEW g \in FramesOf(DownTypes),
         LoginReplies(cs2, u[1], g)
  PROVE  SoundOf(cs2, qu, lg, pd, iv, Append(dn, g), Tail(u), TRUE)
<1>1. /\ LinkTyped(cs2, pd, dn, u) /\ LoginOf(cs2, qu, lg, dn, Tail(u))
      /\ dn \in Seq(FramesOf(DownTypes)) /\ u \in Seq(FramesOf(UpTypes))
  BY JudgedOnce
<1>2. LedgerOf(cs2, pd, dn, u, TRUE) =>
        LedgerOf(cs2, pd, Append(dn, g), Tail(u), TRUE)
  <2> HAVE LedgerOf(cs2, pd, dn, u, TRUE)
  <2>1. LedgerOf(cs2, pd, dn, Tail(u), TRUE)
    BY <1>1, LedgerDrop DEF LoginReplies
  <2>2. LinkTyped(cs2, pd, dn, Tail(u))
    BY <1>1, FrameFront DEF LinkTyped
  <2>3. ~Turned(g)
    BY Aside DEF Notices, LoginReplies, AuthDown
  <2> QED BY <2>1, <2>2, <2>3, LedgerNotice
<1> DEFINE en == Append(dn, g)
           v == Tail(u)
           n == Len(dn)
<1>3. /\ en \in Seq(FramesOf(DownTypes)) /\ n \in Nat
      /\ Len(en) = n + 1 /\ en[n + 1] = g
      /\ \A i \in 1 .. n : en[i] = dn[i]
  BY <1>1, Grown
<1>4. /\ Len(u) \in Nat \ {0} /\ Len(v) = Len(u) - 1
      /\ \A i \in 1 .. Len(v) : v[i] = u[i + 1] /\ i + 1 \in 1 .. Len(u)
                                /\ i + 1 # 1
      /\ 1 \in 1 .. Len(u)
  BY <1>1, FrameFront
<1>5. LoginOf(cs, qu, lg, dn, u) /\ TravelsOf(cs, qu, u) /\ None \notin Calls
  BY NoneIsNoCall DEF SoundOf
<1> HIDE DEF en, v, n
<1>6. /\ lg.phase = IF u[1].type = "AuthRequest" THEN "challenge" ELSE "result"
      /\ u[1].call = lg.call /\ lg.phase # "none" /\ lg.call \in Calls
      /\ \A r \in 1 .. Len(u) : u[r].type \in AuthUp => r = 1
      /\ \A r \in 1 .. n : dn[r].type \notin AuthDown
  BY <1>4, <1>5 DEF LoginOf, LoginReplies, n
<1>7. /\ \A q \in 1 .. Len(v) : v[q].type \notin AuthUp
      /\ \A q \in 1 .. Len(v) : v[q].call # lg.call
  <2>1. \A q \in 1 .. Len(u) : u[q].call = u[1].call => q = 1
    BY <1>4, <1>5, <1>6 DEF TravelsOf
  <2> QED BY <1>4, <1>6, <2>1
<1>8. \A i \in 1 .. Len(en) : en[i].type \in AuthDown => en[i] = g /\ i = n + 1
  <2> SUFFICES ASSUME NEW i \in 1 .. Len(en), en[i].type \in AuthDown
               PROVE  en[i] = g /\ i = n + 1
    OBVIOUS
  <2>1. i \in 1 .. n \/ i = n + 1
    BY <1>3
  <2> QED BY <1>3, <1>6, <2>1
<1>9. LoginOf(cs2, qu, lg, en, v)
  <2>1. lg.phase # "none" => /\ lg.call \in Calls /\ cs2[lg.call].cmd = "Login"
                             /\ \A i \in 1 .. Len(qu) : qu[i] # lg.call
    BY <1>1 DEF LoginOf
  <2>2. \A q \in 1 .. Len(en) : en[q].type \in AuthDown =>
       /\ lg.phase # "none" /\ en[q].call = lg.call
       /\ \A r \in 1 .. Len(en) : en[r].type \in AuthDown => r = q
       /\ en[q].type = "AuthChallenge" =>
            lg.phase = "challenge" /\ Unsent(cs2, v, lg.call)
       /\ en[q].type = "AuthOk" =>
            lg.phase = "result" /\ cs2[lg.call].verdict = "granted"
    BY <1>6, <1>7, <1>8 DEF LoginReplies, Unsent
  <2> QED BY <1>7, <2>1, <2>2 DEF LoginOf
<1> QED BY <1>2, <1>3, <1>9, SoundServed DEF en, v

(* The server stops listening, or the connection ends.                     *)
LEMMA SoundDeaf ==
  ASSUME NEW cs, NEW qu, NEW lg, NEW pd, NEW iv, NEW dn, NEW u, NEW listens,
         SoundOf(cs, qu, lg, pd, iv, dn, u, listens)
  PROVE  SoundOf(cs, qu, lg, pd, iv, dn, <<>>, FALSE)
<1>1. LedgerOf(cs, pd, dn, <<>>, FALSE)
  BY LedgerDeaf DEF SoundOf
<1>2. SoundTyped(cs, qu, lg, pd, iv, dn, <<>>)
  BY DEF SoundOf, SoundTyped, LinkTyped
<1>3. TravelsOf(cs, qu, <<>>) /\ LoginOf(cs, qu, lg, dn, <<>>)
  BY DEF SoundOf, TravelsOf, LoginOf, Unsent
<1> QED BY <1>1, <1>2, <1>3 DEF SoundOf

(* With every queue and channel emptied only the callers' knowledge        *)
(* counts.                                                                 *)
LEMMA SoundVoid ==
  ASSUME NEW cs \in [Calls -> CallRecords], NEW lg \in LoginRecords,
         lg.phase = "none", AnswersOf(cs), NEW listens \in BOOLEAN,
         \A c \in Calls : cs[c].cmd = "none" => cs[c].verdict = "none"
  PROVE  SoundOf(cs, <<>>, lg, <<>>, <<>>, <<>>, <<>>, listens)
<1>1. LedgerOf(cs, <<>>, <<>>, <<>>, listens)
  BY LedgerVoid, LedgerDeaf
<1>2. SoundTyped(cs, <<>>, lg, <<>>, <<>>, <<>>, <<>>)
  BY DEF SoundTyped, LinkTyped
<1>3. TravelsOf(cs, <<>>, <<>>) /\ LoginOf(cs, <<>>, lg, <<>>, <<>>)
  BY DEF TravelsOf, LoginOf, Unsent
<1>4. DebtsOf(cs, <<>>) /\ InvitesOf(cs, <<>>, <<>>)
  BY DEF DebtsOf, InvitesOf
<1> QED BY <1>1, <1>2, <1>3, <1>4 DEF SoundOf

---------------------------------------------------------------------------
(* Invitations.                                                            *)

(* A nonempty set of naturals has a least member.                          *)
LEMMA LeastNumber ==
  ASSUME NEW T \in SUBSET Nat, T # {}
  PROVE  \E m \in T : \A n \in T : m <= n
<1> DEFINE R == {s \in Nat \X Nat : s[1] < s[2]}
<1>1. IsWellFoundedOn(R, Nat)
  BY NatLessThanWellFounded DEF OpToRel
<1>2. PICK m \in T : \A y \in T : ~(<<y, m>> \in R)
  <2> HIDE DEF R
  <2> QED BY <1>1, WFMin
<1>3. \A y \in T : m \in Nat /\ y \in Nat /\ <<y, m>> \in Nat \X Nat
  OBVIOUS
<1>4. \A y \in T : ~(y < m)
  BY <1>2, <1>3
<1> QED BY <1>3, <1>4

(* For every k up to its size, a set of positions has a kth.               *)
LEMMA HasNth ==
  ASSUME NEW n \in Nat, NEW K \in SUBSET (1 .. n),
         NEW k \in 1 .. Cardinality(K)
  PROVE  \E i \in K : Cardinality({j \in K : j < i}) = k - 1
<1> DEFINE Below(i) == {j \in K : j < i}
           T == {i \in Nat : k <= Cardinality(Below(i))}
<1>1. IsFiniteSet(K) /\ Cardinality(K) \in Nat
  <2>1. IsFiniteSet(1 .. n)
    BY FS_Interval
  <2> QED BY <2>1, FS_Subset, FS_CardinalityType
<1>0. \A j \in K : j \in Nat /\ 0 < j /\ j < n + 1
  OBVIOUS
<1>2. \A i \in Nat : IsFiniteSet(Below(i)) /\ Cardinality(Below(i)) \in Nat
  <2> SUFFICES ASSUME NEW i \in Nat
               PROVE  IsFiniteSet(Below(i)) /\ Cardinality(Below(i)) \in Nat
    OBVIOUS
  <2>1. Below(i) \in SUBSET K
    OBVIOUS
  <2> QED BY <1>1, <2>1, FS_Subset, FS_CardinalityType
<1>3. n + 1 \in T
  <2>1. Below(n + 1) = K
    BY <1>0
  <2> QED BY <1>1, <2>1
<1>4. PICK m \in T : \A i \in T : m <= i
  <2>1. T \in SUBSET Nat /\ T # {}
    BY <1>3
  <2> HIDE DEF T
  <2> QED BY <2>1, LeastNumber
<1>5. m \in Nat /\ k <= Cardinality(Below(m))
  BY <1>4
<1>6. m # 0
  <2>1. \A j \in K : ~(j < 0)
    BY <1>0
  <2>3. Below(0) = {}
    BY <2>1
  <2>2. Cardinality(Below(0)) = 0
    BY <2>3, FS_EmptySet
  <2> QED BY <1>1, <1>5, <2>2
<1>7. m - 1 \in Nat /\ m - 1 \notin T
  BY <1>4, <1>5, <1>6
<1>8. Below(m) = Below(m - 1) \cup (K \cap {m - 1})
  <2>1. \A j \in K : j < m <=> (j < m - 1 \/ j = m - 1)
    BY <1>0, <1>5, <1>7
  <2> QED BY <2>1
<1>9. IsFiniteSet(Below(m - 1)) /\ Cardinality(Below(m - 1)) \in Nat
  BY <1>2, <1>7
<1>10. Cardinality(Below(m - 1)) < k
  BY <1>1, <1>7, <1>9
<1>11. m - 1 \in K
  <2> SUFFICES ASSUME m - 1 \notin K
               PROVE  FALSE
    OBVIOUS
  <2>1. Below(m) = Below(m - 1)
    BY <1>8
  <2> QED BY <1>1, <1>5, <1>9, <1>10, <2>1
<1>12. Cardinality(Below(m)) = Cardinality(Below(m - 1)) + 1
  <2>1. m - 1 \notin Below(m - 1) /\ Below(m) = Below(m - 1) \cup {m - 1}
    BY <1>7, <1>8, <1>11
  <2> HIDE DEF Below
  <2> QED BY <1>9, <2>1, FS_AddElement
<1>13. Cardinality(Below(m - 1)) = k - 1
  <2> HIDE DEF Below
  <2> QED BY <1>1, <1>5, <1>9, <1>10, <1>12
<1> QED BY <1>11, <1>13

(* Picked elements are elements of the sequence.                           *)
LEMMA PickedFrom ==
  ASSUME NEW X, NEW s \in Seq(X), NEW K \in SUBSET (1 .. Len(s))
  PROVE  /\ Picked(s, K) \in Seq(X)
         /\ \A k \in 1 .. Len(Picked(s, K)) :
              \E i \in 1 .. Len(s) : Picked(s, K)[k] = s[i]
<1> DEFINE Nth(k) == CHOOSE i \in K : Cardinality({j \in K : j < i}) = k - 1
<1>1. Cardinality(K) \in Nat
  <2>1. IsFiniteSet(1 .. Len(s))
    BY FS_Interval
  <2> QED BY <2>1, FS_Subset, FS_CardinalityType
<1>2. ASSUME NEW k \in 1 .. Cardinality(K)
      PROVE  Nth(k) \in K
  <2>1. Len(s) \in Nat
    OBVIOUS
  <2>2. \E i \in K : Cardinality({j \in K : j < i}) = k - 1
    BY <2>1, HasNth
  <2> QED BY <2>2
<1>3. Picked(s, K) = [k \in 1 .. Cardinality(K) |-> s[Nth(k)]]
  BY DEF Picked
<1> HIDE DEF Nth
<1>4. \A k \in 1 .. Cardinality(K) : Nth(k) \in 1 .. Len(s) /\ s[Nth(k)] \in X
  <2> SUFFICES ASSUME NEW k \in 1 .. Cardinality(K)
               PROVE  Nth(k) \in 1 .. Len(s) /\ s[Nth(k)] \in X
    OBVIOUS
  <2>1. Nth(k) \in 1 .. Len(s)
    BY <1>2
  <2> QED BY <2>1
<1>5. Picked(s, K) \in [1 .. Cardinality(K) -> X]
  BY <1>3, <1>4
<1>6. Picked(s, K) \in Seq(X) /\ Len(Picked(s, K)) = Cardinality(K)
  BY <1>1, <1>5
<1> QED BY <1>3, <1>4, <1>6

(* resolve_invites: what is left to resolve, and what the callers are told.*)
Remaining(iv, cs) ==
  Picked(iv, {k \in DOMAIN iv : ~Over(iv[k], cs)})
Told(iv, cs) ==
  [c \in Calls |->
     IF \E i \in Range(iv) : i.call = c /\ Resolved(i)
                                /\ cs[c].outcome = "open"
     THEN [cs[c] EXCEPT !.outcome = "ok",
             !.got = (CHOOSE i \in Range(iv) : i.call = c).room]
     ELSE cs[c]]

(* The invites that are not over stay sound.                               *)
LEMMA InvitesRemain ==
  ASSUME NEW cs, NEW iv \in Seq(InviteRecords), NEW pd, InvitesOf(cs, iv, pd)
  PROVE  /\ Remaining(iv, cs) \in Seq(InviteRecords)
         /\ InvitesOf(cs, Remaining(iv, cs), pd)
<1> DEFINE jv == Remaining(iv, cs)
<1> DEFINE K == {k \in DOMAIN iv : ~Over(iv[k], cs)}
<1>1. K \in SUBSET (1 .. Len(iv)) /\ jv = Picked(iv, K)
  BY DEF Remaining
<1> HIDE DEF K, jv
<1>2. /\ jv \in Seq(InviteRecords)
      /\ \A k \in 1 .. Len(jv) : \E i \in 1 .. Len(iv) : jv[k] = iv[i]
  BY <1>1, PickedFrom
<1>3. InvitesOf(cs, jv, pd)
  BY <1>2 DEF InvitesOf
<1> QED BY <1>2, <1>3 DEF jv

(* Telling the callers of invites is telling them what the server did.     *)
LEMMA ToldSame ==
  ASSUME NEW cs \in [Calls -> CallRecords], NEW iv \in Seq(InviteRecords),
         NEW pd, InvitesOf(cs, iv, pd), AnswersOf(cs)
  PROVE  /\ Told(iv, cs) \in [Calls -> CallRecords]
         /\ SameStory(cs, Told(iv, cs)) /\ AnswersOf(Told(iv, cs))
<1> DEFINE ct == Told(iv, cs)
           Hears(c) == \E i \in Range(iv) : i.call = c /\ Resolved(i)
                                              /\ cs[c].outcome = "open"
           Room(c) == (CHOOSE i \in Range(iv) : i.call = c).room
<1>1. \A i \in Range(iv) :
        i \in InviteRecords /\ \E k \in 1 .. Len(iv) : i = iv[k]
  BY DEF Range
<1>2. \A c \in Calls :
        ct[c] = IF Hears(c) THEN [cs[c] EXCEPT !.outcome = "ok",
                                               !.got = Room(c)]
                ELSE cs[c]
  BY DEF Told
<1>3. \A c \in Calls : Hears(c) => Room(c) \in Rooms
  BY <1>1 DEF InviteRecords
<1>4. \A c \in Calls : Hears(c) => /\ cs[c].cmd = "Invite"
                                   /\ cs[c].verdict = "granted"
  BY <1>1 DEF InvitesOf, Resolved
<1>5. \A c \in Calls : cs[c] \in CallRecords
  OBVIOUS
<1> HIDE DEF Room, Hears
<1>6. \A c \in Calls : Hears(c) =>
        /\ ct[c].cmd = cs[c].cmd /\ ct[c].verdict = cs[c].verdict
        /\ ct[c].outcome = "ok" /\ ct[c] \in CallRecords
  <2> SUFFICES ASSUME NEW c \in Calls, Hears(c)
               PROVE  /\ ct[c].cmd = cs[c].cmd /\ ct[c].verdict = cs[c].verdict
                      /\ ct[c].outcome = "ok" /\ ct[c] \in CallRecords
    OBVIOUS
  <2> DEFINE r == cs[c]
             w == Room(c)
  <2>1. ct[c] = [r EXCEPT !.outcome = "ok", !.got = w]
    BY <1>2
  <2>2. r \in CallRecords /\ w \in Rooms
    BY <1>3
  <2> HIDE DEF ct, r, w
  <2>3. /\ ct[c].cmd = r.cmd /\ ct[c].verdict = r.verdict
        /\ ct[c].outcome = "ok" /\ ct[c] \in CallRecords
    BY <2>1, <2>2 DEF CallRecords, Outcomes
  <2> QED BY <2>3 DEF r
<1>7. \A c \in Calls : ~Hears(c) => ct[c] = cs[c]
  BY <1>2
<1>8. ct \in [Calls -> CallRecords]
  <2>1. \A c \in Calls : ct[c] \in CallRecords
    BY <1>5, <1>6, <1>7
  <2>2. ct = [c \in Calls |-> ct[c]]
    BY DEF Told
  <2> HIDE DEF ct
  <2> QED BY <2>1, <2>2
<1> HIDE DEF ct
<1>9. SameStory(cs, ct)
  BY <1>6, <1>7 DEF SameStory
<1>10. AnswersOf(ct)
  <2>1. "Invite" \notin DOMAIN Requests \cup {"Login"}
    BY CommandsDistinct
  <2> QED BY <1>4, <1>6, <1>7, <2>1 DEF AnswersOf
<1> QED BY <1>8, <1>9, <1>10 DEF ct

(* Resolving invites leaves the connection sound (resolve_invites).        *)
LEMMA SoundResolve ==
  ASSUME NEW cs, NEW qu, NEW lg, NEW pd, NEW iv, NEW dn, NEW u, NEW listens,
         SoundOf(cs, qu, lg, pd, iv, dn, u, listens)
  PROVE  SoundOf(Told(iv, cs), qu, lg, pd, Remaining(iv, cs), dn, u, listens)
<1>1. /\ cs \in [Calls -> CallRecords] /\ iv \in Seq(InviteRecords)
      /\ InvitesOf(cs, iv, pd) /\ AnswersOf(cs)
  BY DEF SoundOf, SoundTyped, LinkTyped
<1>2. SoundOf(cs, qu, lg, pd, Remaining(iv, cs), dn, u, listens)
  <2>1. /\ Remaining(iv, cs) \in Seq(InviteRecords)
        /\ InvitesOf(cs, Remaining(iv, cs), pd)
    BY <1>1, InvitesRemain
  <2> QED BY <2>1 DEF SoundOf, SoundTyped
<1>3. /\ Told(iv, cs) \in [Calls -> CallRecords]
      /\ SameStory(cs, Told(iv, cs)) /\ AnswersOf(Told(iv, cs))
  BY <1>1, ToldSame
<1> QED BY <1>2, <1>3, SoundSame

---------------------------------------------------------------------------
(* The invariant: what the two sides owe each other agrees, the server     *)
(* holds frames of events only, and no answer has been a violation.        *)
Sound ==
  SoundOf(calls, queue, login, pending, invites, down, up,
          server.phase # "closed")
ServerRecords ==
  [phase : {"auth", "challenged", "dispatch", "closed"}, failures : Nat,
   stalled : BOOLEAN]
Hosted ==
  /\ outq \in Seq(FramesOf({"ChatUserList"})) /\ server \in ServerRecords
  /\ known \subseteq Rooms
ClientInv == Sound /\ Hosted /\ actor # "violation"

(* Every set of rooms is a set of Rooms.                                   *)
LEMMA RoomsAll ==
  /\ Calls \subseteq Rooms /\ PrivateRooms \subseteq Rooms /\ None \in Rooms
  /\ PublicRooms \subseteq Rooms /\ ForeignRooms \subseteq Rooms
  /\ ChatRooms \subseteq Rooms
BY DEF Rooms, ChatRooms, PrivateRooms

(* What Sound says of its parts.                                           *)
LEMMA SoundParts ==
  ASSUME NEW cs, NEW qu, NEW lg, NEW pd, NEW iv, NEW dn, NEW u, NEW listens,
         SoundOf(cs, qu, lg, pd, iv, dn, u, listens)
  PROVE  /\ cs \in [Calls -> CallRecords] /\ qu \in Seq(Calls)
         /\ lg \in LoginRecords /\ pd \in Seq(OwedRecords)
         /\ iv \in Seq(InviteRecords) /\ dn \in Seq(FramesOf(DownTypes))
         /\ u \in Seq(FramesOf(UpTypes)) /\ AnswersOf(cs)
         /\ TravelsOf(cs, qu, u) /\ LoginOf(cs, qu, lg, dn, u)
         /\ DebtsOf(cs, pd) /\ InvitesOf(cs, iv, pd)
         /\ \A c \in Calls : cs[c] \in CallRecords
         /\ \A c \in Calls : cs[c].cmd = "none" => cs[c].verdict = "none"
<1>1. /\ cs \in [Calls -> CallRecords] /\ qu \in Seq(Calls)
      /\ lg \in LoginRecords /\ pd \in Seq(OwedRecords)
      /\ iv \in Seq(InviteRecords) /\ dn \in Seq(FramesOf(DownTypes))
      /\ u \in Seq(FramesOf(UpTypes))
  BY DEF SoundOf, SoundTyped, LinkTyped
<1>2. TravelsOf(cs, qu, u)
  BY DEF SoundOf
<1>3. \A c \in Calls : cs[c].cmd = "none" => cs[c].verdict = "none"
  BY <1>2 DEF TravelsOf, Unsent
<1>4. \A c \in Calls : cs[c] \in CallRecords
  BY <1>1
<1> QED BY <1>1, <1>2, <1>3, <1>4 DEF SoundOf

(* A caller is told.                                                       *)
MayTell(r, v) ==
  /\ v \in Outcomes
  /\ v = "ok" => /\ r.cmd \notin DOMAIN Requests \cup {"Login"}
                 /\ r.cmd \in {"Join", "Invite"} => r.verdict = "granted"
  /\ v = "refused" => r.cmd = "Login" \/ r.verdict = "refused"

(* One caller may be told what MayTell allows.                             *)
LEMMA TellOne ==
  ASSUME NEW cs \in [Calls -> CallRecords], NEW c \in Calls, NEW v,
         MayTell(cs[c], v), AnswersOf(cs), NEW cs2,
         cs2 = [cs EXCEPT ![c].outcome = v]
  PROVE  /\ cs2 \in [Calls -> CallRecords] /\ SameStory(cs, cs2)
         /\ AnswersOf(cs2)
<1> DEFINE r == cs[c]
           s == [r EXCEPT !.outcome = v]
<1>1. r \in CallRecords /\ v \in Outcomes
  BY DEF MayTell
<1>2. cs2 = [cs EXCEPT ![c] = s]
  OBVIOUS
<1> HIDE DEF r
<1>3. /\ s \in CallRecords /\ s.cmd = r.cmd /\ s.verdict = r.verdict
      /\ s.outcome = v
  BY <1>1 DEF CallRecords
<1> HIDE DEF s
<1>4. cs2 \in [Calls -> CallRecords]
  BY <1>2, <1>3
<1>5. cs2[c] = s /\ \A d \in Calls : d # c => cs2[d] = cs[d]
  BY <1>2
<1>6. SameStory(cs, cs2)
  BY <1>3, <1>5 DEF SameStory, r
<1>7. AnswersOf(cs2)
  <2>1. MayTell(r, v)
    BY DEF r
  <2> QED BY <1>3, <1>5, <2>1 DEF AnswersOf, MayTell
<1> QED BY <1>4, <1>6, <1>7

(* Telling one caller leaves the connection sound.                         *)
LEMMA SoundTold ==
  ASSUME NEW cs, NEW qu, NEW lg, NEW pd, NEW iv, NEW dn, NEW u, NEW listens,
         SoundOf(cs, qu, lg, pd, iv, dn, u, listens), NEW c \in Calls, NEW v,
         MayTell(cs[c], v)
  PROVE  SoundOf(Answered(cs, c, v), qu, lg, pd, iv, dn, u, listens)
<1>1. CASE cs[c].outcome # "open"
  BY <1>1 DEF Answered
<1>2. CASE cs[c].outcome = "open"
  <2> DEFINE cs2 == [cs EXCEPT ![c].outcome = v]
  <2>1. cs \in [Calls -> CallRecords] /\ AnswersOf(cs)
    BY SoundParts
  <2>2. cs2 = [cs EXCEPT ![c].outcome = v]
    OBVIOUS
  <2> HIDE DEF cs2
  <2>3. /\ cs2 \in [Calls -> CallRecords] /\ SameStory(cs, cs2)
        /\ AnswersOf(cs2)
    BY <2>1, <2>2, TellOne
  <2>4. SoundOf(cs2, qu, lg, pd, iv, dn, u, listens)
    BY <2>3, SoundSame
  <2> QED BY <1>2, <2>2, <2>4 DEF Answered
<1> QED BY <1>1, <1>2

(* A caller is given what it asked for.                                    *)
Given(cs, c, w) ==
  IF cs[c].outcome = "open"
  THEN [cs EXCEPT ![c].outcome = "ok", ![c].got = w]
  ELSE cs

(* Handing a granted call its own reply leaves the connection sound.       *)
LEMMA SoundGiven ==
  ASSUME NEW cs, NEW qu, NEW lg, NEW pd, NEW iv, NEW dn, NEW u, NEW listens,
         SoundOf(cs, qu, lg, pd, iv, dn, u, listens), NEW c \in Calls,
         cs[c].verdict = "granted"
  PROVE  SoundOf(Given(cs, c, c), qu, lg, pd, iv, dn, u, listens)
<1>1. CASE cs[c].outcome # "open"
  BY <1>1 DEF Given
<1>2. CASE cs[c].outcome = "open"
  <2> DEFINE r == cs[c]
             s == [r EXCEPT !.outcome = "ok", !.got = c]
             cs2 == [cs EXCEPT ![c] = s]
  <2>1. cs \in [Calls -> CallRecords] /\ AnswersOf(cs) /\ r \in CallRecords
    BY SoundParts
  <2>2. Given(cs, c, c) = cs2
    BY <1>2 DEF Given
  <2>3. c \in Rooms
    BY RoomsAll
  <2> HIDE DEF r
  <2>4. /\ s \in CallRecords /\ s.cmd = r.cmd /\ s.verdict = r.verdict
        /\ s.outcome = "ok" /\ s.got = c
    BY <2>1, <2>3 DEF CallRecords, Outcomes
  <2> HIDE DEF s
  <2>5. /\ cs2 \in [Calls -> CallRecords] /\ cs2[c] = s
        /\ \A d \in Calls : d # c => cs2[d] = cs[d]
    BY <2>1, <2>4
  <2> HIDE DEF cs2
  <2>6. SameStory(cs, cs2)
    BY <2>4, <2>5 DEF SameStory, r
  <2>7. AnswersOf(cs2)
    BY <2>1, <2>4, <2>5 DEF AnswersOf, r
  <2> QED BY <2>2, <2>5, <2>6, <2>7, SoundSame
<1> QED BY <1>1, <1>2

(* The end of run().                                                       *)
LEMMA EndKeeps ==
  ASSUME NEW cs \in [Calls -> CallRecords], NEW reason, NEW extra,
         End(reason, cs, extra), reason # "violation", AnswersOf(cs),
         \A c \in Calls : cs[c].cmd = "none" => cs[c].verdict = "none"
  PROVE  ClientInv'
<1> DEFINE Gone(c) == c \in Holders \cup extra /\ cs[c].outcome = "open"
<1>1. calls' = [c \in Calls |->
                  IF Gone(c) THEN [cs[c] EXCEPT !.outcome = "gone"]
                  ELSE cs[c]]
  BY DEF End
<1> HIDE DEF Gone
<1>2. \A c \in Calls : /\ calls'[c] \in CallRecords
                       /\ calls'[c].cmd = cs[c].cmd
                       /\ calls'[c].verdict = cs[c].verdict
                       /\ \/ calls'[c].outcome = "gone"
                          \/ calls'[c] = cs[c]
  <2> SUFFICES ASSUME NEW c \in Calls
               PROVE  /\ calls'[c] \in CallRecords
                      /\ calls'[c].cmd = cs[c].cmd
                      /\ calls'[c].verdict = cs[c].verdict
                      /\ \/ calls'[c].outcome = "gone"
                         \/ calls'[c] = cs[c]
    OBVIOUS
  <2> DEFINE r == cs[c]
  <2>1. r \in CallRecords
    OBVIOUS
  <2>2. calls'[c] = r \/ calls'[c] = [r EXCEPT !.outcome = "gone"]
    BY <1>1
  <2> HIDE DEF r
  <2>3. /\ calls'[c] \in CallRecords
        /\ calls'[c].cmd = r.cmd
        /\ calls'[c].verdict = r.verdict
        /\ calls'[c].outcome = "gone" \/ calls'[c] = r
    BY <2>1, <2>2 DEF CallRecords, Outcomes
  <2> QED BY <2>3 DEF r
<1>3. calls' \in [Calls -> CallRecords]
  BY <1>1, <1>2
<1>4. AnswersOf(calls')
  BY <1>2 DEF AnswersOf
<1>5. \A c \in Calls : calls'[c].cmd = "none" => calls'[c].verdict = "none"
  BY <1>2
<1>6. login' \in LoginRecords /\ login'.phase = "none"
  BY DEF End, NoLogin, LoginRecords
<1>7. SoundOf(calls', <<>>, login', <<>>, <<>>, <<>>, <<>>, FALSE)
  BY <1>3, <1>4, <1>5, <1>6, SoundVoid
<1>8. /\ queue' = <<>> /\ pending' = <<>> /\ invites' = <<>> /\ up' = <<>>
      /\ down' = <<>> /\ outq' = <<>> /\ known' = {} /\ actor' = reason
      /\ server' = [phase |-> "closed", failures |-> 0, stalled |-> FALSE]
  BY DEF End
<1>9. (server'.phase # "closed") = FALSE
  BY <1>8
<1>10. Sound'
  BY <1>7, <1>8, <1>9 DEF Sound
<1>11. Hosted'
  BY <1>8 DEF Hosted, ServerRecords
<1> QED BY <1>8, <1>10, <1>11 DEF ClientInv

(* The connection ends with the calls as they are.                         *)
LEMMA EndHere ==
  ASSUME ClientInv, NEW reason, NEW extra, End(reason, calls, extra),
         reason # "violation"
  PROVE  ClientInv'
<1>1. /\ calls \in [Calls -> CallRecords] /\ AnswersOf(calls)
      /\ \A c \in Calls : calls[c].cmd = "none" => calls[c].verdict = "none"
  BY SoundParts DEF ClientInv, Sound
<1> QED BY <1>1, EndKeeps

(* What a step leaves alone of the server.                                 *)
LEMMA StillHosted ==
  ASSUME Hosted, UNCHANGED <<server, outq, known>>
  PROVE  Hosted'
BY DEF Hosted

(* The invariant holds of the initial states.                              *)
LEMMA InitHolds == Init => ClientInv
<1> SUFFICES ASSUME Init PROVE ClientInv
  OBVIOUS
<1>1. calls \in [Calls -> CallRecords]
  <2>1. Fresh \in CallRecords
    BY RoomsAll DEF Fresh, CallRecords, Outcomes
  <2> QED BY <2>1 DEF Init
<1>2. \A c \in Calls : calls[c] = Fresh
  BY DEF Init
<1>3. AnswersOf(calls)
  BY <1>2 DEF AnswersOf, Fresh
<1>4. \A c \in Calls : calls[c].verdict = "none"
  BY <1>2 DEF Fresh
<1>5. login \in LoginRecords /\ login.phase = "none"
  BY DEF Init, NoLogin, LoginRecords
<1>6. SoundOf(calls, <<>>, login, <<>>, <<>>, <<>>, <<>>,
              server.phase # "closed")
  <2>1. (server.phase # "closed") \in BOOLEAN
    OBVIOUS
  <2> QED BY <1>1, <1>3, <1>4, <1>5, <2>1, SoundVoid
<1>7. Sound
  BY <1>6 DEF Sound, Init
<1>8. Hosted
  BY DEF Hosted, Init, ServerRecords
<1> QED BY <1>7, <1>8 DEF ClientInv, Init

(* The handle.                                                             *)
LEMMA InvokeKeeps ==
  ASSUME ClientInv, NEW c \in Calls, NEW k \in NextCommands(c),
         NEW r \in RoomArguments(k), Invoke(c, k, r)
  PROVE  ClientInv'
<1> DEFINE v == CASE k = "SetIdentity" -> "ok"
                  [] Ended -> "gone"
                  [] OTHER -> "open"
           me == [Fresh EXCEPT !.cmd = k, !.room = r, !.outcome = v]
<1>1. k \in Commands
  <2>1. PICK s \in Scripts : c \in DOMAIN s /\ k = s[c]
    BY DEF NextCommands
  <2>2. s \in Seq(Commands)
    BY ClientScripts
  <2> QED BY <2>1, <2>2
<1>2. r \in Rooms
  BY RoomsAll DEF RoomArguments, ClientInv, Hosted
<1>3. v \in Outcomes /\ v # "refused" /\ (v = "ok" => k = "SetIdentity")
  BY DEF Outcomes
<1>4. calls' = [calls EXCEPT ![c] = me] /\ calls[c].cmd = "none"
  BY DEF Invoke
<1>5. queue' \in {queue, Append(queue, c)}
  BY DEF Invoke
<1>6. UNCHANGED <<actor, login, pending, invites, known, up, down, server,
                  outq>>
  BY DEF Invoke, link, host
<1> HIDE DEF v
<1>7. /\ me \in CallRecords /\ me.cmd = k /\ me.outcome = v
      /\ me.verdict = "none"
  BY <1>1, <1>2, <1>3, RoomsAll DEF Fresh, CallRecords
<1> HIDE DEF me
<1>8. /\ calls \in [Calls -> CallRecords] /\ AnswersOf(calls)
      /\ calls[c].verdict = "none"
  BY <1>4, SoundParts DEF ClientInv, Sound
<1>9. /\ calls' \in [Calls -> CallRecords] /\ calls'[c] = me
      /\ \A d \in Calls : d # c => calls'[d] = calls[d]
  BY <1>4, <1>7, <1>8
<1>10. AnswersOf(calls')
  <2>1. "SetIdentity" \notin DOMAIN Requests \cup {"Login", "Join", "Invite"}
    BY CommandsDistinct DEF QuietCommands
  <2> QED BY <1>3, <1>7, <1>8, <1>9, <2>1 DEF AnswersOf
<1>11. calls'[c].cmd # "none"
  <2>1. "none" \notin Commands
    BY CommandsDistinct DEF Commands
  <2> QED BY <1>1, <1>7, <1>9, <2>1
<1>12. \A d \in Calls : /\ calls'[d].verdict = calls[d].verdict
                        /\ d # c => calls'[d].cmd = calls[d].cmd
  BY <1>7, <1>8, <1>9
<1>13. SoundOf(calls', queue', login, pending, invites, down, up,
               server.phase # "closed")
  <2>1. SoundOf(calls, queue, login, pending, invites, down, up,
                server.phase # "closed")
    BY DEF ClientInv, Sound
  <2>2. /\ calls[c].cmd = "none" /\ c \in Calls
        /\ calls' \in [Calls -> CallRecords]
    BY <1>4, <1>9
  <2> DEFINE listens == server.phase # "closed"
  <2> HIDE DEF listens
  <2>3. SoundOf(calls, queue, login, pending, invites, down, up, listens)
    BY <2>1 DEF listens
  <2>4. SoundOf(calls', queue', login, pending, invites, down, up, listens)
    BY ONLY <1>5, <1>10, <1>11, <1>12, <2>2, <2>3, SoundIssue
  <2> QED BY <2>4 DEF listens
<1>14. Sound'
  BY <1>6, <1>13 DEF Sound
<1> QED BY <1>6, <1>14, StillHosted DEF ClientInv

(* A caller's timeout (request_timeout).                                   *)
LEMMA GiveUpKeeps ==
  ASSUME ClientInv, NEW c \in Calls, GiveUp(c)
  PROVE  ClientInv'
<1>1. /\ calls' = [calls EXCEPT ![c].outcome = "timeout"]
      /\ UNCHANGED <<actor, queue, login, pending, invites, known, up, down,
                     server, outq>>
  BY DEF GiveUp, client, link, host
<1>2. /\ calls' \in [Calls -> CallRecords] /\ SameStory(calls, calls')
      /\ AnswersOf(calls')
  <2>1. calls \in [Calls -> CallRecords] /\ AnswersOf(calls)
    BY SoundParts DEF ClientInv, Sound
  <2>2. MayTell(calls[c], "timeout")
    BY DEF MayTell, Outcomes
  <2> QED BY <1>1, <2>1, <2>2, TellOne
<1>3. SoundOf(calls', queue, login, pending, invites, down, up,
              server.phase # "closed")
  BY <1>2, SoundSame DEF ClientInv, Sound
<1>4. Sound'
  BY <1>1, <1>3 DEF Sound
<1> QED BY <1>1, <1>4, StillHosted DEF ClientInv

(* Steps that change nothing the invariant speaks of.                      *)
LEMMA StutterKeeps ==
  ASSUME ClientInv,
         UNCHANGED <<calls, queue, login, pending, invites, down, up,
                     server, outq, known, actor>>
  PROVE  ClientInv'
BY DEF ClientInv, Sound, Hosted

(***************************************************************************)
(* The actor takes a command.                                              *)
(***************************************************************************)
LEMMA TakenKeeps ==
  ASSUME ClientInv, NEW c \in Calls, NEW ks, Command(c, ks), Taken
  PROVE  /\ queue' \in Seq(Calls) /\ Fewer(queue', queue)
         /\ \A i \in 1 .. Len(queue') : queue'[i] # c
         /\ calls[c].cmd \in ks /\ calls[c].cmd # "none"
         /\ Unsent(calls, up, c) /\ actor = "running"
         /\ calls[c] \in CallRecords
<1>1. /\ queue \in Seq(Calls) /\ TravelsOf(calls, queue, up)
      /\ calls[c] \in CallRecords
  BY SoundParts DEF ClientInv, Sound
<1>2. /\ queue # <<>> /\ c = Head(queue) /\ queue' = Tail(queue)
      /\ calls[c].cmd \in ks /\ actor = "running"
  BY DEF Command, Taken, Running
<1> QED BY <1>1, <1>2, TakenOff

(* A call that is told at once.                                            *)
LEMMA TakeTold ==
  ASSUME ClientInv, NEW c \in Calls, NEW ks, Command(c, ks), Taken, NEW v,
         MayTell(calls[c], v), calls' = Answered(calls, c, v),
         UNCHANGED <<login, pending, invites, down, up, server, outq>>,
         known' \subseteq Rooms, actor' # "violation"
  PROVE  ClientInv'
<1>1. queue' \in Seq(Calls) /\ Fewer(queue', queue)
  BY TakenKeeps
<1>2. SoundOf(calls, queue', login, pending, invites, down, up,
              server.phase # "closed")
  BY <1>1, SoundPop DEF ClientInv, Sound
<1>3. SoundOf(calls', queue', login, pending, invites, down, up,
              server.phase # "closed")
  BY <1>2, SoundTold
<1>4. Sound'
  BY <1>3 DEF Sound
<1>5. Hosted'
  BY DEF ClientInv, Hosted
<1> QED BY <1>4, <1>5 DEF ClientInv

(* A command the actor rejects before it writes.                           *)
LEMMA TakeRejectedKeeps ==
  ASSUME ClientInv, NEW c \in Calls, TakeRejected(c)
  PROVE  ClientInv'
<1>1. /\ Command(c, Commands \ {"Join", "Leave"}) /\ Taken
      /\ UNCHANGED <<actor, login, pending, invites, down, up, server, outq,
                     known>>
  BY DEF TakeRejected, link, host
<1>2. PICK v \in {"gone", "invalid"} : calls' = Answered(calls, c, v)
  BY DEF TakeRejected
<1>3. MayTell(calls[c], v)
  BY <1>2 DEF MayTell, Outcomes
<1>4. known' \subseteq Rooms /\ actor' # "violation"
  BY <1>1 DEF ClientInv, Hosted
<1> QED BY <1>1, <1>2, <1>3, <1>4, TakeTold

(* A command whose packet cannot be written.                               *)
LEMMA TakeFailsKeeps ==
  ASSUME ClientInv, NEW c \in Calls, TakeFails(c)
  PROVE  ClientInv'
BY EndHere DEF TakeFails

(* A login begins.                                                         *)
LEMMA TakeLoginKeeps ==
  ASSUME ClientInv, NEW c \in Calls, TakeLogin(c)
  PROVE  ClientInv'
<1>1. /\ Command(c, {"Login"}) /\ Taken
      /\ UNCHANGED <<actor, pending, invites, down, server, outq, known>>
  BY DEF TakeLogin, host
<1>2. known' \subseteq Rooms /\ actor' # "violation"
  BY <1>1 DEF ClientInv, Hosted
<1>3. ASSUME NEW v \in {"refused", "invalid"},
             calls' = Answered(calls, c, v), UNCHANGED <<login, up>>
      PROVE  ClientInv'
  <2>1. calls[c].cmd = "Login"
    BY <1>1 DEF Command
  <2>2. MayTell(calls[c], v)
    BY <2>1, <1>3 DEF MayTell, Outcomes
  <2> QED BY <1>1, <1>2, <1>3, <2>2, TakeTold
<1>4. ASSUME login = NoLogin, Write(<<Frame("AuthRequest", c, None)>>),
             login' = [phase |-> "challenge", call |-> c], UNCHANGED calls
      PROVE  ClientInv'
  <2> DEFINE f == Frame("AuthRequest", c, None)
  <2>1. f \in FramesOf(UpTypes) /\ f.type = "AuthRequest" /\ f.call = c
    BY RoomsAll DEF Frame, FramesOf, UpTypes
  <2>2. up' = Append(up, f)
    <3>1. up \in Seq(FramesOf(UpTypes))
      BY SoundParts DEF ClientInv, Sound
    <3>2. up' = up \o <<f>>
      BY <1>4 DEF Write
    <3> HIDE DEF f
    <3> QED BY <2>1, <3>1, <3>2
  <2> HIDE DEF f
  <2>3. /\ queue' \in Seq(Calls) /\ Fewer(queue', queue)
        /\ \A i \in 1 .. Len(queue') : queue'[i] # f.call
        /\ Unsent(calls, up, f.call) /\ calls[f.call].cmd = "Login"
    BY <1>1, <2>1, TakenKeeps
  <2>4. /\ login.phase = "none" /\ login' \in LoginRecords
        /\ login'.phase = "challenge" /\ login'.call = f.call
    BY <1>4, <2>1 DEF NoLogin, LoginRecords
  <2>5. SoundOf(calls, queue', login', pending, invites, down, Append(up, f),
                server.phase # "closed")
    <3>1. SoundOf(calls, queue, login, pending, invites, down, up,
                  server.phase # "closed")
      BY DEF ClientInv, Sound
    <3>2. f.call \in Calls
      BY <2>1
    <3> QED BY <2>1, <2>3, <2>4, <3>1, <3>2, SoundLogin
  <2>6. Sound'
    BY <1>1, <1>4, <2>2, <2>5 DEF Sound
  <2> QED BY <1>1, <1>2, <2>6, StillHosted DEF ClientInv
<1> QED BY <1>3, <1>4 DEF TakeLogin

(* push_pending enters the debt, or ends the connection for its limit.     *)
LEMMA PushedOn ==
  ASSUME NEW p, PushPending(p), actor # "violation"
  PROVE  pending' = Append(pending, p) /\ actor' # "violation"
BY DEF PushPending

(* Writing one frame appends it to the frames up.                          *)
LEMMA OneFrame ==
  ASSUME NEW f \in FramesOf(UpTypes), ClientInv, Write(<<f>>)
  PROVE  up' = Append(up, f)
<1>1. up \in Seq(FramesOf(UpTypes))
  BY SoundParts DEF ClientInv, Sound
<1>2. up' = up \o <<f>>
  BY DEF Write
<1> QED BY <1>1, <1>2

(* A command with a reply.                                                 *)
LEMMA TakeRequestKeeps ==
  ASSUME ClientInv, NEW c \in Calls, TakeRequest(c)
  PROVE  ClientInv'
<1> DEFINE k == calls[c].cmd
           f == Frame(Requests[k].packet, c, None)
           p == Owed("reply", c, Requests[k].expects, FALSE)
<1>1. /\ Command(c, DOMAIN Requests) /\ Taken /\ Write(<<f>>)
      /\ PushPending(p) /\ k \in DOMAIN Requests
      /\ UNCHANGED <<calls, login, invites, known, down, server, outq>>
  BY DEF TakeRequest, Command, host
<1>2. /\ Requests[k].packet \in DOMAIN Answers
      /\ Requests[k].expects \in ReplyTypes
  BY <1>1, TablesAgree DEF ReplyTypes
<1>3. /\ f \in FramesOf(UpTypes) /\ f.type = Requests[k].packet
      /\ f.call = c
  BY <1>2, RoomsAll DEF Frame, FramesOf, UpTypes
<1>4. /\ p \in OwedRecords /\ p.is = "reply" /\ p.call = c
      /\ p.expects = Requests[k].expects /\ ~p.error
  BY <1>2 DEF Owed, OwedRecords, Kinds
<1>5. up' = Append(up, f)
  BY <1>1, <1>3, OneFrame
<1>6. pending' = Append(pending, p) /\ actor' # "violation"
  BY <1>1, PushedOn DEF ClientInv
<1> HIDE DEF f, p
<1>7. /\ queue' \in Seq(Calls) /\ Fewer(queue', queue)
      /\ MaySend(calls, queue', up, f)
  <2>1. /\ queue' \in Seq(Calls) /\ Fewer(queue', queue)
        /\ \A i \in 1 .. Len(queue') : queue'[i] # c
        /\ Unsent(calls, up, c)
    BY <1>1, TakenKeeps
  <2>2. f.type \notin AuthUp
    BY <1>2, <1>3, PacketsDistinct DEF AuthUp
  <2>3. k \notin {"none", "Login"}
    BY <1>1, CommandsDistinct
  <2> QED BY <1>3, <2>1, <2>2, <2>3 DEF MaySend
<1>8. c \in Requesters(calls)
  BY <1>1 DEF Requesters
<1>9. Asks(calls, f, p)
  BY <1>2, <1>3, <1>4, <1>8 DEF Asks
<1>10. DebtOf(calls, p)
  BY <1>4, <1>8 DEF DebtOf
<1>11. SoundOf(calls, queue', login, Append(pending, p), invites, down,
               Append(up, f), server.phase # "closed")
  <2> DEFINE listens == server.phase # "closed"
  <2> HIDE DEF listens
  <2>1. SoundOf(calls, queue, login, pending, invites, down, up, listens)
    BY DEF ClientInv, Sound, listens
  <2>2. SoundOf(calls, queue', login, Append(pending, p), invites, down,
                Append(up, f), listens)
    BY ONLY <1>4, <1>7, <1>9, <1>10, <2>1, SoundAsk
  <2> QED BY <2>2 DEF listens
<1>12. Sound'
  BY <1>1, <1>5, <1>6, <1>11 DEF Sound
<1> QED BY <1>1, <1>6, <1>12, StillHosted DEF ClientInv

(* The keep-alive Ping.                                                    *)
LEMMA KeepAliveKeeps ==
  ASSUME ClientInv, KeepAlive
  PROVE  ClientInv'
<1> DEFINE p == Owed("ping", None, "Pong", FALSE)
<1>1. /\ Write(<<Ping>>) /\ PushPending(p)
      /\ UNCHANGED <<calls, queue, login, invites, known, down, server, outq>>
  BY DEF KeepAlive, host
<1>2. Ping \in FramesOf(UpTypes) /\ Ping.type = "Ping" /\ Ping.call = None
  BY RoomsAll DEF Ping, Frame, FramesOf, UpTypes
<1>3. /\ p \in OwedRecords /\ p.is = "ping" /\ ~p.error
  BY DEF Owed, OwedRecords, Kinds
<1>4. up' = Append(up, Ping)
  BY <1>1, <1>2, OneFrame
<1>5. pending' = Append(pending, p) /\ actor' # "violation"
  BY <1>1, PushedOn DEF ClientInv
<1> HIDE DEF p
<1>6. queue \in Seq(Calls) /\ Fewer(queue, queue)
  <2>1. queue \in Seq(Calls) /\ TravelsOf(calls, queue, up)
    BY SoundParts DEF ClientInv, Sound
  <2> QED BY <2>1 DEF Fewer, TravelsOf
<1>7. MaySend(calls, queue, up, Ping)
  BY <1>2 DEF MaySend, AuthUp
<1>8. Asks(calls, Ping, p) /\ DebtOf(calls, p)
  BY <1>2, <1>3 DEF Asks, DebtOf
<1>9. SoundOf(calls, queue, login, Append(pending, p), invites, down,
              Append(up, Ping), server.phase # "closed")
  <2> DEFINE listens == server.phase # "closed"
  <2> HIDE DEF listens
  <2>1. SoundOf(calls, queue, login, pending, invites, down, up, listens)
    BY DEF ClientInv, Sound, listens
  <2>2. SoundOf(calls, queue, login, Append(pending, p), invites, down,
                Append(up, Ping), listens)
    BY ONLY <1>3, <1>6, <1>7, <1>8, <2>1, SoundAsk
  <2> QED BY <2>2 DEF listens
<1>10. Sound'
  BY <1>1, <1>4, <1>5, <1>9 DEF Sound
<1> QED BY <1>1, <1>5, <1>10, StillHosted DEF ClientInv

(* A packet that may go unanswered, and the barrier behind it.             *)
LEMMA QuietSound ==
  ASSUME ClientInv, NEW c \in Calls, NEW ks, Command(c, ks), Taken,
         NEW t \in Packets, NEW is \in Quiet, NEW forget \in BOOLEAN, NEW p,
         p = Owed(is, c, "Pong", forget),
         SendQuiet(t, c, p), DebtOf(calls, p),
         calls[c].cmd \notin DOMAIN Requests \cup {"Login"},
         is \in {"join", "invite"} => t \in {"ChatJoin", "ChatInvite"},
         NEW jv, jv \in Seq(InviteRecords), InvitesOf(calls, jv, pending)
  PROVE  /\ SoundOf(calls, queue', login, pending', jv, down, up',
                    server.phase # "closed")
         /\ actor' # "violation"
<1> DEFINE f == Frame(t, c, calls[c].room)
<1>1. /\ queue' \in Seq(Calls) /\ Fewer(queue', queue)
      /\ \A i \in 1 .. Len(queue') : queue'[i] # c
      /\ Unsent(calls, up, c) /\ calls[c] \in CallRecords
      /\ calls[c].cmd # "none"
  BY TakenKeeps
<1>2. calls[c].room \in Rooms
  BY <1>1 DEF CallRecords
<1>3. f \in FramesOf(UpTypes) /\ f.type = t /\ f.call = c
  BY <1>2 DEF Frame, FramesOf, UpTypes, Packets
<1>4. /\ up' = up \o <<f, Ping>> /\ pending' = Append(pending, p)
      /\ actor' # "violation"
  <2>1. Write(<<f, Ping>>) /\ PushPending(p)
    BY DEF SendQuiet
  <2> QED BY <2>1, PushedOn DEF ClientInv, Write
<1>5. /\ p \in OwedRecords /\ p.is = is /\ p.call = c /\ ~p.error
  BY DEF Owed, OwedRecords, Kinds, Quiet
<1> HIDE DEF f
<1>6. MaySend(calls, queue', up, f)
  <2>1. f.type \notin AuthUp
    BY <1>3, PacketsDistinct DEF AuthUp
  <2> QED BY <1>1, <1>3, <2>1 DEF MaySend
<1>7. f.call \in Calls \ Requesters(calls)
  BY <1>3 DEF Requesters
<1>8. SoundOf(calls, queue', login, Append(pending, p), jv, down,
              up \o <<f, Ping>>, server.phase # "closed")
  <2> DEFINE listens == server.phase # "closed"
  <2> HIDE DEF listens
  <2>1. SoundOf(calls, queue, login, pending, invites, down, up, listens)
    BY DEF ClientInv, Sound, listens
  <2>2. /\ f.type \in Packets /\ p.is \in Quiet /\ p.call = f.call
        /\ p.is \in {"join", "invite"} => f.type \in {"ChatJoin", "ChatInvite"}
        /\ jv \in Seq(InviteRecords) /\ InvitesOf(calls, jv, pending)
        /\ DebtOf(calls, p)
    BY <1>3, <1>5
  <2>3. SoundOf(calls, queue', login, Append(pending, p), jv, down,
                up \o <<f, Ping>>, listens)
    BY ONLY <1>1, <1>5, <1>6, <1>7, <2>1, <2>2, SoundPair
  <2> QED BY <2>3 DEF listens
<1> QED BY <1>4, <1>8

(* The caller of one of these is told at once.                             *)
LEMMA QuietTold ==
  ASSUME ClientInv, NEW c \in Calls, NEW ks, Command(c, ks), Taken,
         NEW t \in Packets, NEW p, p = Owed("plain", c, "Pong", FALSE),
         SendQuiet(t, c, p), ks \in {DOMAIN QuietCommands, {"Leave"}},
         calls' = Answered(calls, c, "ok"), known' \subseteq Rooms,
         UNCHANGED <<login, invites, down, server, outq>>
  PROVE  ClientInv'
<1>1. calls[c].cmd \in DOMAIN QuietCommands \cup {"Leave"}
  BY TakenKeeps
<1>2. calls[c].cmd \notin DOMAIN Requests \cup {"Login", "Join", "Invite"}
  BY <1>1, CommandsDistinct
<1>3. DebtOf(calls, p)
  BY <1>1 DEF DebtOf, Owed
<1>4. invites \in Seq(InviteRecords) /\ InvitesOf(calls, invites, pending)
  BY SoundParts DEF ClientInv, Sound
<1>5. /\ SoundOf(calls, queue', login, pending', invites, down, up',
                 server.phase # "closed")
      /\ actor' # "violation"
  <2>1. "plain" \in Quiet /\ FALSE \in BOOLEAN
        /\ ("plain" \in {"join", "invite"} => t \in {"ChatJoin", "ChatInvite"})
    BY DEF Quiet
  <2> QED BY <1>2, <1>3, <1>4, <2>1, QuietSound
<1>6. MayTell(calls[c], "ok")
  BY <1>2 DEF MayTell, Outcomes
<1>7. SoundOf(calls', queue', login, pending', invites, down, up',
              server.phase # "closed")
  BY <1>5, <1>6, SoundTold
<1>8. Sound'
  BY <1>7 DEF Sound
<1>9. Hosted'
  BY DEF ClientInv, Hosted
<1> QED BY <1>5, <1>8, <1>9 DEF ClientInv

(* A command without a reply, and its barrier.                             *)
LEMMA TakeQuietKeeps ==
  ASSUME ClientInv, NEW c \in Calls, TakeQuiet(c)
  PROVE  ClientInv'
<1> DEFINE t == QuietCommands[calls[c].cmd]
           p == Owed("plain", c, "Pong", FALSE)
<1>1. /\ Command(c, DOMAIN QuietCommands) /\ Taken /\ SendQuiet(t, c, p)
      /\ calls' = Answered(calls, c, "ok") /\ known' = known
      /\ UNCHANGED <<login, invites, down, server, outq>>
  BY DEF TakeQuiet, host
<1>2. t \in Packets
  BY <1>1, QuietTables DEF Packets, Command
<1>3. known' \subseteq Rooms
  BY <1>1 DEF ClientInv, Hosted
<1> HIDE DEF t
<1> QED BY <1>1, <1>2, <1>3, QuietTold

(* ChatLeave forgets the room.                                             *)
LEMMA TakeLeaveKeeps ==
  ASSUME ClientInv, NEW c \in Calls, TakeLeave(c)
  PROVE  ClientInv'
<1> DEFINE p == Owed("plain", c, "Pong", FALSE)
<1>1. /\ Command(c, {"Leave"}) /\ Taken /\ SendQuiet("ChatLeave", c, p)
      /\ calls' = Answered(calls, c, "ok")
      /\ known' = known \ {calls[c].room}
      /\ UNCHANGED <<login, invites, down, server, outq>>
  BY DEF TakeLeave, host
<1>2. "ChatLeave" \in Packets
  BY DEF Packets
<1>3. known' \subseteq Rooms
  BY <1>1 DEF ClientInv, Hosted
<1> QED BY <1>1, <1>2, <1>3, QuietTold

(* ChatJoin and its barrier.                                               *)
LEMMA TakeJoinKeeps ==
  ASSUME ClientInv, NEW c \in Calls, TakeJoin(c)
  PROVE  ClientInv'
<1> DEFINE forget == calls[c].room \notin known
           p == Owed("join", c, "Pong", forget)
<1>1. /\ Command(c, {"Join"}) /\ Taken /\ SendQuiet("ChatJoin", c, p)
      /\ known' = known \cup {calls[c].room}
      /\ UNCHANGED <<calls, login, invites, down, server, outq>>
  BY DEF TakeJoin, host
<1>2. calls[c].cmd = "Join" /\ calls[c].room \in Rooms
  BY <1>1, TakenKeeps DEF CallRecords
<1>3. calls[c].cmd \notin DOMAIN Requests \cup {"Login"}
  BY <1>2, CommandsDistinct
<1>4. DebtOf(calls, p)
  BY <1>2 DEF DebtOf, Owed
<1>5. invites \in Seq(InviteRecords) /\ InvitesOf(calls, invites, pending)
  BY SoundParts DEF ClientInv, Sound
<1>6. /\ SoundOf(calls, queue', login, pending', invites, down, up',
                 server.phase # "closed")
      /\ actor' # "violation"
  <2>1. "join" \in Quiet /\ "ChatJoin" \in Packets /\ forget \in BOOLEAN
        /\ ("join" \in {"join", "invite"}
              => "ChatJoin" \in {"ChatJoin", "ChatInvite"})
    BY DEF Quiet, Packets
  <2> HIDE DEF forget
  <2> QED BY <1>1, <1>3, <1>4, <1>5, <2>1, QuietSound
<1>7. Sound'
  BY <1>1, <1>6 DEF Sound
<1>8. Hosted'
  BY <1>1, <1>2 DEF ClientInv, Hosted
<1> QED BY <1>6, <1>7, <1>8 DEF ClientInv

(* start_invite.                                                           *)
LEMMA InvitesMore ==
  ASSUME NEW cs, NEW iv \in Seq(InviteRecords), NEW pd, NEW i,
         InvitesOf(cs, iv, pd), i \in InviteRecords,
         cs[i.call].cmd = "Invite", ~i.settled,
         cs[i.call].verdict = "none", DebtsOf(cs, pd)
  PROVE  /\ Append(iv, i) \in Seq(InviteRecords)
         /\ InvitesOf(cs, Append(iv, i), pd)
<1> DEFINE jv == Append(iv, i)
           n == Len(iv)
<1>1. /\ jv \in Seq(InviteRecords) /\ n \in Nat /\ Len(jv) = n + 1
      /\ jv[n + 1] = i /\ \A j \in 1 .. n : jv[j] = iv[j]
  BY Grown
<1> HIDE DEF jv, n
<1>2. \A j \in 1 .. Len(jv) : j \in 1 .. n \/ j = n + 1
  BY <1>1
<1>3. \A k \in 1 .. Len(pd) : ~(pd[k].is = "invite" /\ pd[k].error
                                /\ pd[k].call = i.call)
  BY DEF DebtsOf, DebtOf
<1>4. InvitesOf(cs, jv, pd)
  BY <1>1, <1>2, <1>3 DEF InvitesOf, n
<1> QED BY <1>1, <1>4 DEF jv

(* ChatInvite, its barrier and its entry in invites.                       *)
LEMMA TakeInviteKeeps ==
  ASSUME ClientInv, NEW c \in Calls, TakeInvite(c)
  PROVE  ClientInv'
<1> DEFINE p == Owed("invite", c, "Pong", FALSE)
           i == [call |-> c, failed |-> FALSE, settled |-> FALSE,
                 room |-> None]
<1>1. /\ Command(c, {"Invite"}) /\ Taken
      /\ UNCHANGED <<login, down, known, server, outq>>
  BY DEF TakeInvite, host
<1>2. known' \subseteq Rooms
  BY <1>1 DEF ClientInv, Hosted
<1>3. ASSUME calls' = Answered(calls, c, "invalid"),
             UNCHANGED <<invites, pending, actor, up>>
      PROVE  ClientInv'
  <2>1. MayTell(calls[c], "invalid")
    BY DEF MayTell, Outcomes
  <2>2. actor' # "violation"
    BY <1>3 DEF ClientInv
  <2> QED BY <1>1, <1>2, <1>3, <2>1, <2>2, TakeTold
<1>4. ASSUME SendQuiet("ChatInvite", c, p), invites' = Append(invites, i),
             UNCHANGED calls
      PROVE  ClientInv'
  <2>1. calls[c].cmd = "Invite" /\ calls[c].verdict = "none"
    BY <1>1, TakenKeeps DEF Unsent
  <2>2. calls[c].cmd \notin DOMAIN Requests \cup {"Login"}
    BY <2>1, CommandsDistinct
  <2>3. DebtOf(calls, p)
    BY <2>1 DEF DebtOf, Owed
  <2>4. invites' \in Seq(InviteRecords) /\ InvitesOf(calls, invites', pending)
    <3>1. /\ invites \in Seq(InviteRecords) /\ DebtsOf(calls, pending)
          /\ InvitesOf(calls, invites, pending)
      BY SoundParts DEF ClientInv, Sound
    <3>2. i \in InviteRecords /\ i.call = c /\ ~i.settled
      BY RoomsAll DEF InviteRecords
    <3> HIDE DEF i
    <3> QED BY <1>4, <2>1, <3>1, <3>2, InvitesMore
  <2>5. /\ SoundOf(calls, queue', login, pending', invites', down, up',
                   server.phase # "closed")
        /\ actor' # "violation"
    <3>1. "invite" \in Quiet /\ "ChatInvite" \in Packets /\ FALSE \in BOOLEAN
          /\ ("invite" \in {"join", "invite"}
                => "ChatInvite" \in {"ChatJoin", "ChatInvite"})
      BY DEF Quiet, Packets
    <3> QED BY <1>1, <1>4, <2>2, <2>3, <2>4, <3>1, QuietSound
  <2>6. Sound'
    BY <1>1, <1>4, <2>5 DEF Sound
  <2> QED BY <1>1, <2>5, <2>6, StillHosted DEF ClientInv
<1> QED BY <1>3, <1>4 DEF TakeInvite

(***************************************************************************)
(* The actor reads a frame.                                                *)
(***************************************************************************)
LEMMA HereSound ==
  ASSUME ClientInv
  PROVE  /\ SoundOf(calls, queue, login, pending, invites, down, up,
                    server.phase # "closed")
         /\ LinkTyped(calls, pending, down, up)
         /\ LedgerOf(calls, pending, down, up, server.phase # "closed")
BY DEF ClientInv, Sound, SoundOf, SoundTyped

(* The frame a handler reads is the first one down.                        *)
LEMMA ArrivedFirst ==
  ASSUME ClientInv, NEW ts, Arrived(ts)
  PROVE  /\ down # <<>> /\ Head(down) = down[1] /\ down[1].type \in ts
         /\ down[1] \in FramesOf(DownTypes)
<1>1. down \in Seq(FramesOf(DownTypes)) /\ down # <<>>
  BY SoundParts DEF ClientInv, Sound, Arrived
<1> QED BY <1>1, FrameFront DEF Arrived

(* The debt a handler consults is the first one.                           *)
LEMMA OwedFirst ==
  ASSUME ClientInv, pending # <<>>
  PROVE  /\ OwedNow = pending[1].is /\ Head(pending) = pending[1]
         /\ pending[1] \in OwedRecords /\ DebtOf(calls, pending[1])
         /\ Tail(pending) \in Seq(OwedRecords)
<1>1. pending \in Seq(OwedRecords) /\ DebtsOf(calls, pending)
  BY SoundParts DEF ClientInv, Sound
<1> QED BY <1>1, FrameFront DEF OwedNow, DebtsOf

(* A notice is read.                                                       *)
LEMMA OnNoticeKeeps ==
  ASSUME ClientInv, OnNotice
  PROVE  ClientInv'
<1>1. /\ down # <<>> /\ ~Turned(down[1])
  BY ArrivedFirst, Aside DEF OnNotice, Notices
<1>2. /\ down' = Tail(down)
      /\ UNCHANGED <<calls, queue, login, pending, invites, known, actor, up,
                     server, outq>>
  BY DEF OnNotice, Read, client, host
<1>3. SoundOf(calls, queue, login, pending, invites, Tail(down), up,
              server.phase # "closed")
  BY <1>1, HereSound, SoundGlance
<1>4. Sound'
  BY <1>2, <1>3 DEF Sound
<1> QED BY <1>2, <1>4, StillHosted DEF ClientInv

(* A reply is read (take_reply).                                           *)
LEMMA OnReplyKeeps ==
  ASSUME ClientInv, OnReply
  PROVE  ClientInv'
<1>1. down # <<>> /\ Head(down) = down[1] /\ down[1].type \in ReplyTypes
  BY ArrivedFirst DEF OnReply
<1>2. /\ pending # <<>> /\ pending[1].is = "reply"
      /\ pending[1].call = down[1].call /\ pending[1].expects = down[1].type
      /\ calls[pending[1].call].verdict = "granted"
  BY <1>1, HereSound, ReplyMeans
<1> DEFINE c == pending[1].call
<1>3. c \in Calls
  BY <1>2, OwedFirst DEF OwedRecords
<1>4. /\ calls' = Given(calls, c, c) /\ pending' = Tail(pending)
      /\ down' = Tail(down)
      /\ UNCHANGED <<queue, actor, login, invites, known, up, server, outq>>
  BY <1>1, <1>2, OwedFirst DEF OnReply, Read, Given, host
<1>5. Closes(down[1], Requesters(calls))
  BY <1>1 DEF Closes
<1>6. SoundOf(calls, queue, login, Tail(pending), invites, Tail(down), up,
              server.phase # "closed")
  BY <1>1, <1>2, <1>5, HereSound, SoundSettle
<1>7. SoundOf(calls', queue, login, Tail(pending), invites, Tail(down), up,
              server.phase # "closed")
  BY <1>2, <1>3, <1>4, <1>6, SoundGiven
<1>8. Sound'
  BY <1>4, <1>7 DEF Sound
<1> QED BY <1>4, <1>8, StillHosted DEF ClientInv

(* The invitation of the barrier that returns is settled.                  *)
LEMMA SettledInvites ==
  ASSUME NEW cs, NEW iv \in Seq(InviteRecords), NEW pd \in Seq(OwedRecords),
         InvitesOf(cs, iv, pd), pd # <<>>, pd[1].is = "invite", NEW n,
         n \in 1 .. Len(iv), iv[n].call = pd[1].call, NEW jv,
         pd[1].error \/ cs[pd[1].call].verdict = "granted",
         jv = [iv EXCEPT ![n].settled = TRUE]
  PROVE  jv \in Seq(InviteRecords) /\ InvitesOf(cs, jv, Tail(pd))
<1> DEFINE i == iv[n]
           j == [i EXCEPT !.settled = TRUE]
<1>1. i \in InviteRecords
  OBVIOUS
<1>2. jv = [iv EXCEPT ![n] = j]
  OBVIOUS
<1> HIDE DEF i
<1>3. /\ j \in InviteRecords /\ j.call = i.call /\ j.failed = i.failed
      /\ j.settled
  BY <1>1 DEF InviteRecords
<1> HIDE DEF j
<1>4. /\ jv \in Seq(InviteRecords) /\ Len(jv) = Len(iv) /\ jv[n] = j
      /\ \A m \in 1 .. Len(iv) : m # n => jv[m] = iv[m]
  <2>1. iv \in [1 .. Len(iv) -> InviteRecords] /\ Len(iv) \in Nat
    OBVIOUS
  <2>2. /\ jv \in [1 .. Len(iv) -> InviteRecords] /\ jv[n] = j
        /\ \A m \in 1 .. Len(iv) : m # n => jv[m] = iv[m]
    BY ONLY <1>2, <1>3, <2>1, n \in 1 .. Len(iv)
  <2>3. jv \in Seq(InviteRecords) /\ Len(jv) = Len(iv)
    BY ONLY <2>1, <2>2
  <2> QED BY <2>2, <2>3
<1>5. /\ \A k \in 1 .. Len(Tail(pd)) : Tail(pd)[k] = pd[k + 1]
                                       /\ k + 1 \in 1 .. Len(pd)
      /\ 1 \in 1 .. Len(pd)
  BY FrameFront
<1>6. ~i.failed => cs[i.call].verdict = "granted"
  BY <1>5 DEF InvitesOf, i
<1>7. ASSUME NEW m \in 1 .. Len(jv)
      PROVE  /\ cs[jv[m].call].cmd = "Invite"
             /\ jv[m].settled /\ ~jv[m].failed =>
                  cs[jv[m].call].verdict = "granted"
             /\ \A k \in 1 .. Len(Tail(pd)) :
                  Tail(pd)[k].is = "invite" /\ Tail(pd)[k].error
                    /\ Tail(pd)[k].call = jv[m].call => jv[m].failed
  <2>1. CASE m = n
    BY <2>1, <1>3, <1>4, <1>5, <1>6 DEF InvitesOf, i
  <2>2. CASE m # n
    BY <2>2, <1>4, <1>5, <1>7 DEF InvitesOf
  <2> QED BY <2>1, <2>2
<1> QED BY <1>4, <1>7 DEF InvitesOf

(* A Pong is read (on_pong).                                               *)
LEMMA OnPongKeeps ==
  ASSUME ClientInv, OnPong
  PROVE  ClientInv'
<1> DEFINE p == pending[1]
           listens == server.phase # "closed"
<1>1. down # <<>> /\ Head(down) = down[1] /\ down[1].type = "Pong"
  BY ArrivedFirst DEF OnPong
<1>2. /\ pending # <<>> /\ p.is # "reply"
      /\ p.is \in {"join", "invite"} =>
           p.error \/ calls[p.call].verdict \notin {"none", "refused"}
  BY <1>1, HereSound, PongMeans
<1>3. /\ OwedNow = p.is /\ Head(pending) = p /\ p \in OwedRecords
      /\ DebtOf(calls, p) /\ Tail(pending) \in Seq(OwedRecords)
  BY <1>2, OwedFirst
<1>4. p.is \in {"ping", "plain", "join", "invite"}
  BY <1>2, <1>3 DEF OwedRecords, Kinds
<1>5. p.is \in {"join", "invite"} =>
        p.call \in Calls /\ (p.error \/ calls[p.call].verdict = "granted")
  <2>1. \A c \in Calls : calls[c].verdict \in {"none", "granted", "refused"}
    BY SoundParts DEF ClientInv, Sound, CallRecords
  <2> QED BY <1>2, <1>3, <2>1 DEF OwedRecords
<1>6. /\ pending' = Tail(pending) /\ down' = Tail(down)
      /\ known' \subseteq known
      /\ UNCHANGED <<queue, actor, login, up, server, outq>>
  BY <1>1, <1>3, <1>4 DEF OnPong, Read, host
<1>7. /\ p.is = "join" =>
           /\ calls' = Answered(calls, p.call,
                                IF p.error THEN "refused" ELSE "ok")
           /\ UNCHANGED invites
      /\ p.is = "invite" /\ (\E i \in Range(invites) : i.call = p.call) =>
           Resolve([invites EXCEPT
                      ![InviteOf(p.call, invites)].settled = TRUE], calls)
      /\ p.is # "join" /\ ~(p.is = "invite"
                            /\ \E i \in Range(invites) : i.call = p.call) =>
           UNCHANGED <<calls, invites>>
  BY <1>1, <1>3, <1>4 DEF OnPong
<1>8. Closes(down[1], Requesters(calls))
  BY <1>1 DEF Closes
<1>9. SoundOf(calls, queue, login, pending, invites, down, up, listens)
  BY HereSound
<1>10. SoundOf(calls, queue, login, Tail(pending), invites, Tail(down), up,
               listens)
  BY <1>1, <1>2, <1>8, <1>9, SoundSettle
<1> HIDE DEF p, listens
<1>11. ASSUME p.is = "join"
       PROVE  SoundOf(calls', queue, login, Tail(pending), invites',
                      Tail(down), up, listens)
  <2> DEFINE v == IF p.error THEN "refused" ELSE "ok"
  <2>1. calls' = Answered(calls, p.call, v) /\ invites' = invites
    BY <1>7, <1>11
  <2>2. MayTell(calls[p.call], v)
    <3>1. calls[p.call].cmd = "Join"
      BY <1>3, <1>11 DEF DebtOf
    <3>2. "Join" \notin DOMAIN Requests \cup {"Login"}
      BY CommandsDistinct
    <3>3. p.error => calls[p.call].verdict = "refused"
      BY <1>3 DEF DebtOf
    <3> QED BY <1>5, <1>11, <3>1, <3>2, <3>3 DEF MayTell, Outcomes
  <2> HIDE DEF v
  <2> QED BY <1>5, <1>10, <1>11, <2>1, <2>2, SoundTold
<1>12. ASSUME p.is = "invite", \E i \in Range(invites) : i.call = p.call
       PROVE  SoundOf(calls', queue, login, Tail(pending), invites',
                      Tail(down), up, listens)
  <2> DEFINE n == InviteOf(p.call, invites)
             jv == [invites EXCEPT ![n].settled = TRUE]
  <2>1. calls' = Told(jv, calls) /\ invites' = Remaining(jv, calls)
    <3>1. Resolve(jv, calls)
      BY <1>7, <1>12
    <3> HIDE DEF jv
    <3> QED BY <3>1 DEF Resolve, Told, Remaining
  <2>2. /\ invites \in Seq(InviteRecords) /\ pending \in Seq(OwedRecords)
        /\ InvitesOf(calls, invites, pending)
    BY SoundParts DEF ClientInv, Sound
  <2>3. n \in 1 .. Len(invites) /\ invites[n].call = p.call
    <3>1. \E m \in DOMAIN invites : invites[m].call = p.call
      BY <1>12, <2>2 DEF Range
    <3> QED BY <2>2, <3>1 DEF InviteOf
  <2>4. jv = [invites EXCEPT ![n].settled = TRUE]
    OBVIOUS
  <2> HIDE DEF n, jv
  <2>5. jv \in Seq(InviteRecords) /\ InvitesOf(calls, jv, Tail(pending))
    BY <1>2, <1>5, <1>12, <2>2, <2>3, <2>4, SettledInvites DEF p
  <2>6. SoundOf(calls, queue, login, Tail(pending), jv, Tail(down), up,
                listens)
    BY <1>10, <2>5 DEF SoundOf, SoundTyped
  <2> QED BY <2>1, <2>6, SoundResolve
<1>13. ASSUME p.is # "join",
              ~(p.is = "invite" /\ \E i \in Range(invites) : i.call = p.call)
       PROVE  SoundOf(calls', queue, login, Tail(pending), invites',
                      Tail(down), up, listens)
  BY <1>7, <1>10, <1>13
<1>14. SoundOf(calls', queue, login, Tail(pending), invites', Tail(down), up,
               listens)
  BY <1>11, <1>12, <1>13
<1>15. Sound'
  BY <1>6, <1>14 DEF Sound, listens
<1>16. Hosted'
  BY <1>6 DEF ClientInv, Hosted
<1> QED BY <1>6, <1>15, <1>16 DEF ClientInv

(* The first debt is marked as refused.                                    *)
Marked(pd, qd) == qd = [pd EXCEPT ![1].error = TRUE]

(* The oldest debt is marked.                                              *)
LEMMA MarkedDebts ==
  ASSUME NEW pd \in Seq(OwedRecords), pd # <<>>, NEW qd,
         Marked(pd, qd)
  PROVE  /\ qd \in Seq(OwedRecords) /\ Len(qd) = Len(pd) /\ qd[1].error
         /\ qd[1].is = pd[1].is /\ qd[1].call = pd[1].call
         /\ \A k \in 1 .. Len(pd) : /\ Like(pd[k], qd[k])
                                    /\ k # 1 => qd[k] = pd[k]
<1> DEFINE p == pd[1]
           q == [p EXCEPT !.error = TRUE]
<1>1. p \in OwedRecords /\ 1 \in 1 .. Len(pd)
  BY FrameFront
<1>2. qd = [pd EXCEPT ![1] = q]
  BY DEF Marked
<1> HIDE DEF p
<1>3. /\ q \in OwedRecords /\ q.is = p.is /\ q.call = p.call
      /\ q.expects = p.expects /\ q.error
  BY <1>1 DEF OwedRecords
<1> HIDE DEF q
<1>4. pd \in [1 .. Len(pd) -> OwedRecords] /\ Len(pd) \in Nat
  OBVIOUS
<1>5. /\ qd \in [1 .. Len(pd) -> OwedRecords] /\ qd[1] = q
      /\ \A k \in 1 .. Len(pd) : k # 1 => qd[k] = pd[k]
  BY ONLY <1>1, <1>2, <1>3, <1>4
<1>6. qd \in Seq(OwedRecords) /\ Len(qd) = Len(pd)
  BY ONLY <1>4, <1>5
<1>7. \A k \in 1 .. Len(pd) : /\ Like(pd[k], qd[k])
                              /\ k # 1 => qd[k] = pd[k]
  BY <1>3, <1>5 DEF Like, p
<1> QED BY <1>3, <1>5, <1>6, <1>7 DEF p

(* An Error is read (on_error).                                            *)
LEMMA OnErrorKeeps ==
  ASSUME ClientInv, OnError
  PROVE  ClientInv'
<1> DEFINE p == pending[1]
           listens == server.phase # "closed"
<1>1. down # <<>> /\ Head(down) = down[1] /\ down[1].type = "Error"
  BY ArrivedFirst DEF OnError
<1>2. /\ pending # <<>> /\ p.call = down[1].call /\ down[1].call \in Calls
      /\ calls[p.call].verdict = "refused"
      /\ IF down[1].call \in Requesters(calls) THEN p.is = "reply"
         ELSE p.is \in Quiet
  BY <1>1, HereSound, ErrorMeans
<1>3. /\ OwedNow = p.is /\ Head(pending) = p /\ p \in OwedRecords
      /\ DebtOf(calls, p)
  BY <1>2, OwedFirst
<1>4. /\ down' = Tail(down)
      /\ UNCHANGED <<queue, actor, login, known, up, server, outq>>
  BY DEF OnError, Read, host
<1>5. SoundOf(calls, queue, login, pending, invites, down, up, listens)
  BY HereSound
<1>6. /\ pending \in Seq(OwedRecords) /\ invites \in Seq(InviteRecords)
      /\ InvitesOf(calls, invites, pending)
  BY SoundParts DEF ClientInv, Sound
<1>7. /\ p.is = "reply" =>
           /\ calls' = Answered(calls, p.call, "refused")
           /\ pending' = Tail(pending) /\ UNCHANGED invites
      /\ p.is \in Quiet /\ ~p.error =>
           /\ pending' = [pending EXCEPT ![1].error = TRUE]
           /\ IF p.is = "invite" THEN InviteRefused(p.call)
              ELSE UNCHANGED <<calls, invites>>
      /\ p.is \in Quiet /\ p.error => UNCHANGED <<calls, pending, invites>>
  BY <1>3 DEF OnError, Quiet
<1>8. MayTell(calls[p.call], "refused")
  BY <1>2 DEF MayTell, Outcomes
<1> HIDE DEF p, listens
<1>9. ASSUME p.is = "reply"
      PROVE  SoundOf(calls', queue, login, pending', invites', Tail(down), up,
                     listens)
  <2>1. Closes(down[1], Requesters(calls))
    BY <1>1, <1>2, <1>9 DEF Closes, Quiet
  <2>2. SoundOf(calls, queue, login, Tail(pending), invites, Tail(down), up,
                listens)
    BY <1>1, <1>2, <1>5, <2>1, SoundSettle
  <2> QED BY <1>2, <1>7, <1>8, <1>9, <2>2, SoundTold
<1>10. ASSUME p.is \in Quiet, p.error
       PROVE  SoundOf(calls', queue, login, pending', invites', Tail(down),
                      up, listens)
  <2>1. /\ \A k \in 1 .. Len(pending) :
             Like(pending[k], pending[k]) /\ (k # 1 => pending[k] = pending[k])
        /\ pending[1].error /\ pending[1].is \in Quiet
    BY <1>10 DEF Like, p
  <2>2. SoundOf(calls, queue, login, pending, invites, Tail(down), up,
                listens)
    BY <1>1, <1>5, <1>6, <2>1, SoundNote
  <2> QED BY <1>7, <1>10, <2>2
<1>11. ASSUME p.is \in Quiet, ~p.error
       PROVE  SoundOf(calls', queue, login, pending', invites', Tail(down),
                      up, listens)
  <2> DEFINE qd == pending'
  <2>1. qd = [pending EXCEPT ![1].error = TRUE]
    BY <1>7, <1>11
  <2> HIDE DEF qd
  <2>2. /\ qd \in Seq(OwedRecords) /\ Len(qd) = Len(pending) /\ qd[1].error
        /\ qd[1].is = p.is /\ qd[1].call = p.call
        /\ \A k \in 1 .. Len(pending) : /\ Like(pending[k], qd[k])
                                        /\ k # 1 => qd[k] = pending[k]
    <3>1. pending # <<>> /\ pending \in Seq(OwedRecords)
      BY <1>2, <1>6
    <3> DEFINE pd == pending
    <3>3. /\ pd # <<>> /\ pd \in Seq(OwedRecords)
          /\ Marked(pd, qd)
      BY <2>1, <3>1 DEF Marked
    <3> HIDE DEF pd
    <3>4. /\ qd \in Seq(OwedRecords) /\ Len(qd) = Len(pd) /\ qd[1].error
          /\ qd[1].is = pd[1].is /\ qd[1].call = pd[1].call
          /\ \A k \in 1 .. Len(pd) : /\ Like(pd[k], qd[k])
                                     /\ k # 1 => qd[k] = pd[k]
      BY ONLY <3>3, MarkedDebts
    <3> QED BY ONLY <3>4 DEF p, pd
  <2>3. pending[1].is \in Quiet
    BY <1>11 DEF p
  <2>4. ASSUME NEW jv \in Seq(InviteRecords), InvitesOf(calls, jv, qd)
        PROVE  SoundOf(calls, queue, login, qd, jv, Tail(down), up, listens)
    BY <1>1, <1>5, <2>2, <2>3, <2>4, SoundNote
  <2>5. CASE p.is # "invite"
    <3>1. UNCHANGED <<calls, invites>>
      BY <1>7, <1>11, <2>5
    <3>2. InvitesOf(calls, invites, qd)
      BY <1>6, <2>2, <2>5 DEF InvitesOf
    <3> QED BY <1>6, <2>4, <3>1, <3>2 DEF qd
  <2>6. CASE p.is = "invite"
    <3> DEFINE Mine(i) == invites[i].call = p.call
               jv == [i \in DOMAIN invites |->
                        IF Mine(i) THEN [invites[i] EXCEPT !.failed = TRUE]
                        ELSE invites[i]]
    <3>1. invites' = jv /\ calls' = Answered(calls, p.call, "refused")
      BY <1>7, <1>11, <2>6 DEF InviteRefused
    <3>2. \A r \in InviteRecords :
            /\ [r EXCEPT !.failed = TRUE] \in InviteRecords
            /\ [r EXCEPT !.failed = TRUE].call = r.call
            /\ [r EXCEPT !.failed = TRUE].failed
      BY DEF InviteRecords
    <3>3. \A i \in 1 .. Len(invites) :
            /\ jv[i] \in InviteRecords /\ jv[i].call = invites[i].call
            /\ Mine(i) => jv[i].failed
            /\ ~Mine(i) => jv[i] = invites[i]
      <4> SUFFICES ASSUME NEW i \in 1 .. Len(invites)
                   PROVE  /\ jv[i] \in InviteRecords
                          /\ jv[i].call = invites[i].call
                          /\ Mine(i) => jv[i].failed
                          /\ ~Mine(i) => jv[i] = invites[i]
        OBVIOUS
      <4> DEFINE r == invites[i]
                 s == jv[i]
      <4>1. /\ Mine(i) => s = [r EXCEPT !.failed = TRUE]
            /\ ~Mine(i) => s = r
            /\ r \in InviteRecords
        <5>1. i \in DOMAIN invites /\ invites[i] \in InviteRecords
          BY <1>6
        <5>2. jv[i] = IF Mine(i) THEN [invites[i] EXCEPT !.failed = TRUE]
                      ELSE invites[i]
          BY <5>1
        <5> HIDE DEF jv, Mine
        <5> QED BY <5>1, <5>2
      <4> HIDE DEF r, s, Mine
      <4>2. /\ s \in InviteRecords /\ s.call = r.call
            /\ Mine(i) => s.failed
            /\ ~Mine(i) => s = r
        BY <4>1, <3>2
      <4> QED BY <4>2 DEF r, s
    <3>4. jv \in Seq(InviteRecords) /\ Len(jv) = Len(invites)
      <4>1. DOMAIN invites = 1 .. Len(invites) /\ Len(invites) \in Nat
        BY <1>6
      <4>2. jv \in [1 .. Len(invites) -> InviteRecords]
        BY <3>3, <4>1
      <4> HIDE DEF jv
      <4> QED BY <4>1, <4>2
    <3> HIDE DEF jv
    <3>5. InvitesOf(calls, jv, qd)
      <4> SUFFICES ASSUME NEW i \in 1 .. Len(jv)
                   PROVE  /\ calls[jv[i].call].cmd = "Invite"
                          /\ jv[i].settled /\ ~jv[i].failed =>
                               calls[jv[i].call].verdict = "granted"
                          /\ \A k \in 1 .. Len(qd) :
                               qd[k].is = "invite" /\ qd[k].error
                                 /\ qd[k].call = jv[i].call => jv[i].failed
        BY DEF InvitesOf
      <4>1. /\ calls[invites[i].call].cmd = "Invite"
            /\ invites[i].settled /\ ~invites[i].failed =>
                 calls[invites[i].call].verdict = "granted"
            /\ \A k \in 1 .. Len(pending) :
                 pending[k].is = "invite" /\ pending[k].error
                   /\ pending[k].call = invites[i].call => invites[i].failed
        BY <1>6, <3>4 DEF InvitesOf
      <4>2. CASE Mine(i)
        BY <3>3, <3>4, <4>1, <4>2
      <4>3. CASE ~Mine(i)
        BY <2>2, <3>3, <3>4, <4>1, <4>3
      <4> QED BY <4>2, <4>3
    <3>6. SoundOf(calls, queue, login, qd, jv, Tail(down), up, listens)
      BY <2>4, <3>4, <3>5
    <3>7. SoundOf(calls', queue, login, qd, jv, Tail(down), up, listens)
      BY <1>2, <1>8, <3>1, <3>6, SoundTold
    <3> QED BY <3>1, <3>7 DEF qd
  <2> QED BY <2>5, <2>6
<1>12. SoundOf(calls', queue, login, pending', invites', Tail(down), up,
               listens)
  BY <1>2, <1>9, <1>10, <1>11
<1>13. Sound'
  BY <1>4, <1>12 DEF Sound, listens
<1> QED BY <1>4, <1>13, StillHosted DEF ClientInv

(* A user list is read: the room is known, an invite may find it.          *)
LEMMA OnUserListKeeps ==
  ASSUME ClientInv, OnUserList
  PROVE  ClientInv'
<1> DEFINE r == down[1].room
           waits(i) == /\ invites[i].room = None
                       /\ ~(invites[i].failed /\ invites[i].settled)
           waiting == {i \in DOMAIN invites : waits(i)}
           oldest == CHOOSE i \in waiting : \A j \in waiting : i <= j
           jv == [invites EXCEPT ![oldest].room = r]
           listens == server.phase # "closed"
<1>1. /\ down # <<>> /\ Head(down) = down[1] /\ ~Turned(down[1])
      /\ r \in Rooms
  BY ArrivedFirst, Aside DEF OnUserList, Notices, FramesOf
<1>2. /\ down' = Tail(down)
      /\ UNCHANGED <<queue, actor, login, pending, up, server, outq>>
  BY DEF OnUserList, Read, host
<1>3. \/ UNCHANGED <<calls, invites, known>>
      \/ /\ known' \in {known, known \cup {r}} /\ waiting # {}
         /\ Resolve(jv, calls)
  BY <1>1 DEF OnUserList
<1>4. known' \subseteq Rooms
  BY <1>1, <1>3 DEF ClientInv, Hosted
<1>5. SoundOf(calls, queue, login, pending, invites, Tail(down), up, listens)
  BY <1>1, HereSound, SoundGlance
<1>6. SoundOf(calls', queue, login, pending, invites', Tail(down), up,
              listens)
  <2>1. CASE UNCHANGED <<calls, invites, known>>
    BY <1>5, <2>1
  <2>2. ASSUME waiting # {}, Resolve(jv, calls)
        PROVE  SoundOf(calls', queue, login, pending, invites', Tail(down),
                       up, listens)
    <3>1. invites \in Seq(InviteRecords) /\ InvitesOf(calls, invites, pending)
      BY SoundParts DEF ClientInv, Sound
    <3>2. oldest \in 1 .. Len(invites)
      <4>1. waiting \in SUBSET Nat /\ waiting \subseteq 1 .. Len(invites)
        BY <3>1
      <4> HIDE DEF waiting
      <4>2. \E i \in waiting : \A j \in waiting : i <= j
        BY <2>2, <4>1, LeastNumber
      <4> QED BY <4>1, <4>2
    <3>3. calls' = Told(jv, calls) /\ invites' = Remaining(jv, calls)
      <4> HIDE DEF jv
      <4> QED BY <2>2 DEF Resolve, Told, Remaining
    <3> DEFINE i == invites[oldest]
               j == [i EXCEPT !.room = r]
    <3>4. i \in InviteRecords /\ jv = [invites EXCEPT ![oldest] = j]
      BY <3>1, <3>2
    <3> HIDE DEF i, r, oldest, jv, listens
    <3>5. /\ j \in InviteRecords /\ j.call = i.call /\ j.failed = i.failed
          /\ j.settled = i.settled
      BY <1>1, <3>4 DEF InviteRecords
    <3> HIDE DEF j
    <3>6. /\ jv \in Seq(InviteRecords) /\ Len(jv) = Len(invites)
          /\ jv[oldest] = j
          /\ \A m \in 1 .. Len(invites) : m # oldest => jv[m] = invites[m]
      <4>1. /\ invites \in [1 .. Len(invites) -> InviteRecords]
            /\ Len(invites) \in Nat
        BY <3>1
      <4>2. /\ jv \in [1 .. Len(invites) -> InviteRecords] /\ jv[oldest] = j
            /\ \A m \in 1 .. Len(invites) : m # oldest => jv[m] = invites[m]
        BY ONLY <3>2, <3>4, <3>5, <4>1
      <4>3. jv \in Seq(InviteRecords) /\ Len(jv) = Len(invites)
        BY ONLY <4>1, <4>2
      <4> QED BY <4>2, <4>3
    <3>7. \A m \in 1 .. Len(jv) : /\ jv[m].call = invites[m].call
                                  /\ jv[m].failed = invites[m].failed
                                  /\ jv[m].settled = invites[m].settled
      BY <3>5, <3>6 DEF i
    <3>8. InvitesOf(calls, jv, pending)
      BY <3>1, <3>6, <3>7 DEF InvitesOf
    <3>9. SoundOf(calls, queue, login, pending, jv, Tail(down), up, listens)
      BY <1>5, <3>6, <3>8 DEF SoundOf, SoundTyped
    <3> QED BY <3>3, <3>9, SoundResolve
  <2> HIDE DEF waiting, jv
  <2> QED BY <1>3, <2>1, <2>2
<1>7. Sound'
  BY <1>2, <1>6 DEF Sound
<1>8. Hosted'
  BY <1>2, <1>4 DEF ClientInv, Hosted
<1> QED BY <1>2, <1>7, <1>8 DEF ClientInv

(* The frames of a login.                                                  *)
LEMMA LoginHeard ==
  ASSUME ClientInv, down # <<>>, down[1].type \in AuthDown
  PROVE  /\ login.phase # "none" /\ login.call \in Calls
         /\ calls[login.call].cmd = "Login" /\ down[1].call = login.call
         /\ down[1].type = "AuthOk" =>
              /\ login.phase = "result"
              /\ calls[login.call].verdict = "granted"
         /\ MayTell(calls[login.call], "refused") /\ login \in LoginRecords
<1>1. /\ LoginOf(calls, queue, login, down, up) /\ login \in LoginRecords
      /\ down \in Seq(FramesOf(DownTypes))
  BY SoundParts DEF ClientInv, Sound
<1>2. 1 \in 1 .. Len(down)
  BY <1>1, FrameFront
<1> QED BY <1>1, <1>2 DEF LoginOf, MayTell, Outcomes

(* A login answer read, whoever waited no longer does.                     *)
LEMMA LoginOver ==
  ASSUME ClientInv, down # <<>>, down[1].type \in AuthDown
  PROVE  SoundOf(calls, queue, NoLogin, pending, invites, Tail(down), up,
                 server.phase # "closed")
<1>1. NoLogin \in LoginRecords /\ NoLogin.phase = "none"
  BY DEF NoLogin, LoginRecords
<1> QED BY <1>1, HereSound, SoundOver

(* The challenge is read and the proof written.                            *)
LEMMA OnAuthChallengeKeeps ==
  ASSUME ClientInv, OnAuthChallenge
  PROVE  ClientInv'
<1> DEFINE c == login.call
           f == Frame("AuthResponse", c, None)
           listens == server.phase # "closed"
<1>1. /\ down # <<>> /\ Head(down) = down[1]
      /\ down[1].type = "AuthChallenge" /\ down[1].type \in AuthDown
  BY ArrivedFirst DEF OnAuthChallenge, AuthDown
<1>2. /\ login.phase # "none" /\ c \in Calls /\ calls[c].cmd = "Login"
      /\ MayTell(calls[c], "refused") /\ login \in LoginRecords
  BY <1>1, LoginHeard
<1>3. ASSUME Read, Write(<<f>>), login' = [login EXCEPT !.phase = "result"],
             UNCHANGED <<calls, queue, actor, pending, invites, known, host>>
      PROVE  ClientInv'
  <2>1. f \in FramesOf(UpTypes) /\ f.type = "AuthResponse" /\ f.call = c
    BY <1>2, RoomsAll DEF Frame, FramesOf, UpTypes
  <2>2. up' = Append(up, f)
    BY <1>3, <2>1, OneFrame
  <2>3. /\ login' \in LoginRecords /\ login'.phase = "result"
        /\ login'.call = login.call
    BY <1>2, <1>3 DEF LoginRecords
  <2> HIDE DEF f, c, listens
  <2>4. SoundOf(calls, queue, login', pending, invites, Tail(down),
                Append(up, f), listens)
    <3>1. SoundOf(calls, queue, login, pending, invites, down, up, listens)
      BY HereSound DEF listens
    <3>2. f.call = login.call
      BY <2>1 DEF c
    <3> QED BY ONLY <1>1, <2>1, <2>3, <3>1, <3>2, SoundProof
  <2>5. Sound'
    BY <1>3, <2>2, <2>4 DEF Sound, Read, listens, host
  <2> QED BY <1>3, <2>5, StillHosted DEF ClientInv, host
<1>4. ASSUME Read, calls' = Answered(calls, c, "refused"), login' = NoLogin,
             UNCHANGED <<queue, actor, pending, invites, known, up, host>>
      PROVE  ClientInv'
  <2>1. SoundOf(calls', queue, NoLogin, pending, invites, Tail(down), up,
                listens)
    BY <1>1, <1>2, <1>4, LoginOver, SoundTold
  <2>2. Sound'
    BY <1>4, <2>1 DEF Sound, Read, host
  <2> QED BY <1>4, <2>2, StillHosted DEF ClientInv, host
<1>5. ASSUME End("write failed", calls, {})
      PROVE  ClientInv'
  BY <1>5, EndHere
<1> QED BY <1>3, <1>4, <1>5 DEF OnAuthChallenge

(* The result of a login is read.                                          *)
LEMMA OnAuthResultKeeps ==
  ASSUME ClientInv, OnAuthResult
  PROVE  ClientInv'
<1> DEFINE c == login.call
           listens == server.phase # "closed"
<1>1. /\ down # <<>> /\ Head(down) = down[1]
      /\ down[1].type \in {"AuthOk", "AuthFailed"}
      /\ down[1].type \in AuthDown
  BY ArrivedFirst DEF OnAuthResult, AuthDown
<1>2. /\ login.phase # "none" /\ c \in Calls /\ calls[c].cmd = "Login"
      /\ MayTell(calls[c], "refused") /\ down[1].call = c
      /\ down[1].type = "AuthOk" =>
           login.phase = "result" /\ calls[c].verdict = "granted"
  BY <1>1, LoginHeard
<1>3. login # NoLogin
  BY <1>2 DEF NoLogin
<1>4. /\ Read /\ login' = NoLogin
      /\ UNCHANGED <<queue, actor, pending, invites, known, up, server, outq>>
      /\ calls' = IF down[1].type = "AuthFailed"
                  THEN Answered(calls, c, "refused") ELSE Given(calls, c, c)
  BY <1>1, <1>2, <1>3 DEF OnAuthResult, Given, host
<1>5. SoundOf(calls, queue, NoLogin, pending, invites, Tail(down), up, listens)
  BY <1>1, LoginOver
<1> HIDE DEF c, listens
<1>6. SoundOf(calls', queue, NoLogin, pending, invites, Tail(down), up,
              listens)
  <2>1. CASE down[1].type = "AuthFailed"
    BY <1>2, <1>4, <1>5, <2>1, SoundTold
  <2>2. CASE down[1].type = "AuthOk"
    <3>1. calls' = Given(calls, c, c)
      BY <1>4, <2>2
    <3> QED BY <1>2, <1>5, <2>2, <3>1, SoundGiven
  <2> QED BY <1>1, <2>1, <2>2
<1>7. Sound'
  BY <1>4, <1>6 DEF Sound, Read, listens
<1> QED BY <1>4, <1>7, StillHosted DEF ClientInv

(* The client ends the connection.                                         *)
LEMMA StopKeeps ==
  ASSUME ClientInv, Stop \/ KeepAliveFails
  PROVE  ClientInv'
<1>1. \E reason \in {"disconnected", "unanswered", "closed", "idle",
                     "write failed"} : End(reason, calls, {})
  BY DEF Stop, Goodbye, TooMuchOwed, EndOfStream, IdleDeadline, KeepAliveFails
<1> QED BY <1>1, EndHere

(***************************************************************************)
(* The server.                                                             *)
(***************************************************************************)
LEMMA Served ==
  ASSUME ClientInv, NEW phase, phase # "closed", NEW ts, Serving(phase, ts)
  PROVE  /\ SoundOf(calls, queue, login, pending, invites, down, up, TRUE)
         /\ up # <<>> /\ Head(up) = up[1] /\ up[1].type \in ts
         /\ up[1].type # "Ping" => up[1].call \in Calls
         /\ up[1].type \in DOMAIN Answers =>
              Answers[up[1].type] \in ReplyTypes
         /\ up[1].call \in Calls \cup {None} /\ up[1].room \in Rooms
         /\ up[1].call \in Calls => calls[up[1].call].verdict = "none"
         /\ outq = <<>> /\ server.phase = phase /\ server \in ServerRecords
         /\ calls \in [Calls -> CallRecords]
         /\ down \in Seq(FramesOf(DownTypes))
<1>1. /\ server.phase = phase /\ outq = <<>> /\ up # <<>>
      /\ Head(up).type \in ts
  BY DEF Serving
<1>2. (server.phase # "closed") = TRUE
  BY <1>1
<1>3. SoundOf(calls, queue, login, pending, invites, down, up, TRUE)
  BY <1>2, HereSound
<1>4. up \in Seq(FramesOf(UpTypes)) /\ calls \in [Calls -> CallRecords]
      /\ down \in Seq(FramesOf(DownTypes))
  BY <1>3, SoundParts
<1>5. Head(up) = up[1]
  BY <1>1, <1>4, FrameFront
<1>6. /\ up[1].type # "Ping" => up[1].call \in Calls
      /\ up[1].type \in DOMAIN Answers => Answers[up[1].type] \in ReplyTypes
  BY <1>1, <1>3, FrontAsks
<1>7. /\ up[1].call \in Calls \cup {None} /\ up[1].room \in Rooms
      /\ up[1].call \in Calls => calls[up[1].call].verdict = "none"
  BY <1>1, <1>3, FrontUnjudged
<1> QED BY <1>1, <1>3, <1>4, <1>5, <1>6, <1>7 DEF ClientInv, Hosted

JudgedAs(cs, c, v) == [cs EXCEPT ![c].verdict = v]

(* A verdict is entered for one call only.                                 *)
LEMMA JudgedAt ==
  ASSUME NEW cs \in [Calls -> CallRecords], NEW c \in Calls,
         NEW v \in {"granted", "refused"}, NEW cs2,
         cs2 = JudgedAs(cs, c, v)
  PROVE  JudgesAt(cs, cs2, c) /\ cs2[c].verdict = v
<1> DEFINE r == cs[c]
           s == [r EXCEPT !.verdict = v]
<1>1. r \in CallRecords /\ cs2 = [cs EXCEPT ![c] = s]
  BY DEF JudgedAs
<1> HIDE DEF r
<1>2. /\ s \in CallRecords /\ s.cmd = r.cmd /\ s.outcome = r.outcome
      /\ s.got = r.got /\ s.verdict = v
  BY <1>1 DEF CallRecords
<1> HIDE DEF s
<1>3. /\ cs2 \in [Calls -> CallRecords] /\ cs2[c] = s
      /\ \A d \in Calls : d # c => cs2[d] = cs[d]
  BY <1>1, <1>2
<1> QED BY <1>2, <1>3 DEF JudgesAt, r

(* No verdict at all is a verdict on at most one call.                     *)
LEMMA NotJudged ==
  ASSUME NEW cs \in [Calls -> CallRecords], NEW c
  PROVE  JudgesAt(cs, cs, c)
BY DEF JudgesAt

(* Frames appended one by one are the frames the server says.              *)
LEMMA DownFrames ==
  ASSUME NEW dn \in Seq(FramesOf(DownTypes)), NEW f \in FramesOf(DownTypes),
         NEW g \in FramesOf(DownTypes)
  PROVE  /\ dn \o <<f>> = Append(dn, f) /\ dn \o <<>> = dn
         /\ dn \o (<<f>> \o <<>>) = Append(dn, f)
         /\ dn \o (<<f>> \o <<g>>) = Append(Append(dn, f), g)
<1>1. dn \o <<f>> = Append(dn, f) /\ dn \o <<>> = dn
  OBVIOUS
<1>2. dn \o (<<f>> \o <<>>) = Append(dn, f)
  <2>1. <<f>> \o <<>> = <<f>>
    OBVIOUS
  <2> QED BY <1>1, <2>1
<1>3. dn \o (<<f>> \o <<g>>) = Append(Append(dn, f), g)
  OBVIOUS
<1> QED BY <1>1, <1>2, <1>3

(* A frame of a type of the server's is a frame down.                      *)
LEMMA FrameDown ==
  ASSUME NEW t \in DownTypes, NEW c \in Calls \cup {None}, NEW r \in Rooms
  PROVE  /\ Frame(t, c, r) \in FramesOf(DownTypes)
         /\ Frame(t, c, r).type = t /\ Frame(t, c, r).call = c
BY DEF Frame, FramesOf

(* A frame without a room is a frame down.                                 *)
LEMMA Plain ==
  ASSUME NEW c \in Calls \cup {None},
         NEW t \in {"Pong", "Error", "AuthChallenge", "AuthOk", "AuthFailed",
                    "Info", "Warning", "Disconnect", "ChatUserList"}
                      \cup ReplyTypes
  PROVE  /\ Frame(t, c, None) \in FramesOf(DownTypes)
         /\ Frame(t, c, None).type = t /\ Frame(t, c, None).call = c
<1>1. t \in DownTypes
  BY DEF DownTypes
<1> QED BY <1>1, FrameDown, RoomsAll

(* An event queued is a user list.                                         *)
LEMMA Events ==
  ASSUME Hosted, NEW c \in Rooms, Deliver(List(c))
  PROVE  outq' \in Seq(FramesOf({"ChatUserList"}))
<1>1. List(c) \in FramesOf({"ChatUserList"})
  BY DEF List, Frame, FramesOf
<1>2. outq \in Seq(FramesOf({"ChatUserList"}))
  BY DEF Hosted
<1> DEFINE e == List(c)
<1> HIDE DEF e
<1>3. outq' = Append(outq, e) \/ outq' = outq
  BY DEF Deliver, e
<1>4. e \in FramesOf({"ChatUserList"})
  BY <1>1 DEF e
<1> QED BY ONLY <1>2, <1>3, <1>4

(* The steps that leave the actor alone.                                   *)
LEMMA ServerStep ==
  ASSUME ClientInv, UNCHANGED client, NEW listens \in BOOLEAN,
         SoundOf(calls', queue, login, pending, invites, down', up', listens),
         server' \in ServerRecords, listens = (server'.phase # "closed"),
         outq' \in Seq(FramesOf({"ChatUserList"}))
  PROVE  ClientInv'
<1>1. UNCHANGED <<queue, actor, login, pending, invites, known>>
  BY DEF client
<1>2. Sound'
  BY <1>1 DEF Sound
<1>3. Hosted'
  BY <1>1 DEF ClientInv, Hosted
<1> QED BY <1>1, <1>2, <1>3 DEF ClientInv

(* The server answers a Ping with a Pong.                                  *)
LEMMA ServerPingKeeps ==
  ASSUME ClientInv, ServerPing
  PROVE  ClientInv'
<1> DEFINE ts == {"Ping"}
<1>1. PICK phase \in {"auth", "dispatch"} : Serving(phase, ts)
  BY DEF ServerPing
<1> DEFINE g == Frame("Pong", None, None)
<1>2. /\ up' = Tail(up) /\ down' = down \o <<g>>
      /\ UNCHANGED <<calls, client, server, outq>>
  BY DEF ServerPing, Took, Say, host
<1>3. /\ SoundOf(calls, queue, login, pending, invites, down, up, TRUE)
      /\ up # <<>> /\ up[1].type = "Ping" /\ server.phase = phase
      /\ server \in ServerRecords /\ calls \in [Calls -> CallRecords]
      /\ down \in Seq(FramesOf(DownTypes))
  <2>1. phase # "closed" /\ \A t \in ts : t = "Ping"
    OBVIOUS
  <2> HIDE DEF ts
  <2> QED BY <1>1, <2>1, Served
<1>4. g \in FramesOf(DownTypes) /\ g.type = "Pong"
  BY Plain
<1> HIDE DEF g
<1>5. down' = Append(down, g)
  BY <1>2, <1>3, <1>4, DownFrames
<1>6. JudgesAt(calls, calls, up[1].call) /\ Replies(calls, up[1], g)
  BY <1>3, <1>4, NotJudged DEF Replies
<1>7. SoundOf(calls, queue, login, pending, invites, Append(down, g),
              Tail(up), TRUE)
  BY <1>3, <1>4, <1>6, SoundReplied
<1>8. /\ TRUE = (server'.phase # "closed") /\ server' \in ServerRecords
      /\ outq' \in Seq(FramesOf({"ChatUserList"}))
  BY <1>2, <1>3 DEF ClientInv, Hosted
<1> QED BY <1>2, <1>5, <1>7, <1>8, ServerStep

(* A packet is refused.                                                    *)
LEMMA RefusedSound ==
  ASSUME ClientInv, NEW ts, Serving("dispatch", ts), Took,
         Refuse(up[1].call), up[1].type \in Packets \cup DOMAIN Answers
  PROVE  SoundOf(calls', queue, login, pending, invites, down', up', TRUE)
<1> DEFINE c == up[1].call
           g == Frame("Error", c, None)
<1>1. /\ SoundOf(calls, queue, login, pending, invites, down, up, TRUE)
      /\ up # <<>> /\ calls \in [Calls -> CallRecords]
      /\ down \in Seq(FramesOf(DownTypes))
      /\ up[1].type # "Ping" => c \in Calls
  BY Served
<1>2. c \in Calls
  BY <1>1, PacketsDistinct
<1>3. /\ up' = Tail(up) /\ down' = down \o <<g>>
      /\ calls' = JudgedAs(calls, c, "refused")
  BY DEF Took, Refuse, Say, Judge, JudgedAs
<1>4. g \in FramesOf(DownTypes) /\ g.type = "Error" /\ g.call = c
  BY <1>2, Plain
<1> HIDE DEF g
<1>5. down' = Append(down, g)
  BY <1>1, <1>3, <1>4, DownFrames
<1>6. JudgesAt(calls, calls', c) /\ calls'[c].verdict = "refused"
  BY <1>1, <1>2, <1>3, JudgedAt
<1>7. Replies(calls', up[1], g)
  BY <1>4, <1>6 DEF Replies
<1>8. SoundOf(calls', queue, login, pending, invites, Append(down, g),
              Tail(up), TRUE)
  BY <1>1, <1>4, <1>6, <1>7, SoundReplied
<1> QED BY <1>3, <1>5, <1>8

(* A quiet packet granted, whatever is said besides.                       *)
LEMMA GrantedSound ==
  ASSUME ClientInv, NEW ts, Serving("dispatch", ts), Took,
         Judge(up[1].call, "granted"), up[1].type \in Packets
  PROVE  /\ SoundOf(calls', queue, login, pending, invites, down, up', TRUE)
         /\ up[1].call \in Calls
<1> DEFINE c == up[1].call
<1>1. /\ SoundOf(calls, queue, login, pending, invites, down, up, TRUE)
      /\ up # <<>> /\ calls \in [Calls -> CallRecords]
      /\ up[1].type # "Ping" => c \in Calls
  BY Served
<1>2. c \in Calls
  BY <1>1, PacketsDistinct
<1>3. /\ up' = Tail(up) /\ calls' = JudgedAs(calls, c, "granted")
  BY DEF Took, Judge, JudgedAs
<1>4. JudgesAt(calls, calls', c) /\ calls'[c].verdict = "granted"
  BY <1>1, <1>2, <1>3, JudgedAt
<1>5. SoundOf(calls', queue, login, pending, invites, down, Tail(up), TRUE)
  BY <1>1, <1>4, SoundGranted
<1> QED BY <1>2, <1>3, <1>5

(* With a notice, or without.                                              *)
LEMMA NoticedSound ==
  ASSUME NEW cs, NEW qu, NEW lg, NEW pd, NEW iv, NEW dn, NEW u, NEW listens,
         SoundOf(cs, qu, lg, pd, iv, dn, u, listens),
         NEW c \in Calls \cup {None}, NEW r \in Rooms,
         NEW t \in {"Info", "Warning", "Disconnect", "ChatUserList"}
  PROVE  SoundOf(cs, qu, lg, pd, iv, dn \o <<Frame(t, c, r)>>, u, listens)
<1> DEFINE g == Frame(t, c, r)
<1>1. g \in FramesOf(DownTypes) /\ g.type = t
  <2>1. t \in DownTypes
    BY DEF DownTypes
  <2> QED BY <2>1, FrameDown
<1> HIDE DEF g
<1>2. ~Turned(g) /\ g.type \notin AuthDown
  BY <1>1, Aside DEF Notices, AuthDown
<1>3. SoundOf(cs, qu, lg, pd, iv, Append(dn, g), u, listens)
  BY <1>1, <1>2, SoundSays
<1>4. dn \o <<g>> = Append(dn, g)
  <2>1. dn \in Seq(FramesOf(DownTypes))
    BY SoundParts
  <2> QED BY <1>1, <2>1, DownFrames
<1> QED BY <1>3, <1>4 DEF g

(* A step of the dispatcher that leaves the server's record alone.         *)
LEMMA DispatchStep ==
  ASSUME ClientInv, NEW ts, Serving("dispatch", ts), UNCHANGED client,
         server' = server, outq' \in Seq(FramesOf({"ChatUserList"})),
         SoundOf(calls', queue, login, pending, invites, down', up', TRUE)
  PROVE  ClientInv'
<1>1. /\ server' \in ServerRecords /\ TRUE = (server'.phase # "closed")
      /\ TRUE \in BOOLEAN
  <2>1. server \in ServerRecords
    BY DEF ClientInv, Hosted
  <2> QED BY <2>1 DEF Serving
<1> QED BY <1>1, ServerStep

(* A request is answered with its reply or an Error.                       *)
LEMMA ServerAnswerKeeps ==
  ASSUME ClientInv, ServerAnswer
  PROVE  ClientInv'
<1> DEFINE ts == DOMAIN Answers
           c == up[1].call
           g == Frame(Answers[up[1].type], c, None)
<1>1. /\ Serving("dispatch", ts) /\ Took
      /\ UNCHANGED <<client, server, outq>>
  BY DEF ServerAnswer, host
<1>2. /\ SoundOf(calls, queue, login, pending, invites, down, up, TRUE)
      /\ up # <<>> /\ Head(up) = up[1] /\ up[1].type \in ts
      /\ Answers[up[1].type] \in ReplyTypes
      /\ up[1].type # "Ping" => c \in Calls
      /\ calls \in [Calls -> CallRecords]
      /\ down \in Seq(FramesOf(DownTypes))
  BY <1>1, Served
<1>3. c \in Calls
  BY <1>2, PacketsDistinct
<1>5. ASSUME Refuse(c)
      PROVE  SoundOf(calls', queue, login, pending, invites, down', up', TRUE)
  BY <1>1, <1>2, <1>5, RefusedSound
<1>6. ASSUME Say(<<g>>), Judge(c, "granted")
      PROVE  SoundOf(calls', queue, login, pending, invites, down', up', TRUE)
  <2>1. /\ up' = Tail(up) /\ down' = down \o <<g>>
        /\ calls' = JudgedAs(calls, c, "granted")
    BY <1>1, <1>6 DEF Took, Say, Judge, JudgedAs
  <2>2. g \in FramesOf(DownTypes) /\ g.type = Answers[up[1].type] /\ g.call = c
    <3> DEFINE t == Answers[up[1].type]
    <3>1. t \in ReplyTypes
      BY <1>2
    <3> HIDE DEF t
    <3>2. /\ Frame(t, c, None) \in FramesOf(DownTypes)
          /\ Frame(t, c, None).type = t /\ Frame(t, c, None).call = c
      BY <1>3, <3>1, Plain
    <3> QED BY <3>2 DEF t
  <2> HIDE DEF g
  <2>3. down' = Append(down, g)
    BY <1>2, <2>1, <2>2, DownFrames
  <2>4. JudgesAt(calls, calls', c) /\ calls'[c].verdict = "granted"
    <3>1. /\ calls \in [Calls -> CallRecords]
          /\ calls' = JudgedAs(calls, c, "granted")
      BY <1>2, <2>1
    <3> HIDE DEF c
    <3> QED BY ONLY <1>3, <3>1, JudgedAt
  <2>5. Replies(calls', up[1], g)
    BY <1>2, <2>2, <2>4 DEF Replies
  <2>6. SoundOf(calls', queue, login, pending, invites, Append(down, g),
                Tail(up), TRUE)
    BY <1>2, <2>2, <2>4, <2>5, SoundReplied
  <2> QED BY <2>1, <2>3, <2>6
<1>7. outq' \in Seq(FramesOf({"ChatUserList"}))
  BY <1>1 DEF ClientInv, Hosted
<1>8. SoundOf(calls', queue, login, pending, invites, down', up', TRUE)
  BY <1>2, <1>5, <1>6 DEF ServerAnswer
<1> QED BY <1>1, <1>7, <1>8, DispatchStep

(* A packet without a reply is granted or refused.                         *)
LEMMA ServerQuietKeeps ==
  ASSUME ClientInv, ServerQuiet
  PROVE  ClientInv'
<1> DEFINE ts == DOMAIN QuietAnswers
           c == up[1].call
<1>1. /\ Serving("dispatch", ts) /\ Took
      /\ UNCHANGED <<client, server, outq>>
  BY DEF ServerQuiet, host
<1>2. /\ Head(up) = up[1] /\ up[1].type \in ts
      /\ down \in Seq(FramesOf(DownTypes))
  BY <1>1, Served
<1>3. up[1].type \in Packets
  BY <1>2 DEF Packets
<1>4. ASSUME Refuse(c)
      PROVE  SoundOf(calls', queue, login, pending, invites, down', up', TRUE)
  BY <1>1, <1>3, <1>4, RefusedSound
<1>5. ASSUME NEW n \in QuietAnswers[up[1].type], Judge(c, "granted"),
             Say(IF n = "none" THEN <<>> ELSE <<Frame(n, c, None)>>)
      PROVE  SoundOf(calls', queue, login, pending, invites, down', up', TRUE)
  <2>1. /\ SoundOf(calls', queue, login, pending, invites, down, up', TRUE)
        /\ c \in Calls
    BY <1>1, <1>3, <1>5, GrantedSound
  <2>2. CASE n = "none"
    <3>1. down' = down \o <<>>
      BY <1>5, <2>2 DEF Say
    <3>2. down' = down
      BY <1>2, <3>1
    <3> QED BY <2>1, <3>2
  <2>3. CASE n # "none"
    <3>1. n \in {"Info", "Warning"}
      BY <1>2, <1>5, <2>3, QuietTables
    <3>2. down' = down \o <<Frame(n, c, None)>>
      BY <1>5, <2>3 DEF Say
    <3>3. SoundOf(calls', queue, login, pending, invites,
                  down \o <<Frame(n, c, None)>>, up', TRUE)
      BY <2>1, <3>1, RoomsAll, NoticedSound
    <3> QED BY <3>2, <3>3
  <2> QED BY <2>2, <2>3
<1>6. outq' \in Seq(FramesOf({"ChatUserList"}))
  BY <1>1 DEF ClientInv, Hosted
<1>7. SoundOf(calls', queue, login, pending, invites, down', up', TRUE)
  BY <1>2, <1>4, <1>5 DEF ServerQuiet
<1> QED BY <1>1, <1>6, <1>7, DispatchStep

(* ChatJoin at the server.                                                 *)
LEMMA ServerJoinKeeps ==
  ASSUME ClientInv, ServerJoin
  PROVE  ClientInv'
<1> DEFINE ts == {"ChatJoin"}
           c == up[1].call
<1>1. Serving("dispatch", ts) /\ Took /\ UNCHANGED <<client, server>>
  BY DEF ServerJoin
<1>2. /\ Head(up) = up[1] /\ up[1].type = "ChatJoin" /\ up[1].room \in Rooms
  <2>1. \A t \in ts : t = "ChatJoin"
    OBVIOUS
  <2> HIDE DEF ts
  <2> QED BY <1>1, <2>1, Served
<1>3. up[1].type \in Packets /\ Hosted
  BY <1>2 DEF Packets, ClientInv
<1>4. CASE Refuse(c) /\ outq' = outq
  <2>1. SoundOf(calls', queue, login, pending, invites, down', up', TRUE)
    BY <1>1, <1>3, <1>4, RefusedSound
  <2>2. outq' \in Seq(FramesOf({"ChatUserList"}))
    BY <1>3, <1>4 DEF Hosted
  <2> QED BY <1>1, <2>1, <2>2, DispatchStep
<1>5. CASE Deliver(List(up[1].room)) /\ Judge(c, "granted") /\ down' = down
  <2>1. SoundOf(calls', queue, login, pending, invites, down', up', TRUE)
    BY <1>1, <1>3, <1>5, GrantedSound
  <2>2. outq' \in Seq(FramesOf({"ChatUserList"}))
    BY <1>2, <1>3, <1>5, Events
  <2> QED BY <1>1, <2>1, <2>2, DispatchStep
<1> QED BY <1>2, <1>4, <1>5 DEF ServerJoin

(* ChatLeave at the server.                                                *)
LEMMA ServerLeaveKeeps ==
  ASSUME ClientInv, ServerLeave
  PROVE  ClientInv'
<1> DEFINE ts == {"ChatLeave"}
<1>1. Serving("dispatch", ts) /\ Took
      /\ UNCHANGED <<client, server, outq, down>>
  BY DEF ServerLeave
<1>2. Head(up) = up[1] /\ up[1].type = "ChatLeave"
  <2>1. \A t \in ts : t = "ChatLeave"
    OBVIOUS
  <2> HIDE DEF ts
  <2> QED BY <1>1, <2>1, Served
<1>3. up[1].type \in Packets /\ Judge(up[1].call, "granted")
  BY <1>2 DEF Packets, ServerLeave
<1>4. SoundOf(calls', queue, login, pending, invites, down', up', TRUE)
  BY <1>1, <1>3, GrantedSound
<1>5. outq' \in Seq(FramesOf({"ChatUserList"}))
  BY <1>1 DEF ClientInv, Hosted
<1> QED BY <1>1, <1>4, <1>5, DispatchStep

(* ChatInvite at the server.                                               *)
LEMMA ServerInviteKeeps ==
  ASSUME ClientInv, ServerInvite
  PROVE  ClientInv'
<1> DEFINE ts == {"ChatInvite"}
           c == up[1].call
<1>1. Serving("dispatch", ts) /\ Took /\ UNCHANGED <<client, server>>
  BY DEF ServerInvite
<1>2. /\ Head(up) = up[1] /\ up[1].type = "ChatInvite"
      /\ up[1].type # "Ping" => c \in Calls
  <2>1. \A t \in ts : t = "ChatInvite"
    OBVIOUS
  <2> HIDE DEF ts
  <2> QED BY <1>1, <2>1, Served
<1>3. /\ up[1].type \in Packets /\ Hosted /\ c \in Rooms /\ c \in Calls
  BY <1>2, RoomsAll DEF Packets, ClientInv
<1>4. outq' = outq \/ Deliver(List(c))
  BY <1>2 DEF ServerInvite
<1>5. outq' \in Seq(FramesOf({"ChatUserList"}))
  <2>1. CASE outq' = outq
    BY <1>3, <2>1 DEF Hosted
  <2>2. CASE Deliver(List(c))
    BY <1>3, <2>2, Events
  <2> QED BY <1>4, <2>1, <2>2
<1>6. CASE Refuse(c)
  <2>1. SoundOf(calls', queue, login, pending, invites, down', up', TRUE)
    BY <1>1, <1>3, <1>6, RefusedSound
  <2> QED BY <1>1, <1>5, <2>1, DispatchStep
<1>7. CASE Say(<<Frame("Info", c, None)>>) /\ Judge(c, "granted")
  <2>1. SoundOf(calls', queue, login, pending, invites, down, up', TRUE)
    BY <1>1, <1>3, <1>7, GrantedSound
  <2>2. SoundOf(calls', queue, login, pending, invites,
                down \o <<Frame("Info", c, None)>>, up', TRUE)
    BY <1>3, <2>1, RoomsAll, NoticedSound
  <2>3. down' = down \o <<Frame("Info", c, None)>>
    BY <1>7 DEF Say
  <2> QED BY <1>1, <1>5, <2>2, <2>3, DispatchStep
<1> QED BY <1>2, <1>6, <1>7 DEF ServerInvite

(* A failed login: the server closes the connection, or waits on.          *)
LEMMA SoundUnheard ==
  ASSUME NEW cs, NEW qu, NEW lg, NEW pd, NEW iv, NEW dn, NEW u,
         NEW listens \in BOOLEAN,
         SoundOf(cs, qu, lg, pd, iv, dn, u, TRUE)
  PROVE  SoundOf(cs, qu, lg, pd, iv, dn, u, listens)
<1>1. LedgerOf(cs, pd, dn, u, FALSE)
  BY LedgerDeaf DEF SoundOf
<1>2. LedgerOf(cs, pd, dn, u, TRUE)
  BY DEF SoundOf
<1>3. LedgerOf(cs, pd, dn, u, listens)
  BY <1>1, <1>2
<1> QED BY <1>3 DEF SoundOf

(* A step of the login phases that leaves the client alone.                *)
LEMMA LoginStep ==
  ASSUME ClientInv, NEW phase, NEW ts, Serving(phase, ts), UNCHANGED client,
         server' \in ServerRecords, outq' = outq,
         SoundOf(calls', queue, login, pending, invites, down', up', TRUE)
  PROVE  ClientInv'
<1> DEFINE listens == server'.phase # "closed"
<1>1. listens \in BOOLEAN /\ listens = (server'.phase # "closed")
  OBVIOUS
<1> HIDE DEF listens
<1>2. SoundOf(calls', queue, login, pending, invites, down', up', listens)
  BY <1>1, SoundUnheard
<1>3. outq' \in Seq(FramesOf({"ChatUserList"}))
  BY DEF ClientInv, Hosted
<1> QED BY <1>1, <1>2, <1>3, ServerStep

(* What becomes of the server's own record.                                *)
LEMMA ServerRecordsMake ==
  ASSUME NEW w \in ServerRecords, NEW n \in Nat
  PROVE  /\ [w EXCEPT !.phase = "closed"] \in ServerRecords
         /\ [w EXCEPT !.phase = "closed"].phase = "closed"
         /\ [w EXCEPT !.phase = "auth", !.failures = n] \in ServerRecords
         /\ w.failures + 1 \in Nat
<1>1. [w EXCEPT !.phase = "closed"] \in ServerRecords
  BY DEF ServerRecords
<1>2. [w EXCEPT !.phase = "closed"].phase = "closed"
  BY DEF ServerRecords
<1>3. [w EXCEPT !.phase = "auth", !.failures = n] \in ServerRecords
  BY DEF ServerRecords
<1>4. w.failures + 1 \in Nat
  BY DEF ServerRecords
<1> QED BY <1>1, <1>2, <1>3, <1>4

(* AuthFailed goes down; the server closes the connection, or waits on.    *)
LEMMA LoginFailed ==
  ASSUME ClientInv, NEW phase \in {"auth", "challenged"}, NEW ts,
         Serving(phase, ts), Took, UNCHANGED <<client, outq>>,
         AuthFailure(up[1].call), up[1].type \in AuthUp
  PROVE  ClientInv'
<1> DEFINE c == up[1].call
           g == Frame("AuthFailed", c, None)
<1>1. /\ SoundOf(calls, queue, login, pending, invites, down, up, TRUE)
      /\ up # <<>> /\ calls \in [Calls -> CallRecords]
      /\ server \in ServerRecords /\ down \in Seq(FramesOf(DownTypes))
      /\ up[1].type # "Ping" => c \in Calls
  <2>1. phase # "closed"
    OBVIOUS
  <2> QED BY <2>1, Served
<1>2. c \in Calls
  BY <1>1 DEF AuthUp
<1>3. /\ up' = Tail(up) /\ down' = down \o <<g>>
      /\ calls' = JudgedAs(calls, c, "refused")
  BY DEF Took, AuthFailure, Say, Judge, JudgedAs
<1>4. g \in FramesOf(DownTypes) /\ g.type = "AuthFailed" /\ g.call = c
  BY <1>2, Plain
<1>5. JudgesAt(calls, calls', c)
  BY <1>1, <1>2, <1>3, JudgedAt
<1> HIDE DEF g
<1>6. down' = Append(down, g)
  BY <1>1, <1>3, <1>4, DownFrames
<1>7. LoginReplies(calls', up[1], g)
  BY <1>4 DEF LoginReplies
<1>8. SoundOf(calls', queue, login, pending, invites, Append(down, g),
              Tail(up), TRUE)
  BY <1>1, <1>4, <1>5, <1>7, SoundLoginReplied
<1>9. server' \in ServerRecords
  <2> DEFINE n == server.failures + 1
             s == [server EXCEPT !.phase = "auth", !.failures = n]
  <2>1. n \in Nat
    <3>1. 0 \in Nat
      OBVIOUS
    <3> HIDE DEF n
    <3> QED BY <1>1, <3>1, ServerRecordsMake DEF n
  <2>2. server' = s \/ server' = [s EXCEPT !.phase = "closed"]
    BY DEF AuthFailure
  <2> HIDE DEF n
  <2>3. s \in ServerRecords
    BY <1>1, <2>1, ServerRecordsMake
  <2> HIDE DEF s
  <2> QED BY <2>1, <2>2, <2>3, ServerRecordsMake
<1>10. SoundOf(calls', queue, login, pending, invites, down', up', TRUE)
  BY <1>3, <1>6, <1>8
<1>11. outq' = outq
  OBVIOUS
<1> QED BY <1>9, <1>10, <1>11, LoginStep

(* AuthRequest at the server.                                              *)
LEMMA ServerAuthRequestKeeps ==
  ASSUME ClientInv, ServerAuthRequest
  PROVE  ClientInv'
<1> DEFINE ts == {"AuthRequest"}
           c == up[1].call
           g == Frame("AuthChallenge", c, None)
<1>1. /\ Serving("auth", ts) /\ Took /\ UNCHANGED <<client, outq>>
  BY DEF ServerAuthRequest
<1>2. /\ SoundOf(calls, queue, login, pending, invites, down, up, TRUE)
      /\ up # <<>> /\ calls \in [Calls -> CallRecords]
      /\ server \in ServerRecords /\ down \in Seq(FramesOf(DownTypes))
      /\ up[1].type # "Ping" => c \in Calls
      /\ c \in Calls => calls[c].verdict = "none"
      /\ Head(up) = up[1] /\ up[1].type = "AuthRequest"
  <2>1. \A t \in ts : t = "AuthRequest"
    OBVIOUS
  <2> HIDE DEF ts
  <2> QED BY <1>1, <2>1, Served
<1>3. c \in Calls /\ calls[c].verdict = "none" /\ up[1].type \in AuthUp
  BY <1>2 DEF AuthUp
<1>4. ASSUME AuthFailure(c)
      PROVE  ClientInv'
  <2>1. "auth" \in {"auth", "challenged"}
    OBVIOUS
  <2> HIDE DEF ts
  <2> QED BY <1>1, <1>3, <1>4, <2>1, LoginFailed
<1>5. ASSUME Say(<<g>>), server' = [server EXCEPT !.phase = "challenged"],
             UNCHANGED calls
      PROVE  ClientInv'
  <2>1. up' = Tail(up) /\ down' = down \o <<g>>
    BY <1>1, <1>5 DEF Took, Say
  <2>2. g \in FramesOf(DownTypes) /\ g.type = "AuthChallenge" /\ g.call = c
    BY <1>3, Plain
  <2> HIDE DEF g
  <2>3. down' = Append(down, g)
    BY <1>2, <2>1, <2>2, DownFrames
  <2>4. JudgesAt(calls, calls, c) /\ LoginReplies(calls, up[1], g)
    BY <1>2, <1>3, <2>2, NotJudged DEF LoginReplies
  <2>5. SoundOf(calls, queue, login, pending, invites, Append(down, g),
                Tail(up), TRUE)
    BY <1>2, <2>2, <2>4, SoundLoginReplied
  <2>6. server' \in ServerRecords
    BY <1>2, <1>5 DEF ServerRecords
  <2>7. SoundOf(calls', queue, login, pending, invites, down', up', TRUE)
    BY <1>5, <2>1, <2>3, <2>5
  <2> QED BY <1>1, <2>6, <2>7, LoginStep
<1> QED BY <1>2, <1>4, <1>5 DEF ServerAuthRequest

(* AuthResponse at the server.                                             *)
LEMMA ServerAuthResponseKeeps ==
  ASSUME ClientInv, ServerAuthResponse
  PROVE  ClientInv'
<1> DEFINE ts == {"AuthResponse"}
           c == up[1].call
           g == Frame("AuthOk", c, None)
           h == Frame("Info", c, None)
<1>1. /\ Serving("challenged", ts) /\ Took /\ UNCHANGED <<client, outq>>
  BY DEF ServerAuthResponse
<1>2. /\ SoundOf(calls, queue, login, pending, invites, down, up, TRUE)
      /\ up # <<>> /\ calls \in [Calls -> CallRecords]
      /\ server \in ServerRecords /\ down \in Seq(FramesOf(DownTypes))
      /\ up[1].type # "Ping" => c \in Calls
      /\ Head(up) = up[1] /\ up[1].type = "AuthResponse"
  <2>1. \A t \in ts : t = "AuthResponse"
    OBVIOUS
  <2> HIDE DEF ts
  <2> QED BY <1>1, <2>1, Served
<1>3. c \in Calls /\ up[1].type \in AuthUp
  BY <1>2 DEF AuthUp
<1>4. ASSUME AuthFailure(c)
      PROVE  ClientInv'
  <2>1. "challenged" \in {"auth", "challenged"}
    OBVIOUS
  <2> HIDE DEF ts
  <2> QED BY <1>1, <1>3, <1>4, <2>1, LoginFailed
<1>5. ASSUME NEW greeting \in {<<>>, <<h>>}, Say(<<g>> \o greeting),
             Judge(c, "granted"),
             server' = [server EXCEPT !.phase = "dispatch"]
      PROVE  ClientInv'
  <2>1. /\ up' = Tail(up) /\ down' = down \o (<<g>> \o greeting)
        /\ calls' = JudgedAs(calls, c, "granted")
    BY <1>1, <1>5 DEF Took, Say, Judge, JudgedAs
  <2>2. /\ g \in FramesOf(DownTypes) /\ g.type = "AuthOk" /\ g.call = c
        /\ h \in FramesOf(DownTypes) /\ h.type = "Info"
    BY <1>3, Plain
  <2>3. JudgesAt(calls, calls', c) /\ calls'[c].verdict = "granted"
    <3>1. /\ calls \in [Calls -> CallRecords] /\ c \in Calls
          /\ calls' = JudgedAs(calls, c, "granted")
      BY <1>2, <1>3, <2>1
    <3> HIDE DEF c
    <3> QED BY ONLY <3>1, JudgedAt
  <2> HIDE DEF g, h
  <2>4. down' = Append(down, g) \/ down' = Append(Append(down, g), h)
    <3>1. CASE greeting = <<>>
      BY <1>2, <2>1, <2>2, <3>1, DownFrames
    <3>2. CASE greeting = <<h>>
      BY <1>2, <2>1, <2>2, <3>2, DownFrames
    <3> QED BY <1>5, <3>1, <3>2 DEF h
  <2>5. LoginReplies(calls', up[1], g)
    BY <1>2, <1>3, <2>2, <2>3 DEF LoginReplies
  <2>6. SoundOf(calls', queue, login, pending, invites, Append(down, g),
                Tail(up), TRUE)
    BY <1>2, <2>2, <2>3, <2>5, SoundLoginReplied
  <2>7. SoundOf(calls', queue, login, pending, invites,
                Append(Append(down, g), h), Tail(up), TRUE)
    <3>1. ~Turned(h) /\ h.type \notin AuthDown
      BY <2>2, Aside DEF Notices, AuthDown
    <3> QED BY <2>2, <2>6, <3>1, SoundSays
  <2>8. server' \in ServerRecords
    BY <1>2, <1>5 DEF ServerRecords
  <2>9. SoundOf(calls', queue, login, pending, invites, down', up', TRUE)
    BY <2>1, <2>4, <2>6, <2>7
  <2> QED BY <1>1, <2>8, <2>9, LoginStep
<1> QED BY <1>2, <1>4, <1>5 DEF ServerAuthResponse

(* The server goes away.                                                   *)
LEMMA ClosedStep ==
  ASSUME ClientInv, UNCHANGED client, server' = Closed, up' = <<>>,
         outq' \in {outq, <<>>},
         SoundOf(calls', queue, login, pending, invites, down', <<>>, FALSE)
  PROVE  ClientInv'
<1>1. server' \in ServerRecords /\ FALSE = (server'.phase # "closed")
  <2>1. server \in ServerRecords
    BY DEF ClientInv, Hosted
  <2> DEFINE w == server
  <2>2. w \in ServerRecords /\ server' = [w EXCEPT !.phase = "closed"]
    BY <2>1 DEF Closed
  <2>3. 0 \in Nat
    OBVIOUS
  <2> HIDE DEF w
  <2>4. server' \in ServerRecords
    BY ONLY <2>2, <2>3, ServerRecordsMake
  <2>5. server'.phase = "closed"
    BY ONLY <2>2, <2>3, ServerRecordsMake
  <2> QED BY ONLY <2>4, <2>5
<1>2. outq' \in Seq(FramesOf({"ChatUserList"}))
  <2> DEFINE S == FramesOf({"ChatUserList"})
  <2>1. outq \in Seq(S)
    BY DEF ClientInv, Hosted
  <2> HIDE DEF S
  <2>2. <<>> \in Seq(S)
    OBVIOUS
  <2> QED BY <2>1, <2>2 DEF S
<1>3. SoundOf(calls', queue, login, pending, invites, down', up', FALSE)
  <2>1. up' = <<>>
    OBVIOUS
  <2>2. SoundOf(calls', queue, login, pending, invites, down', <<>>, FALSE)
    OBVIOUS
  <2> QED BY <2>1, <2>2
<1> DEFINE listens == FALSE
<1>4. /\ listens \in BOOLEAN /\ listens = (server'.phase # "closed")
      /\ SoundOf(calls', queue, login, pending, invites, down', up', listens)
  BY <1>1, <1>3
<1> HIDE DEF listens
<1> QED BY <1>1, <1>2, <1>4, ServerStep

(* A packet the phase does not allow ends the connection.                  *)
LEMMA ServerUnexpectedKeeps ==
  ASSUME ClientInv, ServerUnexpected
  PROVE  ClientInv'
<1>1. /\ server' = Closed /\ up' = <<>>
      /\ UNCHANGED <<calls, client, down, outq>>
  BY DEF ServerUnexpected
<1>2. SoundOf(calls, queue, login, pending, invites, down, <<>>, FALSE)
  BY HereSound, SoundDeaf
<1> QED BY <1>1, <1>2, ClosedStep

(* The server closes the connection.                                       *)
LEMMA ServerCloseKeeps ==
  ASSUME ClientInv, ServerClose
  PROVE  ClientInv'
<1> DEFINE g == Frame("Disconnect", None, None)
<1>1. /\ server' = Closed /\ up' = <<>> /\ outq' = <<>>
      /\ UNCHANGED <<calls, client>>
      /\ down' = down \o <<>> \/ down' = down \o <<g>>
  BY DEF ServerClose, Say
<1>2. /\ SoundOf(calls, queue, login, pending, invites, down, <<>>, FALSE)
      /\ down \in Seq(FramesOf(DownTypes))
  BY HereSound, SoundDeaf, SoundParts
<1>3. SoundOf(calls, queue, login, pending, invites, down \o <<g>>, <<>>,
              FALSE)
  BY <1>2, RoomsAll, NoticedSound
<1>4. down \o <<>> = down
  BY <1>2
<1>5. SoundOf(calls', queue, login, pending, invites, down', <<>>, FALSE)
  BY <1>1, <1>2, <1>3, <1>4
<1> QED BY <1>1, <1>5, ClosedStep

(* A queued event goes down.                                               *)
LEMMA ServerEventKeeps ==
  ASSUME ClientInv, ServerEvent
  PROVE  ClientInv'
<1> DEFINE g == Head(outq)
           listens == server.phase # "closed"
<1>1. /\ outq # <<>> /\ down' = down \o <<g>> /\ outq' = Tail(outq)
      /\ UNCHANGED <<calls, client, up, server>>
  BY DEF ServerEvent, Say
<1>2. outq \in Seq(FramesOf({"ChatUserList"})) /\ server \in ServerRecords
  BY DEF ClientInv, Hosted
<1>3. /\ g \in FramesOf({"ChatUserList"})
      /\ outq' \in Seq(FramesOf({"ChatUserList"}))
  BY <1>1, <1>2, FrameFront
<1>4. /\ g = Frame("ChatUserList", g.call, g.room)
      /\ g.call \in Calls \cup {None} /\ g.room \in Rooms
  BY <1>3 DEF FramesOf, Frame
<1> HIDE DEF g, listens
<1>5. SoundOf(calls, queue, login, pending, invites, down, up, listens)
  BY HereSound DEF listens
<1>6. SoundOf(calls, queue, login, pending, invites, down \o <<g>>, up,
              listens)
  <2> DEFINE c == g.call
             r == g.room
  <2>1. g = Frame("ChatUserList", c, r) /\ c \in Calls \cup {None}
        /\ r \in Rooms
    BY <1>4
  <2> HIDE DEF c, r
  <2>2. SoundOf(calls, queue, login, pending, invites,
                down \o <<Frame("ChatUserList", c, r)>>, up, listens)
    BY <1>5, <2>1, NoticedSound
  <2> QED BY <2>1, <2>2
<1>7. /\ listens = (server'.phase # "closed") /\ listens \in BOOLEAN
      /\ server' \in ServerRecords
  BY <1>1, <1>2 DEF listens
<1>8. SoundOf(calls', queue, login, pending, invites, down', up', listens)
  BY <1>1, <1>6
<1> QED BY <1>1, <1>3, <1>7, <1>8, ServerStep

(* The server stalls.                                                      *)
LEMMA ServerStallKeeps ==
  ASSUME ClientInv, ServerStall
  PROVE  ClientInv'
<1>1. /\ server' = [server EXCEPT !.stalled = TRUE]
      /\ UNCHANGED <<calls, client, up, down, outq>>
  BY DEF ServerStall, link
<1>2. /\ server \in ServerRecords
      /\ outq' \in Seq(FramesOf({"ChatUserList"}))
  BY <1>1 DEF ClientInv, Hosted
<1>3. server' \in ServerRecords /\ server'.phase = server.phase
  BY <1>1, <1>2 DEF ServerRecords
<1> DEFINE listens == server.phase # "closed"
<1>4. /\ listens = (server'.phase # "closed") /\ listens \in BOOLEAN
  BY <1>3
<1>5. SoundOf(calls', queue, login, pending, invites, down', up', listens)
  BY <1>1, HereSound
<1> QED BY <1>1, <1>2, <1>3, <1>4, <1>5, ServerStep

(* Another member of a room makes the server queue an event.               *)
LEMMA OtherMemberKeeps ==
  ASSUME ClientInv, NEW r \in ChatRooms, OtherMember(r)
  PROVE  ClientInv'
<1>1. /\ Deliver(List(r)) /\ UNCHANGED <<calls, client, up, down, server>>
  BY DEF OtherMember, link
<1>2. outq' \in Seq(FramesOf({"ChatUserList"}))
  BY <1>1, RoomsAll, Events DEF ClientInv
<1> DEFINE listens == server.phase # "closed"
<1>3. /\ listens = (server'.phase # "closed") /\ listens \in BOOLEAN
      /\ server' \in ServerRecords
  BY <1>1 DEF ClientInv, Hosted
<1>4. SoundOf(calls', queue, login, pending, invites, down', up', listens)
  BY <1>1, HereSound
<1> QED BY <1>1, <1>2, <1>3, <1>4, ServerStep

---------------------------------------------------------------------------
(* Every command taken off the queue.                                      *)
LEMMA TakeKeeps ==
  ASSUME ClientInv, NEW c \in Calls, Take(c)
  PROVE  ClientInv'
BY TakeLoginKeeps, TakeRequestKeeps, TakeQuietKeeps, TakeLeaveKeeps,
   TakeJoinKeeps, TakeInviteKeeps, TakeFailsKeeps DEF Take

(* Every frame the client handles.                                         *)
LEMMA HandleFrameKeeps ==
  ASSUME ClientInv, HandleFrame
  PROVE  ClientInv'
BY OnReplyKeeps, OnPongKeeps, OnErrorKeeps, OnUserListKeeps,
   OnAuthChallengeKeeps, OnAuthResultKeeps, OnNoticeKeeps DEF HandleFrame

(* Every packet the server serves.                                         *)
LEMMA ServeKeeps ==
  ASSUME ClientInv, Serve
  PROVE  ClientInv'
BY ServerPingKeeps, ServerAuthRequestKeeps, ServerAuthResponseKeeps,
   ServerUnexpectedKeeps, ServerAnswerKeeps, ServerQuietKeeps,
   ServerJoinKeeps, ServerLeaveKeeps, ServerInviteKeeps, ServerEventKeeps
   DEF Serve

(* Every step keeps the invariant.                                         *)
LEMMA NextKeeps == ClientInv /\ [Next]_vars => ClientInv'
<1> SUFFICES ASSUME ClientInv, [Next]_vars
             PROVE  ClientInv'
  OBVIOUS
<1>1. CASE UNCHANGED vars
  BY <1>1, StutterKeeps DEF vars, client, link, host
<1>2. CASE Disconnect
  BY <1>2, StutterKeeps DEF Disconnect, link, host
<1>3. CASE \E c \in Calls : \E k \in NextCommands(c) :
              \E r \in RoomArguments(k) : Invoke(c, k, r)
  BY <1>3, InvokeKeeps
<1>4. CASE \E c \in Calls : GiveUp(c) \/ Take(c) \/ TakeRejected(c)
  BY <1>4, GiveUpKeeps, TakeKeeps, TakeRejectedKeeps
<1>5. CASE KeepAlive \/ KeepAliveFails \/ Stop \/ HandleFrame
  BY <1>5, KeepAliveKeeps, StopKeeps, HandleFrameKeeps
<1>6. CASE Serve \/ ServerClose \/ ServerStall
  BY <1>6, ServeKeeps, ServerCloseKeeps, ServerStallKeeps
<1>7. CASE \E r \in ChatRooms : OtherMember(r)
  BY <1>7, OtherMemberKeeps
<1> QED BY <1>1, <1>2, <1>3, <1>4, <1>5, <1>6, <1>7 DEF Next

(* The invariant of the connection: what either side has sent settles, in  *)
(* its order, what the other waits for (push_pending, take_reply, on_pong, *)
(* on_error; dispatch_inner).                                              *)
THEOREM AnswersPair == Spec => []ClientInv
BY InitHolds, NextKeeps, PTL DEF Spec

(* Whatever is called, in whatever order and with whatever else on the     *)
(* link, a caller is told the server's answer to its own call: never the   *)
(* result of another, never another's Error (take_reply, on_error).        *)
THEOREM NobodyElsesAnswer == Spec => []AnswersOwn
<1>1. ClientInv => AnswersOwn
  BY SoundParts DEF ClientInv, Sound, AnswersOf, AnswersOwn
<1> QED BY <1>1, AnswersPair, PTL

(* The client never drops this server for a protocol violation.            *)
THEOREM NeverAViolation == Spec => []NoViolation
<1>1. ClientInv => NoViolation
  BY DEF ClientInv, NoViolation
<1> QED BY <1>1, AnswersPair, PTL

=============================================================================
