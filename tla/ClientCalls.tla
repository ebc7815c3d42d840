----------------------------- MODULE ClientCalls -----------------------------
(***************************************************************************)
(* The client's connection actor (kdx-client-core/src/actor.rs) talking to *)
(* the server's login and dispatch loops (kdx-server-core/src/             *)
(* connection.rs) over one ordered link.                                   *)
(*                                                                         *)
(* The application issues calls; each travels through the command channel  *)
(* to the actor, which writes a packet and remembers, in send order, what  *)
(* the server owes it.  An answer carries no request id: it is the answer  *)
(* to the oldest thing still owed.  A packet the server may leave          *)
(* unanswered is followed by a Ping, whose Pong closes its turn.  Events   *)
(* (here: member lists of rooms) come through a bounded queue of their     *)
(* own and may be dropped.                                                 *)
(*                                                                         *)
(* A frame carries the call it belongs to only so that the properties can  *)
(* speak of it: no guard of the client reads that field.  The private room *)
(* an invitation creates is named by the call that asked for it.           *)
(* Transfers are in ClientTransfers.                                       *)
(***************************************************************************)
EXTENDS ClientCommands, Sequences, SequencesExt

CONSTANTS
  Scripts,          \* the sequences of commands the application may issue
  PublicRooms,      \* rooms without the private prefix
  ForeignRooms,     \* private rooms others have invited this client to
  MaxPending,       \* MAX_PENDING
  MaxInvites,       \* MAX_PENDING_INVITES
  MaxAuthAttempts,  \* MAX_AUTH_ATTEMPTS
  OutboundQueue,    \* the capacity of a connection's outbound channel
  MaxNoise          \* bound on keepalives, events of other members and
                    \* callers' timeouts

ASSUME ClientBounds ==
  {MaxPending, MaxInvites, MaxAuthAttempts, OutboundQueue, MaxNoise}
    \subseteq Nat

ASSUME ClientScripts == Scripts \subseteq Seq(Commands)

\* The elements of s at the positions in K, in their order.
Picked(s, K) ==
  LET Nth(k) == CHOOSE i \in K : Cardinality({j \in K : j < i}) = k - 1
  IN [k \in 1..Cardinality(K) |-> s[Nth(k)]]

None == 0    \* no call, no room
Calls == UNION {DOMAIN s : s \in Scripts}
PrivateRooms == ForeignRooms \cup Calls
ChatRooms == PublicRooms \cup PrivateRooms

VARIABLES
  calls,    \* per call: command, room, outcome, the server's verdict, result
  queue,    \* the command channel
  actor,    \* "running", "dead" (about to stop), or why it stopped
  quit,     \* disconnect was requested
  login,    \* the login in flight
  authed,   \* a login has succeeded
  pending,  \* what the server owes, in send order
  invites,  \* invitations not yet resolved
  known,    \* known_rooms: rooms this client has joined
  up, down, \* the link, one sequence per direction
  server,   \* the server's phase, failed logins, and whether it stalled
  outq,     \* the connection's outbound event queue
  member,   \* the rooms the server has this connection in
  lost,     \* an event was dropped at a full queue
  noise     \* keepalives, events and timeouts so host

client == <<queue, actor, quit, login, authed, pending, invites, known>>
link   == <<up, down>>
host   == <<server, outq, member, lost>>
vars   == <<calls, client, link, host, noise>>

Frame(t, c, r) == [type |-> t, call |-> c, room |-> r]
NoLogin == [phase |-> "none", call |-> None]
Fresh == [cmd |-> "none", room |-> None, outcome |-> "idle",
          verdict |-> "none", got |-> None]

Init ==
  /\ calls = [c \in Calls |-> Fresh]
  /\ queue = <<>> /\ actor = "running" /\ quit = FALSE
  /\ login = NoLogin /\ authed \in BOOLEAN
  /\ pending = <<>> /\ invites = <<>> /\ known = {}
  /\ up = <<>> /\ down = <<>>
  /\ server = [phase |-> IF authed THEN "dispatch" ELSE "auth",
               failures |-> 0, stalled |-> FALSE]
  /\ outq = <<>> /\ member = {} /\ lost = FALSE /\ noise = 0

(***************************************************************************)
(* The handle.  A reply goes to a caller that still waits.                 *)
(***************************************************************************)
Answered(cs, c, v) ==
  IF cs[c].outcome = "open" THEN [cs EXCEPT ![c].outcome = v] ELSE cs

Running == actor = "running"
Ended == actor \notin {"running", "dead"}

\* The commands issued so host are the first of one of the scripts.
NextCommands(c) ==
  {s[c] : s \in {t \in Scripts : /\ c \in DOMAIN t
                                 /\ \A d \in 1..(c - 1) :
                                      t[d] = calls[d].cmd}}

RoomArguments(k) ==
  CASE k = "Join"  -> PublicRooms \cup ForeignRooms
    [] k = "Leave" -> (PublicRooms \cup ForeignRooms \cup known)
    [] OTHER       -> {None}

\* SetIdentity is the one command that nobody waits for.
Invoke(c, k, r) ==
  /\ calls[c].cmd = "none"
  /\ calls' = [calls EXCEPT ![c] =
                 [Fresh EXCEPT !.cmd = k, !.room = r,
                    !.outcome = CASE k = "SetIdentity" -> "ok"
                                  [] Ended -> "gone"
                                  [] OTHER -> "open"]]
  /\ queue' = IF Ended THEN queue ELSE Append(queue, c)
  /\ UNCHANGED <<actor, quit, login, authed, pending, invites, known,
                 link, host, noise>>

\* request_timeout: the caller drops its end; the actor is not told.
GiveUp(c) ==
  /\ calls[c].outcome = "open"
  /\ noise < MaxNoise /\ noise' = noise + 1
  /\ calls' = [calls EXCEPT ![c].outcome = "timeout"]
  /\ UNCHANGED <<client, link, host>>

Disconnect ==
  /\ ~quit /\ ~Ended
  /\ quit' = TRUE
  /\ UNCHANGED <<calls, queue, actor, login, authed, pending, invites, known,
                 link, host, noise>>

(***************************************************************************)
(* The end of run(): every caller still held somewhere is told, and the    *)
(* socket is closed.  Whatever the server still makes of what was sent     *)
(* concerns no caller any more.                                            *)
(***************************************************************************)
\* Mutant: callers waiting behind a barrier are forgotten.
Holders_NoBarriers ==
  Range(queue) \cup {login.call} \cup {i.call : i \in Range(invites)}
    \cup {p.call : p \in {q \in Range(pending) : q.is = "reply"}}

Holders ==
  Range(queue) \cup {login.call} \cup {i.call : i \in Range(invites)}
    \cup {p.call : p \in {q \in Range(pending) : q.is \in {"reply", "join"}}}

End(reason, cs, extra) ==
  /\ actor' = reason
  /\ calls' = [c \in Calls |->
                 IF c \in Holders \cup extra /\ cs[c].outcome = "open"
                 THEN [cs[c] EXCEPT !.outcome = "gone"] ELSE cs[c]]
  /\ queue' = <<>> /\ login' = NoLogin /\ pending' = <<>> /\ invites' = <<>>
  /\ up' = <<>> /\ down' = <<>> /\ outq' = <<>>
  /\ known' = {} /\ member' = {}
  /\ server' = [phase |-> "closed", failures |-> 0, stalled |-> FALSE]
  /\ UNCHANGED <<quit, authed, lost, noise>>

(***************************************************************************)
(* handle_command.  A write fails once disconnect was requested; it may    *)
(* fail when the link is gone or the server has stopped reading.           *)
(***************************************************************************)
Command(c, ks) ==
  /\ Running /\ queue # <<>> /\ c = Head(queue) /\ calls[c].cmd \in ks
Taken == queue' = Tail(queue)
Write(frames) == ~quit /\ up' = up \o frames
MayFail == quit \/ server.stalled \/ server.phase = "closed"

Owed(k, c, t, f) ==
  [is |-> k, call |-> c, expects |-> t, forget |-> f, error |-> FALSE]
Ping == Frame("Ping", None, None)

\* push_pending: the actor stops when the server owes it too much.
PushPending(p) ==
  /\ pending' = Append(pending, p)
  /\ actor' = IF Len(pending) >= MaxPending THEN "dead" ELSE actor

\* send, then send_barrier.
SendQuiet(t, c, p) ==
  /\ Write(<<Frame(t, c, calls[c].room), Ping>>)
  /\ PushPending(p)

TakeLogin(c) ==
  /\ Command(c, {"Login"}) /\ Taken
  /\ \/ /\ login # NoLogin
        /\ calls' = Answered(calls, c, "refused") /\ UNCHANGED <<login, up>>
     \/ /\ login = NoLogin /\ authed
        /\ calls' = Answered(calls, c, "invalid") /\ UNCHANGED <<login, up>>
     \/ /\ login = NoLogin /\ ~authed
        /\ Write(<<Frame("AuthRequest", c, None)>>)
        /\ login' = [phase |-> "challenge", call |-> c]
        /\ UNCHANGED calls
  /\ UNCHANGED <<actor, quit, authed, pending, invites, known, down, host,
                 noise>>

TakeRequest(c) ==
  /\ Command(c, DOMAIN Requests) /\ Taken
  /\ LET r == Requests[calls[c].cmd] IN
       /\ Write(<<Frame(r.packet, c, None)>>)
       /\ PushPending(Owed("reply", c, r.expects, FALSE))
  /\ UNCHANGED <<calls, quit, login, authed, invites, known, down, host,
                 noise>>

TakeQuiet(c) ==
  /\ Command(c, DOMAIN QuietCommands) /\ Taken
  /\ SendQuiet(QuietCommands[calls[c].cmd], c,
               Owed("plain", c, "Pong", FALSE))
  /\ calls' = Answered(calls, c, "ok")
  /\ UNCHANGED <<quit, login, authed, invites, known, down, host, noise>>

TakeLeave(c) ==
  /\ Command(c, {"Leave"}) /\ Taken
  /\ known' = known \ {calls[c].room}
  /\ SendQuiet("ChatLeave", c, Owed("plain", c, "Pong", FALSE))
  /\ calls' = Answered(calls, c, "ok")
  /\ UNCHANGED <<quit, login, authed, invites, down, host, noise>>

\* The caller of a join waits for the barrier.
TakeJoin(c) ==
  /\ Command(c, {"Join"}) /\ Taken
  /\ known' = known \cup {calls[c].room}
  /\ SendQuiet("ChatJoin", c,
               Owed("join", c, "Pong", calls[c].room \notin known))
  /\ UNCHANGED <<calls, quit, login, authed, invites, down, host, noise>>

\* start_invite.
TakeInvite(c) ==
  /\ Command(c, {"Invite"}) /\ Taken
  /\ \/ /\ Len(invites) >= MaxInvites
        /\ calls' = Answered(calls, c, "invalid")
        /\ UNCHANGED <<invites, pending, actor, up>>
     \/ /\ Len(invites) < MaxInvites
        /\ SendQuiet("ChatInvite", c, Owed("invite", c, "Pong", FALSE))
        /\ invites' = Append(invites, [call |-> c, failed |-> FALSE,
                                       settled |-> FALSE, room |-> None])
        /\ UNCHANGED calls
  /\ UNCHANGED <<quit, login, authed, known, down, host, noise>>

\* A payload over the cap of its type, or an id that does not parse, fails
\* its caller only.  A login that is rejected drops its reply, which reads
\* as a lost connection.  The names of rooms that exist always fit.
TakeRejected(c) ==
  /\ Command(c, Commands \ {"Join", "Leave"}) /\ Taken
  /\ calls[c].cmd = "Login" => login = NoLogin /\ ~authed
  /\ calls[c].cmd = "Invite" => Len(invites) < MaxInvites
  /\ calls' = Answered(calls, c, IF calls[c].cmd = "Login" THEN "gone"
                                 ELSE "invalid")
  /\ UNCHANGED <<actor, quit, login, authed, pending, invites, known, link,
                 host, noise>>

TakeFails(c) ==
  /\ Command(c, Commands) /\ MayFail
  /\ calls[c].cmd = "Login" => login = NoLogin /\ ~authed
  /\ End("write failed", calls, {c})

KeepAlive ==
  /\ Running /\ login = NoLogin
  /\ noise < MaxNoise /\ noise' = noise + 1
  /\ Write(<<Ping>>)
  /\ PushPending(Owed("ping", None, "Pong", FALSE))
  /\ UNCHANGED <<calls, queue, quit, login, authed, invites, known, down,
                 host>>

KeepAliveFails ==
  Running /\ login = NoLogin /\ MayFail /\ End("write failed", calls, {})

(***************************************************************************)
(* handle_frame.                                                           *)
(***************************************************************************)
Arrived(ts) == Running /\ down # <<>> /\ Head(down).type \in ts
Read == down' = Tail(down)

OwedNow == IF pending = <<>> THEN "nothing" ELSE Head(pending).is

\* take_reply: only the oldest thing owed may be answered.
OnReply ==
  /\ Arrived(ReplyTypes)
  /\ IF OwedNow = "reply" /\ Head(pending).expects = Head(down).type
     THEN /\ LET c == Head(pending).call IN
               calls' = IF calls[c].outcome = "open"
                        THEN [calls EXCEPT ![c].outcome = "ok",
                                           ![c].got = Head(down).call]
                        ELSE calls
          /\ pending' = Tail(pending) /\ Read
          /\ UNCHANGED <<queue, actor, quit, login, authed, invites, known,
                         up, host, noise>>
     ELSE End("violation", calls, {})

\* resolve_invites over the invitations inv and the calls cs.
Resolved(i) == i.settled /\ ~i.failed /\ i.room # None
Over(i, cs) ==
  i.settled /\ (i.failed \/ i.room # None \/ cs[i.call].outcome # "open")
Resolve(inv, cs) ==
  /\ invites' = Picked(inv, {k \in DOMAIN inv : ~Over(inv[k], cs)})
  /\ calls' = [c \in Calls |->
       IF \E i \in Range(inv) : i.call = c /\ Resolved(i)
                                  /\ cs[c].outcome = "open"
       THEN [cs[c] EXCEPT !.outcome = "ok",
               !.got = (CHOOSE i \in Range(inv) : i.call = c).room]
       ELSE cs[c]]

InviteOf(c, inv) == CHOOSE i \in DOMAIN inv : inv[i].call = c

\* on_pong, by what the barrier stood behind.
OnPong ==
  /\ Arrived({"Pong"})
  /\ IF OwedNow \in {"nothing", "reply"} THEN End("violation", calls, {})
     ELSE LET p == Head(pending) IN
       /\ pending' = Tail(pending) /\ Read
       /\ known' = IF p.is = "join" /\ p.forget /\ p.error
                   THEN known \ {calls[p.call].room} ELSE known
       /\ CASE p.is = "join" ->
                 /\ calls' = Answered(calls, p.call,
                                      IF p.error THEN "refused" ELSE "ok")
                 /\ UNCHANGED invites
            [] p.is = "invite" /\ (\E i \in Range(invites) :
                                                 i.call = p.call) ->
                 Resolve([invites EXCEPT
                            ![InviteOf(p.call, invites)].settled = TRUE],
                         calls)
            [] OTHER -> UNCHANGED <<calls, invites>>
       /\ UNCHANGED <<queue, actor, quit, login, authed, up, host, noise>>

\* Mutant: a refused invitation is forgotten at once.
InviteRefused_Forgets(c) ==
  /\ invites' = SelectSeq(invites, LAMBDA i : i.call # c)
  /\ calls' = Answered(calls, c, "refused")

\* invite_refused: the entry stays until its barrier returns, so that the
\* list of a room already torn down is not taken for another invitation's.
InviteRefused(c) ==
  /\ invites' = [i \in DOMAIN invites |->
                   IF invites[i].call = c
                   THEN [invites[i] EXCEPT !.failed = TRUE] ELSE invites[i]]
  /\ calls' = Answered(calls, c, "refused")

\* Mutant: an Error is the answer to the oldest request, over the barriers
\* in front of it.
OnError_SkipsBarriers ==
  /\ Arrived({"Error"}) /\ Read
  /\ LET open == {i \in DOMAIN pending : pending[i].is = "reply"} IN
     IF open = {} THEN UNCHANGED <<calls, pending>>
     ELSE LET i == CHOOSE j \in open : \A k \in open : j <= k IN
          /\ calls' = Answered(calls, pending[i].call, "refused")
          /\ pending' = RemoveAt(pending, i)
  /\ UNCHANGED <<queue, actor, quit, login, authed, invites, known, up, host,
                 noise>>

\* on_error: it refuses the oldest thing owed, unless that is a keepalive.
OnError ==
  /\ Arrived({"Error"}) /\ Read
  /\ CASE OwedNow = "reply" ->
            /\ calls' = Answered(calls, Head(pending).call, "refused")
            /\ pending' = Tail(pending) /\ UNCHANGED invites
       [] OwedNow \in {"plain", "join", "invite"}
            /\ ~Head(pending).error ->
            /\ pending' = [pending EXCEPT ![1].error = TRUE]
            /\ IF Head(pending).is = "invite"
               THEN InviteRefused(Head(pending).call)
               ELSE UNCHANGED <<calls, invites>>
       [] OTHER -> UNCHANGED <<calls, pending, invites>>
  /\ UNCHANGED <<queue, actor, quit, login, authed, known, up, host, noise>>

\* ChatUserList, with on_fresh_private_room: the list of a private room this
\* client did not join names the room of the oldest invitation without one.
OnUserList ==
  /\ Arrived({"ChatUserList"}) /\ Read
  /\ LET r == Head(down).room
         waits(i) == /\ invites[i].room = None
                     /\ ~(invites[i].failed /\ invites[i].settled)
         waiting == {i \in DOMAIN invites : waits(i)}
         oldest == CHOOSE i \in waiting : \A j \in waiting : i <= j
     IN IF r \in PrivateRooms \ known /\ waiting # {}
        THEN /\ known' = IF invites[oldest].failed THEN known
                         ELSE known \cup {r}
             /\ Resolve([invites EXCEPT ![oldest].room = r], calls)
        ELSE UNCHANGED <<calls, invites, known>>
  /\ UNCHANGED <<queue, actor, quit, login, authed, pending, up, host, noise>>

\* on_auth_challenge: the proof is derived and sent, or the login fails; a
\* response that cannot be written ends the session.
OnAuthChallenge ==
  /\ Arrived({"AuthChallenge"})
  /\ \/ /\ login.phase = "challenge" /\ Read
        /\ Write(<<Frame("AuthResponse", login.call, None)>>)
        /\ login' = [login EXCEPT !.phase = "result"]
        /\ UNCHANGED <<calls, queue, actor, quit, authed, pending, invites,
                       known, host, noise>>
     \/ /\ login.phase = "challenge" /\ Read
        /\ calls' = Answered(calls, login.call, "refused")
        /\ login' = NoLogin
        /\ UNCHANGED <<queue, actor, quit, authed, pending, invites, known,
                       up, host, noise>>
     \/ /\ login.phase = "challenge" /\ MayFail
        /\ End("write failed", calls, {})

\* on_auth_result: a success counts only after the proof was sent.
OnAuthResult ==
  /\ Arrived({"AuthOk", "AuthFailed"})
  /\ IF /\ Head(down).type = "AuthOk"
        /\ login.phase = "challenge"
     THEN End("violation", Answered(calls, login.call, "refused"), {})
     ELSE /\ Read /\ login' = NoLogin
          /\ CASE login = NoLogin -> UNCHANGED <<calls, authed>>
               [] Head(down).type = "AuthFailed" ->
                    /\ calls' = Answered(calls, login.call, "refused")
                    /\ UNCHANGED authed
               [] OTHER ->
                    /\ calls' = IF calls[login.call].outcome = "open"
                                THEN [calls EXCEPT
                                        ![login.call].outcome = "ok",
                                        ![login.call].got = Head(down).call]
                                ELSE calls
                    /\ authed' = TRUE
          /\ UNCHANGED <<queue, actor, quit, pending, invites, known, up,
                         host, noise>>

\* Frames that only become events for the application.
OnNotice ==
  /\ Arrived({"Info", "Warning", "Disconnect"}) /\ Read
  /\ UNCHANGED <<calls, client, up, host, noise>>

Goodbye == Running /\ quit /\ End("disconnected", calls, {})
TooMuchOwed == actor = "dead" /\ End("unanswered", calls, {})
EndOfStream ==
  Running /\ down = <<>> /\ server.phase = "closed"
    /\ End("closed", calls, {})
\* Two keepalive intervals without a frame.
IdleDeadline ==
  /\ Running /\ down = <<>> /\ server.phase # "closed"
  /\ server.stalled \/ up # <<>>
  /\ End("idle", calls, {})

(***************************************************************************)
(* The server: authenticate_until_done, then dispatch_inner, which writes  *)
(* its queued events before it reads another frame.                        *)
(***************************************************************************)
Serving(phase, ts) ==
  /\ server.phase = phase /\ ~server.stalled /\ ~Ended
  /\ outq = <<>> /\ up # <<>> /\ Head(up).type \in ts
Took == up' = Tail(up)
Say(frames) == down' = down \o frames
Judge(c, v) == calls' = [calls EXCEPT ![c].verdict = v]
Closed == [server EXCEPT !.phase = "closed"]

\* An event to the connection: dropped when its queue is full.
Deliver(e) ==
  /\ outq' = IF Len(outq) < OutboundQueue THEN Append(outq, e) ELSE outq
  /\ lost' = (lost \/ Len(outq) >= OutboundQueue)

AuthFailure(c) ==
  /\ Say(<<Frame("AuthFailed", c, None)>>)
  /\ Judge(c, "refused")
  /\ LET s == [server EXCEPT !.phase = "auth", !.failures = @ + 1] IN
       server' = IF s.failures >= MaxAuthAttempts
                 THEN [s EXCEPT !.phase = "closed"] ELSE s

ServerPing ==
  /\ \/ Serving("auth", {"Ping"}) \/ Serving("dispatch", {"Ping"})
  /\ Took /\ Say(<<Frame("Pong", None, None)>>)
  /\ UNCHANGED <<calls, client, host, noise>>

ServerAuthRequest ==
  /\ Serving("auth", {"AuthRequest"}) /\ Took
  /\ \/ AuthFailure(Head(up).call)
     \/ /\ Say(<<Frame("AuthChallenge", Head(up).call, None)>>)
        /\ server' = [server EXCEPT !.phase = "challenged"]
        /\ UNCHANGED calls
  /\ UNCHANGED <<client, outq, member, lost, noise>>

ServerAuthResponse ==
  /\ Serving("challenged", {"AuthResponse"}) /\ Took
  /\ LET c == Head(up).call IN
     \/ AuthFailure(c)
     \/ /\ \E greeting \in {<<>>, <<Frame("Info", c, None)>>} :
             Say(<<Frame("AuthOk", c, None)>> \o greeting)
        /\ Judge(c, "granted")
        /\ server' = [server EXCEPT !.phase = "dispatch"]
  /\ UNCHANGED <<client, outq, member, lost, noise>>

\* Before a login only pings and logins are served; after a challenge the
\* very next packet must be the response.
ServerUnexpected ==
  /\ \/ Serving("auth", {Head(up).type} \ {"Ping", "AuthRequest"})
     \/ Serving("challenged", {Head(up).type} \ {"AuthResponse"})
  /\ server' = Closed /\ up' = <<>>
  /\ UNCHANGED <<calls, client, down, outq, member, lost, noise>>

Refuse(c) == Say(<<Frame("Error", c, None)>>) /\ Judge(c, "refused")

ServerAnswer ==
  /\ Serving("dispatch", DOMAIN Answers) /\ Took
  /\ LET f == Head(up) IN
     \/ Refuse(f.call)
     \/ /\ Say(<<Frame(Answers[f.type], f.call, None)>>)
        /\ Judge(f.call, "granted")
  /\ UNCHANGED <<client, host, noise>>

ServerQuiet ==
  /\ Serving("dispatch", DOMAIN QuietAnswers) /\ Took
  /\ LET f == Head(up) IN
     \/ Refuse(f.call)
     \/ /\ \E n \in QuietAnswers[f.type] :
             Say(IF n = "none" THEN <<>> ELSE <<Frame(n, f.call, None)>>)
        /\ Judge(f.call, "granted")
  /\ UNCHANGED <<client, host, noise>>

List(r) == Frame("ChatUserList", None, r)

ServerJoin ==
  /\ Serving("dispatch", {"ChatJoin"}) /\ Took
  /\ LET f == Head(up) IN
     \/ Refuse(f.call) /\ UNCHANGED <<outq, member, lost>>
     \/ /\ member' = member \cup {f.room} /\ Deliver(List(f.room))
        /\ Judge(f.call, "granted") /\ UNCHANGED down
  /\ UNCHANGED <<client, server, noise>>

ServerLeave ==
  /\ Serving("dispatch", {"ChatLeave"}) /\ Took
  /\ member' = member \ {Head(up).room}
  /\ Judge(Head(up).call, "granted")
  /\ UNCHANGED <<client, down, server, outq, lost, noise>>

\* Refused before the room exists; refused once it turns out that nobody
\* was reached, the room's list being queued already; or granted.
ServerInvite ==
  /\ Serving("dispatch", {"ChatInvite"}) /\ Took
  /\ LET c == Head(up).call IN
     \/ Refuse(c) /\ UNCHANGED <<outq, member, lost>>
     \/ Refuse(c) /\ Deliver(List(c)) /\ UNCHANGED member
     \/ /\ Deliver(List(c)) /\ member' = member \cup {c}
        /\ Say(<<Frame("Info", c, None)>>) /\ Judge(c, "granted")
  /\ UNCHANGED <<client, server, noise>>

\* Somebody joins or leaves a room this connection is in.
OtherMember(r) ==
  /\ server.phase = "dispatch" /\ ~Ended /\ r \in member
  /\ noise < MaxNoise /\ noise' = noise + 1
  /\ Deliver(List(r))
  /\ UNCHANGED <<calls, client, link, server, member>>

ServerEvent ==
  /\ server.phase = "dispatch" /\ ~server.stalled /\ outq # <<>>
  /\ Say(<<Head(outq)>>) /\ outq' = Tail(outq)
  /\ UNCHANGED <<calls, client, up, server, member, lost, noise>>

\* A kick, a shutdown, a timeout: with or without a farewell.
ServerClose ==
  /\ server.phase # "closed" /\ ~server.stalled
  /\ server' = Closed /\ up' = <<>> /\ outq' = <<>>
  /\ \E bye \in {<<>>, <<Frame("Disconnect", None, None)>>} : Say(bye)
  /\ UNCHANGED <<calls, client, member, lost, noise>>

\* The server stops reading and writing, the link stays open.
ServerStall ==
  /\ server.phase # "closed" /\ ~server.stalled
  /\ server' = [server EXCEPT !.stalled = TRUE]
  /\ UNCHANGED <<calls, client, link, outq, member, lost, noise>>

(***************************************************************************)
(* The specification.                                                      *)
(***************************************************************************)
Take(c) ==
  \/ TakeLogin(c) \/ TakeRequest(c) \/ TakeQuiet(c) \/ TakeLeave(c)
  \/ TakeJoin(c)  \/ TakeInvite(c)  \/ TakeFails(c)
HandleFrame ==
  \/ OnReply \/ OnPong \/ OnError \/ OnUserList \/ OnAuthChallenge
  \/ OnAuthResult \/ OnNotice
Stop == Goodbye \/ TooMuchOwed \/ EndOfStream \/ IdleDeadline
Serve ==
  \/ ServerPing \/ ServerAuthRequest \/ ServerAuthResponse
  \/ ServerUnexpected \/ ServerAnswer \/ ServerQuiet \/ ServerJoin
  \/ ServerLeave \/ ServerInvite \/ ServerEvent

Next ==
  \/ \E c \in Calls : \E k \in NextCommands(c) :
        \E r \in RoomArguments(k) : Invoke(c, k, r)
  \/ \E c \in Calls : GiveUp(c) \/ Take(c) \/ TakeRejected(c)
  \/ Disconnect \/ KeepAlive \/ KeepAliveFails \/ HandleFrame \/ Stop
  \/ Serve \/ ServerClose \/ ServerStall
  \/ \E r \in ChatRooms : OtherMember(r)

\* Each branch of the actor's select is polled, and the server's loop turns
\* until it stalls.  Nothing makes a caller give up, a peer close the link
\* or a keepalive fail.
Fairness ==
  /\ WF_vars(\E c \in Calls : Take(c))
  /\ WF_vars(HandleFrame) /\ WF_vars(Stop) /\ WF_vars(Serve)

Spec == Init /\ [][Next]_vars /\ Fairness

(***************************************************************************)
(* Properties.                                                             *)
(***************************************************************************)
\* What a caller is told is the server's answer to that very call: a result
\* is never that of another call, and a refusal is never another call's
\* Error (take_reply, on_error, on_pong).
AnswersOwn ==
  \A c \in Calls :
    LET me == calls[c] IN
    /\ me.outcome = "ok" /\ me.cmd \in DOMAIN Requests \cup {"Login"} =>
         me.got = c /\ me.verdict = "granted"
    /\ me.outcome = "ok" /\ me.cmd \in {"Join", "Invite"} =>
         me.verdict = "granted"
    /\ me.outcome = "refused" /\ me.cmd # "Login" => me.verdict = "refused"

\* The two sides agree on what answers what: whatever is called, in whatever
\* order, with logins, keepalives and refusals in between, the client never
\* drops this server for a protocol violation.
NoViolation == actor # "violation"

\* A room whose lists may still arrive although the client does not count
\* itself in it: one it left, or whose join was refused.
Blurred(r) ==
  \E c \in Calls : /\ calls[c].room = r
                   /\ \/ calls[c].cmd = "Leave"
                      \/ calls[c].cmd = "Join" /\ calls[c].verdict = "refused"

\* An invitation returns its own room, also when others of this client are
\* refused around it; it goes wrong only after a list was dropped, or after a
\* private room was left or refused: its late list takes the place of an
\* invitation's, and that one's list may take the next one's in turn.
InviteFindsRoom ==
  \A c \in Calls :
    calls[c].cmd = "Invite" /\ calls[c].outcome = "ok" =>
      calls[c].got = c \/ lost \/ \E r \in PrivateRooms : Blurred(r)

\* "Invite `to` into a fresh private chat and return the new room's id"
\* (handle.rs:741). Not so: a late list of a room that was left is taken for
\* the new room's (on_fresh_private_room).
InviteReturnsItsRoom ==
  \A c \in Calls :
    calls[c].cmd = "Invite" /\ calls[c].outcome = "ok" => calls[c].got = c

\* Every call is answered in the end, whatever becomes of the server and
\* without counting on the caller's own timeout, unless the one list an
\* invitation waits for was dropped at a full queue.
CallsResolve ==
  \A c \in Calls :
    calls[c].outcome = "open" ~> (calls[c].outcome # "open" \/ lost)
=============================================================================
