------------------------------ MODULE Sessions ------------------------------
(***************************************************************************)
(* Logins and the sessions they open (auth/manager.rs, the login and       *)
(* cleanup halves of connection.rs), together with the requests that       *)
(* change what a session was logged in on: privileges (auth/policy.rs),    *)
(* bans, password resets and changes, IP rules, and shutdown.              *)
(*                                                                         *)
(* A login reads the account several times over seconds while other        *)
(* handlers rewrite it.  Those handlers can only disconnect sessions that  *)
(* are in the presence roster, so a login re-reads everything once it has  *)
(* joined.  One action is the code between two awaits.                     *)
(***************************************************************************)
EXTENDS Presence

CONSTANTS
  Addresses,     \* peer addresses
  AddressOf,     \* the address a connection comes from
  Operator,      \* the username of the administrator who edits the IP rules
  Guests,        \* accounts of class Guest
  Requests,      \* the kinds of request that are made
  MaxUsers,      \* settings.max_users; 0 is no cap
  MaxAttempts,   \* MAX_AUTH_ATTEMPTS
  MaxOps         \* bound: administrators' requests and password changes

ASSUME SessionConstants ==
  /\ AddressOf \in [Conns -> Addresses]
  /\ Guests \subseteq Accounts
  /\ Requests \subseteq {"row", "role", "reset", "ban", "rules", "shutdown",
                        "password"}
  /\ {MaxUsers, MaxAttempts, MaxOps} \subseteq Nat

Free == "free"
NoChange == 0
\* The account row's overrides, for the one privilege the model has.
Rows == {"grant", "revoke", "neither"}

ASSUME FreeIsNoAdmin == Free \notin Admins

VARIABLES
  \* the database, and the compiled IP rules
  row,        \* accounts.granted / revoked of an account
  role,       \* whether one of the account's roles carries the privilege
  cred,       \* accounts.credential: the how-manieth password
  banned,     \* accounts with a ban in force
  denied,     \* addresses IpRuleManager's cache denies
  \* AuthManager and RoleManager
  sessions,   \* AuthManager::sessions: connections with a registered session
  lock,       \* RoleManager::mutations: the handler holding it
  \* each connection
  pc, sess, fails, pinned,
  reaper,     \* dropped connections whose cleanup task has yet to run
  \* administrators' handlers, and the accept loop
  apc, job, accepting, ops

dbVars   == <<row, role, cred, banned, denied>>
connVars == <<sessions, pc, sess, fails, pinned, reaper, who, gone>>
adminVars == <<lock, apc, job, accepting, ops>>
vars == <<dbVars, connVars, adminVars, presenceVars>>

\* effective_privileges: overrides apply on top of the roles, revokes win.
Effective(r, h) == r = "grant" \/ (r = "neither" /\ h)
Stored(a) == Effective(row[a], role[a])

NoSession == [cred |-> 0, row |-> "neither", priv |-> FALSE, renewed |-> FALSE]
NoJob == [op |-> "force", target |-> {}, kicks |-> {},
          old |-> [a \in Accounts |-> FALSE], list |-> {}]

Sessioned == [cred : Nat, row : Rows, priv : BOOLEAN, renewed : BOOLEAN]
Jobs == [op : {"row", "role", "force", "stop"}, target : SUBSET Accounts,
         kicks : SUBSET Accounts, old : [Accounts -> BOOLEAN],
         list : SUBSET Conns]

\* Where a connection is.  Up to "verified" nothing is registered.
LoggingIn == {"auth", "challenged", "rowed", "unbanned", "verified"}
Rechecking == {"joined", "re_row", "re_role", "re_cred", "re_ban"}
Serving == {"dispatch", "changed", "kicking"}
Joined == Rechecking \cup Serving \cup {"leaving", "left"}
Registered == {"admitted", "joining"} \cup Joined

SessionTypeOK ==
  /\ PresenceTypeOK
  /\ row \in [Accounts -> Rows] /\ role \in [Accounts -> BOOLEAN]
  /\ cred \in [Accounts -> Nat \ {0}]
  /\ banned \in SUBSET Accounts /\ denied \in SUBSET Addresses
  /\ {sessions, reaper} \subseteq SUBSET Conns
  /\ lock \in Admins \cup {Free}
  /\ pc \in [Conns -> {"new", "ended"} \cup LoggingIn \cup Registered]
  /\ sess \in [Conns -> Sessioned]
  /\ fails \in [Conns -> Nat] /\ pinned \in [Conns -> Nat]
  /\ apc \in [Admins -> {"idle", "write", "reset", "ruled", "listing",
                         "match", "kick", "wait", "noticed"}]
  /\ job \in [Admins -> Jobs]
  /\ accepting \in BOOLEAN /\ ops \in Nat

Init ==
  /\ PresenceInit
  /\ row = [a \in Accounts |-> "neither"]
  /\ role \in [Accounts -> BOOLEAN]
  /\ cred = [a \in Accounts |-> 1]
  /\ banned = {} /\ denied = {}
  /\ sessions = {} /\ reaper = {} /\ lock = Free
  /\ pc = [c \in Conns |-> "new"]
  /\ sess = [c \in Conns |-> NoSession]
  /\ fails = [c \in Conns |-> 0] /\ pinned = [c \in Conns |-> NoChange]
  /\ apc = [k \in Admins |-> "idle"] /\ job = [k \in Admins |-> NoJob]
  /\ accepting = TRUE /\ ops = 0

---------------------------------------------------------------------------
(* Logging in.                                                             *)

Goto(c, l) == pc' = [pc EXCEPT ![c] = l]
\* The task returns: its locals are dropped and its channels close.
End(c) ==
  /\ Goto(c, "ended")
  /\ gone' = gone \cup {c}
  /\ sess' = [sess EXCEPT ![c] = NoSession]
  /\ fails' = [fails EXCEPT ![c] = 0]
  /\ pinned' = [pinned EXCEPT ![c] = NoChange]

Accept(c) ==
  /\ pc[c] = "new" /\ accepting
  /\ AddressOf[c] \notin denied
  /\ Goto(c, "auth")
  /\ UNCHANGED <<dbVars, adminVars, presenceVars, sessions, sess, fails,
                 pinned, reaper, who, gone>>

\* AuthRequest for an account: pin its credential in the challenge.
BeginLogin(c, a) ==
  /\ pc[c] = "auth"
  /\ who' = [who EXCEPT ![c] = a]
  /\ sess' = [sess EXCEPT ![c].cred = cred[a]]
  /\ Goto(c, "challenged")
  /\ UNCHANGED <<dbVars, adminVars, presenceVars, sessions, fails, pinned,
                 reaper, gone>>

\* A refused login costs an attempt; the last one closes the connection.
Refuse(c) ==
  /\ IF fails[c] + 1 >= MaxAttempts
       THEN End(c)
       ELSE /\ fails' = [fails EXCEPT ![c] = @ + 1]
            /\ Goto(c, "auth")
            /\ UNCHANGED <<gone, sess, pinned>>
  /\ UNCHANGED sessions

\* AuthResponse: the proof verifies against the pinned credential, and the
\* row, read again, still holds that credential.
AnswerChallenge(c) ==
  /\ pc[c] = "challenged"
  /\ IF sess[c].cred = cred[who[c]]
       THEN /\ sess' = [sess EXCEPT ![c].row = row[who[c]]]
            /\ Goto(c, "rowed")
            /\ UNCHANGED <<fails, sessions, pinned, gone>>
       ELSE Refuse(c)
  /\ UNCHANGED <<dbVars, adminVars, presenceVars, reaper, who>>

\* A wrong password, an unknown user, an over-long username or a source the
\* login limiter holds off.
FailLogin(c) ==
  /\ pc[c] \in {"auth", "challenged"}
  /\ Refuse(c)
  /\ UNCHANGED <<dbVars, adminVars, presenceVars, reaper, who>>

CheckBan(c) ==
  /\ pc[c] = "rowed"
  /\ IF who[c] \in banned
       THEN Refuse(c)
       ELSE /\ Goto(c, "unbanned")
            /\ UNCHANGED <<fails, sessions, sess, pinned, gone>>
  /\ UNCHANGED <<dbVars, adminVars, presenceVars, reaper, who>>

ReadRoles(c) ==
  /\ pc[c] = "unbanned"
  /\ sess' = [sess EXCEPT ![c].priv = Effective(sess[c].row, role[who[c]])]
  /\ Goto(c, "verified")
  /\ UNCHANGED <<dbVars, adminVars, presenceVars, sessions, fails, pinned,
                 reaper, who, gone>>

\* user_cap_for exempts the privileged; admit checks and inserts in one step.
Full(c) ==
  MaxUsers # 0 /\ ~sess[c].priv /\ Cardinality(sessions) >= MaxUsers

Admit(c) ==
  /\ pc[c] = "verified"
  /\ IF Full(c)
       THEN Refuse(c)
       ELSE /\ sessions' = sessions \cup {c}
            /\ Goto(c, "admitted")
            /\ UNCHANGED <<sess, fails, pinned, gone>>
  /\ UNCHANGED <<dbVars, adminVars, presenceVars, reaper, who>>

\* The result and the greeting went out: keep the session and join presence.
Greet(c) ==
  /\ pc[c] = "admitted"
  /\ Send("join", c, who[c])
  /\ Goto(c, "joining")
  /\ UNCHANGED <<dbVars, adminVars, roster, kill, closing, listing, sessions,
                 sess, fails, pinned, reaper, who, gone>>

\* They did not (a write error, AUTH_TIMEOUT): the guard unregisters it.
GreetFails(c) ==
  /\ pc[c] = "admitted"
  /\ sessions' = sessions \ {c}
  /\ End(c)
  /\ UNCHANGED <<dbVars, adminVars, presenceVars, reaper, who>>

\* The peer hangs up, a database read fails, or AUTH_TIMEOUT passes.
LeaveLogin(c) ==
  /\ pc[c] \in LoggingIn
  /\ End(c)
  /\ UNCHANGED <<dbVars, adminVars, presenceVars, sessions, reaper, who>>

JoinAnswered(c) ==
  /\ pc[c] = "joining" /\ Answered(c)
  /\ Goto(c, "joined")
  /\ UNCHANGED <<dbVars, adminVars, presenceVars, sessions, sess, fails,
                 pinned, reaper, who, gone>>

---------------------------------------------------------------------------
(* stale_login_reason: what the login was based on, read once more.        *)

\* account_state, first statement.
RecheckRow(c) ==
  /\ pc[c] = "joined"
  /\ sess' = [sess EXCEPT ![c].row = row[who[c]]]
  /\ Goto(c, "re_row")
  /\ UNCHANGED <<dbVars, adminVars, presenceVars, sessions, fails, pinned,
                 reaper, who, gone>>

\* The next check passes, or the login is stale.
Recheck(c, from, ok, to) ==
  /\ pc[c] = from
  /\ Goto(c, IF ok THEN to ELSE "leaving")
  /\ UNCHANGED <<dbVars, adminVars, presenceVars, sessions, sess, fails,
                 pinned, reaper, who, gone>>

\* account_state, second statement, and the comparison.
RecheckRole(c) ==
  Recheck(c, "re_row",
          Effective(sess[c].row, role[who[c]]) = sess[c].priv, "re_role")
RecheckCredential_Mutation(c) == Recheck(c, "re_role", TRUE, "re_cred")
RecheckCredential(c) ==
  Recheck(c, "re_role", cred[who[c]] = sess[c].cred, "re_cred")
RecheckBan(c) == Recheck(c, "re_cred", who[c] \notin banned, "re_ban")
RecheckAddress(c) ==
  Recheck(c, "re_ban", AddressOf[c] \notin denied, "dispatch")
\* A read fails: fail closed.
RecheckFails(c) ==
  /\ pc[c] \in {"joined", "re_row", "re_role", "re_cred"}
  /\ Recheck(c, pc[c], FALSE, "leaving")

---------------------------------------------------------------------------
(* The dispatch loop.  The kill signal is polled before anything else, but *)
(* a handler that is already running is not interrupted.                   *)

Killed(c) ==
  /\ pc[c] = "dispatch" /\ c \in kill
  /\ Goto(c, "leaving")
  /\ UNCHANGED <<dbVars, adminVars, presenceVars, sessions, sess, fails,
                 pinned, reaper, who, gone>>

\* The peer leaves, errs or idles.
Close(c) ==
  /\ pc[c] = "dispatch" /\ c \notin kill
  /\ Goto(c, "leaving")
  /\ UNCHANGED <<dbVars, adminVars, presenceVars, sessions, sess, fails,
                 pinned, reaper, who, gone>>

BeginPasswordChange(c) ==
  /\ pc[c] = "dispatch" /\ c \notin kill
  /\ "password" \in Requests /\ ops < MaxOps
  /\ pinned' = [pinned EXCEPT ![c] = IF who[c] \in Guests THEN NoChange
                                     ELSE cred[who[c]]]
  /\ UNCHANGED <<dbVars, adminVars, presenceVars, sessions, pc, sess, fails,
                 reaper, who, gone>>

\* A proof of the pinned password: swap the credential if it is still that.
FinishPasswordChange(c) ==
  /\ pc[c] = "dispatch" /\ c \notin kill
  /\ pinned[c] # NoChange /\ ops < MaxOps
  /\ pinned' = [pinned EXCEPT ![c] = NoChange]
  /\ ops' = ops + 1
  /\ IF pinned[c] = cred[who[c]]
       THEN /\ cred' = [cred EXCEPT ![who[c]] = @ + 1]
            /\ sess' = [sess EXCEPT ![c].cred = cred[who[c]] + 1,
                                    ![c].renewed = TRUE]
            /\ Goto(c, "changed")
       ELSE UNCHANGED <<cred, sess, pc>>
  /\ UNCHANGED <<presenceVars, row, role, banned, denied, lock, apc, job,
                 accepting, sessions, fails, reaper, who, gone>>

\* A wrong or late proof; MAX_PASSWORD_CHANGE_FAILURES closes the connection.
FailPasswordChange(c) ==
  /\ pc[c] = "dispatch" /\ c \notin kill
  /\ pinned[c] # NoChange
  /\ pinned' = [pinned EXCEPT ![c] = NoChange]
  /\ \/ UNCHANGED pc
     \/ Goto(c, "leaving")
  /\ UNCHANGED <<dbVars, adminVars, presenceVars, sessions, sess, fails,
                 reaper, who, gone>>

\* disconnect_others, then the answer to the client.
SignOutOthers(c) ==
  /\ pc[c] = "changed"
  /\ Send("others", c, who[c])
  /\ Goto(c, "kicking")
  /\ UNCHANGED <<dbVars, adminVars, roster, kill, closing, listing, sessions,
                 sess, fails, pinned, reaper, who, gone>>

OthersSignedOut_Mutation(c) ==
  /\ pc[c] = "kicking"
  /\ Goto(c, "dispatch")
  /\ UNCHANGED <<dbVars, adminVars, presenceVars, sessions, sess, fails,
                 pinned, reaper, who, gone>>

OthersSignedOut(c) ==
  /\ pc[c] = "kicking" /\ Answered(c)
  /\ Goto(c, "dispatch")
  /\ UNCHANGED <<dbVars, adminVars, presenceVars, sessions, sess, fails,
                 pinned, reaper, who, gone>>

---------------------------------------------------------------------------
(* SessionGuard: cleanup, and what a dropped task leaves behind.           *)

LeavePresence(c) ==
  /\ pc[c] = "leaving"
  /\ Send("leave", c, who[c])
  /\ Goto(c, "left")
  /\ UNCHANGED <<dbVars, adminVars, roster, kill, closing, listing, sessions,
                 sess, fails, pinned, reaper, who, gone>>

EndSession(c) ==
  /\ pc[c] = "left"
  /\ sessions' = sessions \ {c}
  /\ End(c)
  /\ UNCHANGED <<dbVars, adminVars, presenceVars, reaper, who>>

\* The task is lost (a panic): end the session now, spawn the rest.  A task
\* lost while it waits for presence has its command in the mailbox already.
\* Between storing a new password and asking for the kick there is nothing
\* to panic on, and no part of the server aborts a connection task.
DropTask_Mutation(c) ==
  /\ pc[c] \in {"joining"} \cup (Joined \ {"changed"})
  /\ sessions' = sessions \ {c}
  /\ End(c)
  /\ UNCHANGED <<dbVars, adminVars, presenceVars, reaper, who>>

DropTask(c) ==
  /\ pc[c] \in {"joining"} \cup (Joined \ {"changed"})
  /\ sessions' = sessions \ {c}
  /\ reaper' = reaper \cup {c}
  /\ End(c)
  /\ UNCHANGED <<dbVars, adminVars, presenceVars, who>>

Reap(c) ==
  /\ c \in reaper
  /\ reaper' = reaper \ {c}
  /\ sessions' = sessions \ {c}
  /\ Send("leave", c, who[c])
  /\ UNCHANGED <<dbVars, adminVars, roster, kill, closing, listing, pc, sess,
                 fails, pinned, who, gone>>
=============================================================================
