---------------------------- MODULE SessionAdmin ----------------------------
(***************************************************************************)
(* The requests that take a session's footing away, as administrators'     *)
(* handlers run them: each writes first and kicks afterwards.  Who may     *)
(* make which request is the subject of AccountPolicy; here every request  *)
(* that reaches its write is allowed.                                      *)
(***************************************************************************)
EXTENDS Sessions

Step(k, l) == apc' = [apc EXCEPT ![k] = l]
Begin(k) == apc[k] = "idle" /\ ops < MaxOps /\ ops' = ops + 1
Acquire(k) == lock = Free /\ lock' = k
\* Return from the handler; its mutations guard, if it has one, is dropped.
Finish(k) ==
  /\ Step(k, "idle")
  /\ job' = [job EXCEPT ![k] = NoJob]
  /\ lock' = IF lock = k THEN Free ELSE lock

---------------------------------------------------------------------------
(* Privileges: update_account (the row), update_role, delete_role and      *)
(* set_role_assignment (the roles of the accounts holding one).            *)

\* Take the lock and read the affected accounts as they are.
LockPrivileges(k, what, target) ==
  /\ Begin(k) /\ Acquire(k)
  /\ what = "row" => Cardinality(target) = 1
  /\ job' = [job EXCEPT ![k] = [NoJob EXCEPT
       !.op = what, !.target = target, !.old = [a \in Accounts |-> Stored(a)]]]
  /\ Step(k, "write")
  /\ UNCHANGED <<dbVars, connVars, presenceVars, accepting>>

WriteRow(k) ==
  /\ job[k].op = "row"
  /\ \E r \in Rows :
       row' = [a \in Accounts |-> IF a \in job[k].target THEN r ELSE row[a]]
  /\ UNCHANGED role

WriteRole(k) ==
  /\ job[k].op = "role"
  /\ \E h \in BOOLEAN :
       role' = [a \in Accounts |-> IF a \in job[k].target THEN h ELSE role[a]]
  /\ UNCHANGED row

WritePrivileges(k) ==
  /\ apc[k] = "write"
  /\ WriteRow(k) \/ WriteRole(k)
  /\ job' = [job EXCEPT ![k].kicks = job[k].target]
  /\ Step(k, "kick")
  /\ UNCHANGED <<cred, banned, denied, connVars, presenceVars, lock,
                 accepting, ops>>

\* The policy, or the write, refuses.
RefuseWrite(k) ==
  /\ apc[k] \in {"write", "reset"}
  /\ Finish(k)
  /\ UNCHANGED <<dbVars, connVars, presenceVars, accepting, ops>>

---------------------------------------------------------------------------
(* Passwords and bans.                                                     *)

LockReset(k, a) ==
  /\ Begin(k) /\ Acquire(k)
  /\ job' = [job EXCEPT ![k] = [NoJob EXCEPT !.target = {a}]]
  /\ Step(k, "reset")
  /\ UNCHANGED <<dbVars, connVars, presenceVars, accepting>>

\* set_account_password replaces the password whatever it was.
ResetPassword(k) ==
  /\ apc[k] = "reset"
  /\ cred' = [a \in Accounts |-> IF a \in job[k].target THEN cred[a] + 1
                                 ELSE cred[a]]
  /\ job' = [job EXCEPT ![k].kicks = job[k].target]
  /\ Step(k, "kick")
  /\ UNCHANGED <<row, role, banned, denied, connVars, presenceVars, lock,
                 accepting, ops>>

\* AdminDisconnect, with or without a ban; it does not take the lock.
Disconnect(k, a, ban) ==
  /\ Begin(k)
  /\ banned' = IF ban THEN banned \cup {a} ELSE banned
  /\ job' = [job EXCEPT ![k] = [NoJob EXCEPT !.kicks = {a}]]
  /\ Step(k, "kick")
  /\ UNCHANGED <<row, role, cred, denied, connVars, presenceVars, lock,
                 accepting>>

\* BanRemove, or the ban's time is over.
BanEnds(a) ==
  /\ a \in banned
  /\ banned' = banned \ {a}
  /\ UNCHANGED <<row, role, cred, denied, connVars, presenceVars, adminVars>>

---------------------------------------------------------------------------
(* IP rules.                                                               *)

\* IpRuleCreate or IpRuleDelete: store and recompile, under its own mutex.
ChangeRules(k, rules) ==
  /\ Begin(k)
  /\ denied' = rules
  /\ job' = [job EXCEPT ![k] = NoJob]
  /\ Step(k, "ruled")
  /\ UNCHANGED <<row, role, cred, banned, connVars, presenceVars, lock,
                 accepting>>

\* disconnect_denied: list the roster, judge each entry, kick by username.
AskList(k) ==
  /\ apc[k] = "ruled"
  /\ Send("list", k, NoUser)
  /\ Step(k, "listing")
  /\ UNCHANGED <<dbVars, connVars, roster, kill, closing, listing, lock, job,
                 accepting, ops>>

ListAnswered(k) ==
  /\ apc[k] = "listing" /\ Answered(k)
  /\ job' = [job EXCEPT ![k].list = listing[k]]
  /\ Step(k, "match")
  /\ UNCHANGED <<dbVars, connVars, presenceVars, lock, accepting, ops>>

MatchEntry(k) ==
  /\ apc[k] = "match"
  /\ \E c \in job[k].list :
       job' = [job EXCEPT
         ![k].list = @ \ {c},
         ![k].kicks = IF who[c] # Operator /\ AddressOf[c] \in denied
                        THEN @ \cup {who[c]} ELSE @]
  /\ UNCHANGED <<dbVars, connVars, presenceVars, lock, apc, accepting, ops>>

MatchedAll(k) ==
  /\ apc[k] = "match" /\ job[k].list = {}
  /\ Step(k, "kick")
  /\ UNCHANGED <<dbVars, connVars, presenceVars, lock, job, accepting, ops>>

---------------------------------------------------------------------------
(* The kicks of a request, one at a time.                                  *)

\* The kicks still owed; kick_changed disconnects the accounts whose effective
\* privileges changed.
MustKick(k, a) ==
  /\ apc[k] \in {"kick", "wait"} /\ a \in job[k].kicks
  /\ job[k].op \in {"row", "role"} => Stored(a) # job[k].old[a]

KickNext(k) ==
  /\ apc[k] = "kick"
  /\ \E a \in job[k].kicks :
       /\ job' = [job EXCEPT ![k].kicks = @ \ {a}]
       /\ Send("kick", k, a)
  /\ Step(k, "wait")
  /\ UNCHANGED <<dbVars, connVars, roster, kill, closing, listing, lock,
                 accepting, ops>>

\* An account whose state is unreadable is kicked too, so only one read to
\* be unchanged is passed over.
PassOver(k) ==
  /\ apc[k] = "kick"
  /\ \E a \in job[k].kicks :
       ~MustKick(k, a) /\ job' = [job EXCEPT ![k].kicks = @ \ {a}]
  /\ UNCHANGED <<dbVars, connVars, presenceVars, lock, apc, accepting, ops>>

KickAnswered(k) ==
  /\ apc[k] = "wait" /\ Answered(k)
  /\ Step(k, "kick")
  /\ accepting' = (accepting /\ job[k].op # "stop")
  /\ UNCHANGED <<dbVars, connVars, presenceVars, lock, job, ops>>

KickedAll(k) ==
  /\ apc[k] = "kick" /\ job[k].kicks = {}
  /\ Finish(k)
  /\ UNCHANGED <<dbVars, connVars, presenceVars, accepting, ops>>

---------------------------------------------------------------------------
(* Shutdown.                                                               *)

\* AdminShutdown: notice, DisconnectAll, then stop accepting.
AdminShutdown(k) ==
  /\ Begin(k)
  /\ job' = [job EXCEPT ![k] = [NoJob EXCEPT !.op = "stop"]]
  /\ Send("notice", k, NoUser)
  /\ Step(k, "noticed")
  /\ UNCHANGED <<dbVars, connVars, roster, kill, closing, listing, lock,
                 accepting>>

NoticeAnswered(k) ==
  /\ apc[k] = "noticed" /\ Answered(k)
  /\ Send("all", k, NoUser)
  /\ Step(k, "wait")
  /\ UNCHANGED <<dbVars, connVars, roster, kill, closing, listing, lock, job,
                 accepting, ops>>

\* Server::shutdown (a signal): stop accepting first.
SignalShutdown(k) ==
  /\ Begin(k)
  /\ accepting' = FALSE
  /\ job' = [job EXCEPT ![k] = [NoJob EXCEPT !.op = "stop"]]
  /\ Send("all", k, NoUser)
  /\ Step(k, "wait")
  /\ UNCHANGED <<dbVars, connVars, roster, kill, closing, listing, lock>>

---------------------------------------------------------------------------
(* The specification.                                                      *)

\* What a connection's task does without its client.
TaskStep(c) ==
  \/ CheckBan(c) \/ ReadRoles(c) \/ Admit(c) \/ Greet(c) \/ JoinAnswered(c)
  \/ RecheckRow(c) \/ RecheckRole(c) \/ RecheckCredential(c)
  \/ RecheckBan(c) \/ RecheckAddress(c)
  \/ Killed(c) \/ SignOutOthers(c) \/ OthersSignedOut(c)
  \/ LeavePresence(c) \/ EndSession(c)

\* What its client, the network and failures do to it.
ClientStep(c) ==
  \/ Accept(c) \/ (\E a \in Accounts : BeginLogin(c, a))
  \/ AnswerChallenge(c) \/ FailLogin(c) \/ GreetFails(c) \/ RecheckFails(c)
  \/ Close(c) \/ BeginPasswordChange(c) \/ FinishPasswordChange(c)
  \/ FailPasswordChange(c) \/ DropTask(c)

\* A request arrives at an administrator's handler.
Request(k) ==
  \/ \E what \in Requests \cap {"row", "role"},
        target \in SUBSET Accounts \ {{}} : LockPrivileges(k, what, target)
  \/ "reset" \in Requests /\ \E a \in Accounts : LockReset(k, a)
  \/ "ban" \in Requests /\ \E a \in Accounts, ban \in BOOLEAN :
                             Disconnect(k, a, ban)
  \/ "rules" \in Requests /\ \E rules \in SUBSET Addresses :
                               ChangeRules(k, rules)
  \/ "shutdown" \in Requests /\ (AdminShutdown(k) \/ SignalShutdown(k))

\* The handler goes on.
HandlerStep(k) ==
  \/ WritePrivileges(k) \/ RefuseWrite(k) \/ ResetPassword(k)
  \/ AskList(k) \/ ListAnswered(k) \/ MatchEntry(k) \/ MatchedAll(k)
  \/ KickNext(k) \/ PassOver(k) \/ KickAnswered(k) \/ KickedAll(k)
  \/ NoticeAnswered(k)

ActorStep ==
  PresenceStep /\ UNCHANGED <<dbVars, adminVars, sessions, pc, sess, fails,
                              pinned, reaper>>

Next ==
  \/ ActorStep
  \/ \E c \in Conns : TaskStep(c) \/ ClientStep(c) \/ LeaveLogin(c) \/ Reap(c)
  \/ \E k \in Admins : Request(k) \/ HandlerStep(k)
  \/ \E a \in Accounts : BanEnds(a)

\* The runtime polls every task that can go on, and AUTH_TIMEOUT ends a login
\* its client does not finish.  Nothing is assumed of clients.
Fairness ==
  /\ WF_vars(ActorStep)
  /\ \A c \in Conns :
       WF_vars(TaskStep(c)) /\ WF_vars(LeaveLogin(c)) /\ WF_vars(Reap(c))
  /\ \A k \in Admins : WF_vars(HandlerStep(k))

Spec == Init /\ [][Next]_vars
FairSpec == Spec /\ Fairness

---------------------------------------------------------------------------
(* Properties.                                                             *)

\* A disconnect that will reach session c is on its way: its signal has
\* fired, the command is in the mailbox, or the handler that owes it has yet
\* to send it.
KickDue(c) ==
  \/ c \in kill
  \/ \E i \in DOMAIN inbox : Reaches(inbox[i], c)
  \/ \E k \in Admins : MustKick(k, who[c])
  \/ \E d \in Conns \ {c} : pc[d] = "changed" /\ who[d] = who[c]

\* The same for a disconnect by address, whose handler lists the roster first.
EvictionDue(c) ==
  \/ KickDue(c)
  \/ \E k \in Admins :
       \/ apc[k] = "ruled"
       \/ apc[k] = "listing" /\ (~Answered(k) \/ c \in listing[k])
       \/ apc[k] = "match" /\ (c \in job[k].list \/ who[c] \in job[k].kicks)

\* A session past a re-check and not yet cleaned up.
Past(c, checks) == pc[c] \in checks \cup Serving

\* The comment on stale_login_reason: "this re-read sees every change whose
\* kick missed us; any later kick reaches our kill signal".  A session that
\* serves requests proved the password its account has now, or is about to be
\* disconnected.
CredentialFresh ==
  \A c \in Conns : Past(c, {"re_cred", "re_ban"}) =>
    sess[c].cred = cred[who[c]] \/ KickDue(c)

\* The same for a ban set while the login was under way or afterwards.
BanFresh ==
  \A c \in Conns : Past(c, {"re_ban"}) => who[c] \notin banned \/ KickDue(c)

\* The same for an address the IP rules have come to deny, the administrator
\* who edits them excepted (disconnect_denied's `exempt`).
AddressFresh ==
  \A c \in Conns : Past(c, {}) =>
    \/ AddressOf[c] \notin denied
    \/ who[c] = Operator
    \/ EvictionDue(c)

\* The same for privileges: what AuthResult told the client, and what every
\* handler checks, is what the account has stored.  "so they hold for as long
\* as it lives" (connection.rs, above AuthResult).
PrivilegesFresh ==
  \A c \in Conns : Past(c, {"re_role", "re_cred", "re_ban"}) =>
    sess[c].priv = Stored(who[c]) \/ KickDue(c)

\* A login under way when an administrator acts is as good as one made after:
\* it is re-checked, or the administrator's disconnect reaches it.
SignInsFresh == CredentialFresh /\ PrivilegesFresh /\ BanFresh /\ AddressFresh

\* Once PasswordChangeResult has reported success no session of the account
\* that proved an older password goes on serving: each has its kill signal.
ChangeSignsOutOthers ==
  \A c, d \in Conns :
    /\ pc[c] = "dispatch" /\ sess[c].renewed
    /\ pc[d] \in Serving /\ who[d] = who[c] /\ sess[d].cred < sess[c].cred
    => d \in kill

\* A session is registered exactly while its connection is between admission
\* and cleanup, and listed as online unless it is on its way in or out; what
\* is left of a lost connection has a Leave coming.  "a login session lives
\* exactly as long as its connection" (listener.rs, on why there is no
\* session sweeper).  Sessions that max_users applies to never exceed it,
\* however their logins interleave (AuthManager::admit).
LeaveDue(c) ==
  \/ c \in reaper
  \/ \E i \in DOMAIN inbox : inbox[i].by = c /\ inbox[i].op = "leave"

SessionsExact ==
  /\ SessionTypeOK
  /\ sessions = {c \in Conns : pc[c] \in Registered}
  /\ \A c \in Conns :
       /\ pc[c] \in Joined \ {"left"} => c \in roster
       /\ c \in roster =>
            pc[c] \in {"joining"} \cup (Joined \ {"left"}) \/ LeaveDue(c)
  /\ MaxUsers # 0 => Cardinality({c \in sessions : ~sess[c].priv}) <= MaxUsers

\* A session whose footing is gone ends: demoted, banned or signed out
\* elsewhere, it does not serve for ever.
StaleSessionsEnd ==
  \A c \in Conns :
    (Past(c, {}) /\ (sess[c].cred # cred[who[c]] \/ who[c] \in banned))
      ~> ~(Past(c, {}) /\ (sess[c].cred # cred[who[c]] \/ who[c] \in banned))

\* Shutdown drains the server, logins in flight included: every session ends
\* and the roster empties, for good.
ShutdownDrains == ~accepting ~> [](sessions = {} /\ roster = {})
=============================================================================
