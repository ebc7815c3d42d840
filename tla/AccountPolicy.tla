--------------------------- MODULE AccountPolicy ---------------------------
(***************************************************************************)
(* auth/policy.rs: who may change whose class, overrides, roles, password  *)
(* and bans.  The request handlers of several people run at once.  A       *)
(* mutation resolves its actor, checks the policy and writes while it      *)
(* holds RoleManager::mutations; AdminDisconnect's ban takes no lock.      *)
(*                                                                         *)
(* Only the administrative privileges are modelled: the ones of classes.rs *)
(* that the class Admin has and no lower class.  Kicking the sessions a    *)
(* change concerns is in SessionAdmin; here a session keeps its login      *)
(* snapshot until it logs in again, which covers the moment before a kick. *)
(***************************************************************************)
EXTENDS Integers, FiniteSets

CONSTANTS
  Accounts,       \* usernames
  People,         \* clients, each with one session
  Privs,          \* administrative privileges
  Roles,          \* role ids
  Servers,        \* how a server may be set up at the start
  Durations,      \* lengths of bans
  MaxNow,         \* bound: the clock
  MaxRequests     \* bound: requests carried out

Guest == 0
Admin == 3
AdminCore == {"USER_ADMIN", "SERVER_ADMIN"}
Free == "free"
NoOne == "nobody"

OpNames ==
  {"none", "create", "update", "reset", "role_create", "role_update",
   "role_delete", "assign", "unassign", "ban", "unban"}
InputType ==
  [class : Guest..Admin, granted : SUBSET Privs, revoked : SUBSET Privs]

\* The accounts, overrides and roles a server starts with, whose account each
\* person has, and what the people ask for: kinds of request, and the class
\* and overrides these carry.
ServerType ==
  [own : [People -> Accounts], exists : SUBSET Accounts, roles : SUBSET Roles,
   class : [Accounts -> Guest..Admin], granted : [Accounts -> SUBSET Privs],
   revoked : [Accounts -> SUBSET Privs], holds : [Accounts -> SUBSET Roles],
   grants : [Roles -> SUBSET Privs], ops : SUBSET OpNames,
   inputs : SUBSET InputType]

ASSUME PolicyConstants ==
  /\ AdminCore \cup {"USER_KICK", "USER_BAN"} \subseteq Privs
  /\ Durations \subseteq Nat \ {0} /\ {MaxNow, MaxRequests} \subseteq Nat
  /\ Free \notin People /\ NoOne \notin Accounts \cup Roles
  /\ \A s \in Servers :
       /\ s \in ServerType
       /\ \A k \in People : s.own[k] \in s.exists
       /\ \A a \in Accounts \ s.exists : s.holds[a] = {}
       /\ \E a \in s.exists :
            s.class[a] = Admin /\ s.revoked[a] \cap AdminCore = {}

VARIABLES
  \* the database
  exists, class, granted, revoked,  \* accounts
  roles, grants, holds,             \* roles, account_roles
  ban,                              \* bans: [until, by, rank], or NoBan
  \* the process
  session,  \* a person's session: account, and class and privileges at login
  lock,     \* RoleManager::mutations
  pc, req,  \* a handler's position and the request it is working on
  \* outside
  knows,    \* the accounts a person knows the password of
  now,      \* unix seconds
  made,     \* requests so far
  server    \* how this server was set up

accountVars == <<exists, class, granted, revoked>>
roleVars == <<roles, grants, holds>>
policyVars == <<accountVars, roleVars, ban, session, lock, pc, req, knows, now,
                made, server>>

---------------------------------------------------------------------------
(* Authority.                                                              *)

ClassPrivileges(c) == IF c = Admin THEN Privs ELSE {}

EffectivePrivileges(c, viaRoles, plus, minus) ==
  (ClassPrivileges(c) \cup viaRoles \cup plus) \ minus

RolePrivileges(a) == UNION {grants[r] : r \in holds[a]}

Effective(a) ==
  EffectivePrivileges(class[a], RolePrivileges(a), granted[a], revoked[a])

Administers(a) ==
  a \in exists /\ class[a] = Admin /\ AdminCore \subseteq Effective(a)

\* Actor::narrowed: the login snapshot narrowed by the stored account.
Actor(k) ==
  LET s == session[k] IN
  [name  |-> s.account,
   class |-> IF s.class < class[s.account] THEN s.class ELSE class[s.account],
   privs |-> s.privs \cap Effective(s.account)]

MayManage(actor, a) ==
  /\ a \in exists
  /\ actor.class = Admin \/ class[a] < actor.class
  /\ Effective(a) \subseteq actor.privs

MayAssignClass(actor, c) == actor.class = Admin \/ c < actor.class

CheckOverrides_Mutation(actor, input) ==
  EffectivePrivileges(input.class, {}, {}, input.revoked) \subseteq actor.privs

CheckOverrides(actor, input) ==
  input.granted \cup EffectivePrivileges(input.class, {}, input.granted,
                                         input.revoked) \subseteq actor.privs

\* Editing oneself may only take class or privileges away.
NoSelfEscalation(actor, a, input) ==
  actor.name = a =>
    /\ input.class <= class[a]
    /\ EffectivePrivileges(input.class, RolePrivileges(a), input.granted,
                           input.revoked) \subseteq Effective(a)

\* Storage counts the other accounts that are Admin, no core bit revoked.
OtherAdministrators(a) ==
  {b \in exists \ {a} : class[b] = Admin /\ revoked[b] \cap AdminCore = {}}

StillAdministers(a, input) ==
  /\ input.class = Admin
  /\ AdminCore \subseteq EffectivePrivileges(input.class, RolePrivileges(a),
                                             input.granted, input.revoked)

KeepsAnAdministrator(a, input) ==
  Administers(a) /\ ~StillAdministers(a, input) => OtherAdministrators(a) # {}

MayLiftBan(actor, b) ==
  \/ actor.class = Admin
  \/ actor.class > b.rank
  \/ actor.name = b.by /\ actor.class >= b.rank

---------------------------------------------------------------------------
(* The checks of each request, on the state as its handler reads it.       *)

MayCreate(actor, q) ==
  /\ q.target \notin exists
  /\ MayAssignClass(actor, q.input.class)
  /\ CheckOverrides(actor, q.input)

MayUpdate(actor, q) ==
  /\ MayManage(actor, q.target)
  /\ MayAssignClass(actor, q.input.class)
  /\ CheckOverrides(actor, q.input)
  /\ NoSelfEscalation(actor, q.target, q.input)
  /\ KeepsAnAdministrator(q.target, q.input)

MayReset_Mutation(actor, q) ==
  /\ q.target \in exists /\ q.target # actor.name
  /\ actor.class = Admin \/ class[q.target] < actor.class

MayReset(actor, q) == q.target # actor.name /\ MayManage(actor, q.target)

\* RoleCreate, RoleUpdate (to the privileges in q.input.granted), RoleDelete.
MayCreateRole(actor, q) ==
  q.role \notin roles /\ q.input.granted \subseteq actor.privs

Holders(r) == {a \in exists : r \in holds[a]}

MayEditRole(actor, q) ==
  /\ q.role \in roles
  /\ grants[q.role] \cup q.input.granted \subseteq actor.privs
  /\ \A a \in Holders(q.role) : MayManage(actor, a)

\* RoleAssign, RoleUnassign.
MayAssignRole(actor, q) ==
  /\ q.role \in roles
  /\ grants[q.role] \subseteq actor.privs
  /\ MayManage(actor, q.target)

MayUnban(actor, q) ==
  /\ "USER_BAN" \in actor.privs
  /\ q.target \in exists /\ class[q.target] <= actor.class

Permits(actor, q) ==
  \/ /\ "USER_ADMIN" \in actor.privs
     /\ \/ q.op = "create" /\ MayCreate(actor, q)
        \/ q.op = "update" /\ MayUpdate(actor, q)
        \/ q.op = "reset" /\ MayReset(actor, q)
        \/ q.op = "role_create" /\ MayCreateRole(actor, q)
        \/ q.op \in {"role_update", "role_delete"} /\ MayEditRole(actor, q)
        \/ q.op \in {"assign", "unassign"} /\ MayAssignRole(actor, q)
  \/ q.op = "unban" /\ MayUnban(actor, q)

\* AdminDisconnect with a ban: the class of one of the target's sessions, if
\* it has any, and its stored class both count.
Online(a) == {session[k].class : k \in {j \in People : session[j].account = a}}

MayBan(actor, q) ==
  /\ {"USER_KICK", "USER_BAN"} \subseteq actor.privs
  /\ q.target # actor.name /\ q.target \in exists
  /\ Online(q.target) = {} \/ \E live \in Online(q.target) : live <= actor.class
  /\ class[q.target] <= actor.class

---------------------------------------------------------------------------
(* State.                                                                  *)

Snapshot(a) == [account |-> a, class |-> class[a], privs |-> Effective(a)]

NoBan == [until |-> 0, by |-> NoOne, rank |-> Guest]
InForce(a) == ban[a].until > now

Grant(plus) == [class |-> Guest, granted |-> plus, revoked |-> {}]
NoInput == Grant({})
Request(op, a, r, input, secs) ==
  [op |-> op, target |-> a, role |-> r, input |-> input, secs |-> secs,
   rank |-> Guest]
NoRequest == Request("none", NoOne, NoOne, NoInput, 0)

\* What a client may ask for.
AccountRequests ==
  {Request(op, a, NoOne, i, 0) :
     op \in {"create", "update"}, a \in Accounts, i \in server.inputs}
NameRequests ==
  {Request(op, a, NoOne, NoInput, 0) :
     op \in {"reset", "unban"}, a \in Accounts}
BanRequests ==
  {Request("ban", a, NoOne, NoInput, d) : a \in Accounts, d \in Durations}
RoleRequests ==
  {Request(op, NoOne, r, Grant(i.granted), 0) :
     op \in {"role_create", "role_update"}, r \in Roles, i \in server.inputs}
DeleteRequests ==
  {Request("role_delete", NoOne, r, NoInput, 0) : r \in Roles}
AssignRequests ==
  {Request(op, a, r, NoInput, 0) :
     op \in {"assign", "unassign"}, a \in Accounts, r \in Roles}
Requests ==
  {q \in AccountRequests \cup NameRequests \cup BanRequests
         \cup RoleRequests \cup DeleteRequests \cup AssignRequests :
     q.op \in server.ops}

RequestType ==
  [op : OpNames, target : Accounts \cup {NoOne}, role : Roles \cup {NoOne},
   input : InputType, secs : Nat, rank : Guest..Admin]

PolicyTypeOK ==
  /\ exists \subseteq Accounts /\ roles \subseteq Roles
  /\ class \in [Accounts -> Guest..Admin]
  /\ granted \in [Accounts -> SUBSET Privs]
  /\ revoked \in [Accounts -> SUBSET Privs]
  /\ holds \in [Accounts -> SUBSET Roles]
  /\ grants \in [Roles -> SUBSET Privs]
  /\ ban \in [Accounts -> [until : Nat, by : Accounts \cup {NoOne},
                           rank : Guest..Admin]]
  /\ session \in [People -> [account : Accounts, class : Guest..Admin,
                             privs : SUBSET Privs]]
  /\ lock \in People \cup {Free}
  /\ pc \in [People -> {"idle", "allowed", "banning"}]
  /\ req \in [People -> RequestType]
  /\ knows \in [People -> SUBSET Accounts]
  /\ now \in Nat /\ made \in Nat /\ server \in Servers

PolicyInit ==
  /\ server \in Servers
  /\ exists = server.exists /\ class = server.class
  /\ granted = server.granted /\ revoked = server.revoked
  /\ roles = server.roles /\ holds = server.holds /\ grants = server.grants
  /\ ban = [a \in Accounts |-> NoBan]
  /\ session = [k \in People |-> Snapshot(server.own[k])]
  /\ lock = Free
  /\ pc = [k \in People |-> "idle"]
  /\ req = [k \in People |-> NoRequest]
  /\ knows = [k \in People |-> {server.own[k]}]
  /\ now = 1 /\ made = 0

---------------------------------------------------------------------------
(* Actions.                                                                *)

\* Kicked after a change, or of their own accord, a person logs in again: to
\* any account whose password they know and which no ban keeps out.
LogIn(k, a) ==
  /\ pc[k] = "idle"
  /\ a \in knows[k] /\ ~InForce(a)
  /\ session' = [session EXCEPT ![k] = Snapshot(a)]
  /\ UNCHANGED <<accountVars, roleVars, ban, lock, pc, req, knows, now, made,
                 server>>

\* Take the lock, resolve the actor and check; a refused request is over.
Authorize_Mutation(k, q) ==
  /\ pc[k] = "idle" /\ made < MaxRequests
  /\ Permits(Actor(k), q)
  /\ made' = made + 1
  /\ pc' = [pc EXCEPT ![k] = "allowed"]
  /\ req' = [req EXCEPT ![k] = q]
  /\ UNCHANGED <<accountVars, roleVars, ban, session, lock, knows, now,
                 server>>

Authorize(k, q) ==
  /\ pc[k] = "idle" /\ made < MaxRequests
  /\ lock = Free
  /\ Permits(Actor(k), q)
  /\ lock' = k
  /\ made' = made + 1
  /\ pc' = [pc EXCEPT ![k] = "allowed"]
  /\ req' = [req EXCEPT ![k] = q]
  /\ UNCHANGED <<accountVars, roleVars, ban, session, knows, now, server>>

\* The answer is sent and the lock let go.
Finish(k) ==
  /\ pc' = [pc EXCEPT ![k] = "idle"]
  /\ req' = [req EXCEPT ![k] = NoRequest]
  /\ lock' = IF lock = k THEN Free ELSE lock
  /\ UNCHANGED <<session, now, made, server>>

\* create_account, update_account: class and overrides are written together.
WriteAccount(k) ==
  LET q == req[k] IN
  /\ pc[k] = "allowed" /\ q.op \in {"create", "update"}
  /\ exists' = exists \cup {q.target}
  /\ class' = [class EXCEPT ![q.target] = q.input.class]
  /\ granted' = [granted EXCEPT ![q.target] = q.input.granted]
  /\ revoked' = [revoked EXCEPT ![q.target] = q.input.revoked]
  /\ knows' = IF q.op = "create"
                THEN [knows EXCEPT ![k] = @ \cup {q.target}] ELSE knows
  /\ Finish(k)
  /\ UNCHANGED <<roleVars, ban>>

\* set_account_password: whoever knew the old password no longer does.
WritePassword(k) ==
  /\ pc[k] = "allowed" /\ req[k].op = "reset"
  /\ knows' = [j \in People |-> IF j = k THEN knows[j] \cup {req[k].target}
                                         ELSE knows[j] \ {req[k].target}]
  /\ Finish(k)
  /\ UNCHANGED <<accountVars, roleVars, ban>>

\* create_role, update_role.
WriteRole(k) ==
  LET q == req[k] IN
  /\ pc[k] = "allowed" /\ q.op \in {"role_create", "role_update"}
  /\ roles' = roles \cup {q.role}
  /\ grants' = [grants EXCEPT ![q.role] = q.input.granted]
  /\ Finish(k)
  /\ UNCHANGED <<accountVars, holds, ban, knows>>

\* delete_role: its assignments go with it.
DeleteRole(k) ==
  LET r == req[k].role IN
  /\ pc[k] = "allowed" /\ req[k].op = "role_delete"
  /\ roles' = roles \ {r}
  /\ grants' = [grants EXCEPT ![r] = {}]
  /\ holds' = [a \in Accounts |-> holds[a] \ {r}]
  /\ Finish(k)
  /\ UNCHANGED <<accountVars, ban, knows>>

\* set_role_assignment.
WriteAssignment(k) ==
  LET q == req[k] IN
  /\ pc[k] = "allowed" /\ q.op \in {"assign", "unassign"}
  /\ holds' = [holds EXCEPT ![q.target] =
                 IF q.op = "assign" THEN @ \cup {q.role} ELSE @ \ {q.role}]
  /\ Finish(k)
  /\ UNCHANGED <<accountVars, roles, grants, ban, knows>>

\* remove_ban: the rank check and the delete are one transaction.
LiftBan_Mutation(k) ==
  LET a == req[k].target IN
  /\ pc[k] = "allowed" /\ req[k].op = "unban"
  /\ ban' = [ban EXCEPT ![a] = NoBan]
  /\ Finish(k)
  /\ UNCHANGED <<accountVars, roleVars, knows>>

LiftBan(k) ==
  LET a == req[k].target IN
  /\ pc[k] = "allowed" /\ req[k].op = "unban"
  /\ ban' = IF InForce(a) /\ MayLiftBan(Actor(k), ban[a])
              THEN [ban EXCEPT ![a] = NoBan] ELSE ban
  /\ Finish(k)
  /\ UNCHANGED <<accountVars, roleVars, knows>>

\* AdminDisconnect: its class is read with these checks, and no lock is held.
AuthorizeBan(k, q) ==
  /\ pc[k] = "idle" /\ made < MaxRequests
  /\ q.op = "ban" /\ MayBan(Actor(k), q)
  /\ made' = made + 1
  /\ pc' = [pc EXCEPT ![k] = "banning"]
  /\ req' = [req EXCEPT ![k] = [q EXCEPT !.rank = Actor(k).class]]
  /\ UNCHANGED <<accountVars, roleVars, ban, session, lock, knows, now,
                 server>>

\* bans::set_ranked: a ban in force is replaced by a higher rank or by its own
\* banner, and otherwise merged into.
SetRanked(a, until, by, rank) ==
  LET old == ban[a]
      replaces == rank > old.rank \/ (by = old.by /\ rank >= old.rank)
      later(x, y) == IF x > y THEN x ELSE y
  IN [ban EXCEPT ![a] =
        IF ~InForce(a) THEN [until |-> until, by |-> by, rank |-> rank]
        ELSE [until |-> IF replaces THEN until ELSE later(old.until, until),
              by    |-> IF rank > old.rank THEN by ELSE old.by,
              rank  |-> later(old.rank, rank)]]

PlaceBan(k) ==
  /\ pc[k] = "banning"
  /\ ban' = SetRanked(req[k].target, now + req[k].secs, session[k].account,
                      req[k].rank)
  /\ Finish(k)
  /\ UNCHANGED <<accountVars, roleVars, knows>>

Pass ==
  /\ now < MaxNow
  /\ now' = now + 1
  /\ UNCHANGED <<accountVars, roleVars, ban, session, lock, pc, req, knows,
                 made, server>>

PersonStep(k) ==
  \/ \E a \in Accounts : LogIn(k, a)
  \/ \E q \in Requests : Authorize(k, q) \/ AuthorizeBan(k, q)
  \/ WriteAccount(k) \/ WritePassword(k)
  \/ WriteRole(k) \/ DeleteRole(k) \/ WriteAssignment(k)
  \/ LiftBan(k) \/ PlaceBan(k)

PolicyNext == Pass \/ \E k \in People : PersonStep(k)

PolicySpec == PolicyInit /\ [][PolicyNext]_policyVars

---------------------------------------------------------------------------
(* Properties.                                                             *)

\* "Last admin. No change may leave the server without an Admin-class account
\* that still holds both USER_ADMIN and SERVER_ADMIN" (policy.rs, header),
\* two administrators demoting each other at the same moment included.
LastAdmin == \E a \in Accounts : Administers(a)

\* What the people could do at the start, all of them together.
InitialRolePrivileges(a) == UNION {server.grants[r] : r \in server.holds[a]}
InitialEffective(a) ==
  EffectivePrivileges(server.class[a], InitialRolePrivileges(a),
                      server.granted[a], server.revoked[a])
Pool == UNION {InitialEffective(server.own[k]) : k \in People}
BelowSomeone(c) == \E k \in People : c < server.class[server.own[k]]

\* Rules about people who are not Admins, on a server where no override hides
\* what a role gives: check_overrides looks at class and overrides only, so
\* whoever may lift such an override gives the role's privilege back.
Delegated ==
  /\ \A k \in People : server.class[server.own[k]] < Admin
  /\ \A a \in server.exists :
       server.revoked[a] \cap InitialRolePrivileges(a) = {}

\* "No minting power", "No self-escalation" (policy.rs, header): whatever
\* delegates do to their own, to new and to other people's accounts and to
\* roles, no account rises to the class of the highest of them, and none gains
\* a privilege that none of them had.
NoMinting ==
  Delegated =>
    \A a \in exists :
      /\ a \notin server.exists \/ class[a] > server.class[a]
           => BelowSomeone(class[a])
      /\ a \in server.exists =>
           Effective(a) \ InitialEffective(a) \subseteq Pool
      /\ a \notin server.exists => Effective(a) \subseteq Pool

\* "nobody manages an account that can do things they can't", "a stronger
\* puppet" (policy.rs, header): no delegate comes to know the password of an
\* account, by creating it or by resetting its password, that is not below
\* the highest of them or that has a privilege none of them had.
NoTakeover ==
  Delegated =>
    \A k \in People : \A a \in knows[k] \ {server.own[k]} :
      BelowSomeone(class[a]) /\ Effective(a) \subseteq Pool

\* "a lower rank can never undo a higher rank's ban" (policy.rs, header): a
\* ban in force ends early, or is cut short, only at the hands of an Admin who
\* lifts it, of a higher rank, or of its own banner at no lower rank.
Rank(k) == IF pc[k] = "banning" THEN req[k].rank ELSE Actor(k).class

RankedBans ==
  [][\A a \in Accounts :
       InForce(a) /\ ban'[a].until < ban[a].until =>
         \E k \in People :
           /\ pc[k] # "idle" /\ pc'[k] = "idle" /\ req[k].target = a
           /\ \/ req[k].op = "unban" /\ Rank(k) = Admin
              \/ Rank(k) > ban[a].rank
              \/ ban[a].by = session[k].account /\ Rank(k) >= ban[a].rank
    ]_policyVars

=============================================================================
