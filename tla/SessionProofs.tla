---------------------------- MODULE SessionProofs ----------------------------
(***************************************************************************)
(* Theorems about SessionAdmin, for any connections, accounts, handlers,   *)
(* addresses and limits: the registry and the roster agree with the        *)
(* connections, a password change ends the other sessions, and what a      *)
(* session was logged in on stays true or a disconnect is on its way.      *)
(***************************************************************************)
EXTENDS SessionAdmin, TLAPS, FiniteSetTheorems

(* From its challenge on a login is for an account.                        *)
Known ==
  \A c \in Conns : pc[c] \notin {"new", "auth", "ended"} => who[c] \in Accounts

Typed == SessionTypeOK /\ Known

(* Who is or was listed as online is an account's.                         *)
Mentioned ==
  \A c \in Conns :
    \/ c \in roster
    \/ \E k \in Admins : c \in listing[k] \cup job[k].list
    => who[c] \in Accounts

(* Who has which command in the mailbox, and where it waits.               *)
Expected(m) ==
  \/ m.by \in Conns /\ m.op = "join" /\ pc[m.by] \in {"joining", "ended"}
                    /\ who[m.by] \in Accounts
  \/ m.by \in Conns /\ m.op = "others" /\ m.user = who[m.by]
                    /\ pc[m.by] \in {"kicking", "ended"}
  \/ m.by \in Conns /\ m.op = "leave" /\ pc[m.by] \in {"left", "ended"}
  \/ m.by \in Admins /\ m.op = "list" /\ apc[m.by] = "listing"
  \/ m.by \in Admins /\ m.op = "notice" /\ apc[m.by] = "noticed"
  \/ m.by \in Admins /\ m.op \in {"kick", "all"} /\ apc[m.by] = "wait"

(* A connection's Join comes before whatever else it sent.                 *)
MailOK ==
  /\ \A i \in DOMAIN inbox : Expected(inbox[i])
  /\ \A i, j \in DOMAIN inbox :
       i < j /\ inbox[i].by = inbox[j].by => inbox[j].op # "join"

(* The registry, and what has ended.                                       *)
Registry ==
  /\ sessions = {c \in Conns : pc[c] \in Registered}
  /\ gone = {c \in Conns : pc[c] = "ended"}
  /\ reaper \subseteq gone

(* Where a connection is listed as online.                                 *)
Online == Joined \ {"left"}

Listed(c) ==
  /\ pc[c] \in Online => c \in roster
  /\ pc[c] = "joining" => c \in roster \/ ~Answered(c)
  /\ c \in roster => pc[c] \in {"joining"} \cup Online \/ LeaveDue(c)
  /\ \A i \in DOMAIN inbox :
       inbox[i].op = "join" /\ inbox[i].by = c =>
         pc[c] = "joining" \/ LeaveDue(c)

Capped ==
  MaxUsers # 0 => Cardinality({c \in sessions : ~sess[c].priv}) <= MaxUsers

(* What a login proved is not newer than what the account has, and only a  *)
(* session that has served carries a changed password.                     *)
Proven(c) ==
  /\ pc[c] \notin {"new", "auth", "ended"} => sess[c].cred <= cred[who[c]]
  /\ sess[c].renewed => pc[c] \in Serving \cup {"leaving", "left"}

(* After c changed the password: d, which proved an older one, has its     *)
(* kill signal, unless c has yet to ask for it or the actor to answer.     *)
SignsOut(c, d) ==
  /\ sess[c].renewed /\ Past(d, {"re_cred", "re_ban"})
  /\ who[d] = who[c] /\ sess[d].cred < sess[c].cred
  => \/ d \in kill \/ pc[c] = "changed"
     \/ \E i \in DOMAIN inbox : inbox[i].by = c /\ inbox[i].op = "others"

(* What the handlers hold while they work.                                 *)
Handling(k) ==
  /\ apc[k] \in {"reset", "ruled", "listing", "match"} => job[k].op = "force"
  /\ apc[k] = "noticed" => job[k].op = "stop"
  /\ apc[k] = "write" =>
       /\ job[k].op \in Requests \cap {"row", "role"}
       /\ \A a \in Accounts : job[k].old[a] = Stored(a)
  /\ apc[k] \in {"write", "kick", "wait"} /\ job[k].op \in {"row", "role"} =>
       lock = k

(* The parts of SignInsFresh that hold whatever is requested.              *)
FreshOf(c) ==
  /\ Past(c, {"re_cred", "re_ban"}) => sess[c].cred = cred[who[c]] \/ KickDue(c)
  /\ Past(c, {"re_ban"}) => who[c] \notin banned \/ KickDue(c)
  /\ Past(c, {}) =>
       \/ AddressOf[c] \notin denied \/ who[c] = Operator \/ EvictionDue(c)

(* Privileges, when only the row or only the roles are ever edited: the    *)
(* two reads of a re-check then see one state of the account.              *)
OneKind == "row" \notin Requests \/ "role" \notin Requests

Empowered(c) ==
  /\ pc[c] = "re_row" =>
       \/ KickDue(c)
       \/ Effective(sess[c].row, role[who[c]]) = Stored(who[c])
          /\ ("row" \notin Requests => sess[c].row = row[who[c]])
  /\ Past(c, {"re_role", "re_cred", "re_ban"}) =>
       sess[c].priv = Stored(who[c]) \/ KickDue(c)

SessionInv ==
  /\ Typed /\ Mentioned /\ MailOK /\ Registry /\ Capped
  /\ \A c \in Conns : Listed(c) /\ Proven(c) /\ FreshOf(c)
  /\ \A c, d \in Conns : SignsOut(c, d)
  /\ \A k \in Admins : Handling(k)

Places == {"new", "ended"} \cup LoggingIn \cup Registered

---------------------------------------------------------------------------
(* The mailbox after a command was appended, and after its head was taken. *)
LEMMA Appended ==
  ASSUME inbox \in Seq(Commands), NEW op, NEW x, NEW u,
         Command(op, x, u) \in Commands, Send(op, x, u)
  PROVE  /\ inbox' \in Seq(Commands)
         /\ Len(inbox) \in Nat /\ DOMAIN inbox = 1 .. Len(inbox)
         /\ DOMAIN inbox' = 1 .. (Len(inbox) + 1)
         /\ \A i \in DOMAIN inbox : inbox'[i] = inbox[i]
         /\ inbox'[Len(inbox) + 1] = Command(op, x, u)
  BY DEF Send

LEMMA Taken ==
  ASSUME inbox \in Seq(Commands), inbox # <<>>, inbox' = Tail(inbox)
  PROVE  /\ inbox' \in Seq(Commands)
         /\ Head(inbox) = inbox[1] /\ 1 \in DOMAIN inbox
         /\ DOMAIN inbox \subseteq Nat /\ DOMAIN inbox' \subseteq Nat
         /\ \A i \in DOMAIN inbox' :
              i + 1 \in DOMAIN inbox /\ inbox'[i] = inbox[i + 1]
         /\ \A i \in DOMAIN inbox : i # 1 =>
              i - 1 \in DOMAIN inbox' /\ inbox'[i - 1] = inbox[i]
  BY DEF Commands

(* A refused login goes back to the first request, or ends.                 *)
LEMMA Refused ==
  ASSUME NEW c \in Conns, Refuse(c), sess \in [Conns -> Sessioned],
         fails \in [Conns -> Nat], pinned \in [Conns -> Nat]
  PROVE  /\ \/ Goto(c, "auth") /\ UNCHANGED <<gone, sess, pinned>>
            \/ End(c)
         /\ \/ pc' = [pc EXCEPT ![c] = "auth"] /\ gone' = gone
            \/ pc' = [pc EXCEPT ![c] = "ended"] /\ gone' = gone \cup {c}
         /\ sessions' = sessions
         /\ sess' \in [Conns -> Sessioned]
         /\ fails' \in [Conns -> Nat] /\ pinned' \in [Conns -> Nat]
<1>1. CASE fails[c] + 1 >= MaxAttempts
  <2>1. End(c) /\ sessions' = sessions
    BY <1>1 DEF Refuse
  <2>2. NoSession \in Sessioned
    BY DEF NoSession, Sessioned, Rows
  <2> QED BY <2>1, <2>2 DEF End, NoChange, Goto
<1>2. CASE ~(fails[c] + 1 >= MaxAttempts)
  BY <1>2 DEF Refuse, Goto
<1> QED BY <1>1, <1>2

(* What a session keeps of its login stays a session record.               *)
LEMMA SessionRecords ==
  ASSUME sess \in [Conns -> Sessioned], NEW c \in Conns
  PROVE  /\ \A x \in Nat : [sess EXCEPT ![c].cred = x] \in [Conns -> Sessioned]
         /\ \A x \in Nat : [sess EXCEPT ![c].cred = x, ![c].renewed = TRUE]
                             \in [Conns -> Sessioned]
         /\ \A r \in Rows : [sess EXCEPT ![c].row = r] \in [Conns -> Sessioned]
         /\ \A b \in BOOLEAN : [sess EXCEPT ![c].priv = b]
                                 \in [Conns -> Sessioned]
  BY DEF Sessioned

LEMMA TypedConn ==
  ASSUME Typed, NEW c \in Conns,
         TaskStep(c) \/ ClientStep(c) \/ LeaveLogin(c) \/ Reap(c)
  PROVE  Typed'
<1> USE DEF Typed
<1>0. /\ sess \in [Conns -> Sessioned] /\ pc \in [Conns -> Places]
      /\ pc[c] \notin {"new", "auth", "ended"} => who[c] \in Accounts
      /\ who \in [Conns -> Accounts \cup {NoUser}]
      /\ inbox \in Seq(Commands) /\ pinned \in [Conns -> Nat]
      /\ fails \in [Conns -> Nat]
      /\ cred \in [Accounts -> Nat \ {0}] /\ role \in [Accounts -> BOOLEAN]
      /\ row \in [Accounts -> Rows]
  BY DEF SessionTypeOK, PresenceTypeOK, Known, Places
<1>1. CASE Accept(c)
  BY <1>1 DEF Accept, SessionTypeOK, PresenceTypeOK, Known, LoggingIn,
     Rechecking, Serving, Joined, Registered, Sessioned, NoSession, Goto, End,
     Recheck, NoChange, Rows, dbVars, connVars, adminVars, presenceVars
<1>2. CASE Greet(c)
  <2>1. Command("join", c, who[c]) \in Commands
    BY <1>0 DEF Command, Commands
  <2>2. inbox' \in Seq(Commands)
    BY <1>2, <1>0, <2>1, Appended DEF Greet
  <2> QED BY <1>2, <2>2 DEF Greet, SessionTypeOK, PresenceTypeOK, Known,
             LoggingIn, Rechecking, Serving, Joined, Registered, Sessioned,
             NoSession, Goto, End, Recheck, NoChange, Rows, dbVars, connVars,
             adminVars, presenceVars
<1>3. CASE JoinAnswered(c)
  BY <1>3 DEF JoinAnswered, SessionTypeOK, PresenceTypeOK, Known, LoggingIn,
     Rechecking, Serving, Joined, Registered, Sessioned, NoSession, Goto, End,
     Recheck, NoChange, Rows, dbVars, connVars, adminVars, presenceVars
<1>4. CASE RecheckRole(c)
  BY <1>4 DEF RecheckRole, SessionTypeOK, PresenceTypeOK, Known, LoggingIn,
     Rechecking, Serving, Joined, Registered, Sessioned, NoSession, Goto, End,
     Recheck, NoChange, Rows, dbVars, connVars, adminVars, presenceVars
<1>5. CASE RecheckCredential(c)
  BY <1>5 DEF RecheckCredential, SessionTypeOK, PresenceTypeOK, Known,
     LoggingIn, Rechecking, Serving, Joined, Registered, Sessioned, NoSession,
     Goto, End, Recheck, NoChange, Rows, dbVars, connVars, adminVars,
     presenceVars
<1>6. CASE RecheckBan(c)
  BY <1>6 DEF RecheckBan, SessionTypeOK, PresenceTypeOK, Known, LoggingIn,
     Rechecking, Serving, Joined, Registered, Sessioned, NoSession, Goto, End,
     Recheck, NoChange, Rows, dbVars, connVars, adminVars, presenceVars
<1>7. CASE RecheckAddress(c)
  BY <1>7 DEF RecheckAddress, SessionTypeOK, PresenceTypeOK, Known, LoggingIn,
     Rechecking, Serving, Joined, Registered, Sessioned, NoSession, Goto, End,
     Recheck, NoChange, Rows, dbVars, connVars, adminVars, presenceVars
<1>8. CASE Killed(c)
  BY <1>8 DEF Killed, SessionTypeOK, PresenceTypeOK, Known, LoggingIn,
     Rechecking, Serving, Joined, Registered, Sessioned, NoSession, Goto, End,
     Recheck, NoChange, Rows, dbVars, connVars, adminVars, presenceVars
<1>9. CASE SignOutOthers(c)
  <2>1. Command("others", c, who[c]) \in Commands
    BY <1>0 DEF Command, Commands
  <2>2. inbox' \in Seq(Commands)
    BY <1>9, <1>0, <2>1, Appended DEF SignOutOthers
  <2> QED BY <1>9, <2>2 DEF SignOutOthers, SessionTypeOK, PresenceTypeOK,
             Known, LoggingIn, Rechecking, Serving, Joined, Registered,
             Sessioned, NoSession, Goto, End, Recheck, NoChange, Rows, dbVars,
             connVars, adminVars, presenceVars
<1>10. CASE OthersSignedOut(c)
  BY <1>10 DEF OthersSignedOut, SessionTypeOK, PresenceTypeOK, Known,
     LoggingIn, Rechecking, Serving, Joined, Registered, Sessioned, NoSession,
     Goto, End, Recheck, NoChange, Rows, dbVars, connVars, adminVars,
     presenceVars
<1>11. CASE LeavePresence(c)
  <2>1. Command("leave", c, who[c]) \in Commands
    BY <1>0 DEF Command, Commands
  <2>2. inbox' \in Seq(Commands)
    BY <1>11, <1>0, <2>1, Appended DEF LeavePresence
  <2> QED BY <1>11, <2>2 DEF LeavePresence, SessionTypeOK, PresenceTypeOK,
             Known, LoggingIn, Rechecking, Serving, Joined, Registered,
             Sessioned, NoSession, Goto, End, Recheck, NoChange, Rows, dbVars,
             connVars, adminVars, presenceVars
<1>12. CASE EndSession(c)
  BY <1>12 DEF EndSession, SessionTypeOK, PresenceTypeOK, Known, LoggingIn,
     Rechecking, Serving, Joined, Registered, Sessioned, NoSession, Goto, End,
     Recheck, NoChange, Rows, dbVars, connVars, adminVars, presenceVars
<1>13. CASE FailLogin(c)
  <2>1. Refuse(c)
    BY <1>13 DEF FailLogin
  <2>2. /\ sessions' = sessions /\ sess' \in [Conns -> Sessioned]
        /\ fails' \in [Conns -> Nat] /\ pinned' \in [Conns -> Nat]
        /\ \/ pc' = [pc EXCEPT ![c] = "auth"] /\ gone' = gone
           \/ pc' = [pc EXCEPT ![c] = "ended"] /\ gone' = gone \cup {c}
    BY <1>0, <2>1, Refused
  <2>3. pc' \in [Conns -> Places] /\ gone' \subseteq Conns /\ Known'
    BY <1>13, <1>0, <2>2 DEF FailLogin, Places, LoggingIn, Known,
       SessionTypeOK, PresenceTypeOK
  <2> QED BY <1>13, <2>2, <2>3 DEF FailLogin, SessionTypeOK, PresenceTypeOK,
             dbVars, connVars, adminVars, presenceVars, Places
<1>14. CASE GreetFails(c)
  BY <1>14 DEF GreetFails, SessionTypeOK, PresenceTypeOK, Known, LoggingIn,
     Rechecking, Serving, Joined, Registered, Sessioned, NoSession, Goto, End,
     Recheck, NoChange, Rows, dbVars, connVars, adminVars, presenceVars
<1>15. CASE RecheckFails(c)
  BY <1>15 DEF RecheckFails, SessionTypeOK, PresenceTypeOK, Known, LoggingIn,
     Rechecking, Serving, Joined, Registered, Sessioned, NoSession, Goto, End,
     Recheck, NoChange, Rows, dbVars, connVars, adminVars, presenceVars
<1>16. CASE Close(c)
  BY <1>16 DEF Close, SessionTypeOK, PresenceTypeOK, Known, LoggingIn,
     Rechecking, Serving, Joined, Registered, Sessioned, NoSession, Goto, End,
     Recheck, NoChange, Rows, dbVars, connVars, adminVars, presenceVars
<1>17. CASE BeginPasswordChange(c)
  BY <1>17 DEF BeginPasswordChange, SessionTypeOK, PresenceTypeOK, Known,
     LoggingIn, Rechecking, Serving, Joined, Registered, Sessioned, NoSession,
     Goto, End, Recheck, NoChange, Rows, dbVars, connVars, adminVars,
     presenceVars
<1>18. CASE DropTask(c)
  BY <1>18 DEF DropTask, SessionTypeOK, PresenceTypeOK, Known, LoggingIn,
     Rechecking, Serving, Joined, Registered, Sessioned, NoSession, Goto, End,
     Recheck, NoChange, Rows, dbVars, connVars, adminVars, presenceVars
<1>19. CASE LeaveLogin(c)
  BY <1>19 DEF LeaveLogin, SessionTypeOK, PresenceTypeOK, Known, LoggingIn,
     Rechecking, Serving, Joined, Registered, Sessioned, NoSession, Goto, End,
     Recheck, NoChange, Rows, dbVars, connVars, adminVars, presenceVars
<1>20. CASE Reap(c)
  <2>1. Command("leave", c, who[c]) \in Commands
    BY <1>0 DEF Command, Commands
  <2>2. inbox' \in Seq(Commands)
    BY <1>20, <1>0, <2>1, Appended DEF Reap
  <2> QED BY <1>20, <2>2 DEF Reap, SessionTypeOK, PresenceTypeOK, Known,
             LoggingIn, Rechecking, Serving, Joined, Registered, Sessioned,
             NoSession, Goto, End, Recheck, NoChange, Rows, dbVars, connVars,
             adminVars, presenceVars
<1>21. CASE CheckBan(c)
  <2>1. \/ Refuse(c)
        \/ Goto(c, "unbanned")
             /\ UNCHANGED <<fails, sessions, sess, pinned, gone>>
    BY <1>21 DEF CheckBan
  <2>2. pc[c] \notin {"new", "auth", "ended"} /\ who[c] \in Accounts
        /\ row[who[c]] \in Rows
    BY <1>21, <1>0 DEF CheckBan
  <2>3. CASE Refuse(c)
    <3>1. /\ sessions' = sessions /\ sess' \in [Conns -> Sessioned]
          /\ fails' \in [Conns -> Nat] /\ pinned' \in [Conns -> Nat]
          /\ \/ pc' = [pc EXCEPT ![c] = "auth"] /\ gone' = gone
             \/ pc' = [pc EXCEPT ![c] = "ended"] /\ gone' = gone \cup {c}
      BY <1>0, <2>3, Refused
    <3>2. pc' \in [Conns -> Places] /\ gone' \subseteq Conns /\ Known'
      BY <1>21, <1>0, <3>1 DEF CheckBan, Places, LoggingIn, Known,
         SessionTypeOK, PresenceTypeOK
    <3> QED BY <1>21, <3>1, <3>2 DEF CheckBan, SessionTypeOK, PresenceTypeOK,
               dbVars, connVars, adminVars, presenceVars, Places
  <2>4. CASE Goto(c, "unbanned")
             /\ UNCHANGED <<fails, sessions, sess, pinned, gone>>
    <3>1. sess' \in [Conns -> Sessioned]
      BY <1>0, <2>2, <2>4, SessionRecords
    <3> QED BY <1>21, <2>2, <2>4, <3>1 DEF CheckBan, SessionTypeOK,
               PresenceTypeOK, Known, LoggingIn, Rechecking, Serving, Joined,
               Registered, Goto, Recheck, NoChange, dbVars, connVars,
               adminVars, presenceVars
  <2> QED BY <2>1, <2>3, <2>4
<1>22. CASE Admit(c)
  <2>1. \/ Refuse(c)
        \/ Goto(c, "admitted") /\ sessions' = sessions \cup {c}
             /\ UNCHANGED <<sess, fails, pinned, gone>>
    BY <1>22 DEF Admit
  <2>2. pc[c] \notin {"new", "auth", "ended"} /\ who[c] \in Accounts
        /\ row[who[c]] \in Rows
    BY <1>22, <1>0 DEF Admit
  <2>3. CASE Refuse(c)
    <3>1. /\ sessions' = sessions /\ sess' \in [Conns -> Sessioned]
          /\ fails' \in [Conns -> Nat] /\ pinned' \in [Conns -> Nat]
          /\ \/ pc' = [pc EXCEPT ![c] = "auth"] /\ gone' = gone
             \/ pc' = [pc EXCEPT ![c] = "ended"] /\ gone' = gone \cup {c}
      BY <1>0, <2>3, Refused
    <3>2. pc' \in [Conns -> Places] /\ gone' \subseteq Conns /\ Known'
      BY <1>22, <1>0, <3>1 DEF Admit, Places, LoggingIn, Known, SessionTypeOK,
         PresenceTypeOK
    <3> QED BY <1>22, <3>1, <3>2 DEF Admit, SessionTypeOK, PresenceTypeOK,
               dbVars, connVars, adminVars, presenceVars, Places
  <2>4. CASE Goto(c, "admitted") /\ sessions' = sessions \cup {c}
             /\ UNCHANGED <<sess, fails, pinned, gone>>
    <3>1. sess' \in [Conns -> Sessioned]
      BY <1>0, <2>2, <2>4, SessionRecords
    <3> QED BY <1>22, <2>2, <2>4, <3>1 DEF Admit, SessionTypeOK,
               PresenceTypeOK, Known, LoggingIn, Rechecking, Serving, Joined,
               Registered, Goto, Recheck, NoChange, dbVars, connVars,
               adminVars, presenceVars
  <2> QED BY <2>1, <2>3, <2>4
<1>23. CASE AnswerChallenge(c)
  <2>1. \/ Refuse(c)
        \/ Goto(c, "rowed")
             /\ sess' = [sess EXCEPT ![c].row = row[who[c]]]
             /\ UNCHANGED <<fails, sessions, pinned, gone>>
    BY <1>23 DEF AnswerChallenge
  <2>2. pc[c] \notin {"new", "auth", "ended"} /\ who[c] \in Accounts
        /\ row[who[c]] \in Rows
    BY <1>23, <1>0 DEF AnswerChallenge
  <2>3. CASE Refuse(c)
    <3>1. /\ sessions' = sessions /\ sess' \in [Conns -> Sessioned]
          /\ fails' \in [Conns -> Nat] /\ pinned' \in [Conns -> Nat]
          /\ \/ pc' = [pc EXCEPT ![c] = "auth"] /\ gone' = gone
             \/ pc' = [pc EXCEPT ![c] = "ended"] /\ gone' = gone \cup {c}
      BY <1>0, <2>3, Refused
    <3>2. pc' \in [Conns -> Places] /\ gone' \subseteq Conns /\ Known'
      BY <1>23, <1>0, <3>1 DEF AnswerChallenge, Places, LoggingIn, Known,
         SessionTypeOK, PresenceTypeOK
    <3> QED BY <1>23, <3>1, <3>2 DEF AnswerChallenge, SessionTypeOK,
               PresenceTypeOK, dbVars, connVars, adminVars, presenceVars,
               Places
  <2>4. CASE Goto(c, "rowed")
             /\ sess' = [sess EXCEPT ![c].row = row[who[c]]]
             /\ UNCHANGED <<fails, sessions, pinned, gone>>
    <3>1. sess' \in [Conns -> Sessioned]
      BY <1>0, <2>2, <2>4, SessionRecords
    <3> QED BY <1>23, <2>2, <2>4, <3>1 DEF AnswerChallenge, SessionTypeOK,
               PresenceTypeOK, Known, LoggingIn, Rechecking, Serving, Joined,
               Registered, Goto, Recheck, NoChange, dbVars, connVars,
               adminVars, presenceVars
  <2> QED BY <2>1, <2>3, <2>4
<1>24. CASE ReadRoles(c)
  <2>1. who[c] \in Accounts
    BY <1>24, <1>0 DEF ReadRoles
  <2>2. Effective(sess[c].row, role[who[c]]) \in BOOLEAN
    BY <1>0, <2>1 DEF Effective
  <2>3. sess' \in [Conns -> Sessioned]
    BY <1>24, <1>0, <2>1, <2>2, SessionRecords DEF ReadRoles
  <2>4. cred' \in [Accounts -> Nat \ {0}] /\ ops' \in Nat
    BY <1>24, <2>1, <2>2 DEF ReadRoles, SessionTypeOK, dbVars, adminVars
  <2>5. pc' \in [Conns -> Places] /\ pinned' \in [Conns -> Nat]
    BY <1>24, <1>0 DEF ReadRoles, Goto, Places, LoggingIn, Registered, Joined,
       Serving, Rechecking, NoChange
  <2>6. Known'
    BY <1>24, <1>0, <2>1 DEF ReadRoles, Known, Goto
  <2> QED BY <1>24, <2>3, <2>4, <2>5, <2>6 DEF ReadRoles, SessionTypeOK,
             PresenceTypeOK, dbVars, connVars, adminVars, presenceVars, Places
<1>25. CASE RecheckRow(c)
  <2>1. who[c] \in Accounts
    BY <1>25, <1>0 DEF RecheckRow
  <2>2. row[who[c]] \in Rows
    BY <1>0, <2>1 DEF Effective
  <2>3. sess' \in [Conns -> Sessioned]
    BY <1>25, <1>0, <2>1, <2>2, SessionRecords DEF RecheckRow
  <2>4. cred' \in [Accounts -> Nat \ {0}] /\ ops' \in Nat
    BY <1>25, <2>1, <2>2 DEF RecheckRow, SessionTypeOK, dbVars, adminVars
  <2>5. pc' \in [Conns -> Places] /\ pinned' \in [Conns -> Nat]
    BY <1>25, <1>0 DEF RecheckRow, Goto, Places, LoggingIn, Registered,
       Joined, Serving, Rechecking, NoChange
  <2>6. Known'
    BY <1>25, <1>0, <2>1 DEF RecheckRow, Known, Goto
  <2> QED BY <1>25, <2>3, <2>4, <2>5, <2>6 DEF RecheckRow, SessionTypeOK,
             PresenceTypeOK, dbVars, connVars, adminVars, presenceVars, Places
<1>26. CASE FinishPasswordChange(c)
  <2>1. who[c] \in Accounts
    BY <1>26, <1>0 DEF FinishPasswordChange
  <2>2. cred[who[c]] \in Nat \ {0} /\ cred[who[c]] + 1 \in Nat \ {0}
    BY <1>0, <2>1 DEF Effective
  <2>3. sess' \in [Conns -> Sessioned]
    <3>1. \/ sess' = sess
          \/ sess' = [sess EXCEPT ![c].cred = cred[who[c]] + 1,
                                 ![c].renewed = TRUE]
      BY <1>26 DEF FinishPasswordChange
    <3>2. cred[who[c]] + 1 \in Nat
      BY <2>2
    <3>3. [sess EXCEPT ![c].cred = cred[who[c]] + 1, ![c].renewed = TRUE]
            \in [Conns -> Sessioned]
      BY <1>0, <3>2, SessionRecords
    <3> QED BY <1>0, <3>1, <3>3
  <2>4. cred' \in [Accounts -> Nat \ {0}] /\ ops' \in Nat
    BY <1>26, <2>1, <2>2 DEF FinishPasswordChange, SessionTypeOK, dbVars,
       adminVars
  <2>5. pc' \in [Conns -> Places] /\ pinned' \in [Conns -> Nat]
    BY <1>26, <1>0 DEF FinishPasswordChange, Goto, Places, LoggingIn,
       Registered, Joined, Serving, Rechecking, NoChange
  <2>6. Known'
    BY <1>26, <1>0, <2>1 DEF FinishPasswordChange, Known, Goto
  <2> QED BY <1>26, <2>3, <2>4, <2>5, <2>6 DEF FinishPasswordChange,
             SessionTypeOK, PresenceTypeOK, dbVars, connVars, adminVars,
             presenceVars, Places
<1>27. CASE FailPasswordChange(c)
  <2>1. pc' = pc \/ pc' = [pc EXCEPT ![c] = "leaving"]
    BY <1>27 DEF FailPasswordChange, Goto
  <2>2. pc' \in [Conns -> Places] /\ Known'
    BY <1>27, <1>0, <2>1 DEF FailPasswordChange, Known, Places, Registered,
       Joined
  <2> QED BY <1>27, <2>2 DEF FailPasswordChange, SessionTypeOK,
             PresenceTypeOK, dbVars, connVars, adminVars, presenceVars,
             Places, NoChange
<1>28. ASSUME NEW a \in Accounts, BeginLogin(c, a)
      PROVE  Typed'
  <2>1. cred[a] \in Nat
    BY <1>0
  <2>2. sess' \in [Conns -> Sessioned]
    BY <1>28, <1>0, <2>1, SessionRecords DEF BeginLogin
  <2>3. who' \in [Conns -> Accounts \cup {NoUser}] /\ who'[c] = a
        /\ \A d \in Conns \ {c} : who'[d] = who[d]
    BY <1>28, <1>0 DEF BeginLogin
  <2>4. pc' \in [Conns -> Places] /\ Known'
    BY <1>28, <1>0, <2>3 DEF BeginLogin, Known, Goto, Places, LoggingIn
  <2> QED BY <1>28, <2>2, <2>3, <2>4 DEF BeginLogin, SessionTypeOK,
             PresenceTypeOK, dbVars, connVars, adminVars, presenceVars, Places
<1> QED BY <1>1, <1>2, <1>3, <1>4, <1>5, <1>6, <1>7, <1>8, <1>9, <1>10, <1>11,
           <1>12, <1>13, <1>14, <1>15, <1>16, <1>17, <1>18, <1>19, <1>20,
           <1>21, <1>22, <1>23, <1>24, <1>25, <1>26, <1>27, <1>28
           DEF TaskStep, ClientStep

(* One turn of the actor.                                                  *)
LEMMA Turn ==
  ASSUME inbox \in Seq(Commands), MailOK, PresenceStep
  PROVE  /\ 1 \in DOMAIN inbox /\ Head(inbox) = inbox[1]
         /\ Head(inbox) \in Commands /\ Expected(Head(inbox))
         /\ \/ HandleJoin(Head(inbox)) \/ HandleLeave(Head(inbox))
            \/ HandleKill(Head(inbox)) \/ HandleNotice(Head(inbox))
            \/ HandleList(Head(inbox))
         /\ inbox' \in Seq(Commands)
         /\ UNCHANGED <<who, gone>>
<1>1. inbox # <<>> /\ inbox' = Tail(inbox)
  BY DEF PresenceStep
<1>2. /\ 1 \in DOMAIN inbox /\ Head(inbox) = inbox[1]
      /\ inbox' \in Seq(Commands)
  BY <1>1, Taken
<1>3. Head(inbox) \in Commands
  BY <1>1
<1>4. Expected(inbox[1])
  BY <1>2 DEF MailOK
<1> QED BY <1>2, <1>3, <1>4 DEF PresenceStep

LEMMA TypedActor ==
  ASSUME Typed, MailOK, ActorStep
  PROVE  Typed'
<1> DEFINE cmd == Head(inbox)
<1>1. /\ inbox \in Seq(Commands) /\ roster \subseteq Conns
      /\ kill \subseteq Conns /\ listing \in [Admins -> SUBSET Conns]
      /\ closing \in BOOLEAN
      /\ PresenceStep
  BY DEF Typed, SessionTypeOK, PresenceTypeOK, ActorStep
<1>2. /\ inbox' \in Seq(Commands) /\ Expected(cmd)
      /\ \/ HandleJoin(cmd) \/ HandleLeave(cmd) \/ HandleKill(cmd)
         \/ HandleNotice(cmd) \/ HandleList(cmd)
      /\ UNCHANGED <<who, gone>>
  BY <1>1, Turn
<1>3. ASSUME NEW S \in SUBSET Conns, NEW T
      PROVE  Announce(S, T) \subseteq Conns
  BY DEF Announce
<1>4. /\ roster' \subseteq Conns /\ kill' \subseteq Conns
      /\ closing' \in BOOLEAN /\ listing' \in [Admins -> SUBSET Conns]
  <2>1. CASE HandleJoin(cmd)
    <3>1. cmd.by \in Conns
      BY <1>2, <2>1 DEF HandleJoin, Expected
    <3> QED BY <1>1, <1>3, <2>1, <3>1 DEF HandleJoin
  <2>2. CASE HandleLeave(cmd)
    BY <1>1, <1>3, <2>2 DEF HandleLeave
  <2>3. CASE HandleKill(cmd)
    <3>1. closing' \in BOOLEAN
      BY <1>1, <2>3 DEF HandleKill
    <3>2. roster' \in {roster, roster \ gone}
      BY <2>3 DEF HandleKill
    <3>3. kill' \subseteq kill \cup roster
      BY <2>3 DEF HandleKill
    <3>4. listing' = listing
      BY <2>3 DEF HandleKill
    <3> QED BY <1>1, <3>1, <3>2, <3>3, <3>4
  <2>4. CASE HandleNotice(cmd)
    BY <1>1, <1>3, <2>4 DEF HandleNotice
  <2>5. CASE HandleList(cmd)
    BY <1>1, <2>5 DEF HandleList
  <2> QED BY <1>2, <2>1, <2>2, <2>3, <2>4, <2>5
<1> QED BY <1>2, <1>4 DEF ActorStep, Typed, SessionTypeOK, PresenceTypeOK,
           Known, dbVars, adminVars

(* What a handler keeps of its request stays a job.                        *)
LEMMA JobRecords ==
  ASSUME job \in [Admins -> Jobs], NEW k \in Admins
  PROVE  /\ NoJob \in Jobs
         /\ [job EXCEPT ![k] = NoJob] \in [Admins -> Jobs]
         /\ \A S \in SUBSET Accounts :
              /\ [job EXCEPT ![k].kicks = S] \in [Admins -> Jobs]
              /\ [job EXCEPT ![k] = [NoJob EXCEPT !.kicks = S]]
                   \in [Admins -> Jobs]
              /\ [job EXCEPT ![k] = [NoJob EXCEPT !.target = S]]
                   \in [Admins -> Jobs]
         /\ [job EXCEPT ![k] = [NoJob EXCEPT !.op = "stop"]]
              \in [Admins -> Jobs]
         /\ \A S \in SUBSET Conns :
              [job EXCEPT ![k].list = S] \in [Admins -> Jobs]
         /\ \A S \in SUBSET Conns, T \in SUBSET Accounts :
              [job EXCEPT ![k].list = S, ![k].kicks = T] \in [Admins -> Jobs]
<1>1. NoJob \in Jobs
  BY DEF NoJob, Jobs
<1> QED BY <1>1 DEF Jobs

(* The privileges an account has are there or not.                         *)
LEMMA StoredBoolean ==
  ASSUME role \in [Accounts -> BOOLEAN], row \in [Accounts -> Rows]
  PROVE  [a \in Accounts |-> Stored(a)] \in [Accounts -> BOOLEAN]
<1>1. ASSUME NEW a \in Accounts
      PROVE  Stored(a) \in BOOLEAN
  <2>1. role[a] \in BOOLEAN
    OBVIOUS
  <2> QED BY <2>1 DEF Stored, Effective
<1> QED BY <1>1

LEMMA TypedAdmin ==
  ASSUME Typed, Mentioned, NEW k \in Admins, Request(k) \/ HandlerStep(k)
  PROVE  Typed'
<1>0. /\ job \in [Admins -> Jobs] /\ inbox \in Seq(Commands)
      /\ apc \in [Admins -> {"idle", "write", "reset", "ruled", "listing",
                             "match", "kick", "wait", "noticed"}]
      /\ cred \in [Accounts -> Nat \ {0}] /\ role \in [Accounts -> BOOLEAN]
      /\ row \in [Accounts -> Rows] /\ ops \in Nat
      /\ listing \in [Admins -> SUBSET Conns]
      /\ lock \in Admins \cup {Free}
  BY DEF Typed, SessionTypeOK, PresenceTypeOK
<1>1. ASSUME NEW what \in {"row", "role"}, NEW target \in SUBSET Accounts,
             LockPrivileges(k, what, target)
      PROVE  Typed'
  <2>1. [a \in Accounts |-> Stored(a)] \in [Accounts -> BOOLEAN]
    BY <1>0, StoredBoolean
  <2>2. [NoJob EXCEPT !.op = what, !.target = target,
                      !.old = [a \in Accounts |-> Stored(a)]] \in Jobs
    BY <2>1, JobRecords, <1>0 DEF Jobs
  <2>3. job' \in [Admins -> Jobs]
    BY <1>1, <1>0, <2>2 DEF LockPrivileges
  <2> QED BY <1>1, <1>0, <2>3 DEF LockPrivileges, Step, Begin, Acquire, Typed,
             SessionTypeOK, PresenceTypeOK, Known, dbVars, connVars,
             adminVars, presenceVars
<1>2. ASSUME NEW a \in Accounts, LockReset(k, a)
      PROVE  Typed'
  <2>1. {a} \in SUBSET Accounts
    BY <1>0
  <2>2. job' \in [Admins -> Jobs]
    BY <1>2, <1>0, <2>1, JobRecords DEF LockReset
  <2> QED BY <1>2, <1>0, <2>2 DEF LockReset, Step, Begin, Acquire, Typed,
             SessionTypeOK, PresenceTypeOK, Known, dbVars, connVars,
             adminVars, presenceVars
<1>3. ASSUME NEW a \in Accounts, NEW ban \in BOOLEAN, Disconnect(k, a, ban)
      PROVE  Typed'
  <2>1. {a} \in SUBSET Accounts
    BY <1>0
  <2>2. job' \in [Admins -> Jobs]
    BY <1>3, <1>0, <2>1, JobRecords DEF Disconnect
  <2> QED BY <1>3, <1>0, <2>2 DEF Disconnect, Step, Begin, Acquire, Typed,
             SessionTypeOK, PresenceTypeOK, Known, dbVars, connVars,
             adminVars, presenceVars
<1>4. ASSUME NEW rules \in SUBSET Addresses, ChangeRules(k, rules)
      PROVE  Typed'
  <2>1. job' \in [Admins -> Jobs]
    BY <1>4, <1>0, JobRecords DEF ChangeRules
  <2> QED BY <1>4, <1>0, <2>1 DEF ChangeRules, Step, Begin, Typed,
             SessionTypeOK, PresenceTypeOK, Known, dbVars, connVars,
             adminVars, presenceVars
<1>5. CASE AdminShutdown(k)
  <2>1. Command("notice", k, NoUser) \in Commands
    BY <1>0 DEF Command, Commands
  <2>2. inbox' \in Seq(Commands)
    BY <1>5, <1>0, <2>1, Appended DEF AdminShutdown
  <2>3. job' \in [Admins -> Jobs]
    BY <1>5, <1>0, JobRecords DEF AdminShutdown, adminVars
  <2> QED BY <1>5, <1>0, <2>2, <2>3 DEF AdminShutdown, Step, Begin, Typed,
             SessionTypeOK, PresenceTypeOK, Known, dbVars, connVars,
             adminVars, presenceVars
<1>6. CASE SignalShutdown(k)
  <2>1. Command("all", k, NoUser) \in Commands
    BY <1>0 DEF Command, Commands
  <2>2. inbox' \in Seq(Commands)
    BY <1>6, <1>0, <2>1, Appended DEF SignalShutdown
  <2>3. job' \in [Admins -> Jobs]
    BY <1>6, <1>0, JobRecords DEF SignalShutdown, adminVars
  <2>4. accepting' \in BOOLEAN
    BY <1>6 DEF SignalShutdown
  <2> QED BY <1>6, <1>0, <2>2, <2>3, <2>4 DEF SignalShutdown, Step, Begin,
             Typed,
             SessionTypeOK, PresenceTypeOK, Known, dbVars, connVars,
             adminVars, presenceVars
<1>7. CASE WritePrivileges(k)
  <2>1. job[k].target \in SUBSET Accounts
    BY <1>0 DEF Jobs
  <2>2. job' \in [Admins -> Jobs]
    BY <1>7, <1>0, <2>1, JobRecords DEF WritePrivileges
  <2>3. row' \in [Accounts -> Rows] /\ role' \in [Accounts -> BOOLEAN]
    BY <1>7, <1>0 DEF WritePrivileges, WriteRow, WriteRole
  <2> QED BY <1>7, <1>0, <2>2, <2>3 DEF WritePrivileges, Step, Typed,
             SessionTypeOK, PresenceTypeOK, Known, dbVars, connVars,
             adminVars, presenceVars
<1>8. CASE RefuseWrite(k)
  <2>1. job' \in [Admins -> Jobs]
    BY <1>8, <1>0, JobRecords DEF RefuseWrite, Finish
  <2> QED BY <1>8, <1>0, <2>1 DEF RefuseWrite, Finish, Step, Typed,
             SessionTypeOK, PresenceTypeOK, Known, dbVars, connVars,
             adminVars, presenceVars
<1>9. CASE ResetPassword(k)
  <2>1. job[k].target \in SUBSET Accounts
    BY <1>0 DEF Jobs
  <2>2. job' \in [Admins -> Jobs]
    BY <1>9, <1>0, <2>1, JobRecords DEF ResetPassword
  <2>3. cred' \in [Accounts -> Nat \ {0}]
    BY <1>9, <1>0 DEF ResetPassword
  <2> QED BY <1>9, <1>0, <2>2, <2>3 DEF ResetPassword, Step, Typed,
             SessionTypeOK, PresenceTypeOK, Known, dbVars, connVars,
             adminVars, presenceVars
<1>10. CASE AskList(k)
  <2>1. Command("list", k, NoUser) \in Commands
    BY <1>0 DEF Command, Commands
  <2>2. inbox' \in Seq(Commands)
    BY <1>10, <1>0, <2>1, Appended DEF AskList
  <2>3. job' \in [Admins -> Jobs]
    BY <1>10, <1>0, JobRecords DEF AskList, adminVars
  <2> QED BY <1>10, <1>0, <2>2, <2>3 DEF AskList, Step, Begin, Typed,
             SessionTypeOK, PresenceTypeOK, Known, dbVars, connVars,
             adminVars, presenceVars
<1>11. CASE ListAnswered(k)
  <2>1. listing[k] \in SUBSET Conns
    BY <1>0
  <2>2. job' \in [Admins -> Jobs]
    BY <1>11, <1>0, <2>1, JobRecords DEF ListAnswered
  <2> QED BY <1>11, <1>0, <2>2 DEF ListAnswered, Step, Begin, Acquire, Typed,
             SessionTypeOK, PresenceTypeOK, Known, dbVars, connVars,
             adminVars, presenceVars
<1>12. CASE MatchEntry(k)
  <2>1. PICK c \in job[k].list :
          job' = [job EXCEPT
            ![k].list = @ \ {c},
            ![k].kicks = IF who[c] # Operator /\ AddressOf[c] \in denied
                           THEN @ \cup {who[c]} ELSE @]
    BY <1>12 DEF MatchEntry
  <2>2. job[k].list \in SUBSET Conns /\ job[k].kicks \in SUBSET Accounts
    BY <1>0 DEF Jobs
  <2>3. who[c] \in Accounts
    BY <2>2 DEF Mentioned
  <2>4. PICK T \in SUBSET Accounts :
          job' = [job EXCEPT ![k].list = job[k].list \ {c}, ![k].kicks = T]
    <3>1. CASE who[c] # Operator /\ AddressOf[c] \in denied
      <4>1. job' = [job EXCEPT ![k].list = job[k].list \ {c},
                               ![k].kicks = job[k].kicks \cup {who[c]}]
        BY <1>0, <2>1, <3>1
      <4> QED BY <2>2, <2>3, <4>1
    <3>2. CASE ~(who[c] # Operator /\ AddressOf[c] \in denied)
      <4>1. job' = [job EXCEPT ![k].list = job[k].list \ {c},
                               ![k].kicks = job[k].kicks]
        BY <1>0, <2>1, <3>2
      <4> QED BY <2>2, <4>1
    <3> QED BY <3>1, <3>2
  <2>5. job' \in [Admins -> Jobs]
    BY <1>0, <2>2, <2>4, JobRecords
  <2> QED BY <1>12, <1>0, <2>5 DEF MatchEntry, Typed, SessionTypeOK,
             PresenceTypeOK, Known, dbVars, connVars, adminVars, presenceVars
<1>13. CASE MatchedAll(k)
  BY <1>13, <1>0 DEF MatchedAll, Step, Begin, Acquire, Finish, Typed,
     SessionTypeOK, PresenceTypeOK, Known, dbVars, connVars, adminVars,
     presenceVars
<1>14. CASE KickNext(k)
  <2>1. PICK a \in job[k].kicks :
          /\ job' = [job EXCEPT ![k].kicks = @ \ {a}]
          /\ Send("kick", k, a)
    BY <1>14 DEF KickNext
  <2>2. job[k].kicks \in SUBSET Accounts
    BY <1>0 DEF Jobs
  <2>3. job' = [job EXCEPT ![k].kicks = job[k].kicks \ {a}]
    BY <1>0, <2>1
  <2>4. job' \in [Admins -> Jobs]
    BY <1>0, <2>2, <2>3, JobRecords
  <2>5. Command("kick", k, a) \in Commands
    BY <2>2 DEF Command, Commands
  <2>6. inbox' \in Seq(Commands)
    BY <1>0, <2>1, <2>5, Appended
  <2> QED BY <1>14, <1>0, <2>4, <2>6 DEF KickNext, Step, Typed, SessionTypeOK,
             PresenceTypeOK, Known, dbVars, connVars, adminVars, presenceVars
<1>15. CASE PassOver(k)
  <2>1. PICK a \in job[k].kicks : job' = [job EXCEPT ![k].kicks = @ \ {a}]
    BY <1>15 DEF PassOver
  <2>2. job[k].kicks \in SUBSET Accounts
    BY <1>0 DEF Jobs
  <2>3. job' = [job EXCEPT ![k].kicks = job[k].kicks \ {a}]
    BY <1>0, <2>1
  <2>4. job' \in [Admins -> Jobs]
    BY <1>0, <2>2, <2>3, JobRecords
  <2> QED BY <1>15, <1>0, <2>4 DEF PassOver, Typed, SessionTypeOK,
             PresenceTypeOK, Known, dbVars, connVars, adminVars, presenceVars
<1>16. CASE KickAnswered(k)
  <2>1. accepting' \in BOOLEAN
    BY <1>16 DEF KickAnswered
  <2> QED BY <1>16, <1>0, <2>1 DEF KickAnswered, Step, Typed, SessionTypeOK,
             PresenceTypeOK, Known, dbVars, connVars, adminVars, presenceVars
<1>17. CASE KickedAll(k)
  <2>1. job' \in [Admins -> Jobs]
    BY <1>17, <1>0, JobRecords DEF KickedAll, Finish
  <2> QED BY <1>17, <1>0, <2>1 DEF KickedAll, Finish, Step, Typed,
             SessionTypeOK, PresenceTypeOK, Known, dbVars, connVars,
             adminVars, presenceVars
<1>18. CASE NoticeAnswered(k)
  <2>1. Command("all", k, NoUser) \in Commands
    BY <1>0 DEF Command, Commands
  <2>2. inbox' \in Seq(Commands)
    BY <1>18, <1>0, <2>1, Appended DEF NoticeAnswered
  <2>3. job' \in [Admins -> Jobs]
    BY <1>18, <1>0, JobRecords DEF NoticeAnswered, adminVars
  <2> QED BY <1>18, <1>0, <2>2, <2>3 DEF NoticeAnswered, Step, Begin, Typed,
             SessionTypeOK, PresenceTypeOK, Known, dbVars, connVars,
             adminVars, presenceVars
<1>19. Request(k) => Typed'
  BY <1>1, <1>2, <1>3, <1>4, <1>5, <1>6 DEF Request
<1> QED BY <1>7, <1>8, <1>9, <1>10, <1>11, <1>12, <1>13, <1>14, <1>15, <1>16,
           <1>17, <1>18, <1>19 DEF HandlerStep

LEMMA TypedBan ==
  ASSUME Typed, NEW a \in Accounts, BanEnds(a)
  PROVE  Typed'
  BY DEF BanEnds, Typed, SessionTypeOK, PresenceTypeOK, Known, dbVars,
     connVars, adminVars, presenceVars
---------------------------------------------------------------------------
(* What the steps of a connection do, in eight kinds.                      *)
Before == {"new"} \cup LoggingIn

Alone(c) ==
  /\ \A d \in Conns \ {c} : pc'[d] = pc[d] /\ sess'[d] = sess[d]
                            /\ who'[d] = who[d]
  /\ UNCHANGED <<row, role, banned, denied, lock, apc, job, roster, kill,
                 closing, listing>>

(* The login goes on, or starts over.                                      *)
Walks(c) ==
  /\ pc[c] \in Before /\ pc'[c] \in LoggingIn
  /\ UNCHANGED <<inbox, cred, reaper, gone, sessions>>
  /\ sess'[c].renewed = sess[c].renewed
  /\ who'[c] = who[c] \/ (pc[c] = "auth" /\ who'[c] \in Accounts)
  /\ \/ pc'[c] = "auth"
     \/ pc[c] = "auth" /\ who'[c] \in Accounts
        /\ sess'[c].cred = cred[who'[c]]
     \/ pc[c] \notin {"new", "auth"} /\ sess'[c].cred = sess[c].cred
        /\ who'[c] = who[c]

(* It ends with nothing left behind.                                       *)
Quits(c) ==
  /\ pc[c] \in LoggingIn \cup {"admitted", "left"} /\ pc'[c] = "ended"
  /\ UNCHANGED <<inbox, cred, reaper, who>>
  /\ gone' = gone \cup {c} /\ sess'[c].renewed = FALSE
  /\ sessions' \in {sessions, sessions \ {c}}
  /\ pc[c] \notin LoggingIn => sessions' = sessions \ {c}

Admits(c) ==
  /\ pc[c] = "verified" /\ pc'[c] = "admitted" /\ ~Full(c)
  /\ sessions' = sessions \cup {c}
  /\ UNCHANGED <<inbox, cred, reaper, gone, sess, who>>

(* It sends the actor a command.                                           *)
Posts(c, from, op, to) ==
  /\ pc[c] = from /\ pc'[c] = to /\ Send(op, c, who[c])
  /\ UNCHANGED <<cred, reaper, gone, sessions, sess, who>>

(* It passes a check, serves a request or decides to leave.                *)
Serves(c) ==
  /\ pc[c] \in {"joining"} \cup Online /\ pc[c] \notin {"changed", "leaving"}
  /\ pc[c] \in {"joining", "kicking"} => Answered(c)
  /\ pc'[c] \in Rechecking \cup {"dispatch", "leaving"}
  /\ pc[c] \in Serving => pc'[c] \in {"dispatch", "leaving"}
  /\ UNCHANGED <<inbox, cred, reaper, gone, sessions, who>>
  /\ sess'[c].renewed = sess[c].renewed /\ sess'[c].cred = sess[c].cred
  /\ sess'[c].priv = sess[c].priv
  /\ pc'[c] = "re_row" => sess'[c].row = row[who[c]]
  /\ pc'[c] = "re_role" =>
       Effective(sess[c].row, role[who[c]]) = sess[c].priv /\ pc[c] = "re_row"
  /\ pc'[c] = "re_cred" => cred[who[c]] = sess[c].cred /\ pc[c] = "re_role"
  /\ pc'[c] = "re_ban" => who[c] \notin banned /\ pc[c] = "re_cred"
  /\ pc'[c] = "dispatch" =>
       \/ pc[c] \in Serving
       \/ AddressOf[c] \notin denied /\ pc[c] = "re_ban"

Changes(c) ==
  /\ pc[c] = "dispatch" /\ pc'[c] = "changed"
  /\ cred' = [cred EXCEPT ![who[c]] = @ + 1]
  /\ sess'[c].cred = cred[who[c]] + 1 /\ sess'[c].priv = sess[c].priv
  /\ UNCHANGED <<inbox, reaper, gone, sessions, who>>

(* Its task is lost, and the cleanup is spawned.                           *)
Drops(c) ==
  /\ pc[c] \in {"joining"} \cup (Joined \ {"changed"}) /\ pc'[c] = "ended"
  /\ UNCHANGED <<inbox, cred, who>>
  /\ gone' = gone \cup {c} /\ sess'[c].renewed = FALSE
  /\ sessions' = sessions \ {c} /\ reaper' = reaper \cup {c}

Reaps(c) ==
  /\ c \in reaper /\ reaper' = reaper \ {c} /\ sessions' = sessions \ {c}
  /\ Send("leave", c, who[c])
  /\ UNCHANGED <<cred, gone, pc, sess, who>>

Moves(c) ==
  /\ Alone(c)
  /\ \/ Walks(c) \/ Quits(c) \/ Admits(c) \/ Serves(c) \/ Changes(c)
     \/ Drops(c) \/ Reaps(c)
     \/ Posts(c, "admitted", "join", "joining")
     \/ Posts(c, "changed", "others", "kicking")
     \/ Posts(c, "leaving", "leave", "left")

(* Each step of a connection is of one of these kinds.                     *)
LEMMA ConnMoves ==
  ASSUME Typed, NEW c \in Conns,
         TaskStep(c) \/ ClientStep(c) \/ LeaveLogin(c) \/ Reap(c)
  PROVE  Moves(c)
<1>0. /\ sess \in [Conns -> Sessioned] /\ pc \in [Conns -> Places]
      /\ pc[c] \notin {"new", "auth", "ended"} => who[c] \in Accounts
      /\ who \in [Conns -> Accounts \cup {NoUser}]
      /\ fails \in [Conns -> Nat] /\ pinned \in [Conns -> Nat]
      /\ cred \in [Accounts -> Nat \ {0}]
  BY DEF Typed, SessionTypeOK, PresenceTypeOK, Known, Places
<1>1. CASE Accept(c)
  <2>1. Walks(c)
    BY <1>1, <1>0 DEF Accept, Walks, Goto, Before, LoggingIn, Rechecking,
       Serving, Joined, Online, Alone, dbVars, adminVars, connVars,
       presenceVars
  <2>2. Alone(c)
    BY <1>1, <1>0 DEF Accept, Goto, Alone, dbVars, adminVars, connVars,
       presenceVars
  <2> QED BY <2>1, <2>2 DEF Moves
<1>2. CASE ReadRoles(c)
  <2>1. Walks(c)
    BY <1>2, <1>0 DEF ReadRoles, Walks, Goto, Before, LoggingIn, Rechecking,
       Serving, Joined, Online, Alone, dbVars, adminVars, connVars,
       presenceVars, Sessioned
  <2>2. Alone(c)
    BY <1>2, <1>0 DEF ReadRoles, Goto, Alone, dbVars, adminVars, connVars,
       presenceVars, Sessioned
  <2> QED BY <2>1, <2>2 DEF Moves
<1>3. CASE LeaveLogin(c)
  <2>1. Quits(c)
    BY <1>3, <1>0 DEF LeaveLogin, Quits, Goto, Before, LoggingIn, Rechecking,
       Serving, Joined, Online, Alone, dbVars, adminVars, connVars,
       presenceVars, End, NoSession, Sessioned
  <2>2. Alone(c)
    BY <1>3, <1>0 DEF LeaveLogin, Goto, Alone, dbVars, adminVars, connVars,
       presenceVars, End, NoSession, Sessioned
  <2> QED BY <2>1, <2>2 DEF Moves
<1>4. CASE GreetFails(c)
  <2>1. Quits(c)
    BY <1>4, <1>0 DEF GreetFails, Quits, Goto, Before, LoggingIn, Rechecking,
       Serving, Joined, Online, Alone, dbVars, adminVars, connVars,
       presenceVars, End, NoSession, Sessioned
  <2>2. Alone(c)
    BY <1>4, <1>0 DEF GreetFails, Goto, Alone, dbVars, adminVars, connVars,
       presenceVars, End, NoSession, Sessioned
  <2> QED BY <2>1, <2>2 DEF Moves
<1>5. CASE EndSession(c)
  <2>1. Quits(c)
    BY <1>5, <1>0 DEF EndSession, Quits, Goto, Before, LoggingIn, Rechecking,
       Serving, Joined, Online, Alone, dbVars, adminVars, connVars,
       presenceVars, End, NoSession, Sessioned
  <2>2. Alone(c)
    BY <1>5, <1>0 DEF EndSession, Goto, Alone, dbVars, adminVars, connVars,
       presenceVars, End, NoSession, Sessioned
  <2> QED BY <2>1, <2>2 DEF Moves
<1>6. CASE DropTask(c)
  <2>1. Drops(c)
    BY <1>6, <1>0 DEF DropTask, Drops, Goto, Before, LoggingIn, Rechecking,
       Serving, Joined, Online, Alone, dbVars, adminVars, connVars,
       presenceVars, End, NoSession, Sessioned
  <2>2. Alone(c)
    BY <1>6, <1>0 DEF DropTask, Goto, Alone, dbVars, adminVars, connVars,
       presenceVars, End, NoSession, Sessioned
  <2> QED BY <2>1, <2>2 DEF Moves
<1>7. CASE Reap(c)
  <2>1. Reaps(c)
    BY <1>7, <1>0 DEF Reap, Reaps, Goto, Before, LoggingIn, Rechecking,
       Serving, Joined, Online, Alone, dbVars, adminVars, connVars,
       presenceVars
  <2>2. Alone(c)
    BY <1>7, <1>0 DEF Reap, Goto, Alone, dbVars, adminVars, connVars,
       presenceVars
  <2> QED BY <2>1, <2>2 DEF Moves
<1>8. CASE Greet(c)
  <2>1. Posts(c, "admitted", "join", "joining")
    BY <1>8, <1>0 DEF Greet, Posts, Goto, Before, LoggingIn, Rechecking,
       Serving, Joined, Online, Alone, dbVars, adminVars, connVars,
       presenceVars
  <2>2. Alone(c)
    BY <1>8, <1>0 DEF Greet, Goto, Alone, dbVars, adminVars, connVars,
       presenceVars
  <2> QED BY <2>1, <2>2 DEF Moves
<1>9. CASE SignOutOthers(c)
  <2>1. Posts(c, "changed", "others", "kicking")
    BY <1>9, <1>0 DEF SignOutOthers, Posts, Goto, Before, LoggingIn,
       Rechecking, Serving, Joined, Online, Alone, dbVars, adminVars,
       connVars, presenceVars
  <2>2. Alone(c)
    BY <1>9, <1>0 DEF SignOutOthers, Goto, Alone, dbVars, adminVars, connVars,
       presenceVars
  <2> QED BY <2>1, <2>2 DEF Moves
<1>10. CASE LeavePresence(c)
  <2>1. Posts(c, "leaving", "leave", "left")
    BY <1>10, <1>0 DEF LeavePresence, Posts, Goto, Before, LoggingIn,
       Rechecking, Serving, Joined, Online, Alone, dbVars, adminVars,
       connVars, presenceVars
  <2>2. Alone(c)
    BY <1>10, <1>0 DEF LeavePresence, Goto, Alone, dbVars, adminVars,
       connVars, presenceVars
  <2> QED BY <2>1, <2>2 DEF Moves
<1>11. CASE JoinAnswered(c)
  <2>1. Serves(c)
    BY <1>11, <1>0 DEF JoinAnswered, Serves, Goto, Before, LoggingIn,
       Rechecking, Serving, Joined, Online, Alone, dbVars, adminVars,
       connVars, presenceVars
  <2>2. Alone(c)
    BY <1>11, <1>0 DEF JoinAnswered, Goto, Alone, dbVars, adminVars, connVars,
       presenceVars
  <2> QED BY <2>1, <2>2 DEF Moves
<1>12. CASE RecheckRow(c)
  <2>1. Serves(c)
    BY <1>12, <1>0 DEF RecheckRow, Serves, Goto, Before, LoggingIn,
       Rechecking, Serving, Joined, Online, Alone, dbVars, adminVars,
       connVars, presenceVars, Recheck, Sessioned
  <2>2. Alone(c)
    BY <1>12, <1>0 DEF RecheckRow, Goto, Alone, dbVars, adminVars, connVars,
       presenceVars, Recheck, Sessioned
  <2> QED BY <2>1, <2>2 DEF Moves
<1>13. CASE RecheckRole(c)
  <2>1. Serves(c)
    BY <1>13, <1>0 DEF RecheckRole, Serves, Goto, Before, LoggingIn,
       Rechecking, Serving, Joined, Online, Alone, dbVars, adminVars,
       connVars, presenceVars, Recheck
  <2>2. Alone(c)
    BY <1>13, <1>0 DEF RecheckRole, Goto, Alone, dbVars, adminVars, connVars,
       presenceVars, Recheck
  <2> QED BY <2>1, <2>2 DEF Moves
<1>14. CASE RecheckCredential(c)
  <2>1. Serves(c)
    BY <1>14, <1>0 DEF RecheckCredential, Serves, Goto, Before, LoggingIn,
       Rechecking, Serving, Joined, Online, Alone, dbVars, adminVars,
       connVars, presenceVars, Recheck
  <2>2. Alone(c)
    BY <1>14, <1>0 DEF RecheckCredential, Goto, Alone, dbVars, adminVars,
       connVars, presenceVars, Recheck
  <2> QED BY <2>1, <2>2 DEF Moves
<1>15. CASE RecheckBan(c)
  <2>1. Serves(c)
    BY <1>15, <1>0 DEF RecheckBan, Serves, Goto, Before, LoggingIn,
       Rechecking, Serving, Joined, Online, Alone, dbVars, adminVars,
       connVars, presenceVars, Recheck
  <2>2. Alone(c)
    BY <1>15, <1>0 DEF RecheckBan, Goto, Alone, dbVars, adminVars, connVars,
       presenceVars, Recheck
  <2> QED BY <2>1, <2>2 DEF Moves
<1>16. CASE RecheckAddress(c)
  <2>1. Serves(c)
    BY <1>16, <1>0 DEF RecheckAddress, Serves, Goto, Before, LoggingIn,
       Rechecking, Serving, Joined, Online, Alone, dbVars, adminVars,
       connVars, presenceVars, Recheck
  <2>2. Alone(c)
    BY <1>16, <1>0 DEF RecheckAddress, Goto, Alone, dbVars, adminVars,
       connVars, presenceVars, Recheck
  <2> QED BY <2>1, <2>2 DEF Moves
<1>17. CASE RecheckFails(c)
  <2>1. Serves(c)
    BY <1>17, <1>0 DEF RecheckFails, Serves, Goto, Before, LoggingIn,
       Rechecking, Serving, Joined, Online, Alone, dbVars, adminVars,
       connVars, presenceVars, Recheck
  <2>2. Alone(c)
    BY <1>17, <1>0 DEF RecheckFails, Goto, Alone, dbVars, adminVars, connVars,
       presenceVars, Recheck
  <2> QED BY <2>1, <2>2 DEF Moves
<1>18. CASE Killed(c)
  <2>1. Serves(c)
    BY <1>18, <1>0 DEF Killed, Serves, Goto, Before, LoggingIn, Rechecking,
       Serving, Joined, Online, Alone, dbVars, adminVars, connVars,
       presenceVars
  <2>2. Alone(c)
    BY <1>18, <1>0 DEF Killed, Goto, Alone, dbVars, adminVars, connVars,
       presenceVars
  <2> QED BY <2>1, <2>2 DEF Moves
<1>19. CASE OthersSignedOut(c)
  <2>1. Serves(c)
    BY <1>19, <1>0 DEF OthersSignedOut, Serves, Goto, Before, LoggingIn,
       Rechecking, Serving, Joined, Online, Alone, dbVars, adminVars,
       connVars, presenceVars
  <2>2. Alone(c)
    BY <1>19, <1>0 DEF OthersSignedOut, Goto, Alone, dbVars, adminVars,
       connVars, presenceVars
  <2> QED BY <2>1, <2>2 DEF Moves
<1>20. CASE Close(c)
  <2>1. Serves(c)
    BY <1>20, <1>0 DEF Close, Serves, Goto, Before, LoggingIn, Rechecking,
       Serving, Joined, Online, Alone, dbVars, adminVars, connVars,
       presenceVars
  <2>2. Alone(c)
    BY <1>20, <1>0 DEF Close, Goto, Alone, dbVars, adminVars, connVars,
       presenceVars
  <2> QED BY <2>1, <2>2 DEF Moves
<1>21. CASE BeginPasswordChange(c)
  <2>1. Serves(c)
    BY <1>21, <1>0 DEF BeginPasswordChange, Serves, Goto, Before, LoggingIn,
       Rechecking, Serving, Joined, Online, Alone, dbVars, adminVars,
       connVars, presenceVars
  <2>2. Alone(c)
    BY <1>21, <1>0 DEF BeginPasswordChange, Goto, Alone, dbVars, adminVars,
       connVars, presenceVars
  <2> QED BY <2>1, <2>2 DEF Moves
<1>22. CASE FailPasswordChange(c)
  <2>1. pc' = pc \/ pc' = [pc EXCEPT ![c] = "leaving"]
    BY <1>22 DEF FailPasswordChange, Goto
  <2>2. Serves(c)
    BY <1>22, <1>0, <2>1 DEF FailPasswordChange, Serves, Goto, Before,
       LoggingIn, Rechecking, Serving, Joined, Online, Alone, dbVars,
       adminVars, connVars, presenceVars
  <2>3. Alone(c)
    BY <1>22, <1>0, <2>1 DEF FailPasswordChange, Alone, dbVars, adminVars,
       connVars, presenceVars
  <2> QED BY <2>2, <2>3 DEF Moves
<1>23. CASE FailLogin(c)
  <2>1. Refuse(c)
    BY <1>23 DEF FailLogin
  <2>2. /\ UNCHANGED <<cred, reaper, who, inbox>>
        /\ UNCHANGED <<row, role, banned, denied, lock, apc, job, roster,
                       kill, closing, listing>>
        /\ pc[c] \in LoggingIn
    BY <1>23 DEF FailLogin, LoggingIn, dbVars, adminVars, presenceVars
  <2>3. CASE Refuse(c)
    <3>1. CASE pc' = [pc EXCEPT ![c] = "auth"] /\ UNCHANGED <<gone, sess>>
      <4>1. Walks(c)
        BY <1>0, <2>2, <2>3, <3>1, Refused DEF Walks, Before, LoggingIn
      <4> QED BY <1>0, <2>2, <3>1, <4>1 DEF Moves, Alone
    <3>2. CASE End(c)
      <4>1. Quits(c)
        BY <1>0, <2>2, <2>3, <3>2, Refused DEF Quits, End, Goto, NoSession,
           Sessioned
      <4> QED BY <1>0, <2>2, <3>2, <4>1 DEF Moves, Alone, End, Goto
    <3> QED BY <1>0, <2>3, <3>1, <3>2, Refused DEF Goto
  <2> QED BY <2>1, <2>3
<1>24. CASE CheckBan(c)
  <2>1. \/ Refuse(c)
        \/ Goto(c, "unbanned")
             /\ UNCHANGED <<fails, sessions, sess, pinned, gone>>
    BY <1>24 DEF CheckBan
  <2>2. /\ UNCHANGED <<cred, reaper, who, inbox>>
        /\ UNCHANGED <<row, role, banned, denied, lock, apc, job, roster,
                       kill, closing, listing>>
        /\ pc[c] \in LoggingIn
    BY <1>24 DEF CheckBan, LoggingIn, dbVars, adminVars, presenceVars
  <2>3. CASE Refuse(c)
    <3>1. CASE pc' = [pc EXCEPT ![c] = "auth"] /\ UNCHANGED <<gone, sess>>
      <4>1. Walks(c)
        BY <1>0, <2>2, <2>3, <3>1, Refused DEF Walks, Before, LoggingIn
      <4> QED BY <1>0, <2>2, <3>1, <4>1 DEF Moves, Alone
    <3>2. CASE End(c)
      <4>1. Quits(c)
        BY <1>0, <2>2, <2>3, <3>2, Refused DEF Quits, End, Goto, NoSession,
           Sessioned
      <4> QED BY <1>0, <2>2, <3>2, <4>1 DEF Moves, Alone, End, Goto
    <3> QED BY <1>0, <2>3, <3>1, <3>2, Refused DEF Goto
  <2>4. CASE Goto(c, "unbanned")
             /\ UNCHANGED <<fails, sessions, sess, pinned, gone>>
    <3>1. Walks(c)
      BY <1>24, <1>0, <2>2, <2>4 DEF CheckBan, Walks, Goto, Before, LoggingIn,
         Sessioned
    <3> QED BY <1>0, <2>2, <2>4, <3>1 DEF Moves, Alone, Goto
  <2> QED BY <2>1, <2>3, <2>4
<1>25. CASE AnswerChallenge(c)
  <2>1. \/ Refuse(c)
        \/ Goto(c, "rowed")
             /\ sess' = [sess EXCEPT ![c].row = row[who[c]]]
             /\ UNCHANGED <<fails, sessions, pinned, gone>>
    BY <1>25 DEF AnswerChallenge
  <2>2. /\ UNCHANGED <<cred, reaper, who, inbox>>
        /\ UNCHANGED <<row, role, banned, denied, lock, apc, job, roster,
                       kill, closing, listing>>
        /\ pc[c] \in LoggingIn
    BY <1>25 DEF AnswerChallenge, LoggingIn, dbVars, adminVars, presenceVars
  <2>3. CASE Refuse(c)
    <3>1. CASE pc' = [pc EXCEPT ![c] = "auth"] /\ UNCHANGED <<gone, sess>>
      <4>1. Walks(c)
        BY <1>0, <2>2, <2>3, <3>1, Refused DEF Walks, Before, LoggingIn
      <4> QED BY <1>0, <2>2, <3>1, <4>1 DEF Moves, Alone
    <3>2. CASE End(c)
      <4>1. Quits(c)
        BY <1>0, <2>2, <2>3, <3>2, Refused DEF Quits, End, Goto, NoSession,
           Sessioned
      <4> QED BY <1>0, <2>2, <3>2, <4>1 DEF Moves, Alone, End, Goto
    <3> QED BY <1>0, <2>3, <3>1, <3>2, Refused DEF Goto
  <2>4. CASE Goto(c, "rowed")
             /\ sess' = [sess EXCEPT ![c].row = row[who[c]]]
             /\ UNCHANGED <<fails, sessions, pinned, gone>>
    <3>1. Walks(c)
      BY <1>25, <1>0, <2>2, <2>4 DEF AnswerChallenge, Walks, Goto, Before,
         LoggingIn, Sessioned
    <3> QED BY <1>0, <2>2, <2>4, <3>1 DEF Moves, Alone, Goto
  <2> QED BY <2>1, <2>3, <2>4
<1>26. CASE Admit(c)
  <2>1. \/ Refuse(c)
        \/ Goto(c, "admitted") /\ sessions' = sessions \cup {c}
             /\ ~Full(c) /\ UNCHANGED <<sess, fails, pinned, gone>>
    BY <1>26 DEF Admit
  <2>2. /\ UNCHANGED <<cred, reaper, who, inbox>>
        /\ UNCHANGED <<row, role, banned, denied, lock, apc, job, roster,
                       kill, closing, listing>>
        /\ pc[c] \in LoggingIn
    BY <1>26 DEF Admit, LoggingIn, dbVars, adminVars, presenceVars
  <2>3. CASE Refuse(c)
    <3>1. CASE pc' = [pc EXCEPT ![c] = "auth"] /\ UNCHANGED <<gone, sess>>
      <4>1. Walks(c)
        BY <1>0, <2>2, <2>3, <3>1, Refused DEF Walks, Before, LoggingIn
      <4> QED BY <1>0, <2>2, <3>1, <4>1 DEF Moves, Alone
    <3>2. CASE End(c)
      <4>1. Quits(c)
        BY <1>0, <2>2, <2>3, <3>2, Refused DEF Quits, End, Goto, NoSession,
           Sessioned
      <4> QED BY <1>0, <2>2, <3>2, <4>1 DEF Moves, Alone, End, Goto
    <3> QED BY <1>0, <2>3, <3>1, <3>2, Refused DEF Goto
  <2>4. CASE Goto(c, "admitted") /\ sessions' = sessions \cup {c}
             /\ ~Full(c) /\ UNCHANGED <<sess, fails, pinned, gone>>
    <3>1. Admits(c)
      BY <1>26, <1>0, <2>2, <2>4 DEF Admit, Admits, Goto, Before, LoggingIn,
         Sessioned
    <3> QED BY <1>0, <2>2, <2>4, <3>1 DEF Moves, Alone, Goto
  <2> QED BY <2>1, <2>3, <2>4
<1>27. ASSUME NEW a \in Accounts, BeginLogin(c, a)
      PROVE  Moves(c)
  <2>1. Walks(c)
    BY <1>27, <1>0 DEF BeginLogin, Walks, Goto, Before, LoggingIn, Sessioned,
       dbVars, adminVars, presenceVars
  <2>2. Alone(c)
    BY <1>27, <1>0 DEF BeginLogin, Goto, Alone, dbVars, adminVars, connVars,
       presenceVars
  <2> QED BY <2>1, <2>2 DEF Moves
<1>28. CASE FinishPasswordChange(c)
  <2>1. CASE pinned[c] = cred[who[c]]
    <3>1. Changes(c)
      BY <1>28, <1>0, <2>1 DEF FinishPasswordChange, Changes, Goto, Sessioned,
         presenceVars
    <3>2. Alone(c)
      BY <1>28, <1>0, <2>1 DEF FinishPasswordChange, Alone, Goto, presenceVars
    <3> QED BY <3>1, <3>2 DEF Moves
  <2>2. CASE pinned[c] # cred[who[c]]
    <3>1. Serves(c)
      BY <1>28, <1>0, <2>2 DEF FinishPasswordChange, Serves, Goto, Before,
         LoggingIn, Rechecking, Serving, Joined, Online, presenceVars
    <3>2. Alone(c)
      BY <1>28, <1>0, <2>2 DEF FinishPasswordChange, Alone, presenceVars
    <3> QED BY <3>1, <3>2 DEF Moves
  <2> QED BY <2>1, <2>2
<1> QED BY <1>1, <1>2, <1>3, <1>4, <1>5, <1>6, <1>7, <1>8, <1>9, <1>10, <1>11,
           <1>12, <1>13, <1>14, <1>15, <1>16, <1>17, <1>18, <1>19, <1>20,
           <1>21, <1>22, <1>23, <1>24, <1>25, <1>26, <1>27, <1>28
           DEF TaskStep, ClientStep
---------------------------------------------------------------------------
(* The registry agrees with the connections.                               *)
LEMMA ConnRegistry ==
  ASSUME Typed, Registry, NEW c \in Conns, Moves(c)
  PROVE  Registry'
<1>0. /\ \A d \in Conns \ {c} : pc'[d] = pc[d]
      /\ reaper \subseteq Conns
  BY DEF Moves, Alone, Typed, SessionTypeOK
<1>1. CASE Walks(c)
  BY <1>0, <1>1 DEF Registry, Walks, Before, Online, LoggingIn, Registered,
     Joined, Rechecking, Serving
<1>2. CASE Quits(c)
  BY <1>0, <1>2 DEF Registry, Quits, Before, Online, LoggingIn, Registered,
     Joined, Rechecking, Serving
<1>3. CASE Admits(c)
  BY <1>0, <1>3 DEF Registry, Admits, Before, Online, LoggingIn, Registered,
     Joined, Rechecking, Serving
<1>4. CASE Serves(c)
  BY <1>0, <1>4 DEF Registry, Serves, Before, Online, LoggingIn, Registered,
     Joined, Rechecking, Serving
<1>5. CASE Changes(c)
  BY <1>0, <1>5 DEF Registry, Changes, Before, Online, LoggingIn, Registered,
     Joined, Rechecking, Serving
<1>6. CASE Drops(c)
  BY <1>0, <1>6 DEF Registry, Drops, Before, Online, LoggingIn, Registered,
     Joined, Rechecking, Serving
<1>7. CASE Reaps(c)
  BY <1>0, <1>7 DEF Registry, Reaps, Before, Online, LoggingIn, Registered,
     Joined, Rechecking, Serving
<1>8. CASE Posts(c, "admitted", "join", "joining")
  BY <1>0, <1>8 DEF Registry, Posts, Before, Online, LoggingIn, Registered,
     Joined, Rechecking, Serving
<1>9. CASE Posts(c, "changed", "others", "kicking")
  BY <1>0, <1>9 DEF Registry, Posts, Before, Online, LoggingIn, Registered,
     Joined, Rechecking, Serving
<1>10. CASE Posts(c, "leaving", "leave", "left")
  BY <1>0, <1>10 DEF Registry, Posts, Before, Online, LoggingIn, Registered,
     Joined, Rechecking, Serving
<1> QED BY <1>1, <1>2, <1>3, <1>4, <1>5, <1>6, <1>7, <1>8, <1>9, <1>10
           DEF Moves

(* A command is held in the mailbox; what is held after a command was      *)
(* appended, and after the head was taken.                                 *)
Held(m) == \E i \in DOMAIN inbox : inbox[i] = m

LEMMA HeldAppended ==
  ASSUME inbox \in Seq(Commands), NEW op, NEW x, NEW u,
         Command(op, x, u) \in Commands, Send(op, x, u)
  PROVE  /\ Held(Command(op, x, u))'
         /\ \A m : Held(m) => Held(m)'
         /\ \A m : Held(m)' => Held(m) \/ m = Command(op, x, u)
<1>1. /\ Len(inbox) \in Nat /\ DOMAIN inbox = 1 .. Len(inbox)
      /\ DOMAIN inbox' = 1 .. (Len(inbox) + 1)
      /\ \A i \in DOMAIN inbox : inbox'[i] = inbox[i]
      /\ inbox'[Len(inbox) + 1] = Command(op, x, u)
  BY Appended
<1>2. \A i \in DOMAIN inbox' : i \in DOMAIN inbox \/ i = Len(inbox) + 1
  BY <1>1
<1>3. Len(inbox) + 1 \in DOMAIN inbox'
  BY <1>1
<1>4. DOMAIN inbox \subseteq DOMAIN inbox'
  BY <1>1
<1> QED BY <1>1, <1>2, <1>3, <1>4 DEF Held

LEMMA HeldTaken ==
  ASSUME inbox \in Seq(Commands), PresenceStep
  PROVE  /\ Held(Head(inbox))
         /\ \A m : Held(m)' => Held(m)
         /\ \A m : Held(m) => Held(m)' \/ m = Head(inbox)
<1>1. inbox # <<>> /\ inbox' = Tail(inbox)
  BY DEF PresenceStep
<1>2. /\ Head(inbox) = inbox[1] /\ 1 \in DOMAIN inbox
      /\ \A i \in DOMAIN inbox' :
           i + 1 \in DOMAIN inbox /\ inbox'[i] = inbox[i + 1]
      /\ \A i \in DOMAIN inbox : i # 1 =>
           i - 1 \in DOMAIN inbox' /\ inbox'[i - 1] = inbox[i]
  BY <1>1, Taken
<1>3. Held(Head(inbox))
  BY <1>2 DEF Held
<1>4. \A m : Held(m)' => Held(m)
  BY <1>2 DEF Held
<1>5. ASSUME NEW m, Held(m) PROVE Held(m)' \/ m = Head(inbox)
  <2>1. PICK i \in DOMAIN inbox : inbox[i] = m
    BY <1>5 DEF Held
  <2>2. CASE i = 1
    BY <2>1, <2>2, <1>2
  <2>3. CASE i # 1
    BY <2>1, <2>3, <1>2 DEF Held
  <2> QED BY <2>2, <2>3
<1> QED BY <1>3, <1>4, <1>5

(* What the properties ask of the mailbox, told by the commands held.      *)
LEMMA MailTold ==
  /\ \A x : Answered(x) <=> \A m : Held(m) => m.by # x
  /\ \A c : LeaveDue(c) <=>
       c \in reaper \/ \E m : Held(m) /\ m.by = c /\ m.op = "leave"
  /\ \A c : KickDue(c) <=>
       \/ c \in kill \/ (\E m : Held(m) /\ Reaches(m, c))
       \/ (\E k \in Admins : MustKick(k, who[c]))
       \/ \E d \in Conns \ {c} : pc[d] = "changed" /\ who[d] = who[c]
<1>1. \A x : Answered(x) <=> \A m : Held(m) => m.by # x
  BY DEF Answered, Held
<1>2. \A c : LeaveDue(c) <=>
        c \in reaper \/ \E m : Held(m) /\ m.by = c /\ m.op = "leave"
  BY DEF LeaveDue, Held
<1>3. ASSUME NEW c
      PROVE  (\E i \in DOMAIN inbox : Reaches(inbox[i], c)) <=>
             \E m : Held(m) /\ Reaches(m, c)
  BY DEF Held
<1>4. \A c : KickDue(c) <=>
       \/ c \in kill \/ (\E m : Held(m) /\ Reaches(m, c))
       \/ (\E k \in Admins : MustKick(k, who[c]))
       \/ \E d \in Conns \ {c} : pc[d] = "changed" /\ who[d] = who[c]
  BY <1>3 DEF KickDue
<1> QED BY <1>1, <1>2, <1>4

LEMMA MailKnown ==
  ASSUME MailOK
  PROVE  \A m : Held(m) => Expected(m)
  BY DEF MailOK, Held

LEMMA HeldCommands ==
  ASSUME inbox \in Seq(Commands)
  PROVE  \A m : Held(m) => m \in Commands
  BY DEF Held

(* Appending a command keeps the order if it is no Join, or if its sender  *)
(* has sent nothing else.                                                  *)
LEMMA Posted ==
  ASSUME inbox \in Seq(Commands), NEW op, NEW x, NEW u, MailOK,
         Command(op, x, u) \in Commands, Send(op, x, u),
         op # "join" \/ Answered(x),
         Expected(Command(op, x, u))',
         \A m : Held(m) => Expected(m)'
  PROVE  MailOK'
<1>1. /\ Len(inbox) \in Nat /\ DOMAIN inbox = 1 .. Len(inbox)
      /\ DOMAIN inbox' = 1 .. (Len(inbox) + 1)
      /\ \A i \in DOMAIN inbox : inbox'[i] = inbox[i]
      /\ inbox'[Len(inbox) + 1] = Command(op, x, u)
  BY Appended
<1>2. ASSUME NEW i \in DOMAIN inbox'
      PROVE  Expected(inbox[i])'
  <2>1. PICK m : m = inbox'[i]
    OBVIOUS
  <2>2. Held(m)'
    BY <2>1 DEF Held
  <2>3. Expected(m)'
    BY <2>2, HeldAppended
  <2> QED BY <2>1, <2>3
<1>3. ASSUME NEW i \in DOMAIN inbox', NEW j \in DOMAIN inbox',
             i < j, inbox'[i].by = inbox'[j].by
      PROVE  inbox'[j].op # "join"
  <2>1. i \in DOMAIN inbox /\ inbox'[i] = inbox[i]
    BY <1>1, <1>3
  <2>2. CASE j \in DOMAIN inbox
    BY <1>1, <1>3, <2>1, <2>2 DEF MailOK
  <2>3. CASE j = Len(inbox) + 1
    BY <1>1, <1>3, <2>1, <2>3 DEF Command, Answered
  <2> QED BY <1>1, <2>2, <2>3
<1> QED BY <1>2, <1>3 DEF MailOK

(* Nothing was sent, and the mail is still expected.                       *)
LEMMA Unposted ==
  ASSUME MailOK, inbox' = inbox, \A m : Held(m) => Expected(m)'
  PROVE  MailOK'
<1>1. ASSUME NEW i \in DOMAIN inbox
      PROVE  Expected(inbox[i])'
  <2>1. PICK m : m = inbox[i]
    OBVIOUS
  <2>2. Expected(m)'
    BY <2>1 DEF Held
  <2> QED BY <2>1, <2>2
<1> QED BY <1>1 DEF MailOK

(* The mail of the others stays expected.                                  *)
LEMMA ConnExpected ==
  ASSUME Typed, MailOK, NEW c \in Conns, Alone(c),
         NEW m, Held(m), m.by # c
  PROVE  Expected(m)'
<1>1. Expected(m)
  BY MailKnown
<1>2. apc' = apc /\ Conns \cap Admins = {}
  BY PresenceConstants DEF Alone
<1>3. m.by \in Conns => pc'[m.by] = pc[m.by] /\ who'[m.by] = who[m.by]
  BY DEF Alone
<1> QED BY <1>1, <1>2, <1>3 DEF Expected

LEMMA ConnMail ==
  ASSUME Typed, Registry, MailOK, NEW c \in Conns, Moves(c)
  PROVE  MailOK'
<1>0. /\ Alone(c) /\ Conns \cap Admins = {} /\ inbox \in Seq(Commands)
      /\ who \in [Conns -> Accounts \cup {NoUser}]
      /\ pc[c] \notin {"new", "auth", "ended"} => who[c] \in Accounts
  BY PresenceConstants
     DEF Moves, Typed, SessionTypeOK, PresenceTypeOK, Known
<1>1. ASSUME NEW m, Held(m), m.by # c
      PROVE  Expected(m)'
  BY <1>0, <1>1, ConnExpected
<1>2. ASSUME NEW m, Held(m), m.by = c
      PROVE  \/ m.op = "join" /\ pc[c] \in {"joining", "ended"}
                /\ who[c] \in Accounts
             \/ m.op = "others" /\ m.user = who[c]
                /\ pc[c] \in {"kicking", "ended"}
             \/ m.op = "leave" /\ pc[c] \in {"left", "ended"}
  BY <1>0, <1>2, MailKnown DEF Expected
<1>3. ASSUME inbox' = inbox, who'[c] = who[c],
             pc[c] \in {"joining", "kicking", "left", "ended"} =>
               \/ Answered(c) \/ pc'[c] = pc[c] \/ pc'[c] = "ended"
      PROVE  MailOK'
  <2>1. ASSUME NEW m, Held(m), m.by = c
        PROVE  Expected(m)'
    <3>1. ~Answered(c)
      BY <2>1, MailTold
    <3>2. pc'[c] = pc[c] \/ pc'[c] = "ended"
      BY <1>2, <1>3, <2>1, <3>1
    <3> QED BY <1>2, <1>3, <2>1, <3>2 DEF Expected
  <2> QED BY <1>1, <1>3, <2>1, Unposted
<1>4. ASSUME Walks(c)
      PROVE  MailOK'
  <2>1. ~\E m : Held(m) /\ m.by = c
    BY <1>2, <1>4 DEF Walks, Before, LoggingIn
  <2> QED BY <1>1, <1>4, <2>1, Unposted DEF Walks
<1>5. CASE Quits(c)
  BY <1>3, <1>5 DEF Quits, LoggingIn
<1>6. CASE Admits(c)
  BY <1>3, <1>6 DEF Admits
<1>7. CASE Serves(c)
  BY <1>3, <1>7 DEF Serves, Online, Joined, Rechecking, Serving
<1>8. CASE Changes(c)
  BY <1>3, <1>8 DEF Changes
<1>9. CASE Drops(c)
  BY <1>3, <1>9 DEF Drops
<1>10. ASSUME NEW op \in {"join", "others", "leave"}, Send(op, c, who[c]),
              pc' = pc \/ Answered(c), who'[c] = who[c],
              op = "join" => Answered(c) /\ pc'[c] = "joining"
                             /\ who[c] \in Accounts,
              op = "others" => pc'[c] = "kicking",
              op = "leave" => pc'[c] \in {"left", "ended"}
       PROVE  MailOK'
  <2>1. PICK u \in Accounts \cup {NoUser} : u = who[c]
    BY <1>0
  <2>2. Command(op, c, u) \in Commands /\ Send(op, c, u)
    BY <1>10, <2>1 DEF Command, Commands
  <2>3. Expected(Command(op, c, u))'
    BY <1>10, <2>1 DEF Expected, Command
  <2>4. ASSUME NEW m, Held(m), m.by = c
        PROVE  Expected(m)'
    <3>1. pc' = pc
      BY <1>10, <2>4, MailTold
    <3> QED BY <1>2, <1>10, <2>4, <3>1 DEF Expected
  <2> QED BY <1>0, <1>1, <1>10, <2>2, <2>3, <2>4, Posted
<1>11. pc[c] \in {"admitted", "changed", "leaving"} => Answered(c)
  BY <1>2, MailTold
<1>12. CASE Reaps(c)
  BY <1>10, <1>12 DEF Reaps, Registry
<1>13. CASE Posts(c, "admitted", "join", "joining")
  BY <1>0, <1>10, <1>11, <1>13 DEF Posts
<1>14. CASE Posts(c, "changed", "others", "kicking")
  BY <1>10, <1>11, <1>14 DEF Posts
<1>15. CASE Posts(c, "leaving", "leave", "left")
  BY <1>10, <1>11, <1>15 DEF Posts
<1> QED BY <1>4, <1>5, <1>6, <1>7, <1>8, <1>9, <1>12, <1>13, <1>14, <1>15
        DEF Moves

---------------------------------------------------------------------------
(* The roster agrees with the connections.                                 *)
JoinDue(c) == \E m : Held(m) /\ m.op = "join" /\ m.by = c

LEMMA ListedTold ==
  \A c : Listed(c) <=>
    /\ pc[c] \in Online => c \in roster
    /\ pc[c] = "joining" => c \in roster \/ ~Answered(c)
    /\ c \in roster => pc[c] \in {"joining"} \cup Online \/ LeaveDue(c)
    /\ JoinDue(c) => pc[c] = "joining" \/ LeaveDue(c)
  BY DEF Listed, JoinDue, Held

(* In a step of a connection the mail only grows.                          *)
LEMMA ConnHeld ==
  ASSUME Typed, NEW c \in Conns, Moves(c)
  PROVE  \/ inbox' = inbox
         \/ \E op \in {"join", "others", "leave"} :
              /\ Held(Command(op, c, who[c]))' /\ who' = who
              /\ op = "join" => pc[c] = "admitted" /\ pc'[c] = "joining"
              /\ op = "others" => pc[c] = "changed" /\ pc'[c] = "kicking"
              /\ op = "leave" =>
                   Reaps(c) \/ (pc[c] = "leaving" /\ pc'[c] = "left")
              /\ \A m : Held(m) => Held(m)'
              /\ \A m : Held(m)' => Held(m) \/ m = Command(op, c, who[c])
<1>0. /\ inbox \in Seq(Commands) /\ who[c] \in Accounts \cup {NoUser}
  BY DEF Typed, SessionTypeOK, PresenceTypeOK
<1>1. ASSUME NEW op \in {"join", "others", "leave"}, Send(op, c, who[c]),
             who' = who
      PROVE  /\ Held(Command(op, c, who[c]))'
             /\ \A m : Held(m) => Held(m)'
             /\ \A m : Held(m)' => Held(m) \/ m = Command(op, c, who[c])
  <2>1. PICK u \in Accounts \cup {NoUser} : u = who[c]
    BY <1>0
  <2>2. Command(op, c, u) \in Commands /\ Send(op, c, u)
    BY <1>1, <2>1 DEF Command, Commands
  <2>3. /\ Held(Command(op, c, u))'
        /\ \A m : Held(m) => Held(m)'
        /\ \A m : Held(m)' => Held(m) \/ m = Command(op, c, u)
    BY <1>0, <2>2, HeldAppended
  <2>4. who'[c] = u
    BY <1>1, <2>1
  <2> QED BY <2>1, <2>3, <2>4
<1>2. CASE Posts(c, "admitted", "join", "joining")
  BY <1>1, <1>2 DEF Posts
<1>3. CASE Posts(c, "changed", "others", "kicking")
  BY <1>1, <1>3 DEF Posts
<1>4. CASE Posts(c, "leaving", "leave", "left")
  BY <1>1, <1>4 DEF Posts
<1>5. CASE Reaps(c)
  BY <1>1, <1>5 DEF Reaps
<1> QED BY <1>2, <1>3, <1>4, <1>5
        DEF Moves, Walks, Quits, Admits, Serves, Changes, Drops

LEMMA ConnListed ==
  ASSUME Typed, Registry, MailOK, \A d \in Conns : Listed(d),
         NEW c \in Conns, Moves(c)
  PROVE  \A d \in Conns : Listed(d)'
<1>0. Alone(c) /\ roster' = roster /\ inbox \in Seq(Commands)
  BY DEF Moves, Alone, Typed, SessionTypeOK, PresenceTypeOK
<1>1. ASSUME NEW m, Held(m)
      PROVE  Held(m)'
  BY <1>1, ConnHeld DEF Held
<1>2. \A d : (~Answered(d) => ~Answered(d)')
             /\ (JoinDue(d)' => JoinDue(d) \/ d = c)
  <2>1. CASE inbox' = inbox
    BY <2>1 DEF Answered, JoinDue, Held
  <2>2. CASE inbox' # inbox
    <3>1. PICK op \in {"join", "others", "leave"} :
            \A m : Held(m)' => Held(m) \/ m = Command(op, c, who[c])
      BY <2>2, ConnHeld
    <3>2. \A d : ~Answered(d) => ~Answered(d)'
      <4>1. \A d : Answered(d)' <=> \A m : Held(m)' => m.by # d
        BY DEF Answered, Held
      <4> QED BY <1>1, <4>1, MailTold
    <3> QED BY <3>1, <3>2 DEF JoinDue, Command
  <2> QED BY <2>1, <2>2
<1>3. \A d : LeaveDue(d)' <=>
        d \in reaper' \/ \E m : Held(m)' /\ m.by = d /\ m.op = "leave"
  BY DEF LeaveDue, Held
<1>4. \A d \in Conns \ {c} : d \in reaper => d \in reaper'
  BY DEF Moves, Walks, Quits, Admits, Serves, Changes, Drops, Reaps, Posts
<1>5. ASSUME NEW d \in Conns, d # c
      PROVE  Listed(d)'
  <2>1. pc'[d] = pc[d] /\ roster' = roster
    BY <1>0, <1>5 DEF Alone
  <2>2. LeaveDue(d) => LeaveDue(d)'
    BY <1>1, <1>3, <1>4, <1>5, MailTold
  <2>3. /\ pc[d] \in Online => d \in roster
        /\ pc[d] = "joining" => d \in roster \/ ~Answered(d)
        /\ d \in roster => pc[d] \in {"joining"} \cup Online \/ LeaveDue(d)
        /\ JoinDue(d) => pc[d] = "joining" \/ LeaveDue(d)
    BY ListedTold
  <2>4. /\ pc'[d] \in Online => d \in roster'
        /\ pc'[d] = "joining" => d \in roster' \/ ~Answered(d)'
        /\ d \in roster' => pc'[d] \in {"joining"} \cup Online \/ LeaveDue(d)'
        /\ JoinDue(d)' => pc'[d] = "joining" \/ LeaveDue(d)'
    BY <1>2, <1>5, <2>1, <2>2, <2>3
  <2>5. Listed(d)' <=>
        /\ pc'[d] \in Online => d \in roster'
        /\ pc'[d] = "joining" => d \in roster' \/ ~Answered(d)'
        /\ d \in roster' => pc'[d] \in {"joining"} \cup Online \/ LeaveDue(d)'
        /\ JoinDue(d)' => pc'[d] = "joining" \/ LeaveDue(d)'
    BY DEF Listed, JoinDue, Held
  <2> QED BY <2>4, <2>5
<1>6. Listed(c)'
  <2>1. /\ pc[c] \in Online => c \in roster
        /\ pc[c] = "joining" => c \in roster \/ ~Answered(c)
        /\ c \in roster => pc[c] \in {"joining"} \cup Online \/ LeaveDue(c)
        /\ JoinDue(c) => pc[c] = "joining" \/ LeaveDue(c)
    BY ListedTold
  <2>2. /\ c \notin reaper \/ pc[c] = "ended"
        /\ \A m : Held(m) /\ m.by = c =>
             \/ m.op = "join" /\ pc[c] \in {"joining", "ended"}
             \/ m.op = "others" /\ pc[c] \in {"kicking", "ended"}
             \/ m.op = "leave" /\ pc[c] \in {"left", "ended"}
    BY MailKnown, PresenceConstants DEF Registry, Expected
  <2>3. LeaveDue(c) => pc[c] \in {"left", "ended"}
    BY <2>2, MailTold
  <2>4. SUFFICES
        /\ pc'[c] \in Online => c \in roster
        /\ pc'[c] = "joining" => c \in roster \/ ~Answered(c)'
        /\ c \in roster => pc'[c] \in {"joining"} \cup Online \/ LeaveDue(c)'
        /\ JoinDue(c)' => pc'[c] = "joining" \/ LeaveDue(c)'
    BY <1>0 DEF Listed, JoinDue, Held
  <2>5. inbox' = inbox => (JoinDue(c)' <=> JoinDue(c))
                          /\ (Answered(c)' <=> Answered(c))
    BY DEF JoinDue, Held, Answered
  <2>6. JoinDue(c) => ~Answered(c)
    BY MailTold DEF JoinDue
  <2>7. LeaveDue(c) /\ ~Reaps(c) => LeaveDue(c)'
    <3>1. c \in reaper /\ ~Reaps(c) => c \in reaper'
      BY DEF Moves, Walks, Quits, Admits, Serves, Changes, Drops, Posts
    <3> QED BY <1>1, <1>3, <3>1, MailTold
  <2>8. CASE Walks(c)
    BY <2>1, <2>3, <2>5, <2>8 DEF Walks, Before, LoggingIn, Online, Joined,
       Rechecking, Serving
  <2>9. CASE Quits(c)
    BY <2>1, <2>3, <2>5, <2>7, <2>9 DEF Quits, LoggingIn, Online, Joined,
       Rechecking, Serving, Reaps
  <2>10. CASE Admits(c)
    BY <2>1, <2>3, <2>5, <2>10 DEF Admits, Online, Joined, Rechecking, Serving
  <2>11. CASE Serves(c)
    BY <2>1, <2>3, <2>5, <2>6, <2>11 DEF Serves, Online, Joined, Rechecking,
       Serving
  <2>12. CASE Changes(c)
    BY <2>1, <2>3, <2>5, <2>12 DEF Changes, Online, Joined, Rechecking,
       Serving
  <2>13. CASE Drops(c)
    <3>1. LeaveDue(c)'
      BY <1>3, <2>13 DEF Drops
    <3> QED BY <2>13, <3>1 DEF Drops, Online, Joined, Rechecking, Serving
  <2>14. ASSUME NEW op \in {"join", "others", "leave"}, inbox' # inbox,
                Held(Command(op, c, who[c]))', who' = who,
                op = "join" => pc[c] = "admitted" /\ pc'[c] = "joining",
                op = "others" => pc[c] = "changed" /\ pc'[c] = "kicking",
                op = "leave" =>
                  Reaps(c) \/ (pc[c] = "leaving" /\ pc'[c] = "left"),
                \A m : Held(m)' => Held(m) \/ m = Command(op, c, who[c])
         PROVE  /\ pc'[c] \in Online => c \in roster
                /\ pc'[c] = "joining" => c \in roster \/ ~Answered(c)'
                /\ c \in roster => pc'[c] \in {"joining"} \cup Online
                                   \/ LeaveDue(c)'
                /\ JoinDue(c)' => pc'[c] = "joining" \/ LeaveDue(c)'
    <3>1. PICK u : u = who[c]
      OBVIOUS
    <3>2. Held(Command(op, c, u))' /\ Command(op, c, u).by = c
          /\ Command(op, c, u).op = op
      BY <2>14, <3>1 DEF Command
    <3>3. ~Answered(c)'
      BY <3>2 DEF Answered, Held
    <3>4. CASE op = "join"
      BY <2>14, <3>3, <3>4 DEF Online, Joined, Rechecking, Serving
    <3>5. CASE op = "others"
      <4>1. c \in roster /\ ~JoinDue(c)
        BY <2>1, <2>14, <3>5, <2>3 DEF Online, Joined, Serving
      <4>2. ~JoinDue(c)'
        BY <2>14, <3>1, <3>2, <3>5, <4>1 DEF JoinDue
      <4> QED BY <2>14, <3>5, <4>1, <4>2 DEF Online, Joined, Serving
    <3>6. CASE op = "leave"
      <4>1. LeaveDue(c)'
        BY <1>3, <3>2, <3>6
      <4>2. pc'[c] \in {"left", "ended"}
        BY <2>2, <2>14, <3>6 DEF Reaps
      <4> QED BY <4>1, <4>2 DEF Online, Joined, Rechecking, Serving
    <3> QED BY <3>4, <3>5, <3>6
  <2>15. CASE inbox' # inbox
    BY <2>14, <2>15, ConnHeld
  <2>16. CASE inbox' = inbox
    <3>1. ~Reaps(c) /\ \A op, f, t : ~Posts(c, f, op, t)
      BY <1>0, <2>16, Appended DEF Reaps, Posts, Send
    <3> QED BY <2>8, <2>9, <2>10, <2>11, <2>12, <2>13, <3>1 DEF Moves
  <2> QED BY <2>15, <2>16
<1> QED BY <1>5, <1>6
---------------------------------------------------------------------------
(* The cap on sessions, and what a login proved.                           *)
LEMMA FewerUncapped ==
  ASSUME Typed, Capped,
         \A d \in sessions' : ~sess'[d].priv => d \in sessions /\ ~sess[d].priv
  PROVE  Capped'
<1> DEFINE S == {d \in sessions : ~sess[d].priv}
<1>1. IsFiniteSet(S)
  BY PresenceConstants, FS_Subset DEF Typed, SessionTypeOK
<1>2. S' \subseteq S
  OBVIOUS
<1>3. IsFiniteSet(S') /\ Cardinality(S') <= Cardinality(S)
  BY <1>1, <1>2, FS_Subset
<1>4. Cardinality(S) \in Nat /\ Cardinality(S') \in Nat /\ MaxUsers \in Nat
  BY <1>1, <1>3, FS_CardinalityType, SessionConstants
<1> HIDE DEF S
<1>5. (MaxUsers # 0 => Cardinality(S) <= MaxUsers) =>
      (MaxUsers # 0 => Cardinality(S') <= MaxUsers)
  BY <1>3, <1>4
<1> QED BY <1>5 DEF Capped, S

LEMMA ConnCapped ==
  ASSUME Typed, Registry, Capped, NEW c \in Conns, Moves(c)
  PROVE  Capped'
<1>0. /\ \A d \in Conns \ {c} : sess'[d] = sess[d]
      /\ sessions \subseteq Conns /\ IsFiniteSet(sessions)
  BY PresenceConstants, FS_Subset DEF Moves, Alone, Typed, SessionTypeOK
<1>1. CASE Admits(c)
  <2> DEFINE S == {d \in sessions : ~sess[d].priv}
  <2>1. c \notin sessions /\ sess' = sess /\ sessions' = sessions \cup {c}
    BY <1>1 DEF Admits, Registry, Registered, Joined, Rechecking, Serving
  <2>2. CASE sess[c].priv
    BY <2>1, <2>2, FewerUncapped
  <2>3. CASE ~sess[c].priv
    <3>1. S' = S \cup {c} /\ c \notin S /\ S \subseteq sessions
      BY <2>1, <2>3
    <3>2. IsFiniteSet(S) /\ Cardinality(S) <= Cardinality(sessions)
      BY <1>0, <3>1, FS_Subset
    <3>3. Cardinality(S') = Cardinality(S) + 1
      BY <3>1, <3>2, FS_AddElement
    <3>4. Cardinality(S) \in Nat /\ Cardinality(sessions) \in Nat
          /\ MaxUsers \in Nat
      BY <1>0, <3>2, FS_CardinalityType, SessionConstants
    <3>5. MaxUsers # 0 => ~(Cardinality(sessions) >= MaxUsers)
      BY <1>1, <2>3 DEF Admits, Full
    <3> HIDE DEF S
    <3>6. MaxUsers # 0 => Cardinality(S') <= MaxUsers
      BY <3>2, <3>3, <3>4, <3>5
    <3> QED BY <3>6 DEF Capped, S
  <2> QED BY <2>2, <2>3
<1>2. CASE ~Admits(c)
  <2>1. sessions' \subseteq sessions
        /\ (c \in sessions' => sess'[c].priv = sess[c].priv)
    BY <1>0, <1>2 DEF Moves, Walks, Quits, Serves, Changes, Drops, Reaps,
       Posts, Registry, Before, LoggingIn, Registered, Joined, Rechecking,
       Serving
  <2> QED BY <1>0, <2>1, FewerUncapped
<1> QED BY <1>1, <1>2

LEMMA ConnProven ==
  ASSUME Typed, Registry, \A d \in Conns : Proven(d), NEW c \in Conns, Moves(c)
  PROVE  \A d \in Conns : Proven(d)'
<1>0. /\ Alone(c) /\ cred \in [Accounts -> Nat \ {0}]
      /\ sess \in [Conns -> Sessioned]
      /\ \A d \in Conns : pc[d] \notin {"new", "auth", "ended"} =>
                            who[d] \in Accounts
  BY DEF Moves, Typed, SessionTypeOK, Known
<1>1. \A d \in Conns : sess[d].cred \in Nat
  BY <1>0 DEF Sessioned
<1>2. \A a \in Accounts : cred'[a] \in Nat /\ cred[a] <= cred'[a]
  BY <1>0 DEF Moves, Walks, Quits, Admits, Serves, Changes, Drops, Reaps,
     Posts
<1>3. ASSUME NEW d \in Conns \ {c}
      PROVE  Proven(d)'
  <2>1. pc'[d] = pc[d] /\ sess'[d] = sess[d] /\ who'[d] = who[d]
    BY <1>0 DEF Alone
  <2>2. CASE pc[d] \in {"new", "auth", "ended"}
    BY <2>1, <2>2 DEF Proven
  <2>3. CASE pc[d] \notin {"new", "auth", "ended"}
    <3>1. who[d] \in Accounts /\ sess[d].cred \in Nat
      BY <1>0, <1>1, <2>3
    <3>2. cred[who[d]] <= cred'[who[d]] /\ cred'[who[d]] \in Nat
          /\ cred[who[d]] \in Nat /\ sess[d].cred <= cred[who[d]]
      BY <1>0, <1>2, <2>3, <3>1 DEF Proven
    <3>3. sess[d].cred <= cred'[who[d]]
      BY <3>1, <3>2
    <3> QED BY <2>1, <3>3 DEF Proven
  <2> QED BY <2>2, <2>3
<1>4. Proven(c)'
  <2>1. Proven(c)
    OBVIOUS
  <2>2. CASE Walks(c)
    <3>2. ~sess'[c].renewed
      BY <2>1, <2>2 DEF Walks, Proven, Before, LoggingIn, Serving
    <3>3. CASE sess'[c].cred = cred[who'[c]] /\ who'[c] \in Accounts
      BY <1>0, <2>2, <3>2, <3>3 DEF Walks, Proven
    <3>4. CASE pc[c] \notin {"new", "auth"} /\ sess'[c].cred = sess[c].cred
               /\ who'[c] = who[c]
      <4>1. sess[c].cred <= cred[who[c]]
        BY <2>1, <2>2, <3>4 DEF Walks, Proven, Before, LoggingIn
      <4> QED BY <2>2, <3>2, <3>4, <4>1 DEF Walks, Proven
    <3>5. CASE pc'[c] = "auth"
      BY <3>2, <3>5 DEF Proven
    <3> QED BY <2>2, <3>3, <3>4, <3>5 DEF Walks
  <2>3. CASE Quits(c)
    BY <2>3 DEF Quits, Proven
  <2>4. CASE Admits(c)
    BY <2>1, <2>4 DEF Admits, Proven, Serving
  <2>5. CASE Serves(c)
    BY <2>1, <2>5 DEF Serves, Proven, Online, Joined, Rechecking, Serving
  <2>6. CASE Changes(c)
    <3>1. cred'[who[c]] = cred[who[c]] + 1 /\ cred[who[c]] \in Nat
      BY <1>0, <2>6 DEF Changes
    <3> QED BY <2>6, <3>1 DEF Changes, Proven, Serving
  <2>7. CASE Drops(c)
    BY <2>7 DEF Drops, Proven
  <2>8. CASE Reaps(c)
    BY <2>1, <2>8 DEF Reaps, Proven
  <2>9. ASSUME NEW f, NEW op, NEW t, Posts(c, f, op, t),
               \/ f = "admitted" /\ t = "joining"
               \/ f = "changed" /\ t = "kicking"
               \/ f = "leaving" /\ t = "left"
        PROVE  Proven(c)'
    BY <2>1, <2>9 DEF Posts, Proven, Serving
  <2> QED BY <2>2, <2>3, <2>4, <2>5, <2>6, <2>7, <2>8, <2>9 DEF Moves
<1> QED BY <1>3, <1>4

---------------------------------------------------------------------------
(* After a password change the others have their kill signal coming.       *)
OthersDue(c) == \E m : Held(m) /\ m.by = c /\ m.op = "others"

LEMMA SignsOutTold ==
  \A c, d : SignsOut(c, d) <=>
    (/\ sess[c].renewed /\ Past(d, {"re_cred", "re_ban"})
     /\ who[d] = who[c] /\ sess[d].cred < sess[c].cred
     => d \in kill \/ pc[c] = "changed" \/ OthersDue(c))
  BY DEF SignsOut, OthersDue, Held

LEMMA ConnSignsOut ==
  ASSUME Typed, Registry, MailOK, \A d \in Conns : Proven(d),
         \A c, d \in Conns : SignsOut(c, d),
         NEW e \in Conns, Moves(e)
  PROVE  \A c, d \in Conns : SignsOut(c, d)'
<1>0. /\ Alone(e) /\ kill' = kill /\ cred \in [Accounts -> Nat \ {0}]
      /\ sess \in [Conns -> Sessioned]
      /\ \A d \in Conns : pc[d] \notin {"new", "auth", "ended"} =>
                            who[d] \in Accounts
  BY DEF Moves, Alone, Typed, SessionTypeOK, Known
<1>1. \A d \in Conns : sess[d].cred \in Nat
  BY <1>0 DEF Sessioned
<1>2. \A m : Held(m) => Held(m)'
  BY ConnHeld DEF Held
<1> SUFFICES ASSUME NEW c \in Conns, NEW d \in Conns, sess'[c].renewed,
                    Past(d, {"re_cred", "re_ban"})',
                    who'[d] = who'[c], sess'[d].cred < sess'[c].cred
             PROVE  d \in kill \/ pc'[c] = "changed" \/ OthersDue(c)'
  BY <1>0 DEF SignsOut, OthersDue, Held
<1>3. CASE c = e /\ pc'[c] = "changed"
  BY <1>3
<1>4. CASE c # e \/ pc'[c] # "changed"
  <2>1. sess[c].renewed /\ sess'[c].cred = sess[c].cred /\ who'[c] = who[c]
    <3>1. CASE c # e
      BY <1>0, <3>1 DEF Alone
    <3>2. CASE c = e
      <4>1. Proven(c)
        OBVIOUS
      <4> QED BY <1>4, <3>2, <4>1 DEF Moves, Walks, Quits, Admits, Serves,
                 Changes, Drops, Reaps, Posts, Proven, Before, LoggingIn,
                 Serving
    <3> QED BY <3>1, <3>2
  <2>2. pc[c] \in Serving \cup {"leaving", "left"} /\ sess[c].cred \in Nat
        /\ who[c] \in Accounts /\ sess[c].cred <= cred[who[c]]
    <3>1. Proven(c)
      OBVIOUS
    <3> QED BY <1>0, <1>1, <2>1, <3>1 DEF Proven, Serving
  <2>3. /\ Past(d, {"re_cred", "re_ban"}) /\ who'[d] = who[d]
        /\ sess'[d].cred = sess[d].cred
    <3>1. CASE d # e
      BY <1>0, <3>1 DEF Alone, Past
    <3>2. CASE d = e
      <4>1. CASE Changes(d)
        <5>1. sess'[d].cred = cred[who[c]] + 1 /\ cred[who[c]] \in Nat
          BY <1>0, <2>1, <2>2, <4>1 DEF Changes
        <5> QED BY <2>1, <2>2, <5>1
      <4>2. CASE pc'[d] = "re_cred" /\ Serves(d)
        <5>1. sess'[d].cred = cred[who[c]] /\ cred[who[c]] \in Nat
          BY <1>0, <2>1, <2>2, <4>2 DEF Serves
        <5> QED BY <2>1, <2>2, <5>1
      <4>3. CASE pc'[d] # "re_cred" /\ Serves(d)
        BY <4>3 DEF Serves, Past, Serving, Rechecking
      <4>4. CASE ~Serves(d) /\ ~Changes(d)
        BY <3>2, <4>4 DEF Moves, Walks, Quits, Admits, Drops, Reaps, Posts,
           Past, Serving, LoggingIn, Registry
      <4> QED BY <4>1, <4>2, <4>3, <4>4
    <3> QED BY <3>1, <3>2
  <2>4. d \in kill \/ pc[c] = "changed" \/ OthersDue(c)
    BY <2>1, <2>3, SignsOutTold
  <2>5. CASE pc[c] = "changed"
    <3>1. CASE c # e
      BY <1>0, <2>5, <3>1 DEF Alone
    <3>2. CASE c = e
      <4>1. Posts(c, "changed", "others", "kicking") \/ pc'[c] = "changed"
        BY <2>5, <3>2 DEF Moves, Walks, Quits, Admits, Serves, Changes, Drops,
           Reaps, Posts, Before, LoggingIn
      <4>2. CASE Posts(c, "changed", "others", "kicking")
        <5>1. inbox \in Seq(Commands) /\ who[c] \in Accounts \cup {NoUser}
          BY DEF Typed, SessionTypeOK, PresenceTypeOK
        <5>2. PICK u : u = who[c]
          OBVIOUS
        <5>3. Command("others", c, u) \in Commands /\ Send("others", c, u)
          BY <4>2, <5>1, <5>2 DEF Command, Commands, Posts
        <5>4. Held(Command("others", c, u))'
          BY <5>1, <5>3, HeldAppended
        <5> QED BY <5>4 DEF OthersDue, Command
      <4> QED BY <4>1, <4>2
    <3> QED BY <3>1, <3>2
  <2>6. CASE OthersDue(c)
    BY <1>2, <2>6 DEF OthersDue
  <2> QED BY <2>4, <2>5, <2>6
<1> QED BY <1>3, <1>4

---------------------------------------------------------------------------
(* A disconnect that is on its way stays so while connections move.        *)
LEMMA SameReach ==
  ASSUME NEW d, who'[d] = who[d]
  PROVE  \A m : Reaches(m, d)' <=> Reaches(m, d)
  BY DEF Reaches

LEMMA ConnKickDue ==
  ASSUME Typed, NEW e \in Conns, Moves(e), NEW d \in Conns, who'[d] = who[d],
         KickDue(d)
  PROVE  KickDue(d)'
<1>0. Alone(e) /\ kill' = kill /\ row' = row /\ role' = role /\ apc' = apc
      /\ job' = job
  BY DEF Moves, Alone
<1>1. \A m : Held(m) => Held(m)'
  BY ConnHeld DEF Held
<1>2. KickDue(d)' <=>
       \/ d \in kill' \/ (\E m : Held(m)' /\ Reaches(m, d)')
       \/ (\E k \in Admins : MustKick(k, who[d])')
       \/ \E c \in Conns \ {d} : pc'[c] = "changed" /\ who'[c] = who'[d]
  BY DEF KickDue, Held
<1>3. CASE d \in kill
  BY <1>0, <1>2, <1>3
<1>4. CASE \E m : Held(m) /\ Reaches(m, d)
  BY <1>1, <1>2, <1>4, SameReach
<1>5. CASE \E k \in Admins : MustKick(k, who[d])
  <2>1. PICK k \in Admins : MustKick(k, who[d])
    BY <1>5
  <2>2. MustKick(k, who[d])'
    BY <1>0, <2>1 DEF MustKick, Stored
  <2> QED BY <1>2, <2>2
<1>6. ASSUME NEW c \in Conns \ {d}, pc[c] = "changed", who[c] = who[d]
      PROVE  KickDue(d)'
  <2>1. CASE c # e
    BY <1>0, <1>2, <1>6, <2>1 DEF Alone
  <2>2. CASE c = e
    <3>1. Posts(c, "changed", "others", "kicking")
          \/ (pc'[c] = "changed" /\ who' = who)
      BY <1>6, <2>2 DEF Moves, Walks, Quits, Admits, Serves, Changes, Drops,
         Reaps, Posts, Before, LoggingIn
    <3>2. CASE Posts(c, "changed", "others", "kicking")
      <4>1. inbox \in Seq(Commands) /\ who[c] \in Accounts \cup {NoUser}
        BY DEF Typed, SessionTypeOK, PresenceTypeOK
      <4>2. PICK u : u = who[c]
        OBVIOUS
      <4>3. Command("others", c, u) \in Commands /\ Send("others", c, u)
        BY <3>2, <4>1, <4>2 DEF Command, Commands, Posts
      <4>4. Held(Command("others", c, u))'
        BY <4>1, <4>3, HeldAppended
      <4>5. Reaches(Command("others", c, u), d)
        BY <1>6, <4>2 DEF Reaches, Command
      <4> QED BY <1>2, <4>4, <4>5, SameReach
    <3>3. CASE pc'[c] = "changed" /\ who' = who
      BY <1>2, <1>6, <3>3
    <3> QED BY <3>1, <3>2, <3>3
  <2> QED BY <2>1, <2>2
<1> QED BY <1>3, <1>4, <1>5, <1>6, MailTold

LEMMA ConnEvictionDue ==
  ASSUME Typed, NEW e \in Conns, Moves(e), NEW d \in Conns, who'[d] = who[d],
         EvictionDue(d)
  PROVE  EvictionDue(d)'
<1>0. UNCHANGED <<apc, job, listing>>
  BY DEF Moves, Alone
<1>1. \A m : Held(m) => Held(m)'
  BY ConnHeld DEF Held
<1>2. \A k : Answered(k)' => Answered(k)
  <2>1. \A k : Answered(k)' <=> \A m : Held(m)' => m.by # k
    BY DEF Answered, Held
  <2> QED BY <1>1, <2>1, MailTold
<1> QED BY <1>0, <1>2, ConnKickDue DEF EvictionDue

(* What a step of a connection leaves of the credentials.                  *)
LEMMA ConnCred ==
  ASSUME Typed, NEW e \in Conns, Moves(e), NEW d \in Conns \ {e},
         pc[d] \notin {"new", "auth", "ended"}
  PROVE  cred'[who[d]] = cred[who[d]] \/ KickDue(d)'
<1>1. CASE cred' = cred
  BY <1>1
<1>2. CASE Changes(e)
  <2>1. CASE who[e] = who[d]
    <3>1. who' = who /\ pc'[e] = "changed"
      BY <1>2 DEF Changes
    <3> QED BY <2>1, <3>1 DEF KickDue
  <2>2. CASE who[e] # who[d]
    BY <1>2, <2>2 DEF Changes, Typed, SessionTypeOK, Known
  <2> QED BY <2>1, <2>2
<1> QED BY <1>1, <1>2 DEF Moves, Walks, Quits, Admits, Serves, Drops, Reaps,
           Posts

(* The kinds of step that end in a session past a check.                   *)
LEMMA PastOf ==
  ASSUME Registry, NEW e \in Conns, Moves(e),
         pc'[e] \in {"re_row", "re_role", "re_cred", "re_ban"} \cup Serving
  PROVE  /\ \/ Serves(e) \/ Changes(e)
            \/ Posts(e, "changed", "others", "kicking")
         /\ who'[e] = who[e]
  BY DEF Moves, Walks, Quits, Admits, Serves, Changes, Drops, Reaps, Posts,
     Registry, LoggingIn, Serving

LEMMA ConnFresh ==
  ASSUME Typed, Registry, NEW e \in Conns, Moves(e),
         \A d \in Conns : FreshOf(d)
  PROVE  \A d \in Conns : FreshOf(d)'
<1>0. Alone(e) /\ banned' = banned /\ denied' = denied
  BY DEF Moves, Alone
<1>1. ASSUME NEW d \in Conns \ {e}
      PROVE  FreshOf(d)'
  <2>1. pc'[d] = pc[d] /\ sess'[d] = sess[d] /\ who'[d] = who[d]
    BY <1>0 DEF Alone
  <2>2. FreshOf(d)
    OBVIOUS
  <2>3. Past(d, {"re_cred", "re_ban"}) =>
          cred'[who[d]] = cred[who[d]] \/ KickDue(d)'
    BY ConnCred DEF Past, Serving
  <2>4. KickDue(d) => KickDue(d)'
    BY <2>1, ConnKickDue
  <2>5. EvictionDue(d) => EvictionDue(d)'
    BY <2>1, ConnEvictionDue
  <2> QED BY <1>0, <2>1, <2>2, <2>3, <2>4, <2>5 DEF FreshOf, Past
<1>2. FreshOf(e)'
  <2>0. FreshOf(e)
    OBVIOUS
  <2>1. CASE pc'[e] \notin {"re_cred", "re_ban"} \cup Serving
    BY <2>1 DEF FreshOf, Past
  <2>2. CASE pc'[e] \in {"re_cred", "re_ban"} \cup Serving
    <3>1. /\ \/ Serves(e) \/ Changes(e)
             \/ Posts(e, "changed", "others", "kicking")
          /\ who'[e] = who[e]
      BY <2>2, PastOf
    <3>2. KickDue(e) => KickDue(e)'
      BY <3>1, ConnKickDue
    <3>3. EvictionDue(e) => EvictionDue(e)'
      BY <3>1, ConnEvictionDue
    <3>4. CASE Serves(e)
      BY <1>0, <2>0, <3>1, <3>2, <3>3, <3>4
         DEF Serves, FreshOf, Past, Serving, Rechecking
    <3>5. CASE Changes(e)
      <4>1. cred'[who[e]] = cred[who[e]] + 1
        BY <3>5 DEF Changes, Typed, SessionTypeOK, Known
      <4> QED BY <1>0, <2>0, <3>1, <3>2, <3>3, <3>5, <4>1
              DEF Changes, FreshOf, Past, Serving
    <3>6. CASE Posts(e, "changed", "others", "kicking")
      BY <1>0, <2>0, <3>1, <3>2, <3>3, <3>6
         DEF Posts, FreshOf, Past, Serving
    <3> QED BY <3>1, <3>4, <3>5, <3>6
  <2> QED BY <2>1, <2>2
<1> QED BY <1>1, <1>2

LEMMA ConnEmpowered ==
  ASSUME Typed, Registry, NEW e \in Conns, Moves(e),
         \A d \in Conns : Empowered(d)
  PROVE  \A d \in Conns : Empowered(d)'
<1>0. Alone(e) /\ row' = row /\ role' = role
  BY DEF Moves, Alone
<1>1. \A a : Stored(a)' = Stored(a)
  BY <1>0 DEF Stored
<1>2. ASSUME NEW d \in Conns \ {e}
      PROVE  Empowered(d)'
  <2>1. pc'[d] = pc[d] /\ sess'[d] = sess[d] /\ who'[d] = who[d]
    BY <1>0 DEF Alone
  <2>2. Empowered(d)
    OBVIOUS
  <2>4. KickDue(d) => KickDue(d)'
    BY <2>1, ConnKickDue
  <2> QED BY <1>0, <1>1, <2>1, <2>2, <2>4 DEF Empowered, Past
<1>3. Empowered(e)'
  <2>0. Empowered(e)
    OBVIOUS
  <2>1. CASE pc'[e] \notin {"re_row", "re_role", "re_cred", "re_ban"}
                           \cup Serving
    BY <2>1 DEF Empowered, Past
  <2>2. CASE pc'[e] \in {"re_row", "re_role", "re_cred", "re_ban"}
                        \cup Serving
    <3>1. /\ \/ Serves(e) \/ Changes(e)
             \/ Posts(e, "changed", "others", "kicking")
          /\ who'[e] = who[e]
      BY <2>2, PastOf
    <3>2. KickDue(e) => KickDue(e)'
      BY <3>1, ConnKickDue
    <3>3. Stored(who[e])' = Stored(who[e])
      BY <1>0, <3>1 DEF Stored
    <3>4. CASE Serves(e)
      <4>1. CASE pc'[e] = "re_row"
        BY <1>0, <3>1, <3>3, <3>4, <4>1 DEF Serves, Empowered, Stored, Past,
           Serving
      <4>2. CASE pc'[e] = "re_role"
        BY <1>0, <2>0, <3>1, <3>2, <3>3, <3>4, <4>2
           DEF Serves, Empowered, Past, Serving
      <4>3. CASE pc'[e] \notin {"re_row", "re_role"}
        BY <1>0, <2>0, <3>1, <3>2, <3>3, <3>4, <4>3
           DEF Serves, Empowered, Past, Serving, Rechecking
      <4> QED BY <4>1, <4>2, <4>3
    <3>5. CASE Changes(e)
      BY <1>0, <2>0, <3>1, <3>2, <3>3, <3>5
         DEF Changes, Empowered, Past, Serving
    <3>6. CASE Posts(e, "changed", "others", "kicking")
      BY <1>0, <2>0, <3>1, <3>2, <3>3, <3>6
         DEF Posts, Empowered, Past, Serving
    <3> QED BY <3>1, <3>4, <3>5, <3>6
  <2> QED BY <2>1, <2>2
<1> QED BY <1>2, <1>3

LEMMA ConnRest ==
  ASSUME Typed, Mentioned, \A k \in Admins : Handling(k),
         NEW c \in Conns, Moves(c)
  PROVE  Mentioned' /\ \A k \in Admins : Handling(k)'
<1>1. UNCHANGED <<roster, listing, job, apc, lock, row, role>>
  BY DEF Moves, Alone
<1>2. \A d \in Conns : who[d] \in Accounts => who'[d] \in Accounts
  <2>1. who'[c] = who[c] \/ who'[c] \in Accounts
    BY DEF Moves, Walks, Quits, Admits, Serves, Changes, Drops, Reaps, Posts
  <2> QED BY <2>1 DEF Moves, Alone
<1>3. \A a : Stored(a)' = Stored(a)
  BY <1>1 DEF Stored
<1> QED BY <1>1, <1>2, <1>3 DEF Mentioned, Handling

---------------------------------------------------------------------------
(* The actor's turn.                                                       *)
ActorFrame ==
  UNCHANGED <<row, role, cred, banned, denied, lock, apc, job, sessions, pc,
              sess, reaper, who, gone>>

LEMMA ActorTurn ==
  ASSUME Typed, MailOK, ActorStep
  PROVE  /\ PresenceStep /\ ActorFrame /\ inbox \in Seq(Commands)
         /\ Held(Head(inbox)) /\ Expected(Head(inbox))
         /\ \/ HandleJoin(Head(inbox)) \/ HandleLeave(Head(inbox))
            \/ HandleKill(Head(inbox)) \/ HandleNotice(Head(inbox))
            \/ HandleList(Head(inbox))
         /\ \A m : Held(m)' => Held(m)
         /\ \A m : Held(m) => Held(m)' \/ m = Head(inbox)
<1>1. PresenceStep /\ ActorFrame /\ inbox \in Seq(Commands)
  BY DEF ActorStep, ActorFrame, PresenceStep, dbVars, adminVars, Typed,
     SessionTypeOK, PresenceTypeOK
<1> QED BY <1>1, Turn, HeldTaken

(* The roster after a turn: the newcomer is in, the leaver is out, and of  *)
(* the others only ended connections go.                                   *)
RosterTurn(cmd) ==
  /\ kill \subseteq kill'
  /\ \A c \in roster : c \in roster' \/ c \in gone
       \/ (cmd.op = "leave" /\ cmd.by = c)
  /\ \A c \in roster' : c \in roster \/ (cmd.op = "join" /\ cmd.by = c)
  /\ cmd.op = "join" => cmd.by \in roster' \/ cmd.by \in gone
  /\ cmd.op = "leave" => cmd.by \notin roster'

LEMMA HandledRoster ==
  ASSUME NEW cmd,
         \/ HandleJoin(cmd) \/ HandleLeave(cmd) \/ HandleKill(cmd)
         \/ HandleNotice(cmd) \/ HandleList(cmd)
  PROVE  RosterTurn(cmd)
<1>2. ASSUME NEW S, NEW T
      PROVE  Announce(S, T) = S \/ Announce(S, T) = S \ gone
  BY DEF Announce
<1>3. CASE HandleJoin(cmd)
  BY <1>2, <1>3 DEF HandleJoin, RosterTurn
<1>4. CASE HandleLeave(cmd)
  BY <1>2, <1>4 DEF HandleLeave, RosterTurn
<1>5. CASE HandleKill(cmd)
  <2>1. roster' = roster \/ roster' = roster \ gone
    BY <1>5 DEF HandleKill
  <2>2. kill \subseteq kill' /\ cmd.op \in {"kick", "others", "all"}
    BY <1>5 DEF HandleKill
  <2> QED BY <2>1, <2>2 DEF RosterTurn
<1>6. CASE HandleNotice(cmd)
  BY <1>2, <1>6 DEF HandleNotice, RosterTurn
<1>7. CASE HandleList(cmd)
  BY <1>7 DEF HandleList, RosterTurn
<1> QED BY <1>3, <1>4, <1>5, <1>6, <1>7

LEMMA ActorRoster ==
  ASSUME Typed, MailOK, ActorStep
  PROVE  RosterTurn(Head(inbox))
<1>1. PICK cmd : cmd = Head(inbox)
  OBVIOUS
<1> QED BY <1>1, ActorTurn, HandledRoster

LEMMA ActorMail ==
  ASSUME Typed, MailOK, ActorStep
  PROVE  MailOK'
<1>0. PresenceStep /\ ActorFrame /\ inbox \in Seq(Commands)
      /\ \A m : Held(m)' => Held(m)
  BY ActorTurn
<1>1. ASSUME NEW i \in DOMAIN inbox'
      PROVE  Expected(inbox[i])'
  <2>1. PICK m : m = inbox'[i]
    OBVIOUS
  <2>2. Held(m)'
    BY <2>1 DEF Held
  <2>3. Expected(m)
    BY <1>0, <2>2, MailKnown
  <2>4. Expected(m)'
    BY <1>0, <2>3 DEF Expected, ActorFrame
  <2> QED BY <2>1, <2>4
<1>2. inbox # <<>> /\ inbox' = Tail(inbox)
  BY <1>0 DEF PresenceStep
<1>3. ASSUME NEW i \in DOMAIN inbox', NEW j \in DOMAIN inbox',
             i < j, inbox'[i].by = inbox'[j].by
      PROVE  inbox'[j].op # "join"
  <2>1. /\ i + 1 \in DOMAIN inbox /\ inbox'[i] = inbox[i + 1]
        /\ j + 1 \in DOMAIN inbox /\ inbox'[j] = inbox[j + 1]
        /\ i \in Nat /\ j \in Nat
    BY <1>0, <1>2, Taken
  <2>2. i + 1 < j + 1
    BY <1>3, <2>1
  <2> QED BY <1>3, <2>1, <2>2 DEF MailOK
<1> QED BY <1>1, <1>3 DEF MailOK

(* A Join is the first of its connection's commands.                       *)
LEMMA NoLateJoin ==
  ASSUME Typed, MailOK, ActorStep,
         NEW m, Held(m)', m.op = "join", m.by = Head(inbox).by
  PROVE  FALSE
<1>1. inbox # <<>> /\ inbox' = Tail(inbox) /\ inbox \in Seq(Commands)
  BY ActorTurn DEF PresenceStep
<1>2. PICK i \in DOMAIN inbox' : inbox'[i] = m
  BY DEF Held
<1>3. /\ i + 1 \in DOMAIN inbox /\ inbox[i + 1] = m /\ i \in Nat
      /\ 1 \in DOMAIN inbox /\ Head(inbox) = inbox[1]
      /\ DOMAIN inbox' = 1 .. Len(inbox')
  BY <1>1, <1>2, Taken
<1>4. 1 < i + 1
  BY <1>2, <1>3
<1> QED BY <1>3, <1>4 DEF MailOK

LEMMA ActorListed ==
  ASSUME Typed, Registry, MailOK, \A d \in Conns : Listed(d), ActorStep
  PROVE  \A d \in Conns : Listed(d)'
<1>0. /\ UNCHANGED <<pc, reaper, gone>> /\ Expected(Head(inbox))
      /\ Held(Head(inbox))
      /\ \A m : Held(m)' => Held(m)
      /\ \A m : Held(m) => Held(m)' \/ m = Head(inbox)
  BY ActorTurn DEF ActorFrame
<1> SUFFICES ASSUME NEW d \in Conns
             PROVE  Listed(d)'
  OBVIOUS
<1> DEFINE cmd == Head(inbox)
<1>1. /\ pc[d] \in Online => d \in roster
      /\ pc[d] = "joining" => d \in roster \/ ~Answered(d)
      /\ d \in roster => pc[d] \in {"joining"} \cup Online \/ LeaveDue(d)
      /\ JoinDue(d) => pc[d] = "joining" \/ LeaveDue(d)
  BY ListedTold
<1>2. /\ \A x : Answered(x)' <=> \A m : Held(m)' => m.by # x
      /\ LeaveDue(d)' <=>
           d \in reaper \/ \E m : Held(m)' /\ m.by = d /\ m.op = "leave"
      /\ JoinDue(d)' <=> \E m : Held(m)' /\ m.op = "join" /\ m.by = d
  BY <1>0 DEF Answered, LeaveDue, JoinDue, Held
<1>3. d \in gone <=> pc[d] = "ended"
  BY DEF Registry
<1>4. cmd.by = d =>
        \/ cmd.op = "join" /\ pc[d] \in {"joining", "ended"}
        \/ cmd.op = "others" /\ pc[d] \in {"kicking", "ended"}
        \/ cmd.op = "leave" /\ pc[d] \in {"left", "ended"}
  BY <1>0, PresenceConstants DEF Expected
<1>5. LeaveDue(d) => LeaveDue(d)' \/ (cmd.by = d /\ cmd.op = "leave")
  BY <1>0, <1>2, MailTold
<1>6. JoinDue(d)' => JoinDue(d) /\ cmd.by # d
  <2>1. JoinDue(d)' => JoinDue(d)
    BY <1>0, <1>2 DEF JoinDue
  <2>2. JoinDue(d)' => cmd.by # d
    BY <1>2, NoLateJoin
  <2> QED BY <2>1, <2>2
<1>7. pc[d] = "joining" =>
        d \in roster' \/ ~Answered(d)'
  <2>1. CASE pc[d] = "joining" /\ d \in roster
    BY <1>3, <1>4, <2>1, ActorRoster DEF RosterTurn
  <2>2. CASE pc[d] = "joining" /\ ~Answered(d)
    <3>1. PICK m : Held(m) /\ m.by = d
      BY <2>2, MailTold
    <3>2. Held(m)' => ~Answered(d)'
      BY <1>2, <3>1
    <3>3. m = cmd => d \in roster'
      BY <1>3, <1>4, <2>2, <3>1, ActorRoster DEF RosterTurn
    <3> QED BY <1>0, <3>1, <3>2, <3>3
  <2> QED BY <1>1, <2>1, <2>2
<1>8. pc[d] \in Online => d \in roster'
  BY <1>1, <1>3, <1>4, ActorRoster DEF RosterTurn, Online, Joined, Rechecking,
     Serving
<1>9. d \in roster' => pc[d] \in {"joining"} \cup Online \/ LeaveDue(d)'
  <2>1. CASE d \in roster
    BY <1>1, <1>5, <2>1, ActorRoster DEF RosterTurn
  <2>2. CASE d \notin roster /\ d \in roster'
    <3>1. cmd.op = "join" /\ cmd.by = d
      BY <2>2, ActorRoster DEF RosterTurn
    <3>2. JoinDue(d)
      BY <1>0, <3>1 DEF JoinDue
    <3> QED BY <1>1, <1>5, <3>1, <3>2
  <2> QED BY <2>1, <2>2
<1>10. JoinDue(d)' => pc[d] = "joining" \/ LeaveDue(d)'
  BY <1>1, <1>5, <1>6
<1>11. Listed(d)' <=>
      /\ pc'[d] \in Online => d \in roster'
      /\ pc'[d] = "joining" => d \in roster' \/ ~Answered(d)'
      /\ d \in roster' => pc'[d] \in {"joining"} \cup Online \/ LeaveDue(d)'
      /\ JoinDue(d)' => pc'[d] = "joining" \/ LeaveDue(d)'
  BY DEF Listed, JoinDue, Held
<1> QED BY <1>0, <1>7, <1>8, <1>9, <1>10, <1>11

(* A session that is online and reached gets its kill signal.              *)
LEMMA ActorKills ==
  ASSUME Typed, MailOK, ActorStep, NEW d \in roster, d \notin gone,
         Reaches(Head(inbox), d)
  PROVE  d \in kill'
<1>1. Head(inbox).op \in {"kick", "others", "all"}
  BY DEF Reaches
<1>2. HandleKill(Head(inbox))
  BY <1>1, ActorTurn DEF HandleJoin, HandleLeave, HandleNotice, HandleList
<1> QED BY <1>2 DEF HandleKill

LEMMA ActorKickDue ==
  ASSUME Typed, MailOK, ActorStep, NEW d \in Conns, d \in roster, d \notin gone,
         KickDue(d)
  PROVE  KickDue(d)'
<1>0. /\ ActorFrame /\ kill \subseteq kill'
      /\ \A m : Held(m) => Held(m)' \/ m = Head(inbox)
  BY ActorTurn, ActorRoster DEF RosterTurn
<1>1. KickDue(d)' <=>
       \/ d \in kill' \/ (\E m : Held(m)' /\ Reaches(m, d)')
       \/ (\E k \in Admins : MustKick(k, who[d])')
       \/ \E c \in Conns \ {d} : pc'[c] = "changed" /\ who'[c] = who'[d]
  BY DEF KickDue, Held
<1>2. CASE \E m : Held(m) /\ Reaches(m, d)
  <2>1. PICK m : Held(m) /\ Reaches(m, d)
    BY <1>2
  <2>2. CASE m = Head(inbox)
    BY <1>1, <2>1, <2>2, ActorKills
  <2>3. CASE Held(m)'
    BY <1>0, <1>1, <2>1, <2>3, SameReach DEF ActorFrame
  <2> QED BY <1>0, <2>1, <2>2, <2>3
<1>3. CASE \E k \in Admins : MustKick(k, who[d])
  <2>1. PICK k \in Admins : MustKick(k, who[d])
    BY <1>3
  <2>2. MustKick(k, who[d])'
    BY <1>0, <2>1 DEF MustKick, Stored, ActorFrame
  <2> QED BY <1>1, <2>2
<1>4. CASE d \in kill \/ \E c \in Conns \ {d} :
             pc[c] = "changed" /\ who[c] = who[d]
  BY <1>0, <1>1, <1>4 DEF ActorFrame
<1> QED BY <1>2, <1>3, <1>4, MailTold

LEMMA ActorEvictionDue ==
  ASSUME Typed, MailOK, ActorStep, NEW d \in Conns, d \in roster, d \notin gone,
         EvictionDue(d)
  PROVE  EvictionDue(d)'
<1>0. /\ ActorFrame /\ Expected(Head(inbox)) /\ who' = who
      /\ apc' = apc /\ job' = job
      /\ listing \in [Admins -> SUBSET Conns]
      /\ \A m : Held(m) => Held(m)' \/ m = Head(inbox)
      /\ \/ HandleJoin(Head(inbox)) \/ HandleLeave(Head(inbox))
         \/ HandleKill(Head(inbox)) \/ HandleNotice(Head(inbox))
         \/ HandleList(Head(inbox))
  BY ActorTurn DEF ActorFrame, Typed, SessionTypeOK, PresenceTypeOK
<1>1. \A x : Answered(x)' <=> \A m : Held(m)' => m.by # x
  BY DEF Answered, Held
<1>2. ASSUME NEW k \in Admins
      PROVE  d \in listing[k] => d \in listing'[k]
  <2>1. listing' = listing \/ listing' = [listing EXCEPT
                                            ![Head(inbox).by] = roster]
    BY <1>0 DEF HandleJoin, HandleLeave, HandleKill, HandleNotice, HandleList
  <2> QED BY <1>0, <2>1
<1>3. ASSUME NEW k \in Admins, apc[k] = "listing", ~Answered(k)
      PROVE  ~Answered(k)' \/ d \in listing'[k]
  <2>1. PICK m : Held(m) /\ m.by = k
    BY <1>3, MailTold
  <2>2. CASE Held(m)'
    BY <1>1, <2>1, <2>2
  <2>3. CASE m = Head(inbox)
    <3>1. Head(inbox).op = "list" /\ Head(inbox).by = k
      BY <1>0, <1>3, <2>1, <2>3, PresenceConstants DEF Expected
    <3>2. HandleList(Head(inbox))
      BY <1>0, <3>1 DEF HandleJoin, HandleLeave, HandleKill, HandleNotice
    <3> QED BY <1>0, <3>1, <3>2 DEF HandleList
  <2> QED BY <1>0, <2>1, <2>2, <2>3
<1>4. KickDue(d) => KickDue(d)'
  BY ActorKickDue
<1> QED BY <1>0, <1>2, <1>3, <1>4 DEF EvictionDue

(* Who is past a check is online.                                          *)
LEMMA PastOnline ==
  ASSUME Registry, NEW d \in Conns, Listed(d),
         pc[d] \in {"re_row", "re_role", "re_cred", "re_ban"} \cup Serving
  PROVE  d \in roster /\ d \notin gone
  BY DEF Registry, Listed, Online, Joined, Rechecking, Serving

LEMMA ActorSessions ==
  ASSUME SessionInv, ActorStep
  PROVE  /\ Registry' /\ Capped'
         /\ \A d \in Conns : Proven(d)' /\ FreshOf(d)'
         /\ \A c, d \in Conns : SignsOut(c, d)'
         /\ \A k \in Admins : Handling(k)'
         /\ Mentioned'
<1>0. Typed /\ MailOK /\ Registry
  BY DEF SessionInv
<1>1. ActorFrame /\ Expected(Head(inbox))
      /\ \A m : Held(m) => Held(m)' \/ m = Head(inbox)
  BY <1>0, ActorTurn
<1>2. Registry' /\ Capped' /\ \A d \in Conns : Proven(d)'
  BY <1>1 DEF SessionInv, ActorFrame, Registry, Capped, Proven
<1>3. \A a : Stored(a)' = Stored(a)
  BY <1>1 DEF ActorFrame, Stored
<1>4. \A k \in Admins : Handling(k)'
  BY <1>1, <1>3 DEF SessionInv, ActorFrame, Handling
<1>5. ASSUME NEW d \in Conns
      PROVE  FreshOf(d)'
  <2>1. FreshOf(d) /\ Listed(d)
    BY DEF SessionInv
  <2>2. pc[d] \in {"re_cred", "re_ban"} \cup Serving =>
          (KickDue(d) => KickDue(d)') /\ (EvictionDue(d) => EvictionDue(d)')
    BY <1>0, <2>1, PastOnline, ActorKickDue, ActorEvictionDue
  <2> QED BY <1>1, <2>1, <2>2 DEF ActorFrame, FreshOf, Past
<1>6. ASSUME NEW c \in Conns, NEW d \in Conns
      PROVE  SignsOut(c, d)'
  <2> SUFFICES ASSUME sess[c].renewed, Past(d, {"re_cred", "re_ban"}),
                      who[d] = who[c], sess[d].cred < sess[c].cred
               PROVE  d \in kill' \/ pc[c] = "changed" \/ OthersDue(c)'
    BY <1>1 DEF ActorFrame, SignsOut, Past, OthersDue, Held
  <2>1. d \in roster /\ d \notin gone /\ d # c
    <3>1. Listed(d) /\ sess[d].cred \in Nat
      BY <1>0 DEF SessionInv, Typed, SessionTypeOK, Sessioned
    <3>2. d \in roster /\ d \notin gone
      BY <1>0, <3>1, PastOnline DEF Past
    <3> QED BY <3>1, <3>2
  <2>2. d \in kill \/ pc[c] = "changed" \/ OthersDue(c)
    BY SignsOutTold DEF SessionInv
  <2>3. CASE OthersDue(c)
    <3>1. PICK m : Held(m) /\ m.by = c /\ m.op = "others"
      BY <2>3 DEF OthersDue
    <3>2. CASE Held(m)'
      BY <3>1, <3>2 DEF OthersDue
    <3>3. CASE m = Head(inbox)
      <4>1. Reaches(Head(inbox), d)
        BY <1>1, <2>1, <3>1, <3>3 DEF Expected, Reaches
      <4> QED BY <1>0, <2>1, <4>1, ActorKills
    <3> QED BY <1>1, <3>1, <3>2, <3>3
  <2> QED BY <1>0, <2>2, <2>3, ActorRoster DEF RosterTurn
<1>7. Mentioned'
  <2>1. /\ \A d \in roster' : d \in roster \/ who[d] \in Accounts
        /\ \A k \in Admins : listing'[k] \subseteq listing[k] \cup roster
    <3>1. \A d \in roster' : d \in roster \/ who[d] \in Accounts
      BY <1>0, <1>1, ActorRoster DEF RosterTurn, Expected
    <3>2. listing' = listing \/ listing' = [listing EXCEPT
                                              ![Head(inbox).by] = roster]
      BY <1>0, ActorTurn DEF HandleJoin, HandleLeave, HandleKill,
         HandleNotice, HandleList
    <3>3. listing \in [Admins -> SUBSET Conns]
      BY <1>0 DEF Typed, SessionTypeOK, PresenceTypeOK
    <3> QED BY <3>1, <3>2, <3>3
  <2> QED BY <1>1, <2>1 DEF SessionInv, Mentioned, ActorFrame
<1> QED BY <1>2, <1>4, <1>5, <1>6, <1>7

LEMMA ActorEmpowered ==
  ASSUME SessionInv, ActorStep, \A d \in Conns : Empowered(d)
  PROVE  \A d \in Conns : Empowered(d)'
<1> SUFFICES ASSUME NEW d \in Conns
             PROVE  Empowered(d)'
  OBVIOUS
<1>0. Typed /\ MailOK /\ Registry /\ Listed(d) /\ Empowered(d)
  BY DEF SessionInv
<1>1. ActorFrame
  BY <1>0, ActorTurn
<1>2. \A a : Stored(a)' = Stored(a)
  BY <1>1 DEF ActorFrame, Stored
<1>3. pc[d] \in {"re_row", "re_role", "re_cred", "re_ban"} \cup Serving =>
        (KickDue(d) => KickDue(d)')
  BY <1>0, PastOnline, ActorKickDue
<1> QED BY <1>0, <1>1, <1>2, <1>3 DEF ActorFrame, Empowered, Past

---------------------------------------------------------------------------
(* The steps of an administrator's handler.                                *)
Works(k) == Request(k) \/ HandlerStep(k)

(* What they leave alone: connections, presence and the other handlers.    *)
AdminFrame(k) ==
  /\ UNCHANGED <<sessions, pc, sess, reaper, who, gone, roster, kill, closing,
                 listing>>
  /\ \A j \in Admins \ {k} : apc'[j] = apc[j] /\ job'[j] = job[j]
  /\ (row' = row /\ role' = role) \/ WritePrivileges(k)
  /\ lock' = lock \/ (lock = Free /\ lock' = k) \/ (lock = k /\ lock' = Free)
  /\ denied' = denied \/ apc'[k] = "ruled"

(* The commands they send, and from where.                                 *)
Asking == {"listing", "noticed", "wait"}

Mails(k) ==
  \/ /\ inbox' = inbox
     /\ apc[k] \in Asking => Answered(k) \/ apc'[k] = apc[k]
  \/ \E op \in {"list", "notice", "kick", "all"},
        u \in Accounts \cup {NoUser} :
       /\ Send(op, k, u)
       /\ apc[k] \notin Asking \/ Answered(k)
       /\ op = "list" => apc'[k] = "listing"
       /\ op = "notice" => apc'[k] = "noticed"
       /\ op \in {"kick", "all"} => apc'[k] = "wait"

LEMMA AdminFrames ==
  ASSUME Typed, NEW k \in Admins, Works(k)
  PROVE  AdminFrame(k)
<1>0. /\ job \in [Admins -> Jobs] /\ who \in [Conns -> Accounts \cup {NoUser}]
      /\ apc \in [Admins -> {"idle", "write", "reset", "ruled", "listing",
                             "match", "kick", "wait", "noticed"}]
  BY DEF Typed, SessionTypeOK, PresenceTypeOK
<1>1. ASSUME NEW what \in Requests \cap {"row", "role"},
             NEW target \in SUBSET Accounts, LockPrivileges(k, what, target)
      PROVE  AdminFrame(k)
  BY <1>1, <1>0 DEF LockPrivileges, AdminFrame, Step, Begin, Acquire, Finish,
     Send, dbVars, connVars, adminVars, presenceVars
<1>2. ASSUME NEW a \in Accounts, LockReset(k, a)
      PROVE  AdminFrame(k)
  BY <1>2, <1>0 DEF LockReset, AdminFrame, Step, Begin, Acquire, Finish, Send,
     dbVars, connVars, adminVars, presenceVars
<1>3. ASSUME NEW a \in Accounts, NEW ban \in BOOLEAN, Disconnect(k, a, ban)
      PROVE  AdminFrame(k)
  BY <1>3, <1>0 DEF Disconnect, AdminFrame, Step, Begin, Acquire, Finish,
     Send, dbVars, connVars, adminVars, presenceVars
<1>4. ASSUME NEW rules \in SUBSET Addresses, ChangeRules(k, rules)
      PROVE  AdminFrame(k)
  BY <1>4, <1>0 DEF ChangeRules, AdminFrame, Step, Begin, Acquire, Finish,
     Send, dbVars, connVars, adminVars, presenceVars
<1>5. CASE AdminShutdown(k)
  BY <1>5, <1>0 DEF AdminShutdown, AdminFrame, Step, Begin, Acquire, Finish,
     Send, dbVars, connVars, adminVars, presenceVars
<1>6. CASE SignalShutdown(k)
  BY <1>6, <1>0 DEF SignalShutdown, AdminFrame, Step, Begin, Acquire, Finish,
     Send, dbVars, connVars, adminVars, presenceVars
<1>7. CASE WritePrivileges(k)
  BY <1>7, <1>0 DEF AdminFrame, WritePrivileges, Step, connVars, presenceVars
<1>8. CASE RefuseWrite(k)
  BY <1>8, <1>0 DEF RefuseWrite, AdminFrame, Step, Begin, Acquire, Finish,
     Send, dbVars, connVars, adminVars, presenceVars
<1>9. CASE ResetPassword(k)
  BY <1>9, <1>0 DEF ResetPassword, AdminFrame, Step, Begin, Acquire, Finish,
     Send, dbVars, connVars, adminVars, presenceVars
<1>10. CASE AskList(k)
  BY <1>10, <1>0 DEF AskList, AdminFrame, Step, Begin, Acquire, Finish, Send,
     dbVars, connVars, adminVars, presenceVars
<1>11. CASE ListAnswered(k)
  BY <1>11, <1>0 DEF ListAnswered, AdminFrame, Step, Begin, Acquire, Finish,
     Send, dbVars, connVars, adminVars, presenceVars
<1>12. CASE MatchEntry(k)
  BY <1>12, <1>0 DEF MatchEntry, AdminFrame, Step, Begin, Acquire, Finish,
     Send, dbVars, connVars, adminVars, presenceVars
<1>13. CASE MatchedAll(k)
  BY <1>13, <1>0 DEF MatchedAll, AdminFrame, Step, Begin, Acquire, Finish,
     Send, dbVars, connVars, adminVars, presenceVars
<1>14. CASE KickNext(k)
  BY <1>14, <1>0 DEF KickNext, AdminFrame, Step, Begin, Acquire, Finish, Send,
     dbVars, connVars, adminVars, presenceVars
<1>15. CASE PassOver(k)
  BY <1>15, <1>0 DEF PassOver, AdminFrame, Step, Begin, Acquire, Finish, Send,
     dbVars, connVars, adminVars, presenceVars
<1>16. CASE KickAnswered(k)
  BY <1>16, <1>0 DEF KickAnswered, AdminFrame, Step, Begin, Acquire, Finish,
     Send, dbVars, connVars, adminVars, presenceVars
<1>17. CASE KickedAll(k)
  BY <1>17, <1>0 DEF KickedAll, AdminFrame, Step, Begin, Acquire, Finish,
     Send, dbVars, connVars, adminVars, presenceVars
<1>18. CASE NoticeAnswered(k)
  BY <1>18, <1>0 DEF NoticeAnswered, AdminFrame, Step, Begin, Acquire, Finish,
     Send, dbVars, connVars, adminVars, presenceVars
<1>19. ASSUME Request(k)
       PROVE  AdminFrame(k)
  BY <1>19, <1>1, <1>2, <1>3, <1>4, <1>5, <1>6 DEF Request
<1> QED BY <1>7, <1>8, <1>9, <1>10, <1>11, <1>12, <1>13, <1>14, <1>15, <1>16,
           <1>17, <1>18, <1>19 DEF Works, HandlerStep

LEMMA AdminMails ==
  ASSUME Typed, NEW k \in Admins, Works(k)
  PROVE  Mails(k)
<1>0. /\ job \in [Admins -> Jobs] /\ who \in [Conns -> Accounts \cup {NoUser}]
      /\ apc \in [Admins -> {"idle", "write", "reset", "ruled", "listing",
                             "match", "kick", "wait", "noticed"}]
  BY DEF Typed, SessionTypeOK, PresenceTypeOK
<1>1. ASSUME NEW what \in Requests \cap {"row", "role"},
             NEW target \in SUBSET Accounts, LockPrivileges(k, what, target)
      PROVE  Mails(k)
  BY <1>1, <1>0 DEF LockPrivileges, Mails, Asking, Step, Begin, Finish,
     presenceVars, adminVars
<1>2. ASSUME NEW a \in Accounts, LockReset(k, a)
      PROVE  Mails(k)
  BY <1>2, <1>0 DEF LockReset, Mails, Asking, Step, Begin, Finish,
     presenceVars, adminVars
<1>3. ASSUME NEW a \in Accounts, NEW ban \in BOOLEAN, Disconnect(k, a, ban)
      PROVE  Mails(k)
  BY <1>3, <1>0 DEF Disconnect, Mails, Asking, Step, Begin, Finish,
     presenceVars, adminVars
<1>4. ASSUME NEW rules \in SUBSET Addresses, ChangeRules(k, rules)
      PROVE  Mails(k)
  BY <1>4, <1>0 DEF ChangeRules, Mails, Asking, Step, Begin, Finish,
     presenceVars, adminVars
<1>5. CASE AdminShutdown(k)
  <2>1. Send("notice", k, NoUser) /\ (apc[k] \notin Asking \/ Answered(k))
    BY <1>5 DEF AdminShutdown, Begin, Asking
  <2>2. apc'[k] = "noticed"
    BY <1>5, <1>0 DEF AdminShutdown, Step
  <2> QED BY <2>1, <2>2 DEF Mails
<1>6. CASE SignalShutdown(k)
  <2>1. Send("all", k, NoUser) /\ (apc[k] \notin Asking \/ Answered(k))
    BY <1>6 DEF SignalShutdown, Begin, Asking
  <2>2. apc'[k] = "wait"
    BY <1>6, <1>0 DEF SignalShutdown, Step
  <2> QED BY <2>1, <2>2 DEF Mails
<1>7. CASE WritePrivileges(k)
  BY <1>7, <1>0 DEF WritePrivileges, Mails, Asking, Step, Begin, Finish,
     presenceVars, adminVars
<1>8. CASE RefuseWrite(k)
  BY <1>8, <1>0 DEF RefuseWrite, Mails, Asking, Step, Begin, Finish,
     presenceVars, adminVars
<1>9. CASE ResetPassword(k)
  BY <1>9, <1>0 DEF ResetPassword, Mails, Asking, Step, Begin, Finish,
     presenceVars, adminVars
<1>10. CASE AskList(k)
  <2>1. Send("list", k, NoUser) /\ (apc[k] \notin Asking \/ Answered(k))
    BY <1>10 DEF AskList, Begin, Asking
  <2>2. apc'[k] = "listing"
    BY <1>10, <1>0 DEF AskList, Step
  <2> QED BY <2>1, <2>2 DEF Mails
<1>11. CASE ListAnswered(k)
  BY <1>11, <1>0 DEF ListAnswered, Mails, Asking, Step, Begin, Finish,
     presenceVars, adminVars
<1>12. CASE MatchEntry(k)
  BY <1>12, <1>0 DEF MatchEntry, Mails, Asking, Step, Begin, Finish,
     presenceVars, adminVars
<1>13. CASE MatchedAll(k)
  BY <1>13, <1>0 DEF MatchedAll, Mails, Asking, Step, Begin, Finish,
     presenceVars, adminVars
<1>14. CASE KickNext(k)
  <2>1. PICK a \in job[k].kicks : Send("kick", k, a)
    BY <1>14 DEF KickNext
  <2>2. apc[k] \notin Asking /\ apc'[k] = "wait" /\ a \in Accounts
    BY <1>14, <1>0 DEF KickNext, Asking, Step, Jobs
  <2> QED BY <2>1, <2>2 DEF Mails
<1>15. CASE PassOver(k)
  BY <1>15, <1>0 DEF PassOver, Mails, Asking, Step, Begin, Finish,
     presenceVars, adminVars
<1>16. CASE KickAnswered(k)
  BY <1>16, <1>0 DEF KickAnswered, Mails, Asking, Step, Begin, Finish,
     presenceVars, adminVars
<1>17. CASE KickedAll(k)
  BY <1>17, <1>0 DEF KickedAll, Mails, Asking, Step, Begin, Finish,
     presenceVars, adminVars
<1>18. CASE NoticeAnswered(k)
  <2>1. Send("all", k, NoUser) /\ (apc[k] \notin Asking \/ Answered(k))
    BY <1>18 DEF NoticeAnswered, Begin, Asking
  <2>2. apc'[k] = "wait"
    BY <1>18, <1>0 DEF NoticeAnswered, Step
  <2> QED BY <2>1, <2>2 DEF Mails
<1>19. ASSUME Request(k)
       PROVE  Mails(k)
  BY <1>19, <1>1, <1>2, <1>3, <1>4, <1>5, <1>6 DEF Request
<1> QED BY <1>7, <1>8, <1>9, <1>10, <1>11, <1>12, <1>13, <1>14, <1>15, <1>16,
           <1>17, <1>18, <1>19 DEF Works, HandlerStep

LEMMA AdminHandling ==
  ASSUME Typed, NEW k \in Admins, Works(k), Handling(k)
  PROVE  Handling(k)'
<1>0. /\ job \in [Admins -> Jobs] /\ who \in [Conns -> Accounts \cup {NoUser}]
      /\ apc \in [Admins -> {"idle", "write", "reset", "ruled", "listing",
                             "match", "kick", "wait", "noticed"}]
  BY DEF Typed, SessionTypeOK, PresenceTypeOK
<1>1. ASSUME NEW what \in Requests \cap {"row", "role"},
             NEW target \in SUBSET Accounts, LockPrivileges(k, what, target)
      PROVE  Handling(k)'
  <2>1. job'[k] = [NoJob EXCEPT !.op = what, !.target = target,
                                !.old = [a \in Accounts |-> Stored(a)]]
        /\ apc'[k] = "write" /\ lock' = k /\ row' = row /\ role' = role
    BY <1>1, <1>0 DEF LockPrivileges, Step, Acquire, dbVars
  <2>2. job'[k].op = what /\ job'[k].old = [a \in Accounts |-> Stored(a)]
    BY <2>1 DEF NoJob
  <2>3. \A a \in Accounts : Stored(a)' = Stored(a)
    BY <2>1 DEF Stored
  <2> QED BY <2>1, <2>2, <2>3 DEF Handling
<1>2. ASSUME NEW a \in Accounts, LockReset(k, a)
      PROVE  Handling(k)'
  <2>1. job'[k].op = "force"
    BY <1>2, <1>0 DEF LockReset, NoJob
  <2>2. apc'[k] \in {"reset", "kick", "ruled"}
    BY <1>2, <1>0 DEF LockReset, Step
  <2> QED BY <2>1, <2>2 DEF Handling
<1>3. ASSUME NEW a \in Accounts, NEW ban \in BOOLEAN, Disconnect(k, a, ban)
      PROVE  Handling(k)'
  <2>1. job'[k].op = "force"
    BY <1>3, <1>0 DEF Disconnect, NoJob
  <2>2. apc'[k] \in {"reset", "kick", "ruled"}
    BY <1>3, <1>0 DEF Disconnect, Step
  <2> QED BY <2>1, <2>2 DEF Handling
<1>4. ASSUME NEW rules \in SUBSET Addresses, ChangeRules(k, rules)
      PROVE  Handling(k)'
  <2>1. job'[k].op = "force"
    BY <1>4, <1>0 DEF ChangeRules, NoJob
  <2>2. apc'[k] \in {"reset", "kick", "ruled"}
    BY <1>4, <1>0 DEF ChangeRules, Step
  <2> QED BY <2>1, <2>2 DEF Handling
<1>5. CASE AdminShutdown(k)
  <2>1. job'[k].op = "stop" /\ apc'[k] \in {"noticed", "wait"}
    BY <1>5, <1>0 DEF AdminShutdown, NoJob, Step
  <2> QED BY <2>1 DEF Handling
<1>6. CASE SignalShutdown(k)
  <2>1. job'[k].op = "stop" /\ apc'[k] \in {"noticed", "wait"}
    BY <1>6, <1>0 DEF SignalShutdown, NoJob, Step
  <2> QED BY <2>1 DEF Handling
<1>7. CASE WritePrivileges(k)
  <2>1. job'[k].op = job[k].op /\ lock' = lock
    BY <1>7, <1>0 DEF WritePrivileges, Jobs, adminVars
  <2>2. Handling(k)
    OBVIOUS
  <2> QED BY <1>7, <1>0, <2>1, <2>2 DEF WritePrivileges, Handling, Step
<1>8. CASE RefuseWrite(k)
  <2>1. apc'[k] = "idle"
    BY <1>8, <1>0 DEF RefuseWrite, Finish, Step
  <2> QED BY <2>1 DEF Handling
<1>9. CASE ResetPassword(k)
  <2>1. job'[k].op = job[k].op /\ lock' = lock
    BY <1>9, <1>0 DEF ResetPassword, Jobs, adminVars
  <2>2. Handling(k)
    OBVIOUS
  <2> QED BY <1>9, <1>0, <2>1, <2>2 DEF ResetPassword, Handling, Step
<1>10. CASE AskList(k)
  <2>1. job'[k].op = job[k].op /\ lock' = lock
    BY <1>10, <1>0 DEF AskList, Jobs, adminVars
  <2>2. Handling(k)
    OBVIOUS
  <2> QED BY <1>10, <1>0, <2>1, <2>2 DEF AskList, Handling, Step
<1>11. CASE ListAnswered(k)
  <2>1. job'[k].op = job[k].op /\ lock' = lock
    BY <1>11, <1>0 DEF ListAnswered, Jobs, adminVars
  <2>2. Handling(k)
    OBVIOUS
  <2> QED BY <1>11, <1>0, <2>1, <2>2 DEF ListAnswered, Handling, Step
<1>12. CASE MatchEntry(k)
  <2>1. job'[k].op = job[k].op /\ lock' = lock
    BY <1>12, <1>0 DEF MatchEntry, Jobs, adminVars
  <2>2. Handling(k)
    OBVIOUS
  <2> QED BY <1>12, <1>0, <2>1, <2>2 DEF MatchEntry, Handling, Step
<1>13. CASE MatchedAll(k)
  <2>1. job'[k].op = job[k].op /\ lock' = lock
    BY <1>13, <1>0 DEF MatchedAll, Jobs, adminVars
  <2>2. Handling(k)
    OBVIOUS
  <2> QED BY <1>13, <1>0, <2>1, <2>2 DEF MatchedAll, Handling, Step
<1>14. CASE KickNext(k)
  <2>1. job'[k].op = job[k].op /\ lock' = lock
    BY <1>14, <1>0 DEF KickNext, Jobs, adminVars
  <2>2. Handling(k)
    OBVIOUS
  <2> QED BY <1>14, <1>0, <2>1, <2>2 DEF KickNext, Handling, Step
<1>15. CASE PassOver(k)
  <2>1. job'[k].op = job[k].op /\ lock' = lock
    BY <1>15, <1>0 DEF PassOver, Jobs, adminVars
  <2>2. Handling(k)
    OBVIOUS
  <2> QED BY <1>15, <1>0, <2>1, <2>2 DEF PassOver, Handling, Step
<1>16. CASE KickAnswered(k)
  <2>1. job'[k].op = job[k].op /\ lock' = lock
    BY <1>16, <1>0 DEF KickAnswered, Jobs, adminVars
  <2>2. Handling(k)
    OBVIOUS
  <2> QED BY <1>16, <1>0, <2>1, <2>2 DEF KickAnswered, Handling, Step
<1>17. CASE KickedAll(k)
  <2>1. apc'[k] = "idle"
    BY <1>17, <1>0 DEF KickedAll, Finish, Step
  <2> QED BY <2>1 DEF Handling
<1>18. CASE NoticeAnswered(k)
  <2>1. job'[k].op = job[k].op /\ lock' = lock
    BY <1>18, <1>0 DEF NoticeAnswered, Jobs, adminVars
  <2>2. Handling(k)
    OBVIOUS
  <2> QED BY <1>18, <1>0, <2>1, <2>2 DEF NoticeAnswered, Handling, Step
<1>19. ASSUME Request(k)
       PROVE  Handling(k)'
  BY <1>19, <1>1, <1>2, <1>3, <1>4, <1>5, <1>6 DEF Request
<1> QED BY <1>7, <1>8, <1>9, <1>10, <1>11, <1>12, <1>13, <1>14, <1>15, <1>16,
           <1>17, <1>18, <1>19 DEF Works, HandlerStep
(* A kick that is owed is made, or stays owed.                              *)
LEMMA KicksStay ==
  ASSUME Typed, NEW k \in Admins, Works(k), NEW a \in Accounts, MustKick(k, a)
  PROVE  MustKick(k, a)' \/ Held(Command("kick", k, a))'
<1>0. /\ job \in [Admins -> Jobs] /\ inbox \in Seq(Commands)
      /\ apc \in [Admins -> {"idle", "write", "reset", "ruled", "listing",
                             "match", "kick", "wait", "noticed"}]
      /\ apc[k] \in {"kick", "wait"} /\ a \in job[k].kicks
      /\ job[k].op \in {"row", "role"} => Stored(a) # job[k].old[a]
  BY DEF Typed, SessionTypeOK, PresenceTypeOK, MustKick
<1>1. row' = row /\ role' = role => Stored(a)' = Stored(a)
  BY DEF Stored
<1>2. CASE KickNext(k)
  <2>1. PICK b \in job[k].kicks :
          job' = [job EXCEPT ![k].kicks = @ \ {b}] /\ Send("kick", k, b)
    BY <1>2 DEF KickNext
  <2>2. Command("kick", k, b) \in Commands
    BY <1>0 DEF Command, Commands, Jobs
  <2>3. Held(Command("kick", k, b))'
    BY <1>0, <2>1, <2>2, HeldAppended
  <2>4. CASE a # b
    <3>1. job'[k].op = job[k].op /\ job'[k].old = job[k].old
          /\ a \in job'[k].kicks /\ apc'[k] = "wait"
      BY <1>0, <1>2, <2>1, <2>4 DEF Jobs, KickNext, Step
    <3>2. row' = row /\ role' = role
      BY <1>2 DEF KickNext, dbVars
    <3> QED BY <1>0, <1>1, <3>1, <3>2 DEF MustKick
  <2> QED BY <2>3, <2>4
<1>3. CASE PassOver(k)
  <2>1. PICK b \in job[k].kicks :
          ~MustKick(k, b) /\ job' = [job EXCEPT ![k].kicks = @ \ {b}]
    BY <1>3 DEF PassOver
  <2>2. a # b
    BY <2>1
  <2>3. job'[k].op = job[k].op /\ job'[k].old = job[k].old
        /\ a \in job'[k].kicks /\ apc'[k] = apc[k]
    BY <1>0, <1>3, <2>1, <2>2 DEF Jobs, PassOver
  <2>4. row' = row /\ role' = role
    BY <1>3 DEF PassOver, dbVars
  <2> QED BY <1>0, <1>1, <2>3, <2>4 DEF MustKick
<1>4. CASE KickAnswered(k)
  <2>1. row' = row /\ role' = role /\ job' = job /\ apc'[k] = "kick"
    BY <1>0, <1>4 DEF KickAnswered, dbVars, Step
  <2> QED BY <1>0, <1>1, <2>1 DEF MustKick
<1>5. ~KickedAll(k)
  BY <1>0 DEF KickedAll
<1>6. ~Request(k)
  BY <1>0 DEF Request, LockPrivileges, LockReset, Disconnect, ChangeRules,
     AdminShutdown, SignalShutdown, Begin
<1>7. \/ KickNext(k) \/ PassOver(k) \/ KickAnswered(k)
  BY <1>0, <1>5, <1>6 DEF Works, HandlerStep, WritePrivileges, RefuseWrite,
     ResetPassword, AskList, ListAnswered, MatchEntry, MatchedAll,
     NoticeAnswered
<1> QED BY <1>2, <1>3, <1>4, <1>7

(* What a request takes away it owes a kick for.                           *)
Owed(k) ==
  \A a \in Accounts :
    /\ cred'[a] = cred[a] \/ MustKick(k, a)'
    /\ a \in banned' => a \in banned \/ MustKick(k, a)'
    /\ Stored(a)' = Stored(a) \/ MustKick(k, a)'

LEMMA AdminOwes ==
  ASSUME Typed, NEW k \in Admins, Works(k), Handling(k)
  PROVE  Owed(k)
<1>0. /\ job \in [Admins -> Jobs]
      /\ apc \in [Admins -> {"idle", "write", "reset", "ruled", "listing",
                             "match", "kick", "wait", "noticed"}]
      /\ row \in [Accounts -> Rows] /\ role \in [Accounts -> BOOLEAN]
      /\ cred \in [Accounts -> Nat \ {0}]
  BY DEF Typed, SessionTypeOK, PresenceTypeOK
<1>1. ASSUME NEW what \in Requests \cap {"row", "role"},
             NEW target \in SUBSET Accounts, LockPrivileges(k, what, target)
      PROVE  Owed(k)
  BY <1>1 DEF LockPrivileges, Owed, Stored, dbVars
<1>2. ASSUME NEW a \in Accounts, LockReset(k, a)
      PROVE  Owed(k)
  BY <1>2 DEF LockReset, Owed, Stored, dbVars
<1>3. ASSUME NEW a \in Accounts, NEW ban \in BOOLEAN, Disconnect(k, a, ban)
      PROVE  Owed(k)
  <2>1. /\ job'[k].op = "force" /\ job'[k].kicks = {a} /\ apc'[k] = "kick"
    BY <1>3, <1>0 DEF Disconnect, Step, NoJob
  <2>2. /\ banned' \subseteq banned \cup {a}
        /\ row' = row /\ role' = role /\ cred' = cred
    BY <1>3 DEF Disconnect
  <2> QED BY <2>1, <2>2 DEF Owed, MustKick, Stored
<1>4. ASSUME NEW rules \in SUBSET Addresses, ChangeRules(k, rules)
      PROVE  Owed(k)
  BY <1>4 DEF ChangeRules, Owed, Stored, dbVars
<1>5. CASE AdminShutdown(k)
  BY <1>5 DEF AdminShutdown, Owed, Stored, dbVars
<1>6. CASE SignalShutdown(k)
  BY <1>6 DEF SignalShutdown, Owed, Stored, dbVars
<1>7. CASE WritePrivileges(k)
  <2>1. /\ job[k].op \in {"row", "role"}
        /\ \A a \in Accounts : job[k].old[a] = Stored(a)
    BY <1>7 DEF Handling, WritePrivileges
  <2>2. /\ job'[k].op = job[k].op /\ job'[k].old = job[k].old
        /\ job'[k].kicks = job[k].target /\ apc'[k] = "kick"
    BY <1>7, <1>0 DEF WritePrivileges, Step, Jobs
  <2>3. ASSUME NEW a \in Accounts
        PROVE  Stored(a)' = Stored(a) \/ a \in job[k].target
    BY <1>7, <1>0 DEF WritePrivileges, WriteRow, WriteRole, Stored
  <2>4. cred' = cred /\ banned' = banned
    BY <1>7 DEF WritePrivileges
  <2> QED BY <2>1, <2>2, <2>3, <2>4 DEF Owed, MustKick
<1>8. CASE RefuseWrite(k)
  BY <1>8 DEF RefuseWrite, Owed, Stored, dbVars
<1>9. CASE ResetPassword(k)
  <2>1. /\ job'[k].op = "force" /\ job'[k].kicks = job[k].target
        /\ apc'[k] = "kick"
    BY <1>9, <1>0 DEF ResetPassword, Step, Jobs, Handling
  <2>2. /\ \A a \in Accounts : cred'[a] = cred[a] \/ a \in job[k].target
        /\ row' = row /\ role' = role /\ banned' = banned
    BY <1>9 DEF ResetPassword
  <2> QED BY <2>1, <2>2 DEF Owed, MustKick, Stored
<1>10. CASE AskList(k)
  BY <1>10 DEF AskList, Owed, Stored, dbVars
<1>11. CASE ListAnswered(k)
  BY <1>11 DEF ListAnswered, Owed, Stored, dbVars
<1>12. CASE MatchEntry(k)
  BY <1>12 DEF MatchEntry, Owed, Stored, dbVars
<1>13. CASE MatchedAll(k)
  BY <1>13 DEF MatchedAll, Owed, Stored, dbVars
<1>14. CASE KickNext(k)
  BY <1>14 DEF KickNext, Owed, Stored, dbVars
<1>15. CASE PassOver(k)
  BY <1>15 DEF PassOver, Owed, Stored, dbVars
<1>16. CASE KickAnswered(k)
  BY <1>16 DEF KickAnswered, Owed, Stored, dbVars
<1>17. CASE KickedAll(k)
  BY <1>17 DEF KickedAll, Owed, Stored, dbVars
<1>18. CASE NoticeAnswered(k)
  BY <1>18 DEF NoticeAnswered, Owed, Stored, dbVars
<1>19. ASSUME Request(k)
       PROVE  Owed(k)
  BY <1>19, <1>1, <1>2, <1>3, <1>4, <1>5, <1>6 DEF Request
<1> QED BY <1>7, <1>8, <1>9, <1>10, <1>11, <1>12, <1>13, <1>14, <1>15, <1>16,
           <1>17, <1>18, <1>19 DEF Works, HandlerStep

(* A disconnect that is on its way stays so while handlers work.           *)
LEMMA AdminHeld ==
  ASSUME Typed, NEW k \in Admins, Works(k)
  PROVE  \A m : Held(m) => Held(m)'
<1>1. Mails(k) /\ inbox \in Seq(Commands)
  BY AdminMails DEF Typed, SessionTypeOK, PresenceTypeOK
<1>2. CASE inbox' = inbox
  BY <1>2 DEF Held
<1>3. ASSUME NEW op \in {"list", "notice", "kick", "all"},
             NEW u \in Accounts \cup {NoUser}, Send(op, k, u)
      PROVE  \A m : Held(m) => Held(m)'
  <2>1. Command(op, k, u) \in Commands
    BY DEF Command, Commands
  <2> QED BY <1>1, <1>3, <2>1, HeldAppended
<1> QED BY <1>1, <1>2, <1>3 DEF Mails

LEMMA AdminKickDue ==
  ASSUME Typed, \A j \in Admins : Handling(j), NEW k \in Admins, Works(k),
         NEW d \in Conns, who[d] \in Accounts, KickDue(d)
  PROVE  KickDue(d)'
<1>0. AdminFrame(k) /\ \A m : Held(m) => Held(m)'
  BY AdminFrames, AdminHeld
<1>1. KickDue(d)' <=>
       \/ d \in kill' \/ (\E m : Held(m)' /\ Reaches(m, d)')
       \/ (\E j \in Admins : MustKick(j, who[d])')
       \/ \E c \in Conns \ {d} : pc'[c] = "changed" /\ who'[c] = who'[d]
  BY DEF KickDue, Held
<1>2. who' = who /\ kill' = kill /\ pc' = pc
  BY <1>0 DEF AdminFrame
<1>3. CASE \E m : Held(m) /\ Reaches(m, d)
  BY <1>0, <1>1, <1>2, <1>3, SameReach
<1>4. ASSUME NEW j \in Admins, MustKick(j, who[d])
      PROVE  KickDue(d)'
  <2>1. PICK a \in Accounts : a = who[d]
    OBVIOUS
  <2>2. MustKick(j, a)
    BY <1>4, <2>1
  <2>3. CASE j = k
    <3>1. MustKick(k, a)' \/ Held(Command("kick", k, a))'
      BY <2>2, <2>3, KicksStay
    <3>2. MustKick(k, a)' => MustKick(k, who[d])'
      BY <1>2, <2>1 DEF MustKick
    <3>3. Reaches(Command("kick", k, a), d)
      BY <2>1 DEF Reaches, Command
    <3> QED BY <1>1, <1>2, <3>1, <3>2, <3>3, SameReach
  <2>4. CASE j # k
    <3>1. apc'[j] = apc[j] /\ job'[j] = job[j]
      BY <1>0, <2>4 DEF AdminFrame
    <3>2. CASE WritePrivileges(k)
      <4>1. lock = k
        BY <3>2 DEF Handling, WritePrivileges
      <4>2. job[j].op \notin {"row", "role"}
        BY <2>2, <2>4, <4>1 DEF Handling, MustKick
      <4>3. MustKick(j, who[d])'
        BY <1>2, <2>1, <2>2, <3>1, <4>2 DEF MustKick
      <4> QED BY <1>1, <4>3
    <3>3. CASE row' = row /\ role' = role
      <4>1. MustKick(j, who[d])'
        BY <1>2, <1>4, <3>1, <3>3 DEF MustKick, Stored
      <4> QED BY <1>1, <4>1
    <3> QED BY <1>0, <3>2, <3>3 DEF AdminFrame
  <2> QED BY <2>3, <2>4
<1>5. CASE d \in kill \/ \E c \in Conns \ {d} :
             pc[c] = "changed" /\ who[c] = who[d]
  BY <1>1, <1>2, <1>5
<1> QED BY <1>3, <1>4, <1>5, MailTold

LEMMA AdminEvictionDue ==
  ASSUME Typed, MailOK, \A j \in Admins : Handling(j), NEW k \in Admins,
         Works(k), NEW d \in Conns, who[d] \in Accounts, EvictionDue(d)
  PROVE  \/ EvictionDue(d)' \/ who[d] = Operator \/ AddressOf[d] \notin denied
<1>0. /\ AdminFrame(k) /\ \A m : Held(m) => Held(m)'
      /\ job \in [Admins -> Jobs] /\ who' = who
      /\ apc \in [Admins -> {"idle", "write", "reset", "ruled", "listing",
                             "match", "kick", "wait", "noticed"}]
  BY AdminFrames, AdminHeld
     DEF AdminFrame, Typed, SessionTypeOK, PresenceTypeOK
<1>1. \A x : Answered(x)' <=> \A m : Held(m)' => m.by # x
  BY DEF Answered, Held
<1>2. CASE KickDue(d)
  BY <1>2, AdminKickDue DEF EvictionDue
<1>3. ASSUME NEW j \in Admins \ {k},
             \/ apc[j] = "ruled"
             \/ apc[j] = "listing" /\ (~Answered(j) \/ d \in listing[j])
             \/ apc[j] = "match"
                /\ (d \in job[j].list \/ who[d] \in job[j].kicks)
      PROVE  EvictionDue(d)'
  <2>1. apc'[j] = apc[j] /\ job'[j] = job[j] /\ listing' = listing
    BY <1>0 DEF AdminFrame
  <2>2. ~Answered(j) => ~Answered(j)'
    BY <1>0, <1>1, MailTold
  <2> QED BY <1>0, <1>3, <2>1, <2>2 DEF EvictionDue
<1>4. CASE apc[k] = "ruled"
  <2>1. AskList(k)
    BY <1>4 DEF Works, Request, LockPrivileges, LockReset, Disconnect,
       ChangeRules, AdminShutdown, SignalShutdown, Begin, HandlerStep,
       WritePrivileges, RefuseWrite, ResetPassword, ListAnswered, MatchEntry,
       MatchedAll, KickNext, PassOver, KickAnswered, KickedAll, NoticeAnswered
  <2>2. Command("list", k, NoUser) \in Commands /\ inbox \in Seq(Commands)
    BY DEF Command, Commands, Typed, SessionTypeOK, PresenceTypeOK
  <2>3. Held(Command("list", k, NoUser))' /\ apc'[k] = "listing"
    BY <1>0, <2>1, <2>2, HeldAppended DEF AskList, Step
  <2>4. ~Answered(k)'
    BY <1>1, <2>3 DEF Command
  <2> QED BY <2>3, <2>4 DEF EvictionDue
<1>5. CASE apc[k] = "listing" /\ (~Answered(k) \/ d \in listing[k])
  <2>1. ListAnswered(k)
    BY <1>5 DEF Works, Request, LockPrivileges, LockReset, Disconnect,
       ChangeRules, AdminShutdown, SignalShutdown, Begin, HandlerStep,
       WritePrivileges, RefuseWrite, ResetPassword, AskList, MatchEntry,
       MatchedAll, KickNext, PassOver, KickAnswered, KickedAll, NoticeAnswered
  <2>2. d \in job'[k].list /\ apc'[k] = "match"
    BY <1>0, <1>5, <2>1 DEF ListAnswered, Step, Jobs
  <2> QED BY <2>2 DEF EvictionDue
<1>6. CASE apc[k] = "match" /\ (d \in job[k].list \/ who[d] \in job[k].kicks)
  <2>1. MatchEntry(k) \/ MatchedAll(k)
    BY <1>6 DEF Works, Request, LockPrivileges, LockReset, Disconnect,
       ChangeRules, AdminShutdown, SignalShutdown, Begin, HandlerStep,
       WritePrivileges, RefuseWrite, ResetPassword, AskList, ListAnswered,
       KickNext, PassOver, KickAnswered, KickedAll, NoticeAnswered
  <2>2. CASE MatchEntry(k)
    <3>1. PICK c \in job[k].list :
            job' = [job EXCEPT
              ![k].list = @ \ {c},
              ![k].kicks = IF who[c] # Operator /\ AddressOf[c] \in denied
                             THEN @ \cup {who[c]} ELSE @]
      BY <2>2 DEF MatchEntry
    <3>2. /\ job'[k].list = job[k].list \ {c} /\ apc'[k] = "match"
          /\ job[k].kicks \subseteq job'[k].kicks
          /\ who[c] # Operator /\ AddressOf[c] \in denied =>
               who[c] \in job'[k].kicks
      BY <1>0, <1>6, <2>2, <3>1 DEF Jobs, MatchEntry
    <3>3. CASE d \in job'[k].list \/ who[d] \in job'[k].kicks
      BY <1>0, <3>2, <3>3 DEF EvictionDue
    <3> QED BY <1>6, <3>2, <3>3
  <2>3. CASE MatchedAll(k)
    <3>1. /\ apc'[k] = "kick" /\ job' = job /\ who[d] \in job[k].kicks
          /\ job[k].op = "force"
      BY <1>0, <1>6, <2>3 DEF MatchedAll, Step, Handling
    <3>2. MustKick(k, who[d])'
      BY <1>0, <3>1 DEF MustKick
    <3> QED BY <3>2 DEF EvictionDue, KickDue
  <2> QED BY <2>1, <2>2, <2>3
<1> QED BY <1>2, <1>3, <1>4, <1>5, <1>6 DEF EvictionDue
LEMMA AdminMail ==
  ASSUME Typed, MailOK, NEW k \in Admins, Works(k)
  PROVE  /\ MailOK'
         /\ \A m : Held(m)' => Held(m) \/ m.by = k
<1>0. /\ AdminFrame(k) /\ Mails(k) /\ Conns \cap Admins = {}
      /\ inbox \in Seq(Commands)
  BY AdminFrames, AdminMails, PresenceConstants
     DEF Typed, SessionTypeOK, PresenceTypeOK
<1>1. ASSUME NEW m, Held(m), m.by # k
      PROVE  Expected(m)'
  <2>1. Expected(m)
    BY <1>1, MailKnown
  <2>2. pc' = pc /\ who' = who /\ (m.by \in Admins => apc'[m.by] = apc[m.by])
    BY <1>0, <1>1 DEF AdminFrame
  <2> QED BY <2>1, <2>2 DEF Expected
<1>2. ASSUME NEW m, Held(m), m.by = k
      PROVE  /\ apc[k] \in Asking
             /\ \/ m.op = "list" /\ apc[k] = "listing"
                \/ m.op = "notice" /\ apc[k] = "noticed"
                \/ m.op \in {"kick", "all"} /\ apc[k] = "wait"
             /\ ~Answered(k)
  <2>1. Expected(m)
    BY <1>2, MailKnown
  <2>2. ~Answered(k)
    BY <1>2, MailTold
  <2> QED BY <1>0, <1>2, <2>1, <2>2 DEF Expected, Asking
<1>3. CASE inbox' = inbox /\ (apc[k] \in Asking => Answered(k)
           \/ apc'[k] = apc[k])
  <2>1. ASSUME NEW m, Held(m), m.by = k
        PROVE  Expected(m)'
    <3>1. apc'[k] = apc[k]
      BY <1>2, <1>3, <2>1
    <3> QED BY <1>2, <2>1, <3>1 DEF Expected
  <2> QED BY <1>1, <1>3, <2>1, Unposted DEF Held
<1>4. ASSUME NEW op \in {"list", "notice", "kick", "all"},
             NEW u \in Accounts \cup {NoUser}, Send(op, k, u),
             apc[k] \notin Asking \/ Answered(k),
             op = "list" => apc'[k] = "listing",
             op = "notice" => apc'[k] = "noticed",
             op \in {"kick", "all"} => apc'[k] = "wait"
      PROVE  MailOK' /\ \A m : Held(m)' => Held(m) \/ m.by = k
  <2>1. Command(op, k, u) \in Commands
    BY DEF Command, Commands
  <2>2. Expected(Command(op, k, u))'
    BY <1>4 DEF Expected, Command
  <2>3. \A m : Held(m) => Expected(m)'
    <3>1. \A m : Held(m) => m.by # k
      BY <1>2, <1>4
    <3> QED BY <1>1, <3>1
  <2>4. MailOK'
    BY <1>0, <1>4, <2>1, <2>2, <2>3, Posted
  <2>5. \A m : Held(m)' => Held(m) \/ m = Command(op, k, u)
    BY <1>0, <1>4, <2>1, HeldAppended
  <2> QED BY <2>4, <2>5 DEF Command
<1> QED BY <1>0, <1>3, <1>4 DEF Mails

LEMMA OthersHandling ==
  ASSUME Typed, NEW k \in Admins, Works(k), \A i \in Admins : Handling(i),
         NEW j \in Admins \ {k}
  PROVE  Handling(j)'
<1>0. AdminFrame(k) /\ Handling(j) /\ Handling(k)
  BY AdminFrames
<1>1. apc'[j] = apc[j] /\ job'[j] = job[j]
  BY <1>0 DEF AdminFrame
<1>2. lock = j => lock' = j
  BY <1>0, FreeIsNoAdmin DEF AdminFrame
<1>3. apc[j] = "write" => row' = row /\ role' = role
  <2>1. WritePrivileges(k) => lock = k
    BY <1>0 DEF Handling, WritePrivileges
  <2>2. apc[j] = "write" => lock = j
    BY <1>0 DEF Handling
  <2> QED BY <1>0, <2>1, <2>2 DEF AdminFrame
<1>4. apc[j] = "write" => \A a \in Accounts : Stored(a)' = Stored(a)
  BY <1>3 DEF Stored
<1> QED BY <1>0, <1>1, <1>2, <1>4 DEF Handling

LEMMA AdminListed ==
  ASSUME Typed, MailOK, NEW k \in Admins, Works(k), NEW d \in Conns, Listed(d)
  PROVE  Listed(d)'
<1>0. /\ UNCHANGED <<pc, reaper, roster>> /\ Conns \cap Admins = {}
      /\ \A m : Held(m) => Held(m)'
      /\ \A m : Held(m)' => Held(m) \/ m.by = k
  BY AdminFrames, AdminHeld, AdminMail, PresenceConstants DEF AdminFrame
<1>1. /\ pc[d] \in Online => d \in roster
      /\ pc[d] = "joining" => d \in roster \/ ~Answered(d)
      /\ d \in roster => pc[d] \in {"joining"} \cup Online \/ LeaveDue(d)
      /\ JoinDue(d) => pc[d] = "joining" \/ LeaveDue(d)
  BY ListedTold
<1>2. /\ Answered(d)' <=> \A m : Held(m)' => m.by # d
      /\ LeaveDue(d)' <=>
           d \in reaper' \/ \E m : Held(m)' /\ m.by = d /\ m.op = "leave"
      /\ JoinDue(d)' <=> \E m : Held(m)' /\ m.op = "join" /\ m.by = d
  BY DEF Answered, LeaveDue, JoinDue, Held
<1>3. (LeaveDue(d) => LeaveDue(d)') /\ (~Answered(d) => ~Answered(d)')
      /\ (JoinDue(d)' => JoinDue(d))
  BY <1>0, <1>2, MailTold DEF JoinDue
<1>4. Listed(d)' <=>
      /\ pc'[d] \in Online => d \in roster'
      /\ pc'[d] = "joining" => d \in roster' \/ ~Answered(d)'
      /\ d \in roster' => pc'[d] \in {"joining"} \cup Online \/ LeaveDue(d)'
      /\ JoinDue(d)' => pc'[d] = "joining" \/ LeaveDue(d)'
  BY DEF Listed, JoinDue, Held
<1> QED BY <1>0, <1>1, <1>3, <1>4

(* A kick owed to an account is one due to each of its sessions.           *)
LEMMA OwedIsDue ==
  ASSUME NEW k \in Admins, NEW d \in Conns, NEW a, who'[d] = a, MustKick(k, a)'
  PROVE  KickDue(d)'
<1>1. MustKick(k, who[d])'
  BY DEF MustKick
<1> QED BY <1>1 DEF KickDue

LEMMA AdminFresh ==
  ASSUME Typed, MailOK, \A j \in Admins : Handling(j), NEW k \in Admins,
         Works(k), NEW d \in Conns, FreshOf(d)
  PROVE  FreshOf(d)'
<1>0. AdminFrame(k) /\ Owed(k)
  BY AdminFrames, AdminOwes
<1>1. pc' = pc /\ sess' = sess /\ who' = who
  BY <1>0 DEF AdminFrame
<1>2. CASE pc[d] \notin {"re_cred", "re_ban"} \cup Serving
  BY <1>1, <1>2 DEF FreshOf, Past
<1>3. CASE pc[d] \in {"re_cred", "re_ban"} \cup Serving
  <2>1. PICK a \in Accounts : a = who[d]
    BY <1>3 DEF Typed, Known, Serving
  <2>2. KickDue(d) => KickDue(d)'
    BY <2>1, AdminKickDue
  <2>3. /\ cred'[a] = cred[a] \/ KickDue(d)'
        /\ a \in banned' => a \in banned \/ KickDue(d)'
    BY <1>0, <1>1, <2>1, OwedIsDue DEF Owed
  <2>4. /\ Past(d, {}) => \/ AddressOf[d] \notin denied \/ who[d] = Operator
                          \/ EvictionDue(d)
    BY DEF FreshOf
  <2>5. Past(d, {}) => \/ AddressOf[d] \notin denied' \/ who[d] = Operator
                       \/ EvictionDue(d)'
    <3>1. CASE denied' = denied
      BY <2>1, <2>4, <3>1, AdminEvictionDue
    <3>2. CASE apc'[k] = "ruled"
      BY <3>2 DEF EvictionDue
    <3> QED BY <1>0, <3>1, <3>2 DEF AdminFrame
  <2> QED BY <1>1, <2>1, <2>2, <2>3, <2>5 DEF FreshOf, Past
<1> QED BY <1>2, <1>3

LEMMA AdminEmpowered ==
  ASSUME Typed, OneKind, \A j \in Admins : Handling(j), NEW k \in Admins,
         Works(k), NEW d \in Conns, Empowered(d)
  PROVE  Empowered(d)'
<1>0. AdminFrame(k) /\ Owed(k)
  BY AdminFrames, AdminOwes
<1>1. pc' = pc /\ sess' = sess /\ who' = who
  BY <1>0 DEF AdminFrame
<1>2. CASE pc[d] \notin {"re_row", "re_role", "re_cred", "re_ban"}
                        \cup Serving
  BY <1>1, <1>2 DEF Empowered, Past
<1>3. CASE pc[d] \in {"re_row", "re_role", "re_cred", "re_ban"} \cup Serving
  <2>1. PICK a \in Accounts : a = who[d]
    BY <1>3 DEF Typed, Known, Serving
  <2>2. KickDue(d) => KickDue(d)'
    BY <2>1, AdminKickDue
  <2>3. Stored(a)' = Stored(a) \/ KickDue(d)'
    BY <1>0, <1>1, <2>1, OwedIsDue DEF Owed
  <2>4. CASE KickDue(d)'
    BY <2>4 DEF Empowered
  <2>5. CASE ~KickDue(d)'
    <3>1. Stored(a)' = Stored(a) /\ ~KickDue(d)
      BY <2>2, <2>3, <2>5
    <3>2. /\ pc[d] = "re_row" =>
               Effective(sess[d].row, role[a]) = Stored(a)
               /\ ("row" \notin Requests => sess[d].row = row[a])
          /\ Past(d, {"re_role", "re_cred", "re_ban"}) =>
               sess[d].priv = Stored(a)
      BY <2>1, <3>1 DEF Empowered
    <3>3. CASE row' = row /\ role' = role
      BY <1>1, <2>1, <3>1, <3>2, <3>3 DEF Empowered, Past
    <3>4. CASE WritePrivileges(k)
      <4>1. job[k].op \in Requests \cap {"row", "role"}
        BY <3>4 DEF Handling, WritePrivileges
      <4>2. CASE job[k].op = "row"
        <5>1. role' = role /\ "row" \in Requests
          BY <3>4, <4>1, <4>2 DEF WritePrivileges, WriteRow, WriteRole
        <5> QED BY <1>1, <2>1, <3>1, <3>2, <5>1 DEF Empowered, Past
      <4>3. CASE job[k].op = "role"
        <5>1. row' = row /\ "row" \notin Requests
          BY <3>4, <4>1, <4>3 DEF WritePrivileges, WriteRow, WriteRole, OneKind
        <5>2. pc[d] = "re_row" => Effective(sess[d].row, role'[a]) = Stored(a)'
          BY <3>2, <5>1 DEF Stored
        <5> QED BY <1>1, <2>1, <3>1, <3>2, <5>1, <5>2 DEF Empowered, Past
      <4> QED BY <4>1, <4>2, <4>3
    <3> QED BY <1>0, <3>3, <3>4 DEF AdminFrame
  <2> QED BY <2>4, <2>5
<1> QED BY <1>2, <1>3

LEMMA AdminSessions ==
  ASSUME SessionInv, NEW k \in Admins, Works(k)
  PROVE  SessionInv'
<1>0. /\ Typed /\ Mentioned /\ MailOK /\ Registry /\ Capped
      /\ \A c \in Conns : Listed(c) /\ Proven(c) /\ FreshOf(c)
      /\ \A j \in Admins : Handling(j)
      /\ AdminFrame(k)
  BY AdminFrames DEF SessionInv
<1>1. Typed' /\ MailOK'
  BY <1>0, TypedAdmin, AdminMail DEF Works
<1>2. Registry' /\ Capped'
  BY <1>0 DEF AdminFrame, Registry, Capped
<1>3. \A c \in Conns : Listed(c)' /\ FreshOf(c)'
  BY <1>0, AdminListed, AdminFresh
<1>4. \A j \in Admins : Handling(j)'
  BY <1>0, AdminHandling, OthersHandling
<1>5. ASSUME NEW c \in Conns
      PROVE  Proven(c)'
  <2>1. UNCHANGED <<pc, sess, who>> /\ Proven(c)
    BY <1>0 DEF AdminFrame
  <2>2. pc[c] \notin {"new", "auth", "ended"} =>
          cred[who[c]] <= cred'[who[c]] /\ sess[c].cred \in Nat
          /\ cred[who[c]] \in Nat /\ cred'[who[c]] \in Nat
    <3>1. \A a \in Accounts : cred[a] <= cred'[a]
      <4>1. cred' = cred \/ \A a \in Accounts :
                              cred'[a] = cred[a] \/ cred'[a] = cred[a] + 1
        BY DEF Works, Request, HandlerStep, LockPrivileges, LockReset,
           Disconnect, ChangeRules, AdminShutdown, SignalShutdown,
           WritePrivileges, RefuseWrite, ResetPassword, AskList,
           ListAnswered, MatchEntry, MatchedAll, KickNext, PassOver,
           KickAnswered, KickedAll, NoticeAnswered, dbVars
      <4>2. \A a \in Accounts : cred[a] \in Nat
        BY <1>0 DEF Typed, SessionTypeOK
      <4> QED BY <4>1, <4>2
    <3> QED BY <1>0, <1>1, <3>1 DEF Typed, Known, SessionTypeOK, Sessioned
  <2> QED BY <2>1, <2>2 DEF Proven
<1>6. \A c, d \in Conns : SignsOut(c, d)'
  <2>1. UNCHANGED <<pc, sess, who, kill>> /\ \A m : Held(m) => Held(m)'
    BY <1>0, AdminHeld DEF AdminFrame
  <2>2. \A c : OthersDue(c) => OthersDue(c)'
    BY <2>1 DEF OthersDue
  <2>3. \A c, d : SignsOut(c, d)' <=>
    (/\ sess'[c].renewed /\ Past(d, {"re_cred", "re_ban"})'
     /\ who'[d] = who'[c] /\ sess'[d].cred < sess'[c].cred
     => d \in kill' \/ pc'[c] = "changed" \/ OthersDue(c)')
    BY DEF SignsOut, OthersDue, Held
  <2> QED BY <2>1, <2>2, <2>3, SignsOutTold DEF SessionInv, Past
<1>7. Mentioned'
  <2>1. /\ UNCHANGED <<who, roster, listing>>
        /\ \A j \in Admins \ {k} : job'[j] = job[j]
    BY <1>0 DEF AdminFrame
  <2>2. job'[k].list \subseteq job[k].list \cup listing[k]
    <3>0. job \in [Admins -> Jobs]
      BY <1>0 DEF Typed, SessionTypeOK
    <3>1. CASE MatchEntry(k)
      <4>1. PICK c \in job[k].list :
            job' = [job EXCEPT
              ![k].list = @ \ {c},
              ![k].kicks = IF who[c] # Operator /\ AddressOf[c] \in denied
                             THEN @ \cup {who[c]} ELSE @]
        BY <3>1 DEF MatchEntry
      <4> QED BY <3>0, <4>1 DEF Jobs
    <3>2. CASE ListAnswered(k)
      BY <3>0, <3>2 DEF ListAnswered, Jobs
    <3>3. CASE HandlerStep(k) /\ ~MatchEntry(k) /\ ~ListAnswered(k)
      BY <3>0, <3>3 DEF HandlerStep,
         WritePrivileges, RefuseWrite, ResetPassword, AskList,
         MatchedAll, KickNext, PassOver,
         KickAnswered, KickedAll, NoticeAnswered, Finish, NoJob, Jobs
    <3>4. CASE Request(k)
      <4>1. CASE \E what \in Requests \cap {"row", "role"},
                    target \in SUBSET Accounts \ {{}} :
                      LockPrivileges(k, what, target)
        BY <3>0, <4>1 DEF LockPrivileges, NoJob
      <4>2. CASE (\E a \in Accounts : LockReset(k, a))
                 \/ (\E a \in Accounts, ban \in BOOLEAN :
                       Disconnect(k, a, ban))
                 \/ (\E rules \in SUBSET Addresses : ChangeRules(k, rules))
        BY <3>0, <4>2 DEF LockReset, Disconnect, ChangeRules, NoJob
      <4>3. CASE AdminShutdown(k) \/ SignalShutdown(k)
        BY <3>0, <4>3 DEF AdminShutdown, SignalShutdown, NoJob
      <4> QED BY <3>4, <4>1, <4>2, <4>3 DEF Request
    <3> QED BY <3>1, <3>2, <3>3, <3>4 DEF Works
  <2> QED BY <1>0, <2>1, <2>2 DEF Mentioned
<1> QED BY <1>1, <1>2, <1>3, <1>4, <1>5, <1>6, <1>7 DEF SessionInv


---------------------------------------------------------------------------
(* One step of the whole server.                                           *)

(* A step that changes nothing but, perhaps, ends bans.                    *)
LEMMA FewerBans ==
  ASSUME SessionInv, Typed',
         UNCHANGED <<row, role, cred, denied, connVars, presenceVars,
                     adminVars>>,
         banned' \subseteq banned
  PROVE  SessionInv' /\ \A c \in Conns : Empowered(c) => Empowered(c)'
<1>1. UNCHANGED <<row, role, cred, denied, sessions, pc, sess, fails, pinned,
                  reaper, who, gone, lock, apc, job, accepting, ops, inbox,
                  roster, kill, closing, listing>>
  BY DEF connVars, presenceVars, adminVars
<1>2. \A c \in Conns : KickDue(c)' <=> KickDue(c)
  <2>1. \A k, b : MustKick(k, b)' <=> MustKick(k, b)
    BY <1>1 DEF MustKick, Stored
  <2> QED BY <1>1, <2>1 DEF KickDue, Reaches
<1>3. \A c \in Conns : EvictionDue(c)' <=> EvictionDue(c)
  BY <1>1, <1>2 DEF EvictionDue, Answered
<1>4. Mentioned' /\ MailOK' /\ Registry' /\ Capped'
  BY <1>1 DEF SessionInv, Mentioned, MailOK, Expected, Registry, Capped
<1>5. \A c \in Conns : Listed(c)' /\ Proven(c)' /\ FreshOf(c)'
  <2>1. \A c \in Conns : Listed(c)' /\ Proven(c)'
    BY <1>1 DEF SessionInv, Listed, Proven, LeaveDue, Answered
  <2>2. \A c \in Conns : FreshOf(c)'
    BY <1>1, <1>2, <1>3 DEF SessionInv, FreshOf, Past
  <2> QED BY <2>1, <2>2
<1>6. \A c, d \in Conns : SignsOut(c, d)'
  BY <1>1 DEF SessionInv, SignsOut, Past
<1>7. \A k \in Admins : Handling(k)'
  BY <1>1 DEF SessionInv, Handling, Stored
<1>8. \A c \in Conns : Empowered(c) => Empowered(c)'
  BY <1>1, <1>2 DEF Empowered, Stored, Past
<1> QED BY <1>4, <1>5, <1>6, <1>7, <1>8 DEF SessionInv

LEMMA BanSessions ==
  ASSUME SessionInv, NEW a \in Accounts, BanEnds(a)
  PROVE  SessionInv' /\ \A c \in Conns : Empowered(c) => Empowered(c)'
<1>1. UNCHANGED <<row, role, cred, denied, connVars, presenceVars, adminVars>>
      /\ banned' \subseteq banned
  BY DEF BanEnds
<1>2. Typed'
  BY TypedBan DEF SessionInv
<1> QED BY <1>1, <1>2, FewerBans

LEMMA ConnSessions ==
  ASSUME SessionInv, NEW e \in Conns,
         TaskStep(e) \/ ClientStep(e) \/ LeaveLogin(e) \/ Reap(e)
  PROVE  /\ SessionInv'
         /\ (\A d \in Conns : Empowered(d)) => \A d \in Conns : Empowered(d)'
<1>1. Moves(e) /\ Typed'
  BY ConnMoves, TypedConn DEF SessionInv
<1>2. Registry' /\ MailOK' /\ Capped'
  BY <1>1, ConnRegistry, ConnMail, ConnCapped DEF SessionInv
<1>3. \A d \in Conns : Listed(d)'
  BY <1>1, ConnListed DEF SessionInv
<1>4. \A d \in Conns : Proven(d)' /\ FreshOf(d)'
  BY <1>1, ConnProven, ConnFresh DEF SessionInv
<1>5. \A c, d \in Conns : SignsOut(c, d)'
  BY <1>1, ConnSignsOut DEF SessionInv
<1>6. Mentioned' /\ \A k \in Admins : Handling(k)'
  BY <1>1, ConnRest DEF SessionInv
<1>7. ASSUME \A d \in Conns : Empowered(d)
      PROVE  \A d \in Conns : Empowered(d)'
  BY <1>1, <1>7, ConnEmpowered DEF SessionInv
<1> QED BY <1>1, <1>2, <1>3, <1>4, <1>5, <1>6, <1>7 DEF SessionInv

LEMMA PresenceSessions ==
  ASSUME SessionInv, ActorStep
  PROVE  /\ SessionInv'
         /\ (\A d \in Conns : Empowered(d)) => \A d \in Conns : Empowered(d)'
<1>1. Typed' /\ MailOK'
  BY TypedActor, ActorMail DEF SessionInv
<1>2. \A d \in Conns : Listed(d)'
  BY ActorListed DEF SessionInv
<1>3. ASSUME \A d \in Conns : Empowered(d)
      PROVE  \A d \in Conns : Empowered(d)'
  BY <1>3, ActorEmpowered
<1> QED BY <1>1, <1>2, <1>3, ActorSessions DEF SessionInv

LEMMA InitialSessions ==
  ASSUME Init
  PROVE  SessionInv /\ \A d \in Conns : Empowered(d)
<1> USE DEF Init, PresenceInit
<1>1. inbox = <<>> /\ DOMAIN inbox = {}
  OBVIOUS
<1>2. Typed
  <2>1. NoSession \in Sessioned /\ NoJob \in Jobs
    BY DEF NoSession, Sessioned, Rows, NoJob, Jobs
  <2>2. inbox \in Seq(Commands)
    OBVIOUS
  <2>3. PresenceTypeOK
    BY <2>2 DEF PresenceTypeOK
  <2>4. /\ sess \in [Conns -> Sessioned] /\ job \in [Admins -> Jobs]
        /\ row \in [Accounts -> Rows] /\ lock = Free
        /\ pinned \in [Conns -> Nat]
    BY <2>1 DEF Rows, NoChange
  <2> QED BY <2>3, <2>4 DEF Typed, Known, SessionTypeOK
<1>3. Mentioned /\ MailOK
  BY <1>1 DEF Mentioned, MailOK, NoJob
<1>4. Registry
  BY DEF Registry, Registered, Joined, Rechecking, Serving
<1>5. Capped
  <2>1. {c \in sessions : ~sess[c].priv} = {}
    OBVIOUS
  <2>2. MaxUsers \in Nat /\ Cardinality({}) = 0
    BY SessionConstants, FS_EmptySet
  <2> QED BY <2>1, <2>2 DEF Capped
<1>6. \A c \in Conns : Listed(c) /\ Proven(c) /\ FreshOf(c) /\ Empowered(c)
  BY <1>1 DEF Listed, Online, Joined, Rechecking, Serving, Proven, NoSession,
     FreshOf, Past, Empowered
<1>7. \A c, d \in Conns : SignsOut(c, d)
  BY DEF SignsOut, NoSession
<1>8. \A k \in Admins : Handling(k)
  BY DEF Handling
<1> QED BY <1>2, <1>3, <1>4, <1>5, <1>6, <1>7, <1>8 DEF SessionInv

LEMMA NextSessions ==
  ASSUME SessionInv, [Next]_vars
  PROVE  /\ SessionInv'
         /\ OneKind /\ (\A d \in Conns : Empowered(d)) =>
              \A d \in Conns : Empowered(d)'
<1>1. CASE ActorStep
  BY <1>1, PresenceSessions
<1>2. CASE \E c \in Conns :
             TaskStep(c) \/ ClientStep(c) \/ LeaveLogin(c) \/ Reap(c)
  BY <1>2, ConnSessions
<1>3. CASE \E k \in Admins : Request(k) \/ HandlerStep(k)
  <2>1. PICK k \in Admins : Works(k)
    BY <1>3 DEF Works
  <2>2. SessionInv'
    BY <2>1, AdminSessions
  <2>3. ASSUME OneKind, \A d \in Conns : Empowered(d)
        PROVE  \A d \in Conns : Empowered(d)'
    BY <2>1, <2>3, AdminEmpowered DEF SessionInv
  <2> QED BY <2>2, <2>3
<1>4. CASE \E a \in Accounts : BanEnds(a)
  BY <1>4, BanSessions
<1>5. CASE UNCHANGED vars
  <2>1. UNCHANGED <<row, role, cred, denied, connVars, presenceVars,
                    adminVars>> /\ banned' = banned
    BY <1>5 DEF vars, dbVars
  <2>2. Typed'
    <3>1. UNCHANGED <<row, role, cred, denied, sessions, pc, sess, fails,
                      pinned, reaper, who, gone, lock, apc, job, accepting,
                      ops, inbox, roster, kill, closing, listing, banned>>
      BY <2>1 DEF connVars, presenceVars, adminVars
    <3> QED BY <3>1 DEF SessionInv, Typed, Known, SessionTypeOK,
               PresenceTypeOK
  <2> QED BY <2>1, <2>2, FewerBans
<1> QED BY <1>1, <1>2, <1>3, <1>4, <1>5 DEF Next

---------------------------------------------------------------------------
(* Theorems.                                                               *)

(* Registry, roster, mailbox and handlers agree in every reachable state.  *)
THEOREM SessionsInvariant == Spec => []SessionInv
<1>1. Init => SessionInv
  BY InitialSessions
<1>2. SessionInv /\ [Next]_vars => SessionInv'
  BY NextSessions
<1> QED BY <1>1, <1>2, PTL DEF Spec

(* The registry, the roster and the connections agree, and max_users holds *)
(* however logins interleave: AuthManager::admit and SessionGuard.         *)
THEOREM SessionsAgree == Spec => []SessionsExact
<1>1. SessionInv => SessionsExact
  BY DEF SessionInv, Typed, Registry, Listed, Online, Capped, SessionsExact
<1> QED BY <1>1, SessionsInvariant, PTL

(* When change_password has answered its client, every session of the      *)
(* account that proved an older password has its kill signal               *)
(* (disconnect_others, awaited before PasswordChangeResult).               *)
THEOREM ChangeEndsOthers == Spec => []ChangeSignsOutOthers
<1>1. SessionInv => ChangeSignsOutOthers
  <2> SUFFICES ASSUME SessionInv, NEW c \in Conns, NEW d \in Conns,
                      pc[c] = "dispatch", sess[c].renewed, pc[d] \in Serving,
                      who[d] = who[c], sess[d].cred < sess[c].cred
               PROVE  d \in kill
    BY DEF ChangeSignsOutOthers
  <2>1. d \in kill \/ OthersDue(c)
    BY SignsOutTold DEF SessionInv, Past
  <2>2. ~OthersDue(c)
    <3> SUFFICES ASSUME NEW m, Held(m), m.by = c, m.op = "others"
                 PROVE  FALSE
      BY DEF OthersDue
    <3>1. Expected(m)
      BY MailKnown DEF SessionInv
    <3> QED BY <3>1, PresenceConstants DEF Expected
  <2> QED BY <2>1, <2>2
<1> QED BY <1>1, SessionsInvariant, PTL

(* What stale_login_reason re-reads stays true, or a disconnect is on its  *)
(* way: the password, bans and the IP rules, whatever is requested.        *)
THEOREM FootingHolds == Spec => [](CredentialFresh /\ BanFresh /\ AddressFresh)
<1>1. SessionInv => CredentialFresh /\ BanFresh /\ AddressFresh
  BY DEF SessionInv, FreshOf, CredentialFresh, BanFresh, AddressFresh
<1> QED BY <1>1, SessionsInvariant, PTL

(* The same with the privileges of the session, where administrators edit  *)
(* only account rows or only roles.  With both, account_state's two        *)
(* statements can read halves of different states of the account.          *)
THEOREM SignInsAreFresh ==
  ASSUME OneKind
  PROVE  Spec => []SignInsFresh
<1> DEFINE Inv == SessionInv /\ \A d \in Conns : Empowered(d)
<1>1. Init => Inv
  BY InitialSessions
<1>2. Inv /\ [Next]_vars => Inv'
  <2> SUFFICES ASSUME Inv, [Next]_vars
               PROVE  SessionInv' /\ \A d \in Conns : Empowered(d)'
    OBVIOUS
  <2> QED BY NextSessions
<1>3. Inv => SignInsFresh
  BY DEF SessionInv, FreshOf, Empowered, SignInsFresh, CredentialFresh,
     BanFresh, AddressFresh, PrivilegesFresh
<1> QED BY <1>1, <1>2, <1>3, PTL DEF Spec
=============================================================================
