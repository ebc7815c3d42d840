----------------------------- MODULE MCServices -----------------------------
(***************************************************************************)
(* The services of the server that keep their own state, at a small scale: *)
(* the accounts, the file tree, news, the audit log, the login limiter and *)
(* the buckets that pace requests and transfers.  They do not touch each   *)
(* other's state: a behaviour is about one of them, as `subject` says.     *)
(***************************************************************************)
EXTENDS AccountPolicy, FileTree, News, History, LoginLimiter, Pacing

VARIABLE subject

(***************************************************************************)
(* The accounts: four servers, and what two people ask of each.            *)
(***************************************************************************)
PolicyPrivileges == AdminCore \cup {"USER_KICK", "USER_BAN"}
Input(c, plus, minus) == [class |-> c, granted |-> plus, revoked |-> minus]

\* The accounts of the class f gives them, without overrides or roles.
Plain(f, people, ops, inputs) ==
  [own |-> people, exists |-> DOMAIN f, roles |-> {},
   class |-> [a \in Accounts |-> IF a \in DOMAIN f THEN f[a] ELSE Guest],
   granted |-> [a \in Accounts |-> {}], revoked |-> [a \in Accounts |-> {}],
   holds |-> [a \in Accounts |-> {}], grants |-> [r \in Roles |-> {}],
   ops |-> ops, inputs |-> inputs]

\* Two administrators and an account below them.
AdminServer ==
  [Plain([root |-> Admin, mod |-> Admin, user |-> 1],
         [p1 |-> "root", p2 |-> "mod"],
         {"update", "assign", "unassign", "role_update", "role_delete"},
         {Input(1, {}, {}), Input(Admin, {}, {}),
          Input(Admin, {}, {"USER_ADMIN"})})
   EXCEPT !.roles = {"r1"}, !.grants["r1"] = AdminCore]

\* Two delegates of the class PowerUser who manage accounts, one of whom also
\* bans; an account below them that holds a role; one that holds none and has
\* a privilege revoked; and a name that is free.
DelegateServer ==
  [Plain([root |-> Admin, help |-> 2, mod |-> 2, kicker |-> 1, user |-> 1],
         [p1 |-> "help", p2 |-> "mod"],
         {"create", "update", "reset", "role_create", "role_update",
          "role_delete", "assign", "unassign"},
         {Input(1, {"USER_ADMIN"}, {}), Input(2, {}, {}),
          Input(0, {"USER_KICK"}, {}), Input(1, {"USER_BAN"}, {"USER_KICK"})})
   EXCEPT !.granted["help"] = {"USER_ADMIN"},
          !.granted["mod"] = {"USER_ADMIN", "USER_BAN"},
          !.revoked["user"] = {"USER_ADMIN"},
          !.roles = {"r1"}, !.grants["r1"] = {"USER_KICK"},
          !.holds["kicker"] = {"r1"}]

\* An Admin and a PowerUser who may ban, and the account they ban.
BanServer ==
  [Plain([root |-> Admin, mod |-> 2, help |-> 2, user |-> 1],
         [p1 |-> "root", p2 |-> "mod"],
         {"ban", "unban", "update"}, {Input(1, {"USER_KICK", "USER_BAN"}, {})})
   EXCEPT !.granted["mod"] = {"USER_KICK", "USER_BAN"},
          !.granted["help"] = {"USER_KICK", "USER_BAN"}]
ModeratorServer == [BanServer EXCEPT !.own["p1"] = "help"]

SmallServers == {AdminServer, DelegateServer, BanServer, ModeratorServer}

(***************************************************************************)
(* The tree: a drop box and a folder gated at Admin, each with a file      *)
(* below, or both kinds made on the way.                                   *)
(***************************************************************************)
SmallItemOf == [plain |-> "default", box |-> "db"]

Edits == {"upload", "delete", "manage"}
SmallStanding ==
  [power |-> [class |-> 2, privileges |-> Edits],
   admin |-> [class |-> 3, privileges |-> Edits \cup {"accounts"}]]

SmallFolderSpecs ==
  {[kind |-> "dir", read |-> 3, write |-> 3, owner |-> Nobody],
   [kind |-> "upload", read |-> 0, write |-> 1, owner |-> "power"]}

SeedDir(up, name, read, write, owner) ==
  TreeNode(up, name, "dir", read, write, owner, Nowhere)
SeedFile(up) == TreeNode(up, "plain", "file", 0, 2, Nobody, Nowhere)

SmallSeeds ==
  {<<SeedDir(0, "plain", 0, 2, Nobody), SeedDir(1, "plain", 3, 2, Nobody),
     SeedFile(2)>>,
   <<SeedDir(0, "box", 0, 1, "power"), SeedDir(1, "plain", 0, 2, Nobody),
     SeedFile(2)>>}

SmallNewsClass == [ann |-> 1, mod |-> 2]
SmallThresholds == {<<0, 0>>, <<3, 1>>}

BareTree ==
  /\ rows = [i \in {0} |-> RootNode] /\ tree = Load(rows)
  /\ born = 0 /\ heading = NoUpload
  /\ catalog = {} /\ hand = Nobody /\ treeEdits = 0

vars == <<subject, policyVars, treeVars, newsVars, historyVars, limiterVars,
          pacingVars>>

Init ==
  /\ subject \in
       {"policy", "tree", "news", "history", "limiter", "gate", "bucket"}
  /\ PolicyInit /\ (subject # "policy" => server = BanServer)
  /\ IF subject = "tree" THEN TreeInit ELSE BareTree
  /\ NewsInit /\ HistoryInit /\ LimiterInit /\ PacingInit

PolicyStep ==
  /\ subject = "policy" /\ PolicyNext
  /\ UNCHANGED <<subject, treeVars, newsVars, historyVars, limiterVars,
                 pacingVars>>
TreeStep ==
  /\ subject = "tree" /\ TreeNext
  /\ UNCHANGED <<subject, policyVars, newsVars, historyVars, limiterVars,
                 pacingVars>>
NewsStep ==
  /\ subject = "news" /\ NewsNext
  /\ UNCHANGED <<subject, policyVars, treeVars, historyVars, limiterVars,
                 pacingVars>>
HistoryStep ==
  /\ subject = "history" /\ HistoryNext
  /\ UNCHANGED <<subject, policyVars, treeVars, newsVars, limiterVars,
                 pacingVars>>
LimiterStep ==
  /\ subject = "limiter" /\ LimiterNext
  /\ UNCHANGED <<subject, policyVars, treeVars, newsVars, historyVars,
                 pacingVars>>
PacingStep ==
  /\ \/ subject = "gate" /\ GateNext
     \/ subject = "bucket" /\ BucketNext
  /\ UNCHANGED <<subject, policyVars, treeVars, newsVars, historyVars,
                 limiterVars>>

Next ==
  \/ PolicyStep \/ TreeStep \/ NewsStep
  \/ HistoryStep \/ LimiterStep \/ PacingStep

Spec == Init /\ [][Next]_vars
=============================================================================
