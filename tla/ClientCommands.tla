--------------------------- MODULE ClientCommands ---------------------------
(***************************************************************************)
(* What the client sends for each command of ClientHandle, what it then    *)
(* waits for (handle_command in actor.rs), and what the dispatch loop of   *)
(* the server answers to each packet (dispatch_inner in connection.rs).    *)
(*                                                                         *)
(* The wire carries no request ids: the client pairs answers with requests *)
(* by their order and their type alone.  The two sides' tables are written *)
(* down separately here, each from its own source, so that a run can find  *)
(* out whether they agree.                                                 *)
(***************************************************************************)
EXTENDS Naturals

\* A command that sends packet p and waits for the reply type r.
Request(p, r) == [packet |-> p, expects |-> r]

(***************************************************************************)
(* The client: commands with one reply-or-Error.                           *)
(***************************************************************************)
FileRequests ==
  [ListFiles       |-> Request("FileListRequest", "FileListResponse"),
   CreateFolder    |-> Request("FileCreateFolder", "FileListResponse"),
   DeletePath      |-> Request("FileDelete", "FileListResponse"),
   MovePath        |-> Request("FileMove", "FileListResponse"),
   GetFileInfo     |-> Request("FileInfoRequest", "FileInfoResponse"),
   AliasPath       |-> Request("FileAlias", "FileListResponse"),
   GenerateCatalog |-> Request("FileGenerateCatalog",
                               "FileCatalogGenerated"),
   SearchFiles     |-> Request("FileSearchRequest", "FileSearchResponse")]

ServerRequests ==
  [ListUsers       |-> Request("PresenceListRequest",
                               "PresenceListResponse"),
   ListServers     |-> Request("TrackerListRequest", "TrackerListResponse"),
   GetServerSettings |-> Request("ServerSettingsRequest",
                                 "ServerSettingsResponse"),
   UpdateServerSettings |-> Request("ServerSettingsUpdate",
                                    "ServerSettingsResponse"),
   ListHistory     |-> Request("HistoryListRequest", "HistoryListResponse"),
   ListIpRules     |-> Request("IpRuleListRequest", "IpRuleListResponse"),
   CreateIpRule    |-> Request("IpRuleCreate", "IpRuleListResponse"),
   DeleteIpRule    |-> Request("IpRuleDelete", "IpRuleListResponse"),
   ListConnections |-> Request("ConnectionListRequest",
                               "ConnectionListResponse"),
   GetUserInfo     |-> Request("UserInfoRequest", "UserInfoResponse")]

RoleRequests ==
  [ListRoles    |-> Request("RoleListRequest", "RoleListResponse"),
   CreateRole   |-> Request("RoleCreate", "RoleListResponse"),
   UpdateRole   |-> Request("RoleUpdate", "RoleListResponse"),
   DeleteRole   |-> Request("RoleDelete", "RoleListResponse"),
   AssignRole   |-> Request("RoleAssign", "RoleListResponse"),
   UnassignRole |-> Request("RoleUnassign", "RoleListResponse"),
   AccountRoles |-> Request("AccountRolesRequest", "AccountRolesResponse")]

AccountRequests ==
  [ListAccounts         |-> Request("AccountListRequest",
                                    "AccountListResponse"),
   CreateAccount        |-> Request("AccountCreate", "AccountListResponse"),
   UpdateAccount        |-> Request("AccountUpdate", "AccountListResponse"),
   SetAccountPassword   |-> Request("AccountSetPassword",
                                    "AccountListResponse"),
   BeginPasswordChange  |-> Request("PasswordChangeBegin",
                                    "PasswordChangeChallenge"),
   FinishPasswordChange |-> Request("PasswordChangeProof",
                                    "PasswordChangeResult")]

NewsRequests ==
  [ListNewsgroups  |-> Request("NewsgroupListRequest",
                               "NewsgroupListResponse"),
   CreateNewsgroup |-> Request("NewsgroupCreate", "NewsgroupListResponse"),
   ListThread      |-> Request("NewsThreadListRequest",
                               "NewsThreadListResponse"),
   CreatePost      |-> Request("NewsPostCreate", "NewsThreadListResponse"),
   DeletePost      |-> Request("NewsPostDelete", "NewsThreadListResponse"),
   ListBans        |-> Request("BanListRequest", "BanListResponse"),
   RemoveBan       |-> Request("BanRemove", "BanListResponse"),
   UpdateNewsgroup |-> Request("NewsgroupUpdate", "NewsgroupListResponse"),
   DeleteNewsgroup |-> Request("NewsgroupDelete", "NewsgroupListResponse")]

\* The union of records (functions on strings) f and g.
Joined(f, g) ==
  [x \in DOMAIN f \cup DOMAIN g |-> IF x \in DOMAIN f THEN f[x] ELSE g[x]]

Requests ==
  Joined(Joined(FileRequests, ServerRequests),
         Joined(RoleRequests, Joined(AccountRequests, NewsRequests)))

\* Every type that only ever answers a request.
ReplyTypes == {Requests[k].expects : k \in DOMAIN Requests}

(***************************************************************************)
(* The client: fire-and-forget commands, each followed by a Ping.  The     *)
(* caller of one of these is answered as soon as both are written.         *)
(***************************************************************************)
QuietCommands ==
  [SendChat       |-> "ChatMessage",
   SetTopic       |-> "ChatTopicSet",
   SetRoomFlags   |-> "ChatRoomFlags",
   SendPrivate    |-> "PrivateSend",
   Broadcast      |-> "AdminBroadcast",
   ShutdownServer |-> "AdminShutdown",
   DisconnectUser |-> "AdminDisconnect",
   SetIdentity    |-> "SetIdentity"]

Commands ==
  DOMAIN Requests \cup DOMAIN QuietCommands
    \cup {"Login", "Join", "Leave", "Invite"}

(***************************************************************************)
(* The server: the type a granted packet is answered with.  A refused one  *)
(* is answered with Error.                                                 *)
(***************************************************************************)
PresenceAnswers ==
  [PresenceListRequest   |-> "PresenceListResponse",
   ConnectionListRequest |-> "ConnectionListResponse",
   UserInfoRequest       |-> "UserInfoResponse"]

TreeAnswers ==
  [FileListRequest   |-> "FileListResponse",
   FileInfoRequest   |-> "FileInfoResponse",
   FileCreateFolder  |-> "FileListResponse",
   FileDelete        |-> "FileListResponse",
   FileMove          |-> "FileListResponse",
   FileAlias         |-> "FileListResponse"]

CatalogAnswers ==
  [FileGenerateCatalog |-> "FileCatalogGenerated",
   FileSearchRequest   |-> "FileSearchResponse"]

RoleAnswers ==
  [RoleListRequest     |-> "RoleListResponse",
   RoleCreate          |-> "RoleListResponse",
   RoleUpdate          |-> "RoleListResponse",
   RoleDelete          |-> "RoleListResponse",
   RoleAssign          |-> "RoleListResponse",
   RoleUnassign        |-> "RoleListResponse",
   AccountRolesRequest |-> "AccountRolesResponse"]

AccountAnswers ==
  [AccountListRequest  |-> "AccountListResponse",
   AccountCreate       |-> "AccountListResponse",
   AccountUpdate       |-> "AccountListResponse",
   AccountSetPassword  |-> "AccountListResponse",
   PasswordChangeBegin |-> "PasswordChangeChallenge",
   PasswordChangeProof |-> "PasswordChangeResult"]

ServerAnswers ==
  [TrackerListRequest    |-> "TrackerListResponse",
   ServerSettingsRequest |-> "ServerSettingsResponse",
   HistoryListRequest    |-> "HistoryListResponse",
   IpRuleListRequest     |-> "IpRuleListResponse",
   IpRuleCreate          |-> "IpRuleListResponse",
   IpRuleDelete          |-> "IpRuleListResponse",
   ServerSettingsUpdate  |-> "ServerSettingsResponse"]

GroupAnswers ==
  [NewsgroupListRequest |-> "NewsgroupListResponse",
   NewsgroupCreate      |-> "NewsgroupListResponse",
   NewsgroupUpdate      |-> "NewsgroupListResponse",
   NewsgroupDelete      |-> "NewsgroupListResponse"]

\* Mutant: a deleted post answered with the newsgroup list.
ThreadAnswers_GroupList ==
  [NewsThreadListRequest |-> "NewsThreadListResponse",
   NewsPostCreate        |-> "NewsThreadListResponse",
   NewsPostDelete        |-> "NewsgroupListResponse"]

ThreadAnswers ==
  [NewsThreadListRequest |-> "NewsThreadListResponse",
   NewsPostCreate        |-> "NewsThreadListResponse",
   NewsPostDelete        |-> "NewsThreadListResponse"]

BanAnswers ==
  [BanListRequest |-> "BanListResponse",
   BanRemove      |-> "BanListResponse"]

Answers ==
  Joined(Joined(Joined(PresenceAnswers, TreeAnswers),
                Joined(CatalogAnswers, RoleAnswers)),
         Joined(Joined(AccountAnswers, ServerAnswers),
                Joined(GroupAnswers, Joined(ThreadAnswers, BanAnswers))))

\* Packets answered with nothing when granted, or with a notice.
QuietAnswers ==
  [ChatMessage |-> {"none", "Warning"}, ChatTopicSet    |-> {"none"},
   ChatRoomFlags |-> {"none"},          PrivateSend     |-> {"none"},
   SetIdentity   |-> {"none"},          AdminShutdown   |-> {"none"},
   AdminBroadcast |-> {"Info"},         AdminDisconnect |-> {"Info"}]
=============================================================================
