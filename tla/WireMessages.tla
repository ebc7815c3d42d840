---------------------------- MODULE WireMessages ----------------------------
(***************************************************************************)
(* The payloads of kdx-protocol (messages/ *.rs): for every message the    *)
(* fields `encode` writes and the checks and reads `decode` makes.         *)
(***************************************************************************)
EXTENDS WireCodec

(* handshake.rs *)

HandshakeInit ==
    Shape(<<U8("version"), U16("features")>>,
          LET g == <<U8("version"), U16("features")>> IN <<Exact(g)>> \o g)

HandshakeResp ==
    Shape(<<U8("version"), U16("features")>>,
          LET g == <<U8("version"), U16("features")>> IN <<Exact(g)>> \o g)

-----------------------------------------------------------------------------
(* account.rs *)

Costs == <<U32("m_cost"), U32("t_cost"), U32("p_cost")>>
Keys == <<A32("stored_key"), A32("server_key")>>
Credential == Shape(Costs \o <<Blob("salt")>> \o Keys,
                    Raw(Costs) \o <<Blob("salt")>> \o Raw(Keys))

Rights == <<U8("base_class"), U32("granted"), U32("revoked")>>
User == <<Str("username")>>

AccountCreate ==
    Shape(User \o Credential.put \o Rights,
          User \o Credential.get \o Raw(Rights) \o <<End>>)

AccountSetPassword ==
    Shape(User \o Credential.put, User \o Credential.get \o <<End>>)

AccountUpdate == Shape(User \o Rights, User \o Raw(Rights) \o <<End>>)

AccountListRequest == Plain(<<>>)

AccountListResponse ==
    LET e == Shape(User \o Rights, User \o Raw(Rights))
        l == List32("accounts", e)
    IN Shape(<<l>>, <<Need(<<U32("count")>>), l, End>>)

-----------------------------------------------------------------------------
(* auth.rs *)

AuthRequest == Plain(User)

\* Writes its own prefix, `salt.len() as u16`, where the others clamp
AuthChallenge ==
    LET g == <<A32("challenge")>> \o Costs
    IN Shape(g \o <<Salt("salt")>>,
             <<Need(g \o <<U16("len")>>)>> \o g \o <<Salt("salt")>>)

AuthResponse ==
    Shape(<<A32("response")>>, <<Exact(<<A32("response")>>), A32("response")>>)

\* The success byte is not read with get_bool: any byte but 0 is true
AuthResult ==
    LET g == <<Flag("success"), A16("session_id"), U8("class"),
               U32("privileges")>>
        m == <<Str("message")>>
        sig == <<A32("server_signature")>>
    IN Shape(g \o m \o sig,
             <<Need(g \o m)>> \o g \o m \o <<Exact(sig)>> \o sig)

PasswordChangeBegin == Plain(<<>>)

PasswordChangeChallenge ==
    LET g == <<A32("challenge")>> \o Costs
    IN Shape(g \o <<Blob("salt")>>, Raw(g) \o <<Blob("salt"), End>>)

PasswordChangeProof ==
    Shape(<<A32("proof")>> \o Credential.put,
          Raw(<<A32("proof")>>) \o Credential.get \o <<End>>)

PasswordChangeResult ==
    LET sig == <<A32("server_signature")>>
        g == <<Bool("success"), Str("message")>>
    IN Shape(g \o sig, g \o <<Exact(sig)>> \o sig)

-----------------------------------------------------------------------------
(* chat.rs and private.rs *)

Room == <<Str("room")>>

ChatSend == Shape(Room \o <<U8("flags"), Str("text")>>,
                  Room \o Raw(<<U8("flags")>>) \o <<Str("text"), End>>)

ChatEvent ==
    LET who == Room \o <<Str("sender")>>
        g == <<U64("timestamp"), U8("flags")>>
    IN Shape(who \o g \o <<Str("text")>>,
             who \o Raw(g) \o <<Str("text"), End>>)

ChatJoin == Plain(Room)

ChatLeave == Plain(Room)

ChatUserList ==
    LET l == List16("users", Shape(<<Str("user")>>, <<Str("user")>>))
    IN Shape(Room \o <<l>>, Room \o <<Need(<<U16("count")>>), l, End>>)

ChatTopic == Plain(Room \o <<Str("topic")>>)

ChatInvite == Plain(<<Str("to")>>)

ChatInvited == Plain(<<Str("from"), Str("room")>>)

ChatRoomFlags ==
    LET g == <<U8("min_class_join")>>
        b == <<Bool("interview_mode")>>
    IN Shape(Room \o g \o b, Room \o Raw(g) \o b \o <<End>>)

PrivateSend == Plain(<<Str("to"), Str("text")>>)

PrivateMessage ==
    LET who == <<Str("from"), Str("to")>>
        at == <<U64("timestamp")>>
    IN Shape(who \o at \o <<Str("text")>>,
             who \o Raw(at) \o <<Str("text"), End>>)

-----------------------------------------------------------------------------
(* presence.rs *)

PresenceEntry ==
    LET g == <<U8("class"), U64("login_at"), U32("idle_secs")>>
        rest == <<Str("address"), Str("name"), Str("description")>>
    IN Shape(User \o g \o rest, User \o Raw(g) \o rest)

SetIdentity == Plain(<<Str("name"), Str("description")>>)

PresenceListRequest == Plain(<<>>)

PresenceListResponse ==
    LET l == List16("users", PresenceEntry)
    IN Shape(<<l>>, <<Need(<<U16("count")>>), l, End>>)

PresenceChange ==
    Shape(<<Bool("online")>> \o PresenceEntry.put,
          <<Bool("online")>> \o PresenceEntry.get \o <<End>>)

UserInfoRequest == Plain(User)

UserInfoResponse == Shape(PresenceEntry.put, PresenceEntry.get \o <<End>>)

-----------------------------------------------------------------------------
(* roles.rs *)

RoleFields == <<U32("privileges"), I32("rank")>>
RoleInfo ==
    Shape(<<A16("id"), Str("name")>> \o RoleFields \o <<Str("color")>>,
          Raw(<<A16("id")>>) \o <<Str("name")>> \o Raw(RoleFields)
             \o <<Str("color")>>)

RoleListRequest == Plain(<<>>)

RoleListResponse ==
    LET l == List16("roles", RoleInfo)
    IN Shape(<<l>>, <<Need(<<U16("count")>>), l, End>>)

RoleCreate ==
    Shape(<<Str("name")>> \o RoleFields \o <<Str("color")>>,
          <<Str("name")>> \o Raw(RoleFields) \o <<Str("color"), End>>)

RoleUpdate ==
    Shape(<<A16("id"), Str("name")>> \o RoleFields \o <<Str("color")>>,
          <<Id("id"), Str("name")>> \o Raw(RoleFields)
             \o <<Str("color"), End>>)

RoleDelete == Shape(<<A16("id")>>, <<Exact(<<A16("id")>>), A16("id")>>)

RoleAssign == Shape(User \o <<A16("role_id")>>, User \o <<Id("role_id"), End>>)

RoleUnassign ==
    Shape(User \o <<A16("role_id")>>, User \o <<Id("role_id"), End>>)

AccountRolesRequest == Plain(User)

AccountRolesResponse ==
    LET l == List16("role_ids", Shape(<<A16("id")>>, <<Id("id")>>))
    IN Shape(User \o <<l>>, User \o <<Need(<<U16("count")>>), l, End>>)

-----------------------------------------------------------------------------
(* news.rs *)

Title == <<Str("name"), Str("description")>>
Classes == <<U8("min_read_class"), U8("min_post_class")>>

NewsgroupListRequest == Plain(<<>>)

NewsgroupListResponse ==
    LET e == Shape(<<A16("id")>> \o Title \o Classes,
                   <<Id("id")>> \o Title \o Raw(Classes))
        l == List32("groups", e)
    IN Shape(<<l>>, <<Need(<<U32("count")>>), l, End>>)

NewsThreadListRequest ==
    Shape(<<A16("newsgroup_id")>>, <<Id("newsgroup_id"), End>>)

NewsPost ==
    LET text == <<Str("author"), Str("subject"), Str("body")>>
        at == <<U64("timestamp")>>
    IN Shape(<<A16("id"), A16("newsgroup_id"), A16("parent_id")>>
                \o text \o at,
             <<Id("id"), Id("newsgroup_id"), Id("parent_id")>>
                \o text \o Raw(at))

NewsThreadListResponse ==
    LET l == List32("posts", NewsPost)
    IN Shape(<<A16("newsgroup_id"), l>>,
             <<Id("newsgroup_id"), Need(<<U32("count")>>), l, End>>)

NewsPostCreate ==
    LET text == <<Str("subject"), Str("body")>>
    IN Shape(<<A16("newsgroup_id"), A16("parent_id")>> \o text,
             <<Id("newsgroup_id"), Id("parent_id")>> \o text \o <<End>>)

NewsPostDelete == Shape(<<A16("post_id")>>, <<Id("post_id"), End>>)

NewsgroupCreate == Shape(Title \o Classes, Title \o Raw(Classes) \o <<End>>)

NewsgroupUpdate ==
    Shape(<<A16("id")>> \o Title \o Classes,
          <<Id("id")>> \o Title \o Raw(Classes) \o <<End>>)

NewsgroupDelete == Shape(<<A16("id")>>, <<Id("id"), End>>)

-----------------------------------------------------------------------------
(* file.rs *)

KindSize == <<U8("kind"), U64("size")>>
Path == <<Str("path")>>
Owner == <<Opt("owner", Shape(<<Str("owner")>>, <<Str("owner")>>))>>
Minimums == <<U8("min_read_class"), U8("min_write_class")>>

FileListRequest == Plain(Path)

FileListResponse ==
    LET e == Shape(<<Str("name")>> \o KindSize,
                   <<Str("name")>> \o Raw(KindSize))
        l == List16("entries", e)
    IN Shape(Path \o <<l>>, Path \o <<Need(<<U16("count")>>), l, End>>)

FileCreateFolder ==
    LET at == Path \o <<Str("name")>>
        g == <<U8("kind")>> \o Minimums
    IN Shape(at \o g \o Owner, at \o Raw(g) \o Owner \o <<End>>)

FileInfoRequest == Plain(Path)

FileInfoResponse ==
    LET h == <<A32("hash")>>
        sha == <<Opt("sha256", Shape(h, Raw(h)))>>
    IN Shape(<<Str("name")>> \o KindSize \o sha \o Minimums \o Owner,
             <<Str("name")>> \o Raw(KindSize) \o sha \o Raw(Minimums)
                \o Owner \o <<End>>)

FileDelete == Plain(Path)

FileGenerateCatalog == Plain(<<>>)

FileCatalogGenerated ==
    Shape(<<U32("count")>>, Raw(<<U32("count")>>) \o <<End>>)

FileSearchRequest == Plain(<<Str("query")>>)

FileSearchResponse ==
    LET at == Path \o <<Str("name")>>
        l == List32("entries", Shape(at \o KindSize, at \o Raw(KindSize)))
    IN Shape(<<l>>, <<Need(<<U32("count")>>), l, End>>)

FileMove == Plain(Path \o <<Str("dest_path")>>)

FileAlias == Plain(<<Str("source_path"), Str("dest_path")>>)

TransferRequest ==
    LET at == Path \o <<Str("name")>>
        g == <<U64("size"), U32("chunk_size"), A32("sha256"),
               A16("resume_id")>>
    IN Shape(<<Way("direction")>> \o at \o g \o <<Blob("have_bitmap")>>,
             <<Need(<<U8("direction")>>), Way("direction")>> \o at \o Raw(g)
                \o <<Blob("have_bitmap"), End>>)

TransferAccept ==
    LET g == <<A16("transfer_id"), U32("chunk_size"), U32("total_chunks"),
               U64("size"), A32("sha256")>>
    IN Shape(g \o <<Blob("have_bitmap")>>,
             Raw(g) \o <<Blob("have_bitmap"), End>>)

TransferData ==
    LET g == <<A16("transfer_id"), U32("chunk_index"), A32("chunk_hash")>>
    IN Shape(g \o <<Rest("data")>>, Raw(g) \o <<Rest("data")>>)

TransferEnd ==
    LET g == <<A16("transfer_id"), U8("status")>>
        m == <<Str("message")>>
    IN Shape(g \o m, <<Need(g \o m)>> \o g \o m \o <<End>>)

-----------------------------------------------------------------------------
(* admin.rs and tracker.rs *)

AdminDisconnect ==
    LET who == User \o <<Str("reason")>>
        g == <<U32("ban_secs")>>
    IN Shape(who \o g, who \o Raw(g) \o <<End>>)

BanListRequest == Plain(<<>>)

BanListResponse ==
    LET til == <<U64("until")>>
        why == <<Str("reason"), Str("banned_by")>>
        by == <<U8("banned_by_class")>>
        l == List32("bans", Shape(User \o til \o why \o by,
                                  User \o Raw(til) \o why \o Raw(by)))
    IN Shape(<<U32("total"), l>>,
             <<Need(<<U32("total"), U32("count")>>), U32("total"), l, End>>)

BanRemove == Plain(User)

ServerSettingsRequest == Plain(<<>>)

Settings == <<Str("name"), Str("description"), Str("greeting")>>

ServerSettingsResponse ==
    LET g == <<U32("max_users"), U16("port"), U64("max_upload_bytes_per_sec"),
               U64("max_download_bytes_per_sec")>>
    IN Shape(Settings \o g, Settings \o Raw(g) \o <<End>>)

ServerSettingsUpdate ==
    LET g == <<U32("max_users")>>
    IN Shape(Settings \o g, Settings \o Raw(g) \o <<End>>)

AdminBroadcast == Plain(<<Str("text")>>)

AdminShutdown == Plain(<<Str("message")>>)

HistoryListRequest ==
    Shape(<<U32("limit")>>, Raw(<<U32("limit")>>) \o <<End>>)

HistoryListResponse ==
    LET at == <<U64("timestamp")>>
        what == <<Str("actor"), Str("action"), Str("detail")>>
        l == List32("entries", Shape(at \o what, Raw(at) \o what))
    IN Shape(<<l>>, <<Need(<<U32("count")>>), l, End>>)

IpRuleListRequest == Plain(<<>>)

IpRuleListResponse ==
    LET pos == <<I32("position")>>
        rule == <<Str("action"), Str("cidr"), Str("note"), Str("created_by")>>
        at == <<U64("created_at")>>
        l == List32("rules",
                Shape(<<Str("id")>> \o pos \o rule \o at,
                      <<Str("id")>> \o Raw(pos) \o rule \o Raw(at)))
    IN Shape(<<l>>, <<Need(<<U32("count")>>), l, End>>)

IpRuleCreate ==
    LET pos == <<I32("position")>>
        rule == <<Str("action"), Str("cidr"), Str("note")>>
    IN Shape(pos \o rule, Raw(pos) \o rule \o <<End>>)

IpRuleDelete == Plain(<<Str("id")>>)

ConnectionListRequest == Plain(<<>>)

ConnectionListResponse ==
    LET l == List16("connections", PresenceEntry)
    IN Shape(<<l>>, <<Need(<<U16("count")>>), l, End>>)

TrackerListRequest == Plain(<<Str("filter")>>)

TrackerListResponse ==
    LET at == <<Str("name"), Str("host")>>
        g == <<U16("port"), U32("users"), U32("max_users")>>
        d == <<Str("description")>>
        l == List32("servers", Shape(at \o g \o d, at \o Raw(g) \o d))
    IN Shape(<<l>>, <<Need(<<U32("count")>>), l, End>>)

-----------------------------------------------------------------------------
(* packet_type.rs: every packet type and its opcode *)

Block(first, names) ==
    [n \in ToSet(names) |-> first + (CHOOSE i \in DOMAIN names :
                                        names[i] = n) - 1]

PacketType ==
    FoldLeft(Merge, <<>>, <<
      Block(1, <<"HandshakeInit", "HandshakeResp", "Ping", "Pong">>),
      Block(15, <<"Disconnect", "AuthRequest", "AuthChallenge",
        "AuthResponse", "AuthResult", "PasswordChangeBegin",
        "PasswordChangeChallenge", "PasswordChangeProof",
        "PasswordChangeResult">>),
      Block(32, <<"FileListRequest", "FileListResponse",
        "FileTransferStart", "FileTransferData", "FileTransferEnd",
        "FileCreateFolder", "FileDelete", "FileGenerateCatalog",
        "FileCatalogGenerated", "FileSearchRequest", "FileSearchResponse",
        "FileMove", "FileAlias", "FileInfoRequest", "FileInfoResponse">>),
      Block(48, <<"ChatMessage", "ChatJoin", "ChatLeave", "ChatUserList",
        "ChatTopicSet", "PresenceListRequest", "PresenceListResponse",
        "PresenceChange", "UserInfoRequest", "UserInfoResponse",
        "SetIdentity">>),
      Block(64, <<"PrivateSend", "PrivateMessage", "AdminDisconnect",
        "BanListRequest", "BanListResponse", "BanRemove">>),
      Block(80, <<"RoleListRequest", "RoleListResponse", "RoleCreate",
        "RoleUpdate", "RoleDelete", "RoleAssign", "RoleUnassign",
        "AccountRolesRequest", "AccountRolesResponse", "AccountCreate",
        "AccountUpdate", "AccountListRequest", "AccountListResponse",
        "AccountSetPassword">>),
      Block(96, <<"NewsgroupListRequest", "NewsgroupListResponse",
        "NewsThreadListRequest", "NewsThreadListResponse",
        "NewsPostCreate", "NewsPostDelete", "NewsgroupCreate",
        "NewsgroupUpdate", "NewsgroupDelete">>),
      Block(112, <<"TrackerListRequest", "TrackerListResponse",
        "ServerSettingsRequest", "ServerSettingsResponse",
        "ServerSettingsUpdate", "AdminBroadcast", "AdminShutdown",
        "ChatInvite", "ChatInvited", "HistoryListRequest",
        "HistoryListResponse", "IpRuleListRequest", "IpRuleListResponse",
        "IpRuleCreate", "IpRuleDelete", "ConnectionListRequest",
        "ConnectionListResponse", "ChatRoomFlags">>),
      Block(240, <<"Error", "Warning", "Info">>)>>)

\* PacketType::ALL
AllTypes == DOMAIN PacketType

\* TryFrom<u8>: the type of an opcode, or none for one that has no type
TryFrom(op) == {t \in AllTypes : PacketType[t] = op}

=============================================================================
