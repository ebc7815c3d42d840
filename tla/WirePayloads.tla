---------------------------- MODULE WirePayloads ----------------------------
(***************************************************************************)
(* One payload on its way: a peer encodes a message, a peer that is not    *)
(* this encoder may send something near it instead, and the other side     *)
(* decodes what arrives.                                                   *)
(***************************************************************************)
EXTENDS WireMessages

CONSTANT Samples    \* Samples[k]: values tried for a field of kind k

VARIABLES msg,      \* the message's name
          value,    \* the struct handed to encode
          payload,  \* the bytes as they arrive
          intact,   \* the bytes are what encode wrote
          result    \* what decode made of them; Unread before

payloadVars == <<msg, value, payload, intact, result>>

Unread == [Reader(<<>>) EXCEPT !.st = "unread"]

Catalogue == [
    HandshakeInit |-> HandshakeInit, HandshakeResp |-> HandshakeResp,
    AccountCreate |-> AccountCreate, AccountUpdate |-> AccountUpdate,
    AccountSetPassword |-> AccountSetPassword,
    AccountListRequest |-> AccountListRequest,
    AccountListResponse |-> AccountListResponse,
    AuthRequest |-> AuthRequest, AuthChallenge |-> AuthChallenge,
    AuthResponse |-> AuthResponse, AuthResult |-> AuthResult,
    PasswordChangeBegin |-> PasswordChangeBegin,
    PasswordChangeChallenge |-> PasswordChangeChallenge,
    PasswordChangeProof |-> PasswordChangeProof,
    PasswordChangeResult |-> PasswordChangeResult,
    ChatSend |-> ChatSend, ChatEvent |-> ChatEvent, ChatJoin |-> ChatJoin,
    ChatLeave |-> ChatLeave, ChatUserList |-> ChatUserList,
    ChatTopic |-> ChatTopic, ChatInvite |-> ChatInvite,
    ChatInvited |-> ChatInvited, ChatRoomFlags |-> ChatRoomFlags,
    PrivateSend |-> PrivateSend, PrivateMessage |-> PrivateMessage,
    SetIdentity |-> SetIdentity,
    PresenceListRequest |-> PresenceListRequest,
    PresenceListResponse |-> PresenceListResponse,
    PresenceChange |-> PresenceChange, UserInfoRequest |-> UserInfoRequest,
    UserInfoResponse |-> UserInfoResponse,
    RoleListRequest |-> RoleListRequest, RoleListResponse |-> RoleListResponse,
    RoleCreate |-> RoleCreate, RoleUpdate |-> RoleUpdate,
    RoleDelete |-> RoleDelete, RoleAssign |-> RoleAssign,
    RoleUnassign |-> RoleUnassign,
    AccountRolesRequest |-> AccountRolesRequest,
    AccountRolesResponse |-> AccountRolesResponse,
    NewsgroupListRequest |-> NewsgroupListRequest,
    NewsgroupListResponse |-> NewsgroupListResponse,
    NewsThreadListRequest |-> NewsThreadListRequest,
    NewsThreadListResponse |-> NewsThreadListResponse,
    NewsPostCreate |-> NewsPostCreate, NewsPostDelete |-> NewsPostDelete,
    NewsgroupCreate |-> NewsgroupCreate, NewsgroupUpdate |-> NewsgroupUpdate,
    NewsgroupDelete |-> NewsgroupDelete,
    FileListRequest |-> FileListRequest, FileListResponse |-> FileListResponse,
    FileCreateFolder |-> FileCreateFolder, FileInfoRequest |-> FileInfoRequest,
    FileInfoResponse |-> FileInfoResponse, FileDelete |-> FileDelete,
    FileGenerateCatalog |-> FileGenerateCatalog,
    FileCatalogGenerated |-> FileCatalogGenerated,
    FileSearchRequest |-> FileSearchRequest,
    FileSearchResponse |-> FileSearchResponse,
    FileMove |-> FileMove, FileAlias |-> FileAlias,
    TransferRequest |-> TransferRequest, TransferAccept |-> TransferAccept,
    TransferData |-> TransferData, TransferEnd |-> TransferEnd,
    AdminDisconnect |-> AdminDisconnect, BanListRequest |-> BanListRequest,
    BanListResponse |-> BanListResponse, BanRemove |-> BanRemove,
    ServerSettingsRequest |-> ServerSettingsRequest,
    ServerSettingsResponse |-> ServerSettingsResponse,
    ServerSettingsUpdate |-> ServerSettingsUpdate,
    AdminBroadcast |-> AdminBroadcast, AdminShutdown |-> AdminShutdown,
    HistoryListRequest |-> HistoryListRequest,
    HistoryListResponse |-> HistoryListResponse,
    IpRuleListRequest |-> IpRuleListRequest,
    IpRuleListResponse |-> IpRuleListResponse, IpRuleCreate |-> IpRuleCreate,
    IpRuleDelete |-> IpRuleDelete,
    ConnectionListRequest |-> ConnectionListRequest,
    ConnectionListResponse |-> ConnectionListResponse,
    TrackerListRequest |-> TrackerListRequest,
    TrackerListResponse |-> TrackerListResponse]

-----------------------------------------------------------------------------
(* Values to try: every field at its first sample, and each in turn at each
   of its samples. A list is tried empty, with one entry of each kind, and
   with more entries than a u16 can count. *)

RECURSIVE Variants(_)

First(t) ==
    IF t.k = "opt" \/ t.k \in {"list16", "list32"} THEN <<>>
    ELSE Samples[t.k][1]

Tried(t) ==
    IF t.k = "opt" THEN {<<>>} \cup {<<v>> : v \in Variants(t.put)}
    ELSE IF t.k \in {"list16", "list32"}
    THEN {<<>>} \cup {<<v>> : v \in Variants(t.put)}
           \cup {[i \in 1..(MaxLen16 + 1) |-> v] : v \in Variants(t.put)}
    ELSE ToSet(Samples[t.k])

Variants(put) ==
    LET base == [f \in {put[i].f : i \in DOMAIN put} |->
                    First(put[CHOOSE i \in DOMAIN put : put[i].f = f])]
    IN {base} \cup UNION {{[base EXCEPT ![put[i].f] = v] : v \in Tried(put[i])}
                             : i \in DOMAIN put}

PayloadInit ==
    /\ msg \in DOMAIN Catalogue
    /\ value \in Variants(Catalogue[msg].put)
    /\ payload = Encode(Catalogue[msg], value)
    /\ intact = TRUE
    /\ result = Unread

\* Cut short, continued, or one byte of it different
Near(p) ==
    {SubSeq(p, 1, n) : n \in 0 .. Len(p) - 1}
      \cup {Append(p, b) : b \in {0, ByteBase - 1}}
      \cup {[p EXCEPT ![i] = b] : i \in DOMAIN p, b \in Bytes}

Arrives ==
    /\ result = Unread /\ intact
    /\ \E p \in Near(payload) \ {payload} : payload' = p
    /\ intact' = FALSE
    /\ UNCHANGED <<msg, value, result>>

Reads ==
    /\ result = Unread
    /\ result' = [Decode(Catalogue[msg], payload) EXCEPT !.left = <<>>]
    /\ UNCHANGED <<msg, value, payload, intact>>

PayloadNext == Arrives \/ Reads

-----------------------------------------------------------------------------
(* Properties *)

\* The longest prefix that is whole characters and fits the prefix
LongestThatFits(s) ==
    CHOOSE p \in {SubSeq(s, 1, n) : n \in 0 .. Len(s)} :
        /\ ValidUtf8(p) /\ Len(p) <= MaxLen16
        /\ \A q \in {SubSeq(s, 1, n) : n \in Len(p) + 1 .. Len(s)} :
               ~(ValidUtf8(q) /\ Len(q) <= MaxLen16)

RECURSIVE Kept(_, _)

\* What survives of a value: oversized fields are cut, never wrapped
KeptField(t, v) ==
    CASE t.k = "str"  -> LongestThatFits(v)
      [] t.k = "blob" -> SubSeq(v, 1, Least(Len(v), MaxLen16))
      [] t.k = "opt"  -> IF v = <<>> THEN v ELSE <<Kept(t.put, v[1])>>
      [] t.k = "list16" -> [i \in 1 .. Least(Len(v), MaxLen16) |->
                               Kept(t.put, v[i])]
      [] t.k = "list32" -> [i \in DOMAIN v |-> Kept(t.put, v[i])]
      [] OTHER -> v

Kept(put, v) ==
    [f \in DOMAIN v |->
        KeptField(put[CHOOSE i \in DOMAIN put : put[i].f = f], v[f])]

HasRead == result # Unread

(* What decode makes of encode's bytes is the value that was encoded, with
   every field too long for its prefix cut to the longest part that fits:
   no field spills into the next one (wire.rs, put_str, put_bytes16,
   put_count16, and every encode and decode). AuthChallenge clamps nothing
   and is held to it only for a salt that fits. *)
RoundTrip ==
    HasRead /\ intact
      /\ (msg = "AuthChallenge" => Len(value["salt"]) <= MaxLen16)
    => /\ result.st = "ok"
       /\ result.read = Kept(Catalogue[msg].put, value)

(* Whatever arrives, decode ends in a value or an error: no read runs past
   the end of the payload, and a list decoder reserves room for no more
   entries than the payload has bytes (wire.rs list_capacity, and the
   length checks before the raw reads of every decode). *)
DecodeSafe ==
    result.st # "panic" /\ result.room <= Len(payload)

(* A payload that is accepted is the encoding of what it was read as: no
   two payloads mean the same, and nothing in one is ignored (get_bool,
   expect_end, the exact-length checks). AuthResult reads its success byte
   leniently and is left out. *)
Canonical ==
    HasRead /\ result.st = "ok" /\ msg # "AuthResult"
    => Encode(Catalogue[msg], result.read) = payload

(* The three together: what one side writes the other reads, and what
   neither wrote is refused without harm. *)
CodecSound == RoundTrip /\ DecodeSafe /\ Canonical

=============================================================================
