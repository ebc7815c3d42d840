# TLA+ specifications of KDX

KDX is a server (`kdxd`) and a client for chat, presence, news and file transfer over one framed TLS
connection per client. This directory holds TLA+ models of the server's components, of the wire protocol and
of the client core, the TLC runs that check them and TLAPS proofs about them. Paths below are relative to
`src/crates/`.

`tlc -config X.cfg MCy` runs a model, `tlapm XProofs.tla` checks the proofs of a module. `PROJECT.json`
lists the components, the runs with their properties, a mutation of the model for every property that TLC
must refute, the source lines of every definition, the hazards and the theorems.

## 1. The system

| Component | State | Operations | Talks to |
|---|---|---|---|
| Transfer manager `kdx-server-core/src/transfer/` | `Live` table under a mutex (held ids, destination names, slots, reserved bytes); row per unfinished upload; `<id>.part`, blob `<id>`, quarantine | begin, resume, write_chunk, finish, release, drop, download; sweep, orphan quarantine, startup repair | file tree, `transfer_state`, disk |
| File tree `files/tree.rs`, `acl.rs` | nodes and child lists in memory under one lock, rows in SQLite, search catalogue | create folder, alias, upload; delete, move, list, search; inherited access rules, drop boxes | transfers, connections |
| Presence `presence.rs` | roster, owned by one actor | join, leave, disconnect (one, others, all), broadcast, list | all connections and administrators |
| Login and sessions `auth/manager.rs` | registry of sessions, pending challenges | begin, complete, admit, password change and reset, end | presence, accounts, bans |
| Login limiter `auth/limiter.rs` | failures per address and per (address, account) | check, failure, success | logins, password changes |
| Roles and policy `auth/policy.rs`, `roles.rs`, `bans.rs` | class, overrides, roles, bans; the `mutations` lock | account, role, assignment, password, ban mutations | presence (kicks) |
| IP rules `ip_rules.rs` | rule list, cached | edit, verdict, disconnect_denied | presence |
| Chat `chat/room.rs`, `room_manager.rs` | actor per room (members, gate, topic); directory of rooms | join, leave, message, topic, flags, close if empty; invite, evict | connections |
| News `news.rs` | groups with class thresholds, posts in threads | create, update, delete a group; list, post, reply, delete | SQLite |
| Audit history `history.rs` | bounded queue, writer task, table with retention | record inline, record detached, recent, flush, prune | everything |
| Pacing `chat/flood.rs`, `transfer/throttle.rs` | token buckets per connection and per account | allow, ready_at; reserve, wait | connections, transfers |
| Connection `connection.rs` | session, joined rooms, active transfer, budgets | login, dispatch, cleanup guard | everything |
| Listener, daemon `kdxd/` | connection permits, per-address counts, deny log | accept, refuse, shutdown | connections |
| Settings, tracker | cached record, expiring entries | small transactions | SQLite |
| Protocol `kdx-protocol/` | reassembler, codec buffers | encode, decode, fragment, reassemble | both ends |
| Crypto `kdx-crypto/` | none (SCRAM, Shamir) | prove, verify, split, combine | connections |
| Client core `kdx-client-core/` | queue of owed answers, invites, known rooms; active transfer, partial files and sidecars; pins | commands, barriers, keep-alive, upload, download, resume | server |
| Desktop client `apps/kdx-client/` | windows over the client core's events | presentation | client core |

What is hard to test here:

* **interleaving and stale reads** - a connection task awaits the database, the tree, an actor or a file
  between reading something and acting on it: a resume claims what it read two awaits earlier, the sweeper
  works through an old list, a login registers seconds after it read the account, a join sends to a room
  that was closed meanwhile, a post is deleted three awaits after it was looked up;
* **order** - answers carry no request id, so the client pairs them with requests by order alone; events of
  a transfer that was given up keep arriving; the audit log has two ways in;
* **crashes** - finishing an upload is a commit, a rename and a second commit, and the power may go; a
  download's sidecar and its bytes reach the disk separately;
* **partial failure** - a rename and its undo both fail, a task panics while it is in rooms, a partial file
  cannot be opened after the server has begun to send;
* **limits** - slots, reserved bytes, open uploads, `max_users`, `MAX_ROOMS`, full queues, length prefixes,
  sequence numbers that wrap, buckets that fill while idle;
* **sequences of permitted requests** - delegates who together might make an account stronger than any of
  them; folders and aliases moved through each other;
* **things that must end** - startup, requests, calls, transfers, outdated sessions, shutdown, empty rooms.

`PROJECT.json` lists these one by one, at their lines.

## 2. Modules

| Module | Models | State and actions |
|---|---|---|
| `TransferClaims` | `Live`, `Claim` and their `Drop` in `transfer/manager.rs` | operators on the live table: `ClaimUpload`, `ReleaseUpload`, `Hold`, ... |
| `Transfers` (extends it) | uploads and downloads of the connection tasks, the `transfer_state` queries, `FileTree::add_file` and `remove_file_node` | `row`, `entry` (database), `parts`, `blobs`, `data` (disk), `live` (memory), `pc` and locals per connection; one action per stretch of code between two awaits, from `BeginUpload` to `Finished` |
| `TransferRecovery` (extends it) | users who delete and move entries, ageing, the sweeper, the quarantine, startup repair, process crash, power loss | `SweepStart` ... `Purge`, `Repair` ..., `Crash`, `PowerLoss`; the properties of transfers |
| `FileShelf` | what the file area promises | abstract specification, refined by `TransferRecovery` |
| `Presence` | the roster actor | mailbox, roster, kill signals; one action per command |
| `Sessions` (extends it) | login, admission, post-join re-check, password change, cleanup, loss of a task | `pc` per connection, `sessions`, credential and privileges read; accounts, roles, bans, rules |
| `SessionAdmin` (extends it) | handlers that change an account, role, ban, password or rule: write, then kick | properties of sessions |
| `AccountPolicy` | `auth/policy.rs`: who may change what of whom; `set_ranked` and `AdminDisconnect` | handlers of several people between check and write, with the `mutations` lock where the code takes it |
| `Rooms` | room actors, directory, chat requests, cleanup | `dir`, per-room actor state and inbox, `pc`, `job`, `joined` per connection |
| `Gatherings` | what the chat promises | abstract specification, refined by `Rooms` |
| `FileTree` | `files/tree.rs`, `acl.rs`, the `file_nodes` table, the catalogue | `tree` (memory), `rows` (table), `heading` (an upload between acceptance and filing), `catalog`; an action per edit, `Restart` |
| `News` | the news handlers, `news.rs`, its tables | `newsgroups`, `posts`, per member the request it is in; one action per await |
| `History` | `history.rs` and its table | call stage per task, `queue`, `writer`, the shared counters, the table as a sequence of which retention cuts the head |
| `LoginLimiter` | `auth/limiter.rs` and the attempts that ask it | `buckets` per key, attempt per connection, time |
| `Pacing` | `FloodGate`, `TokenBucket` | tokens and time of last refill; virtual clock and what each transfer was charged |
| `FrameStream` | `fragment.rs`, `codec.rs`, `header.rs` | sender's sequence number, bytes on the way, codec buffer and parked header, reassembler |
| `MessageChannel` | what a connection promises of messages | abstract specification, refined by `FrameStream` |
| `WireCodec` | `messages/wire.rs` | operators: fields written and read, clamps, checks, a bare read that panics when bytes are missing |
| `WireMessages` | `messages/*.rs`, `packet_type.rs` | per message, the steps of `encode` and of `decode` |
| `WirePayloads` | one payload between the two | `value`, `payload`, `result`; `Arrives`, `Reads` |
| `ClientCommands` | `handle_command` and the answers of `dispatch_inner` | two tables, written down separately: what the client sends and waits for, what the server answers |
| `ClientCalls` (extends it) | the client's connection actor, `ClientHandle`, the server's login and dispatch loops | `queue`, `pending`, `invites`, `known`, `login`; the link; the server's phase and outbound queue; one action per branch of the `select` and per kind of frame |
| `ClientTransfers` | transfers in `actor.rs` and `transfer.rs`, the transfer part of the server's loop | `xfer`, the blocking jobs with the file each reads and writes and how far it is, those left detached included; `gaveUp`, what is owed; on disk the files by number, which of them the partial's and the destination's name stand for, and the sidecar; the server's upload and download |
| `MCTransfers`, `MCSessions`, `MCRooms`, `MCServices`, `MCClient`, `MCProtocol` | | small instances for TLC |
| `TransferProofs`, `RoomProofs`, `SessionProofs`, `ServiceProofs`, `ClientProofs`, `TreeProofs`, `ProtocolProofs`, `CarryProofs` | | theorems (section 5) |

An action is the code a task runs between two points at which another task can observe it. A definition
whose name ends in `_Something` after the name of another one is a mutation of that one; no specification
uses it. `MCServices` and `MCProtocol` put parts side by side that share no state; a variable `subject` says
which part a behaviour is about, so that the state spaces add and do not multiply.

### Abstractions

*Transfers.* A file is a few chunks that are there or are not; the destination folder is fixed, and names
are numbered in the order `free_name` tries them. Which of the open uploads an eviction picks, which the
code decides by age, is left open. A power loss undoes up to `MaxRollback` of the latest commits
(`synchronous=NORMAL`) and directory operations and loses bytes not synced; the `fsync` in `hash_file` is
taken to make earlier directory operations of that file durable, `sync_dir` is best effort. A chunk whose
bit is not recorded may be torn without being noticed; that is not modelled. A killed connection's file
write in flight finishes or does not happen; a write that lands after the id was released
(`connection.rs:664`) is a hazard without a property: the write is one step of the model.
`TransferManager::abort` has no caller in the server.

*Sessions.* A connection carries one login. The presence mailbox has no bound and outbound queues never
fill. The limiter and the limit on wrong passwords in a password change are one outcome of the action that
fails. `session_ttl` ends a connection like any other end. Request handlers run to their end once begun:
kill signals are only looked at between requests (chunk writes, finishes and downloads are branches of that
loop of their own, and belong to the transfers).

*Policy.* Only administrative privileges, those the class Admin has and no lower one. A session keeps its
login snapshot until it logs in again, which covers the moment before a kick; the kicks themselves are in
`SessionAdmin`. `NoMinting` and `NoTakeover` carry the premise `Delegated`: no Admin acts, and no revoke
hides a privilege that a role gives, for then lifting the revoke gives it back, which `check_overrides` does
not look at.

*Rooms.* No message contents, topics, flood gates or queue depths: a full room queue delays a sender, a full
outbound queue loses one message, and no room ever waits for anybody. A private room's name is fresh
(`Uuid::new_v4`), so the model takes any unused one.

*File tree.* A label stands for a name, with the access item `AccessItem::parse` finds in it; all labels are
equally long, so the cap on a path's length is the cap on its depth (and a path through aliases, whose text
the code caps, may be of any length). An edit holds the tree's lock from its first check to the change in
memory and is one step. The catalogue is put in place after the lock is released; here at once.

*News and history.* No text, titles or lengths. A thread list that was checked against a threshold raised
meanwhile is still sent, and a moderator's right to read is the one found when the group was looked up; both
are in the model. The history's age limit is off by default and left out, and so is `HistoryLog::prune`,
which tests call.

*Limiter and pacing.* One address; time in units of the base back-off or in ticks. `MAX_BACKOFF` equals
`FAILURE_WINDOW`, so after a block of full length the address is forgotten and has its free failures again:
the instance keeps the two equal. A bucket's fractions of tokens are counted in parts.

*Wire.* Bytes have three values and integers one or two of them (`Width`), so that a string can be longer
than its length prefix can say; UTF-8 is one character of one byte and one of two. Encoder and decoder are
modelled as the two lists of steps they are. Frames carry a header cell by cell, cut anywhere.

*Client.* A frame names the call it belongs to, and no guard of the client reads that field. Connecting,
handshake, pins and reconnection by the application are left out. Transfers run on an authenticated
connection, all downloads ask for one remote file and one destination, and the server is consistent: what
`validate_geometry` refuses (a chunk size or bitmap that contradicts the file's size) does not occur, a
wrong size does. A file is its sequence of chunks, told apart by the version they are of. Verifying and
publishing are jobs that go step by step (`PoolWork`): open, trim, one chunk read and written, rename or
remove; and the actor hears of the result in a step of its own. A job of a transfer that was given up, or
whose connection was lost, is detached and goes on. It looks at its cancel flag only before it fills its
buffer (`HASH_BUF`), where a whole small file may fit, so it may stop at any chunk and need not
(`Breaks`). What a detached job only reads changes nothing and is dropped. A destination that somebody else
changes is not in the model.

SQLite, the file system and tokio are external: a statement or transaction is atomic, a channel keeps order,
a mutex excludes.

## 3. Runs

| Run | Instance | Shows |
|---|---|---|
| `uploads` | 2 connections of one account that may upload but not list, 3 uploads, 1 chunk, 3 names, 1 open upload allowed | In every interleaving of begin, resume, write, finish, release and drop, with an error or an edit of the tree anywhere, the live table is exactly what tasks hold (`HeldExact`, `NamesExact`, `AccountingExact`), eviction keeps the account within `RowCap + MaxUploadsPerAccount - 1` rows, and one more for every eviction that failed (`OpenUploadsBounded`), and no finish lands on a taken name |
| `recovery` | 1 connection, 2 uploads, 2 chunks; sweeper, an edit, a failing step or the death of the process | `StorageSound`: nobody loses what it holds, the recorded bitmap is true, a listed file has its bytes, an acknowledged one is there; and `FileShelf` is implemented, so the quarantine takes no listed blob |
| `restarts` | 1 upload, 2 power losses undoing up to 3 commits and 3 directory operations, fair | Startup ends, requests end, and a listed file whose whole bytes are in its blob or its partial file gets them where downloads read them |
| `sessions_fresh` | 1 login against 2 administrators with 2 requests, 2 accounts | `SignInsFresh`: whatever the order of write, kick, join and re-check, a serving session has the credential, ban state, address verdict and privileges the server has stored, or its disconnect is on the way |
| `sessions_end` | 2 logins for 1 place, 1 request, fair | Registry and roster follow the connections and the cap holds (`SessionsExact`), outdated sessions end, shutdown drains |
| `rooms` | 2 connections, lobby, 1 public and 2 private names, 3 requests besides leaving, 4 spawned rooms, `MAX_ROOMS` 2, 2 attempts per join, fair | Nobody is stranded in a closed room (`Findable`) or left behind in an open one, who counts itself in a room is, and rooms are bounded (`RoomsExact`); private rooms stay private, empty ones go, and `Gatherings` is implemented |
| `services` | one service at a time: 2 people, 4 requests, clock to 3, on 4 servers (two Admins; two delegates; an Admin and a moderator; two moderators); a tree of 3 nodes, 2 edits and an upload by a member and an administrator, depth 3; 2 members, 2 groups, 3 posts; 2 tasks with 4 history calls on a queue of 2; 2 connections with 3 usernames in 5 units of time; a gate of 2 requests and a bucket of 3 bytes over 4 ticks | An administrator always remains (`LastAdmin`), nothing is minted or taken over (`NoMinting`, `NoTakeover`), no lower rank undoes a higher rank's ban (`RankedBans`). The tree stays a tree and agrees with its table (`TreeSound`), a class gate or drop box covers everything below it, however it is reached (`GatesHold`); threads hang together (`ThreadsWhole`) and nobody but a moderator takes down another's words (`OwnWordsOnly`); the log is in the order of events and accounts for every one (`LogSound`, of `AuditOrdered` and `EventsAccounted`); guesses are bounded however attempts overlap (`GuessesBounded`); no moment gives more than burst and earnings (`Paced`) |
| `client` | 2 calls: every command before a list request, 9 pairs of a request, a chat line and a login, 9 pairs of invite, join and leave; a queue of 2 events, 2 owed answers (a third ends the connection) | A caller gets the answer to its own command (`AnswersOwn`), the tables of client and server agree (`NoViolation`), an invite reports its own room (`InviteFindsRoom`), every call ends (`CallsResolve`) |
| `protocol` | every kind of payload, written and damaged; 2 messages of 0 to 5 bytes in frames of 2, sequence numbers modulo 3; 2 transfers of either kind, a file of 1 chunk that is replaced by one of 2, one upset | Decoding is the inverse of encoding up to the clamps, takes nothing but what an encoder writes and never panics (`CodecSound`); the stream implements `MessageChannel` and delivers (`StreamIsChannel`, `EveryMessageArrives`); what is late never hits the next transfer (`LateIsHarmless`), success means one whole version, unless a job of an attempt given up was at work when the check began (`SuccessIsWhole`), transfers end (`TransfersEnd`) |
| `stale_roles`, `open_fails`, `late_list` | | the findings of section 4; each must be refuted |

**Bounds.** Uploads, requests, errors, edits, sweeps, crashes and ids are bounded by the constants named in
the modules' headers. `InBudget` (a state constraint of `uploads` and `recovery`) lets a behaviour have
three of: an upload, an error, an edit, a sweep, a crash - enough for two uploads and what goes wrong
between them; and no error together with a crash, because a repair that fails as well can lose a file
(section 4). Two connections are enough for every race on the live table, since each claim or release
involves one id and at most one other party; three uploads make an eviction race a begin. `PrivilegesFresh`,
a part of `SignInsFresh`, holds with two administrative requests and **fails with three** (finding 1): the
passing run says what two overlapping requests cannot do. The four servers of `services` are starting points
that differ in who acts; all requests are enumerated from there. In `rooms` three requests let a room be made,
evicted, made again and joined by the other connection while the first still leaves; leaving is not counted,
so every behaviour can empty its rooms.

A tree of three nodes under the root has a gate with a folder and a file below it; two edits make an alias
into it and use it, or move one folder while the other changes, and an upload is under way meanwhile. Three
posts are a thread with a reply to a reply. Four calls are enough for a queue of two to overflow while an
inline record waits for it. Five units of time take an address through its first block, a doubled one and
the capped one. Two calls are enough for every confusion of an answer with the next one, because the client
never looks past the head of what it is owed. In `protocol` two transfers and one upset (a cancel, a
deadline, a lost connection, a restart, a power loss) give every late message a next transfer to hit, and
every job left behind a next one beside it; the second version of the file has two chunks, so that it can be
half there, and the first has one, so that a job for it trims a partial of the second; three sequence
numbers wrap within one message.

Deadlock is not checked: with ids and requests bounded, every model may simply have nothing left to do.

**Fairness.** Weak fairness of what the runtime must go on polling: a task that does not wait for its
client, a room's or the presence actor's next command, the startup and a sweep that has begun, an
administrator's handler once it has begun, the cleanup task of a lost connection, and `AUTH_TIMEOUT` for a
login that gets nowhere. In the client: the branches of the actor's `select`, taking commands, handling
frames and stopping; on the server's side of the link its loop, until it stalls; then nothing but the
client's idle deadline helps. For transfers: each end's loop, and the background jobs that publish a
download or finish an upload; for the stream: bytes arrive and the codec looks at them. No fairness for
clients' requests, users, errors, crashes, timeouts of callers, or the start of a sweep. `MCProtocol` states
the fairness of its parts together: a part at rest enables nothing, so its fairness asks for nothing.

## 4. Where code and comments part

Three are shown by runs:

1. `stale_roles` (`auth/roles.rs:132`). The re-check after a login reads row and roles in two statements
   without the `mutations` lock. A user has a privilege from neither when its login takes the snapshot. One
   edit gives it through a role before the login joins, and its kick finds nobody. The re-check reads the
   row, still without it. A second edit writes the privilege into the row too, a third takes it from the
   role; neither changes what the account has in effect, so neither kicks. The re-check reads the roles,
   again without it. Row and roles as read equal the snapshot and the session is kept, without a privilege
   that its account has had since the first edit. Mirrored, with a row that revokes, a session keeps a
   privilege its account lost. The comment at `connection.rs:538` says that the re-read sees every change
   whose kick missed it.
2. `open_fails` (`kdx-client-core/src/actor.rs:2560`). When the partial file of a download cannot be created
   or opened after the server accepted, the transfer fails with `job.accepted` still false, so the server
   gets no abort and the id is not remembered as abandoned. The server streams to the end; its `TransferEnd`
   meets the next transfer, and if that waits for its accept, it fails with "server ended the transfer
   before accepting it", which the comment at `:2039` says cannot be.
3. `late_list` (`kdx-client-core/src/actor.rs:1561`). The client takes the first user list of a private room
   it does not count itself in for the room of its oldest invite. A list of a room it has just left, sent
   before the server saw it leave, is such a list: the invite returns the old room. `handle.rs:741` says that
   it returns the new room's id. The new room's own list then goes to the next invite, if there is one, so
   one late list can put a whole row of invites out of step.

The rest were met while modelling. Unless it says otherwise the models contain them, and the properties
state the weaker bound that is true:

* *Rename and its undo both fail* (`transfer/manager.rs:1266`). The entry is listed and its only bytes are
  in the `.part` file. The comment at `:904` leaves the rest to "the resume (or the next startup)", but the
  row ages like any other, and the periodic sweep, or an eviction, deletes row and file. A startup repair
  that fails, followed by the orphan sweep of partial files, has the same effect. The runs allow one failing
  step.
* *Unlocked ban* (`connection.rs:2393`). `AdminDisconnect` checks and writes a ban without the lock that
  `roles.rs:84` says is "held across check-then-write for every account/role/ban mutation": someone demoted
  in between still bans, at the old rank.
* `resume_upload` (`manager.rs:606`) reads the row before it claims the id, so a resume that overlaps the
  save of a dropped connection may miss its last chunks, which `:1807` means to exclude. They are sent
  again; nothing is lost.
* `make_room_for` (`:1228`) counts before the new row exists, so overlapping begins exceed
  `max_open_uploads_per_account` (`:169`) by up to the uploads an account may run at once, less one.
* the sweep (`:1252`) lists the stale rows once and does not look at their age again, so an upload resumed
  and released meanwhile is deleted although it was touched (`:505`).
* `create` (`chat/room_manager.rs:161`) compares the number of rooms with `MAX_ROOMS` before it locks the
  entry, so the total (capped, says `:3`) can be exceeded by the creations under way, less one.
* Beside finding 3, a list lost at a full outbound queue leaves an invite to its caller's timeout or gives it
  a later one's room. `InviteFindsRoom` says what is true: an invite returns its own room unless a list was
  lost, a private room was left, or a join of one was refused (`lost`, `Blurred`).
* Two joins of one room, the first refused and the second admitted, leave the room out of `known_rooms`
  although the server has the client in it.
* A login whose `AuthRequest` is too large to send drops its caller's reply, which then reads as
  "disconnected".
* *Jobs left behind by a download.* `fail_transfer` detaches the transfer's blocking job
  (`kdx-client-core/src/actor.rs:1880`), also when the connection ends, and `start_download` asks only whether
  a transfer is active. The job may still rename what is at the partial's path to the destination, without a
  look at the cancel flag or the hash, so bytes of the next attempt can get there before they are verified,
  which `transfer.rs:16` means to exclude; trim the next attempt's partial to the old size
  (`transfer.rs:462`); replace the destination with its own copy; or, writing in place, empty the
  destination (`:570`), write into it, and remove it when it sees the flag (`:579`). All this is in the model.
  And "ok" is told in a later step of the actor (`actor.rs:2693`) than the file reached its place. So success
  can be reported over a destination that is empty, torn or missing, contrary to `actor.rs:2692` ("The
  verified file has reached its destination") and `handle.rs:777`: without the exception in `SuccessIsWhole`
  TLC finds 26 states in which a publish is cancelled after it opened its source, the second attempt renames
  its verified file to the destination, the detached copy opens that in place and empties it, and the actor
  reports success. What is true is in `SuccessIsWhole`: success means one whole version, unless a job of an
  attempt given up before was at work when the check of this one began. The rename path, besides, does not
  sync the file first.
* The client remembers the last `MAX_ABANDONED` (16) ids it gave up (`actor.rs`, `send_abort`). If more are
  given up while the server still verifies a cancelled upload, the late End of that upload is taken for the
  refusal of the next request; with room for one id three transfers are enough. The run
  `protocol` has room for every id its two transfers can give up; the proofs allow the list to
  overflow, provided the id that falls off is over (`Remembers`, section 5).
* `AuthChallenge` writes its salt's length unclamped (`messages/auth.rs:136`), although `wire.rs:3` says
  that encoders clamp, and `AuthResult` takes any byte but 0 for success (`:193`).
* A file may land one level below `MAX_TREE_DEPTH` when its folder moved down during the upload
  (`files/tree.rs:14`).
* Creating or moving into a folder one may write but not read tells which names are taken.
* The count of dropped history events is raised after the send has failed, so it may wait unreported for the
  next message; a batch whose transaction fails loses the count it carried (`EventsAccounted` counts it as
  failed).

## 5. Proofs

The theorems hold for every value of the constants that satisfies the named assumptions (`ClaimConstants`,
`TransferConstants`, `MarksAreNoIds`, `RecoveryConstants`, `PolicyConstants`, `RoomConstants`,
`PresenceConstants`, `SessionConstants`, `FreeIsNoAdmin`, `PacingAssumption`, `ClientBounds`,
`ClientScripts`, `TreeConstants`, `FrameAssumption`, `CarryConstants`). These say what the constants are,
that limits are natural numbers, that there are finitely many connections, and four things the code
provides: the marks that stand for "no entry" are not ids (ids are UUIDs), the mark for "nobody" is not a
user, an account that does not exist holds no roles (a foreign key, `kdx-storage/src/db.rs:38` and
`migrations/0003_roles.sql:10`), and the file table a server starts with is one that edits may have left
(`SeedSound`; the fresh one holds the root alone).

**`TransferProofs`** (`TransferRecovery`)

* `OwnershipHolds`, and from it `TypeCorrect`, `OneHolderPerUpload` (`HeldExact`) and `OneUploadPerName`
  (`NamesExact`). `HeldExact` alone is not inductive: whether a release empties `Live::held` of the right id
  depends on which ids the task holds at that point of its code. `Ownership` adds this: `TaskShape` (before
  its claim a task holds nothing; from there its id; an extra id only while it deletes that one's state) and
  `SweepShape` (at which stages the sweeper holds what). One lemma per action; crashes reset all of it.
* `CountersNeverDrift` (`AccountingExact`): what a claim takes its drop gives back. The sum of the reserved
  bytes is a fold; it is shown to be the size of a set of units, by induction over the size of the set.
* `UploadKeepsItsState` (`OwnerKeepsState`), on `Keeping`: an id not handed out has no state, nothing is
  served during the startup repair, and what a task at each place has in database and disk stays there,
  because whoever deletes asks the live table first. `FinishTakesNoName` (`FilingRespectsNames`) follows
  from the ownership of names. `BitmapTellsTheTruth` (`BitmapSound`) holds as long as no power was lost.
* `StoredStaysStored` (`StorageSound`) and `UploadsKeepThePromise` (`ImplementsShelf`), on `ShelfInv`: bytes
  are in one place and have one entry; what is listed is whole, and in place or being put there (`Mending`:
  a task before its rename or its undo, or the startup repair with it still on its list). Both are about
  behaviours that stay `Mild`: no power loss, at most one error, and none together with a crash of the
  process. The premise is needed: the undo after a failed rename may fail too, and so may the startup
  repair, and then an entry has no bytes (section 4). For the refinement `FileShelf`'s `stored` and its
  acknowledgements are read off entries and blobs; every step is a step of the shelf or a stutter.
* `RowsNeverPileUp` (`OpenUploadsBounded`), on `RoomSound`, which keeps a ledger for each account. An adder
  is a task that has counted the account's rows and not yet written its own. For each, the ledger has `S`,
  the rows it counted, and `B`, the adders that had counted by then: `S` less what it still evicts leaves
  room under the cap, and every row outside `S` belongs to one of the account's at most
  `MaxUploadsPerAccount` uploads of that time that has left `B`. The last adder that found room (all up to
  it are in `D`) shows that the rows and the adders that may follow fit. The order of counting is in no
  variable of the model, so the ledger is quantified in the invariant. What a task holds where is
  `OwnershipHolds`; that an account has no more adders than slots is `CountersNeverDrift`. The states a
  power loss may bring back were reached, so they fit as well.

**`RoomProofs`** (`Rooms`)

* `RoomsTyped` and `NobodyStranded` (`Findable`). `Findable` says that a room with members is the one
  listed. The invariant `RoomInv` is about open rooms instead of rooms with members (`DirOK`: every open
  room is listed), because a room is open before anyone is in it. That a forgotten room is closed needs the
  meaning of an answer (`ReplyOf`: "closed" speaks of the room in hand), which needs that each answer goes
  to the one command a connection waits for (`InboxOK`, `OneAsk`); that the lobby stays open needs `TxOf`
  (nobody who asks a room to close works on the lobby).
* `RoomsAgree` (`RoomsExact`), `PrivateStaysPrivate` (`InvitedOnly`) and `RoomsAreGatherings`
  (`ImplementsGatherings`), on `PromiseInv`: membership and the connection's own list differ only by what is
  in a mailbox or about to be sent (`PresenceOK`), a room's name is not reused while somebody may still
  speak of it (`Unborn`), whoever is in or about to enter a private room was invited (`PrivacyOK`), and the
  number of rooms is bounded by those listed and the creations under way (`BoundOK`).
  What `Gatherings` promises, and no more: one gathering per name; in a step at most one connection comes in
  under a name; nobody who counts itself inside and is not lost drops out of those who hear what is said; a
  connection comes to count itself inside only where it is heard. It has no notion of a gathering that ends.

**`SessionProofs`** (`SessionAdmin`)

* `SessionsAgree` (`SessionsExact`), `ChangeEndsOthers` (`ChangeSignsOutOthers`), `FootingHolds`
  (`CredentialFresh`, `BanFresh`, `AddressFresh`) and `SignInsAreFresh` (all of `SignInsFresh`), on
  `SessionInv`. Its parts: who may have which command in the mailbox and where it then waits, and that a
  connection's Join is the first of its commands there (`MailOK`), so no Join is handled after the Leave of
  the same connection; where a connection is listed (`Listed`); that a login proved no newer password than
  the stored one (`Proven`); that after a change every older session has its signal, or the changer has yet
  to ask for it or the actor to answer (`SignsOut`); what a handler holds while it works (`Handling`: the
  lock, and the effective privileges as they were before its write). The effect of the many actions of a
  connection is classified first (`Moves`), of the actor's turn (`RosterTurn`) and of a handler (`Works`);
  then each part has one lemma per class. The two points on which the theorems turn: a command that reaches
  a session which is past its re-checks signals it, since that session is in the roster; and a handler that
  wrote goes on owing the kick until it has sent it.
* `SignInsAreFresh` assumes `OneKind`: administrators edit account rows or roles, not both. Without it the
  property is false (finding 1), and the two parts about privileges (`Empowered`) are exactly the ones that
  break: a re-check reads the row and the roles at two moments.

**`ServiceProofs`** (`AccountPolicy`, `Pacing`, `News`)

* `PolicyTyped` and `AlwaysAnAdministrator` (`LastAdmin`). The invariant adds, for each handler that passed
  its check, that it holds the lock, and that an update it may now write keeps an administrator. No write of
  another handler can come between, because each needs the lock; role and assignment changes cannot take a
  core privilege from an Admin, who has it by class.
* `BansAreRanked` (`RankedBans`), `PowerIsNotMinted` (`NoMinting`), `NoPuppets` (`NoTakeover`). The first
  compares ranks of banners: of the one on record, and of who writes, which for a new ban is the class its
  request was decided with (section 4, unlocked ban); the class of the banned person plays no part. The last
  two carry the premise of the properties (`Delegated`, section 2). The invariant `DelegateInv` says that
  delegates' own power never grew beyond what they started with, that nobody trusted is within their reach,
  and that what a handler has checked and not yet written would not change either.
* `NothingPassesFaster` (`Paced`): from any moment on, gates and the bandwidth bucket let through no more than
  the burst and what was earned since. `Paced` looks at one moment, the mark. The invariant adds what the
  bucket still owes (`BucketInv`): the charges granted before a time, summed over the transfers, keep below
  that time's earnings. The sum is the size of a set of units, as in `TransferProofs`.
* `ThreadsHangTogether` (`ThreadsWhole`) and `NobodySilencesOthers` (`OwnWordsOnly`), on `NewsInv`: a reply
  stands in its parent's group, an identifier is not given twice, and a handler that may moderate is a
  moderator's. `Beneath` is the least set of posts that holds the replies to its members, so what a cascade
  leaves has lost no parent. No step of another handler between the lookup and the statement matters: the
  statement itself decides again.

**`ClientProofs`** (`ClientCalls`)

* `AnswersPair`, and from it `NobodyElsesAnswer` (`AnswersOwn`) and `NeverAViolation` (`NoViolation`), for
  any scripts of calls, any number of owed answers and of queued events. The protocol has no request
  numbers, so the invariant has to say what it is that makes order enough. It is a ledger: every frame on
  its way down, then every packet on its way up, gets the number of the turn it belongs to (`Numbers`), and
  turn `k` is the `k`-th entry of `pending`. `DownFits` and `UpFits` say what a frame of a turn may be: a
  reply of the type that entry expects, to its call, which the server granted; an Error that names its call,
  which the server refused; the Pong of its barrier, once the server has judged the call before it
  (`Handled`). Beside the ledger: a call is in one place on its way (`TravelsOf`), entries and invites
  belong to calls of the right kind (`DebtsOf`, `InvitesOf`), a login has one frame under way (`LoginOf`),
  and what callers were told is what the server did (`AnswersOf`).
* There is one lemma for each thing that can happen to the ledger (a packet and its entry are added, a
  packet and its barrier, the server takes a packet and answers, or says something of its own, the client
  reads a frame and settles an entry or marks it), and one for each action of client and server on top.
  The tables of `ClientCommands` agree (`TablesAgree`): the server's answer to each request is of the type
  the client expects; with the two tables apart that is a proof over every command.

**`TreeProofs`** (`FileTree`)

* `TreeStaysATree` (`TreeSound`), on `TreeInv`: the nodes in memory are `Sound`, the child lists and the
  table are functions of them, and no number is used twice. The work is in what "hangs from the root" means.
  `ancestry` climbs from parent to parent; the proofs use `Above`, the least set that has the node and the
  parents of its members. `AncestryIs` shows that the climb, a recursive function, computes just that when
  the chain ends at the root, and that it refuses otherwise. With `Above` each kind of edit is a lemma about
  tables of nodes: one is planted, some go with all below them (`Pruned`), one is moved (`Moved`, where the
  depth below the node and the depth of the new folder add up as `CheckRoom` says).
* `GatesStayShut` (`GatesHold`). What keeps a user from a file is a folder above it. A read asks for all of
  them, and so does the class in the catalogue, which is their greatest. Who edits may read everything above
  the node he names; who deletes may read every folder below it that is not empty; and what stands between
  the node and a file below it moves along. Two nodes above a file are always one above the other
  (`ChainLinear`), so there is no third place for a gate to be.

**`ProtocolProofs`** (`FrameStream`)

* `StreamRefinesChannel` (`StreamIsChannel`): the stream implements `MessageChannel` for every cap, frame and
  header size, number of messages and modulus of the sequence numbers. The invariant is a ledger of the
  wire: for each message the place where it begins and the number its frames start from. `Spelled` says that
  the bytes not yet consumed are, at each place, those of the frame that belongs there (`Cell`), `Grouped`
  that the reassembler holds the frames before the current one. `WireIs` shows that what `fragment` and
  `encode` put on the wire is so spelled; it needs that all frames but the last are full (`Pieces`) and that
  flattening puts frames end to end. Numbers that wrap do no harm because the next one is computed from the
  last one on both sides (`NextRemainder`). Then a header parked is the current frame's, its payload is that
  frame's part of the message, and `push` of the last part yields the message sent (`PushIs`).
* `FaultsAreDeserved`: over a stream that keeps its bytes a connection never ends for `bad_magic`,
  `payload_too_large`, `out_of_order` or `interleaved`; it ends for another version only if the peer speaks
  one, for `too_large` only if the next message is over its cap.

**`CarryProofs`** (`ClientTransfers`)

* `LateTransfersHarmless` (`LateIsHarmless`) and `SuccessesAreWhole` (`SuccessIsWhole`), on `CarryInv`. Again
  the protocol has no request numbers, so the invariant matches in order: `Linked` gives every frame from
  the server, then every frame it has not read, the debt in `owes` it settles, or will with its answer. An
  Accept is thereby of the request at the head of `owes`, whether anybody still waits for it or not, and of
  its kind. Ids are the second part: an id is told of before it is ended (`IdsIn`), and of every id the
  server works on, or has ended, the client will hear or has heard: its accept is on its way, it is the
  running transfer's, or it is in `gaveUp` (`Expected`). So no End is left for a request that waits for its
  Accept. The third part is the client's own (`DeskInv`): which stage and which jobs go together. `ups`, the
  ids of uploads, and the kind of each job are in no variable; the invariant quantifies over them. There is
  one lemma for each thing that can happen to the link, one for each action of client and server on top.
* For a download `SuccessesAreWhole` needs a second invariant, over the files. A job whose check began while
  no other was at work stays the only one until its end is reported (`Lone`), because only the active
  transfer starts jobs. So it is known what it has read and written at each of its steps: while it checks,
  that the chunks read so far are of its version (`CheckAt`); once it publishes, that the source is one whole
  version, what it wrote so far is the beginning of it, and at the end that the destination is it
  (`PublishAt`). That its own copy does not overwrite its source needs `Apart`: the partial is neither the
  destination nor a file a job writes to. An upload's success is an End that the server says of an id it has
  filed (`Ledger`).
* Both theorems have two premises. `OpenMayFail = FALSE`: with it the first is false (finding of run
  `open_fails`). And `Remembers`, of every step: an id that
  falls off the full list `gaveUp` is over, that is, the server no longer works on it and no end for it is
  still on the way. That one is needed too: otherwise the End of a slow upload that was given up first is
  taken for the answer to the request that waits, and that request's Accept then finds nothing
  (section 4; TLC finds this with `MaxAbandoned = 1`, an upload and two downloads).

**Only model-checked.**

* Liveness, which is outside the prover's reach, like `ENABLED`: `RequestsEnd`, `FiledGetsBytes`,
  `StaleSessionsEnd`, `ShutdownDrains`, `EmptyRoomsGo`, `CallsResolve`, `EveryMessageArrives`,
  `TransfersEnd`.
* `CodecSound`, whose modules use recursive operators, which the prover does not take.
* `GuessesBounded`, which does not hold for every value of the constants: once `MAX_TRACKED` keys are
  tracked and none has expired, the limiter forgets new ones (`auth/limiter.rs`), and a block of
  `MAX_BACKOFF` must be as long as `FAILURE_WINDOW`.
* Not proved yet: `InviteFindsRoom`, `LogSound`.

## 6. Not modelled

Listener limits and the deny log, server settings, the tracker's registry, cryptography, migrations,
configuration and command line, connecting and TLS pins of the client core, the desktop client.
`PROJECT.json` gives the reason for each. Of modelled components: topics and texts, the age limit of the
history, CIDR matching, a late file write of a killed connection, legacy credential conversion.

## 7. Plan

Done: transfers; sessions and presence; account policy; chat rooms; file tree, news, history, limiter,
pacing; wire protocol; client calls and transfers. Left to model: listener limits and the deny log, first
match of IP rules, a late chunk write after a kill composed with `TransferClaims`.

Proofs, in this order: `InviteFindsRoom` on top of `ClientInv`; `LogSound`. Sums and other folds are within
reach: they are shown to be sizes of sets, by the least counterexample (`LeastNumber`). So are recursive
functions whose equation can be shown to have a solution (`Iterates`, `ClimbUnfolds`). `SelectSeq` is not,
the prover takes it for an unknown function; `ClientCalls` therefore picks the elements that stay by their
positions (`Picked`).
