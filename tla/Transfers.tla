----------------------------- MODULE Transfers -----------------------------
(***************************************************************************)
(* Uploads and downloads as the connection tasks of kdxd run them:         *)
(* transfer/manager.rs, transfer/download.rs, the upload side of           *)
(* files/tree.rs and the transfer packets of connection.rs.  One action is *)
(* the code between two awaits that another task can observe.              *)
(*                                                                         *)
(* An upload's durable state is a row of transfer_state plus the file      *)
(* <id>.part; finishing it files an entry in the tree, renames the file to *)
(* the blob <id> and deletes the row.  The sweeper, the startup repair,    *)
(* crashes and the users who edit the tree are in TransferRecovery.        *)
(***************************************************************************)
EXTENDS TransferClaims, Sequences

CONSTANTS
  Conns,          \* connections; each runs one upload and one download
  AccountOf,      \* the account a connection is logged in as
  BlindAccounts,  \* accounts that may upload to the folder but not list it
  Chunks,         \* chunks of a file
  MaxOpen,        \* max_open_uploads_per_account
  MaxFaults,      \* bound: I/O or database errors
  MaxRollback     \* bound: unsynced commits / directory operations a power
                  \* loss can undo (0 when no power loss is modelled)

ASSUME TransferConstants ==
  /\ AccountOf \in [Conns -> Accounts]
  /\ BlindAccounts \subseteq Accounts
  /\ IsFiniteSet(Conns) /\ IsFiniteSet(Chunks) /\ IsFiniteSet(Uploads)
  /\ {MaxOpen, MaxFaults, MaxRollback} \subseteq Nat

VARIABLES
  \* the database (SQLite, WAL, synchronous=NORMAL)
  row,      \* transfer_state: the row of an upload, or NoRow
  entry,    \* the folder: what a name is an entry of
  away,     \* uploads whose entry was moved to another folder
  past,     \* database states a power loss can roll back to
  \* files_root
  parts,    \* ids with a file <id>.part
  blobs,    \* ids with a file <id>
  quar,     \* .orphaned/: "no", "fresh" or "aged" past the retention
  data,     \* bytes of an upload's file, per chunk
  synced,   \* ids whose bytes were fsynced (hash_file)
  fsPast,   \* directory states a power loss can roll back to
  \* the process: the live table and each connection's upload and download
  live, pc, tid, name, bits, dirty, claim, hold, victims, need,
  dl,
  serving,  \* connections are being accepted (startup is over)
  faults,   \* errors so far
  used,     \* ids handed out so far
  acked,    \* uploads whose client was sent TRANSFER_VERIFIED
  removed   \* uploads whose entry a user deleted

dbVars  == <<row, entry, away, past>>
fsVars  == <<parts, blobs, quar, data, synced, fsPast>>
upVars  == <<pc, tid, name, bits, dirty, claim, hold, victims, need>>
envVars == <<serving, used, acked, removed>>

---------------------------------------------------------------------------
(* Values.                                                                 *)

NoRow   == [acct |-> "none"]
NoClaim == [dest |-> NoName, bytes |-> 0, on |-> FALSE]
NoId    == "noid"
Free    == "free"     \* a name with no entry
Other   == "other"    \* an entry that is not an upload (folder, alias)
NoDl    == "none"

(* Ids are UUIDs: none is one of these marks.                              *)
ASSUME MarksAreNoIds == Uploads \cap {NoId, Free, Other, NoDl} = {}

Rows    == [acct : Accounts, name : Names, bits : SUBSET Chunks,
            old : BOOLEAN]
Claims  == [dest : Names \cup {NoName}, bytes : Nat, on : BOOLEAN]
Bytes   == {"hole", "good", "bad"}
Labels  ==
  {"idle", "prepared", "room", "evict", "evictPart", "mkpart", "mkrow",
   "rfind", "rprep", "rrefused", "rclaim", "rfiled", "ropen",
   "live", "saving", "verify", "hash", "file", "rename", "undo", "delrow",
   "dropRow", "dropPart"}

RowTable   == [Uploads -> Rows \cup {NoRow}]
EntryTable == [Names -> Uploads \cup {Free, Other}]
QuarTable  == [Uploads -> {"no", "fresh", "aged"}]
DbStates   == RowTable \X EntryTable \X (SUBSET Uploads)
DirStates  == (SUBSET Uploads) \X (SUBSET Uploads) \X QuarTable

HasRow(u)     == row[u] # NoRow
Holes         == [k \in Chunks |-> "hole"]
Filed(u)      == \E n \in Names : entry[n] = u
Referenced(u) == Filed(u) \/ u \in away
Intact(u)     == \A k \in Chunks : data[u][k] = "good"
Taken         == {n \in Names : entry[n] # Free}
Acct(c)       == AccountOf[c]

(* UploadDest::blind.  An upload resumed as already filed has no           *)
(* destination claim and is not blind.                                     *)
Blind(c) == Acct(c) \in BlindAccounts

---------------------------------------------------------------------------
(* Steps on durable state.                                                 *)

(* The states a power loss may bring back after leaving state s for t.     *)
Recent(old, s, t) ==
  LET all == IF s = t THEN old ELSE Append(old, s)
  IN  IF Len(all) > MaxRollback THEN Tail(all) ELSE all

(* One committed transaction.  WAL with synchronous=NORMAL: a power loss   *)
(* may roll back the last few.                                             *)
Commit(r, e, w) ==
  /\ row' = r /\ entry' = e /\ away' = w
  /\ past' = Recent(past, <<row, entry, away>>, <<r, e, w>>)

(* A directory operation, not durable yet.                                 *)
Dir(p, b, q) ==
  /\ parts' = p /\ blobs' = b /\ quar' = q
  /\ fsPast' = Recent(fsPast, <<parts, blobs, quar>>, <<p, b, q>>)

(* sync_dir makes the directory operations so far durable on Unix, does    *)
(* nothing elsewhere, and only logs a failure.                             *)
SyncDir(old) == fsPast' \in {<<>>, old}

DeleteRow(u) == [row EXCEPT ![u] = NoRow]

(* update_bitmap: an UPDATE, so nothing happens when the row is gone.      *)
SaveBits(u, bs) ==
  [row EXCEPT ![u] = IF @ = NoRow THEN @
                     ELSE [@ EXCEPT !.bits = bs, !.old = FALSE]]

Goto(c, l) == pc' = [pc EXCEPT ![c] = l]

NoFault  == UNCHANGED faults
AFault   == faults < MaxFaults /\ faults' = faults + 1

(* The end of a task's work on an upload: its claim and hold are dropped.  *)
Leave(c) ==
  /\ live' = Unhold(IF claim[c].on
                    THEN ReleaseUpload(live, Acct(c), tid[c],
                                       claim[c].dest, claim[c].bytes)
                    ELSE live, hold[c])
  /\ claim' = [claim EXCEPT ![c] = NoClaim]
  /\ hold'  = [hold EXCEPT ![c] = {}]
  /\ tid'   = [tid EXCEPT ![c] = NoId]
  /\ name'  = [name EXCEPT ![c] = NoName]
  /\ bits'  = [bits EXCEPT ![c] = {}]
  /\ dirty' = [dirty EXCEPT ![c] = FALSE]
  /\ victims' = [victims EXCEPT ![c] = {}]
  /\ need'  = [need EXCEPT ![c] = 0]
  /\ Goto(c, "idle")

(* Drop for ActiveUpload: progress not saved yet is saved by a background  *)
(* task, which keeps the claim until then.                                 *)
LetGo(c) ==
  IF dirty[c]
  THEN /\ Goto(c, "saving")
       /\ UNCHANGED <<tid, name, bits, dirty, claim, hold, victims, need,
                      live>>
  ELSE Leave(c)

TakeClaim(c, u, n, b) ==
  /\ CanClaimUpload(live, Acct(c), u, n, b)
  /\ live'  = ClaimUpload(live, Acct(c), u, n, b)
  /\ claim' = [claim EXCEPT ![c] = [dest |-> n, bytes |-> b, on |-> TRUE]]

(* claim_into: an exact name, or under the tree's read lock the first      *)
(* variant that neither an entry nor another upload has.                   *)
ClaimInto(c, u, b) ==
  LET taken == Taken \cup live.names
      n     == IF Blind(c) THEN FreeName(name[c], taken) ELSE name[c]
  IN  /\ Blind(c) => FreeNames(name[c], taken) # {}
      /\ TakeClaim(c, u, n, b)
      /\ name' = [name EXCEPT ![c] = n]

---------------------------------------------------------------------------
(* begin_upload, a fresh upload.                                           *)

Prepare(c) ==                                   \* prepare_upload
  /\ serving /\ pc[c] = "idle"
  /\ \E n \in Names :
       /\ Blind(c) \/ entry[n] = Free
       /\ name' = [name EXCEPT ![c] = n]
  /\ Goto(c, "prepared")
  /\ UNCHANGED <<tid, bits, dirty, claim, hold, victims, need, live>>
  /\ UNCHANGED <<dbVars, fsVars, envVars, dl, faults>>

Claim(c) ==
  /\ pc[c] = "prepared"
  /\ \E u \in Uploads \ used :
       /\ ClaimInto(c, u, Cardinality(Chunks))
       /\ tid'  = [tid EXCEPT ![c] = u]
       /\ used' = used \cup {u}
  /\ Goto(c, "room")
  /\ UNCHANGED <<bits, dirty, hold, victims, need>>
  /\ UNCHANGED <<dbVars, fsVars, serving, acked, removed, dl, faults>>

(* A cap, a reserved name, or too little space on the volume.              *)
ClaimRefused(c) ==
  /\ pc[c] \in {"prepared", "rclaim", "rfiled"}
  /\ Leave(c)
  /\ UNCHANGED <<dbVars, fsVars, envVars, dl, faults>>

MyRows(a) == {u \in Uploads : HasRow(u) /\ row[u].acct = a}
RowCap == IF MaxOpen = 0 THEN 1 ELSE MaxOpen

(* Mutant: the upload that is to come is not counted.                      *)
Excess_OldOnly(a) == SatSub(Cardinality(MyRows(a)), RowCap)

Excess(a) == SatSub(Cardinality(MyRows(a)) + 1, RowCap)

ListOpen(c) ==                                  \* make_room_for
  /\ pc[c] = "room"
  /\ \/ /\ NoFault
        /\ victims' = [victims EXCEPT ![c] = MyRows(Acct(c))]
        /\ need' = [need EXCEPT ![c] = Excess(Acct(c))]
        /\ Goto(c, "evict")
        /\ UNCHANGED <<tid, name, bits, dirty, claim, hold, live>>
     \/ AFault /\ Leave(c)
  /\ UNCHANGED <<dbVars, fsVars, envVars, dl>>

EvictSkip(c) ==                                 \* live on some connection
  /\ pc[c] = "evict" /\ need[c] > 0
  /\ \E v \in victims[c] \cap live.held :
       victims' = [victims EXCEPT ![c] = @ \ {v}]
  /\ UNCHANGED <<pc, tid, name, bits, dirty, claim, hold, need, live>>
  /\ UNCHANGED <<dbVars, fsVars, envVars, dl, faults>>

Evict(c) ==
  /\ pc[c] = "evict" /\ need[c] > 0
  /\ \E v \in victims[c] \ live.held :
       /\ live' = Hold(live, {v})
       /\ hold' = [hold EXCEPT ![c] = {v}]
       /\ \/ Commit(DeleteRow(v), entry, away) /\ NoFault
          \/ AFault /\ UNCHANGED dbVars
       /\ victims' = [victims EXCEPT ![c] = @ \ {v}]
  /\ Goto(c, "evictPart")
  /\ UNCHANGED <<tid, name, bits, dirty, claim, need>>
  /\ UNCHANGED <<fsVars, envVars, dl>>

EvictPart(c) ==
  /\ pc[c] = "evictPart"
  /\ Dir(parts \ hold[c], blobs, quar)
  /\ live' = Unhold(live, hold[c])
  /\ hold' = [hold EXCEPT ![c] = {}]
  /\ need' = [need EXCEPT ![c] = @ - 1]
  /\ Goto(c, "evict")
  /\ UNCHANGED <<tid, name, bits, dirty, claim, victims, data, synced>>
  /\ UNCHANGED <<dbVars, envVars, dl, faults>>

EvictFailed(c) ==                               \* TooManyTransfers
  /\ pc[c] = "evict" /\ need[c] > 0 /\ victims[c] = {}
  /\ Leave(c)
  /\ UNCHANGED <<dbVars, fsVars, envVars, dl, faults>>

RoomMade(c) ==
  /\ pc[c] = "evict" /\ need[c] = 0
  /\ victims' = [victims EXCEPT ![c] = {}]
  /\ Goto(c, "mkpart")
  /\ UNCHANGED <<tid, name, bits, dirty, claim, hold, need, live>>
  /\ UNCHANGED <<dbVars, fsVars, envVars, dl, faults>>

MkPart(c) ==                                    \* create_part
  /\ pc[c] = "mkpart"
  /\ \/ /\ NoFault
        /\ Dir(parts \cup {tid[c]}, blobs, quar)
        /\ data' = [data EXCEPT ![tid[c]] = Holes]
        /\ Goto(c, "mkrow")
        /\ UNCHANGED <<tid, name, bits, dirty, claim, hold, victims, need,
                       live, synced>>
     \/ AFault /\ Leave(c) /\ UNCHANGED fsVars
  /\ UNCHANGED <<dbVars, envVars, dl>>

MkRow(c) ==                                     \* transfer_state::create
  /\ pc[c] = "mkrow"
  /\ \/ /\ NoFault
        /\ Commit([row EXCEPT ![tid[c]] = [acct |-> Acct(c),
                     name |-> name[c], bits |-> {}, old |-> FALSE]],
                  entry, away)
        /\ Goto(c, IF Chunks = {} THEN "verify" ELSE "live")
        /\ UNCHANGED <<tid, name, bits, dirty, claim, hold, victims, need,
                       live, fsVars>>
     \/ /\ AFault
        /\ Dir(parts \ {tid[c]}, blobs, quar)
        /\ Leave(c)
        /\ UNCHANGED <<dbVars, data, synced>>
  /\ UNCHANGED <<envVars, dl>>

---------------------------------------------------------------------------
(* resume_upload.  The row is read before the id is claimed.               *)

Resume(c) ==                                    \* transfer_state::get
  /\ serving /\ pc[c] = "idle"
  /\ \E u \in MyRows(Acct(c)) :
       /\ tid'  = [tid EXCEPT ![c] = u]
       /\ name' = [name EXCEPT ![c] = row[u].name]
       /\ bits' = [bits EXCEPT ![c] = row[u].bits]
  /\ Goto(c, "rfind")
  /\ UNCHANGED <<dirty, claim, hold, victims, need, live>>
  /\ UNCHANGED <<dbVars, fsVars, envVars, dl, faults>>

ResumeFind(c) ==                                \* find_child
  /\ pc[c] = "rfind"
  /\ Goto(c, IF Filed(tid[c]) THEN "rfiled" ELSE "rprep")
  /\ UNCHANGED <<tid, name, bits, dirty, claim, hold, victims, need, live>>
  /\ UNCHANGED <<dbVars, fsVars, envVars, dl, faults>>

(* prepare_upload_into.  Apart from a taken name it fails when the folder  *)
(* is gone or the account lost access to it, which other requests decide.  *)
ResumePrepare(c) ==
  /\ pc[c] = "rprep"
  /\ \/ Goto(c, "rrefused")
     \/ Goto(c, "rclaim") /\ (Blind(c) \/ entry[name[c]] = Free)
  /\ UNCHANGED <<tid, name, bits, dirty, claim, hold, victims, need, live>>
  /\ UNCHANGED <<dbVars, fsVars, envVars, dl, faults>>

(* A refused resume is discarded, unless another connection has it.        *)
ResumeRefused(c) ==
  /\ pc[c] = "rrefused"
  /\ \/ /\ tid[c] \in live.held
        /\ Leave(c)
     \/ /\ tid[c] \notin live.held
        /\ live' = Hold(live, {tid[c]})
        /\ hold' = [hold EXCEPT ![c] = {tid[c]}]
        /\ Goto(c, "dropRow")
        /\ UNCHANGED <<tid, name, bits, dirty, claim, victims, need>>
  /\ UNCHANGED <<dbVars, fsVars, envVars, dl, faults>>

Remaining(c) == Cardinality(Chunks \ bits[c])

ResumeClaim(c) ==
  /\ \/ /\ pc[c] = "rclaim"
        /\ ClaimInto(c, tid[c], Remaining(c))
     \/ /\ pc[c] = "rfiled"                     \* Destination::Filed
        /\ TakeClaim(c, tid[c], NoName, Remaining(c))
        /\ UNCHANGED name
  /\ Goto(c, "ropen")
  /\ UNCHANGED <<tid, bits, dirty, hold, victims, need>>
  /\ UNCHANGED <<dbVars, fsVars, envVars, dl, faults>>

(* set_name, open_part, touch.  An unusable partial file is discarded.     *)
ResumeOpen(c) ==
  LET u == tid[c] IN
  /\ pc[c] = "ropen"
  /\ \/ /\ u \in parts /\ NoFault
        /\ Commit([row EXCEPT ![u] = IF @ = NoRow THEN @
                     ELSE [@ EXCEPT !.name = name[c], !.old = FALSE]],
                  entry, away)
        /\ Goto(c, IF bits[c] = Chunks THEN "verify" ELSE "live")
     \/ /\ u \in parts /\ AFault                 \* set_name or touch failed
        /\ Goto(c, IF bits[c] = Chunks THEN "verify" ELSE "live")
        /\ UNCHANGED dbVars
     \/ /\ IF u \in parts THEN AFault ELSE NoFault
        /\ Goto(c, "dropRow") /\ UNCHANGED dbVars
  /\ UNCHANGED <<tid, name, bits, dirty, claim, hold, victims, need, live>>
  /\ UNCHANGED <<fsVars, envVars, dl>>

---------------------------------------------------------------------------
(* Chunks, release and drop.                                               *)

(* write_chunk.  The client's bytes match the chunk hash it sent, but may  *)
(* not be those of the file it announced ("bad").  The bitmap is saved     *)
(* when a batch is due, never on the last chunk.                           *)
WriteChunk(c) ==
  LET u == tid[c] IN
  /\ pc[c] = "live"
  /\ \E k \in Chunks \ bits[c], b \in {"good", "bad"} :
       LET bs == bits[c] \cup {k} IN
       /\ data'  = [data EXCEPT ![u][k] = b]
       /\ bits'  = [bits EXCEPT ![c] = bs]
       /\ Goto(c, IF bs = Chunks THEN "verify" ELSE "live")
       /\ \/ /\ dirty' = [dirty EXCEPT ![c] = TRUE]
             /\ UNCHANGED dbVars
          \/ /\ bs # Chunks
             /\ dirty' = [dirty EXCEPT ![c] = FALSE]
             /\ Commit(SaveBits(u, bs), entry, away)
  /\ synced' = synced \ {u}
  /\ UNCHANGED <<tid, name, claim, hold, victims, need, live>>
  /\ UNCHANGED <<parts, blobs, quar, fsPast, envVars, dl, faults>>

(* release: the client ended the upload, or a chunk could not be stored.   *)
Release(c) ==
  /\ pc[c] = "live"
  /\ \/ dirty[c] /\ NoFault /\ Commit(SaveBits(tid[c], bits[c]), entry, away)
     \/ dirty[c] /\ AFault /\ UNCHANGED dbVars
     \/ ~dirty[c] /\ NoFault /\ UNCHANGED dbVars
  /\ Leave(c)
  /\ UNCHANGED <<fsVars, envVars, dl>>

(* Drop for ActiveUpload: the connection went away.                        *)
Disconnect(c) ==
  /\ pc[c] = "live"
  /\ LetGo(c)
  /\ UNCHANGED <<dbVars, fsVars, envVars, dl, faults>>

SaveThenLeave(c) ==
  /\ pc[c] = "saving"
  /\ \/ NoFault /\ Commit(SaveBits(tid[c], bits[c]), entry, away)
     \/ AFault /\ UNCHANGED dbVars
  /\ Leave(c)
  /\ UNCHANGED <<fsVars, envVars, dl>>

---------------------------------------------------------------------------
(* finish, on a task of its own that no disconnect interrupts.             *)

(* Save the bitmap; failing to is only logged.                             *)
Verify(c) ==
  /\ pc[c] = "verify"
  /\ \/ /\ dirty[c] /\ NoFault
        /\ Commit(SaveBits(tid[c], bits[c]), entry, away)
        /\ dirty' = [dirty EXCEPT ![c] = FALSE]
     \/ /\ IF dirty[c] THEN AFault ELSE NoFault
        /\ UNCHANGED <<dbVars, dirty>>
  /\ Goto(c, "hash")
  /\ UNCHANGED <<tid, name, bits, claim, hold, victims, need, live>>
  /\ UNCHANGED <<fsVars, envVars, dl>>

(* Mutant: a mismatch is tried again.                                      *)
HashFile_Retries(c) ==
  /\ pc[c] = "hash" /\ NoFault
  /\ synced' = synced \cup {tid[c]} /\ fsPast' = <<>>
  /\ Goto(c, IF Intact(tid[c]) THEN "file" ELSE "verify")
  /\ UNCHANGED <<tid, name, bits, dirty, claim, hold, victims, need, live>>
  /\ UNCHANGED <<parts, blobs, quar, data, dbVars, envVars, dl>>

(* hash_file syncs the bytes, and with them (on a journalling file system) *)
(* the directory operations so far; then compares the file's hash.         *)
HashFile(c) ==
  /\ pc[c] = "hash"
  /\ \/ /\ NoFault
        /\ synced' = synced \cup {tid[c]} /\ fsPast' = <<>>
        /\ Goto(c, IF Intact(tid[c]) THEN "file" ELSE "dropRow")
     \/ /\ AFault
        /\ Goto(c, "dropRow") /\ UNCHANGED <<synced, fsPast>>
  /\ UNCHANGED <<tid, name, bits, dirty, claim, hold, victims, need, live>>
  /\ UNCHANGED <<parts, blobs, quar, data, dbVars, envVars, dl>>

(* add_file or add_file_renaming, under the tree's write lock.             *)
FileAs(c, n) ==
  /\ Commit(row, [entry EXCEPT ![n] = tid[c]], away)
  /\ Goto(c, "rename")

(* Mutant: a renamed file may land on a name another upload has claimed.   *)
File_IgnoresClaims(c) ==
  /\ pc[c] = "file" /\ NoFault /\ ~Filed(tid[c])
  /\ FreeNames(name[c], Taken) # {}
  /\ FileAs(c, FreeName(name[c], Taken))
  /\ UNCHANGED <<tid, name, bits, dirty, claim, hold, victims, need, live>>
  /\ UNCHANGED <<fsVars, envVars, dl>>

File(c) ==
  LET taken == Taken \cup live.names
      blind == Blind(c) /\ claim[c].dest # NoName
  IN
  /\ pc[c] = "file" /\ NoFault
  /\ \/ /\ Filed(tid[c])                        \* by an interrupted finish
        /\ Goto(c, "rename") /\ UNCHANGED dbVars
     \/ /\ ~Filed(tid[c]) /\ entry[name[c]] = Free
        /\ FileAs(c, name[c])
     \/ /\ ~Filed(tid[c]) /\ entry[name[c]] # Free /\ blind
        /\ FreeNames(name[c], taken) # {}
        /\ FileAs(c, FreeName(name[c], taken))
     \/ /\ ~Filed(tid[c])                       \* Exists, NotFound
        /\ entry[name[c]] # Free
        /\ ~blind \/ FreeNames(name[c], taken) = {}
        /\ Goto(c, "dropRow") /\ UNCHANGED dbVars
  /\ UNCHANGED <<tid, name, bits, dirty, claim, hold, victims, need, live>>
  /\ UNCHANGED <<fsVars, envVars, dl>>

(* The database is busy: the verified upload stays resumable.              *)
FileLater(c) ==
  /\ pc[c] = "file" /\ ~Filed(tid[c])
  /\ AFault /\ LetGo(c)
  /\ UNCHANGED <<dbVars, fsVars, envVars, dl>>

(* rename <id>.part <id>, then sync_dir.                                   *)
Rename(c) ==
  LET u == tid[c] IN
  /\ pc[c] = "rename"
  /\ \/ /\ u \in parts /\ NoFault
        /\ Dir(parts \ {u}, blobs \cup {u}, quar)
        /\ Goto(c, "delrow")
     \/ /\ u \notin parts /\ NoFault
        /\ Goto(c, "undo") /\ UNCHANGED <<parts, blobs, quar, fsPast>>
     \/ /\ AFault
        /\ Goto(c, "undo") /\ UNCHANGED <<parts, blobs, quar, fsPast>>
  /\ UNCHANGED <<tid, name, bits, dirty, claim, hold, victims, need, live>>
  /\ UNCHANGED <<dbVars, data, synced, envVars, dl>>

(* remove_file_node: withdraw the entry, wherever it is by now.            *)
Undo(c) ==
  LET u == tid[c] IN
  /\ pc[c] = "undo"
  /\ \/ /\ NoFault
        /\ Commit(row, [n \in Names |-> IF entry[n] = u THEN Free
                                        ELSE entry[n]], away \ {u})
     \/ AFault /\ UNCHANGED dbVars
  /\ LetGo(c)
  /\ UNCHANGED <<fsVars, envVars, dl>>

(* sync_dir, transfer_state::delete, then TransferEnd(TRANSFER_VERIFIED).  *)
Finished(c) ==
  /\ pc[c] = "delrow"
  /\ SyncDir(fsPast)
  /\ \/ NoFault /\ Commit(DeleteRow(tid[c]), entry, away)
     \/ AFault /\ UNCHANGED dbVars
  /\ acked' = acked \cup {tid[c]}
  /\ LetGo(c)
  /\ UNCHANGED <<parts, blobs, quar, data, synced>>
  /\ UNCHANGED <<serving, used, removed, dl>>

(* discard: delete the row, then the partial file; the id is held.         *)
DropRow(c) ==
  /\ pc[c] = "dropRow"
  /\ \/ NoFault /\ Commit(DeleteRow(tid[c]), entry, away)
     \/ AFault /\ UNCHANGED dbVars
  /\ Goto(c, "dropPart")
  /\ UNCHANGED <<tid, name, bits, dirty, claim, hold, victims, need, live>>
  /\ UNCHANGED <<fsVars, envVars, dl>>

DropPart(c) ==
  /\ pc[c] = "dropPart"
  /\ Dir(parts \ {tid[c]}, blobs, quar)
  /\ Leave(c)
  /\ UNCHANGED <<data, synced, dbVars, envVars, dl, faults>>

---------------------------------------------------------------------------
(* begin_download, next_chunk and the end of a download.                   *)

OpenForRead(c) ==                               \* and claim_download
  /\ serving /\ dl[c] = NoDl
  /\ \E n \in Names :
       /\ entry[n] \in Uploads /\ ~Blind(c)
       /\ dl' = [dl EXCEPT ![c] = entry[n]]
  /\ CanClaimDownload(live, Acct(c))
  /\ live' = ClaimDownload(live, Acct(c))
  /\ UNCHANGED <<upVars, dbVars, fsVars, envVars, faults>>

(* The stream ends: opened and read to its end, cancelled, its connection  *)
(* gone, or its bytes could not be opened.                                 *)
EndDownload(c) ==
  /\ dl[c] # NoDl
  /\ dl' = [dl EXCEPT ![c] = NoDl]
  /\ live' = ReleaseDownload(live, Acct(c))
  /\ UNCHANGED <<upVars, dbVars, fsVars, envVars, faults>>

---------------------------------------------------------------------------
Init ==
  /\ row = [u \in Uploads |-> NoRow]
  /\ entry = [n \in Names |-> Free]
  /\ away = {} /\ past = <<>>
  /\ parts = {} /\ blobs = {} /\ fsPast = <<>>
  /\ quar = [u \in Uploads |-> "no"]
  /\ data = [u \in Uploads |-> Holes]
  /\ synced = {}
  /\ live = EmptyLive
  /\ pc = [c \in Conns |-> "idle"]
  /\ tid = [c \in Conns |-> NoId]
  /\ name = [c \in Conns |-> NoName]
  /\ bits = [c \in Conns |-> {}]
  /\ dirty = [c \in Conns |-> FALSE]
  /\ claim = [c \in Conns |-> NoClaim]
  /\ hold = [c \in Conns |-> {}]
  /\ victims = [c \in Conns |-> {}]
  /\ need = [c \in Conns |-> 0]
  /\ dl = [c \in Conns |-> NoDl]
  /\ serving = TRUE
  /\ faults = 0
  /\ used = {} /\ acked = {} /\ removed = {}

(* What a connection does of its own accord, and what it goes on to do     *)
(* without waiting for a client.                                           *)
Request(c) ==
  \/ Prepare(c) \/ Resume(c) \/ WriteChunk(c) \/ Release(c) \/ Disconnect(c)
  \/ OpenForRead(c) \/ EndDownload(c)

Handle(c) ==
  \/ Claim(c) \/ ClaimRefused(c) \/ ListOpen(c) \/ EvictSkip(c) \/ Evict(c)
  \/ EvictPart(c) \/ EvictFailed(c) \/ RoomMade(c) \/ MkPart(c) \/ MkRow(c)
  \/ ResumeFind(c) \/ ResumePrepare(c) \/ ResumeRefused(c) \/ ResumeClaim(c)
  \/ ResumeOpen(c) \/ SaveThenLeave(c) \/ Verify(c) \/ HashFile(c) \/ File(c)
  \/ FileLater(c) \/ Rename(c) \/ Undo(c) \/ Finished(c) \/ DropRow(c)
  \/ DropPart(c)

============================================================================
