-------------------------- MODULE TransferRecovery --------------------------
(***************************************************************************)
(* The rest of the world the uploads of Transfers live in: the users who   *)
(* edit the tree, time, the sweeper (at startup and every ten minutes),    *)
(* the startup repair, the quarantine of orphaned blobs, and crashes.      *)
(***************************************************************************)
EXTENDS Transfers, FiniteSetsExt

CONSTANTS
  MaxCrashes,      \* bound: crashes of the process
  MaxPowerLosses,  \* bound: power losses
  MaxEdits,        \* bound: requests that edit the tree
  MaxSweeps        \* bound: periodic sweeps

ASSUME RecoveryConstants ==
  {MaxCrashes, MaxPowerLosses, MaxEdits, MaxSweeps} \subseteq Nat

VARIABLES
  spc,        \* where the sweeper or the startup is
  todo,       \* ids it has yet to look at
  shold,      \* ids it holds
  unlinking,  \* blobs a delete request has yet to unlink
  crashes, losses, edits, sweeps   \* how many so far

sweepVars == <<spc, todo, shold>>
counts    == <<crashes, losses, edits, sweeps>>
vars == <<dbVars, fsVars, upVars, envVars, live, dl, faults, sweepVars,
          unlinking, counts>>

Stages == {"off", "repair", "repairParts", "stale", "stalePart", "orphan",
           "list", "held", "moving", "purge"}

---------------------------------------------------------------------------
(* Users editing the tree, each request under its write lock.              *)

AnEdit ==
  /\ edits < MaxEdits /\ edits' = edits + 1
  /\ UNCHANGED <<crashes, losses, sweeps>>

(* FileTree::delete: commit, release the lock, then unlink the blobs.      *)
Deleted(u, e, w) ==
  /\ Commit(row, e, w)
  /\ removed' = removed \cup {u}
  /\ unlinking' = unlinking \cup {u}

DeleteEntry ==
  /\ serving /\ AnEdit
  /\ \/ \E n \in Names : /\ entry[n] \in Uploads
                         /\ Deleted(entry[n], [entry EXCEPT ![n] = Free], away)
     \/ \E u \in away : Deleted(u, entry, away \ {u})
  /\ UNCHANGED <<fsVars, upVars, serving, used, acked, live, dl, faults,
                 sweepVars>>

Unlink ==
  /\ \E u \in unlinking : /\ Dir(parts, blobs \ {u}, quar)
                          /\ unlinking' = unlinking \ {u}
  /\ UNCHANGED <<data, synced, dbVars, upVars, envVars, live, dl, faults,
                 sweepVars, counts>>

(* move_node out of the folder; create_folder or create_alias in it, and   *)
(* the deletion of such an entry.                                          *)
EditFolder ==
  /\ serving /\ AnEdit
  /\ \E n \in Names :
       \/ /\ entry[n] \in Uploads
          /\ Commit(row, [entry EXCEPT ![n] = Free], away \cup {entry[n]})
       \/ entry[n] = Free /\ Commit(row, [entry EXCEPT ![n] = Other], away)
       \/ entry[n] = Other /\ Commit(row, [entry EXCEPT ![n] = Free], away)
  /\ UNCHANGED <<fsVars, upVars, envVars, live, dl, faults, sweepVars,
                 unlinking>>

(* stale_after or orphan_retention passes.                                 *)
Age ==
  /\ \E u \in Uploads :
       \/ /\ HasRow(u) /\ ~row[u].old
          /\ row' = [row EXCEPT ![u] = [@ EXCEPT !.old = TRUE]]
          /\ UNCHANGED quar
       \/ /\ quar[u] = "fresh"
          /\ quar' = [quar EXCEPT ![u] = "aged"] /\ UNCHANGED row
  /\ UNCHANGED <<entry, away, past, parts, blobs, data, synced, fsPast>>
  /\ UNCHANGED <<upVars, envVars, live, dl, faults, sweepVars, unlinking,
                 counts>>

---------------------------------------------------------------------------
(* sweep: abandoned uploads, then partial files no row owns.               *)

Stage(s, us) == spc' = s /\ todo' = us

OldRows == {u \in Uploads : HasRow(u) /\ row[u].old}

(* list_stale; if it fails the sweep goes on to the partial files.         *)
ListStale ==
  \/ NoFault /\ Stage("stale", OldRows)
  \/ AFault /\ Stage("stale", {})

SweepStart ==
  /\ serving /\ spc = "off"
  /\ sweeps < MaxSweeps /\ sweeps' = sweeps + 1
  /\ ListStale
  /\ UNCHANGED <<shold, dbVars, fsVars, upVars, envVars, live, dl,
                 unlinking, crashes, losses, edits>>

SweepStale ==
  /\ spc = "stale"
  /\ \E u \in todo :
       \/ /\ u \in live.held                    \* live: leave it
          /\ Stage("stale", todo \ {u})
          /\ UNCHANGED <<live, shold, dbVars, faults>>
       \/ /\ u \notin live.held
          /\ live' = Hold(live, {u})
          /\ shold' = {u}
          /\ Stage("stalePart", todo \ {u})
          /\ \/ Commit(DeleteRow(u), entry, away) /\ NoFault
             \/ AFault /\ UNCHANGED dbVars
  /\ UNCHANGED <<fsVars, upVars, envVars, dl, unlinking, counts>>

SweepStalePart ==
  /\ spc = "stalePart"
  /\ Dir(parts \ shold, blobs, quar)
  /\ live' = Unhold(live, shold)
  /\ shold' = {}
  /\ Stage("stale", todo)
  /\ UNCHANGED <<data, synced, dbVars, upVars, envVars, dl, faults,
                 unlinking, counts>>

SweepParts ==
  /\ spc = "stale" /\ todo = {}
  /\ Stage("orphan", Uploads)
  /\ UNCHANGED <<shold, dbVars, fsVars, upVars, envVars, live, dl, faults,
                 unlinking, counts>>

(* sweep_orphan_parts, one directory entry: hold it, look its row up,      *)
(* remove it and let go.  While it is held nobody can claim the id, so the *)
(* four are one step; a failed lookup ends the sweep.                      *)
SweepOrphanPart ==
  /\ spc = "orphan"
  /\ \E u \in todo :
       \/ /\ u \notin parts \/ u \in live.held  \* held means live
          /\ Stage("orphan", todo \ {u})
          /\ NoFault /\ UNCHANGED fsVars
       \/ /\ u \in parts \ live.held
          /\ Dir(IF HasRow(u) THEN parts ELSE parts \ {u}, blobs, quar)
          /\ Stage("orphan", todo \ {u})
          /\ NoFault /\ UNCHANGED <<data, synced>>
       \/ /\ u \in parts \ live.held
          /\ Stage("orphan", {})
          /\ AFault /\ UNCHANGED fsVars
  /\ UNCHANGED <<shold, dbVars, upVars, envVars, live, dl, unlinking,
                 counts>>

(* All but every 144th periodic sweep end here.                            *)
SweepEnd ==
  /\ spc = "orphan" /\ todo = {} /\ serving
  /\ Stage("off", {})
  /\ UNCHANGED <<shold, dbVars, fsVars, upVars, envVars, live, dl, faults,
                 unlinking, counts>>

---------------------------------------------------------------------------
(* sweep_orphan_blobs: at startup and daily.                               *)

ListBlobs ==                                    \* candidates
  /\ spc = "orphan" /\ todo = {}
  /\ \/ NoFault /\ Stage("list", blobs)
     \/ AFault /\ Stage("list", {})
  /\ UNCHANGED <<shold, dbVars, fsVars, upVars, envVars, live, dl,
                 unlinking, counts>>

HoldBlobs ==                                    \* those nobody holds
  /\ spc = "list"
  /\ shold' = todo \ live.held
  /\ live'  = Hold(live, todo \ live.held)
  /\ Stage("held", {})
  /\ UNCHANGED <<dbVars, fsVars, upVars, envVars, dl, faults, unlinking,
                 counts>>

(* referenced_blobs and all_ids, read after the holds are taken.           *)
FindOrphans ==
  /\ spc = "held"
  /\ \/ /\ NoFault
        /\ Stage("moving", {u \in shold : ~Referenced(u) /\ ~HasRow(u)})
     \/ AFault /\ Stage("moving", {})
  /\ UNCHANGED <<shold, dbVars, fsVars, upVars, envVars, live, dl,
                 unlinking, counts>>

Quarantine ==
  /\ spc = "moving"
  /\ \E u \in todo :
       /\ \/ /\ u \in blobs /\ NoFault
             /\ Dir(parts, blobs \ {u}, [quar EXCEPT ![u] = "fresh"])
          \/ /\ IF u \in blobs THEN AFault ELSE NoFault
             /\ UNCHANGED <<parts, blobs, quar, fsPast>>
       /\ Stage("moving", todo \ {u})
  /\ UNCHANGED <<shold, data, synced, dbVars, upVars, envVars, live, dl,
                 unlinking, counts>>

(* sync_dir if anything moved, and drop the holds.                         *)
LeaveBlobs ==
  /\ spc = "moving" /\ todo = {}
  /\ SyncDir(fsPast)
  /\ live' = Unhold(live, shold)
  /\ shold' = {}
  /\ Stage("purge", {})
  /\ UNCHANGED <<parts, blobs, quar, data, synced, dbVars, upVars, envVars,
                 dl, faults, unlinking, counts>>

(* purge_quarantine; the startup is over, kdxd starts to listen.           *)
Purge ==
  /\ spc = "purge"
  /\ Dir(parts, blobs,
         [u \in Uploads |-> IF quar[u] = "aged" THEN "no" ELSE quar[u]])
  /\ Stage("off", {})
  /\ serving' = TRUE
  /\ UNCHANGED <<shold, data, synced, dbVars, upVars, used, acked, removed,
                 live, dl, faults, unlinking, counts>>

---------------------------------------------------------------------------
(* recover_interrupted_finishes, at startup, before anything is swept.     *)

(* A rename of the startup repair, and sync_dir.                           *)
RepairRename(p, b) ==
  /\ parts' = p /\ blobs' = b
  /\ SyncDir(Recent(fsPast, <<parts, blobs, quar>>, <<p, b, quar>>))
  /\ UNCHANGED <<quar, data, synced>>

Place(u) == RepairRename(parts \ {u}, blobs \cup {u})   \* move_into_place

(* Mutants: an upload that is filed already is skipped; a blob that has a  *)
(* row goes back to being a partial file, filed or not.                    *)
Repair_SkipsFiled ==
  /\ spc = "repair"
  /\ \E u \in todo : Stage("repair", todo \ {u})
  /\ UNCHANGED <<shold, dbVars, fsVars, upVars, envVars, live, dl, faults,
                 unlinking, counts>>

Repair_Unfiles ==
  /\ spc = "repair"
  /\ \E u \in todo :
       /\ Dir(parts \cup ({u} \cap blobs), blobs \ {u}, quar)
       /\ Stage("repair", todo \ {u})
  /\ UNCHANGED <<shold, data, synced, dbVars, upVars, envVars, live, dl,
                 faults, unlinking, counts>>

(* One upload row.  A filed upload whose bytes have just been put in place *)
(* is still to do: its row goes next.                                      *)
Repair ==
  /\ spc = "repair"
  /\ \E u \in todo :
       \/ /\ Referenced(u) /\ u \in blobs
          /\ \/ Commit(DeleteRow(u), entry, away) /\ NoFault
             \/ AFault /\ UNCHANGED dbVars
          /\ Stage("repair", todo \ {u}) /\ UNCHANGED fsVars
       \/ /\ Referenced(u) /\ u \in parts \ blobs
          /\ \/ Place(u) /\ NoFault /\ Stage("repair", todo)
             \/ AFault /\ Stage("repair", todo \ {u}) /\ UNCHANGED fsVars
          /\ UNCHANGED dbVars
       \/ /\ ~Referenced(u) /\ u \in blobs \ parts
          /\ \/ RepairRename(parts \cup {u}, blobs \ {u}) /\ NoFault
             \/ AFault /\ UNCHANGED fsVars
          /\ Stage("repair", todo \ {u}) /\ UNCHANGED dbVars
       \/ /\ u \notin parts \cup blobs \/ (~Referenced(u) /\ u \in parts)
          /\ NoFault /\ Stage("repair", todo \ {u})
          /\ UNCHANGED <<dbVars, fsVars>>
  /\ UNCHANGED <<shold, upVars, envVars, live, dl, unlinking, counts>>

(* Then the partial files of filed uploads whose row is gone.              *)
RepairParts ==
  /\ spc = "repair" /\ todo = {}
  /\ Stage("repairParts",
           {u \in parts \ blobs : ~HasRow(u) /\ Referenced(u)})
  /\ UNCHANGED <<shold, dbVars, fsVars, upVars, envVars, live, dl, faults,
                 unlinking, counts>>

RepairPart ==
  /\ spc = "repairParts"
  /\ \E u \in todo :
       /\ Stage("repairParts", todo \ {u})
       /\ \/ Place(u) /\ NoFault
          \/ AFault /\ UNCHANGED fsVars
  /\ UNCHANGED <<shold, dbVars, upVars, envVars, live, dl, unlinking,
                 counts>>

(* Repaired, or given up because the tree or the rows cannot be read.      *)
StartupSweep ==
  /\ \/ spc = "repairParts" /\ todo = {} /\ ListStale
     \/ spc = "repair" /\ AFault /\ Stage("stale", OldRows)
  /\ UNCHANGED <<shold, dbVars, fsVars, upVars, envVars, live, dl,
                 unlinking, counts>>

---------------------------------------------------------------------------
(* The process dies and is started again.                                  *)
Restart(r) ==
  /\ live' = EmptyLive
  /\ pc' = [c \in Conns |-> "idle"]
  /\ tid' = [c \in Conns |-> NoId]
  /\ name' = [c \in Conns |-> NoName]
  /\ bits' = [c \in Conns |-> {}]
  /\ dirty' = [c \in Conns |-> FALSE]
  /\ claim' = [c \in Conns |-> NoClaim]
  /\ hold' = [c \in Conns |-> {}]
  /\ victims' = [c \in Conns |-> {}]
  /\ need' = [c \in Conns |-> 0]
  /\ dl' = [c \in Conns |-> NoDl]
  /\ serving' = FALSE
  /\ unlinking' = {} /\ shold' = {}
  /\ Stage("repair", {u \in Uploads : r[u] # NoRow})
  /\ UNCHANGED <<faults, used, acked, removed>>

Crash ==
  /\ crashes < MaxCrashes /\ crashes' = crashes + 1
  /\ Restart(row)
  /\ UNCHANGED <<dbVars, fsVars, losses, edits, sweeps>>

(* Also lost: the last commits, the last directory operations, and bytes   *)
(* that were never synced.                                                 *)
PowerLoss ==
  /\ losses < MaxPowerLosses /\ losses' = losses + 1
  /\ \E d \in {<<row, entry, away>>} \cup {past[i] : i \in DOMAIN past} :
       row' = d[1] /\ entry' = d[2] /\ away' = d[3] /\ Restart(d[1])
  /\ \E d \in {<<parts, blobs, quar>>} \cup
              {fsPast[i] : i \in DOMAIN fsPast} :
       parts' = d[1] /\ blobs' = d[2] /\ quar' = d[3]
  /\ \E lost \in SUBSET Chunks :
       data' = [u \in Uploads |-> [k \in Chunks |->
                  IF u \in synced \/ k \notin lost THEN data[u][k]
                  ELSE "hole"]]
  /\ past' = <<>> /\ fsPast' = <<>>
  /\ UNCHANGED <<synced, crashes, edits, sweeps>>

---------------------------------------------------------------------------
SweeperStep ==
  \/ SweepStart \/ SweepStale \/ SweepStalePart \/ SweepParts
  \/ SweepOrphanPart \/ SweepEnd \/ ListBlobs \/ HoldBlobs \/ FindOrphans
  \/ Quarantine \/ LeaveBlobs \/ Purge

StartupStep == Repair \/ RepairParts \/ RepairPart \/ StartupSweep

ConnStep(c) ==
  (Request(c) \/ Handle(c)) /\ UNCHANGED <<sweepVars, unlinking, counts>>

RecoveryInit ==
  /\ Init
  /\ spc = "off" /\ todo = {} /\ shold = {}
  /\ unlinking = {}
  /\ crashes = 0 /\ losses = 0 /\ edits = 0 /\ sweeps = 0

Next ==
  \/ \E c \in Conns : ConnStep(c)
  \/ DeleteEntry \/ Unlink \/ EditFolder \/ Age
  \/ SweeperStep \/ StartupStep
  \/ Crash \/ PowerLoss

Spec == RecoveryInit /\ [][Next]_vars

---------------------------------------------------------------------------
(* Properties.                                                             *)

DbType ==
  /\ row \in RowTable /\ entry \in EntryTable /\ away \subseteq Uploads
  /\ past \in Seq(DbStates)

FsType ==
  /\ parts \subseteq Uploads /\ blobs \subseteq Uploads
  /\ quar \in QuarTable
  /\ fsPast \in Seq(DirStates)
  /\ data \in [Uploads -> [Chunks -> Bytes]]
  /\ synced \subseteq Uploads

UpType ==
  /\ pc \in [Conns -> Labels]
  /\ tid \in [Conns -> Uploads \cup {NoId}]
  /\ name \in [Conns -> Names \cup {NoName}]
  /\ bits \in [Conns -> SUBSET Chunks]
  /\ dirty \in [Conns -> BOOLEAN]
  /\ claim \in [Conns -> Claims]
  /\ hold \in [Conns -> SUBSET Uploads]
  /\ victims \in [Conns -> SUBSET Uploads]
  /\ need \in [Conns -> Nat]

ServerType ==
  /\ live \in LiveType
  /\ dl \in [Conns -> Uploads \cup {NoDl}]
  /\ serving \in BOOLEAN
  /\ used \subseteq Uploads /\ acked \subseteq Uploads
  /\ removed \subseteq Uploads /\ unlinking \subseteq Uploads
  /\ spc \in Stages /\ todo \subseteq Uploads /\ shold \subseteq Uploads
  /\ faults \in Nat /\ crashes \in Nat /\ losses \in Nat
  /\ edits \in Nat /\ sweeps \in Nat

TypeOK == DbType /\ FsType /\ UpType /\ ServerType

(* What a task holds: the id it claimed and the id it is deleting.         *)
Holds(c) == hold[c] \cup (IF claim[c].on THEN {tid[c]} ELSE {})
Working  == {c \in Conns : claim[c].on}
Reading  == {c \in Conns : dl[c] # NoDl}

(* Live::held is exactly what connections and the sweeper hold, and no id  *)
(* has two holders: one connection at a time writes, files or deletes an   *)
(* upload (the module docs of transfer/manager.rs).                        *)
HeldExact ==
  /\ \A u \in Uploads :
       u \in live.held <=> (u \in shold \/ \E c \in Conns : u \in Holds(c))
  /\ \A c \in Conns : Holds(c) \cap shold = {}
  /\ \A c, d \in Conns : c # d => Holds(c) \cap Holds(d) = {}

(* Where a task is tells what it holds: nothing before the claim, then its *)
(* claim, and an extra id only while it deletes that one's state.          *)
Bare == {"idle", "prepared", "rfind", "rprep", "rrefused", "rclaim", "rfiled"}
Dropping == {"dropRow", "dropPart"}

Shape(c) ==
  /\ pc[c] \in Bare => ~claim[c].on
  /\ pc[c] \notin Bare \cup Dropping => claim[c].on
  /\ hold[c] # {} =>
       \/ pc[c] = "evictPart"
       \/ pc[c] \in Dropping /\ hold[c] = {tid[c]} /\ ~claim[c].on
  /\ pc[c] \in Dropping => claim[c].on \/ hold[c] = {tid[c]}
  /\ claim[c].on => tid[c] \notin hold[c]
  /\ pc[c] = "evictPart" => need[c] > 0
  /\ pc[c] \notin {"idle", "prepared"} => tid[c] \in Uploads
  /\ pc[c] # "idle" => name[c] \in Names

TaskShape == \A c \in Conns : Shape(c)

SweepShape ==
  /\ shold # {} => spc \in {"stalePart", "held", "moving"}
  /\ spc = "moving" => todo \subseteq shold

(* No destination name is claimed by two uploads, and a name is reserved   *)
(* exactly as long as an upload claims it (Live::destinations).            *)
NamesExact ==
  /\ \A n \in Names :
       n \in live.names <=> \E c \in Working : claim[c].dest = n
  /\ \A c, d \in Working :
       claim[c].dest = claim[d].dest => c = d \/ claim[c].dest = NoName

(* The inductive invariant behind HeldExact and NamesExact.                *)
Ownership == TypeOK /\ TaskShape /\ SweepShape /\ HeldExact /\ NamesExact

(* The bytes a set of connections may still write.                         *)
BytesOf(claims, cs) == FoldSet(LAMBDA c, n : claims[c].bytes + n, 0, cs)

(* The saturating counters of Live never drift from the claims they count  *)
(* (slots per account, the server-wide total, the reserved bytes), and     *)
(* never exceed their caps.                                                *)
AccountingExact ==
  /\ \A a \in Accounts :
       /\ live.up[a] = Cardinality({c \in Working : Acct(c) = a})
       /\ live.down[a] = Cardinality({c \in Reading : Acct(c) = a})
       /\ live.up[a] <= MaxUploadsPerAccount
       /\ live.down[a] <= MaxDownloadsPerAccount
  /\ live.total = Cardinality(Working) + Cardinality(Reading)
  /\ live.total <= MaxConcurrent
  /\ live.bytes = BytesOf(claim, Working)
  /\ live.bytes <= MaxReserved

(* The rows of an account are counted before the oldest are evicted and    *)
(* the new one is written, without a lock: concurrent begin_uploads        *)
(* overshoot max_open_uploads_per_account, but by no more than the uploads *)
(* the account may run at once and the evictions that failed.              *)
OpenUploadsBounded ==
  \A a \in Accounts :
    Cardinality(MyRows(a)) <= RowCap + MaxUploadsPerAccount - 1 + faults

(* Neither the sweeper, nor another connection making room, nor a refused  *)
(* resume takes the row or the partial file of an upload in progress away. *)
OwnerKeepsState ==
  \A c \in Conns :
    pc[c] \in {"live", "verify", "hash", "file"} =>
      /\ tid[c] \in parts
      /\ HasRow(tid[c])

(* While the server is up, an entry of the tree has its bytes in place, or *)
(* the task that filed it is about to move them there or withdraw the      *)
(* entry; and the bytes are the whole, verified file.                      *)
EntryHasBytes ==
  \A u \in Uploads : serving /\ Referenced(u) /\ u \notin removed =>
    /\ Intact(u)
    /\ \/ u \in blobs
       \/ /\ u \in parts
          /\ \E c \in Conns : tid[c] = u /\ pc[c] \in {"rename", "undo"}

(* An upload whose client was told TRANSFER_VERIFIED is in the tree, with  *)
(* its bytes in place, until a user deletes it: whatever crashes between.  *)
AckedAvailable ==
  \A u \in acked \ removed : Referenced(u) /\ u \in blobs

(* A row never claims a chunk that the partial file does not hold, so a    *)
(* resumed client that trusts the bitmap sends everything missing.         *)
BitmapSound ==
  \A u \in Uploads : HasRow(u) =>
    \A k \in row[u].bits : data[u][k] # "hole"

(* What a client has sent stays sent: its upload is not taken from under   *)
(* it, and what the row says was received really was.  What the tree lists *)
(* can be downloaded, and what a client was told is stored stays stored.   *)
StorageSound ==
  OwnerKeepsState /\ BitmapSound /\ EntryHasBytes /\ AckedAvailable

(* A finish never replaces an entry, and a blind one that has to rename    *)
(* passes over the names other uploads are headed for (add_file_renaming). *)
(* Only a power loss, which undoes commits, may put an entry over another. *)
(* An upload resumed as already filed claims no name: it may take its old  *)
(* one back from under another's claim once the entry has been withdrawn.  *)
FilingRespectsNames ==
  [][\A n \in Names : losses' = losses /\ entry'[n] \in Uploads \ {entry[n]} =>
       /\ entry[n] = Free
       /\ \A c, d \in Working :
            /\ tid[d] = entry'[n] /\ claim[d].dest # NoName
            /\ claim[c].dest = n
            => c = d]_vars

(* The promise of FileShelf, implemented by the three steps of finish, the *)
(* startup repair and the sweeper, whenever the process dies.              *)
Shelf == INSTANCE FileShelf
           WITH shelf <- {u \in blobs : Referenced(u)},
                told <- acked, gone <- removed

ImplementsShelf == Shelf!Spec

---------------------------------------------------------------------------
(* Fairness: the runtime goes on polling a task that is not waiting for    *)
(* its client, and runs the startup and a sweep it has begun.              *)
Background ==
  \/ StartupStep \/ Unlink
  \/ SweeperStep /\ ~SweepStart

Fairness ==
  /\ \A c \in Conns :
       WF_vars(Handle(c) /\ UNCHANGED <<sweepVars, unlinking, counts>>)
  /\ WF_vars(Background)

FairSpec == Spec /\ Fairness

(* Every request a connection has begun ends: with the upload accepted and *)
(* waiting for chunks, or with nothing held.  And after a crash the        *)
(* startup repair and sweep come to an end and the server serves again.    *)
RequestsEnd ==
  /\ \A c \in Conns :
       pc[c] \notin {"idle", "live"} ~> pc[c] \in {"idle", "live"}
  /\ ~serving ~> serving

(* An entry that a finish filed gets its bytes, whole, unless it goes      *)
(* again or a user deletes it: also when the process dies or power is lost *)
(* between the two.                                                        *)
FiledGetsBytes ==
  \A u \in Uploads :
    Referenced(u) ~>
      (u \in blobs /\ Intact(u)) \/ ~Referenced(u) \/ u \in removed

---------------------------------------------------------------------------
============================================================================
