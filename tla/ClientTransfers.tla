--------------------------- MODULE ClientTransfers ---------------------------
(***************************************************************************)
(* Uploads and downloads of one client (kdx-client-core/src/actor.rs and   *)
(* transfer.rs) against the transfer part of the server's dispatch loop    *)
(* (kdx-server-core/src/connection.rs), on an authenticated connection.    *)
(*                                                                         *)
(* The client runs one transfer at a time and tells what belongs to it by  *)
(* its generation (the call's number here) and by the id the server chose; *)
(* chunks, accepts and ends of a transfer that was given up keep arriving, *)
(* and its blocking jobs go on.  A download gathers its chunks in a        *)
(* partial file, with a sidecar that says what is there; the two survive a *)
(* restart, and what is published was a partial whose hash was right.      *)
(*                                                                         *)
(* A file's content is the sequence of its chunks: a chunk of version v is *)
(* v, 0 stands for bytes that belong to no version.  Files have numbers of *)
(* their own, for a name can be moved or removed under a job that has the  *)
(* file open.  All downloads ask for the same remote file to the same      *)
(* place.  The command channel, logins and other requests are in           *)
(* ClientCalls.                                                            *)
(***************************************************************************)
EXTENDS Naturals, Sequences, FiniteSets

CONSTANTS
  NumChunks,     \* chunks of an uploaded file, the most of a remote one
  Size,          \* chunks of each version of the remote file
  Jobs,          \* per transfer asked for: "upload", "download" or either
  MaxVersions,   \* versions of the remote file
  MaxAbandoned,  \* MAX_ABANDONED
  Window,        \* UPLOAD_WINDOW_BYTES, in chunks
  MaxUpsets,     \* bound on cancels, deadlines, restarts and failed opens
  OpenMayFail    \* whether opening the partial file may fail

ASSUME CarryConstants ==
  /\ {NumChunks, Window, MaxUpsets} \subseteq Nat
  /\ {MaxVersions, MaxAbandoned} \subseteq Nat \ {0}
  /\ Size \in [1..MaxVersions -> 0..NumChunks]
  /\ Jobs \in Seq(SUBSET {"upload", "download"})
  /\ OpenMayFail \in BOOLEAN

VARIABLES
  asked,     \* per job: its outcome
  xfer,      \* the active transfer
  task,      \* blocking jobs: the active one, and those left detached
  saving,    \* the sidecar write in progress, if any
  owes,      \* what the server owes, in send order
  gaveUp,    \* abandoned: ids given up
  tosrv, tocli,  \* the link
  host,      \* the server's loop: uploads, the download, ids
  shelf,     \* the version of the remote file
  disk,      \* files, which of them the partial's and the destination's
             \* names stand for (0: none), and the sidecar
  upsets     \* upsets so far

carryVars == <<asked, xfer, task, saving, owes, gaveUp, tosrv, tocli, host,
               shelf, disk, upsets>>

Pieces == 1..NumChunks
Rounds == 2    \* MAX_DOWNLOAD_ROUNDS
Chunks(v) == 1..Size[v]
WholeFile(v) == [i \in Chunks(v) |-> v]
NoSidecar == [ver |-> 0, have |-> {}]

Idle == [gen |-> 0, way |-> "none", stage |-> "none", id |-> 0,
         accepted |-> FALSE, round |-> 0, ver |-> 0, have |-> {},
         file |-> 0, next |-> 1, flying |-> 0, resume |-> NoSidecar]

CarryInit ==
  /\ asked = [c \in DOMAIN Jobs |-> "idle"]
  /\ xfer = Idle /\ task = {} /\ saving = NoSidecar
  /\ owes = <<>> /\ gaveUp = <<>> /\ tosrv = <<>> /\ tocli = <<>>
  /\ host = [up |-> 0, left |-> {}, writing |-> 0, finishing |-> 0,
             ended |-> 0, filed |-> {}, down |-> 0, ver |-> 0,
             todo |-> {}, ids |-> 0]
  /\ shelf = 1
  /\ disk = [files |-> <<>>, data |-> 0, dest |-> 0, side |-> NoSidecar]
  /\ upsets = 0

Message(t, i, n, v) == [type |-> t, id |-> i, n |-> n, ver |-> v]
StartFrame(w, h) == [type |-> "Start", way |-> w, have |-> h]
Barrier(k, g, n) == [is |-> k, gen |-> g, n |-> n, error |-> FALSE]
PingFrame == [type |-> "Ping"]

\* A job: how far it is, the files it reads and writes, the chunks it has
\* read and whether they were right; `alone` records (for the properties)
\* that no other job was at work when the check of its download began.
Job(k, g, v, a) ==
  [kind |-> k, gen |-> g, ver |-> v, at |-> "queued", src |-> 0, out |-> 0,
   n |-> 0, good |-> TRUE, alone |-> a]
Results == {"right", "wrong", "error"}
Reading == {"read", "temp", "place"}
\* What comes of a job nobody waits for: nothing, once it only reads.
Spent == Results \cup {"read"}

\* set_len; and a write of one chunk, which may leave a hole before it.
Cut(f, n) == [i \in 1..n |-> IF i <= Len(f) THEN f[i] ELSE 0]
Written(f, n, v) ==
  [Cut(f, IF n > Len(f) THEN n ELSE Len(f)) EXCEPT ![n] = v]

Current(g) == g # 0 /\ xfer.gen = g
Upset == upsets < MaxUpsets /\ upsets' = upsets + 1
Calm == UNCHANGED upsets

(***************************************************************************)
(* send_abort and fail_transfer, for the transfer x and what is owed, ow.  *)
(***************************************************************************)
Abandon(id, ow) ==
  /\ gaveUp' = Append(IF Len(gaveUp) >= MaxAbandoned THEN Tail(gaveUp)
                      ELSE gaveUp, id)
  /\ tosrv' = tosrv \o <<Message("End", id, 0, 0), PingFrame>>
  /\ owes' = Append(ow, Barrier("plain", 0, 0))

SidecarOf(x) == [ver |-> x.ver, have |-> x.have]

\* What goes on of the jobs when nobody waits for them any more.
StillAtWork == {j \in task : j.kind # "prepare" /\ j.at \notin Spent}

FailTransfer(x, why, cleanup, ow) ==
  /\ asked' = [asked EXCEPT ![x.gen] = why]
  /\ xfer' = Idle /\ saving' = NoSidecar
  /\ task' = StillAtWork
  /\ IF \/ x.way = "upload" /\ x.stage = "running"
        \/ x.way = "download" /\ x.accepted /\ x.stage # "verifying"
     THEN Abandon(x.id, ow)
     ELSE owes' = ow /\ UNCHANGED <<gaveUp, tosrv>>
  /\ disk' = CASE ~x.accepted -> disk
               [] cleanup = "keep" -> [disk EXCEPT !.side = SidecarOf(x)]
               [] OTHER -> [disk EXCEPT !.side = NoSidecar,
                                        !.data = 0]

Fails(x, why, cleanup, ow) ==
  FailTransfer(x, why, cleanup, ow) /\ UNCHANGED <<host, shelf>>

(***************************************************************************)
(* Commands: start_upload, start_download, CancelTransfer; and the         *)
(* deadline for an accept.                                                 *)
(***************************************************************************)
Asks(c, w) ==
  /\ w \in Jobs[c] /\ asked[c] = "idle"
  /\ \A d \in 1..(c - 1) : asked[d] # "idle"

Busy(c) ==
  /\ \E w \in {"upload", "download"} : Asks(c, w)
  /\ xfer # Idle
  /\ asked' = [asked EXCEPT ![c] = "busy"]
  /\ UNCHANGED <<xfer, task, saving, owes, gaveUp, tosrv, tocli, host, shelf,
                 disk, upsets>>

StartUpload(c) ==
  /\ Asks(c, "upload") /\ xfer = Idle
  /\ asked' = [asked EXCEPT ![c] = "open"]
  /\ xfer' = [Idle EXCEPT !.gen = c, !.way = "upload", !.stage = "preparing"]
  /\ task' = task \cup {Job("prepare", c, 0, FALSE)}
  /\ UNCHANGED <<saving, owes, gaveUp, tosrv, tocli, host, shelf, disk,
                 upsets>>

\* Resume from a sidecar whose data file is still there.
StartDownload(c) ==
  /\ Asks(c, "download") /\ xfer = Idle
  /\ asked' = [asked EXCEPT ![c] = "open"]
  /\ LET sc == IF disk.data = 0 THEN NoSidecar ELSE disk.side IN
       /\ xfer' = [Idle EXCEPT !.gen = c, !.way = "download",
                     !.stage = "awaiting", !.resume = sc]
       /\ tosrv' = Append(tosrv, StartFrame("download", sc.have))
  /\ owes' = Append(owes, Barrier("start", c, 0))
  /\ UNCHANGED <<task, saving, gaveUp, tocli, host, shelf, disk, upsets>>

Cancel ==
  /\ xfer # Idle /\ Upset
  /\ Fails(xfer, "cancelled", "keep", owes) /\ UNCHANGED tocli

AcceptDeadline ==
  /\ xfer.stage = "awaiting" /\ Upset
  /\ Fails(xfer, "timeout", "keep", owes) /\ UNCHANGED tocli

(***************************************************************************)
(* Blocking jobs, on threads of their own.  The actor hears of a job's     *)
(* result only while its transfer is the active one.  A job of a transfer  *)
(* that failed is detached: it goes on until it looks at its cancel flag,  *)
(* which it does only before it reads into its buffer (HASH_BUF), where a  *)
(* whole file may fit: it can stop at any chunk, and it need not.          *)
(***************************************************************************)
JobGoes(j, k, d) ==
  /\ task' = (task \ {j})
               \cup {i \in {k} : Current(j.gen) \/ k.at \notin Spent}
  /\ disk' = d /\ Calm
  /\ UNCHANGED <<asked, xfer, saving, owes, gaveUp, tosrv, tocli, host, shelf>>

\* hash_download opens the partial under its name, whoever's it is by now,
\* and trims what exceeds the size.
VerifyOpens(j) ==
  /\ j.kind = "verify" /\ j.at = "queued" /\ disk.data # 0
  /\ LET len == Len(disk.files[disk.data]) IN
     JobGoes(j, [j EXCEPT !.src = disk.data,
                          !.at = CASE len < Size[j.ver] -> "wrong"
                                   [] len = Size[j.ver] -> "read"
                                   [] len > Size[j.ver] -> "trim"], disk)

Trims(j) ==
  /\ j.at = "trim"
  /\ JobGoes(j, [j EXCEPT !.at = "read"],
             [disk EXCEPT !.files[j.src] = Cut(@, Size[j.ver])])

\* publish_download by a rename, which looks at nothing but the names.
Renames(j) ==
  /\ j.kind = "publish" /\ j.at = "queued" /\ disk.data # 0
  /\ JobGoes(j, [j EXCEPT !.at = "right"],
             [disk EXCEPT !.dest = disk.data, !.data = 0])

\* Where the rename is refused: copy_into_place opens the partial, then a
\* temporary file beside the destination or, where none may be created, the
\* destination itself, which it empties.
OpensSource(j) ==
  /\ j.kind = "publish" /\ j.at = "queued" /\ disk.data # 0
  /\ JobGoes(j, [j EXCEPT !.at = "source", !.src = disk.data], disk)

OpensTarget(j) ==
  LET new == Len(disk.files) + 1
      made == Append(disk.files, <<>>)
  IN /\ j.at = "source"
     /\ \/ JobGoes(j, [j EXCEPT !.at = "temp", !.out = new],
                   [disk EXCEPT !.files = made])
        \/ /\ disk.dest = 0
           /\ JobGoes(j, [j EXCEPT !.at = "place", !.out = new],
                      [disk EXCEPT !.files = made, !.dest = new])
        \/ /\ disk.dest # 0
           /\ JobGoes(j, [j EXCEPT !.at = "place", !.out = disk.dest],
                      [disk EXCEPT !.files[disk.dest] = <<>>])

\* The loops of hash_download and copy_verified.
ReadsChunk(j) ==
  /\ j.at \in Reading /\ j.n < Size[j.ver] /\ j.n < Len(disk.files[j.src])
  /\ LET v == disk.files[j.src][j.n + 1] IN
     JobGoes(j, [j EXCEPT !.n = @ + 1, !.good = @ /\ v = j.ver],
             IF j.at = "read" THEN disk
             ELSE [disk EXCEPT !.files[j.out] = Written(@, j.n + 1, v)])

\* A copy in place that fails removes the destination.
LeftBehind(j) == IF j.at = "place" THEN [disk EXCEPT !.dest = 0] ELSE disk

\* Mutant: the hash is taken but not compared.
ReadsAll_NotCompared(j) ==
  /\ j.at \in Reading /\ j.n = Size[j.ver]
  /\ CASE j.at = "read" -> JobGoes(j, [j EXCEPT !.at = "right"], disk)
       [] j.at = "temp" -> JobGoes(j, [j EXCEPT !.at = "named"],
                                   [disk EXCEPT !.dest = j.out])
       [] OTHER -> JobGoes(j, [j EXCEPT !.at = "named"], disk)

ReadsAll(j) ==
  /\ j.at \in Reading /\ j.n = Size[j.ver]
  /\ CASE ~j.good -> JobGoes(j, [j EXCEPT !.at = "wrong"], LeftBehind(j))
       [] j.good /\ j.at = "read" ->
            JobGoes(j, [j EXCEPT !.at = "right"], disk)
       [] j.good /\ j.at = "temp" ->
            JobGoes(j, [j EXCEPT !.at = "named"], [disk EXCEPT !.dest = j.out])
       [] OTHER -> JobGoes(j, [j EXCEPT !.at = "named"], disk)

\* A partial that cannot be removed is left behind, without its sidecar.
RemovesPartial(j) ==
  /\ j.at = "named"
  /\ \E left \in {0, disk.data} :
       JobGoes(j, [j EXCEPT !.at = "right"], [disk EXCEPT !.data = left])

\* The file is shorter than it should be; or there is none, an operation
\* fails, or the job finds that it was cancelled.
TooShort(j) ==
  /\ j.at \in Reading /\ j.n < Size[j.ver]
  /\ j.n >= Len(disk.files[j.src])
  /\ JobGoes(j, [j EXCEPT !.at = "wrong"], LeftBehind(j))

Breaks(j) ==
  /\ j.kind # "prepare" /\ j.at \notin Results \cup {"named"}
  /\ JobGoes(j, [j EXCEPT !.at = "error"], LeftBehind(j))

PoolWork ==
  \E j \in task :
    \/ VerifyOpens(j) \/ Trims(j) \/ Renames(j) \/ OpensSource(j)
    \/ OpensTarget(j) \/ ReadsChunk(j) \/ ReadsAll(j) \/ RemovesPartial(j)
    \/ TooShort(j) \/ Breaks(j)

(***************************************************************************)
(* on_blocking_done.                                                       *)
(***************************************************************************)
\* prepare_upload, then send_upload_request.
Prepared ==
  \E j \in task :
    /\ j.kind = "prepare" /\ Calm
    /\ \/ /\ task' = task \ {j}
          /\ xfer' = [xfer EXCEPT !.stage = "awaiting"]
          /\ tosrv' = Append(tosrv, StartFrame("upload", {}))
          /\ owes' = Append(owes, Barrier("start", j.gen, 0))
          /\ UNCHANGED <<asked, saving, gaveUp, tocli, host, shelf, disk>>
       \/ Fails(xfer, "failed", "keep", owes) /\ UNCHANGED tocli

Done(j, k) == j.kind = k /\ Current(j.gen) /\ j.at \in Results

\* verify_failure: bytes that are wrong are discarded, after an I/O error
\* the partial is kept.
VerifyFails(j) ==
  Fails(xfer, "failed", IF j.at = "wrong" THEN "discard" ELSE "keep", owes)

\* finish_download.
Verified ==
  \E j \in task :
    /\ Done(j, "verify") /\ Calm
    /\ IF j.at = "right"
       THEN /\ task' = (task \ {j})
                         \cup {Job("publish", j.gen, j.ver, j.alone)}
            /\ saving' = NoSidecar
            /\ disk' = [disk EXCEPT !.side = IF saving = NoSidecar THEN @
                                             ELSE saving]
            /\ UNCHANGED <<asked, xfer, owes, gaveUp, tosrv, tocli, host,
                           shelf>>
       ELSE VerifyFails(j) /\ UNCHANGED tocli

\* Mutant: a publish that failed fails nothing.
Published_Quiet ==
  \E j \in task :
    /\ Done(j, "publish") /\ Calm /\ task' = task \ {j}
    /\ IF j.at = "right"
       THEN /\ asked' = [asked EXCEPT ![j.gen] = "ok"] /\ xfer' = Idle
            /\ disk' = [disk EXCEPT !.side = NoSidecar]
       ELSE UNCHANGED <<asked, xfer, disk>>
    /\ UNCHANGED <<saving, owes, gaveUp, tosrv, tocli, host, shelf>>

\* download_published.
Published ==
  \E j \in task :
    /\ Done(j, "publish") /\ Calm
    /\ IF j.at = "right"
       THEN /\ task' = task \ {j}
            /\ asked' = [asked EXCEPT ![j.gen] = "ok"] /\ xfer' = Idle
            /\ disk' = [disk EXCEPT !.side = NoSidecar]
            /\ UNCHANGED <<saving, owes, gaveUp, tosrv, tocli, host, shelf>>
       ELSE VerifyFails(j) /\ UNCHANGED tocli

\* A sidecar write of the running download lands.
SidecarLands ==
  /\ saving # NoSidecar /\ Calm
  /\ disk' = [disk EXCEPT !.side = saving] /\ saving' = NoSidecar
  /\ UNCHANGED <<asked, xfer, task, owes, gaveUp, tosrv, tocli, host, shelf>>

(***************************************************************************)
(* Frames from the server.                                                 *)
(***************************************************************************)
Heard(t) == tocli # <<>> /\ Head(tocli).type = t /\ tocli' = Tail(tocli)
Next1 == IF owes = <<>> THEN "nothing" ELSE Head(owes).is

\* Mutant: an accept nobody waits for any more is dropped.
OnAcceptLate_Dropped(id) ==
  /\ owes' = Tail(owes)
  /\ UNCHANGED <<asked, xfer, task, saving, gaveUp, tosrv, disk>>

OnAcceptLate(id) ==
  Abandon(id, Tail(owes)) /\ UNCHANGED <<asked, xfer, task, saving, disk>>

\* on_upload_accept.
UploadAccepted(id) ==
  /\ xfer' = [xfer EXCEPT !.stage = "running", !.id = id]
  /\ owes' = Tail(owes)
  /\ UNCHANGED <<asked, task, saving, gaveUp, tosrv, disk>>

\* Local resume state counts only if it describes this very file.
KeptFrom(sc, ver) == IF sc.ver = ver THEN sc.have ELSE {}

\* The file has not the size the caller expects: nothing is created for a
\* first accept, and the server is told.
WrongSize(id) ==
  IF xfer.accepted
  THEN FailTransfer([xfer EXCEPT !.id = id, !.stage = "running"], "failed",
                    "keep", Tail(owes))
  ELSE /\ Abandon(id, Tail(owes))
       /\ asked' = [asked EXCEPT ![xfer.gen] = "failed"] /\ xfer' = Idle
       /\ UNCHANGED <<task, saving, disk>>

\* The partial cannot be created or opened: the transfer fails before it
\* counts as accepted.
OpenFails ==
  /\ OpenMayFail /\ ~xfer.accepted
  /\ FailTransfer(xfer, "failed", "keep", Tail(owes))

\* on_download_accept: the first accept fixes the file and opens the
\* partial, empty unless it is resumed; a later one must be of that file.
DownloadOpens(id, ver) ==
  LET x == [xfer EXCEPT !.id = id, !.stage = "running"]
      have == KeptFrom(xfer.resume, ver)
      old == disk.data
      f == IF old = 0 THEN Len(disk.files) + 1 ELSE old
      first == [x EXCEPT !.accepted = TRUE, !.ver = ver, !.have = have,
                         !.file = f, !.resume = NoSidecar]
  IN CASE xfer.accepted /\ xfer.ver # ver ->
            FailTransfer(x, "changed", "discard", Tail(owes))
       [] xfer.accepted /\ xfer.ver = ver ->
            /\ xfer' = x /\ owes' = Tail(owes)
            /\ UNCHANGED <<asked, task, saving, gaveUp, tosrv, disk>>
       [] OTHER ->
            /\ xfer' = first /\ owes' = Tail(owes)
            /\ disk' = [disk EXCEPT !.data = f, !.files =
                          CASE old = 0 -> Append(@, <<>>)
                            [] old # 0 /\ have = {} ->
                                 [@ EXCEPT ![old] = <<>>]
                            [] OTHER -> @]
            /\ saving' = SidecarOf(first)
            /\ UNCHANGED <<asked, task, gaveUp, tosrv>>

DownloadAccepted(id, ver) ==
  \/ Calm /\ DownloadOpens(id, ver)
  \/ Calm /\ (~xfer.accepted \/ xfer.ver # ver) /\ WrongSize(id)
  \/ Upset /\ OpenFails

\* on_transfer_accept: accepted after it was given up on, it is aborted.
OnAccept ==
  /\ Heard("Accept") /\ Next1 = "start"
  /\ LET m == Head(tocli) IN
       IF ~(Current(Head(owes).gen) /\ xfer.stage = "awaiting")
       THEN Calm /\ OnAcceptLate(m.id)
       ELSE IF xfer.way = "upload" THEN Calm /\ UploadAccepted(m.id)
       ELSE DownloadAccepted(m.id, m.ver)
  /\ UNCHANGED <<host, shelf>>

\* on_transfer_data: chunks of the running download go to its file, whatever
\* became of the name, or cannot be written; other chunks are ignored.
OnData ==
  /\ Heard("Data") /\ Calm
  /\ LET m == Head(tocli)
         mine == xfer.way = "download" /\ xfer.stage = "running"
                   /\ m.id = xfer.id
         x == [xfer EXCEPT !.have = @ \cup {m.n}]
     IN \/ /\ mine /\ xfer' = x
           /\ disk' = [disk EXCEPT !.files[xfer.file] = Written(@, m.n, m.ver)]
           /\ saving' \in {saving, IF saving = NoSidecar THEN SidecarOf(x)
                                   ELSE saving}
           /\ UNCHANGED <<asked, task, owes, gaveUp, tosrv>>
        \/ mine /\ FailTransfer(xfer, "failed", "keep", owes)
        \/ /\ ~mine
           /\ UNCHANGED <<asked, xfer, task, saving, owes, gaveUp, tosrv,
                          disk>>
  /\ UNCHANGED <<host, shelf>>

\* download_ended, ok or not as the server says and the last flush goes: ask
\* once more for what was skipped, or verify.
DownloadEnded(ok) ==
  LET x == [xfer EXCEPT !.stage = "verifying"] IN
  CASE ~ok -> FailTransfer(x, "failed", "keep", owes)
    [] ok /\ xfer.have # Chunks(xfer.ver) /\ xfer.round + 1 < Rounds ->
         /\ xfer' = [xfer EXCEPT !.round = @ + 1, !.stage = "awaiting"]
         /\ tosrv' = Append(tosrv, StartFrame("download", xfer.have))
         /\ owes' = Append(owes, Barrier("start", xfer.gen, 0))
         /\ UNCHANGED <<asked, task, saving, gaveUp, disk>>
    [] ok /\ xfer.have # Chunks(xfer.ver) /\ xfer.round + 1 >= Rounds ->
         FailTransfer(x, "failed", "discard", owes)
    [] OTHER ->
         /\ xfer' = [x EXCEPT !.file = 0]
         /\ task' = task \cup {Job("verify", xfer.gen, xfer.ver, task = {})}
         /\ UNCHANGED <<asked, saving, owes, gaveUp, tosrv, disk>>

\* finish_upload.
UploadEnded(ok) ==
  /\ asked' = [asked EXCEPT ![xfer.gen] = IF ok THEN "ok" ELSE "failed"]
  /\ xfer' = Idle
  /\ UNCHANGED <<task, saving, owes, gaveUp, tosrv, disk>>

\* on_transfer_end.  The end of a transfer given up on is expected; an end
\* before the accept is taken for the answer to the request.
OnEnd ==
  /\ Heard("End") /\ Calm
  /\ LET m == Head(tocli)
         old == {i \in DOMAIN gaveUp : gaveUp[i] = m.id}
         first == CHOOSE i \in old : \A k \in old : i <= k
     IN CASE old # {} ->
               /\ gaveUp' = [i \in 1..(Len(gaveUp) - 1) |->
                               IF i < first THEN gaveUp[i] ELSE gaveUp[i + 1]]
               /\ UNCHANGED <<asked, xfer, task, saving, owes, tosrv, disk>>
          [] old = {} /\ xfer.stage = "awaiting" ->
               FailTransfer(xfer, "confused", "keep",
                 IF Next1 = "start" /\ Head(owes).gen = xfer.gen
                 THEN Tail(owes) ELSE owes)
          [] old = {} /\ xfer.stage = "running" /\ xfer.id = m.id ->
               IF xfer.way = "upload" THEN UploadEnded(m.n = 1)
               ELSE \E ok \in {FALSE, m.n = 1} : DownloadEnded(ok)
          [] OTHER -> UNCHANGED <<asked, xfer, task, saving, owes, gaveUp,
                                  tosrv, disk>>
  /\ UNCHANGED <<host, shelf>>

\* on_pong: a chunk's barrier makes room in the window.
OnPongT ==
  /\ Heard("Pong") /\ Calm
  /\ owes' = Tail(owes)
  /\ xfer' = IF Next1 = "chunk" /\ Current(Head(owes).gen)
             THEN [xfer EXCEPT !.flying = @ - 1] ELSE xfer
  /\ UNCHANGED <<asked, task, saving, gaveUp, tosrv, host, shelf, disk>>

\* on_error, for a request, for a chunk of the current upload, or for
\* something nobody waits for.
OnErrorT ==
  /\ Heard("Error") /\ Calm
  /\ LET p == Head(owes) IN
     CASE p.is = "start" /\ Current(p.gen) ->
            FailTransfer(xfer, "refused", "keep", Tail(owes))
       [] p.is = "start" /\ ~Current(p.gen) ->
            /\ owes' = Tail(owes)
            /\ UNCHANGED <<asked, xfer, task, saving, gaveUp, tosrv, disk>>
       [] p.is = "chunk" /\ ~p.error /\ Current(p.gen) ->
            FailTransfer(xfer, "refused", "keep",
                         [owes EXCEPT ![1].error = TRUE])
       [] OTHER ->
            /\ owes' = [owes EXCEPT ![1].error = TRUE]
            /\ UNCHANGED <<asked, xfer, task, saving, gaveUp, tosrv, disk>>
  /\ UNCHANGED <<host, shelf>>

\* send_next_chunk, when upload_can_send; the local file may have changed.
SendChunk ==
  /\ xfer.way = "upload" /\ xfer.stage = "running" /\ Calm
  /\ xfer.next <= NumChunks
  /\ xfer.flying = 0 \/ xfer.flying + 1 <= Window
  /\ \/ /\ xfer' = [xfer EXCEPT !.next = @ + 1, !.flying = @ + 1]
        /\ tosrv' = tosrv \o <<Message("Data", xfer.id, xfer.next, 0),
                               PingFrame>>
        /\ owes' = Append(owes, Barrier("chunk", xfer.gen, xfer.next))
        /\ UNCHANGED <<asked, task, saving, gaveUp, tocli, host, shelf, disk>>
     \/ Fails(xfer, "failed", "keep", owes) /\ UNCHANGED tocli

(***************************************************************************)
(* The server's loop.  While a chunk is being written nothing is read, and *)
(* what can be read is read before the download is pumped.                 *)
(***************************************************************************)
clientSide == <<asked, xfer, task, saving, owes, gaveUp, disk, upsets>>
Asked(t) ==
  /\ host.writing = 0 /\ tosrv # <<>>
  /\ Head(tosrv).type = t /\ tosrv' = Tail(tosrv)
Tell(m) == tocli' = Append(tocli, m)
Denied == Tell([type |-> "Error"]) /\ UNCHANGED host

HostPing ==
  /\ Asked("Ping") /\ Tell([type |-> "Pong"])
  /\ UNCHANGED <<clientSide, host, shelf>>

HostStart ==
  /\ Asked("Start")
  /\ LET m == Head(tosrv)
         id == host.ids + 1
     IN \/ Denied
        \/ /\ m.way = "download" /\ host.down = 0
           /\ Tell(Message("Accept", id, 0, shelf))
           /\ host' = [host EXCEPT !.ids = id, !.down = id, !.ver = shelf,
                                   !.todo = Chunks(shelf) \ m.have]
        \/ /\ m.way = "upload" /\ host.up = 0 /\ host.finishing = 0
           /\ Tell(Message("Accept", id, 0, 0))
           /\ host' = [host EXCEPT !.ids = id, !.up = id, !.left = Pieces]
  /\ UNCHANGED <<clientSide, shelf>>

\* Chunks of an upload that the server ended are dropped in silence.
HostData ==
  /\ Asked("Data")
  /\ LET m == Head(tosrv) IN
     CASE m.id = host.up ->
            host' = [host EXCEPT !.writing = m.n] /\ UNCHANGED tocli
       [] m.id # host.up /\ m.id \in {host.ended, host.finishing} ->
            UNCHANGED <<host, tocli>>
       [] OTHER -> Denied
  /\ UNCHANGED <<clientSide, shelf>>

HostEnd ==
  /\ Asked("End")
  /\ LET m == Head(tosrv) IN
     CASE m.id = host.up ->
            host' = [host EXCEPT !.up = 0, !.left = {}] /\ UNCHANGED tocli
       [] m.id = host.down ->
            host' = [host EXCEPT !.down = 0, !.todo = {}] /\ UNCHANGED tocli
       [] m.id \in {host.ended, host.finishing} -> UNCHANGED <<host, tocli>>
       [] OTHER -> Denied
  /\ UNCHANGED <<clientSide, shelf>>

\* ChunkWritten: stored, stored as the last, refused, or failed for good.
ChunkWritten ==
  /\ host.writing # 0
  /\ LET rest == host.left \ {host.writing}
         done == [host EXCEPT !.writing = 0]
     IN \/ /\ UNCHANGED tocli
           /\ host' = IF rest # {} THEN [done EXCEPT !.left = rest]
                      ELSE [done EXCEPT !.left = {}, !.up = 0,
                                        !.finishing = host.up]
        \/ Tell([type |-> "Error"]) /\ host' = done
        \/ /\ Tell(Message("End", host.up, 0, 0))
           /\ host' = [done EXCEPT !.left = {}, !.up = 0, !.ended = host.up]
  /\ UNCHANGED <<clientSide, tosrv, shelf>>

\* Finished: verified and filed, or not.
UploadFinished ==
  /\ host.finishing # 0
  /\ \E ok \in {0, 1} :
       /\ Tell(Message("End", host.finishing, ok, 0))
       /\ host' = [host EXCEPT !.finishing = 0, !.ended = host.finishing,
                     !.filed = IF ok = 1 THEN @ \cup {host.finishing} ELSE @]
  /\ UNCHANGED <<clientSide, tosrv, shelf>>

\* pump_download: one chunk per turn, then the end; or a read fails.
PumpDownload ==
  /\ host.down # 0 /\ tosrv = <<>>
  /\ \/ /\ host.todo # {}
        /\ LET n == CHOOSE i \in host.todo : \A k \in host.todo : i <= k IN
             /\ Tell(Message("Data", host.down, n, host.ver))
             /\ host' = [host EXCEPT !.todo = @ \ {n}]
     \/ /\ host.todo = {} /\ Tell(Message("End", host.down, 1, 0))
        /\ host' = [host EXCEPT !.down = 0]
     \/ /\ Tell(Message("End", host.down, 0, 0))
        /\ host' = [host EXCEPT !.down = 0, !.todo = {}]
  /\ UNCHANGED <<clientSide, tosrv, shelf>>

\* Somebody replaces the remote file.
RemoteChanges ==
  /\ shelf < MaxVersions /\ shelf' = shelf + 1
  /\ UNCHANGED <<clientSide, tosrv, tocli, host>>

\* The connection is lost, or closed, and another one made.
FreshLink ==
  /\ Upset
  /\ asked' = [c \in DOMAIN asked |->
                 IF asked[c] = "open" THEN "gone" ELSE asked[c]]
  /\ xfer' = Idle /\ saving' = NoSidecar
  /\ owes' = <<>> /\ gaveUp' = <<>> /\ tosrv' = <<>> /\ tocli' = <<>>
  /\ host' = [host EXCEPT !.up = 0, !.left = {}, !.writing = 0, !.down = 0,
                          !.finishing = 0, !.ended = 0, !.todo = {}]
  /\ UNCHANGED shelf

\* The end of run: the transfer fails as it does for a cancel, and its jobs
\* go on beside those of the next connection.
LinkLostAndBack ==
  /\ FreshLink
  /\ task' = StillAtWork
  /\ disk' = IF xfer.accepted THEN [disk EXCEPT !.side = SidecarOf(xfer)]
             ELSE disk

\* The client's machine loses power and comes back: the sidecar was synced,
\* the partial's bytes may not have been.
PowerLossAndBack ==
  /\ FreshLink
  /\ task' = {}
  /\ \/ UNCHANGED disk
     \/ /\ disk.data # 0
        /\ disk' = [disk EXCEPT !.files[disk.data] =
                      [i \in DOMAIN @ |-> 0]]

(***************************************************************************)
(* The specification.                                                      *)
(***************************************************************************)
ClientWork ==
  \/ Prepared \/ Verified \/ Published \/ SidecarLands \/ OnAccept
  \/ OnData \/ OnEnd \/ OnPongT \/ OnErrorT \/ SendChunk
HostWork ==
  \/ HostPing \/ HostStart \/ HostData \/ HostEnd \/ ChunkWritten
  \/ UploadFinished \/ PumpDownload

CarryNext ==
  \/ \E c \in DOMAIN Jobs : Busy(c) \/ StartUpload(c) \/ StartDownload(c)
  \/ Cancel \/ AcceptDeadline \/ PoolWork \/ ClientWork \/ HostWork
  \/ RemoteChanges \/ LinkLostAndBack \/ PowerLossAndBack

CarrySpec == CarryInit /\ [][CarryNext]_carryVars

\* The blocking pool runs what it is given, the actor's loop and the
\* server's loop turn, and the server's finish task ends.
CarryFairness ==
  /\ WF_carryVars(ClientWork) /\ WF_carryVars(HostWork)
  /\ WF_carryVars(PoolWork) /\ WF_carryVars(UploadFinished)

(***************************************************************************)
(* Properties.                                                             *)
(***************************************************************************)
\* A transfer is reported done only when it is.  At that moment an upload
\* has been filed by the server, and the destination of a download holds
\* one version of the remote file, whole, whatever was resumed, replaced,
\* lost or left behind by earlier attempts; unless a job of an attempt that
\* was given up was still at work when the check of this one began: such a
\* copy may empty or remove the destination, or put its own there, after the
\* file was published and before the actor hears of it.
AtDestination(v) == disk.dest # 0 /\ disk.files[disk.dest] = WholeFile(v)
SuccessIsWhole ==
  [][\A c \in DOMAIN Jobs :
       asked[c] = "open" /\ asked'[c] = "ok" =>
         IF xfer.way = "download"
         THEN \/ \E v \in 1..MaxVersions : AtDestination(v)
              \/ \E j \in task : j.gen = c /\ ~j.alone
         ELSE xfer.id \in host.filed]_carryVars

\* on_transfer_end: "The server can't end what it hasn't accepted."  No
\* request of a transfer is answered by the end of another.
EndsAreExpected == \A c \in DOMAIN Jobs : asked[c] # "confused"

\* Late accepts, chunks, ends and barriers of a transfer that was given up
\* never hit the next one: no request is answered by another's end, and
\* everything the server sends finds what it answers.
LateIsHarmless ==
  /\ EndsAreExpected
  /\ tocli # <<>> => CASE Head(tocli).type = "Accept" -> Next1 = "start"
                       [] Head(tocli).type = "Pong" ->
                            Next1 \in {"plain", "chunk"}
                       [] Head(tocli).type = "Error" -> Next1 # "nothing"
                       [] OTHER -> TRUE

\* Every transfer ends: uploads and downloads have no timeout of their own
\* once they are accepted.
TransfersEnd ==
  \A c \in DOMAIN Jobs : asked[c] = "open" ~> asked[c] # "open"
=============================================================================
