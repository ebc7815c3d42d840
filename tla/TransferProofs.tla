--------------------------- MODULE TransferProofs ---------------------------
(***************************************************************************)
(* Theorems about TransferRecovery, for every number of connections,       *)
(* uploads, accounts, chunks and names, every cap, and any number of       *)
(* faults, crashes, power losses, edits and sweeps: who owns a staged      *)
(* file, then the counters of the live table, what a finish may file       *)
(* under, what becomes of rows, partial files and blobs, and last how many *)
(* rows an account can have.                                               *)
(***************************************************************************)
EXTENDS TransferRecovery, FiniteSetTheorems, WellFoundedInduction, TLAPS

(* free_name returns one of the free variants whenever there is one: a     *)
(* nonempty set of naturals has a least member.                            *)
LEMMA FreeNameIsFree ==
  ASSUME NEW n \in Nat, NEW taken, FreeNames(n, taken) # {}
  PROVE  FreeName(n, taken) \in FreeNames(n, taken)
<1>1. FreeNames(n, taken) \subseteq Nat
  BY ClaimConstants DEF FreeNames, Names
<1>2. PICK m \in FreeNames(n, taken) :
        \A k \in FreeNames(n, taken) : ~(<<k, m>> \in OpToRel(<, Nat))
  BY <1>1, WFMin, NatLessThanWellFounded
<1>3. ASSUME NEW k \in FreeNames(n, taken) PROVE m <= k
  <2>1. ~(k < m)
    BY <1>1, <1>2 DEF OpToRel
  <2> QED BY <1>1, <2>1
<1> QED BY <1>3 DEF FreeName

(* Counting up or down keeps an account table in range.                    *)
LEMMA CounterType ==
  ASSUME NEW f \in [Accounts -> Nat], NEW a \in Accounts, NEW m \in Nat,
         NEW n \in Nat
  PROVE  /\ SatSub(m, n) \in Nat
         /\ [f EXCEPT ![a] = f[a] + 1] \in [Accounts -> Nat]
         /\ [f EXCEPT ![a] = SatSub(f[a], 1)] \in [Accounts -> Nat]
  BY DEF SatSub

(* The fields of a live table have their types.                            *)
LEMMA LiveFields ==
  ASSUME NEW l \in LiveType
  PROVE  /\ l.held \in SUBSET Uploads /\ l.names \in SUBSET Names
         /\ l.up \in [Accounts -> Nat] /\ l.down \in [Accounts -> Nat]
         /\ l.total \in Nat /\ l.bytes \in Nat
  BY DEF LiveType

(* A live table with new holds, names and counters is a live table.        *)
LEMMA LiveUpdate ==
  ASSUME NEW l \in LiveType, NEW us \in SUBSET Uploads,
         NEW ns \in SUBSET Names, NEW f \in [Accounts -> Nat],
         NEW t \in Nat, NEW b \in Nat
  PROVE  /\ [l EXCEPT !.held = us, !.names = ns, !.up = f, !.total = t,
                      !.bytes = b] \in LiveType
         /\ [l EXCEPT !.down = f, !.total = t] \in LiveType
  BY DEF LiveType

(* Taking and dropping an upload claim keeps the live table in range.      *)
LEMMA ClaimUploadType ==
  ASSUME NEW l \in LiveType, NEW a \in Accounts, NEW u \in Uploads,
         NEW n \in Names \cup {NoName}, NEW b \in Nat
  PROVE  /\ ClaimUpload(l, a, u, n, b) \in LiveType
         /\ ReleaseUpload(l, a, u, n, b) \in LiveType
<1>1. /\ [l.up EXCEPT ![a] = @ + 1] \in [Accounts -> Nat]
      /\ [l.up EXCEPT ![a] = SatSub(@, 1)] \in [Accounts -> Nat]
      /\ SatSub(l.total, 1) \in Nat /\ SatSub(l.bytes, b) \in Nat
  BY LiveFields, CounterType
<1>2. /\ l.names \cup ({n} \ {NoName}) \in SUBSET Names
      /\ l.names \ {n} \in SUBSET Names
      /\ l.held \cup {u} \in SUBSET Uploads /\ l.held \ {u} \in SUBSET Uploads
      /\ l.total + 1 \in Nat /\ l.bytes + b \in Nat
  BY LiveFields
<1> QED BY <1>1, <1>2, LiveUpdate DEF ClaimUpload, ReleaseUpload

(* The same for a download.                                                *)
LEMMA ClaimDownloadType ==
  ASSUME NEW l \in LiveType, NEW a \in Accounts
  PROVE  /\ ClaimDownload(l, a) \in LiveType
         /\ ReleaseDownload(l, a) \in LiveType
<1>1. /\ [l.down EXCEPT ![a] = @ + 1] \in [Accounts -> Nat]
      /\ [l.down EXCEPT ![a] = SatSub(@, 1)] \in [Accounts -> Nat]
      /\ SatSub(l.total, 1) \in Nat
  BY LiveFields, CounterType
<1>2. /\ l.held \in SUBSET Uploads /\ l.names \in SUBSET Names
      /\ l.bytes \in Nat /\ l.total + 1 \in Nat
  BY LiveFields
<1> QED BY <1>1, <1>2, LiveUpdate DEF ClaimDownload, ReleaseDownload

(* The same for a plain hold.                                              *)
LEMMA HoldType ==
  ASSUME NEW l \in LiveType, NEW us \in SUBSET Uploads
  PROVE  Hold(l, us) \in LiveType /\ Unhold(l, us) \in LiveType
  BY DEF LiveType, Hold, Unhold

(* What a power loss can bring back are states there have been.            *)
LEMMA RecentType ==
  ASSUME NEW S, NEW old \in Seq(S), NEW s \in S, NEW t
  PROVE  Recent(old, s, t) \in Seq(S)
  BY TransferConstants DEF Recent

(* sync_dir forgets directory states or keeps them.                        *)
LEMMA SyncDirType ==
  ASSUME NEW S, NEW old \in Seq(S), SyncDir(old)
  PROVE  fsPast' \in Seq(S)
<1>1. <<>> \in Seq(S)
  OBVIOUS
<1> QED BY <1>1 DEF SyncDir

(* A commit of tables in range leaves the database in range.               *)
LEMMA CommitType ==
  ASSUME DbType, NEW r \in RowTable, NEW e \in EntryTable,
         NEW w \in SUBSET Uploads, Commit(r, e, w)
  PROVE  DbType'
<1>1. <<row, entry, away>> \in DbStates
  BY DEF DbType, DbStates
<1>2. past' \in Seq(DbStates)
  BY <1>1, RecentType DEF DbType, Commit
<1> QED BY <1>2 DEF DbType, Commit

(* The same for directory operations.                                      *)
LEMMA DirType ==
  ASSUME FsType, NEW p \in SUBSET Uploads, NEW b \in SUBSET Uploads,
         NEW q \in QuarTable, Dir(p, b, q),
         data' \in [Uploads -> [Chunks -> Bytes]], synced' \subseteq Uploads
  PROVE  FsType'
<1>1. <<parts, blobs, quar>> \in DirStates
  BY DEF FsType, DirStates
<1>2. fsPast' \in Seq(DirStates)
  BY <1>1, RecentType DEF FsType, Dir
<1> QED BY <1>2 DEF FsType, Dir

(* Deleting a row and saving a bitmap give row tables.                     *)
LEMMA RowUpdates ==
  ASSUME DbType, NEW u \in Uploads
  PROVE  /\ DeleteRow(u) \in RowTable
         /\ \A bs \in SUBSET Chunks : SaveBits(u, bs) \in RowTable
         /\ \A n \in Names :
              [row EXCEPT ![u] = IF @ = NoRow THEN @
                 ELSE [@ EXCEPT !.name = n, !.old = FALSE]] \in RowTable
         /\ \A n \in Names, a \in Accounts :
              [row EXCEPT ![u] = [acct |-> a, name |-> n, bits |-> {},
                                  old |-> FALSE]] \in RowTable
<1> USE DEF DbType, RowTable, Rows
<1>1. DeleteRow(u) \in RowTable
  BY DEF DeleteRow
<1>2. ASSUME NEW bs \in SUBSET Chunks PROVE SaveBits(u, bs) \in RowTable
  BY DEF SaveBits
<1> QED BY <1>1, <1>2

(* A task that ends leaves its variables in range.                         *)
LEMMA LeaveType ==
  ASSUME UpType, live \in LiveType, NEW c \in Conns,
         claim[c].on => tid[c] \in Uploads, Leave(c)
  PROVE  UpType' /\ live' \in LiveType
<1>1. Acct(c) \in Accounts
  BY TransferConstants DEF Acct
<1>2. claim[c] \in Claims /\ hold[c] \in SUBSET Uploads
  BY DEF UpType
<1>3. claim[c].on => ReleaseUpload(live, Acct(c), tid[c], claim[c].dest,
                                   claim[c].bytes) \in LiveType
  BY <1>1, <1>2, ClaimUploadType DEF Claims
<1>4. live' \in LiveType
  BY <1>2, <1>3, HoldType DEF Leave
<1>5. UpType'
  BY DEF UpType, Leave, Goto, Labels, Claims, NoClaim
<1> QED BY <1>4, <1>5

(* The same for a task that may have progress to save first.               *)
LEMMA LetGoType ==
  ASSUME UpType, live \in LiveType, NEW c \in Conns,
         claim[c].on => tid[c] \in Uploads, LetGo(c)
  PROVE  UpType' /\ live' \in LiveType
<1>1. CASE dirty[c]
  BY <1>1 DEF LetGo, UpType, Goto, Labels
<1>2. CASE ~dirty[c]
  BY <1>2, LeaveType DEF LetGo
<1> QED BY <1>1, <1>2

(* A claim taken is a claim.                                               *)
LEMMA TakeClaimType ==
  ASSUME UpType, live \in LiveType, NEW c \in Conns, NEW u \in Uploads,
         NEW n \in Names \cup {NoName}, NEW b \in Nat, TakeClaim(c, u, n, b)
  PROVE  live' \in LiveType /\ claim' \in [Conns -> Claims]
<1>1. Acct(c) \in Accounts
  BY TransferConstants DEF Acct
<1> QED BY <1>1, ClaimUploadType DEF TakeClaim, UpType, Claims

(* claim_into finds a name, exact or the first free variant.               *)
LEMMA ClaimIntoType ==
  ASSUME UpType, live \in LiveType, NEW c \in Conns, NEW u \in Uploads,
         name[c] \in Names, NEW b \in Nat, ClaimInto(c, u, b)
  PROVE  /\ live' \in LiveType /\ claim' \in [Conns -> Claims]
         /\ name' \in [Conns -> Names \cup {NoName}] /\ name'[c] \in Names
<1> DEFINE taken == Taken \cup live.names
           n == IF Blind(c) THEN FreeName(name[c], taken) ELSE name[c]
<1>1. n \in Names
  <2>1. CASE Blind(c)
    <3>1. FreeNames(name[c], taken) # {}
      BY <2>1 DEF ClaimInto
    <3>2. name[c] \in Nat
      BY ClaimConstants DEF Names
    <3>3. FreeName(name[c], taken) \in FreeNames(name[c], taken)
      BY <3>1, <3>2, FreeNameIsFree
    <3> QED BY <2>1, <3>3 DEF FreeNames
  <2>2. CASE ~Blind(c)
    BY <2>2
  <2> QED BY <2>1, <2>2
<1>2. TakeClaim(c, u, n, b) /\ name' = [name EXCEPT ![c] = n]
  BY DEF ClaimInto
<1> HIDE DEF n
<1> QED BY <1>1, <1>2, TakeClaimType DEF UpType

(* The numbers a task counts down from are naturals.                       *)
LEMMA Counting ==
  /\ Cardinality(Chunks) \in Nat
  /\ \A bs \in SUBSET Chunks : Cardinality(Chunks \ bs) \in Nat
  /\ \A us \in SUBSET Uploads : Cardinality(us) \in Nat
<1>1. Cardinality(Chunks) \in Nat
  BY TransferConstants, FS_CardinalityType
<1>2. ASSUME NEW bs \in SUBSET Chunks PROVE Cardinality(Chunks \ bs) \in Nat
  BY TransferConstants, FS_CardinalityType, FS_Subset,
     Chunks \ bs \subseteq Chunks
<1>3. ASSUME NEW us \in SUBSET Uploads PROVE Cardinality(us) \in Nat
  BY TransferConstants, FS_CardinalityType, FS_Subset
<1> QED BY <1>1, <1>2, <1>3

(* Variables that do not change keep their types.                          *)
LEMMA SameTypes ==
  /\ DbType /\ UNCHANGED dbVars => DbType'
  /\ FsType /\ UNCHANGED fsVars => FsType'
  /\ UpType /\ UNCHANGED upVars => UpType'
  BY DEF DbType, FsType, UpType, dbVars, fsVars, upVars

(* Every step of a connection keeps every variable in range.               *)
LEMMA ConnStepType ==
  ASSUME TypeOK, TaskShape, NEW c \in Conns, ConnStep(c)
  PROVE  TypeOK'
<1> USE DEF TypeOK
<1>t. /\ Acct(c) \in Accounts
      /\ pc[c] \notin {"idle", "prepared"} => tid[c] \in Uploads
      /\ pc[c] # "idle" => name[c] \in Names
      /\ claim[c].on => tid[c] \in Uploads
  BY TransferConstants DEF Acct, TaskShape, Shape, Bare, UpType
<1>d. row \in RowTable /\ entry \in EntryTable /\ away \in SUBSET Uploads
  BY DEF DbType
<1>f. /\ parts \in SUBSET Uploads /\ blobs \in SUBSET Uploads
      /\ quar \in QuarTable /\ synced \in SUBSET Uploads
      /\ data \in [Uploads -> [Chunks -> Bytes]]
  BY DEF FsType
<1>u. /\ live \in LiveType /\ hold[c] \in SUBSET Uploads
      /\ bits[c] \in SUBSET Chunks
  BY DEF UpType, ServerType
<1>s. UNCHANGED <<sweepVars, unlinking, counts>>
  BY DEF ConnStep
<1>1. CASE Prepare(c)
  <2>1. DbType'
    BY <1>1, SameTypes DEF Prepare
  <2>2. FsType'
    BY <1>1, SameTypes DEF Prepare
  <2>3. UpType' /\ live' \in LiveType
    BY <1>1, <1>u DEF Prepare, UpType, Goto, Labels
  <2> QED BY <1>1, <1>s, <1>t, <2>1, <2>2, <2>3
    DEF Prepare, ServerType, envVars, sweepVars, counts, NoFault, AFault
<1>2. CASE Claim(c)
  <2>1. DbType'
    BY <1>2, SameTypes DEF Claim
  <2>2. FsType'
    BY <1>2, SameTypes DEF Claim
  <2>3. UpType' /\ live' \in LiveType
    <3>1. PICK u \in Uploads \ used :
            /\ ClaimInto(c, u, Cardinality(Chunks))
            /\ tid' = [tid EXCEPT ![c] = u]
      BY <1>2 DEF Claim
    <3>2. name[c] \in Names
      BY <1>2, <1>t DEF Claim
    <3>3. /\ live' \in LiveType /\ claim' \in [Conns -> Claims]
          /\ name' \in [Conns -> Names \cup {NoName}]
      BY <1>u, <3>1, <3>2, ClaimIntoType, Counting
    <3> QED BY <1>2, <3>1, <3>3 DEF Claim, UpType, Goto, Labels
  <2> QED BY <1>2, <1>s, <1>t, <2>1, <2>2, <2>3
    DEF Claim, ServerType, envVars, sweepVars, counts, NoFault, AFault
<1>3. CASE ClaimRefused(c)
  <2>1. DbType'
    BY <1>3, SameTypes DEF ClaimRefused
  <2>2. FsType'
    BY <1>3, SameTypes DEF ClaimRefused
  <2>3. UpType' /\ live' \in LiveType
    BY <1>3, <1>t, <1>u, LeaveType DEF ClaimRefused
  <2> QED BY <1>3, <1>s, <1>t, <2>1, <2>2, <2>3
    DEF ClaimRefused, ServerType, envVars, sweepVars, counts, NoFault, AFault
<1>4. CASE ListOpen(c)
  <2>1. DbType'
    BY <1>4, SameTypes DEF ListOpen
  <2>2. FsType'
    BY <1>4, SameTypes DEF ListOpen
  <2>3. UpType' /\ live' \in LiveType
    <3>1. CASE Leave(c)
      BY <3>1, <1>t, <1>u, LeaveType
    <3>2. CASE ~Leave(c)
      <4>1. MyRows(Acct(c)) \in SUBSET Uploads
        BY DEF MyRows
      <4>2. need' \in [Conns -> Nat]
        BY <1>4, <3>2, <4>1, Counting, TransferConstants
           DEF ListOpen, Excess, RowCap, SatSub, UpType
      <4> QED BY <1>4, <1>u, <3>2, <4>1, <4>2 DEF ListOpen, UpType, Goto, Labels
    <3> QED BY <3>1, <3>2
  <2> QED BY <1>4, <1>s, <1>t, <2>1, <2>2, <2>3
    DEF ListOpen, ServerType, envVars, sweepVars, counts, NoFault, AFault
<1>5. CASE EvictSkip(c)
  <2>1. DbType'
    BY <1>5, SameTypes DEF EvictSkip
  <2>2. FsType'
    BY <1>5, SameTypes DEF EvictSkip
  <2>3. UpType' /\ live' \in LiveType
    BY <1>5, <1>u DEF EvictSkip, UpType, Goto, Labels
  <2> QED BY <1>5, <1>s, <1>t, <2>1, <2>2, <2>3
    DEF EvictSkip, ServerType, envVars, sweepVars, counts, NoFault, AFault
<1>6. CASE Evict(c)
  <2>1. DbType'
    <3>1. PICK v \in victims[c] :
            Commit(DeleteRow(v), entry, away) \/ UNCHANGED dbVars
      BY <1>6 DEF Evict
    <3>2. v \in Uploads
      BY DEF UpType
    <3> QED BY <1>d, <3>1, <3>2, SameTypes, CommitType, RowUpdates
  <2>2. FsType'
    BY <1>6, SameTypes DEF Evict
  <2>3. UpType' /\ live' \in LiveType
    <3>1. PICK v \in victims[c] \ live.held :
            /\ live' = Hold(live, {v}) /\ hold' = [hold EXCEPT ![c] = {v}]
            /\ victims' = [victims EXCEPT ![c] = @ \ {v}]
      BY <1>6 DEF Evict
    <3>2. v \in Uploads
      BY DEF UpType
    <3>3. live' \in LiveType
      BY <1>u, <3>1, <3>2, HoldType
    <3> QED BY <1>6, <3>1, <3>2, <3>3 DEF Evict, UpType, Goto, Labels
  <2> QED BY <1>6, <1>s, <1>t, <2>1, <2>2, <2>3
    DEF Evict, ServerType, envVars, sweepVars, counts, NoFault, AFault
<1>7. CASE EvictPart(c)
  <2>1. DbType'
    BY <1>7, SameTypes DEF EvictPart
  <2>2. FsType'
    BY <1>7, <1>t, <1>f, <1>u, SameTypes, DirType DEF EvictPart
  <2>3. UpType' /\ live' \in LiveType
    <3>1. live' \in LiveType
      BY <1>7, <1>u, HoldType DEF EvictPart
    <3>2. need[c] \in Nat /\ need[c] > 0
      BY <1>7 DEF EvictPart, TaskShape, Shape, UpType
    <3> QED BY <1>7, <3>1, <3>2 DEF EvictPart, UpType, Goto, Labels
  <2> QED BY <1>7, <1>s, <1>t, <2>1, <2>2, <2>3
    DEF EvictPart, ServerType, envVars, sweepVars, counts, NoFault, AFault
<1>8. CASE EvictFailed(c)
  <2>1. DbType'
    BY <1>8, SameTypes DEF EvictFailed
  <2>2. FsType'
    BY <1>8, SameTypes DEF EvictFailed
  <2>3. UpType' /\ live' \in LiveType
    BY <1>8, <1>t, <1>u, LeaveType DEF EvictFailed
  <2> QED BY <1>8, <1>s, <1>t, <2>1, <2>2, <2>3
    DEF EvictFailed, ServerType, envVars, sweepVars, counts, NoFault, AFault
<1>9. CASE RoomMade(c)
  <2>1. DbType'
    BY <1>9, SameTypes DEF RoomMade
  <2>2. FsType'
    BY <1>9, SameTypes DEF RoomMade
  <2>3. UpType' /\ live' \in LiveType
    BY <1>9, <1>u DEF RoomMade, UpType, Goto, Labels
  <2> QED BY <1>9, <1>s, <1>t, <2>1, <2>2, <2>3
    DEF RoomMade, ServerType, envVars, sweepVars, counts, NoFault, AFault
<1>10. CASE MkPart(c)
  <2>1. DbType'
    BY <1>10, SameTypes DEF MkPart
  <2>2. FsType'
    <3>1. [data EXCEPT ![tid[c]] = Holes] \in [Uploads -> [Chunks -> Bytes]]
      BY <1>f DEF Holes, Bytes
    <3> QED BY <1>10, <1>t, <1>f, <3>1, SameTypes, DirType DEF MkPart
  <2>3. UpType' /\ live' \in LiveType
    BY <1>10, <1>t, <1>u, LeaveType DEF MkPart, UpType, Goto, Labels
  <2> QED BY <1>10, <1>s, <1>t, <2>1, <2>2, <2>3
    DEF MkPart, ServerType, envVars, sweepVars, counts, NoFault, AFault
<1>11. CASE MkRow(c)
  <2>1. DbType'
    BY <1>11, <1>t, <1>d, <1>u, SameTypes, CommitType, RowUpdates DEF MkRow
  <2>2. FsType'
    BY <1>11, <1>t, <1>f, <1>u, SameTypes, DirType DEF MkRow
  <2>3. UpType' /\ live' \in LiveType
    BY <1>11, <1>t, <1>u, LeaveType DEF MkRow, UpType, Goto, Labels
  <2> QED BY <1>11, <1>s, <1>t, <2>1, <2>2, <2>3
    DEF MkRow, ServerType, envVars, sweepVars, counts, NoFault, AFault
<1>12. CASE Resume(c)
  <2>1. DbType'
    BY <1>12, SameTypes DEF Resume
  <2>2. FsType'
    BY <1>12, SameTypes DEF Resume
  <2>3. UpType' /\ live' \in LiveType
    <3>1. PICK u \in MyRows(Acct(c)) :
            /\ tid' = [tid EXCEPT ![c] = u]
            /\ name' = [name EXCEPT ![c] = row[u].name]
            /\ bits' = [bits EXCEPT ![c] = row[u].bits]
      BY <1>12 DEF Resume
    <3>2. /\ u \in Uploads /\ row[u].name \in Names
          /\ row[u].bits \in SUBSET Chunks
      BY <1>d DEF MyRows, HasRow, RowTable, Rows
    <3> QED BY <1>12, <1>u, <3>1, <3>2 DEF Resume, UpType, Goto, Labels
  <2> QED BY <1>12, <1>s, <1>t, <2>1, <2>2, <2>3
    DEF Resume, ServerType, envVars, sweepVars, counts, NoFault, AFault
<1>13. CASE ResumeFind(c)
  <2>1. DbType'
    BY <1>13, SameTypes DEF ResumeFind
  <2>2. FsType'
    BY <1>13, SameTypes DEF ResumeFind
  <2>3. UpType' /\ live' \in LiveType
    BY <1>13, <1>u DEF ResumeFind, UpType, Goto, Labels
  <2> QED BY <1>13, <1>s, <1>t, <2>1, <2>2, <2>3
    DEF ResumeFind, ServerType, envVars, sweepVars, counts, NoFault, AFault
<1>14. CASE ResumePrepare(c)
  <2>1. DbType'
    BY <1>14, SameTypes DEF ResumePrepare
  <2>2. FsType'
    BY <1>14, SameTypes DEF ResumePrepare
  <2>3. UpType' /\ live' \in LiveType
    BY <1>14, <1>u DEF ResumePrepare, UpType, Goto, Labels
  <2> QED BY <1>14, <1>s, <1>t, <2>1, <2>2, <2>3
    DEF ResumePrepare, ServerType, envVars, sweepVars, counts, NoFault, AFault
<1>15. CASE ResumeRefused(c)
  <2>1. DbType'
    BY <1>15, SameTypes DEF ResumeRefused
  <2>2. FsType'
    BY <1>15, SameTypes DEF ResumeRefused
  <2>3. UpType' /\ live' \in LiveType
    <3>1. CASE Leave(c)
      BY <3>1, <1>t, <1>u, LeaveType
    <3>2. CASE ~Leave(c)
      <4>1. /\ live' = Hold(live, {tid[c]}) /\ tid[c] \in Uploads
            /\ hold' = [hold EXCEPT ![c] = {tid[c]}]
        BY <1>15, <1>t, <3>2 DEF ResumeRefused
      <4>2. live' \in LiveType
        BY <1>u, <4>1, HoldType
      <4> QED BY <1>15, <3>2, <4>1, <4>2 DEF ResumeRefused, UpType, Goto, Labels
    <3> QED BY <3>1, <3>2
  <2> QED BY <1>15, <1>s, <1>t, <2>1, <2>2, <2>3
    DEF ResumeRefused, ServerType, envVars, sweepVars, counts, NoFault, AFault
<1>16. CASE ResumeClaim(c)
  <2>1. DbType'
    BY <1>16, SameTypes DEF ResumeClaim
  <2>2. FsType'
    BY <1>16, SameTypes DEF ResumeClaim
  <2>3. UpType' /\ live' \in LiveType
    <3>1. tid[c] \in Uploads /\ name[c] \in Names
      BY <1>16, <1>t DEF ResumeClaim
    <3>2. Remaining(c) \in Nat
      BY <1>u, Counting DEF Remaining
    <3>3. /\ live' \in LiveType /\ claim' \in [Conns -> Claims]
          /\ name' \in [Conns -> Names \cup {NoName}]
      <4>1. CASE ClaimInto(c, tid[c], Remaining(c))
        BY <1>u, <3>1, <3>2, <4>1, ClaimIntoType
      <4>2. CASE TakeClaim(c, tid[c], NoName, Remaining(c)) /\ UNCHANGED name
        BY <1>u, <3>1, <3>2, <4>2, TakeClaimType DEF UpType
      <4> QED BY <1>16, <4>1, <4>2 DEF ResumeClaim
    <3> QED BY <1>16, <3>3 DEF ResumeClaim, UpType, Goto, Labels
  <2> QED BY <1>16, <1>s, <1>t, <2>1, <2>2, <2>3
    DEF ResumeClaim, ServerType, envVars, sweepVars, counts, NoFault, AFault
<1>17. CASE ResumeOpen(c)
  <2>1. DbType'
    BY <1>17, <1>t, <1>d, <1>u, SameTypes, CommitType, RowUpdates DEF ResumeOpen
  <2>2. FsType'
    BY <1>17, SameTypes DEF ResumeOpen
  <2>3. UpType' /\ live' \in LiveType
    BY <1>17, <1>u DEF ResumeOpen, UpType, Goto, Labels
  <2> QED BY <1>17, <1>s, <1>t, <2>1, <2>2, <2>3
    DEF ResumeOpen, ServerType, envVars, sweepVars, counts, NoFault, AFault
<1>18. CASE WriteChunk(c)
  <2>1. DbType'
    <3>1. PICK bs \in SUBSET Chunks :
            UNCHANGED dbVars \/ Commit(SaveBits(tid[c], bs), entry, away)
      BY <1>18, <1>u DEF WriteChunk
    <3> QED BY <1>18, <1>t, <1>d, <3>1, SameTypes, CommitType, RowUpdates
              DEF WriteChunk
  <2>2. FsType'
    BY <1>18, <1>t DEF WriteChunk, FsType, Bytes
  <2>3. UpType' /\ live' \in LiveType
    <3>1. PICK k \in Chunks :
            /\ bits' = [bits EXCEPT ![c] = bits[c] \cup {k}]
            /\ Goto(c, "verify") \/ Goto(c, "live")
            /\ \/ dirty' = [dirty EXCEPT ![c] = TRUE]
               \/ dirty' = [dirty EXCEPT ![c] = FALSE]
      BY <1>18 DEF WriteChunk
    <3>2. bits' \in [Conns -> SUBSET Chunks] /\ dirty' \in [Conns -> BOOLEAN]
      BY <3>1 DEF UpType
    <3>3. pc' \in [Conns -> Labels]
      BY <3>1 DEF UpType, Goto, Labels
    <3> QED BY <1>18, <1>u, <3>2, <3>3 DEF WriteChunk, UpType
  <2> QED BY <1>18, <1>s, <1>t, <2>1, <2>2, <2>3
    DEF WriteChunk, ServerType, envVars, sweepVars, counts, NoFault, AFault
<1>19. CASE Release(c)
  <2>1. DbType'
    BY <1>19, <1>t, <1>d, <1>u, SameTypes, CommitType, RowUpdates DEF Release
  <2>2. FsType'
    BY <1>19, SameTypes DEF Release
  <2>3. UpType' /\ live' \in LiveType
    BY <1>19, <1>t, <1>u, LeaveType DEF Release
  <2> QED BY <1>19, <1>s, <1>t, <2>1, <2>2, <2>3
    DEF Release, ServerType, envVars, sweepVars, counts, NoFault, AFault
<1>20. CASE Disconnect(c)
  <2>1. DbType'
    BY <1>20, SameTypes DEF Disconnect
  <2>2. FsType'
    BY <1>20, SameTypes DEF Disconnect
  <2>3. UpType' /\ live' \in LiveType
    BY <1>20, <1>t, <1>u, LetGoType DEF Disconnect
  <2> QED BY <1>20, <1>s, <1>t, <2>1, <2>2, <2>3
    DEF Disconnect, ServerType, envVars, sweepVars, counts, NoFault, AFault
<1>21. CASE SaveThenLeave(c)
  <2>1. DbType'
    BY <1>21, <1>t, <1>d, <1>u, SameTypes, CommitType, RowUpdates
       DEF SaveThenLeave
  <2>2. FsType'
    BY <1>21, SameTypes DEF SaveThenLeave
  <2>3. UpType' /\ live' \in LiveType
    BY <1>21, <1>t, <1>u, LeaveType DEF SaveThenLeave
  <2> QED BY <1>21, <1>s, <1>t, <2>1, <2>2, <2>3
    DEF SaveThenLeave, ServerType, envVars, sweepVars, counts, NoFault, AFault
<1>22. CASE Verify(c)
  <2>1. DbType'
    BY <1>22, <1>t, <1>d, <1>u, SameTypes, CommitType, RowUpdates DEF Verify
  <2>2. FsType'
    BY <1>22, SameTypes DEF Verify
  <2>3. UpType' /\ live' \in LiveType
    BY <1>22, <1>u DEF Verify, UpType, Goto, Labels
  <2> QED BY <1>22, <1>s, <1>t, <2>1, <2>2, <2>3
    DEF Verify, ServerType, envVars, sweepVars, counts, NoFault, AFault
<1>23. CASE HashFile(c)
  <2>1. DbType'
    BY <1>23, SameTypes DEF HashFile
  <2>2. FsType'
    <3>1. synced' \in SUBSET Uploads
      BY <1>23, <1>t, <1>f DEF HashFile
    <3>2. fsPast' = <<>> \/ fsPast' = fsPast
      BY <1>23 DEF HashFile
    <3>3. UNCHANGED <<parts, blobs, quar, data>>
      BY <1>23 DEF HashFile
    <3>4. <<>> \in Seq(DirStates) /\ fsPast \in Seq(DirStates)
      BY DEF FsType
    <3>5. fsPast' \in Seq(DirStates)
      BY <3>2, <3>4, Zenon
    <3> QED BY <3>1, <3>3, <3>5 DEF FsType
  <2>3. UpType' /\ live' \in LiveType
    BY <1>23, <1>u DEF HashFile, UpType, Goto, Labels
  <2> QED BY <1>23, <1>s, <1>t, <2>1, <2>2, <2>3
    DEF HashFile, ServerType, envVars, sweepVars, counts, NoFault, AFault
<1>24. CASE File(c)
  <2>1. DbType'
    <3>1. UNCHANGED dbVars \/ \E n \in Names : FileAs(c, n)
      <4>1. ASSUME NEW taken, FreeNames(name[c], taken) # {}
            PROVE  FreeName(name[c], taken) \in Names
        BY <1>24, <1>t, <4>1, FreeNameIsFree, ClaimConstants
           DEF File, FreeNames, Names
      <4> QED BY <1>24, <1>t, <4>1 DEF File
    <3>2. \A n \in Names : [entry EXCEPT ![n] = tid[c]] \in EntryTable
      BY <1>24, <1>t, <1>d DEF File, EntryTable
    <3> QED BY <1>d, <3>1, <3>2, SameTypes, CommitType DEF FileAs
  <2>2. FsType'
    BY <1>24, SameTypes DEF File
  <2>3. UpType' /\ live' \in LiveType
    <3>1. Goto(c, "rename") \/ Goto(c, "dropRow")
      BY <1>24 DEF File, FileAs
    <3> QED BY <1>24, <1>u, <3>1 DEF File, UpType, Goto, Labels
  <2> QED BY <1>24, <1>s, <1>t, <2>1, <2>2, <2>3
    DEF File, ServerType, envVars, sweepVars, counts, NoFault, AFault
<1>25. CASE FileLater(c)
  <2>1. DbType'
    BY <1>25, SameTypes DEF FileLater
  <2>2. FsType'
    BY <1>25, SameTypes DEF FileLater
  <2>3. UpType' /\ live' \in LiveType
    BY <1>25, <1>t, <1>u, LetGoType DEF FileLater
  <2> QED BY <1>25, <1>s, <1>t, <2>1, <2>2, <2>3
    DEF FileLater, ServerType, envVars, sweepVars, counts, NoFault, AFault
<1>26. CASE Rename(c)
  <2>1. DbType'
    BY <1>26, SameTypes DEF Rename
  <2>2. FsType'
    BY <1>26, <1>t, <1>f, <1>u, SameTypes, DirType DEF Rename, fsVars
  <2>3. UpType' /\ live' \in LiveType
    BY <1>26, <1>u DEF Rename, UpType, Goto, Labels
  <2> QED BY <1>26, <1>s, <1>t, <2>1, <2>2, <2>3
    DEF Rename, ServerType, envVars, sweepVars, counts, NoFault, AFault
<1>27. CASE Undo(c)
  <2>1. DbType'
    <3>1. /\ [n \in Names |-> IF entry[n] = tid[c] THEN Free ELSE entry[n]]
               \in EntryTable
          /\ away \ {tid[c]} \in SUBSET Uploads
      BY <1>d DEF EntryTable
    <3> QED BY <1>27, <1>d, <3>1, SameTypes, CommitType DEF Undo
  <2>2. FsType'
    BY <1>27, SameTypes DEF Undo
  <2>3. UpType' /\ live' \in LiveType
    BY <1>27, <1>t, <1>u, LetGoType DEF Undo
  <2> QED BY <1>27, <1>s, <1>t, <2>1, <2>2, <2>3
    DEF Undo, ServerType, envVars, sweepVars, counts, NoFault, AFault
<1>28. CASE Finished(c)
  <2>1. DbType'
    BY <1>28, <1>t, <1>d, <1>u, SameTypes, CommitType, RowUpdates DEF Finished
  <2>2. FsType'
    <3>1. fsPast' \in Seq(DirStates)
      BY <1>28, SyncDirType DEF Finished, FsType
    <3> QED BY <1>28, <3>1 DEF Finished, FsType
  <2>3. UpType' /\ live' \in LiveType
    BY <1>28, <1>t, <1>u, LetGoType DEF Finished
  <2> QED BY <1>28, <1>s, <1>t, <2>1, <2>2, <2>3
    DEF Finished, ServerType, envVars, sweepVars, counts, NoFault, AFault
<1>29. CASE DropRow(c)
  <2>1. DbType'
    BY <1>29, <1>t, <1>d, <1>u, SameTypes, CommitType, RowUpdates DEF DropRow
  <2>2. FsType'
    BY <1>29, SameTypes DEF DropRow
  <2>3. UpType' /\ live' \in LiveType
    BY <1>29, <1>u DEF DropRow, UpType, Goto, Labels
  <2> QED BY <1>29, <1>s, <1>t, <2>1, <2>2, <2>3
    DEF DropRow, ServerType, envVars, sweepVars, counts, NoFault, AFault
<1>30. CASE DropPart(c)
  <2>1. DbType'
    BY <1>30, SameTypes DEF DropPart
  <2>2. FsType'
    BY <1>30, <1>t, <1>f, <1>u, SameTypes, DirType DEF DropPart
  <2>3. UpType' /\ live' \in LiveType
    BY <1>30, <1>t, <1>u, LeaveType DEF DropPart
  <2> QED BY <1>30, <1>s, <1>t, <2>1, <2>2, <2>3
    DEF DropPart, ServerType, envVars, sweepVars, counts, NoFault, AFault
<1>31. CASE OpenForRead(c)
  <2>1. DbType'
    BY <1>31, SameTypes DEF OpenForRead
  <2>2. FsType'
    BY <1>31, SameTypes DEF OpenForRead
  <2>3. UpType' /\ live' \in LiveType
    BY <1>31, <1>t, <1>u, SameTypes, ClaimDownloadType DEF OpenForRead
  <2> QED BY <1>31, <1>s, <1>t, <2>1, <2>2, <2>3
    DEF OpenForRead, ServerType, envVars, sweepVars, counts, NoFault, AFault,
        EntryTable, DbType
<1>32. CASE EndDownload(c)
  <2>1. DbType'
    BY <1>32, SameTypes DEF EndDownload
  <2>2. FsType'
    BY <1>32, SameTypes DEF EndDownload
  <2>3. UpType' /\ live' \in LiveType
    BY <1>32, <1>t, <1>u, SameTypes, ClaimDownloadType DEF EndDownload
  <2> QED BY <1>32, <1>s, <1>t, <2>1, <2>2, <2>3
    DEF EndDownload, ServerType, envVars, sweepVars, counts, NoFault, AFault
<1> QED BY <1>1, <1>2, <1>3, <1>4, <1>5, <1>6, <1>7, <1>8, <1>9, <1>10,
     <1>11, <1>12, <1>13, <1>14, <1>15, <1>16, <1>17, <1>18, <1>19, <1>20,
     <1>21, <1>22, <1>23, <1>24, <1>25, <1>26, <1>27, <1>28, <1>29, <1>30,
     <1>31, <1>32 DEF ConnStep, Request, Handle

(* The same for users, time and unlinking.                                 *)
LEMMA WorldStepType ==
  ASSUME TypeOK, DeleteEntry \/ Unlink \/ EditFolder \/ Age
  PROVE  TypeOK'
<1> USE DEF TypeOK
<1>d. row \in RowTable /\ entry \in EntryTable /\ away \in SUBSET Uploads
  BY DEF DbType
<1>f. /\ parts \in SUBSET Uploads /\ blobs \in SUBSET Uploads
      /\ quar \in QuarTable /\ synced \in SUBSET Uploads
      /\ data \in [Uploads -> [Chunks -> Bytes]]
  BY DEF FsType
<1>1. CASE DeleteEntry
  <2>1. PICK u \in Uploads, e \in EntryTable, w \in SUBSET Uploads :
          Deleted(u, e, w)
    BY <1>1, <1>d DEF DeleteEntry, EntryTable
  <2>2. DbType'
    BY <1>d, <2>1, CommitType DEF Deleted
  <2>3. FsType' /\ UpType'
    BY <1>1, SameTypes DEF DeleteEntry
  <2> QED BY <1>1, <2>1, <2>2, <2>3
         DEF DeleteEntry, Deleted, AnEdit, ServerType, sweepVars
<1>2. CASE Unlink
  <2>1. PICK u \in unlinking : /\ Dir(parts, blobs \ {u}, quar)
                               /\ unlinking' = unlinking \ {u}
    BY <1>2 DEF Unlink
  <2>2. FsType'
    BY <1>2, <1>f, <2>1, DirType DEF Unlink
  <2>3. DbType' /\ UpType'
    BY <1>2, SameTypes DEF Unlink
  <2> QED BY <1>2, <2>1, <2>2, <2>3
         DEF Unlink, ServerType, sweepVars, envVars, counts
<1>3. CASE EditFolder
  <2>1. PICK e \in EntryTable, w \in SUBSET Uploads : Commit(row, e, w)
    BY <1>3, <1>d DEF EditFolder, EntryTable
  <2>2. DbType'
    BY <1>d, <2>1, CommitType
  <2>3. FsType' /\ UpType'
    BY <1>3, SameTypes DEF EditFolder
  <2> QED BY <1>3, <2>2, <2>3
         DEF EditFolder, AnEdit, ServerType, sweepVars, envVars
<1>4. CASE Age
  <2>1. row' \in RowTable
    BY <1>4, <1>d DEF Age, RowTable, Rows, HasRow
  <2>2. quar' \in QuarTable
    BY <1>4, <1>f DEF Age, QuarTable
  <2> QED BY <1>4, <2>1, <2>2, SameTypes
         DEF Age, DbType, FsType, ServerType, sweepVars, envVars, counts
<1> QED BY <1>1, <1>2, <1>3, <1>4

(* The same for the sweeper.                                               *)
LEMMA SweeperStepType ==
  ASSUME TypeOK, SweeperStep
  PROVE  TypeOK'
<1> USE DEF TypeOK
<1>d. row \in RowTable /\ entry \in EntryTable /\ away \in SUBSET Uploads
  BY DEF DbType
<1>f. /\ parts \in SUBSET Uploads /\ blobs \in SUBSET Uploads
      /\ quar \in QuarTable /\ synced \in SUBSET Uploads
      /\ data \in [Uploads -> [Chunks -> Bytes]]
  BY DEF FsType
<1>u. /\ live \in LiveType /\ shold \in SUBSET Uploads
      /\ todo \in SUBSET Uploads /\ OldRows \in SUBSET Uploads
  BY DEF ServerType, OldRows
<1>1. CASE SweepStart
  <2>1. DbType' /\ UpType'
    BY <1>1, SameTypes DEF SweepStart
  <2>2. FsType'
    BY <1>1, SameTypes DEF SweepStart
  <2>3. /\ live' \in LiveType
        /\ shold' \in SUBSET Uploads /\ todo' \in SUBSET Uploads
    BY <1>1, <1>u DEF SweepStart, ListStale, OldRows, Stage
  <2> QED BY <1>1, <2>1, <2>2, <2>3
    DEF SweepStart, ListStale, ServerType, Stage, Stages, envVars, counts,
        NoFault, AFault
<1>2. CASE SweepStale
  <2>1. DbType' /\ UpType'
    <3>1. PICK u \in Uploads :
            UNCHANGED dbVars \/ Commit(DeleteRow(u), entry, away)
      BY <1>2, <1>u DEF SweepStale
    <3> QED BY <1>2, <1>d, <3>1, SameTypes, CommitType, RowUpdates
           DEF SweepStale
  <2>2. FsType'
    BY <1>2, SameTypes DEF SweepStale
  <2>3. /\ live' \in LiveType
        /\ shold' \in SUBSET Uploads /\ todo' \in SUBSET Uploads
    <3>1. PICK u \in todo :
            /\ todo' = todo \ {u}
            /\ \/ UNCHANGED <<live, shold>>
               \/ live' = Hold(live, {u}) /\ shold' = {u}
      BY <1>2 DEF SweepStale, Stage
    <3> QED BY <1>u, <3>1, HoldType
  <2> QED BY <1>2, <2>1, <2>2, <2>3
    DEF SweepStale, ServerType, Stage, Stages, envVars, counts, NoFault, AFault
<1>3. CASE SweepStalePart
  <2>1. DbType' /\ UpType'
    BY <1>3, SameTypes DEF SweepStalePart
  <2>2. FsType'
    BY <1>3, <1>f, <1>u, DirType DEF SweepStalePart
  <2>3. /\ live' \in LiveType
        /\ shold' \in SUBSET Uploads /\ todo' \in SUBSET Uploads
    BY <1>3, <1>u, HoldType DEF SweepStalePart, Stage
  <2> QED BY <1>3, <2>1, <2>2, <2>3
    DEF SweepStalePart, ServerType, Stage, Stages, envVars, counts, NoFault,
        AFault
<1>4. CASE SweepParts
  <2>1. DbType' /\ UpType'
    BY <1>4, SameTypes DEF SweepParts
  <2>2. FsType'
    BY <1>4, SameTypes DEF SweepParts
  <2>3. /\ live' \in LiveType
        /\ shold' \in SUBSET Uploads /\ todo' \in SUBSET Uploads
    BY <1>4, <1>u DEF SweepParts, Stage
  <2> QED BY <1>4, <2>1, <2>2, <2>3
    DEF SweepParts, ServerType, Stage, Stages, envVars, counts, NoFault, AFault
<1>5. CASE SweepOrphanPart
  <2>1. DbType' /\ UpType'
    BY <1>5, SameTypes DEF SweepOrphanPart
  <2>2. FsType'
    <3>1. \/ UNCHANGED fsVars
          \/ \E p \in SUBSET Uploads :
               Dir(p, blobs, quar) /\ UNCHANGED <<data, synced>>
      BY <1>5, <1>f DEF SweepOrphanPart
    <3> QED BY <1>f, <3>1, SameTypes, DirType
  <2>3. /\ live' \in LiveType
        /\ shold' \in SUBSET Uploads /\ todo' \in SUBSET Uploads
    BY <1>5, <1>u DEF SweepOrphanPart, Stage
  <2> QED BY <1>5, <2>1, <2>2, <2>3
    DEF SweepOrphanPart, ServerType, Stage, Stages, envVars, counts, NoFault,
        AFault
<1>6. CASE SweepEnd
  <2>1. DbType' /\ UpType'
    BY <1>6, SameTypes DEF SweepEnd
  <2>2. FsType'
    BY <1>6, SameTypes DEF SweepEnd
  <2>3. /\ live' \in LiveType
        /\ shold' \in SUBSET Uploads /\ todo' \in SUBSET Uploads
    BY <1>6, <1>u DEF SweepEnd, Stage
  <2> QED BY <1>6, <2>1, <2>2, <2>3
    DEF SweepEnd, ServerType, Stage, Stages, envVars, counts, NoFault, AFault
<1>7. CASE ListBlobs
  <2>1. DbType' /\ UpType'
    BY <1>7, SameTypes DEF ListBlobs
  <2>2. FsType'
    BY <1>7, SameTypes DEF ListBlobs
  <2>3. /\ live' \in LiveType
        /\ shold' \in SUBSET Uploads /\ todo' \in SUBSET Uploads
    BY <1>7, <1>u, <1>f DEF ListBlobs, Stage
  <2> QED BY <1>7, <2>1, <2>2, <2>3
    DEF ListBlobs, ServerType, Stage, Stages, envVars, counts, NoFault, AFault
<1>8. CASE HoldBlobs
  <2>1. DbType' /\ UpType'
    BY <1>8, SameTypes DEF HoldBlobs
  <2>2. FsType'
    BY <1>8, SameTypes DEF HoldBlobs
  <2>3. /\ live' \in LiveType
        /\ shold' \in SUBSET Uploads /\ todo' \in SUBSET Uploads
    BY <1>8, <1>u, HoldType DEF HoldBlobs, Stage
  <2> QED BY <1>8, <2>1, <2>2, <2>3
    DEF HoldBlobs, ServerType, Stage, Stages, envVars, counts, NoFault, AFault
<1>9. CASE FindOrphans
  <2>1. DbType' /\ UpType'
    BY <1>9, SameTypes DEF FindOrphans
  <2>2. FsType'
    BY <1>9, SameTypes DEF FindOrphans
  <2>3. /\ live' \in LiveType
        /\ shold' \in SUBSET Uploads /\ todo' \in SUBSET Uploads
    BY <1>9, <1>u DEF FindOrphans, Stage
  <2> QED BY <1>9, <2>1, <2>2, <2>3
    DEF FindOrphans, ServerType, Stage, Stages, envVars, counts, NoFault, AFault
<1>10. CASE Quarantine
  <2>1. DbType' /\ UpType'
    BY <1>10, SameTypes DEF Quarantine
  <2>2. FsType'
    <3>1. \/ UNCHANGED <<parts, blobs, quar, fsPast>>
          \/ \E b \in SUBSET Uploads, q \in QuarTable : Dir(parts, b, q)
      BY <1>10, <1>f, <1>u DEF Quarantine, QuarTable
    <3>2. UNCHANGED <<data, synced>>
      BY <1>10 DEF Quarantine
    <3>3. CASE UNCHANGED <<parts, blobs, quar, fsPast>>
      BY <3>2, <3>3 DEF FsType
    <3> QED BY <1>f, <3>1, <3>2, <3>3, DirType
  <2>3. /\ live' \in LiveType
        /\ shold' \in SUBSET Uploads /\ todo' \in SUBSET Uploads
    BY <1>10, <1>u DEF Quarantine, Stage
  <2> QED BY <1>10, <2>1, <2>2, <2>3
    DEF Quarantine, ServerType, Stage, Stages, envVars, counts, NoFault, AFault
<1>11. CASE LeaveBlobs
  <2>1. DbType' /\ UpType'
    BY <1>11, SameTypes DEF LeaveBlobs
  <2>2. FsType'
    <3>2. fsPast' \in Seq(DirStates)
      BY <1>11, SyncDirType DEF LeaveBlobs, FsType
    <3> QED BY <1>11, <3>2 DEF LeaveBlobs, FsType
  <2>3. /\ live' \in LiveType
        /\ shold' \in SUBSET Uploads /\ todo' \in SUBSET Uploads
    BY <1>11, <1>u, HoldType DEF LeaveBlobs, Stage
  <2> QED BY <1>11, <2>1, <2>2, <2>3
    DEF LeaveBlobs, ServerType, Stage, Stages, envVars, counts, NoFault, AFault
<1>12. CASE Purge
  <2>1. DbType' /\ UpType'
    BY <1>12, SameTypes DEF Purge
  <2>2. FsType'
    <3>1. [u \in Uploads |-> IF quar[u] = "aged" THEN "no" ELSE quar[u]]
            \in QuarTable
      BY <1>f DEF QuarTable
    <3> QED BY <1>12, <1>f, <3>1, DirType DEF Purge
  <2>3. /\ live' \in LiveType
        /\ shold' \in SUBSET Uploads /\ todo' \in SUBSET Uploads
    BY <1>12, <1>u DEF Purge, Stage
  <2> QED BY <1>12, <2>1, <2>2, <2>3
    DEF Purge, ServerType, Stage, Stages, envVars, counts, NoFault, AFault
<1> QED BY <1>1, <1>2, <1>3, <1>4, <1>5, <1>6, <1>7, <1>8, <1>9, <1>10,
     <1>11, <1>12 DEF SweeperStep

(* A rename of the repair leaves the directory in range.                   *)
LEMMA RepairRenameType ==
  ASSUME FsType, NEW p \in SUBSET Uploads, NEW b \in SUBSET Uploads,
         RepairRename(p, b)
  PROVE  FsType'
<1>1. <<parts, blobs, quar>> \in DirStates
  BY DEF FsType, DirStates
<1>2. fsPast' \in Seq(DirStates)
  BY <1>1, RecentType, SyncDirType DEF FsType, RepairRename
<1> QED BY <1>2 DEF RepairRename, FsType

(* The same for the startup.                                               *)
LEMMA StartupStepType ==
  ASSUME TypeOK, StartupStep
  PROVE  TypeOK'
<1> USE DEF TypeOK
<1>d. row \in RowTable /\ entry \in EntryTable /\ away \in SUBSET Uploads
  BY DEF DbType
<1>f. /\ parts \in SUBSET Uploads /\ blobs \in SUBSET Uploads
  BY DEF FsType
<1>u. /\ live \in LiveType /\ shold \in SUBSET Uploads
      /\ todo \in SUBSET Uploads /\ OldRows \in SUBSET Uploads
  BY DEF ServerType, OldRows
<1>1. CASE Repair
  <2>1. DbType' /\ UpType'
    <3>1. PICK u \in Uploads :
            UNCHANGED dbVars \/ Commit(DeleteRow(u), entry, away)
      BY <1>1, <1>u DEF Repair
    <3> QED BY <1>1, <1>d, <3>1, SameTypes, CommitType, RowUpdates DEF Repair
  <2>2. FsType'
    <3>1. PICK u \in Uploads :
            \/ UNCHANGED fsVars
            \/ RepairRename(parts \ {u}, blobs \cup {u})
            \/ RepairRename(parts \cup {u}, blobs \ {u})
      BY <1>1, <1>u DEF Repair, Place
    <3>2. /\ parts \ {u} \in SUBSET Uploads /\ parts \cup {u} \in SUBSET Uploads
          /\ blobs \ {u} \in SUBSET Uploads /\ blobs \cup {u} \in SUBSET Uploads
      BY <1>f
    <3> QED BY <3>1, <3>2, SameTypes, RepairRenameType
  <2>3. /\ live' \in LiveType
        /\ shold' \in SUBSET Uploads /\ todo' \in SUBSET Uploads
    BY <1>1, <1>u DEF Repair, Stage
  <2> QED BY <1>1, <2>1, <2>2, <2>3
    DEF Repair, ServerType, Stage, Stages, envVars, counts, NoFault, AFault
<1>2. CASE RepairParts
  <2>1. DbType' /\ UpType'
    BY <1>2, SameTypes DEF RepairParts
  <2>2. FsType'
    BY <1>2, SameTypes DEF RepairParts
  <2>3. /\ live' \in LiveType
        /\ shold' \in SUBSET Uploads /\ todo' \in SUBSET Uploads
    BY <1>2, <1>u, <1>f DEF RepairParts, Stage
  <2> QED BY <1>2, <2>1, <2>2, <2>3
    DEF RepairParts, ServerType, Stage, Stages, envVars, counts, NoFault, AFault
<1>3. CASE RepairPart
  <2>1. DbType' /\ UpType'
    BY <1>3, SameTypes DEF RepairPart
  <2>2. FsType'
    <3>1. PICK u \in Uploads : UNCHANGED fsVars \/
                              RepairRename(parts \ {u}, blobs \cup {u})
      BY <1>3, <1>u DEF RepairPart, Place
    <3>2. parts \ {u} \in SUBSET Uploads /\ blobs \cup {u} \in SUBSET Uploads
      BY <1>f
    <3> QED BY <3>1, <3>2, SameTypes, RepairRenameType
  <2>3. /\ live' \in LiveType
        /\ shold' \in SUBSET Uploads /\ todo' \in SUBSET Uploads
    BY <1>3, <1>u DEF RepairPart, Stage
  <2> QED BY <1>3, <2>1, <2>2, <2>3
    DEF RepairPart, ServerType, Stage, Stages, envVars, counts, NoFault, AFault
<1>4. CASE StartupSweep
  <2>1. DbType' /\ UpType'
    BY <1>4, SameTypes DEF StartupSweep
  <2>2. FsType'
    BY <1>4, SameTypes DEF StartupSweep
  <2>3. /\ live' \in LiveType
        /\ shold' \in SUBSET Uploads /\ todo' \in SUBSET Uploads
    BY <1>4, <1>u DEF StartupSweep, ListStale, OldRows, Stage
  <2> QED BY <1>4, <2>1, <2>2, <2>3
    DEF StartupSweep, ListStale, ServerType, Stage, Stages, envVars, counts,
        NoFault, AFault
<1> QED BY <1>1, <1>2, <1>3, <1>4 DEF StartupStep

(* The same for a crash and for a power loss.                              *)
LEMMA CrashType ==
  ASSUME TypeOK, Crash \/ PowerLoss
  PROVE  TypeOK'
<1> USE DEF TypeOK
<1>1. EmptyLive \in LiveType
  BY DEF EmptyLive, LiveType
<1>2. ASSUME NEW r, Restart(r),
             crashes' \in Nat, losses' \in Nat, UNCHANGED <<edits, sweeps>>
      PROVE  UpType' /\ ServerType'
  <2>1. UpType'
    BY <1>2 DEF Restart, UpType, Labels, Claims, NoClaim
  <2>2. /\ live' \in LiveType /\ dl' \in [Conns -> Uploads \cup {NoDl}]
        /\ unlinking' = {} /\ shold' = {} /\ spc' \in Stages
        /\ todo' \in SUBSET Uploads /\ serving' \in BOOLEAN
    BY <1>1, <1>2 DEF Restart, Stage, Stages
  <2>3. UNCHANGED <<faults, used, acked, removed>>
    BY <1>2 DEF Restart
  <2> QED BY <1>2, <2>1, <2>2, <2>3 DEF ServerType
<1>3. CASE Crash
  <2>1. crashes' \in Nat /\ losses' \in Nat /\ UNCHANGED <<edits, sweeps>>
    BY <1>3 DEF Crash, ServerType
  <2> QED BY <1>2, <1>3, <2>1, SameTypes DEF Crash
<1>4. CASE PowerLoss
  <2>1. PICK d \in {<<row, entry, away>>} \cup {past[i] : i \in DOMAIN past} :
          row' = d[1] /\ entry' = d[2] /\ away' = d[3] /\ Restart(d[1])
    BY <1>4 DEF PowerLoss
  <2>2. d \in DbStates
    BY <2>1 DEF DbType, DbStates
  <2>3. <<>> \in Seq(DbStates) /\ <<>> \in Seq(DirStates)
    OBVIOUS
  <2>4. DbType'
    BY <1>4, <2>1, <2>2, <2>3 DEF PowerLoss, DbType, DbStates
  <2>5. PICK f \in {<<parts, blobs, quar>>} \cup
                   {fsPast[i] : i \in DOMAIN fsPast} :
          parts' = f[1] /\ blobs' = f[2] /\ quar' = f[3]
    BY <1>4 DEF PowerLoss
  <2>6. f \in DirStates
    BY <2>5 DEF FsType, DirStates
  <2>7. data' \in [Uploads -> [Chunks -> Bytes]]
    BY <1>4 DEF PowerLoss, FsType, Bytes
  <2>8. FsType'
    BY <1>4, <2>3, <2>5, <2>6, <2>7 DEF PowerLoss, FsType, DirStates
  <2>9. crashes' \in Nat /\ losses' \in Nat /\ UNCHANGED <<edits, sweeps>>
    BY <1>4 DEF PowerLoss, ServerType
  <2> QED BY <1>2, <2>1, <2>4, <2>8, <2>9
<1> QED BY <1>3, <1>4

(* A task that has left is idle and holds nothing.                         *)
LEMMA LeaveShape ==
  ASSUME UpType, TaskShape, NEW c \in Conns, Leave(c)
  PROVE  TaskShape'
  BY DEF Leave, TaskShape, Shape, UpType, Goto, NoClaim, Bare, Dropping

(* One that lets go is idle, or saving with its claim.                     *)
LEMMA LetGoShape ==
  ASSUME UpType, TaskShape, NEW c \in Conns, LetGo(c),
         pc[c] \notin Bare \cup Dropping \cup {"evictPart"}
  PROVE  TaskShape'
<1>1. CASE dirty[c]
  BY <1>1 DEF LetGo, TaskShape, Shape, UpType, Goto, Bare, Dropping
<1>2. CASE ~dirty[c]
  BY <1>2, LeaveShape DEF LetGo
<1> QED BY <1>1, <1>2

(* Every step of a connection leaves it holding what its place says.       *)
LEMMA ConnStepShape ==
  ASSUME TypeOK, TaskShape, HeldExact, NEW c \in Conns, ConnStep(c)
  PROVE  TaskShape'
<1> USE DEF TypeOK
<1>1. CASE Prepare(c)
  BY <1>1 DEF Prepare, TaskShape, Shape, UpType, Goto, Bare, Dropping
<1>2. CASE Claim(c)
  <2>1. PICK u \in Uploads : /\ ClaimInto(c, u, Cardinality(Chunks))
                           /\ tid' = [tid EXCEPT ![c] = u]
    BY <1>2 DEF Claim
  <2>2. name[c] \in Names /\ live \in LiveType
    BY <1>2 DEF Claim, TaskShape, Shape, ServerType
  <2>3. name'[c] \in Names
    BY <2>1, <2>2, ClaimIntoType, Counting
  <2>4. \E n, b : /\ name' = [name EXCEPT ![c] = n]
                  /\ claim' = [claim EXCEPT ![c] = [dest |-> n, bytes |-> b,
                                                   on |-> TRUE]]
    BY <2>1 DEF ClaimInto, TakeClaim
  <2> QED BY <1>2, <2>1, <2>3, <2>4 DEF Claim, TaskShape, Shape, UpType,
       Goto, Bare, Dropping
<1>3. CASE ClaimRefused(c)
  BY <1>3, LeaveShape DEF ClaimRefused
<1>4. CASE ListOpen(c)
  <2>1. CASE Leave(c)
    BY <2>1, LeaveShape
  <2>2. CASE ~Leave(c)
    BY <1>4, <2>2 DEF ListOpen, TaskShape, Shape, UpType, Goto, Bare, Dropping
  <2> QED BY <2>1, <2>2
<1>5. CASE EvictSkip(c)
  BY <1>5 DEF EvictSkip, TaskShape, Shape, UpType, Goto, Bare, Dropping
<1>6. CASE Evict(c)
  <2>1. PICK v \in victims[c] \ live.held : hold' = [hold EXCEPT ![c] = {v}]
    BY <1>6 DEF Evict
  <2>2. claim[c].on /\ tid[c] \in Uploads
    BY <1>6 DEF Evict, TaskShape, Shape, Bare, Dropping
  <2>3. tid[c] \in live.held
    BY <2>2 DEF HeldExact, Holds
  <2>4. tid[c] # v
    BY <2>1, <2>3
  <2> QED BY <1>6, <2>1, <2>2, <2>4 DEF Evict, TaskShape, Shape, UpType,
       Goto, Bare, Dropping
<1>7. CASE EvictPart(c)
  BY <1>7 DEF EvictPart, TaskShape, Shape, UpType, Goto, Bare, Dropping
<1>8. CASE EvictFailed(c)
  BY <1>8, LeaveShape DEF EvictFailed
<1>9. CASE RoomMade(c)
  BY <1>9 DEF RoomMade, TaskShape, Shape, UpType, Goto, Bare, Dropping
<1>10. CASE MkPart(c)
  <2>1. CASE Leave(c)
    BY <2>1, LeaveShape
  <2>2. CASE ~Leave(c)
    BY <1>10, <2>2 DEF MkPart, TaskShape, Shape, UpType, Goto, Bare, Dropping
  <2> QED BY <2>1, <2>2
<1>11. CASE MkRow(c)
  <2>1. CASE Leave(c)
    BY <2>1, LeaveShape
  <2>2. CASE ~Leave(c)
    BY <1>11, <2>2 DEF MkRow, TaskShape, Shape, UpType, Goto, Bare, Dropping
  <2> QED BY <2>1, <2>2
<1>12. CASE Resume(c)
  <2>1. PICK u \in MyRows(Acct(c)) :
          /\ tid' = [tid EXCEPT ![c] = u]
          /\ name' = [name EXCEPT ![c] = row[u].name]
    BY <1>12 DEF Resume
  <2>2. u \in Uploads /\ row[u].name \in Names
    BY DEF MyRows, HasRow, DbType, RowTable, Rows
  <2> QED BY <1>12, <2>1, <2>2 DEF Resume, TaskShape, Shape, UpType, Goto,
       Bare, Dropping
<1>13. CASE ResumeFind(c)
  BY <1>13 DEF ResumeFind, TaskShape, Shape, UpType, Goto, Bare, Dropping
<1>14. CASE ResumePrepare(c)
  BY <1>14 DEF ResumePrepare, TaskShape, Shape, UpType, Goto, Bare, Dropping
<1>15. CASE ResumeRefused(c)
  <2>1. CASE Leave(c)
    BY <2>1, LeaveShape
  <2>2. CASE ~Leave(c)
    BY <1>15, <2>2 DEF ResumeRefused, TaskShape, Shape, UpType, Goto, Bare,
       Dropping
  <2> QED BY <2>1, <2>2
<1>16. CASE ResumeClaim(c)
  <2>1. name[c] \in Names /\ live \in LiveType /\ tid[c] \in Uploads
    BY <1>16 DEF ResumeClaim, TaskShape, Shape, ServerType
  <2>2. Remaining(c) \in Nat
    BY Counting DEF Remaining, UpType
  <2>3. name'[c] \in Names
    BY <1>16, <2>1, <2>2, ClaimIntoType DEF ResumeClaim
  <2>4. \E n, b, m : /\ name' = [name EXCEPT ![c] = n]
                     /\ claim' = [claim EXCEPT ![c] =
                                    [dest |-> m, bytes |-> b, on |-> TRUE]]
    <3>1. CASE ClaimInto(c, tid[c], Remaining(c))
      BY <3>1 DEF ClaimInto, TakeClaim
    <3>2. CASE TakeClaim(c, tid[c], NoName, Remaining(c)) /\ UNCHANGED name
      <4>1. name' = [name EXCEPT ![c] = name[c]]
        BY <3>2 DEF UpType
      <4> QED BY <3>2, <4>1 DEF TakeClaim
    <3> QED BY <1>16, <3>1, <3>2 DEF ResumeClaim
  <2> QED BY <1>16, <2>1, <2>3, <2>4 DEF ResumeClaim, TaskShape, Shape,
       UpType, Goto, Bare, Dropping
<1>17. CASE ResumeOpen(c)
  BY <1>17 DEF ResumeOpen, TaskShape, Shape, UpType, Goto, Bare, Dropping
<1>18. CASE WriteChunk(c)
  <2>1. /\ pc[c] = "live" /\ UNCHANGED <<tid, name, claim, hold, need>>
        /\ Goto(c, "verify") \/ Goto(c, "live")
    BY <1>18 DEF WriteChunk
  <2> QED BY <2>1 DEF TaskShape, Shape, UpType, Goto, Bare, Dropping
<1>19. CASE Release(c)
  BY <1>19, LeaveShape DEF Release
<1>20. CASE Disconnect(c)
  BY <1>20, LetGoShape DEF Disconnect, Bare, Dropping
<1>21. CASE SaveThenLeave(c)
  BY <1>21, LeaveShape DEF SaveThenLeave
<1>22. CASE Verify(c)
  BY <1>22 DEF Verify, TaskShape, Shape, UpType, Goto, Bare, Dropping
<1>23. CASE HashFile(c)
  BY <1>23 DEF HashFile, TaskShape, Shape, UpType, Goto, Bare, Dropping
<1>24. CASE File(c)
  <2>1. Goto(c, "rename") \/ Goto(c, "dropRow")
    BY <1>24 DEF File, FileAs
  <2>2. pc[c] = "file" /\ UNCHANGED <<tid, name, claim, hold, need>>
    BY <1>24 DEF File
  <2> QED BY <2>1, <2>2 DEF TaskShape, Shape, UpType, Goto, Bare, Dropping
<1>25. CASE FileLater(c)
  BY <1>25, LetGoShape DEF FileLater, Bare, Dropping
<1>26. CASE Rename(c)
  BY <1>26 DEF Rename, TaskShape, Shape, UpType, Goto, Bare, Dropping
<1>27. CASE Undo(c)
  BY <1>27, LetGoShape DEF Undo, Bare, Dropping
<1>28. CASE Finished(c)
  BY <1>28, LetGoShape DEF Finished, Bare, Dropping
<1>29. CASE DropRow(c)
  BY <1>29 DEF DropRow, TaskShape, Shape, UpType, Goto, Bare, Dropping
<1>30. CASE DropPart(c)
  BY <1>30, LeaveShape DEF DropPart
<1>31. CASE OpenForRead(c)
  BY <1>31 DEF OpenForRead, upVars, TaskShape, Shape, UpType, Goto, Bare,
     Dropping
<1>32. CASE EndDownload(c)
  BY <1>32 DEF EndDownload, upVars, TaskShape, Shape, UpType, Goto, Bare,
     Dropping
<1> QED BY <1>1, <1>2, <1>3, <1>4, <1>5, <1>6, <1>7, <1>8, <1>9, <1>10,
     <1>11, <1>12, <1>13, <1>14, <1>15, <1>16, <1>17, <1>18, <1>19, <1>20,
     <1>21, <1>22, <1>23, <1>24, <1>25, <1>26, <1>27, <1>28, <1>29, <1>30,
     <1>31, <1>32 DEF ConnStep, Request, Handle

(* What a claim does to held ids and names.                                *)
LEMMA ClaimEffects ==
  ASSUME NEW l \in LiveType, NEW a, NEW u, NEW n, NEW b
  PROVE  /\ ClaimUpload(l, a, u, n, b).held = l.held \cup {u}
         /\ ClaimUpload(l, a, u, n, b).names = l.names \cup ({n} \ {NoName})
  BY DEF ClaimUpload, LiveType

(* What its release does.                                                  *)
LEMMA ReleaseEffects ==
  ASSUME NEW l \in LiveType, NEW a, NEW u, NEW n, NEW b
  PROVE  /\ ReleaseUpload(l, a, u, n, b).held = l.held \ {u}
         /\ ReleaseUpload(l, a, u, n, b).names = l.names \ {n}
  BY DEF ReleaseUpload, LiveType

(* Downloads leave held ids and names alone.                               *)
LEMMA DownloadEffects ==
  ASSUME NEW l \in LiveType, NEW a
  PROVE  /\ ClaimDownload(l, a).held = l.held
         /\ ClaimDownload(l, a).names = l.names
         /\ ReleaseDownload(l, a).held = l.held
         /\ ReleaseDownload(l, a).names = l.names
  BY DEF ClaimDownload, ReleaseDownload, LiveType

(* What a plain hold and its release do.                                   *)
LEMMA HoldEffects ==
  ASSUME NEW l \in LiveType, NEW us
  PROVE  /\ Hold(l, us).held = l.held \cup us /\ Hold(l, us).names = l.names
         /\ Unhold(l, us).held = l.held \ us /\ Unhold(l, us).names = l.names
  BY DEF Hold, Unhold, LiveType

(* A claim that passed CanClaimUpload is the only one of its id and name.  *)
LEMMA TakeClaimHeld ==
  ASSUME TypeOK, TaskShape, HeldExact, NamesExact, NEW c \in Conns,
         NEW u \in Uploads, NEW n \in Names \cup {NoName}, NEW b \in Nat,
         TakeClaim(c, u, n, b), tid' = [tid EXCEPT ![c] = u],
         ~claim[c].on, UNCHANGED <<hold, shold>>
  PROVE  HeldExact' /\ NamesExact'
<1> USE DEF TypeOK
<1>1. live \in LiveType
  BY DEF ServerType
<1>2. /\ u \notin live.held /\ n \notin live.names
      /\ live'.held = live.held \cup {u}
      /\ live'.names = live.names \cup ({n} \ {NoName})
  BY <1>1, ClaimEffects DEF TakeClaim, CanClaimUpload
<1>3. /\ claim'[c].on /\ claim'[c].dest = n /\ tid'[c] = u
      /\ \A d \in Conns \ {c} : claim'[d] = claim[d] /\ tid'[d] = tid[d]
  BY DEF TakeClaim, UpType
<1>4. HeldExact'
  BY <1>2, <1>3 DEF HeldExact, Holds
<1>5. NamesExact'
  BY <1>2, <1>3 DEF NamesExact, Working, NoName, Names
<1> QED BY <1>4, <1>5

(* A task that leaves gives back exactly what it held.                     *)
LEMMA LeaveHeld ==
  ASSUME TypeOK, TaskShape, HeldExact, NamesExact, NEW c \in Conns,
         Leave(c), UNCHANGED shold
  PROVE  HeldExact' /\ NamesExact'
<1> USE DEF TypeOK
<1>1. live \in LiveType
  BY DEF ServerType
<1>2. /\ ~claim'[c].on /\ hold'[c] = {}
      /\ \A d \in Conns \ {c} : /\ claim'[d] = claim[d] /\ tid'[d] = tid[d]
                                /\ hold'[d] = hold[d]
  BY DEF Leave, UpType, NoClaim
<1>3. /\ live'.held = live.held \ Holds(c)
      /\ live'.names = IF claim[c].on THEN live.names \ {claim[c].dest}
                                      ELSE live.names
  <2>1. CASE claim[c].on
    <3> DEFINE l == ReleaseUpload(live, Acct(c), tid[c], claim[c].dest,
                                  claim[c].bytes)
    <3>1. l \in LiveType
      BY <1>1, <2>1, ClaimUploadType, TransferConstants
         DEF UpType, Claims, Acct, TaskShape, Shape, Bare
    <3>2. /\ l.held = live.held \ {tid[c]}
          /\ l.names = live.names \ {claim[c].dest}
      BY <1>1, ReleaseEffects
    <3>3. live' = Unhold(l, hold[c])
      BY <2>1 DEF Leave
    <3> HIDE DEF l
    <3>4. live'.held = l.held \ hold[c] /\ live'.names = l.names
      BY <3>1, <3>3, HoldEffects
    <3> QED BY <2>1, <3>2, <3>4 DEF Holds
  <2>2. CASE ~claim[c].on
    <3>1. live' = Unhold(live, hold[c])
      BY <2>2 DEF Leave
    <3>2. live'.held = live.held \ hold[c] /\ live'.names = live.names
      BY <1>1, <3>1, HoldEffects
    <3> QED BY <2>2, <3>2 DEF Holds
  <2> QED BY <2>1, <2>2
<1>5. HeldExact'
  BY <1>2, <1>3 DEF HeldExact, Holds
<1>6. NamesExact'
  BY <1>2, <1>3 DEF NamesExact, Working, NoName, Names
<1> QED BY <1>5, <1>6

(* So does one that lets go, now or once its progress is saved.            *)
LEMMA LetGoHeld ==
  ASSUME TypeOK, TaskShape, HeldExact, NamesExact, NEW c \in Conns,
         LetGo(c), UNCHANGED shold
  PROVE  HeldExact' /\ NamesExact'
<1>1. CASE dirty[c]
  BY <1>1 DEF LetGo, HeldExact, NamesExact, Holds, Working
<1>2. CASE ~dirty[c]
  BY <1>2, LeaveHeld DEF LetGo
<1> QED BY <1>1, <1>2

(* Where holders and the live table stay, the accounting stays exact.      *)
LEMMA SameHeld ==
  ASSUME HeldExact, NamesExact, UNCHANGED <<claim, hold, shold>>,
         live'.held = live.held, live'.names = live.names,
         \A c \in Conns : claim[c].on => tid'[c] = tid[c]
  PROVE  HeldExact' /\ NamesExact'
  BY DEF HeldExact, NamesExact, Holds, Working

(* A hold on an id nobody has, and its release, keep it exact.             *)
LEMMA HoldHeld ==
  ASSUME TypeOK, HeldExact, NamesExact, NEW c \in Conns, NEW v \in Uploads,
         v \notin live.held, live' = Hold(live, {v}), hold[c] = {},
         hold' = [hold EXCEPT ![c] = {v}], UNCHANGED <<claim, tid, shold>>
  PROVE  HeldExact' /\ NamesExact'
<1> USE DEF TypeOK
<1>1. live'.held = live.held \cup {v} /\ live'.names = live.names
  BY HoldEffects DEF ServerType
<1>2. hold'[c] = {v} /\ \A d \in Conns \ {c} : hold'[d] = hold[d]
  BY DEF UpType
<1>5. \A d \in Conns : Holds(d)' = IF d = c THEN Holds(c) \cup {v} ELSE Holds(d)
  BY <1>2 DEF Holds
<1>6. v \notin shold /\ \A d \in Conns : v \notin Holds(d)
  BY DEF HeldExact
<1>3. HeldExact'
  <2>1. \A u \in Uploads : (\E d \in Conns : u \in Holds(d)') <=>
                          (u = v \/ \E d \in Conns : u \in Holds(d))
    BY <1>5
  <2>2. (\A u \in Uploads :
          u \in live.held <=> (u \in shold \/ \E d \in Conns : u \in Holds(d)))'
    BY <1>1, <2>1 DEF HeldExact
  <2>3. (\A d \in Conns : Holds(d) \cap shold = {})'
    BY <1>5, <1>6 DEF HeldExact
  <2>4. (\A d, e \in Conns : d # e => Holds(d) \cap Holds(e) = {})'
    BY <1>5, <1>6 DEF HeldExact
  <2> QED BY <2>2, <2>3, <2>4 DEF HeldExact
<1>4. NamesExact'
  BY <1>1 DEF NamesExact, Working
<1> QED BY <1>3, <1>4

(* Every step of a connection keeps held ids and names exact.              *)
LEMMA ConnStepHeld ==
  ASSUME TypeOK, TaskShape, HeldExact, NamesExact, NEW c \in Conns, ConnStep(c)
  PROVE  HeldExact' /\ NamesExact'
<1> USE DEF TypeOK
<1>s. UNCHANGED shold /\ live \in LiveType
  BY DEF ConnStep, sweepVars, ServerType
<1>1. CASE Prepare(c)
  BY <1>1, <1>s, SameHeld DEF Prepare
<1>2. CASE Claim(c)
  <2>1. PICK u \in Uploads : /\ ClaimInto(c, u, Cardinality(Chunks))
                           /\ tid' = [tid EXCEPT ![c] = u]
    BY <1>2 DEF Claim
  <2>2. name[c] \in Names /\ ~claim[c].on /\ UNCHANGED hold
    BY <1>2 DEF Claim, TaskShape, Shape, Bare
  <2>3. PICK n : /\ TakeClaim(c, u, n, Cardinality(Chunks))
                 /\ name' = [name EXCEPT ![c] = n]
    BY <2>1 DEF ClaimInto
  <2>4. name'[c] \in Names /\ name'[c] = n
    BY <1>s, <2>1, <2>2, <2>3, ClaimIntoType, Counting DEF UpType
  <2> QED BY <1>s, <2>1, <2>2, <2>3, <2>4, TakeClaimHeld, Counting
<1>3. CASE ClaimRefused(c)
  BY <1>3, <1>s, LeaveHeld DEF ClaimRefused
<1>4. CASE ListOpen(c)
  <2>1. CASE Leave(c)
    BY <1>s, <2>1, LeaveHeld
  <2>2. CASE ~Leave(c)
    BY <1>4, <1>s, <2>2, SameHeld DEF ListOpen
  <2> QED BY <2>1, <2>2
<1>5. CASE EvictSkip(c)
  BY <1>5, <1>s, SameHeld DEF EvictSkip
<1>6. CASE Evict(c)
  <2>1. PICK v \in victims[c] \ live.held :
          live' = Hold(live, {v}) /\ hold' = [hold EXCEPT ![c] = {v}]
    BY <1>6 DEF Evict
  <2>2. v \in Uploads /\ v \notin live.held
    BY DEF UpType
  <2>3. hold[c] = {} /\ UNCHANGED <<claim, tid>>
    BY <1>6 DEF Evict, TaskShape, Shape, Dropping
  <2> QED BY <1>s, <2>1, <2>2, <2>3, HoldHeld
<1>7. CASE EvictPart(c)
  <2>1. /\ live' = Unhold(live, hold[c]) /\ hold' = [hold EXCEPT ![c] = {}]
        /\ UNCHANGED <<claim, tid>> /\ claim[c].on
    BY <1>7 DEF EvictPart, TaskShape, Shape, Bare, Dropping
  <2>2. live'.held = live.held \ hold[c] /\ live'.names = live.names
    BY <1>s, <2>1, HoldEffects
  <2>3. hold'[c] = {} /\ \A d \in Conns \ {c} : hold'[d] = hold[d]
    BY <2>1 DEF UpType
  <2>4. tid[c] \notin hold[c]
    BY <2>1 DEF TaskShape, Shape
  <2>5. HeldExact'
    BY <1>s, <2>1, <2>2, <2>3, <2>4 DEF HeldExact, Holds
  <2>6. NamesExact'
    BY <2>1, <2>2 DEF NamesExact, Working
  <2> QED BY <2>5, <2>6
<1>8. CASE EvictFailed(c)
  BY <1>8, <1>s, LeaveHeld DEF EvictFailed
<1>9. CASE RoomMade(c)
  BY <1>9, <1>s, SameHeld DEF RoomMade
<1>10. CASE MkPart(c)
  <2>1. CASE Leave(c)
    BY <1>s, <2>1, LeaveHeld
  <2>2. CASE ~Leave(c)
    BY <1>10, <1>s, <2>2, SameHeld DEF MkPart
  <2> QED BY <2>1, <2>2
<1>11. CASE MkRow(c)
  <2>1. CASE Leave(c)
    BY <1>s, <2>1, LeaveHeld
  <2>2. CASE ~Leave(c)
    BY <1>11, <1>s, <2>2, SameHeld DEF MkRow
  <2> QED BY <2>1, <2>2
<1>12. CASE Resume(c)
  <2>1. \A d \in Conns : claim[d].on => tid'[d] = tid[d]
    BY <1>12 DEF Resume, UpType, TaskShape, Shape, Bare
  <2> QED BY <1>12, <1>s, <2>1, SameHeld DEF Resume
<1>13. CASE ResumeFind(c)
  BY <1>13, <1>s, SameHeld DEF ResumeFind
<1>14. CASE ResumePrepare(c)
  BY <1>14, <1>s, SameHeld DEF ResumePrepare
<1>15. CASE ResumeRefused(c)
  <2>1. CASE Leave(c)
    BY <1>s, <2>1, LeaveHeld
  <2>2. CASE ~Leave(c)
    <3>1. /\ tid[c] \in Uploads /\ tid[c] \notin live.held /\ hold[c] = {}
          /\ live' = Hold(live, {tid[c]})
          /\ hold' = [hold EXCEPT ![c] = {tid[c]}] /\ UNCHANGED <<claim, tid>>
      BY <1>15, <2>2 DEF ResumeRefused, TaskShape, Shape, Dropping
    <3> QED BY <1>s, <3>1, HoldHeld
  <2> QED BY <2>1, <2>2
<1>16. CASE ResumeClaim(c)
  <2>1. /\ tid[c] \in Uploads /\ name[c] \in Names /\ ~claim[c].on
        /\ UNCHANGED <<hold, tid>>
    BY <1>16 DEF ResumeClaim, TaskShape, Shape, Bare
  <2>2. Remaining(c) \in Nat
    BY Counting DEF Remaining, UpType
  <2>3. tid' = [tid EXCEPT ![c] = tid[c]]
    BY <2>1 DEF UpType
  <2>4. CASE ClaimInto(c, tid[c], Remaining(c))
    <3>1. PICK n : /\ TakeClaim(c, tid[c], n, Remaining(c))
                   /\ name' = [name EXCEPT ![c] = n]
      BY <2>4 DEF ClaimInto
    <3>2. name'[c] \in Names /\ name'[c] = n
      BY <1>s, <2>1, <2>2, <2>4, <3>1, ClaimIntoType DEF UpType
    <3> QED BY <1>s, <2>1, <2>2, <2>3, <3>1, <3>2, TakeClaimHeld
  <2>5. CASE TakeClaim(c, tid[c], NoName, Remaining(c))
    BY <1>s, <2>1, <2>2, <2>3, <2>5, TakeClaimHeld
  <2> QED BY <1>16, <2>4, <2>5 DEF ResumeClaim
<1>17. CASE ResumeOpen(c)
  BY <1>17, <1>s, SameHeld DEF ResumeOpen
<1>18. CASE WriteChunk(c)
  BY <1>18, <1>s, SameHeld DEF WriteChunk
<1>19. CASE Release(c)
  BY <1>19, <1>s, LeaveHeld DEF Release
<1>20. CASE Disconnect(c)
  BY <1>20, <1>s, LetGoHeld DEF Disconnect
<1>21. CASE SaveThenLeave(c)
  BY <1>21, <1>s, LeaveHeld DEF SaveThenLeave
<1>22. CASE Verify(c)
  BY <1>22, <1>s, SameHeld DEF Verify
<1>23. CASE HashFile(c)
  BY <1>23, <1>s, SameHeld DEF HashFile
<1>24. CASE File(c)
  BY <1>24, <1>s, SameHeld DEF File
<1>25. CASE FileLater(c)
  BY <1>25, <1>s, LetGoHeld DEF FileLater
<1>26. CASE Rename(c)
  BY <1>26, <1>s, SameHeld DEF Rename
<1>27. CASE Undo(c)
  BY <1>27, <1>s, LetGoHeld DEF Undo
<1>28. CASE Finished(c)
  BY <1>28, <1>s, LetGoHeld DEF Finished
<1>29. CASE DropRow(c)
  BY <1>29, <1>s, SameHeld DEF DropRow
<1>30. CASE DropPart(c)
  BY <1>30, <1>s, LeaveHeld DEF DropPart
<1>31. CASE OpenForRead(c)
  <2>1. live'.held = live.held /\ live'.names = live.names
    BY <1>31, <1>s, DownloadEffects DEF OpenForRead
  <2> QED BY <1>31, <1>s, <2>1, SameHeld DEF OpenForRead, upVars
<1>32. CASE EndDownload(c)
  <2>1. live'.held = live.held /\ live'.names = live.names
    BY <1>32, <1>s, DownloadEffects DEF EndDownload
  <2> QED BY <1>32, <1>s, <2>1, SameHeld DEF EndDownload, upVars
<1> QED BY <1>1, <1>2, <1>3, <1>4, <1>5, <1>6, <1>7, <1>8, <1>9, <1>10,
     <1>11, <1>12, <1>13, <1>14, <1>15, <1>16, <1>17, <1>18, <1>19, <1>20,
     <1>21, <1>22, <1>23, <1>24, <1>25, <1>26, <1>27, <1>28, <1>29, <1>30,
     <1>31, <1>32 DEF ConnStep, Request, Handle

(* A step that leaves the tasks alone leaves what they hold alone.         *)
LEMMA SameTasks ==
  ASSUME TaskShape, UNCHANGED upVars
  PROVE  TaskShape'
  BY DEF TaskShape, Shape, upVars

(* Users, time and unlinking touch no claim.                               *)
LEMMA WorldStepOwnership ==
  ASSUME Ownership, DeleteEntry \/ Unlink \/ EditFolder \/ Age
  PROVE  (TaskShape /\ SweepShape /\ HeldExact /\ NamesExact)'
<1>1. UNCHANGED <<upVars, live, sweepVars>>
  BY DEF DeleteEntry, Unlink, EditFolder, Age
<1> QED BY <1>1, SameTasks, SameHeld
        DEF Ownership, upVars, sweepVars, SweepShape

(* The sweeper holds only ids nobody else has.                             *)
LEMMA SweepTakes ==
  ASSUME TypeOK, HeldExact, NamesExact, NEW us \in SUBSET Uploads,
         us \cap live.held = {}, shold = {}, shold' = us,
         live' = Hold(live, us), UNCHANGED upVars
  PROVE  HeldExact' /\ NamesExact'
<1>1. live'.held = live.held \cup us /\ live'.names = live.names
  BY HoldEffects DEF TypeOK, ServerType
<1>2. \A c \in Conns : Holds(c)' = Holds(c)
  BY DEF Holds, upVars
<1>3. \A c \in Conns : Holds(c) \subseteq Uploads => us \cap Holds(c) = {}
  BY DEF HeldExact
<1>4. HeldExact'
  BY <1>1, <1>2, <1>3 DEF HeldExact
<1>5. NamesExact'
  BY <1>1 DEF NamesExact, Working, upVars
<1> QED BY <1>4, <1>5

(* It gives back exactly those.                                            *)
LEMMA SweepGives ==
  ASSUME TypeOK, HeldExact, NamesExact, shold' = {},
         live' = Unhold(live, shold), UNCHANGED upVars
  PROVE  HeldExact' /\ NamesExact'
<1>1. live'.held = live.held \ shold /\ live'.names = live.names
  BY HoldEffects DEF TypeOK, ServerType
<1>2. \A c \in Conns : Holds(c)' = Holds(c)
  BY DEF Holds, upVars
<1>4. HeldExact'
  BY <1>1, <1>2 DEF HeldExact
<1>5. NamesExact'
  BY <1>1 DEF NamesExact, Working, upVars
<1> QED BY <1>4, <1>5

(* Every step of the sweeper preserves the invariant.                      *)
LEMMA SweeperStepOwnership ==
  ASSUME Ownership, SweeperStep
  PROVE  (TaskShape /\ SweepShape /\ HeldExact /\ NamesExact)'
<1> USE DEF Ownership
<1>t. UNCHANGED upVars
  BY DEF SweeperStep, SweepStart, SweepStale, SweepStalePart, SweepParts,
         SweepOrphanPart, SweepEnd, ListBlobs, HoldBlobs, FindOrphans,
         Quarantine, LeaveBlobs, Purge
<1>u. TaskShape'
  BY <1>t, SameTasks
<1>1. CASE SweepStart
  BY <1>1, <1>t, <1>u, SameHeld
     DEF SweepStart, ListStale, SweepShape, Stage, upVars
<1>2. CASE SweepStale
  <2>1. PICK u \in todo :
          \/ /\ UNCHANGED <<live, shold>> /\ Stage("stale", todo \ {u})
          \/ /\ u \notin live.held /\ live' = Hold(live, {u})
             /\ shold' = {u} /\ Stage("stalePart", todo \ {u})
    BY <1>2 DEF SweepStale
  <2>2. spc = "stale" /\ shold = {} /\ u \in Uploads
    BY <1>2 DEF SweepStale, SweepShape, TypeOK, ServerType
  <2>3. SweepShape'
    BY <2>1, <2>2 DEF SweepShape, Stage
  <2>4. CASE UNCHANGED <<live, shold>>
    BY <1>t, <1>u, <2>3, <2>4, SameHeld DEF upVars
  <2>5. CASE u \notin live.held /\ live' = Hold(live, {u}) /\ shold' = {u}
    <3>1. {u} \in SUBSET Uploads /\ {u} \cap live.held = {}
      BY <2>2, <2>5
    <3> QED BY <1>t, <1>u, <2>2, <2>3, <2>5, <3>1, SweepTakes
  <2> QED BY <2>1, <2>4, <2>5
<1>3. CASE SweepStalePart
  BY <1>3, <1>t, <1>u, SweepGives DEF SweepStalePart, SweepShape, Stage
<1>4. CASE SweepParts
  BY <1>4, <1>t, <1>u, SameHeld DEF SweepParts, SweepShape, Stage, upVars
<1>5. CASE SweepOrphanPart
  <2>1. SweepShape' /\ UNCHANGED <<shold, live>>
    BY <1>5 DEF SweepOrphanPart, SweepShape, Stage
  <2> QED BY <1>t, <1>u, <2>1, SameHeld DEF upVars
<1>6. CASE SweepEnd
  BY <1>6, <1>t, <1>u, SameHeld DEF SweepEnd, SweepShape, Stage, upVars
<1>7. CASE ListBlobs
  BY <1>7, <1>t, <1>u, SameHeld DEF ListBlobs, SweepShape, Stage, upVars
<1>8. CASE HoldBlobs
  <2>1. SweepShape' /\ shold = {}
    BY <1>8 DEF HoldBlobs, SweepShape, Stage
  <2>2. /\ todo \ live.held \in SUBSET Uploads
        /\ (todo \ live.held) \cap live.held = {}
    BY DEF TypeOK, ServerType
  <2>3. shold' = todo \ live.held /\ live' = Hold(live, todo \ live.held)
    BY <1>8 DEF HoldBlobs
  <2> QED BY <1>t, <1>u, <2>1, <2>2, <2>3, SweepTakes
<1>9. CASE FindOrphans
  BY <1>9, <1>t, <1>u, SameHeld DEF FindOrphans, SweepShape, Stage, upVars
<1>10. CASE Quarantine
  <2>1. SweepShape' /\ UNCHANGED <<shold, live>>
    BY <1>10 DEF Quarantine, SweepShape, Stage
  <2> QED BY <1>t, <1>u, <2>1, SameHeld DEF upVars
<1>11. CASE LeaveBlobs
  BY <1>11, <1>t, <1>u, SweepGives DEF LeaveBlobs, SweepShape, Stage
<1>12. CASE Purge
  BY <1>12, <1>t, <1>u, SameHeld DEF Purge, SweepShape, Stage, upVars
<1> QED BY <1>1, <1>2, <1>3, <1>4, <1>5, <1>6, <1>7, <1>8, <1>9, <1>10,
     <1>11, <1>12 DEF SweeperStep

(* Every step of the startup preserves it.                                 *)
LEMMA StartupStepOwnership ==
  ASSUME Ownership, StartupStep
  PROVE  (TaskShape /\ SweepShape /\ HeldExact /\ NamesExact)'
<1>1. UNCHANGED <<upVars, live, shold>>
  BY DEF StartupStep, Repair, RepairParts, RepairPart, StartupSweep
<1>2. spc \in {"repair", "repairParts"}
  BY DEF StartupStep, Repair, RepairParts, RepairPart, StartupSweep
<1>3. spc' \in {"repair", "repairParts", "stale"}
  BY DEF StartupStep, Repair, RepairParts, RepairPart, StartupSweep, ListStale,
         Stage
<1>4. SweepShape'
  BY <1>1, <1>2, <1>3 DEF SweepShape, Ownership
<1> QED BY <1>1, <1>4, SameTasks, SameHeld DEF Ownership, upVars

(* After a crash nobody holds anything and the table is empty.             *)
LEMMA CrashOwnership ==
  ASSUME Crash \/ PowerLoss
  PROVE  (TaskShape /\ SweepShape /\ HeldExact /\ NamesExact)'
<1>1. PICK r : Restart(r)
  BY DEF Crash, PowerLoss
<1> USE <1>1 DEF Restart
<1>2. TaskShape'
  BY DEF TaskShape, Shape, Bare, Dropping, NoClaim
<1>3. SweepShape'
  BY DEF SweepShape, Stage
<1>4. HeldExact' /\ NamesExact'
  BY DEF HeldExact, NamesExact, Holds, Working, NoClaim, EmptyLive
<1> QED BY <1>2, <1>3, <1>4

(* The invariant holds initially.                                          *)
LEMMA InitOwnership ==
  RecoveryInit => Ownership
<1> SUFFICES ASSUME RecoveryInit PROVE Ownership
  OBVIOUS
<1> USE DEF RecoveryInit, Init
<1>1. DbType
  <2>1. <<>> \in Seq(DbStates)
    OBVIOUS
  <2> QED BY <2>1 DEF DbType, RowTable, EntryTable
<1>2. FsType
  <2>1. <<>> \in Seq(DirStates)
    OBVIOUS
  <2> QED BY <2>1 DEF FsType, QuarTable, Holes, Bytes
<1>3. UpType
  BY DEF UpType, Labels, NoClaim, Claims
<1>4. ServerType
  BY DEF ServerType, EmptyLive, LiveType, Stages
<1>5. TaskShape /\ SweepShape
  BY DEF TaskShape, Shape, SweepShape, Bare, Dropping, NoClaim
<1>6. HeldExact /\ NamesExact
  BY DEF HeldExact, NamesExact, Holds, Working, NoClaim, EmptyLive
<1> QED BY <1>1, <1>2, <1>3, <1>4, <1>5, <1>6 DEF Ownership, TypeOK

(* Every step of the connections, the users, the sweeper, the startup and  *)
(* the two kinds of crash preserves the invariant.                         *)
LEMMA OwnershipInductive ==
  Ownership /\ [Next]_vars => Ownership'
<1> SUFFICES ASSUME Ownership, [Next]_vars PROVE Ownership'
  OBVIOUS
<1> DEFINE Rest == TaskShape /\ SweepShape /\ HeldExact /\ NamesExact
<1>1. ASSUME NEW c \in Conns, ConnStep(c) PROVE Ownership'
  <2>1. SweepShape'
    BY <1>1 DEF ConnStep, sweepVars, SweepShape, Ownership
  <2> QED BY <1>1, <2>1, ConnStepType, ConnStepShape, ConnStepHeld
          DEF Ownership
<1>2. CASE DeleteEntry \/ Unlink \/ EditFolder \/ Age
  BY <1>2, WorldStepType, WorldStepOwnership DEF Ownership
<1>3. CASE SweeperStep
  BY <1>3, SweeperStepType, SweeperStepOwnership DEF Ownership
<1>4. CASE StartupStep
  BY <1>4, StartupStepType, StartupStepOwnership DEF Ownership
<1>5. CASE Crash \/ PowerLoss
  BY <1>5, CrashType, CrashOwnership DEF Ownership
<1>6. CASE UNCHANGED vars
  <2>1. TypeOK'
    BY <1>6 DEF Ownership, TypeOK, DbType, FsType, UpType, ServerType, vars,
         dbVars, fsVars, upVars, envVars, sweepVars, counts
  <2>2. UNCHANGED <<upVars, live, sweepVars>>
    BY <1>6 DEF vars
  <2> QED BY <2>1, <2>2, SameTasks, SameHeld
          DEF Ownership, upVars, sweepVars, SweepShape
<1> QED BY <1>1, <1>2, <1>3, <1>4, <1>5, <1>6 DEF Next

(* The invariant holds in every reachable state.                           *)
THEOREM OwnershipHolds == Spec => []Ownership
<1>1. RecoveryInit => Ownership
  BY InitOwnership
<1>2. Ownership /\ [Next]_vars => Ownership'
  BY OwnershipInductive
<1> QED BY <1>1, <1>2, PTL DEF Spec

(* Every variable keeps its type: rows, files, live table, tasks.          *)
THEOREM TypeCorrect == Spec => []TypeOK
<1>1. Ownership => TypeOK
  BY DEF Ownership
<1> QED BY <1>1, OwnershipHolds, PTL

(* Live::held is exactly what the tasks and the sweeper hold, and no id    *)
(* ever has two holders, whatever the interleaving and wherever it dies.   *)
THEOREM OneHolderPerUpload == Spec => []HeldExact
<1>1. Ownership => HeldExact
  BY DEF Ownership
<1> QED BY <1>1, OwnershipHolds, PTL

(* A destination name is reserved exactly while one upload claims it, and  *)
(* never by two.                                                           *)
THEOREM OneUploadPerName == Spec => []NamesExact
<1>1. Ownership => NamesExact
  BY DEF Ownership
<1> QED BY <1>1, OwnershipHolds, PTL

---------------------------------------------------------------------------
(* Sums over finite sets.                                                  *)

(* A nonempty set of naturals has a least member: the well-founded order   *)
(* of the naturals, in the form that proofs by induction over data take.   *)
LEMMA LeastNat ==
  ASSUME NEW T \in SUBSET Nat, T # {}
  PROVE  \E m \in T : \A n \in T : m <= n
<1> DEFINE R == {s \in Nat \X Nat : s[1] < s[2]}
<1>1. R = OpToRel(<, Nat)
  BY DEF OpToRel
<1>2. IsWellFoundedOn(R, Nat)
  BY <1>1, NatLessThanWellFounded
<1>3. PICK m \in T : \A y \in T : ~(<<y, m>> \in R)
  <2> HIDE DEF R
  <2> QED BY <1>2, WFMin
<1>4. \A y \in T : m \in Nat /\ y \in Nat /\ <<y, m>> \in Nat \X Nat
  OBVIOUS
<1>5. \A y \in T : ~(y < m)
  BY <1>3, <1>4
<1> QED BY <1>4, <1>5

(* The member a fold takes first.                                          *)
First(s) == CHOOSE x \in s : TRUE

(* The fold over the claims is a function that satisfies its recursion, if *)
(* there is one at all.                                                    *)
LEMMA FoldUnfolds ==
  ASSUME NEW claims, NEW S, NEW g,
         g = [s \in SUBSET S |->
                IF s = {} THEN 0
                ELSE claims[First(s)].bytes + g[s \ {First(s)}]]
  PROVE  \E f : /\ f = [s \in SUBSET S |->
                    IF s = {} THEN 0
                    ELSE claims[First(s)].bytes + f[s \ {First(s)}]]
                /\ BytesOf(claims, S) = f[S]
<1> DEFINE P(f) == f = [s \in SUBSET S |->
                    IF s = {} THEN 0
                    ELSE claims[First(s)].bytes + f[s \ {First(s)}]]
           h == CHOOSE f : P(f)
<1>1. P(h)
  OBVIOUS
<1>2. BytesOf(claims, S) = h[S]
  BY DEF BytesOf, FoldSet, MapThenFoldSet, First
<1> QED BY <1>1, <1>2

(* The bytes of a set of claims, counted one by one.                       *)
Units(claims, cs) ==
  UNION {{c} \X (1 .. claims[c].bytes) : c \in cs}

(* There are as many of them as the claims say.                            *)
LEMMA UnitsCount ==
  ASSUME NEW claims, NEW S, IsFiniteSet(S),
         \A c \in S : claims[c].bytes \in Nat
  PROVE  /\ IsFiniteSet(Units(claims, S))
         /\ \A c \in S :
              Cardinality(Units(claims, S)) =
                claims[c].bytes + Cardinality(Units(claims, S \ {c}))
<1> DEFINE Of(c) == {c} \X (1 .. claims[c].bytes)
<1>1. ASSUME NEW c \in S
      PROVE  IsFiniteSet(Of(c)) /\ Cardinality(Of(c)) = claims[c].bytes
  <2>1. /\ IsFiniteSet({c}) /\ Cardinality({c}) = 1
    BY FS_Singleton
  <2>2. ASSUME NEW n \in Nat
        PROVE  IsFiniteSet(1 .. n) /\ Cardinality(1 .. n) = n
    BY FS_Interval
  <2>3. ASSUME NEW n \in Nat
        PROVE  IsFiniteSet({c} \X (1 .. n)) /\ Cardinality({c} \X (1 .. n)) = n
    <3>1. /\ IsFiniteSet({c} \X (1 .. n))
          /\ Cardinality({c} \X (1 .. n))
               = Cardinality({c}) * Cardinality(1 .. n)
      BY <2>1, <2>2, FS_Product
    <3> QED BY <2>1, <2>2, <3>1
  <2> QED BY <2>3
<1>2. ASSUME NEW s \in SUBSET S PROVE IsFiniteSet(Units(claims, s))
  <2> DEFINE f == [c \in s |-> Of(c)]
             T == {Of(c) : c \in s}
  <2>1. f \in Surjection(s, T)
    BY DEF Surjection
  <2>2. IsFiniteSet(s)
    BY FS_Subset
  <2>3. IsFiniteSet(T)
    <3> HIDE DEF T, f
    <3> QED BY <2>1, <2>2, FS_Surjection
  <2>4. \A t \in T : IsFiniteSet(t)
    BY <1>1
  <2>5. IsFiniteSet(UNION T)
    <3> HIDE DEF T
    <3> QED BY <2>3, <2>4, FS_UNION
  <2> QED BY <2>5 DEF Units
<1>3. ASSUME NEW c \in S
      PROVE  Cardinality(Units(claims, S)) =
               claims[c].bytes + Cardinality(Units(claims, S \ {c}))
  <2> DEFINE U == Units(claims, S \ {c})
  <2>1. Units(claims, S) = Of(c) \cup U
    BY DEF Units
  <2>2. Of(c) \cap U = {}
    BY DEF Units
  <2>3. IsFiniteSet(U) /\ Cardinality(U) \in Nat
    BY <1>2, FS_CardinalityType
  <2>4. IsFiniteSet(Of(c)) /\ Cardinality(Of(c)) = claims[c].bytes
    BY <1>1
  <2> HIDE DEF U, Of
  <2>5. Cardinality(Of(c) \cup U)
          = Cardinality(Of(c)) + Cardinality(U) - Cardinality(Of(c) \cap U)
    BY <2>3, <2>4, FS_Union
  <2>6. Cardinality(Of(c) \cap U) = 0
    BY <2>2, FS_EmptySet
  <2>7. Cardinality(Units(claims, S)) = claims[c].bytes + Cardinality(U)
    BY <2>1, <2>3, <2>4, <2>5, <2>6
  <2> QED BY <2>7 DEF U
<1> QED BY <1>2, <1>3

(* The fold over the claims is their number: by induction over the size of *)
(* the sets it is iterated on.                                             *)
LEMMA BytesCounted ==
  ASSUME NEW claims, NEW S, IsFiniteSet(S),
         \A c \in S : claims[c].bytes \in Nat
  PROVE  BytesOf(claims, S) = Cardinality(Units(claims, S))
<1> DEFINE g == [s \in SUBSET S |-> Cardinality(Units(claims, s))]
<1>0. \A s \in SUBSET S : IsFiniteSet(s)
  BY FS_Subset
<1>1. ASSUME NEW s \in SUBSET S, s # {}
      PROVE  /\ First(s) \in s
             /\ Cardinality(Units(claims, s)) =
                  claims[First(s)].bytes
                    + Cardinality(Units(claims, s \ {First(s)}))
  <2>1. First(s) \in s
    BY <1>1 DEF First
  <2> QED BY <1>0, <2>1, UnitsCount
<1>2. Cardinality(Units(claims, {})) = 0
  BY FS_EmptySet DEF Units
<1>3. g = [s \in SUBSET S |->
             IF s = {} THEN 0
             ELSE claims[First(s)].bytes + g[s \ {First(s)}]]
  <2>1. ASSUME NEW s \in SUBSET S
        PROVE  g[s] = IF s = {} THEN 0
                      ELSE claims[First(s)].bytes + g[s \ {First(s)}]
    <3>1. CASE s = {}
      BY <3>1, <1>2
    <3>2. CASE s # {}
      BY <3>2, <1>1
    <3> QED BY <3>1, <3>2
  <2> QED BY <2>1
<1> HIDE DEF g
<1>4. PICK f : /\ f = [s \in SUBSET S |->
                    IF s = {} THEN 0
                    ELSE claims[First(s)].bytes + f[s \ {First(s)}]]
               /\ BytesOf(claims, S) = f[S]
  BY <1>3, FoldUnfolds
<1> DEFINE Bad == {s \in SUBSET S : f[s] # g[s]}
           T == {Cardinality(s) : s \in Bad}
<1>5. Bad = {}
  <2> SUFFICES ASSUME Bad # {} PROVE FALSE
    OBVIOUS
  <2>1. T \in SUBSET Nat /\ T # {}
    BY <1>0, FS_CardinalityType
  <2>2. PICK m \in T : \A n \in T : m <= n
    BY <2>1, LeastNat
  <2>3. PICK s \in Bad : m = Cardinality(s)
    OBVIOUS
  <2>4. s # {}
    BY <2>3, <1>3, <1>4
  <2>5. First(s) \in s /\ s \ {First(s)} \in SUBSET S
    BY <2>4, <1>1
  <2>6. Cardinality(s \ {First(s)}) = Cardinality(s) - 1
        /\ Cardinality(s) \in Nat
    BY <1>0, <2>5, FS_RemoveElement, FS_CardinalityType
  <2>7. s \ {First(s)} \notin Bad
    BY <2>2, <2>3, <2>6
  <2> QED BY <2>3, <2>4, <2>5, <2>7, <1>3, <1>4
<1>6. g[S] = Cardinality(Units(claims, S))
  BY DEF g
<1> QED BY <1>4, <1>5, <1>6

(* The claims of T are those of S and one more.                            *)
Adds(claims, more, S, T, c) ==
  /\ IsFiniteSet(S) /\ c \notin S /\ T = S \cup {c}
  /\ \A d \in S : claims[d].bytes \in Nat /\ more[d] = claims[d]
  /\ more[c].bytes \in Nat

(* One more claim adds its bytes.                                          *)
LEMMA BytesTaken ==
  ASSUME NEW claims, NEW more, NEW S, NEW T, NEW c,
         Adds(claims, more, S, T, c)
  PROVE  /\ BytesOf(claims, S) \in Nat
         /\ BytesOf(more, S) = BytesOf(claims, S)
         /\ BytesOf(more, T) = BytesOf(claims, S) + more[c].bytes
<1> USE DEF Adds
<1>1. IsFiniteSet(S \cup {c}) /\ (S \cup {c}) \ {c} = S
  BY FS_AddElement
<1>2. Units(more, S) = Units(claims, S)
  BY DEF Units
<1>3. /\ BytesOf(claims, S) = Cardinality(Units(claims, S))
      /\ BytesOf(more, S) = Cardinality(Units(more, S))
      /\ BytesOf(more, S \cup {c}) = Cardinality(Units(more, S \cup {c}))
  BY <1>1, BytesCounted
<1>4. Cardinality(Units(more, S \cup {c})) =
        more[c].bytes + Cardinality(Units(more, S))
  BY <1>1, UnitsCount
<1>5. Cardinality(Units(claims, S)) \in Nat
  BY UnitsCount, FS_CardinalityType
<1> QED BY <1>2, <1>3, <1>4, <1>5

---------------------------------------------------------------------------
(* The counters of the live table.                                         *)

(* The connections that count against an account.                          *)
Ups(a)   == {c \in Working : Acct(c) = a}
Downs(a) == {c \in Reading : Acct(c) = a}

(* Sets of connections are finite.                                         *)
LEMMA ConnsFinite ==
  ASSUME NEW S \in SUBSET Conns
  PROVE  IsFiniteSet(S) /\ Cardinality(S) \in Nat
  BY TransferConstants, FS_Subset, FS_CardinalityType

(* The caps are naturals.                                                  *)
LEMMA CapsNat ==
  /\ MaxUploadsPerAccount \in Nat /\ MaxDownloadsPerAccount \in Nat
  /\ MaxConcurrent \in Nat /\ MaxReserved \in Nat
  BY ClaimConstants

(* One connection more or less in a set of them.                           *)
LEMMA OneMore ==
  ASSUME NEW S \in SUBSET Conns, NEW c \in Conns
  PROVE  /\ c \notin S => Cardinality(S \cup {c}) = Cardinality(S) + 1
         /\ c \in S => /\ Cardinality(S \ {c}) = Cardinality(S) - 1
                       /\ Cardinality(S) > 0
<1>1. IsFiniteSet(S) /\ Cardinality(S) \in Nat
  BY ConnsFinite
<1>2. c \in S => Cardinality(S) # 0
  BY <1>1, FS_EmptySet
<1>3. c \notin S => Cardinality(S \cup {c}) = Cardinality(S) + 1
  BY <1>1, FS_AddElement
<1>4. c \in S => Cardinality(S \ {c}) = Cardinality(S) - 1
  BY <1>1, FS_RemoveElement
<1> QED BY <1>1, <1>2, <1>3, <1>4

(* What claims and releases do to the counters.                            *)
LEMMA UploadCounters ==
  ASSUME NEW l \in LiveType, NEW a \in Accounts, NEW u, NEW n, NEW b
  PROVE  /\ ClaimUpload(l, a, u, n, b).up = [l.up EXCEPT ![a] = @ + 1]
         /\ ClaimUpload(l, a, u, n, b).down = l.down
         /\ ClaimUpload(l, a, u, n, b).total = l.total + 1
         /\ ClaimUpload(l, a, u, n, b).bytes = l.bytes + b
         /\ ReleaseUpload(l, a, u, n, b).up =
              [l.up EXCEPT ![a] = SatSub(@, 1)]
         /\ ReleaseUpload(l, a, u, n, b).down = l.down
         /\ ReleaseUpload(l, a, u, n, b).total = SatSub(l.total, 1)
         /\ ReleaseUpload(l, a, u, n, b).bytes = SatSub(l.bytes, b)
  BY DEF ClaimUpload, ReleaseUpload, LiveType

(* The same for downloads, and holds count nothing.                        *)
LEMMA OtherCounters ==
  ASSUME NEW l \in LiveType, NEW a \in Accounts, NEW us
  PROVE  /\ ClaimDownload(l, a).up = l.up
         /\ ClaimDownload(l, a).down = [l.down EXCEPT ![a] = @ + 1]
         /\ ClaimDownload(l, a).total = l.total + 1
         /\ ClaimDownload(l, a).bytes = l.bytes
         /\ ReleaseDownload(l, a).up = l.up
         /\ ReleaseDownload(l, a).down = [l.down EXCEPT ![a] = SatSub(@, 1)]
         /\ ReleaseDownload(l, a).total = SatSub(l.total, 1)
         /\ ReleaseDownload(l, a).bytes = l.bytes
         /\ Hold(l, us).up = l.up /\ Unhold(l, us).up = l.up
         /\ Hold(l, us).down = l.down /\ Unhold(l, us).down = l.down
         /\ Hold(l, us).total = l.total /\ Unhold(l, us).total = l.total
         /\ Hold(l, us).bytes = l.bytes /\ Unhold(l, us).bytes = l.bytes
  BY DEF ClaimDownload, ReleaseDownload, Hold, Unhold, LiveType


(* Counters that count one more upload.                                    *)
LEMMA TakeCounted ==
  ASSUME TypeOK, AccountingExact, NEW c \in Conns, ~claim[c].on, NEW u,
         NEW n, NEW b \in Nat, TakeClaim(c, u, n, b), UNCHANGED dl
  PROVE  AccountingExact'
<1>1. live \in LiveType /\ claim \in [Conns -> Claims] /\ Acct(c) \in Accounts
  BY TransferConstants DEF TypeOK, ServerType, UpType, Acct
<1>2. /\ live' = ClaimUpload(live, Acct(c), u, n, b)
      /\ claim' = [claim EXCEPT ![c] = [dest |-> n, bytes |-> b, on |-> TRUE]]
      /\ live.up[Acct(c)] < MaxUploadsPerAccount
      /\ live.total < MaxConcurrent
      /\ live.bytes + b <= MaxReserved
  BY DEF TakeClaim, CanClaimUpload
<1>3. /\ live'.up = [live.up EXCEPT ![Acct(c)] = @ + 1]
      /\ live'.down = live.down
      /\ live'.total = live.total + 1
      /\ live'.bytes = live.bytes + b
  BY <1>1, <1>2 DEF ClaimUpload, LiveType
<1>4. /\ Working' = Working \cup {c} /\ Reading' = Reading
      /\ c \notin Working /\ Working \in SUBSET Conns
      /\ Reading \in SUBSET Conns
  BY <1>1, <1>2 DEF Working, Reading
<1>5. ASSUME NEW a \in Accounts
      PROVE  /\ Ups(a) \in SUBSET Conns /\ Ups(a) \ {c} = Ups(a)
             /\ Ups(a)' = IF a = Acct(c) THEN Ups(a) \cup {c} ELSE Ups(a)
             /\ Downs(a)' = Downs(a)
  BY <1>4 DEF Ups, Downs, Acct
<1>6. ASSUME NEW a \in Accounts
      PROVE  /\ live'.up[a] = Cardinality(Ups(a)')
             /\ live'.down[a] = Cardinality(Downs(a)')
             /\ live'.up[a] <= MaxUploadsPerAccount
             /\ live'.down[a] <= MaxDownloadsPerAccount
  <2>1. /\ live.up[a] = Cardinality(Ups(a)) /\ live.up[a] \in Nat
        /\ live.down[a] = Cardinality(Downs(a))
        /\ live.up[a] <= MaxUploadsPerAccount
        /\ live.down[a] <= MaxDownloadsPerAccount
    BY <1>1, LiveFields DEF AccountingExact, Ups, Downs
  <2>2. live'.up[a] = IF a = Acct(c) THEN live.up[a] + 1 ELSE live.up[a]
    BY <1>1, <1>3, LiveFields
  <2>3. CASE a = Acct(c)
    <3>1. Cardinality(Ups(a) \cup {c}) = Cardinality(Ups(a)) + 1
      BY <1>5, OneMore
    <3>2. live'.up[a] <= MaxUploadsPerAccount
      BY <1>2, <2>1, <2>2, <2>3, CapsNat
    <3>3. live'.up[a] = Cardinality(Ups(a)')
      BY <1>5, <2>1, <2>2, <2>3, <3>1
    <3> QED BY <1>3, <1>5, <2>1, <3>2, <3>3
  <2>4. CASE a # Acct(c)
    BY <1>3, <1>5, <2>1, <2>2, <2>4
  <2> QED BY <2>3, <2>4
<1>7. /\ live'.total = Cardinality(Working') + Cardinality(Reading')
      /\ live'.total <= MaxConcurrent
  <2>1. Cardinality(Working \cup {c}) = Cardinality(Working) + 1
    BY <1>4, OneMore
  <2>2. /\ live.total = Cardinality(Working) + Cardinality(Reading)
        /\ Cardinality(Working) \in Nat /\ Cardinality(Reading) \in Nat
    BY <1>4, ConnsFinite DEF AccountingExact
  <2> QED BY <1>2, <1>3, <1>4, <2>1, <2>2, CapsNat
<1>8. live'.bytes = BytesOf(claim', Working') /\ live'.bytes <= MaxReserved
  <2>1. \A d \in Working : claim[d].bytes \in Nat /\ claim'[d] = claim[d]
    BY <1>1, <1>2, <1>4 DEF Claims
  <2>2. claim'[c].bytes = b
    BY <1>1, <1>2
  <2>3. BytesOf(claim', Working \cup {c}) = BytesOf(claim, Working) + b
    <3>1. IsFiniteSet(Working)
      BY <1>4, ConnsFinite
    <3>2. c \notin Working
      BY <1>4
    <3>3. claim'[c].bytes \in Nat
      BY <2>2
    <3>4. BytesOf(claim', Working \cup {c})
            = BytesOf(claim, Working) + claim'[c].bytes
      <4>1. Adds(claim, claim', Working, Working \cup {c}, c)
        BY <2>1, <3>1, <3>2, <3>3 DEF Adds
      <4> QED BY <4>1, BytesTaken
    <3> QED BY <2>2, <3>4
  <2> QED BY <1>2, <1>3, <1>4, <2>3 DEF AccountingExact
<1> QED BY <1>6, <1>7, <1>8 DEF AccountingExact, Ups, Downs

(* Counters that count one less, if the task had a claim.                  *)
LEMMA LeaveCounted ==
  ASSUME TypeOK, AccountingExact, NEW c \in Conns, Leave(c), UNCHANGED dl
  PROVE  AccountingExact'
<1>1. live \in LiveType /\ claim \in [Conns -> Claims] /\ Acct(c) \in Accounts
  BY TransferConstants DEF TypeOK, ServerType, UpType, Acct
<1>2. claim' = [claim EXCEPT ![c] = NoClaim] /\ ~NoClaim.on
  BY DEF Leave, NoClaim
<1>3. /\ Working' = Working \ {c} /\ Reading' = Reading
      /\ Working \in SUBSET Conns /\ Reading \in SUBSET Conns
  BY <1>1, <1>2 DEF Working, Reading
<1>4. ASSUME NEW a \in Accounts
      PROVE  /\ Ups(a) \in SUBSET Conns /\ Downs(a)' = Downs(a)
             /\ Ups(a)' = Ups(a) \ {c}
             /\ c \in Ups(a) <=> claim[c].on /\ a = Acct(c)
  BY <1>3 DEF Ups, Downs, Acct, Working
<1>5. /\ live.total = Cardinality(Working) + Cardinality(Reading)
      /\ live.total <= MaxConcurrent
      /\ live.bytes = BytesOf(claim, Working) /\ live.bytes <= MaxReserved
      /\ live.total \in Nat /\ live.bytes \in Nat
  BY <1>1, LiveFields DEF AccountingExact
<1>6. ASSUME NEW a \in Accounts
      PROVE  /\ live.up[a] = Cardinality(Ups(a)) /\ live.up[a] \in Nat
             /\ live.down[a] = Cardinality(Downs(a))
             /\ live.up[a] <= MaxUploadsPerAccount
             /\ live.down[a] <= MaxDownloadsPerAccount
  BY <1>1, LiveFields DEF AccountingExact, Ups, Downs
<1>7. CASE ~claim[c].on
  <2>1. Working' = Working /\ \A a \in Accounts : Ups(a)' = Ups(a)
    BY <1>3, <1>4, <1>7 DEF Working
  <2>2. live' = Unhold(live, hold[c])
    BY <1>7 DEF Leave
  <2>3. /\ live'.up = live.up /\ live'.down = live.down
        /\ live'.total = live.total /\ live'.bytes = live.bytes
    BY <1>1, <2>2, OtherCounters
  <2>4. \A d \in Working : claim[d].bytes \in Nat /\ claim'[d] = claim[d]
    BY <1>1, <1>2, <1>7 DEF Claims, Working
  <2>5. BytesOf(claim', Working) = BytesOf(claim, Working)
    <3>1. c \notin Working /\ IsFiniteSet(Working)
      BY <1>3, <1>7, ConnsFinite DEF Working
    <3>2. claim'[c].bytes \in Nat
      BY <1>1, <1>2 DEF NoClaim
    <3>3. Adds(claim, claim', Working, Working \cup {c}, c)
      BY <2>4, <3>1, <3>2 DEF Adds
    <3> QED BY <3>3, BytesTaken
  <2> QED BY <1>3, <1>4, <1>5, <1>6, <2>1, <2>3, <2>5
          DEF AccountingExact, Ups, Downs
<1>8. CASE claim[c].on
  <2> DEFINE l == ReleaseUpload(live, Acct(c), tid[c], claim[c].dest,
                                claim[c].bytes)
             W == Working \ {c}
  <2>1. live' = Unhold(l, hold[c])
    BY <1>8 DEF Leave
  <2>2. /\ l.up = [live.up EXCEPT ![Acct(c)] = SatSub(@, 1)]
        /\ l.down = live.down /\ l.total = SatSub(live.total, 1)
        /\ l.bytes = SatSub(live.bytes, claim[c].bytes)
    BY <1>1 DEF ReleaseUpload, LiveType
  <2>3. /\ live'.up = l.up /\ live'.down = l.down
        /\ live'.total = l.total /\ live'.bytes = l.bytes
    <3> HIDE DEF l
    <3> QED BY <2>1 DEF Unhold
  <2>4. c \in Working /\ Working = W \cup {c} /\ c \notin W
    BY <1>8 DEF Working
  <2>5. ASSUME NEW a \in Accounts
        PROVE  /\ live'.up[a] = Cardinality(Ups(a)')
               /\ live'.down[a] = Cardinality(Downs(a)')
               /\ live'.up[a] <= MaxUploadsPerAccount
               /\ live'.down[a] <= MaxDownloadsPerAccount
    <3>1. live'.up[a] = IF a = Acct(c) THEN SatSub(live.up[a], 1)
                                       ELSE live.up[a]
      BY <1>1, <2>2, <2>3, LiveFields
    <3>2. CASE a = Acct(c)
      <4>1. c \in Ups(a)
        BY <1>4, <1>8, <3>2
      <4>2. /\ Cardinality(Ups(a) \ {c}) = Cardinality(Ups(a)) - 1
            /\ Cardinality(Ups(a)) > 0
        BY <1>4, <4>1, OneMore
      <4>3. SatSub(live.up[a], 1) = live.up[a] - 1
        BY <1>6, <4>2 DEF SatSub
      <4>4. live'.up[a] = Cardinality(Ups(a)')
        BY <1>4, <1>6, <3>1, <3>2, <4>2, <4>3
      <4>5. live'.up[a] <= MaxUploadsPerAccount
        BY <1>6, <3>1, <3>2, <4>3, CapsNat
      <4> QED BY <1>4, <1>6, <2>2, <2>3, <4>4, <4>5
    <3>3. CASE a # Acct(c)
      <4>1. Ups(a)' = Ups(a)
        BY <1>4, <3>3
      <4>2. live'.up[a] = live.up[a] /\ live'.down[a] = live.down[a]
        BY <2>2, <2>3, <3>1, <3>3
      <4> QED BY <1>4, <1>6, <4>1, <4>2
    <3> QED BY <3>2, <3>3
  <2>6. /\ live'.total = Cardinality(Working') + Cardinality(Reading')
        /\ live'.total <= MaxConcurrent
    <3>1. /\ Cardinality(W) = Cardinality(Working) - 1
          /\ Cardinality(Working) > 0
          /\ Cardinality(Working) \in Nat /\ Cardinality(Reading) \in Nat
      BY <1>3, <2>4, OneMore, ConnsFinite
    <3>2. SatSub(live.total, 1) = live.total - 1
      BY <1>5, <3>1 DEF SatSub
    <3> QED BY <1>3, <1>5, <2>2, <2>3, <3>1, <3>2, CapsNat
  <2>7. live'.bytes = BytesOf(claim', Working') /\ live'.bytes <= MaxReserved
    <3>1. \A d \in Conns : claim[d].bytes \in Nat
      BY <1>1 DEF Claims
    <3>2. \A d \in W : claim'[d] = claim[d]
      BY <1>1, <1>2
    <3>3. IsFiniteSet(W)
      BY <1>3, ConnsFinite
    <3>4. /\ BytesOf(claim, W) \in Nat
          /\ BytesOf(claim, W \cup {c}) = BytesOf(claim, W) + claim[c].bytes
      <4>1. Adds(claim, claim, W, W \cup {c}, c)
        BY <1>3, <2>4, <3>1, <3>3 DEF Adds
      <4> QED BY <4>1, BytesTaken
    <3>5. claim'[c].bytes \in Nat
      BY <1>1, <1>2 DEF NoClaim
    <3>6. BytesOf(claim', W) = BytesOf(claim, W)
      <4>1. Adds(claim, claim', W, W \cup {c}, c)
        BY <1>3, <2>4, <3>1, <3>2, <3>3, <3>5 DEF Adds
      <4> QED BY <4>1, BytesTaken
    <3>7. SatSub(live.bytes, claim[c].bytes) = BytesOf(claim, W)
      <4>1. live.bytes = BytesOf(claim, W) + claim[c].bytes
        BY <1>5, <2>4, <3>4
      <4>2. claim[c].bytes \in Nat
        BY <3>1
      <4> QED BY <3>4, <4>1, <4>2 DEF SatSub
    <3>8. live'.bytes = BytesOf(claim, W)
      BY <2>2, <2>3, <3>7
    <3>9. BytesOf(claim, W) <= BytesOf(claim, W) + claim[c].bytes
      BY <3>1, <3>4
    <3>10. Working' = W
      BY <1>3
    <3>11. BytesOf(claim, W) + claim[c].bytes <= MaxReserved
      BY <1>5, <2>4, <3>4
    <3>12. BytesOf(claim, W) <= MaxReserved
      BY <3>1, <3>4, <3>9, <3>11, CapsNat
    <3> QED BY <3>6, <3>8, <3>10, <3>12
  <2> QED BY <2>5, <2>6, <2>7 DEF AccountingExact, Ups, Downs
<1> QED BY <1>7, <1>8

(* Steps that claim and release nothing.                                   *)
SameCounters ==
  /\ UNCHANGED <<claim, dl>>
  /\ live'.up = live.up /\ live'.down = live.down
  /\ live'.total = live.total /\ live'.bytes = live.bytes

(* They leave the counters right.                                          *)
LEMMA SameCounted ==
  ASSUME AccountingExact, SameCounters
  PROVE  AccountingExact'
<1>1. Working' = Working /\ Reading' = Reading
  BY DEF SameCounters, Working, Reading
<1> QED BY <1>1 DEF SameCounters, AccountingExact, Acct

(* Counters that count one more download, or one less.                     *)
LEMMA DownloadCounted ==
  ASSUME TypeOK, AccountingExact, NEW c \in Conns,
         OpenForRead(c) \/ EndDownload(c)
  PROVE  AccountingExact'
<1>1. live \in LiveType /\ dl \in [Conns -> Uploads \cup {NoDl}]
      /\ Acct(c) \in Accounts
  BY TransferConstants DEF TypeOK, ServerType, Acct
<1>2. /\ Working' = Working /\ claim' = claim
      /\ Working \in SUBSET Conns /\ Reading \in SUBSET Conns
  BY DEF Working, Reading, OpenForRead, EndDownload, upVars
<1>3. /\ live.total = Cardinality(Working) + Cardinality(Reading)
      /\ live.total <= MaxConcurrent /\ live.total \in Nat
      /\ Cardinality(Working) \in Nat /\ Cardinality(Reading) \in Nat
      /\ live.bytes = BytesOf(claim, Working) /\ live.bytes <= MaxReserved
  BY <1>1, <1>2, ConnsFinite, LiveFields DEF AccountingExact
<1>4. ASSUME NEW a \in Accounts
      PROVE  /\ live.up[a] = Cardinality(Ups(a)) /\ Ups(a)' = Ups(a)
             /\ live.down[a] = Cardinality(Downs(a)) /\ live.down[a] \in Nat
             /\ live.up[a] <= MaxUploadsPerAccount
             /\ live.down[a] <= MaxDownloadsPerAccount
             /\ Downs(a) \in SUBSET Conns
  <2>1. Ups(a)' = Ups(a) /\ Downs(a) \in SUBSET Conns
    BY <1>2 DEF Ups, Downs, Acct
  <2> QED BY <1>1, <2>1, LiveFields DEF AccountingExact, Ups, Downs
<1>5. CASE OpenForRead(c)
  <2>1. PICK n \in Names : /\ entry[n] \in Uploads
                           /\ dl' = [dl EXCEPT ![c] = entry[n]]
    BY <1>5 DEF OpenForRead
  <2>2. entry[n] # NoDl
    BY <2>1, MarksAreNoIds
  <2>3. /\ Reading' = Reading \cup {c} /\ c \notin Reading
        /\ live' = ClaimDownload(live, Acct(c))
        /\ live.down[Acct(c)] < MaxDownloadsPerAccount
        /\ live.total < MaxConcurrent
    BY <1>1, <1>5, <2>1, <2>2 DEF OpenForRead, Reading, CanClaimDownload
  <2>4. /\ live'.up = live.up /\ live'.total = live.total + 1
        /\ live'.down = [live.down EXCEPT ![Acct(c)] = @ + 1]
        /\ live'.bytes = live.bytes
    BY <1>1, <2>3 DEF ClaimDownload, LiveType
  <2>5. live'.total = Cardinality(Working') + Cardinality(Reading')
        /\ live'.total <= MaxConcurrent
    <3>1. Cardinality(Reading \cup {c}) = Cardinality(Reading) + 1
      BY <1>2, <2>3, OneMore
    <3> QED BY <1>2, <1>3, <2>3, <2>4, <3>1, CapsNat
  <2>6. ASSUME NEW a \in Accounts
        PROVE  /\ live'.down[a] = Cardinality(Downs(a)')
               /\ live'.down[a] <= MaxDownloadsPerAccount
    <3>1. Downs(a)' = IF a = Acct(c) THEN Downs(a) \cup {c} ELSE Downs(a)
      BY <1>2, <2>3 DEF Downs, Acct
    <3>2. live'.down[a] = IF a = Acct(c) THEN live.down[a] + 1
                                         ELSE live.down[a]
      BY <1>1, <2>4, LiveFields
    <3>3. CASE a = Acct(c)
      <4>1. Cardinality(Downs(a) \cup {c}) = Cardinality(Downs(a)) + 1
        BY <1>4, <2>3, OneMore DEF Downs
      <4>2. live'.down[a] <= MaxDownloadsPerAccount
        BY <1>4, <2>3, <3>2, <3>3, CapsNat
      <4>3. live'.down[a] = Cardinality(Downs(a)')
        BY <1>4, <3>1, <3>2, <3>3, <4>1
      <4> QED BY <4>2, <4>3
    <3>4. CASE a # Acct(c)
      BY <1>4, <3>1, <3>2, <3>4
    <3> QED BY <3>3, <3>4
  <2> QED BY <1>2, <1>3, <1>4, <2>4, <2>5, <2>6
          DEF AccountingExact, Ups, Downs
<1>6. CASE EndDownload(c)
  <2>1. /\ Reading' = Reading \ {c} /\ c \in Reading
        /\ live' = ReleaseDownload(live, Acct(c))
    BY <1>1, <1>6 DEF EndDownload, Reading
  <2>2. /\ live'.up = live.up /\ live'.total = SatSub(live.total, 1)
        /\ live'.down = [live.down EXCEPT ![Acct(c)] = SatSub(@, 1)]
        /\ live'.bytes = live.bytes
    BY <1>1, <2>1 DEF ReleaseDownload, LiveType
  <2>3. live'.total = Cardinality(Working') + Cardinality(Reading')
        /\ live'.total <= MaxConcurrent
    <3>1. /\ Cardinality(Reading \ {c}) = Cardinality(Reading) - 1
          /\ Cardinality(Reading) > 0
      BY <1>2, <2>1, OneMore
    <3>2. SatSub(live.total, 1) = live.total - 1
      BY <1>3, <3>1 DEF SatSub
    <3> QED BY <1>2, <1>3, <2>1, <2>2, <3>1, <3>2, CapsNat
  <2>4. ASSUME NEW a \in Accounts
        PROVE  /\ live'.down[a] = Cardinality(Downs(a)')
               /\ live'.down[a] <= MaxDownloadsPerAccount
    <3>1. /\ Downs(a)' = IF a = Acct(c) THEN Downs(a) \ {c} ELSE Downs(a)
          /\ a = Acct(c) => c \in Downs(a)
      BY <1>2, <2>1 DEF Downs, Acct
    <3>2. live'.down[a] = IF a = Acct(c) THEN SatSub(live.down[a], 1)
                                         ELSE live.down[a]
      BY <1>1, <2>2, LiveFields
    <3>3. CASE a = Acct(c)
      <4>1. /\ Cardinality(Downs(a) \ {c}) = Cardinality(Downs(a)) - 1
            /\ Cardinality(Downs(a)) > 0
        BY <1>4, <3>1, <3>3, OneMore
      <4>2. SatSub(live.down[a], 1) = live.down[a] - 1
        BY <1>4, <4>1 DEF SatSub
      <4>3. live'.down[a] <= MaxDownloadsPerAccount
        BY <1>4, <3>2, <3>3, <4>2, CapsNat
      <4>4. live'.down[a] = Cardinality(Downs(a)')
        BY <1>4, <3>1, <3>2, <3>3, <4>1, <4>2
      <4> QED BY <4>3, <4>4
    <3>4. CASE a # Acct(c)
      BY <1>4, <3>1, <3>2, <3>4
    <3> QED BY <3>3, <3>4
  <2> QED BY <1>2, <1>3, <1>4, <2>2, <2>3, <2>4
          DEF AccountingExact, Ups, Downs
<1> QED BY <1>5, <1>6

(* Nothing is counted when there is nothing.                               *)
LEMMA NothingCounted ==
  ASSUME NEW cl, \A c \in Conns : ~cl[c].on
  PROVE  /\ {c \in Conns : cl[c].on} = {}
         /\ Cardinality({}) = 0
         /\ BytesOf(cl, {}) = 0
<1>1. IsFiniteSet({}) /\ Cardinality({}) = 0
  BY FS_EmptySet
<1>2. Units(cl, {}) = {}
  BY DEF Units
<1>3. BytesOf(cl, {}) = Cardinality(Units(cl, {}))
  BY <1>1, BytesCounted
<1> QED BY <1>1, <1>2, <1>3

(* A task that lets go.                                                    *)
LEMMA LetGoCounted ==
  ASSUME TypeOK, AccountingExact, NEW c \in Conns, LetGo(c), UNCHANGED dl
  PROVE  AccountingExact'
<1>1. CASE dirty[c]
  BY <1>1, SameCounted DEF LetGo, SameCounters
<1>2. CASE ~dirty[c]
  BY <1>2, LeaveCounted DEF LetGo
<1> QED BY <1>1, <1>2

(* Every step of a connection keeps the counters right.                    *)
LEMMA ConnStepCounted ==
  ASSUME TypeOK, TaskShape, AccountingExact, NEW c \in Conns, ConnStep(c)
  PROVE  AccountingExact'
<1>l. live \in LiveType
  BY DEF TypeOK, ServerType
<1>1. CASE Claim(c)
  <2>1. PICK u, n : TakeClaim(c, u, n, Cardinality(Chunks))
    BY <1>1 DEF Claim, ClaimInto
  <2>2. ~claim[c].on /\ UNCHANGED dl
    BY <1>1 DEF Claim, TaskShape, Shape, Bare
  <2>3. Cardinality(Chunks) \in Nat
    BY TransferConstants, FS_CardinalityType
  <2> QED BY <2>1, <2>2, <2>3, TakeCounted
<1>2. CASE ResumeClaim(c)
  <2>1. PICK n : TakeClaim(c, tid[c], n, Remaining(c))
    BY <1>2 DEF ResumeClaim, ClaimInto
  <2>2. ~claim[c].on /\ UNCHANGED dl
    BY <1>2 DEF ResumeClaim, TaskShape, Shape, Bare
  <2>3. Remaining(c) \in Nat
    BY TransferConstants, FS_CardinalityType, FS_Subset DEF Remaining
  <2> QED BY <2>1, <2>2, <2>3, TakeCounted
<1>3. CASE OpenForRead(c) \/ EndDownload(c)
  BY <1>3, DownloadCounted
<1>4. CASE Leave(c) /\ UNCHANGED dl
  BY <1>4, LeaveCounted
<1>5. CASE LetGo(c) /\ UNCHANGED dl
  BY <1>5, LetGoCounted
<1>6. CASE \/ Evict(c) \/ EvictPart(c)
           \/ ResumeRefused(c) /\ ~Leave(c)
  <2>1. UNCHANGED <<claim, dl>> /\
        \E us : live' = Hold(live, us) \/ live' = Unhold(live, us)
    BY <1>6 DEF Evict, EvictPart, ResumeRefused
  <2> QED BY <1>l, <2>1, SameCounted DEF Hold, Unhold, LiveType, SameCounters
<1>7. CASE claim' = claim /\ live' = live /\ dl' = dl
  BY <1>7, SameCounted DEF SameCounters
<1>8. CASE EvictSkip(c) \/ RoomMade(c) \/ ResumeFind(c) \/ ResumePrepare(c)
           \/ ResumeOpen(c) \/ Verify(c) \/ HashFile(c) \/ File(c)
           \/ Rename(c) \/ DropRow(c) \/ Prepare(c) \/ Resume(c)
           \/ WriteChunk(c)
  BY <1>8, <1>7 DEF EvictSkip, RoomMade, ResumeFind, ResumePrepare,
     ResumeOpen, Verify,
       HashFile, File, Rename, DropRow, Prepare, Resume, WriteChunk
<1>9. CASE ClaimRefused(c) \/ EvictFailed(c) \/ Release(c)
           \/ SaveThenLeave(c) \/ DropPart(c)
  BY <1>9, <1>4 DEF ClaimRefused, EvictFailed, Release, SaveThenLeave, DropPart
<1>10. CASE Disconnect(c) \/ FileLater(c) \/ Undo(c) \/ Finished(c)
  BY <1>10, <1>5 DEF Disconnect, FileLater, Undo, Finished
<1>11. CASE ListOpen(c) \/ MkPart(c) \/ MkRow(c)
  BY <1>11, <1>4, <1>7 DEF ListOpen, MkPart, MkRow
<1>12. CASE ResumeRefused(c) /\ Leave(c)
  BY <1>12, <1>4 DEF ResumeRefused
<1> QED BY <1>1, <1>2, <1>3, <1>6, <1>8, <1>9, <1>10, <1>11, <1>12
        DEF ConnStep, Request, Handle

(* So does every other step; a crash resets table and claims together.     *)
LEMMA OtherCounted ==
  ASSUME TypeOK, AccountingExact,
         \/ DeleteEntry \/ Unlink \/ EditFolder \/ Age
         \/ SweeperStep \/ StartupStep \/ Crash \/ PowerLoss
  PROVE  AccountingExact'
<1>l. live \in LiveType
  BY DEF TypeOK, ServerType
<1>1. CASE DeleteEntry \/ Unlink \/ EditFolder \/ Age
  BY <1>1, SameCounted
     DEF DeleteEntry, Unlink, EditFolder, Age, upVars, SameCounters
<1>2. CASE SweeperStep
  <2>1. UNCHANGED <<claim, dl>>
    BY <1>2 DEF SweeperStep, SweepStart, SweepStale, SweepStalePart,
         SweepParts, SweepOrphanPart, SweepEnd, ListBlobs, HoldBlobs,
         FindOrphans, Quarantine, LeaveBlobs, Purge, upVars
  <2>2. UNCHANGED live \/
        \E us : live' = Hold(live, us) \/ live' = Unhold(live, us)
    BY <1>2 DEF SweeperStep, SweepStart, SweepStale, SweepStalePart,
         SweepParts, SweepOrphanPart, SweepEnd, ListBlobs, HoldBlobs,
         FindOrphans, Quarantine, LeaveBlobs, Purge
  <2> QED BY <1>l, <2>1, <2>2, SameCounted
          DEF Hold, Unhold, LiveType, SameCounters
<1>3. CASE StartupStep
  BY <1>3, SameCounted DEF StartupStep, Repair, RepairParts, RepairPart,
       StartupSweep, upVars, SameCounters
<1>4. ASSUME live' = EmptyLive, claim' = [c \in Conns |-> NoClaim],
             dl' = [c \in Conns |-> NoDl]
      PROVE  AccountingExact'
  <2>1. \A c \in Conns : ~claim'[c].on
    BY <1>4 DEF NoClaim
  <2>2. Working' = {} /\ Reading' = {}
    BY <1>4, <2>1 DEF Working, Reading
  <2>3. Cardinality({}) = 0 /\ BytesOf(claim', {}) = 0
    BY <2>1, NothingCounted
  <2>4. \A a \in Accounts : /\ {c \in {} : Acct(c) = a} = {}
                             /\ live'.up[a] = 0 /\ live'.down[a] = 0
    BY <1>4 DEF EmptyLive
  <2> QED BY <1>4, <2>2, <2>3, <2>4, CapsNat
          DEF AccountingExact, EmptyLive, Acct
<1>5. CASE Crash \/ PowerLoss
  BY <1>4, <1>5 DEF Crash, PowerLoss, Restart
<1> QED BY <1>1, <1>2, <1>3, <1>5

(* The counters of Live never drift from what they count, and never exceed *)
(* their caps: claim_upload and claim_download check and count under the   *)
(* mutex, and a Claim's Drop gives back exactly what it took.              *)
THEOREM CountersNeverDrift == Spec => []AccountingExact
<1>1. RecoveryInit => AccountingExact
  <2> SUFFICES ASSUME RecoveryInit PROVE AccountingExact
    OBVIOUS
  <2>1. /\ live = EmptyLive /\ \A c \in Conns : ~claim[c].on
        /\ dl = [c \in Conns |-> NoDl]
    BY DEF RecoveryInit, Init, NoClaim
  <2>2. Working = {} /\ Reading = {}
    BY <2>1 DEF Working, Reading
  <2>3. Cardinality({}) = 0 /\ BytesOf(claim, {}) = 0
    BY <2>1, NothingCounted
  <2>4. \A a \in Accounts : /\ {c \in {} : Acct(c) = a} = {}
                             /\ live.up[a] = 0 /\ live.down[a] = 0
    BY <2>1 DEF EmptyLive
  <2> QED BY <2>1, <2>2, <2>3, <2>4, CapsNat DEF AccountingExact, EmptyLive
<1>2. Ownership /\ AccountingExact /\ [Next]_vars => AccountingExact'
  <2> SUFFICES ASSUME Ownership, AccountingExact, [Next]_vars
               PROVE  AccountingExact'
    OBVIOUS
  <2>1. CASE UNCHANGED vars
    BY <2>1, SameCounted DEF vars, upVars, SameCounters
  <2> QED BY <2>1, ConnStepCounted, OtherCounted DEF Next, Ownership
<1> QED BY <1>1, <1>2, OwnershipHolds, PTL DEF Spec

---------------------------------------------------------------------------
(* Rows and partial files.                                                 *)

Rowed == {u \in Uploads : HasRow(u)}

(* NoRow is not a row.                                                     *)
LEMMA NoRowIsNoRow ==
  ASSUME NEW r \in Rows
  PROVE  r # NoRow
<1>1. "bits" \in DOMAIN r /\ "bits" \notin DOMAIN NoRow
  BY DEF Rows, NoRow
<1> QED BY <1>1

(* What the updates of the row table do to the set of rows.                *)
LEMMA RowedUpdates ==
  ASSUME DbType, NEW u \in Uploads
  PROVE  /\ row' = row => Rowed' = Rowed
         /\ row' = DeleteRow(u) => Rowed' = Rowed \ {u}
         /\ \A bs \in SUBSET Chunks :
              row' = SaveBits(u, bs) => Rowed' = Rowed
         /\ \A n \in Names :
              row' = [row EXCEPT ![u] = IF @ = NoRow THEN @
                        ELSE [@ EXCEPT !.name = n, !.old = FALSE]]
              => Rowed' = Rowed
         /\ \A a \in Accounts, n \in Names :
              row' = [row EXCEPT ![u] = [acct |-> a, name |-> n,
                                         bits |-> {}, old |-> FALSE]]
              => Rowed' = Rowed \cup {u}
         /\ HasRow(u) /\ row' = [row EXCEPT ![u] = [@ EXCEPT !.old = TRUE]]
              => Rowed' = Rowed
<1>1. row \in [Uploads -> Rows \cup {NoRow}]
  BY DEF DbType, RowTable
<1>2. \A r \in Rows : r # NoRow
  BY NoRowIsNoRow
<1>3. row' = row => Rowed' = Rowed
  BY DEF Rowed, HasRow
<1>4. row' = DeleteRow(u) => Rowed' = Rowed \ {u}
  BY <1>1 DEF Rowed, HasRow, DeleteRow
<1>5. ASSUME NEW r \in Rows, row' = [row EXCEPT ![u] = r]
      PROVE  Rowed' = Rowed \cup {u}
  BY <1>1, <1>2, <1>5 DEF Rowed, HasRow
<1>6. ASSUME row' = [row EXCEPT ![u] = row[u]]
      PROVE  Rowed' = Rowed
  BY <1>1, <1>6 DEF Rowed, HasRow
<1>7. ASSUME NEW bs \in SUBSET Chunks, row' = SaveBits(u, bs)
      PROVE  Rowed' = Rowed
  <2>1. CASE row[u] = NoRow
    BY <1>6, <1>7, <2>1 DEF SaveBits
  <2>2. CASE row[u] # NoRow
    <3>1. [row[u] EXCEPT !.bits = bs, !.old = FALSE] \in Rows
      BY <1>1, <2>2 DEF Rows
    <3>2. Rowed' = Rowed \cup {u}
      BY <1>5, <1>7, <2>2, <3>1 DEF SaveBits
    <3> QED BY <2>2, <3>2 DEF Rowed, HasRow
  <2> QED BY <2>1, <2>2
<1>8. ASSUME NEW n \in Names,
             row' = [row EXCEPT ![u] = IF @ = NoRow THEN @
                       ELSE [@ EXCEPT !.name = n, !.old = FALSE]]
      PROVE  Rowed' = Rowed
  <2>1. CASE row[u] = NoRow
    BY <1>6, <1>8, <2>1
  <2>2. CASE row[u] # NoRow
    <3>1. [row[u] EXCEPT !.name = n, !.old = FALSE] \in Rows
      BY <1>1, <2>2 DEF Rows
    <3>2. Rowed' = Rowed \cup {u}
      BY <1>5, <1>8, <2>2, <3>1
    <3> QED BY <2>2, <3>2 DEF Rowed, HasRow
  <2> QED BY <2>1, <2>2
<1>9. ASSUME NEW a \in Accounts, NEW n \in Names,
             row' = [row EXCEPT ![u] = [acct |-> a, name |-> n,
                                        bits |-> {}, old |-> FALSE]]
      PROVE  Rowed' = Rowed \cup {u}
  <2>1. [acct |-> a, name |-> n, bits |-> {}, old |-> FALSE] \in Rows
    BY DEF Rows
  <2> QED BY <1>5, <1>9, <2>1
<1>10. ASSUME HasRow(u), row' = [row EXCEPT ![u] = [@ EXCEPT !.old = TRUE]]
       PROVE  Rowed' = Rowed
  <2>1. [row[u] EXCEPT !.old = TRUE] \in Rows
    BY <1>1, <1>10 DEF Rows, HasRow
  <2>2. Rowed' = Rowed \cup {u}
    BY <1>5, <1>10, <2>1
  <2> QED BY <1>10, <2>2 DEF Rowed, HasRow
<1> QED BY <1>3, <1>4, <1>7, <1>8, <1>9, <1>10

(* A connection's step is its own.                                         *)
LEMMA ConnLocal ==
  ASSUME NEW c \in Conns, NEW d \in Conns \ {c}, TypeOK, ConnStep(c)
  PROVE  /\ pc'[d] = pc[d] /\ tid'[d] = tid[d] /\ name'[d] = name[d]
         /\ bits'[d] = bits[d] /\ claim'[d] = claim[d] /\ hold'[d] = hold[d]
         /\ UNCHANGED <<spc, todo, shold, unlinking, serving>>
<1> USE DEF TypeOK, UpType, Goto, envVars, sweepVars
<1> DEFINE Mine == /\ pc'[d] = pc[d] /\ tid'[d] = tid[d] /\ name'[d] = name[d]
                   /\ bits'[d] = bits[d] /\ claim'[d] = claim[d]
                   /\ hold'[d] = hold[d]
<1>1. Leave(c) => Mine
  BY DEF Leave
<1>2. LetGo(c) => Mine
  BY <1>1 DEF LetGo
<1>3. Claim(c) => Mine /\ serving' = serving
  BY <1>1, <1>2 DEF Claim, ClaimInto, TakeClaim
<1>4. ClaimRefused(c) => Mine /\ serving' = serving
  BY <1>1, <1>2 DEF ClaimRefused
<1>5. ListOpen(c) => Mine /\ serving' = serving
  BY <1>1, <1>2 DEF ListOpen
<1>6. EvictSkip(c) => Mine /\ serving' = serving
  BY <1>1, <1>2 DEF EvictSkip
<1>7. Evict(c) => Mine /\ serving' = serving
  BY <1>1, <1>2 DEF Evict
<1>8. EvictPart(c) => Mine /\ serving' = serving
  BY <1>1, <1>2 DEF EvictPart
<1>9. EvictFailed(c) => Mine /\ serving' = serving
  BY <1>1, <1>2 DEF EvictFailed
<1>10. RoomMade(c) => Mine /\ serving' = serving
  BY <1>1, <1>2 DEF RoomMade
<1>11. MkPart(c) => Mine /\ serving' = serving
  BY <1>1, <1>2 DEF MkPart
<1>12. MkRow(c) => Mine /\ serving' = serving
  BY <1>1, <1>2 DEF MkRow
<1>13. ResumeFind(c) => Mine /\ serving' = serving
  BY <1>1, <1>2 DEF ResumeFind
<1>14. ResumePrepare(c) => Mine /\ serving' = serving
  BY <1>1, <1>2 DEF ResumePrepare
<1>15. ResumeRefused(c) => Mine /\ serving' = serving
  BY <1>1, <1>2 DEF ResumeRefused
<1>16. ResumeClaim(c) => Mine /\ serving' = serving
  BY <1>1, <1>2 DEF ResumeClaim, ClaimInto, TakeClaim
<1>17. ResumeOpen(c) => Mine /\ serving' = serving
  BY <1>1, <1>2 DEF ResumeOpen
<1>18. SaveThenLeave(c) => Mine /\ serving' = serving
  BY <1>1, <1>2 DEF SaveThenLeave
<1>19. Verify(c) => Mine /\ serving' = serving
  BY <1>1, <1>2 DEF Verify
<1>20. HashFile(c) => Mine /\ serving' = serving
  BY <1>1, <1>2 DEF HashFile
<1>21. File(c) => Mine /\ serving' = serving
  BY <1>1, <1>2 DEF File, FileAs
<1>22. FileLater(c) => Mine /\ serving' = serving
  BY <1>1, <1>2 DEF FileLater
<1>23. Rename(c) => Mine /\ serving' = serving
  BY <1>1, <1>2 DEF Rename
<1>24. Undo(c) => Mine /\ serving' = serving
  BY <1>1, <1>2 DEF Undo
<1>25. Finished(c) => Mine /\ serving' = serving
  BY <1>1, <1>2 DEF Finished
<1>26. DropRow(c) => Mine /\ serving' = serving
  BY <1>1, <1>2 DEF DropRow
<1>27. DropPart(c) => Mine /\ serving' = serving
  BY <1>1, <1>2 DEF DropPart
<1>28. Prepare(c) => Mine /\ serving' = serving
  BY <1>1, <1>2 DEF Prepare
<1>29. Resume(c) => Mine /\ serving' = serving
  BY <1>1, <1>2 DEF Resume
<1>30. WriteChunk(c) => Mine /\ serving' = serving
  BY <1>1, <1>2 DEF WriteChunk
<1>31. Release(c) => Mine /\ serving' = serving
  BY <1>1, <1>2 DEF Release
<1>32. Disconnect(c) => Mine /\ serving' = serving
  BY <1>1, <1>2 DEF Disconnect
<1>33. OpenForRead(c) => Mine /\ serving' = serving
  BY <1>1, <1>2 DEF OpenForRead, upVars
<1>34. EndDownload(c) => Mine /\ serving' = serving
  BY <1>1, <1>2 DEF EndDownload, upVars
<1> QED BY <1>3, <1>4, <1>5, <1>6, <1>7, <1>8, <1>9, <1>10, <1>11,
     <1>12, <1>13, <1>14, <1>15, <1>16, <1>17, <1>18, <1>19, <1>20,
     <1>21, <1>22, <1>23, <1>24, <1>25, <1>26, <1>27, <1>28, <1>29,
     <1>30, <1>31, <1>32, <1>33, <1>34
        DEF ConnStep, Request, Handle

(* What a step of a connection does to rows and partial files.             *)
Effect(c) ==
  \/ /\ Rowed' = Rowed /\ parts' = parts
     /\ \/ pc'[c] = pc[c] /\ tid'[c] = tid[c] /\ hold'[c] = hold[c]
        \/ pc[c] \notin {"dropPart", "evictPart", "mkrow"}
  \/ /\ pc[c] = "evict" /\ pc'[c] = "evictPart" /\ parts' = parts
     /\ \E v \in Uploads \ live.held :
          hold'[c] = {v} /\ Rowed' = Rowed \ {v}
  \/ /\ pc[c] = "evictPart" /\ Rowed' = Rowed
     /\ parts' = parts \ hold[c]
  \/ /\ pc[c] = "mkpart" /\ pc'[c] = "mkrow" /\ Rowed' = Rowed
     /\ parts' = parts \cup {tid[c]}
  \/ /\ pc[c] = "mkrow" /\ parts' = parts /\ Rowed' = Rowed \cup {tid[c]}
  \/ /\ pc[c] \in {"mkrow", "rename", "dropPart"} /\ Rowed' = Rowed
     /\ parts' = parts \ {tid[c]}
  \/ /\ pc[c] = "delrow" /\ parts' = parts /\ Rowed' = Rowed \ {tid[c]}
  \/ /\ pc[c] = "dropRow" /\ pc'[c] = "dropPart" /\ tid'[c] = tid[c]
     /\ parts' = parts /\ Rowed' = Rowed \ {tid[c]}

LEMMA ConnEffect ==
  ASSUME TypeOK, TaskShape, NEW c \in Conns, ConnStep(c)
  PROVE  Effect(c)
<1>t. /\ DbType /\ pc \in [Conns -> Labels]
      /\ pc[c] \notin {"idle", "prepared"} => tid[c] \in Uploads
      /\ pc[c] # "idle" => name[c] \in Names
      /\ Acct(c) \in Accounts
      /\ bits[c] \in SUBSET Chunks /\ hold \in [Conns -> SUBSET Uploads]
      /\ tid \in [Conns -> Uploads \cup {NoId}]
  BY TransferConstants DEF TypeOK, TaskShape, Shape, UpType, Acct
<1>s. UNCHANGED dbVars => Rowed' = Rowed
  BY DEF dbVars, Rowed, HasRow
<1>p. UNCHANGED fsVars => parts' = parts
  BY DEF fsVars
<1>1. CASE Claim(c)
  BY <1>1, <1>s, <1>p DEF Claim, Effect
<1>2. CASE ClaimRefused(c)
  BY <1>2, <1>s, <1>p DEF ClaimRefused, Effect
<1>3. CASE ListOpen(c)
  BY <1>3, <1>s, <1>p DEF ListOpen, Effect
<1>4. CASE EvictSkip(c)
  BY <1>4, <1>s, <1>p DEF EvictSkip, Effect
<1>5. CASE Evict(c)
  <2>1. PICK v \in victims[c] \ live.held :
          /\ hold' = [hold EXCEPT ![c] = {v}]
          /\ row' = DeleteRow(v) \/ UNCHANGED dbVars
    BY <1>5 DEF Evict, Commit
  <2>2. v \in Uploads
    BY <2>1 DEF TypeOK, UpType
  <2>3. Rowed' = Rowed \ {v} \/ Rowed' = Rowed
    BY <1>t, <1>s, <2>1, <2>2, RowedUpdates
  <2> QED BY <1>5, <1>p, <1>t, <2>1, <2>2, <2>3 DEF Evict, Effect, Goto
<1>6. CASE EvictPart(c)
  BY <1>6, <1>s, <1>p, <1>t DEF EvictPart, Effect, Goto, Dir
<1>7. CASE EvictFailed(c)
  BY <1>7, <1>s, <1>p DEF EvictFailed, Effect
<1>8. CASE RoomMade(c)
  BY <1>8, <1>s, <1>p DEF RoomMade, Effect
<1>9. CASE MkPart(c)
  BY <1>9, <1>s, <1>p, <1>t DEF MkPart, Effect, Goto, Dir
<1>10. CASE MkRow(c)
  <2>1. tid[c] \in Uploads /\ name[c] \in Names
    BY <1>t, <1>10 DEF MkRow
  <2>2. \/ /\ Rowed' = Rowed \cup {tid[c]} /\ parts' = parts
        \/ /\ Rowed' = Rowed /\ parts' = parts \ {tid[c]}
    BY <1>t, <1>s, <1>p, <1>10, <2>1, RowedUpdates DEF MkRow, Commit, Dir
  <2> QED BY <1>10, <2>2 DEF MkRow, Effect
<1>11. CASE ResumeFind(c)
  BY <1>11, <1>s, <1>p DEF ResumeFind, Effect
<1>12. CASE ResumePrepare(c)
  BY <1>12, <1>s, <1>p DEF ResumePrepare, Effect
<1>13. CASE ResumeRefused(c)
  BY <1>13, <1>s, <1>p DEF ResumeRefused, Effect
<1>14. CASE ResumeClaim(c)
  BY <1>14, <1>s, <1>p DEF ResumeClaim, Effect
<1>15. CASE ResumeOpen(c)
  <2>1. tid[c] \in Uploads /\ name[c] \in Names
    BY <1>t, <1>15 DEF ResumeOpen
  <2>2. Rowed' = Rowed
    BY <1>t, <1>s, <1>15, <2>1, RowedUpdates DEF ResumeOpen, Commit
  <2> QED BY <1>15, <1>p, <2>2 DEF ResumeOpen, Effect
<1>16. CASE SaveThenLeave(c)
  <2>1. tid[c] \in Uploads /\ name[c] \in Names
    BY <1>t, <1>16 DEF SaveThenLeave
  <2>2. Rowed' = Rowed
    BY <1>t, <1>s, <1>16, <2>1, RowedUpdates DEF SaveThenLeave, Commit
  <2> QED BY <1>16, <1>p, <2>2 DEF SaveThenLeave, Effect
<1>17. CASE Verify(c)
  <2>1. tid[c] \in Uploads /\ name[c] \in Names
    BY <1>t, <1>17 DEF Verify
  <2>2. Rowed' = Rowed
    BY <1>t, <1>s, <1>17, <2>1, RowedUpdates DEF Verify, Commit
  <2> QED BY <1>17, <1>p, <2>2 DEF Verify, Effect
<1>18. CASE HashFile(c)
  BY <1>18, <1>s, <1>p DEF HashFile, Effect, fsVars
<1>19. CASE File(c)
  <2>1. Rowed' = Rowed
    <3>1. row' = row
      BY <1>19 DEF File, FileAs, Commit, dbVars
    <3> QED BY <3>1 DEF Rowed, HasRow
  <2> QED BY <1>19, <1>p, <2>1 DEF File, Effect
<1>20. CASE FileLater(c)
  BY <1>20, <1>s, <1>p DEF FileLater, Effect
<1>21. CASE Rename(c)
  BY <1>21, <1>s, <1>p, <1>t DEF Rename, Effect, Goto, Dir
<1>22. CASE Undo(c)
  <2>1. Rowed' = Rowed
    <3>1. row' = row
      BY <1>22 DEF Undo, Commit, dbVars
    <3> QED BY <3>1 DEF Rowed, HasRow
  <2> QED BY <1>22, <1>p, <2>1 DEF Undo, Effect
<1>23. CASE Finished(c)
  <2>1. tid[c] \in Uploads /\ name[c] \in Names
    BY <1>t, <1>23 DEF Finished
  <2>2. Rowed' = Rowed \/ Rowed' = Rowed \ {tid[c]}
    BY <1>t, <1>s, <1>23, <2>1, RowedUpdates DEF Finished, Commit
  <2> QED BY <1>23, <1>p, <1>t, <2>1, <2>2 DEF Finished, Effect, Goto
<1>24. CASE DropRow(c)
  <2>1. tid[c] \in Uploads /\ name[c] \in Names
    BY <1>t, <1>24 DEF DropRow
  <2>2. Rowed' = Rowed \/ Rowed' = Rowed \ {tid[c]}
    BY <1>t, <1>s, <1>24, <2>1, RowedUpdates DEF DropRow, Commit
  <2> QED BY <1>24, <1>p, <1>t, <2>1, <2>2 DEF DropRow, Effect, Goto
<1>25. CASE DropPart(c)
  BY <1>25, <1>s, <1>p, <1>t DEF DropPart, Effect, Goto, Dir
<1>26. CASE Prepare(c)
  BY <1>26, <1>s, <1>p DEF Prepare, Effect
<1>27. CASE Resume(c)
  BY <1>27, <1>s, <1>p DEF Resume, Effect
<1>28. CASE WriteChunk(c)
  <2>1. Rowed' = Rowed
    <3>1. PICK k \in Chunks :
            \/ UNCHANGED dbVars
            \/ row' = SaveBits(tid[c], bits[c] \cup {k})
      BY <1>28 DEF WriteChunk, Commit
    <3>2. tid[c] \in Uploads
      BY <1>t, <1>28 DEF WriteChunk
    <3>3. PICK bs \in SUBSET Chunks : bs = bits[c] \cup {k}
      BY <1>t
    <3> QED BY <1>t, <1>s, <3>1, <3>2, <3>3, RowedUpdates
  <2> QED BY <1>28, <2>1 DEF WriteChunk, Effect
<1>29. CASE Release(c)
  <2>1. tid[c] \in Uploads /\ name[c] \in Names
    BY <1>t, <1>29 DEF Release
  <2>2. Rowed' = Rowed
    BY <1>t, <1>s, <1>29, <2>1, RowedUpdates DEF Release, Commit
  <2> QED BY <1>29, <1>p, <2>2 DEF Release, Effect
<1>30. CASE Disconnect(c)
  BY <1>30, <1>s, <1>p DEF Disconnect, Effect
<1>31. CASE OpenForRead(c)
  BY <1>31, <1>s, <1>p DEF OpenForRead, Effect, upVars
<1>32. CASE EndDownload(c)
  BY <1>32, <1>s, <1>p DEF EndDownload, Effect, upVars
<1> QED BY <1>1, <1>2, <1>3, <1>4, <1>5, <1>6, <1>7, <1>8, <1>9,
     <1>10, <1>11, <1>12, <1>13, <1>14, <1>15, <1>16, <1>17, <1>18,
     <1>19, <1>20, <1>21, <1>22, <1>23, <1>24, <1>25, <1>26, <1>27,
     <1>28, <1>29, <1>30, <1>31, <1>32
        DEF ConnStep, Request, Handle

---------------------------------------------------------------------------
(* The invariant behind OwnerKeepsState.                                   *)

(* Places of an upload that is new, and of a resume before its claim.      *)
Young    == {"room", "evict", "evictPart", "mkpart", "mkrow"}
Resuming == {"rfind", "rprep", "rrefused", "rclaim", "rfiled"}

(* Until startup is over nobody is served.                                 *)
Quiet ==
  /\ ~serving => \A c \in Conns : pc[c] = "idle"
  /\ spc \in {"repair", "repairParts"} => ~serving

(* An id not handed out has no row, now or after a power loss.             *)
Unused ==
  \A u \in Uploads \ used :
    /\ u \notin Rowed
    /\ \A i \in DOMAIN past : past[i][1][u] = NoRow
    /\ \A c \in Conns : tid[c] # u

(* Someone who deleted the row of u is about to delete its partial file.   *)
Discarding(u) ==
  \/ \E c \in Conns : pc[c] = "dropPart" /\ tid[c] = u
  \/ \E c \in Conns : pc[c] = "evictPart" /\ u \in hold[c]
  \/ spc = "stalePart" /\ u \in shold

(* A resume has read the row of its upload: by now the row may be gone,    *)
(* but then the partial file is gone too, or about to go.                  *)
Traced(u) == u \in Rowed \/ u \notin parts \/ Discarding(u)

(* What a claim reserves is the name the task goes by; a new upload is its *)
(* connection's alone; where a task has a row and a partial file, and      *)
(* where it no longer has.                                                 *)
KeptBy(c) ==
  /\ claim[c].on => claim[c].dest \in {name[c], NoName}
  /\ pc[c] \in Young => /\ tid[c] \notin Rowed
                        /\ \A d \in Conns \ {c} : tid[d] # tid[c]
  /\ pc[c] \in Resuming => Traced(tid[c])
  /\ pc[c] = "ropen" => tid[c] \in Rowed \/ tid[c] \notin parts
  /\ pc[c] \in {"mkrow", "rename"} => tid[c] \in parts
  /\ pc[c] \in {"live", "verify", "hash", "file"} =>
       tid[c] \in parts /\ tid[c] \in Rowed
  /\ pc[c] = "delrow" => tid[c] \notin parts

Keeping == Quiet /\ Unused /\ \A c \in Conns : KeptBy(c)

(* A task with a claim holds its id.                                       *)
LEMMA ClaimHolds ==
  ASSUME TypeOK, TaskShape, HeldExact, NEW c \in Conns
  PROVE  /\ claim[c].on => tid[c] \in Holds(c)
         /\ Holds(c) \subseteq live.held
         /\ \A d \in Conns \ {c} : Holds(c) \cap Holds(d) = {}
         /\ Holds(c) \cap shold = {}
         /\ pc[c] \in Dropping => tid[c] \in Holds(c)
         /\ pc[c] \notin Bare \cup Dropping => claim[c].on
         /\ pc[c] \notin {"idle", "prepared"} => tid[c] \in Uploads
<1>1. Holds(c) \subseteq Uploads
  BY DEF Holds, TaskShape, Shape, TypeOK, UpType, Bare
<1> QED BY <1>1 DEF Holds, HeldExact, TaskShape, Shape

(* Where a task takes its id from.                                         *)
LEMMA ConnTid ==
  ASSUME NEW c \in Conns, TypeOK, ConnStep(c)
  PROVE  \/ tid'[c] \in {tid[c], NoId}
         \/ tid'[c] \in Rowed
         \/ tid'[c] \in used' \ used
<1> USE DEF TypeOK, UpType
<1>1. Leave(c) => tid'[c] = NoId
  BY DEF Leave
<1>2. LetGo(c) => tid'[c] \in {tid[c], NoId}
  BY <1>1 DEF LetGo
<1>3. Claim(c) => tid'[c] \in used' \ used
  BY DEF Claim
<1>4. Resume(c) => tid'[c] \in Rowed
  BY DEF Resume, MyRows, Rowed
<1>5. CASE ClaimRefused(c) \/ ListOpen(c) \/ EvictSkip(c) \/ Evict(c)
           \/ EvictPart(c)
  BY <1>1, <1>2, <1>5 DEF ClaimRefused, ListOpen, EvictSkip, Evict, EvictPart,
     upVars
<1>6. CASE EvictFailed(c) \/ RoomMade(c) \/ MkPart(c) \/ MkRow(c)
           \/ ResumeFind(c)
  BY <1>1, <1>2, <1>6 DEF EvictFailed, RoomMade, MkPart, MkRow, ResumeFind,
     upVars
<1>7. CASE ResumePrepare(c) \/ ResumeRefused(c) \/ ResumeClaim(c)
           \/ ResumeOpen(c) \/ SaveThenLeave(c)
  BY <1>1, <1>2, <1>7 DEF ResumePrepare, ResumeRefused, ResumeClaim,
     ResumeOpen, SaveThenLeave, upVars
<1>8. CASE Verify(c) \/ HashFile(c) \/ File(c) \/ FileLater(c) \/ Rename(c)
  BY <1>1, <1>2, <1>8 DEF Verify, HashFile, File, FileLater, Rename, upVars
<1>9. CASE Undo(c) \/ Finished(c) \/ DropRow(c) \/ DropPart(c) \/ Prepare(c)
  BY <1>1, <1>2, <1>9 DEF Undo, Finished, DropRow, DropPart, Prepare, upVars
<1>10. CASE WriteChunk(c) \/ Release(c) \/ Disconnect(c) \/ OpenForRead(c)
            \/ EndDownload(c)
  BY <1>1, <1>2, <1>10 DEF WriteChunk, Release, Disconnect, OpenForRead,
     EndDownload, upVars
<1> QED BY <1>3, <1>4, <1>5, <1>6, <1>7, <1>8, <1>9, <1>10
        DEF ConnStep, Request, Handle

(* A step leaves alone what others hold.                                   *)
LEMMA HeldUntouched ==
  ASSUME TypeOK, TaskShape, HeldExact, NEW c \in Conns, ConnStep(c),
         NEW u \in live.held \ Holds(c)
  PROVE  /\ u \in Rowed' <=> u \in Rowed
         /\ u \in parts' <=> u \in parts
<1>1. Effect(c)
  BY ConnEffect
<1>2. /\ pc[c] \in {"mkpart", "mkrow", "rename", "delrow", "dropPart",
                    "dropRow"} => tid[c] \in Holds(c)
      /\ hold[c] \subseteq Holds(c)
  BY ClaimHolds DEF Bare, Dropping, Holds
<1> QED BY <1>1, <1>2 DEF Effect

(* Nor does it hide where the row of a resumed upload went.                *)
LEMMA StillTraced ==
  ASSUME TypeOK, TaskShape, HeldExact, NEW c \in Conns, ConnStep(c),
         KeptBy(c), NEW u \in Uploads, Traced(u),
         pc[c] = "mkpart" => tid[c] # u
  PROVE  Traced(u)'
<1>1. Effect(c)
  BY ConnEffect
<1>2. \A d \in Conns \ {c} : /\ pc'[d] = pc[d] /\ tid'[d] = tid[d]
                             /\ hold'[d] = hold[d]
                             /\ UNCHANGED <<spc, shold>>
  BY ConnLocal
<1>3. UNCHANGED <<spc, shold>>
  BY DEF ConnStep, sweepVars
<1>4. CASE u \in Rowed
  BY <1>1, <1>4 DEF Effect, Traced, Discarding, KeptBy
<1>5. CASE u \notin parts
  BY <1>1, <1>5 DEF Effect, Traced
<1>6. CASE Discarding(u)
  <2>1. CASE \E d \in Conns \ {c} :
               \/ pc[d] = "dropPart" /\ tid[d] = u
               \/ pc[d] = "evictPart" /\ u \in hold[d]
    BY <1>2, <2>1 DEF Traced, Discarding
  <2>2. CASE spc = "stalePart" /\ u \in shold
    BY <1>3, <2>2 DEF Traced, Discarding
  <2>3. CASE pc[c] = "dropPart" /\ tid[c] = u
    BY <1>1, <2>3 DEF Effect, Traced, Discarding
  <2>4. CASE pc[c] = "evictPart" /\ u \in hold[c]
    BY <1>1, <2>4 DEF Effect, Traced, Discarding
  <2> QED BY <1>6, <2>1, <2>2, <2>3, <2>4 DEF Discarding
<1> QED BY <1>4, <1>5, <1>6 DEF Traced

(* What a connection has is not touched by a step of another.              *)
LEMMA KeptElsewhere ==
  ASSUME TypeOK, TaskShape, HeldExact, Keeping, NEW c \in Conns, ConnStep(c),
         NEW d \in Conns \ {c}
  PROVE  KeptBy(d)'
<1>1. Effect(c)
  BY ConnEffect
<1>2. /\ \A e \in Conns \ {c} :
           /\ pc'[e] = pc[e] /\ tid'[e] = tid[e] /\ name'[e] = name[e]
           /\ claim'[e] = claim[e]
  BY ConnLocal
<1>3. KeptBy(c) /\ KeptBy(d) /\ Unused
  BY DEF Keeping
<1>4. /\ claim[d].on => tid[d] \in live.held \ Holds(c)
      /\ pc[d] \notin Bare \cup Dropping => claim[d].on
      /\ pc[d] \notin {"idle", "prepared"} => tid[d] \in Uploads
  BY ClaimHolds
<1>5. claim[d].on => /\ tid[d] \in Rowed' <=> tid[d] \in Rowed
                     /\ tid[d] \in parts' <=> tid[d] \in parts
  BY <1>4, HeldUntouched
<1>6. pc[d] \in Resuming => Traced(tid[d])'
  <2>1. pc[d] \in Resuming => tid[d] \in Uploads /\ Traced(tid[d])
    BY <1>3, <1>4 DEF Resuming, KeptBy
  <2>2. pc[c] = "mkpart" => tid[c] # tid[d]
    BY <1>3 DEF KeptBy, Young
  <2>3. PICK u : u = tid[d]
    OBVIOUS
  <2>4. pc[d] \in Resuming => Traced(u)'
    BY <1>3, <2>1, <2>2, <2>3, StillTraced
  <2> QED BY <1>2, <2>3, <2>4 DEF Traced, Discarding
<1>7. ASSUME pc[d] \in Young
      PROVE  tid[d] \notin Rowed' /\ \A e \in Conns \ {d} : tid'[e] # tid[d]
  <2>1. claim[d].on /\ tid[d] \in Uploads
    BY <1>4, <1>7 DEF Young, Bare, Dropping
  <2>2. tid[d] \notin Rowed /\ \A e \in Conns \ {d} : tid[e] # tid[d]
    BY <1>3, <1>7 DEF KeptBy
  <2>3. tid[d] \in used
    BY <1>3, <2>1 DEF Unused
  <2>4. tid'[c] # tid[d]
    BY <2>1, <2>2, <2>3, ConnTid, MarksAreNoIds
  <2> QED BY <1>2, <1>5, <2>1, <2>2, <2>4
<1> QED BY <1>2, <1>3, <1>4, <1>5, <1>6, <1>7
        DEF KeptBy, Bare, Dropping, Young, Resuming

(* Nor does a connection lose, by a step of its own, what it has to keep.  *)
LEMMA KeptBySelf ==
  ASSUME TypeOK, TaskShape, HeldExact, Keeping, NEW c \in Conns, ConnStep(c)
  PROVE  KeptBy(c)'
<1>e. Effect(c)
  BY ConnEffect
<1>k. KeptBy(c) /\ Unused
  BY DEF Keeping
<1>t. /\ pc \in [Conns -> Labels] /\ tid \in [Conns -> Uploads \cup {NoId}]
      /\ claim \in [Conns -> Claims] /\ hold \in [Conns -> SUBSET Uploads]
      /\ DOMAIN name = Conns
  BY DEF TypeOK, UpType
<1>h. /\ pc[c] \in Bare => ~claim[c].on
      /\ pc[c] \notin {"idle", "prepared"} => tid[c] \in Uploads
  BY DEF TaskShape, Shape
<1>o. \A d \in Conns \ {c} : tid'[d] = tid[d]
  BY ConnLocal
<1>l. Leave(c) => KeptBy(c)'
  BY <1>t DEF Leave, KeptBy, Goto, NoClaim, Young, Resuming
<1>g. LetGo(c) => KeptBy(c)'
  <2>1. ASSUME LetGo(c), dirty[c]
        PROVE  KeptBy(c)'
    BY <1>t, <1>k, <2>1 DEF LetGo, KeptBy, Goto, Young, Resuming
  <2> QED BY <1>l, <2>1 DEF LetGo
<1>1. CASE Claim(c)
  <2>1. PICK u \in Uploads \ used : /\ tid' = [tid EXCEPT ![c] = u]
                                    /\ ClaimInto(c, u, Cardinality(Chunks))
    BY <1>1 DEF Claim
  <2>2. u \notin Rowed /\ \A d \in Conns : tid[d] # u
    BY <1>k DEF Unused
  <2>3. Rowed' = Rowed /\ pc'[c] = "room" /\ tid'[c] = u
    BY <1>1, <1>e, <1>t, <2>1 DEF Claim, Effect, Goto
  <2>4. claim'[c].dest = name'[c]
    BY <1>t, <2>1 DEF ClaimInto, TakeClaim
  <2> QED BY <1>o, <2>2, <2>3, <2>4 DEF KeptBy, Young, Resuming
<1>2. CASE Resume(c)
  <2>1. pc'[c] = "rfind" /\ tid'[c] \in Rowed /\ claim'[c] = claim[c]
        /\ Rowed' = Rowed
    BY <1>2, <1>e, <1>t DEF Resume, MyRows, Rowed, Goto, Effect
  <2> QED BY <1>2, <1>h, <2>1 DEF Resume, KeptBy, Traced, Young, Resuming, Bare
<1>3. CASE ResumeFind(c) \/ ResumePrepare(c)
  <2>1. /\ pc[c] \in Resuming /\ tid'[c] = tid[c] /\ UNCHANGED <<name, claim>>
        /\ pc'[c] \in Resuming \cup {"rrefused"}
    BY <1>3, <1>t DEF ResumeFind, ResumePrepare, Resuming, Goto
  <2>2. PICK u \in Uploads : u = tid[c]
    BY <1>h, <2>1 DEF Resuming
  <2>3. Traced(u) /\ pc[c] # "mkpart"
    BY <1>k, <2>1, <2>2 DEF KeptBy, Resuming
  <2>4. Traced(u)'
    BY <1>k, <2>3, StillTraced
  <2>5. Traced(tid[c])'
    BY <2>1, <2>2, <2>4 DEF Traced, Discarding
  <2> QED BY <1>k, <2>1, <2>5 DEF KeptBy, Young, Resuming
<1>4. CASE ResumeClaim(c)
  <2>1. /\ pc[c] \in Resuming /\ tid'[c] = tid[c] /\ pc'[c] = "ropen"
        /\ tid[c] \notin live.held
    BY <1>4, <1>t DEF ResumeClaim, Resuming, Goto, ClaimInto, TakeClaim,
         CanClaimUpload
  <2>2. ~Discarding(tid[c])
    <3>1. \A d \in Conns : /\ Holds(d) \subseteq live.held
                           /\ hold[d] \subseteq Holds(d)
                           /\ pc[d] \in Dropping => tid[d] \in Holds(d)
      BY ClaimHolds DEF Holds
    <3>2. shold \subseteq live.held
      BY DEF HeldExact, TypeOK, ServerType
    <3> QED BY <2>1, <3>1, <3>2 DEF Discarding, Dropping
  <2>3. tid[c] \in Rowed \/ tid[c] \notin parts
    BY <1>k, <2>1, <2>2 DEF KeptBy, Traced
  <2>4. Rowed' = Rowed /\ parts' = parts
    BY <1>e, <2>1 DEF Effect, Resuming
  <2>5. claim'[c].dest \in {name'[c], NoName}
    BY <1>4, <1>t DEF ResumeClaim, ClaimInto, TakeClaim
  <2> QED BY <2>1, <2>3, <2>4, <2>5 DEF KeptBy, Young, Resuming
<1>5. CASE ResumeOpen(c)
  BY <1>5, <1>e, <1>k, <1>t DEF ResumeOpen, Effect, KeptBy, Goto, Young,
     Resuming
<1>6. CASE ListOpen(c) \/ EvictSkip(c) \/ RoomMade(c) \/ Evict(c)
           \/ EvictPart(c)
  <2>1. CASE Leave(c)
    BY <1>l, <2>1
  <2>2. CASE ~Leave(c)
    <3>1. /\ pc[c] \in Young \ {"mkrow"} /\ pc'[c] \in Young \ {"mkrow"}
          /\ tid'[c] = tid[c] /\ UNCHANGED <<name, claim>>
      BY <1>6, <1>t, <2>2
         DEF ListOpen, EvictSkip, RoomMade, Evict, EvictPart, Young, Goto
    <3>2. tid[c] \notin Rowed'
      BY <1>e, <1>k, <3>1 DEF Effect, KeptBy, Young
    <3> QED BY <1>k, <1>o, <3>1, <3>2 DEF KeptBy, Young, Resuming
  <2> QED BY <2>1, <2>2
<1>7. CASE MkPart(c)
  <2>1. CASE Leave(c)
    BY <1>l, <2>1
  <2>2. CASE ~Leave(c)
    BY <1>7, <1>e, <1>k, <1>o, <1>t, <2>2
       DEF MkPart, Effect, KeptBy, Goto, Young, Resuming, Dir
  <2> QED BY <2>1, <2>2
<1>8. CASE MkRow(c)
  <2>1. CASE Leave(c)
    BY <1>l, <2>1
  <2>2. CASE ~Leave(c)
    <3>1. /\ pc[c] = "mkrow" /\ pc'[c] \in {"verify", "live"}
          /\ tid'[c] = tid[c] /\ UNCHANGED <<name, claim>> /\ parts' = parts
      BY <1>8, <1>t, <2>2 DEF MkRow, Goto, fsVars
    <3>2. tid[c] \in parts
      BY <1>k, <3>1 DEF KeptBy
    <3>3. tid[c] \in Rowed'
      BY <1>e, <3>1, <3>2 DEF Effect
    <3> QED BY <1>k, <3>1, <3>2, <3>3 DEF KeptBy, Young, Resuming
  <2> QED BY <2>1, <2>2
<1>9. CASE WriteChunk(c) \/ Verify(c) \/ HashFile(c) \/ File(c)
  <2>1. /\ pc[c] \in {"live", "verify", "hash", "file"}
        /\ pc'[c] \in {"live", "verify", "hash", "file", "rename", "dropRow"}
        /\ tid'[c] = tid[c] /\ UNCHANGED <<name, claim>>
    BY <1>9, <1>t DEF WriteChunk, Verify, HashFile, File, FileAs, Goto
  <2>2. Rowed' = Rowed /\ parts' = parts
    BY <1>e, <2>1 DEF Effect
  <2> QED BY <1>k, <2>1, <2>2 DEF KeptBy, Young, Resuming
<1>10. CASE Rename(c)
  BY <1>10, <1>k, <1>t DEF Rename, Dir, KeptBy, Goto, Young, Resuming
<1>11. CASE Prepare(c) \/ DropRow(c)
  BY <1>11, <1>k, <1>t, <1>h DEF Prepare, DropRow, KeptBy, Goto, Young,
       Resuming, Bare
<1>12. CASE ResumeRefused(c)
  BY <1>12, <1>k, <1>t, <1>l DEF ResumeRefused, KeptBy, Goto, Young, Resuming
<1>13. CASE OpenForRead(c) \/ EndDownload(c)
  <2>1. UNCHANGED upVars /\ UNCHANGED <<parts, row>>
    BY <1>13 DEF OpenForRead, EndDownload, dbVars, fsVars
  <2>2. Rowed' = Rowed /\ UNCHANGED <<spc, shold>>
    BY <2>1 DEF Rowed, HasRow, ConnStep, sweepVars
  <2> QED BY <1>k, <2>1, <2>2 DEF upVars, KeptBy, Traced, Discarding
<1>14. CASE \/ ClaimRefused(c) \/ EvictFailed(c) \/ Release(c)
            \/ SaveThenLeave(c) \/ DropPart(c)
  BY <1>14, <1>l DEF ClaimRefused, EvictFailed, Release, SaveThenLeave,
     DropPart
<1>15. CASE Disconnect(c) \/ FileLater(c) \/ Undo(c) \/ Finished(c)
  BY <1>15, <1>g DEF Disconnect, FileLater, Undo, Finished
<1> QED BY <1>1, <1>2, <1>3, <1>4, <1>5, <1>6, <1>7, <1>8, <1>9, <1>10,
     <1>11, <1>12, <1>13, <1>14, <1>15 DEF ConnStep, Request, Handle

(* The database states a power loss may bring back are states it has had.  *)
LEMMA PastStates ==
  ASSUME past \in Seq(DbStates),
         UNCHANGED dbVars \/ \E r, e, w : Commit(r, e, w)
  PROVE  \A i \in DOMAIN past' :
           \/ past'[i] = <<row, entry, away>>
           \/ \E j \in DOMAIN past : past'[i] = past[j]
<1>1. CASE UNCHANGED dbVars
  BY <1>1 DEF dbVars
<1>2. ASSUME NEW r, NEW e, NEW w, Commit(r, e, w)
      PROVE  \A i \in DOMAIN past' :
               \/ past'[i] = <<row, entry, away>>
               \/ \E j \in DOMAIN past : past'[i] = past[j]
  <2> DEFINE s == <<row, entry, away>>
             all == IF s = <<r, e, w>> THEN past ELSE Append(past, s)
  <2>1. past' = IF Len(all) > MaxRollback THEN Tail(all) ELSE all
    BY <1>2 DEF Commit, Recent
  <2>2. \A i \in DOMAIN all :
           all[i] = s \/ \E j \in DOMAIN past : all[i] = past[j]
    OBVIOUS
  <2>3. \E S : all \in Seq(S)
    <3>1. past \in Seq(DbStates \cup {s}) /\ s \in DbStates \cup {s}
      OBVIOUS
    <3>2. all \in Seq(DbStates \cup {s})
      BY <3>1
    <3> QED BY <3>2
  <2> HIDE DEF all, s
  <2>4. MaxRollback \in Nat
    BY TransferConstants
  <2>5. \A i \in DOMAIN past' :
           \/ (i \in DOMAIN all /\ past'[i] = all[i])
           \/ (i + 1 \in DOMAIN all /\ past'[i] = all[i + 1])
    <3>1. CASE Len(all) > MaxRollback
      <4>1. PICK S : all \in Seq(S)
        BY <2>3
      <4>2. Len(all) \in Nat /\ Len(all) # 0
        BY <2>4, <3>1, <4>1
      <4>3. past' = Tail(all) /\ all # <<>>
        BY <2>1, <3>1, <4>1, <4>2
      <4>4. \A i \in DOMAIN Tail(all) :
              i + 1 \in DOMAIN all /\ Tail(all)[i] = all[i + 1]
        BY <4>1, <4>3
      <4> QED BY <4>3, <4>4
    <3>2. CASE ~(Len(all) > MaxRollback)
      <4>1. past' = all
        BY <2>1, <3>2, Zenon
      <4> QED BY <4>1
    <3> QED BY <3>1, <3>2
  <2> QED BY <2>2, <2>5 DEF s
<1> QED BY <1>1, <1>2

(* A connection's step is one transaction at most, and no id is forgotten. *)
LEMMA ConnCommits ==
  ASSUME NEW c \in Conns, ConnStep(c)
  PROVE  /\ UNCHANGED dbVars \/ \E r, e, w : Commit(r, e, w)
         /\ used \subseteq used'
<1>1. CASE Claim(c) \/ ClaimRefused(c) \/ ListOpen(c) \/ EvictSkip(c)
  BY <1>1 DEF Claim, ClaimRefused, ListOpen, EvictSkip, envVars
<1>2. CASE Evict(c) \/ EvictPart(c) \/ EvictFailed(c) \/ RoomMade(c)
  BY <1>2 DEF Evict, EvictPart, EvictFailed, RoomMade, envVars
<1>3. CASE MkPart(c) \/ MkRow(c) \/ ResumeFind(c) \/ ResumePrepare(c)
  BY <1>3 DEF MkPart, MkRow, ResumeFind, ResumePrepare, envVars
<1>4. CASE ResumeRefused(c) \/ ResumeClaim(c) \/ ResumeOpen(c)
           \/ SaveThenLeave(c)
  BY <1>4 DEF ResumeRefused, ResumeClaim, ResumeOpen, SaveThenLeave, envVars
<1>5. CASE Verify(c) \/ HashFile(c) \/ File(c) \/ FileLater(c)
  BY <1>5 DEF Verify, HashFile, File, FileLater, FileAs, envVars
<1>6. CASE Rename(c) \/ Undo(c) \/ Finished(c) \/ DropRow(c)
  BY <1>6 DEF Rename, Undo, Finished, DropRow, envVars
<1>7. CASE DropPart(c) \/ Prepare(c) \/ Resume(c) \/ WriteChunk(c)
  BY <1>7 DEF DropPart, Prepare, Resume, WriteChunk, envVars
<1>8. CASE Release(c) \/ Disconnect(c) \/ OpenForRead(c) \/ EndDownload(c)
  BY <1>8 DEF Release, Disconnect, OpenForRead, EndDownload, envVars
<1> QED BY <1>1, <1>2, <1>3, <1>4, <1>5, <1>6, <1>7, <1>8
        DEF ConnStep, Request, Handle

(* A connection's step preserves Keeping.                                  *)
LEMMA ConnKeeping ==
  ASSUME TypeOK, TaskShape, HeldExact, Keeping, NEW c \in Conns, ConnStep(c)
  PROVE  Keeping'
<1>1. Quiet'
  <2>1. UNCHANGED spc
    BY DEF ConnStep, sweepVars
  <2>2. serving' = serving
    BY DEF ConnStep, Request, Handle, Prepare, Resume, WriteChunk, Release,
       Disconnect, OpenForRead, EndDownload, Claim, ClaimRefused, ListOpen,
       EvictSkip, Evict, EvictPart, EvictFailed, RoomMade, MkPart, MkRow,
       ResumeFind, ResumePrepare, ResumeRefused, ResumeClaim, ResumeOpen,
       SaveThenLeave, Verify, HashFile, File, FileLater, Rename, Undo,
       Finished, DropRow, DropPart, envVars
  <2>3. ~serving => UNCHANGED pc
    <3>1. ~serving => pc[c] = "idle"
      BY DEF Keeping, Quiet
    <3> QED BY <3>1
        DEF ConnStep, Request, Handle, Prepare, Resume, WriteChunk, Release,
        Disconnect, OpenForRead, EndDownload, Claim, ClaimRefused, ListOpen,
        EvictSkip, Evict, EvictPart, EvictFailed, RoomMade, MkPart, MkRow,
        ResumeFind, ResumePrepare, ResumeRefused, ResumeClaim, ResumeOpen,
        SaveThenLeave, Verify, HashFile, File, FileLater, Rename, Undo,
        Finished, DropRow, DropPart, upVars
  <2> QED BY <2>1, <2>2, <2>3 DEF Keeping, Quiet
<1>2. Unused'
  <2> SUFFICES ASSUME NEW u \in Uploads \ used'
               PROVE  /\ u \notin Rowed'
                      /\ \A i \in DOMAIN past' : past'[i][1][u] = NoRow
                      /\ \A d \in Conns : tid'[d] # u
    BY DEF Unused
  <2>1. /\ u \in Uploads \ used /\ u \notin Rowed /\ row[u] = NoRow
        /\ \A i \in DOMAIN past : past[i][1][u] = NoRow
        /\ \A d \in Conns : tid[d] # u
    BY ConnCommits DEF Keeping, Unused, Rowed, HasRow
  <2>2. u \notin Rowed'
    BY <2>1, ConnEffect DEF Effect
  <2>3. \A i \in DOMAIN past' : past'[i][1][u] = NoRow
    BY <2>1, PastStates, ConnCommits DEF TypeOK, DbType
  <2>4. tid'[c] # u
    BY <2>1, ConnTid, MarksAreNoIds
  <2> QED BY <2>1, <2>2, <2>3, <2>4, ConnLocal
<1>3. \A d \in Conns : KeptBy(d)'
  BY KeptBySelf, KeptElsewhere
<1> QED BY <1>1, <1>2, <1>3 DEF Keeping

(* Steps that leave the tasks alone preserve it if they respect what is    *)
(* held and account for what they take.                                    *)
LEMMA OthersKeeping ==
  ASSUME TypeOK, TaskShape, HeldExact, Keeping,
         UNCHANGED <<upVars, used>>,
         UNCHANGED dbVars \/ \E r, e, w : Commit(r, e, w),
         Rowed' \subseteq Rowed, parts' \subseteq parts,
         \A u \in live.held \ shold :
            /\ u \in Rowed => u \in Rowed'
            /\ u \in parts => u \in parts',
         \A u \in Uploads : Traced(u) => Traced(u)',
         Quiet'
  PROVE  Keeping'
<1>1. Unused'
  <2>1. \A i \in DOMAIN past' :
           \/ past'[i] = <<row, entry, away>>
           \/ \E j \in DOMAIN past : past'[i] = past[j]
    BY PastStates DEF TypeOK, DbType
  <2> QED BY <2>1 DEF Keeping, Unused, Rowed, HasRow, upVars
<1>2. ASSUME NEW c \in Conns PROVE KeptBy(c)'
  <2>1. claim[c].on => tid[c] \in live.held \ shold
    BY ClaimHolds
  <2>2. /\ pc[c] \notin Bare \cup Dropping => claim[c].on
        /\ pc[c] \notin {"idle", "prepared"} => tid[c] \in Uploads
    BY ClaimHolds
  <2>3. pc[c] \in Resuming => Traced(tid[c])'
    <3>1. PICK u : u = tid[c]
      OBVIOUS
    <3>2. pc[c] \in Resuming => Traced(u)'
      BY <2>2, <3>1 DEF Keeping, KeptBy, Resuming
    <3> QED BY <3>1, <3>2 DEF Traced, Discarding, upVars
  <2>4. claim[c].on => /\ tid[c] \in Rowed <=> tid[c] \in Rowed'
                       /\ tid[c] \in parts <=> tid[c] \in parts'
    BY <2>1
  <2> QED BY <2>2, <2>3, <2>4
          DEF Keeping, KeptBy, upVars, Bare, Dropping, Young, Resuming
<1> QED BY <1>1, <1>2 DEF Keeping

(* With nobody at work there is not much to keep.                          *)
LEMMA IdleKeeping ==
  ASSUME Unused', Quiet', \A c \in Conns : pc'[c] = "idle" /\ ~claim'[c].on
  PROVE  Keeping'
  BY DEF Keeping, KeptBy, Young, Resuming

(* Users and time preserve Keeping: rows only grow old.                    *)
LEMMA WorldKeeping ==
  ASSUME TypeOK, TaskShape, HeldExact, Keeping,
         DeleteEntry \/ Unlink \/ EditFolder \/ Age
  PROVE  Keeping'
<1>1. UNCHANGED <<upVars, used, spc, shold, serving, parts>>
  BY DEF DeleteEntry, Unlink, EditFolder, Age, envVars, sweepVars, fsVars, Dir
<1>2. UNCHANGED past \/ \E r, e, w : Commit(r, e, w)
  BY DEF DeleteEntry, Deleted, Unlink, EditFolder, Age, dbVars
<1>3. Rowed' = Rowed
  <2>1. CASE Age
    <3>1. PICK u \in Uploads :
            \/ row' = row
            \/ HasRow(u) /\ row' = [row EXCEPT ![u] = [@ EXCEPT !.old = TRUE]]
      BY <2>1 DEF Age
    <3> QED BY <3>1, RowedUpdates DEF TypeOK
  <2>2. CASE DeleteEntry \/ Unlink \/ EditFolder
    <3>1. row' = row
      BY <2>2 DEF DeleteEntry, Deleted, Unlink, EditFolder, Commit, dbVars
    <3> QED BY <3>1 DEF Rowed, HasRow
  <2> QED BY <2>1, <2>2
<1>4. Unused'
  <2>1. \A i \in DOMAIN past' :
           \/ past'[i] = <<row, entry, away>>
           \/ \E j \in DOMAIN past : past'[i] = past[j]
    <3>1. CASE UNCHANGED past
      BY <3>1
    <3>2. CASE \E r, e, w : Commit(r, e, w)
      BY <3>2, PastStates DEF TypeOK, DbType
    <3> QED BY <1>2, <3>1, <3>2
  <2> QED BY <1>1, <1>3, <2>1 DEF Keeping, Unused, Rowed, HasRow, upVars
<1>5. Quiet'
  BY <1>1 DEF Keeping, Quiet, upVars
<1>6. ASSUME NEW c \in Conns PROVE KeptBy(c)'
  BY <1>1, <1>3 DEF Keeping, KeptBy, Traced, Discarding, upVars
<1> QED BY <1>4, <1>5, <1>6 DEF Keeping

(* The sweeper leaves what is held, and announces what it takes.           *)
LEMMA SweeperKeeping ==
  ASSUME TypeOK, TaskShape, SweepShape, HeldExact, Keeping, SweeperStep
  PROVE  Keeping'
<1>1. UNCHANGED <<upVars, used>>
  BY DEF SweeperStep, SweepStart, SweepStale, SweepStalePart,
     SweepParts, SweepOrphanPart, SweepEnd, ListBlobs, HoldBlobs,
     FindOrphans, Quarantine, LeaveBlobs, Purge, envVars
<1>2. Quiet'
  <2>1. spc' \notin {"repair", "repairParts"}
    BY DEF SweeperStep, SweepStart, ListStale, SweepStale, SweepStalePart,
       SweepParts, SweepOrphanPart, SweepEnd, ListBlobs, HoldBlobs,
       FindOrphans, Quarantine, LeaveBlobs, Purge, Stage
  <2>2. serving' = serving \/ serving' = TRUE
    BY DEF SweeperStep, SweepStart, SweepStale, SweepStalePart,
       SweepParts, SweepOrphanPart, SweepEnd, ListBlobs, HoldBlobs,
       FindOrphans, Quarantine, LeaveBlobs, Purge, envVars
  <2> QED BY <1>1, <2>1, <2>2 DEF Keeping, Quiet, upVars
<1>3. CASE SweepStale
  <2>1. /\ UNCHANGED dbVars \/ \E r, e, w : Commit(r, e, w)
        /\ UNCHANGED parts /\ spc = "stale"
    BY <1>3 DEF SweepStale, fsVars
  <2>2. shold = {}
    BY <2>1 DEF SweepShape
  <2>3. \/ Rowed' = Rowed
        \/ \E u \in Uploads \ live.held :
             /\ Rowed' = Rowed \ {u}
             /\ spc' = "stalePart" /\ shold' = {u}
    <3>1. CASE UNCHANGED dbVars
      BY <3>1 DEF dbVars, Rowed, HasRow
    <3>2. CASE ~UNCHANGED dbVars
      <4>1. PICK u \in todo \ live.held :
              /\ row' = DeleteRow(u) /\ spc' = "stalePart" /\ shold' = {u}
        BY <1>3, <3>2 DEF SweepStale, Commit, Stage
      <4>2. u \in Uploads
        BY <4>1 DEF TypeOK, ServerType
      <4> QED BY <4>1, <4>2, RowedUpdates DEF TypeOK
    <3> QED BY <3>1, <3>2
  <2>4. ASSUME NEW u \in Uploads, Traced(u) PROVE Traced(u)'
    BY <1>1, <2>1, <2>2, <2>3, <2>4 DEF Traced, Discarding, upVars
  <2> QED BY <1>1, <1>2, <2>1, <2>3, <2>4, OthersKeeping
<1>4. CASE SweepStalePart
  <2>1. /\ UNCHANGED dbVars /\ parts' = parts \ shold
    BY <1>4 DEF SweepStalePart, Dir
  <2>2. Rowed' = Rowed
    BY <2>1 DEF dbVars, Rowed, HasRow
  <2>3. ASSUME NEW u \in Uploads, Traced(u) PROVE Traced(u)'
    BY <1>1, <2>1, <2>2, <2>3 DEF Traced, Discarding, upVars
  <2> QED BY <1>1, <1>2, <2>1, <2>2, <2>3, OthersKeeping
<1>5. CASE SweepOrphanPart
  <2>1. /\ UNCHANGED dbVars /\ UNCHANGED shold /\ spc = "orphan"
        /\ \/ parts' = parts
           \/ \E u \in parts \ live.held : parts' = parts \ {u}
    BY <1>5 DEF SweepOrphanPart, Dir, fsVars
  <2>2. Rowed' = Rowed
    BY <2>1 DEF dbVars, Rowed, HasRow
  <2>3. ASSUME NEW u \in Uploads, Traced(u) PROVE Traced(u)'
    BY <1>1, <2>1, <2>2, <2>3 DEF Traced, Discarding, upVars
  <2> QED BY <1>1, <1>2, <2>1, <2>2, <2>3, OthersKeeping
<1>6. CASE \/ SweepStart \/ SweepParts \/ SweepEnd \/ ListBlobs \/ HoldBlobs
           \/ FindOrphans \/ Quarantine \/ LeaveBlobs \/ Purge
  <2>1. /\ UNCHANGED dbVars /\ parts' = parts /\ spc # "stalePart"
    BY <1>6 DEF SweepStart, SweepParts, SweepEnd, ListBlobs, HoldBlobs,
       FindOrphans, Quarantine, LeaveBlobs, Purge, Dir, fsVars
  <2>2. Rowed' = Rowed
    BY <2>1 DEF dbVars, Rowed, HasRow
  <2>3. ASSUME NEW u \in Uploads, Traced(u) PROVE Traced(u)'
    BY <1>1, <2>1, <2>2, <2>3 DEF Traced, Discarding, upVars
  <2> QED BY <1>1, <1>2, <2>1, <2>2, <2>3, OthersKeeping
<1> QED BY <1>3, <1>4, <1>5, <1>6 DEF SweeperStep

(* During startup nobody is at work.                                       *)
LEMMA StartupKeeping ==
  ASSUME TypeOK, TaskShape, Keeping, StartupStep
  PROVE  Keeping'
<1>1. UNCHANGED <<upVars, used, serving>>
  BY DEF StartupStep, Repair, RepairParts, RepairPart, StartupSweep, envVars
<1>2. spc \in {"repair", "repairParts"}
  BY DEF StartupStep, Repair, RepairParts, RepairPart, StartupSweep
<1>3. \A c \in Conns : pc'[c] = "idle" /\ ~claim'[c].on
  BY <1>1, <1>2 DEF Keeping, Quiet, upVars, TaskShape, Shape, Bare
<1>4. Quiet'
  BY <1>1, <1>2, <1>3 DEF Keeping, Quiet
<1>5. /\ UNCHANGED dbVars \/ \E r, e, w : Commit(r, e, w)
      /\ \/ UNCHANGED dbVars
         \/ \E u \in todo : row' = DeleteRow(u)
  BY DEF StartupStep, Repair, RepairParts, RepairPart, StartupSweep, Commit
<1>6. Rowed' \subseteq Rowed
  <2>1. todo \subseteq Uploads /\ DbType
    BY DEF TypeOK, ServerType
  <2>2. UNCHANGED dbVars => Rowed' = Rowed
    BY DEF dbVars, Rowed, HasRow
  <2> QED BY <1>5, <2>1, <2>2, RowedUpdates
<1>7. Unused'
  <2>1. \A i \in DOMAIN past' :
           \/ past'[i] = <<row, entry, away>>
           \/ \E j \in DOMAIN past : past'[i] = past[j]
    BY <1>5, PastStates DEF TypeOK, DbType
  <2> QED BY <1>1, <1>6, <2>1 DEF Keeping, Unused, Rowed, HasRow, upVars
<1> QED BY <1>3, <1>4, <1>7, IdleKeeping

(* A crash leaves no task, and a power loss brings back only rows there    *)
(* have been.                                                              *)
LEMMA CrashKeeping ==
  ASSUME TypeOK, Keeping, Crash \/ PowerLoss
  PROVE  Keeping'
<1>1. \E r : Restart(r)
  BY DEF Crash, PowerLoss
<1>2. \A c \in Conns : pc'[c] = "idle" /\ ~claim'[c].on /\ tid'[c] = NoId
  BY <1>1 DEF Restart, NoClaim
<1>3. Quiet'
  BY <1>1, <1>2 DEF Restart, Quiet, Stage
<1>4. /\ \/ UNCHANGED dbVars
         \/ past' = <<>> /\ \/ row' = row
                            \/ \E i \in DOMAIN past : row' = past[i][1]
      /\ used' = used
  <2>1. CASE Crash
    BY <2>1 DEF Crash, Restart
  <2>2. CASE PowerLoss
    <3>1. PICK d \in {<<row, entry, away>>} \cup {past[i] : i \in DOMAIN past} :
            row' = d[1] /\ Restart(d[1])
      BY <2>2 DEF PowerLoss
    <3>2. d[1] = row \/ \E i \in DOMAIN past : d[1] = past[i][1]
      BY <3>1
    <3> QED BY <2>2, <3>1, <3>2 DEF PowerLoss, Restart
  <2> QED BY <2>1, <2>2
<1>5. Unused'
  <2>1. CASE UNCHANGED dbVars
    BY <1>2, <1>4, <2>1, MarksAreNoIds
       DEF dbVars, Keeping, Unused, Rowed, HasRow
  <2>2. CASE ~UNCHANGED dbVars
    BY <1>2, <1>4, <2>2, MarksAreNoIds DEF Keeping, Unused, Rowed, HasRow
  <2> QED BY <2>1, <2>2
<1> QED BY <1>2, <1>3, <1>5, IdleKeeping

LEMMA InitKeeping ==
  ASSUME RecoveryInit
  PROVE  Keeping
<1>1. /\ \A c \in Conns : pc[c] = "idle" /\ ~claim[c].on /\ tid[c] = NoId
      /\ Rowed = {} /\ past = <<>> /\ serving /\ spc = "off"
  BY DEF RecoveryInit, Init, NoClaim, Rowed, HasRow
<1> QED BY <1>1, MarksAreNoIds
        DEF Keeping, Quiet, Unused, KeptBy, Young, Resuming

LEMMA KeepingHolds == Spec => []Keeping
<1>1. RecoveryInit => Keeping
  BY InitKeeping
<1>2. Ownership /\ Keeping /\ [Next]_vars => Keeping'
  <2> SUFFICES ASSUME Ownership, Keeping, [Next]_vars
               PROVE  Keeping'
    OBVIOUS
  <2>1. CASE UNCHANGED vars
    BY <2>1 DEF vars, upVars, dbVars, fsVars, envVars, sweepVars, Keeping,
       Quiet, Unused, KeptBy, Traced, Discarding, Rowed, HasRow
  <2> QED BY <2>1, ConnKeeping, WorldKeeping, SweeperKeeping, StartupKeeping,
             CrashKeeping DEF Next, Ownership
<1> QED BY <1>1, <1>2, OwnershipHolds, PTL DEF Spec

(* Neither the sweeper, nor another connection making room, nor a refused  *)
(* resume takes the row or the partial file of an upload in progress away: *)
(* every one of them asks the live table before it deletes.                *)
THEOREM UploadKeepsItsState == Spec => []OwnerKeepsState
<1>1. Keeping => OwnerKeepsState
  BY DEF Keeping, KeptBy, OwnerKeepsState, Rowed
<1> QED BY <1>1, KeepingHolds, PTL

---------------------------------------------------------------------------
(* What a finish files under.                                              *)

(* Only a finish puts an upload into the folder, and a power loss.         *)
LEMMA OnlyFinishFiles ==
  ASSUME TypeOK, Next, losses' = losses,
         NEW n \in Names, entry'[n] \in Uploads \ {entry[n]}
  PROVE  \E c \in Conns, m \in Names : File(c) /\ FileAs(c, m)
<1>t. entry \in [Names -> Uploads \cup {Free, Other}] /\ losses \in Nat
  BY DEF TypeOK, DbType, EntryTable, ServerType
<1>m. Free \notin Uploads /\ Other \notin Uploads
  BY MarksAreNoIds
<1>0. entry' # entry
  OBVIOUS
<1>1. ASSUME NEW c \in Conns, ConnStep(c), ~File(c)
      PROVE  FALSE
  <2>1. CASE Claim(c) \/ ClaimRefused(c) \/ ListOpen(c) \/ EvictSkip(c)
             \/ Evict(c) \/ EvictPart(c)
    BY <1>0, <2>1 DEF Claim, ClaimRefused, ListOpen, EvictSkip, Evict,
       EvictPart, Commit, dbVars
  <2>2. CASE EvictFailed(c) \/ RoomMade(c) \/ MkPart(c) \/ MkRow(c)
             \/ ResumeFind(c) \/ ResumePrepare(c)
    BY <1>0, <2>2 DEF EvictFailed, RoomMade, MkPart, MkRow, ResumeFind,
       ResumePrepare, Commit, dbVars
  <2>3. CASE ResumeRefused(c) \/ ResumeClaim(c) \/ ResumeOpen(c)
             \/ SaveThenLeave(c) \/ Verify(c) \/ HashFile(c)
    BY <1>0, <2>3 DEF ResumeRefused, ResumeClaim, ResumeOpen, SaveThenLeave,
       Verify, HashFile, Commit, dbVars
  <2>4. CASE FileLater(c) \/ Rename(c) \/ Finished(c) \/ DropRow(c)
             \/ DropPart(c) \/ Prepare(c)
    BY <1>0, <2>4 DEF FileLater, Rename, Finished, DropRow, DropPart, Prepare,
       Commit, dbVars
  <2>5. CASE Resume(c) \/ WriteChunk(c) \/ Release(c) \/ Disconnect(c)
             \/ OpenForRead(c) \/ EndDownload(c)
    BY <1>0, <2>5 DEF Resume, WriteChunk, Release, Disconnect, OpenForRead,
       EndDownload, Commit, dbVars
  <2>6. CASE Undo(c)
    BY <1>t, <1>m, <2>6 DEF Undo, Commit, dbVars
  <2> QED BY <1>1, <2>1, <2>2, <2>3, <2>4, <2>5, <2>6
          DEF ConnStep, Request, Handle
<1>2. ASSUME NEW c \in Conns, File(c)
      PROVE  \E m \in Names : FileAs(c, m)
  <2>1. PICK m : FileAs(c, m)
    BY <1>0, <1>2 DEF File, dbVars
  <2>2. m \in Names
    BY <1>0, <1>t, <2>1 DEF FileAs, Commit
  <2> QED BY <2>1, <2>2
<1>3. ~(DeleteEntry \/ Unlink \/ EditFolder \/ Age)
  BY <1>0, <1>t, <1>m
     DEF DeleteEntry, Deleted, Unlink, EditFolder, Age, Commit, dbVars
<1>4. ~SweeperStep
  BY <1>0 DEF SweeperStep, SweepStart, SweepStale, SweepStalePart,
     SweepParts, SweepOrphanPart, SweepEnd, ListBlobs, HoldBlobs,
     FindOrphans, Quarantine, LeaveBlobs, Purge, Commit, dbVars
<1>5. ~StartupStep
  BY <1>0 DEF StartupStep, Repair, RepairParts, RepairPart, StartupSweep,
     Commit, dbVars
<1>6. ~Crash /\ ~PowerLoss
  BY <1>0, <1>t DEF Crash, PowerLoss, dbVars
<1> QED BY <1>1, <1>2, <1>3, <1>4, <1>5, <1>6 DEF Next

(* The entry a finish files replaces none, and stands on no name another   *)
(* upload has reserved.                                                    *)
LEMMA FinishRespectsNames ==
  ASSUME Ownership, Keeping, NEW c \in Conns, NEW n \in Names,
         File(c), FileAs(c, n), entry' # entry
  PROVE  /\ entry[n] = Free
         /\ entry' = [entry EXCEPT ![n] = tid[c]]
         /\ \A d, e \in Working :
              /\ tid[e] = tid[c]
              /\ claim[e].dest # NoName /\ claim[d].dest = n
              => d = e
<1>t. entry \in [Names -> Uploads \cup {Free, Other}] /\ tid[c] \in Uploads
      /\ claim[c].on /\ name[c] \in Nat
  BY DEF File, Ownership, TypeOK, DbType, EntryTable, TaskShape, Shape,
     Bare, Dropping, Names
<1>1. entry' = [entry EXCEPT ![n] = tid[c]]
  BY DEF FileAs, Commit
<1>2. ASSUME NEW m, FileAs(c, m) PROVE m = n
  <2>1. entry' = [entry EXCEPT ![m] = tid[c]]
    BY <1>2 DEF FileAs, Commit
  <2> QED BY <1>1, <1>t, <2>1
<1>3. CASE entry[name[c]] = Free /\ FileAs(c, name[c])
  <2>1. n = name[c]
    BY <1>2, <1>3
  <2>2. ASSUME NEW d \in Working, NEW e \in Working, tid[e] = tid[c],
               claim[e].dest # NoName, claim[d].dest = n
        PROVE  d = e
    <3>1. e = c
      BY <1>t, <2>2, ClaimHolds DEF Working, Ownership
    <3>2. claim[c].dest = n
      BY <1>t, <2>1, <2>2, <3>1 DEF Keeping, KeptBy
    <3> QED BY <1>t, <2>2, <3>1, <3>2 DEF Ownership, NamesExact, Working
  <2> QED BY <1>1, <1>3, <2>1, <2>2
<1>4. CASE LET taken == Taken \cup live.names
           IN  /\ FreeNames(name[c], taken) # {}
               /\ FileAs(c, FreeName(name[c], taken))
  <2> DEFINE taken == Taken \cup live.names
  <2>1. n = FreeName(name[c], taken)
    BY <1>2, <1>4
  <2>2. n \in FreeNames(name[c], taken)
    <3>1. PICK tk : tk = taken
      OBVIOUS
    <3>2. FreeNames(name[c], tk) # {} =>
            FreeName(name[c], tk) \in FreeNames(name[c], tk)
      BY <1>t, FreeNameIsFree
    <3> QED BY <1>4, <2>1, <3>1, <3>2
  <2>3. entry[n] = Free /\ n \notin live.names
    BY <2>2 DEF FreeNames, Taken
  <2>4. \A d \in Working : claim[d].dest # n
    BY <2>3 DEF Ownership, NamesExact
  <2> QED BY <1>1, <2>3, <2>4
<1>5. FileAs(c, n) /\ UNCHANGED dbVars => FALSE
  BY DEF dbVars
<1> QED BY <1>3, <1>4, <1>5 DEF File

(* A finish files under a free name that no other upload is headed for,    *)
(* whatever was filed, moved or claimed since its own name was claimed.    *)
THEOREM FinishTakesNoName == Spec => FilingRespectsNames
<1> DEFINE A == \A n \in Names :
                  losses' = losses /\ entry'[n] \in Uploads \ {entry[n]} =>
                    /\ entry[n] = Free
                    /\ \A c, d \in Working :
                         /\ tid[d] = entry'[n] /\ claim[d].dest # NoName
                         /\ claim[c].dest = n
                         => c = d
<1>1. Ownership /\ Keeping /\ [Next]_vars => [A]_vars
  <2> SUFFICES ASSUME Ownership, Keeping, Next, NEW n \in Names,
                      losses' = losses, entry'[n] \in Uploads \ {entry[n]}
               PROVE  /\ entry[n] = Free
                      /\ \A c, d \in Working :
                           /\ tid[d] = entry'[n] /\ claim[d].dest # NoName
                           /\ claim[c].dest = n
                           => c = d
    OBVIOUS
  <2>1. PICK c \in Conns, m \in Names : File(c) /\ FileAs(c, m)
    BY OnlyFinishFiles DEF Ownership
  <2>2. entry' # entry
    OBVIOUS
  <2>3. /\ entry[m] = Free
        /\ entry' = [entry EXCEPT ![m] = tid[c]]
        /\ \A d, e \in Working :
             /\ tid[e] = tid[c]
             /\ claim[e].dest # NoName /\ claim[d].dest = m
             => d = e
    BY <2>1, <2>2, FinishRespectsNames
  <2>4. n = m /\ entry'[n] = tid[c]
    BY <2>3 DEF Ownership, TypeOK, DbType, EntryTable
  <2> QED BY <2>3, <2>4
<1>2. Spec => []Ownership /\ []Keeping
  BY OwnershipHolds, KeepingHolds
<1> QED BY <1>1, <1>2, PTL DEF Spec, FilingRespectsNames

---------------------------------------------------------------------------
(* Bitmaps and bytes.                                                      *)

Written(u) == {k \in Chunks : data[u][k] # "hole"}

(* What the row of u says was received.                                    *)
Said(u) == IF HasRow(u) THEN row[u].bits ELSE {}

(* Unless power has been lost, what a row or a task takes for received is  *)
(* in the file.                                                            *)
RowsWritten == \A u \in Uploads : Said(u) \subseteq Written(u)

BitsWritten ==
  \A c \in Conns :
    /\ pc[c] \notin {"idle", "prepared"} => bits[c] \subseteq Written(tid[c])
    /\ pc[c] \in {"idle", "prepared"} \cup Young => bits[c] = {}

DataInv == losses = 0 => RowsWritten /\ BitsWritten

(* What the updates of the row table do to what rows say.                  *)
LEMMA SaidUpdates ==
  ASSUME DbType, NEW u \in Uploads
  PROVE  /\ row' = row => \A v \in Uploads : Said(v)' = Said(v)
         /\ row' = DeleteRow(u) =>
              \A v \in Uploads : Said(v)' \subseteq Said(v)
         /\ \A bs \in SUBSET Chunks : row' = SaveBits(u, bs) =>
              \A v \in Uploads : Said(v)' = Said(v) \/ (v = u /\ Said(v)' = bs)
         /\ \A n \in Names :
              row' = [row EXCEPT ![u] = IF @ = NoRow THEN @
                        ELSE [@ EXCEPT !.name = n, !.old = FALSE]]
              => \A v \in Uploads : Said(v)' = Said(v)
         /\ \A a \in Accounts, n \in Names :
              row' = [row EXCEPT ![u] = [acct |-> a, name |-> n,
                                         bits |-> {}, old |-> FALSE]]
              => \A v \in Uploads : Said(v)' \subseteq Said(v)
         /\ HasRow(u) /\ row' = [row EXCEPT ![u] = [@ EXCEPT !.old = TRUE]]
              => \A v \in Uploads : Said(v)' = Said(v)
<1>1. row \in [Uploads -> Rows \cup {NoRow}]
  BY DEF DbType, RowTable
<1>2. \A r \in Rows : r # NoRow
  BY NoRowIsNoRow
<1>3. row' = row => \A v \in Uploads : Said(v)' = Said(v)
  BY DEF Said, HasRow
<1>4. row' = DeleteRow(u) => \A v \in Uploads : Said(v)' \subseteq Said(v)
  BY <1>1 DEF Said, HasRow, DeleteRow
<1>5. ASSUME NEW r \in Rows, row' = [row EXCEPT ![u] = r]
      PROVE  \A v \in Uploads : IF v = u THEN Said(v)' = r.bits
                                         ELSE Said(v)' = Said(v)
  BY <1>1, <1>2, <1>5 DEF Said, HasRow
<1>6. row' = [row EXCEPT ![u] = row[u]]
        => \A v \in Uploads : Said(v)' = Said(v)
  BY <1>1 DEF Said, HasRow
<1>7. ASSUME NEW bs \in SUBSET Chunks, row' = SaveBits(u, bs)
      PROVE  \A v \in Uploads : Said(v)' = Said(v) \/ (v = u /\ Said(v)' = bs)
  <2>1. CASE row[u] = NoRow
    BY <1>6, <1>7, <2>1 DEF SaveBits
  <2>2. CASE row[u] # NoRow
    <3>1. /\ [row[u] EXCEPT !.bits = bs, !.old = FALSE] \in Rows
          /\ [row[u] EXCEPT !.bits = bs, !.old = FALSE].bits = bs
      BY <1>1, <2>2 DEF Rows
    <3> QED BY <1>5, <1>7, <2>2, <3>1 DEF SaveBits
  <2> QED BY <2>1, <2>2
<1>8. ASSUME NEW n \in Names,
             row' = [row EXCEPT ![u] = IF @ = NoRow THEN @
                       ELSE [@ EXCEPT !.name = n, !.old = FALSE]]
      PROVE  \A v \in Uploads : Said(v)' = Said(v)
  <2>1. CASE row[u] = NoRow
    BY <1>6, <1>8, <2>1
  <2>2. CASE row[u] # NoRow
    <3>1. /\ [row[u] EXCEPT !.name = n, !.old = FALSE] \in Rows
          /\ [row[u] EXCEPT !.name = n, !.old = FALSE].bits = row[u].bits
      BY <1>1, <2>2 DEF Rows
    <3>2. Said(u) = row[u].bits
      BY <2>2 DEF Said, HasRow
    <3> QED BY <1>5, <1>8, <2>2, <3>1, <3>2
  <2> QED BY <2>1, <2>2
<1>9. ASSUME NEW a \in Accounts, NEW n \in Names,
             row' = [row EXCEPT ![u] = [acct |-> a, name |-> n,
                                        bits |-> {}, old |-> FALSE]]
      PROVE  \A v \in Uploads : Said(v)' \subseteq Said(v)
  <2>1. [acct |-> a, name |-> n, bits |-> {}, old |-> FALSE] \in Rows
    BY DEF Rows
  <2>2. \A v \in Uploads : IF v = u THEN Said(v)' = {} ELSE Said(v)' = Said(v)
    BY <1>5, <1>9, <2>1
  <2> QED BY <2>2
<1>10. ASSUME HasRow(u), row' = [row EXCEPT ![u] = [@ EXCEPT !.old = TRUE]]
       PROVE  \A v \in Uploads : Said(v)' = Said(v)
  <2>1. /\ [row[u] EXCEPT !.old = TRUE] \in Rows
        /\ [row[u] EXCEPT !.old = TRUE].bits = row[u].bits
    BY <1>1, <1>10 DEF Rows, HasRow
  <2>2. Said(u) = row[u].bits
    BY <1>10 DEF Said
  <2> QED BY <1>5, <1>10, <2>1, <2>2
<1> QED BY <1>3, <1>4, <1>7, <1>8, <1>9, <1>10

(* What a step of a connection does to the bytes, and to what is said of   *)
(* them.                                                                   *)
Saying(c) ==
  /\ \A u \in Uploads :
       \/ Written(u) \subseteq Written(u)'
       \/ pc[c] = "mkpart" /\ u = tid[c]
  /\ \A u \in Uploads :
       \/ Said(u)' \subseteq Said(u)
       \/ u = tid[c] /\ Said(u)' \subseteq bits[c] /\ pc[c] # "mkpart"
          /\ pc[c] \notin {"idle", "prepared"}
       \/ u = tid[c] /\ pc[c] = "live" /\ Said(u)' \subseteq Written(u)'

LEMMA ConnSaying ==
  ASSUME TypeOK, TaskShape, NEW c \in Conns, ConnStep(c),
         pc[c] = "live" => bits[c] \subseteq Written(tid[c])
  PROVE  Saying(c)
<1>t. /\ DbType /\ pc \in [Conns -> Labels]
      /\ pc[c] \notin {"idle", "prepared"} => tid[c] \in Uploads
      /\ pc[c] # "idle" => name[c] \in Names
      /\ Acct(c) \in Accounts
      /\ bits[c] \in SUBSET Chunks
      /\ data \in [Uploads -> [Chunks -> Bytes]]
  BY TransferConstants DEF TypeOK, TaskShape, Shape, UpType, Acct, FsType
<1>s. UNCHANGED dbVars => \A u \in Uploads : Said(u)' = Said(u)
  BY DEF dbVars, Said, HasRow
<1>w. data' = data => \A u \in Uploads : Written(u)' = Written(u)
  BY DEF Written
<1>1. CASE Claim(c) \/ ClaimRefused(c) \/ ListOpen(c) \/ EvictSkip(c)
  <2>1. UNCHANGED dbVars /\ data' = data
    BY <1>1 DEF Claim, ClaimRefused, ListOpen, EvictSkip, fsVars, Dir
  <2> QED BY <1>s, <1>w, <2>1 DEF Saying
<1>2. CASE EvictPart(c) \/ EvictFailed(c) \/ RoomMade(c) \/ ResumeFind(c)
  <2>1. UNCHANGED dbVars /\ data' = data
    BY <1>2 DEF EvictPart, EvictFailed, RoomMade, ResumeFind, fsVars, Dir
  <2> QED BY <1>s, <1>w, <2>1 DEF Saying
<1>3. CASE ResumePrepare(c) \/ ResumeRefused(c) \/ ResumeClaim(c)
           \/ HashFile(c)
  <2>1. UNCHANGED dbVars /\ data' = data
    BY <1>3 DEF ResumePrepare, ResumeRefused, ResumeClaim, HashFile, fsVars,
       Dir
  <2> QED BY <1>s, <1>w, <2>1 DEF Saying
<1>4. CASE FileLater(c) \/ Rename(c) \/ DropPart(c) \/ Prepare(c)
  <2>1. UNCHANGED dbVars /\ data' = data
    BY <1>4 DEF FileLater, Rename, DropPart, Prepare, fsVars, Dir
  <2> QED BY <1>s, <1>w, <2>1 DEF Saying
<1>5. CASE Resume(c) \/ Disconnect(c) \/ OpenForRead(c) \/ EndDownload(c)
  <2>1. UNCHANGED dbVars /\ data' = data
    BY <1>5 DEF Resume, Disconnect, OpenForRead, EndDownload, fsVars, Dir
  <2> QED BY <1>s, <1>w, <2>1 DEF Saying
<1>6. CASE File(c) \/ Undo(c)
  <2>1. row' = row /\ data' = data
    BY <1>6 DEF File, FileAs, Undo, Commit, dbVars, fsVars
  <2>2. \A u \in Uploads : Said(u)' = Said(u)
    BY <2>1 DEF Said, HasRow
  <2> QED BY <1>w, <2>1, <2>2 DEF Saying
<1>7. CASE Evict(c)
  <2>1. PICK v \in Uploads : row' = DeleteRow(v) \/ UNCHANGED dbVars
    BY <1>7 DEF Evict, Commit, TypeOK, UpType
  <2>2. \A u \in Uploads : Said(u)' \subseteq Said(u)
    BY <1>t, <1>s, <2>1, SaidUpdates
  <2>3. data' = data
    BY <1>7 DEF Evict, fsVars
  <2> QED BY <1>w, <2>2, <2>3 DEF Saying
<1>8. CASE Finished(c) \/ DropRow(c)
  <2>1. /\ tid[c] \in Uploads /\ data' = data
        /\ row' = DeleteRow(tid[c]) \/ UNCHANGED dbVars
    BY <1>t, <1>8 DEF Finished, DropRow, Commit, fsVars
  <2>2. \A u \in Uploads : Said(u)' \subseteq Said(u)
    BY <1>t, <1>s, <2>1, SaidUpdates
  <2> QED BY <1>w, <2>1, <2>2 DEF Saying
<1>9. CASE MkPart(c)
  <2>1. UNCHANGED dbVars /\ pc[c] = "mkpart" /\ tid[c] \in Uploads
    BY <1>t, <1>9 DEF MkPart
  <2>2. \A u \in Uploads \ {tid[c]} : Written(u)' = Written(u)
    BY <1>t, <1>9 DEF MkPart, Written, fsVars
  <2> QED BY <1>s, <2>1, <2>2 DEF Saying
<1>10. CASE MkRow(c)
  <2>1. /\ tid[c] \in Uploads /\ name[c] \in Names /\ data' = data
    BY <1>t, <1>10 DEF MkRow, fsVars
  <2>2. \A u \in Uploads : Said(u)' \subseteq Said(u)
    BY <1>t, <1>s, <1>10, <2>1, SaidUpdates DEF MkRow, Commit
  <2> QED BY <1>w, <2>1, <2>2 DEF Saying
<1>11. CASE ResumeOpen(c)
  <2>1. /\ tid[c] \in Uploads /\ name[c] \in Names /\ data' = data
    BY <1>t, <1>11 DEF ResumeOpen, fsVars
  <2>2. \A u \in Uploads : Said(u)' = Said(u)
    BY <1>t, <1>s, <1>11, <2>1, SaidUpdates DEF ResumeOpen, Commit
  <2> QED BY <1>w, <2>1, <2>2 DEF Saying
<1>12. CASE Release(c) \/ SaveThenLeave(c) \/ Verify(c)
  <2>1. /\ tid[c] \in Uploads /\ data' = data
        /\ pc[c] \notin {"mkpart", "idle", "prepared"}
        /\ row' = SaveBits(tid[c], bits[c]) \/ UNCHANGED dbVars
    BY <1>t, <1>12 DEF Release, SaveThenLeave, Verify, fsVars, Commit
  <2>2. \A u \in Uploads : \/ Said(u)' = Said(u)
                           \/ u = tid[c] /\ Said(u)' = bits[c]
    BY <1>t, <1>s, <2>1, SaidUpdates
  <2> QED BY <1>w, <2>1, <2>2 DEF Saying
<1>13. CASE WriteChunk(c)
  <2>1. PICK k \in Chunks, b \in {"good", "bad"} :
          /\ data' = [data EXCEPT ![tid[c]][k] = b]
          /\ \/ UNCHANGED dbVars
             \/ row' = SaveBits(tid[c], bits[c] \cup {k})
    BY <1>13 DEF WriteChunk, Commit
  <2>2. tid[c] \in Uploads /\ pc[c] = "live"
    BY <1>t, <1>13 DEF WriteChunk
  <2>3. /\ \A u \in Uploads : Written(u) \subseteq Written(u)'
        /\ Written(tid[c]) \cup {k} \subseteq
             {j \in Chunks : data'[tid[c]][j] # "hole"}
    BY <1>t, <2>1, <2>2 DEF Written
  <2>4. PICK bs \in SUBSET Chunks : bs = bits[c] \cup {k}
    BY <1>t
  <2>5. \A u \in Uploads : \/ Said(u)' = Said(u)
                           \/ u = tid[c] /\ Said(u)' = bs
    <3>1. row' = SaveBits(tid[c], bs) \/ UNCHANGED dbVars
      BY <2>1, <2>4
    <3> QED BY <1>t, <1>s, <2>2, <3>1, SaidUpdates
  <2>6. bs \subseteq {j \in Chunks : data'[tid[c]][j] # "hole"}
    BY <2>2, <2>3, <2>4
  <2>7. ASSUME NEW u \in Uploads, u = tid[c], Said(u)' = bs
        PROVE  Said(u)' \subseteq Written(u)'
    BY <2>6, <2>7 DEF Written
  <2> QED BY <2>2, <2>3, <2>5, <2>7 DEF Saying
<1> QED BY <1>1, <1>2, <1>3, <1>4, <1>5, <1>6, <1>7, <1>8, <1>9,
     <1>10, <1>11, <1>12, <1>13
        DEF ConnStep, Request, Handle

(* A connection's step keeps bitmaps and bytes together.                   *)
LEMMA ConnData ==
  ASSUME TypeOK, TaskShape, HeldExact, Keeping, RowsWritten, BitsWritten,
         NEW c \in Conns, ConnStep(c)
  PROVE  RowsWritten' /\ BitsWritten'
<1>s. Saying(c)
  BY ConnSaying DEF BitsWritten
<1>k. KeptBy(c) /\ \A d \in Conns : KeptBy(d)
  BY DEF Keeping
<1>t. /\ pc \in [Conns -> Labels] /\ tid \in [Conns -> Uploads \cup {NoId}]
      /\ bits \in [Conns -> SUBSET Chunks]
      /\ \A d \in Conns : pc[d] \notin {"idle", "prepared"} => tid[d] \in Uploads
  BY DEF TypeOK, UpType, TaskShape, Shape
<1>b. /\ pc[c] \notin {"idle", "prepared"} => bits[c] \subseteq Written(tid[c])
      /\ pc[c] \in {"idle", "prepared"} \cup Young => bits[c] = {}
  BY DEF BitsWritten
<1>1. ASSUME NEW u \in Uploads PROVE Said(u)' \subseteq Written(u)'
  <2>1. Said(u) \subseteq Written(u)
    BY DEF RowsWritten
  <2>2. CASE pc[c] = "mkpart" /\ u = tid[c]
    <3>1. u \notin Rowed
      BY <1>k, <2>2 DEF KeptBy, Young
    <3>2. Said(u) = {}
      BY <3>1 DEF Said, Rowed
    <3> QED BY <1>s, <2>2, <3>2 DEF Saying
  <2>3. CASE ~(pc[c] = "mkpart" /\ u = tid[c])
    <3>1. Written(u) \subseteq Written(u)'
      BY <1>s, <2>3 DEF Saying
    <3> QED BY <1>s, <1>b, <2>1, <3>1 DEF Saying
  <2> QED BY <2>2, <2>3
<1>2. ASSUME NEW d \in Conns \ {c}
      PROVE  /\ pc'[d] \notin {"idle", "prepared"} =>
                  bits'[d] \subseteq Written(tid[d])'
             /\ pc'[d] \in {"idle", "prepared"} \cup Young => bits'[d] = {}
  <2>1. pc'[d] = pc[d] /\ tid'[d] = tid[d] /\ bits'[d] = bits[d]
    BY ConnLocal
  <2>2. /\ pc[d] \notin {"idle", "prepared"} => bits[d] \subseteq Written(tid[d])
        /\ pc[d] \in {"idle", "prepared"} \cup Young => bits[d] = {}
    BY DEF BitsWritten
  <2>3. pc[c] = "mkpart" => tid[d] # tid[c]
    BY <1>k DEF KeptBy, Young
  <2>4. PICK u : u = tid[d]
    OBVIOUS
  <2>5. u \in Uploads => Written(u) \subseteq Written(u)'
    BY <1>s, <2>3, <2>4 DEF Saying
  <2>6. Written(tid[d])' = Written(u)'
    BY <2>1, <2>4 DEF Written
  <2> QED BY <1>t, <2>1, <2>2, <2>4, <2>5, <2>6
<1>3. /\ pc'[c] \notin {"idle", "prepared"} => bits'[c] \subseteq Written(tid[c])'
      /\ pc'[c] \in {"idle", "prepared"} \cup Young => bits'[c] = {}
  <2> DEFINE Now == /\ pc'[c] \notin {"idle", "prepared"} =>
                         bits'[c] \subseteq Written(tid[c])'
                    /\ pc'[c] \in {"idle", "prepared"} \cup Young =>
                         bits'[c] = {}
  <2>l. Leave(c) => Now
    BY <1>t DEF Leave, Goto, Young
  <2>w. ASSUME tid'[c] = tid[c], tid[c] \in Uploads, pc[c] # "mkpart"
        PROVE  Written(tid[c]) \subseteq Written(tid[c])'
    <3>1. PICK u \in Uploads : u = tid[c]
      BY <2>w
    <3>2. Written(u) \subseteq Written(u)'
      BY <1>s, <2>w, <3>1 DEF Saying
    <3> QED BY <2>w, <3>1, <3>2 DEF Written
  <2>g. LetGo(c) /\ pc[c] \notin Young \cup {"idle", "prepared"} => Now
    <3>1. ASSUME LetGo(c), dirty[c], pc[c] \notin Young \cup {"idle", "prepared"}
          PROVE  Now
      <4>1. tid'[c] = tid[c] /\ bits'[c] = bits[c] /\ pc'[c] = "saving"
        BY <1>t, <3>1 DEF LetGo, Goto
      <4> QED BY <1>t, <1>b, <2>w, <3>1, <4>1 DEF Young
    <3> QED BY <2>l, <3>1 DEF LetGo
  <2>1. ASSUME bits[c] = {}, bits'[c] = {} PROVE Now
    BY <2>1
  <2>2. CASE \/ Prepare(c) \/ Claim(c) \/ ListOpen(c) \/ EvictSkip(c)
             \/ Evict(c) \/ EvictPart(c) \/ RoomMade(c) \/ MkPart(c)
             \/ MkRow(c)
    <3>1. CASE Leave(c)
      BY <2>l, <3>1
    <3>2. CASE ~Leave(c)
      <4>1. /\ pc[c] \in {"idle", "prepared"} \cup Young
            /\ bits'[c] = bits[c]
        BY <2>2, <3>2 DEF Prepare, Claim, ListOpen, EvictSkip, Evict,
             EvictPart, RoomMade, MkPart, MkRow, Young
      <4> QED BY <1>b, <2>1, <4>1
    <3> QED BY <3>1, <3>2
  <2>3. CASE Resume(c)
    <3>1. PICK u \in MyRows(Acct(c)) : /\ tid'[c] = u
                                      /\ bits'[c] = row[u].bits
                                      /\ pc'[c] = "rfind" /\ data' = data
      BY <1>t, <2>3 DEF Resume, Goto, fsVars
    <3>2. u \in Uploads /\ Said(u) = row[u].bits
      BY DEF MyRows, Said
    <3>3. row[u].bits \subseteq Written(u)
      BY <3>2 DEF RowsWritten
    <3> QED BY <3>1, <3>3 DEF Written, Young
  <2>4. ASSUME pc[c] \notin Young \cup {"idle", "prepared"},
               tid'[c] = tid[c], bits'[c] = bits[c],
               pc'[c] \notin Young \cup {"idle", "prepared"}
        PROVE  Now
    BY <1>t, <1>b, <2>w, <2>4 DEF Young
  <2>5. CASE \/ ResumeFind(c) \/ ResumePrepare(c) \/ ResumeClaim(c)
             \/ ResumeOpen(c) \/ Verify(c) \/ HashFile(c) \/ File(c)
             \/ Rename(c) \/ DropRow(c) \/ (ResumeRefused(c) /\ ~Leave(c))
    <3>1. /\ pc[c] \notin Young \cup {"idle", "prepared"}
          /\ pc'[c] \notin Young \cup {"idle", "prepared"}
          /\ tid'[c] = tid[c] /\ bits'[c] = bits[c]
      BY <1>t, <2>5 DEF ResumeFind, ResumePrepare, ResumeClaim, ResumeOpen,
         Verify, HashFile, File, FileAs, Rename, DropRow, ResumeRefused, Goto,
         Young
    <3> QED BY <2>4, <3>1
  <2>6. CASE WriteChunk(c)
    <3>1. PICK k \in Chunks, b \in {"good", "bad"} :
            /\ data' = [data EXCEPT ![tid[c]][k] = b]
            /\ bits'[c] = bits[c] \cup {k}
      BY <1>t, <2>6 DEF WriteChunk
    <3>2. /\ tid'[c] = tid[c] /\ tid[c] \in Uploads /\ pc[c] = "live"
          /\ pc'[c] \in {"verify", "live"}
      BY <1>t, <2>6 DEF WriteChunk, Goto
    <3>3. Written(tid[c]) \cup {k} \subseteq Written(tid[c])'
      BY <3>1, <3>2 DEF Written, TypeOK, FsType
    <3> QED BY <1>b, <3>1, <3>2, <3>3 DEF Young
  <2>7. CASE \/ ClaimRefused(c) \/ EvictFailed(c) \/ Release(c)
             \/ SaveThenLeave(c) \/ DropPart(c)
             \/ (ResumeRefused(c) /\ Leave(c))
    BY <2>l, <2>7
       DEF ClaimRefused, EvictFailed, Release, SaveThenLeave, DropPart
  <2>8. CASE Disconnect(c) \/ FileLater(c) \/ Undo(c) \/ Finished(c)
    BY <2>g, <2>8 DEF Disconnect, FileLater, Undo, Finished, Young
  <2>9. CASE OpenForRead(c) \/ EndDownload(c)
    <3>1. UNCHANGED <<pc, tid, bits, data>>
      BY <2>9 DEF OpenForRead, EndDownload, upVars, fsVars
    <3> QED BY <1>b, <3>1 DEF Written
  <2> QED BY <2>2, <2>3, <2>5, <2>6, <2>7, <2>8, <2>9
          DEF ConnStep, Request, Handle
<1> QED BY <1>1, <1>2, <1>3 DEF RowsWritten, BitsWritten

(* The other steps write no bytes, and no bits.                            *)
LEMMA OtherData ==
  ASSUME TypeOK, RowsWritten, BitsWritten,
         \/ DeleteEntry \/ Unlink \/ EditFolder \/ Age
         \/ SweeperStep \/ StartupStep \/ Crash
  PROVE  RowsWritten' /\ BitsWritten'
<1>1. data' = data
  BY DEF DeleteEntry, Unlink, EditFolder, Age, SweeperStep, SweepStart,
     SweepStale, SweepStalePart, SweepParts, SweepOrphanPart, SweepEnd,
     ListBlobs, HoldBlobs, FindOrphans, Quarantine, LeaveBlobs, Purge,
     StartupStep, Repair, RepairParts, RepairPart, StartupSweep, Place,
     RepairRename, Crash, fsVars
<1>2. \/ UNCHANGED upVars
      \/ \A c \in Conns : pc'[c] = "idle" /\ bits'[c] = {}
  BY DEF DeleteEntry, Unlink, EditFolder, Age, SweeperStep, SweepStart,
     SweepStale, SweepStalePart, SweepParts, SweepOrphanPart, SweepEnd,
     ListBlobs, HoldBlobs, FindOrphans, Quarantine, LeaveBlobs, Purge,
     StartupStep, Repair, RepairParts, RepairPart, StartupSweep, Crash,
     Restart
<1>3. \/ row' = row
      \/ \E u \in Uploads : row' = DeleteRow(u)
      \/ \E u \in Uploads :
           HasRow(u) /\ row' = [row EXCEPT ![u] = [@ EXCEPT !.old = TRUE]]
  <2>1. todo \in SUBSET Uploads
    BY DEF TypeOK, ServerType
  <2>2. CASE DeleteEntry \/ Unlink \/ EditFolder
    BY <2>2 DEF DeleteEntry, Deleted, Unlink, EditFolder, Commit, dbVars
  <2>3. CASE Age
    BY <2>3 DEF Age
  <2>4. CASE SweeperStep
    BY <2>1, <2>4 DEF SweeperStep, SweepStart, SweepStale, SweepStalePart,
       SweepParts, SweepOrphanPart, SweepEnd, ListBlobs, HoldBlobs,
       FindOrphans, Quarantine, LeaveBlobs, Purge, Commit, dbVars
  <2>5. CASE StartupStep \/ Crash
    BY <2>1, <2>5 DEF StartupStep, Repair, RepairParts, RepairPart,
       StartupSweep, Crash, Commit, dbVars
  <2> QED BY <2>2, <2>3, <2>4, <2>5
<1>4. \A u \in Uploads : Said(u)' \subseteq Said(u)
  BY <1>3, SaidUpdates DEF TypeOK
<1>5. RowsWritten'
  BY <1>1, <1>4 DEF RowsWritten, Written
<1>6. BitsWritten'
  BY <1>1, <1>2 DEF BitsWritten, Written, upVars, Young
<1> QED BY <1>5, <1>6

LEMMA DataHolds == Spec => []DataInv
<1>1. RecoveryInit => DataInv
  <2> SUFFICES ASSUME RecoveryInit PROVE RowsWritten /\ BitsWritten
    BY DEF DataInv
  <2>1. /\ \A u \in Uploads : Said(u) = {}
        /\ \A c \in Conns : pc[c] = "idle" /\ bits[c] = {}
    BY DEF RecoveryInit, Init, Said, HasRow
  <2> QED BY <2>1 DEF RowsWritten, BitsWritten, Young
<1>2. Ownership /\ Keeping /\ DataInv /\ [Next]_vars => DataInv'
  <2> SUFFICES ASSUME Ownership, Keeping, DataInv, [Next]_vars, losses' = 0
               PROVE  RowsWritten' /\ BitsWritten'
    BY DEF DataInv
  <2>1. losses = 0 /\ ~PowerLoss
    <3>2. \/ losses' = losses
          \/ PowerLoss
      BY DEF Next, vars, counts, ConnStep, DeleteEntry, AnEdit, Unlink,
         EditFolder, Age, SweeperStep, SweepStart, SweepStale, SweepStalePart,
         SweepParts, SweepOrphanPart, SweepEnd, ListBlobs, HoldBlobs,
         FindOrphans, Quarantine, LeaveBlobs, Purge, StartupStep, Repair,
         RepairParts, RepairPart, StartupSweep, Crash, PowerLoss
    <3>3. PowerLoss => losses' = losses + 1
      BY DEF PowerLoss
    <3>4. losses \in Nat
      BY DEF Ownership, TypeOK, ServerType
    <3> QED BY <3>2, <3>3, <3>4
  <2>2. RowsWritten /\ BitsWritten
    BY <2>1 DEF DataInv
  <2>3. CASE UNCHANGED vars
    BY <2>2, <2>3 DEF vars, upVars, dbVars, fsVars, RowsWritten, BitsWritten,
       Said, Written, HasRow
  <2> QED BY <2>1, <2>2, <2>3, ConnData, OtherData DEF Next, Ownership
<1> QED BY <1>1, <1>2, OwnershipHolds, KeepingHolds, PTL DEF Spec

(* A row never claims a chunk that the partial file does not hold, so a    *)
(* resume that trusts the bitmap asks for everything that is missing:      *)
(* write_chunk marks a chunk after it is written and saves the bitmap      *)
(* after that, whatever errors, crashes of the process and other           *)
(* connections come between.  (A power loss may take unsynced bytes.)      *)
THEOREM BitmapTellsTheTruth == Spec => [](losses = 0 => BitmapSound)
<1>1. DataInv => (losses = 0 => BitmapSound)
  BY DEF DataInv, RowsWritten, BitmapSound, Said, Written
<1> QED BY <1>1, DataHolds, PTL

---------------------------------------------------------------------------
(* What the tree lists, and where its bytes are.                           *)

(* No power loss, at most one error, and none when the process crashes.    *)
(* A second error may strike the undoing of a finish whose rename had      *)
(* failed, and an error the startup repair: both leave an entry without    *)
(* bytes, until the next start at the earliest.                            *)
Mild == losses = 0 /\ faults <= 1 /\ (faults = 0 \/ crashes = 0)

(* The uploads that have an entry somewhere.                               *)
Refd == {u \in Uploads : Referenced(u)}

(* An id that was not handed out has no files and no entry.                *)
Unborn == \A u \in Uploads \ used : u \notin parts \cup blobs \cup Refd

(* The bytes of an upload are in one place, and it has one entry.          *)
Apart == parts \cap blobs = {}

Single ==
  /\ \A m, n \in Names : entry[m] = entry[n] /\ entry[m] \in Uploads => m = n
  /\ \A n \in Names : entry[n] \notin away

(* Someone is about to move the partial file of u into place, or to        *)
(* withdraw the entry.                                                     *)
Mending(u) ==
  \/ \E c \in Conns : tid[c] = u /\ pc[c] \in {"rename", "undo"}
  \/ spc = "repair" /\ (u \in todo \/ u \notin Rowed)
  \/ spc = "repairParts" /\ u \in todo

(* What is listed is whole, and in place or being put there.               *)
Available ==
  \A u \in Refd :
    /\ Intact(u)
    /\ u \in removed \cup blobs \cup parts
    /\ u \in parts => Mending(u)

(* What the task of c relies on: a new upload is not listed yet; what is   *)
(* to be filed is whole; what was filed is listed until it is deleted; an  *)
(* undo follows an error.                                                  *)
Shelved(c) ==
  /\ pc[c] \in Young => tid[c] \notin blobs \cup Refd
  /\ pc[c] = "file" => Intact(tid[c])
  /\ pc[c] \in {"rename", "undo"} => tid[c] \in removed \cup Refd
  /\ pc[c] = "undo" => faults > 0 /\ tid[c] \in parts
  /\ pc[c] = "delrow" => tid[c] \in removed \cup (Refd \cap blobs)

(* What delete requests, the sweeper and the startup rely on.              *)
Tending ==
  /\ unlinking \subseteq removed
  /\ spc = "moving" => todo \cap Refd = {}
  /\ spc \in {"repair", "repairParts"} => crashes > 0
  /\ spc = "repairParts" => todo \subseteq used

Shelving ==
  /\ Unborn /\ Apart /\ Single /\ Available /\ Tending /\ AckedAvailable
  /\ \A c \in Conns : Shelved(c)

ShelfInv == Mild => Shelving

(* What the edits of the tree do to the set of what is listed.             *)
LEMMA TreeEdits ==
  ASSUME DbType, Single, NEW u \in Uploads, NEW n \in Names
  PROVE  /\ entry' = entry /\ away' = away => Single' /\ Refd' = Refd
         /\ /\ u \notin Refd /\ entry[n] = Free
            /\ entry' = [entry EXCEPT ![n] = u] /\ away' = away
            => Single' /\ Refd' = Refd \cup {u}
         /\ /\ entry' = [m \in Names |-> IF entry[m] = u THEN Free
                                         ELSE entry[m]]
            /\ away' = away \ {u}
            => Single' /\ Refd' = Refd \ {u}
         /\ /\ entry[n] = u
            /\ entry' = [entry EXCEPT ![n] = Free] /\ away' = away
            => Single' /\ Refd' = Refd \ {u}
         /\ u \in away /\ entry' = entry /\ away' = away \ {u}
            => Single' /\ Refd' = Refd \ {u}
         /\ /\ entry[n] = u
            /\ entry' = [entry EXCEPT ![n] = Free] /\ away' = away \cup {u}
            => Single' /\ Refd' = Refd
         /\ \A o \in {Free, Other} :
              /\ entry[n] \in {Free, Other}
              /\ entry' = [entry EXCEPT ![n] = o] /\ away' = away
              => Single' /\ Refd' = Refd
<1>1. /\ entry \in [Names -> Uploads \cup {Free, Other}]
      /\ away \in SUBSET Uploads
      /\ Free \notin Uploads /\ Other \notin Uploads
  BY MarksAreNoIds DEF DbType, EntryTable
<1>2. Refd = {v \in Uploads : v \in away \/ \E m \in Names : entry[m] = v}
  BY DEF Refd, Referenced, Filed
<1>3. Refd' = {v \in Uploads : v \in away' \/ \E m \in Names : entry'[m] = v}
  BY DEF Refd, Referenced, Filed
<1>4. entry' = entry /\ away' = away => Single' /\ Refd' = Refd
  BY <1>2, <1>3 DEF Single
<1>5. /\ u \notin Refd /\ entry[n] = Free
      /\ entry' = [entry EXCEPT ![n] = u] /\ away' = away
      => Single' /\ Refd' = Refd \cup {u}
  BY <1>1, <1>2, <1>3 DEF Single
<1>6. /\ entry' = [m \in Names |-> IF entry[m] = u THEN Free ELSE entry[m]]
      /\ away' = away \ {u}
      => Single' /\ Refd' = Refd \ {u}
  BY <1>1, <1>2, <1>3 DEF Single
<1>7. /\ entry[n] = u
      /\ entry' = [entry EXCEPT ![n] = Free] /\ away' = away
      => Single' /\ Refd' = Refd \ {u}
  BY <1>1, <1>2, <1>3 DEF Single
<1>8. u \in away /\ entry' = entry /\ away' = away \ {u}
      => Single' /\ Refd' = Refd \ {u}
  BY <1>1, <1>2, <1>3 DEF Single
<1>9. /\ entry[n] = u
      /\ entry' = [entry EXCEPT ![n] = Free] /\ away' = away \cup {u}
      => Single' /\ Refd' = Refd
  BY <1>1, <1>2, <1>3 DEF Single
<1>10. \A o \in {Free, Other} :
         /\ entry[n] \in {Free, Other}
         /\ entry' = [entry EXCEPT ![n] = o] /\ away' = away
         => Single' /\ Refd' = Refd
  BY <1>1, <1>2, <1>3 DEF Single
<1> QED BY <1>4, <1>5, <1>6, <1>7, <1>8, <1>9, <1>10

(* A step makes at most one error.                                         *)
LEMMA OneFault ==
  Next => faults' = faults \/ faults' = faults + 1
<1> DEFINE Counts == faults' = faults \/ faults' = faults + 1
<1>0. (NoFault => Counts) /\ (AFault => Counts)
  BY DEF NoFault, AFault
<1>1. ASSUME NEW c \in Conns, ConnStep(c) PROVE Counts
  <2>1. CASE Prepare(c) \/ Resume(c) \/ WriteChunk(c) \/ Release(c)
             \/ Disconnect(c) \/ OpenForRead(c) \/ EndDownload(c) \/ Claim(c)
    BY <1>0, <2>1 DEF Prepare, Resume, WriteChunk, Release, Disconnect,
       OpenForRead, EndDownload, Claim
  <2>2. CASE ClaimRefused(c) \/ ListOpen(c) \/ EvictSkip(c) \/ Evict(c)
             \/ EvictPart(c) \/ EvictFailed(c) \/ RoomMade(c) \/ MkPart(c)
    BY <1>0, <2>2 DEF ClaimRefused, ListOpen, EvictSkip, Evict, EvictPart,
       EvictFailed, RoomMade, MkPart
  <2>3. CASE MkRow(c) \/ ResumeFind(c) \/ ResumePrepare(c)
             \/ ResumeRefused(c) \/ ResumeClaim(c) \/ ResumeOpen(c)
             \/ SaveThenLeave(c) \/ Verify(c)
    BY <1>0, <2>3 DEF MkRow, ResumeFind, ResumePrepare, ResumeRefused,
       ResumeClaim, ResumeOpen, SaveThenLeave, Verify
  <2>4. CASE HashFile(c) \/ File(c) \/ FileLater(c) \/ Rename(c) \/ Undo(c)
             \/ Finished(c) \/ DropRow(c) \/ DropPart(c)
    BY <1>0, <2>4 DEF HashFile, File, FileLater, Rename, Undo, Finished,
       DropRow, DropPart
  <2> QED BY <1>1, <2>1, <2>2, <2>3, <2>4 DEF ConnStep, Request, Handle
<1>2. DeleteEntry \/ Unlink \/ EditFolder \/ Age => Counts
  BY DEF DeleteEntry, Unlink, EditFolder, Age
<1>3. SweeperStep => Counts
  BY <1>0 DEF SweeperStep, SweepStart, ListStale, SweepStale,
     SweepStalePart, SweepParts, SweepOrphanPart, SweepEnd, ListBlobs,
     HoldBlobs, FindOrphans, Quarantine, LeaveBlobs, Purge
<1>4. StartupStep => Counts
  BY <1>0 DEF StartupStep, Repair, RepairParts, RepairPart, StartupSweep,
     ListStale
<1>5. Crash \/ PowerLoss => Counts
  BY DEF Crash, PowerLoss, Restart
<1> QED BY <1>1, <1>2, <1>3, <1>4, <1>5 DEF Next

(* Errors, crashes and losses are never forgotten: a mild state was        *)
(* reached through mild ones.                                              *)
LEMMA MildBack ==
  ASSUME TypeOK, Next, Mild'
  PROVE  Mild /\ ~PowerLoss
<1>1. /\ faults \in Nat /\ losses \in Nat /\ crashes \in Nat
  BY DEF TypeOK, ServerType
<1>3. Crash => losses' = losses /\ crashes' = crashes + 1
  BY DEF Crash
<1>4. PowerLoss => losses' = losses + 1 /\ crashes' = crashes
  BY DEF PowerLoss
<1>5. ASSUME NEW c \in Conns, ConnStep(c)
      PROVE  losses' = losses /\ crashes' = crashes
  BY <1>5 DEF ConnStep, counts
<1>6. DeleteEntry \/ Unlink \/ EditFolder \/ Age
      => losses' = losses /\ crashes' = crashes
  BY DEF DeleteEntry, AnEdit, Unlink, EditFolder, Age, counts
<1>7. SweeperStep => losses' = losses /\ crashes' = crashes
  BY DEF SweeperStep, SweepStart, SweepStale, SweepStalePart, SweepParts,
     SweepOrphanPart, SweepEnd, ListBlobs, HoldBlobs, FindOrphans,
     Quarantine, LeaveBlobs, Purge, counts
<1>8. StartupStep => losses' = losses /\ crashes' = crashes
  BY DEF StartupStep, Repair, RepairParts, RepairPart, StartupSweep, counts
<1> QED BY <1>1, <1>3, <1>4, <1>5, <1>6, <1>7, <1>8, OneFault DEF Mild, Next

(* Where a task has something to do with what is listed.                   *)
Places == {"file", "rename", "undo", "delrow"} \cup Young

(* What a step of a connection does to files and entries: nothing; claim a *)
(* new id; create a partial file; delete partial files it holds; write to  *)
(* one; file the upload; move it into place; withdraw it; report it.       *)
Bides(c) ==
  /\ Refd' = Refd /\ UNCHANGED <<parts, blobs, data, acked, used>>
  /\ \/ pc'[c] = pc[c] /\ tid'[c] = tid[c]
     \/ pc[c] \notin {"rename", "undo"} /\ pc'[c] \notin Places
     \/ pc[c] \in Young /\ pc'[c] \in Young \ {"mkrow"} /\ tid'[c] = tid[c]
     \/ /\ pc[c] = "hash" /\ pc'[c] = "file" /\ tid'[c] = tid[c]
        /\ Intact(tid[c])
     \/ /\ pc[c] = "rename" /\ pc'[c] = "undo" /\ tid'[c] = tid[c]
        /\ faults' > 0
     \/ pc[c] = "undo" /\ faults' = faults + 1

Begins(c) ==
  /\ pc[c] = "prepared" /\ pc'[c] = "room"
  /\ tid'[c] \in Uploads \ used /\ used' = used \cup {tid'[c]}
  /\ Refd' = Refd /\ UNCHANGED <<parts, blobs, data, acked>>

Lays(c) ==
  /\ pc[c] = "mkpart" /\ pc'[c] = "mkrow" /\ tid'[c] = tid[c]
  /\ parts' = parts \cup {tid[c]}
  /\ \A u \in Uploads \ {tid[c]} : data'[u] = data[u]
  /\ Refd' = Refd /\ UNCHANGED <<blobs, acked, used>>

Clears(c) ==
  /\ pc[c] \in {"mkrow", "evictPart", "dropPart"}
  /\ \E us \in SUBSET Holds(c) : parts' = parts \ us
  /\ \/ pc'[c] = "idle"
     \/ pc[c] = "evictPart" /\ pc'[c] = "evict" /\ tid'[c] = tid[c]
  /\ Refd' = Refd /\ UNCHANGED <<blobs, data, acked, used>>

Writes(c) ==
  /\ pc[c] = "live" /\ pc'[c] \notin Places
  /\ \A u \in Uploads \ {tid[c]} : data'[u] = data[u]
  /\ Refd' = Refd /\ UNCHANGED <<parts, blobs, acked, used>>

Files(c) ==
  /\ pc[c] = "file" /\ pc'[c] = "rename" /\ tid'[c] = tid[c]
  /\ Refd' = Refd \cup {tid[c]}
  /\ UNCHANGED <<parts, blobs, data, acked, used>>

Lands(c) ==
  /\ pc[c] = "rename" /\ pc'[c] = "delrow" /\ tid'[c] = tid[c]
  /\ parts' = parts \ {tid[c]} /\ blobs' = blobs \cup {tid[c]}
  /\ Refd' = Refd /\ UNCHANGED <<data, acked, used>>

Withdraws(c) ==
  /\ pc[c] = "undo" /\ pc'[c] \notin Places
  /\ Refd' = Refd \ {tid[c]}
  /\ UNCHANGED <<parts, blobs, data, acked, used>>

Tells(c) ==
  /\ pc[c] = "delrow" /\ pc'[c] \notin Places
  /\ acked' = acked \cup {tid[c]}
  /\ Refd' = Refd /\ UNCHANGED <<parts, blobs, data, used>>

Moves(c) ==
  \/ Bides(c) \/ Begins(c) \/ Lays(c) \/ Clears(c) \/ Writes(c)
  \/ Files(c) \/ Lands(c) \/ Withdraws(c) \/ Tells(c)

LEMMA ConnMoves ==
  ASSUME NEW c \in Conns, TypeOK, TaskShape, HeldExact, KeptBy(c), Single,
         ConnStep(c),
         pc[c] = "file" => tid[c] \notin Refd
  PROVE  Moves(c) /\ Single' /\ removed' = removed
<1>t. /\ DbType /\ pc \in [Conns -> Labels] /\ hold \in [Conns -> SUBSET Uploads]
      /\ tid \in [Conns -> Uploads \cup {NoId}]
      /\ data \in [Uploads -> [Chunks -> Bytes]] /\ faults \in Nat
      /\ pc[c] \notin {"idle", "prepared"} => tid[c] \in Uploads
      /\ pc[c] # "idle" => name[c] \in Names
  BY DEF TypeOK, TaskShape, Shape, UpType, FsType, ServerType
<1>h. /\ pc[c] \in {"mkrow", "dropPart"} => tid[c] \in Holds(c)
      /\ hold[c] \subseteq Holds(c)
  BY ClaimHolds DEF Bare, Dropping, Holds
<1>e. entry' = entry /\ away' = away => Single' /\ Refd' = Refd
  BY DEF Single, Refd, Referenced, Filed
<1>d. UNCHANGED dbVars => Single' /\ Refd' = Refd
  BY <1>e DEF dbVars
<1>c. \A r : Commit(r, entry, away) => Single' /\ Refd' = Refd
  BY <1>e DEF Commit
<1>f. UNCHANGED fsVars => UNCHANGED <<parts, blobs, data>>
  BY DEF fsVars
<1>v. UNCHANGED envVars => UNCHANGED <<acked, used, removed>>
  BY DEF envVars
<1>l. Leave(c) => pc'[c] = "idle"
  BY <1>t DEF Leave, Goto
<1>g. LetGo(c) => pc'[c] \in {"idle", "saving"}
  BY <1>t, <1>l DEF LetGo, Goto
<1>p. /\ \A l : Goto(c, l) => pc'[c] = l
      /\ {"idle", "prepared", "saving", "live", "verify", "hash", "dropRow",
          "dropPart", "rfind", "rprep", "rrefused", "rclaim", "rfiled",
          "ropen"} \cap Places = {}
  BY <1>t DEF Goto, Places, Young
<1>1. CASE ClaimRefused(c)
  BY <1>1, <1>d, <1>c, <1>f, <1>v, <1>l, <1>g, <1>p
     DEF ClaimRefused, Moves, Bides, Young
<1>2. CASE ListOpen(c)
  BY <1>2, <1>d, <1>c, <1>f, <1>v, <1>l, <1>g, <1>p
     DEF ListOpen, Moves, Bides, Young
<1>3. CASE EvictSkip(c)
  BY <1>3, <1>d, <1>c, <1>f, <1>v, <1>l, <1>g, <1>p
     DEF EvictSkip, Moves, Bides, Young
<1>4. CASE Evict(c)
  BY <1>4, <1>d, <1>c, <1>f, <1>v, <1>l, <1>g, <1>p
     DEF Evict, Moves, Bides, Young
<1>5. CASE EvictFailed(c)
  BY <1>5, <1>d, <1>c, <1>f, <1>v, <1>l, <1>g, <1>p
     DEF EvictFailed, Moves, Bides, Young
<1>6. CASE RoomMade(c)
  BY <1>6, <1>d, <1>c, <1>f, <1>v, <1>l, <1>g, <1>p
     DEF RoomMade, Moves, Bides, Young
<1>7. CASE ResumeFind(c)
  BY <1>7, <1>d, <1>c, <1>f, <1>v, <1>l, <1>g, <1>p
     DEF ResumeFind, Moves, Bides, Young
<1>8. CASE ResumePrepare(c)
  BY <1>8, <1>d, <1>c, <1>f, <1>v, <1>l, <1>g, <1>p
     DEF ResumePrepare, Moves, Bides, Young
<1>9. CASE ResumeRefused(c)
  BY <1>9, <1>d, <1>c, <1>f, <1>v, <1>l, <1>g, <1>p
     DEF ResumeRefused, Moves, Bides, Young
<1>10. CASE ResumeClaim(c)
  BY <1>10, <1>d, <1>c, <1>f, <1>v, <1>l, <1>g, <1>p
     DEF ResumeClaim, Moves, Bides, Young
<1>11. CASE ResumeOpen(c)
  BY <1>11, <1>d, <1>c, <1>f, <1>v, <1>l, <1>g, <1>p
     DEF ResumeOpen, Moves, Bides, Young
<1>12. CASE SaveThenLeave(c)
  BY <1>12, <1>d, <1>c, <1>f, <1>v, <1>l, <1>g, <1>p
     DEF SaveThenLeave, Moves, Bides, Young
<1>13. CASE Verify(c)
  BY <1>13, <1>d, <1>c, <1>f, <1>v, <1>l, <1>g, <1>p
     DEF Verify, Moves, Bides, Young
<1>14. CASE HashFile(c)
  BY <1>14, <1>d, <1>c, <1>f, <1>v, <1>l, <1>g, <1>p
     DEF HashFile, Moves, Bides, Young
<1>15. CASE FileLater(c)
  BY <1>15, <1>d, <1>c, <1>f, <1>v, <1>l, <1>g, <1>p
     DEF FileLater, Moves, Bides, Young
<1>16. CASE DropRow(c)
  BY <1>16, <1>d, <1>c, <1>f, <1>v, <1>l, <1>g, <1>p
     DEF DropRow, Moves, Bides, Young
<1>17. CASE Prepare(c)
  BY <1>17, <1>d, <1>c, <1>f, <1>v, <1>l, <1>g, <1>p
     DEF Prepare, Moves, Bides, Young
<1>18. CASE Resume(c)
  BY <1>18, <1>d, <1>c, <1>f, <1>v, <1>l, <1>g, <1>p
     DEF Resume, Moves, Bides, Young
<1>19. CASE Release(c)
  BY <1>19, <1>d, <1>c, <1>f, <1>v, <1>l, <1>g, <1>p
     DEF Release, Moves, Bides, Young
<1>20. CASE Disconnect(c)
  BY <1>20, <1>d, <1>c, <1>f, <1>v, <1>l, <1>g, <1>p
     DEF Disconnect, Moves, Bides, Young
<1>21. CASE OpenForRead(c)
  BY <1>21, <1>t, <1>h, <1>d, <1>c, <1>f, <1>v, <1>l, <1>g, <1>p
     DEF OpenForRead, Moves, Bides, upVars
<1>22. CASE EndDownload(c)
  BY <1>22, <1>t, <1>h, <1>d, <1>c, <1>f, <1>v, <1>l, <1>g, <1>p
     DEF EndDownload, Moves, Bides, upVars
<1>23. CASE Claim(c)
  BY <1>23, <1>t, <1>h, <1>d, <1>c, <1>f, <1>v, <1>l, <1>g, <1>p
     DEF Claim, Moves, Begins
<1>24. CASE MkPart(c)
  BY <1>24, <1>t, <1>h, <1>d, <1>c, <1>f, <1>v, <1>l, <1>g, <1>p
     DEF MkPart, Moves, Lays, Bides, Dir, Young
<1>25. CASE EvictPart(c)
  BY <1>25, <1>t, <1>h, <1>d, <1>c, <1>f, <1>v, <1>l, <1>g, <1>p
     DEF EvictPart, Moves, Clears, Dir
<1>26. CASE DropPart(c)
  BY <1>26, <1>t, <1>h, <1>d, <1>c, <1>f, <1>v, <1>l, <1>g, <1>p
     DEF DropPart, Moves, Clears, Dir
<1>27. CASE WriteChunk(c)
  BY <1>27, <1>t, <1>h, <1>d, <1>c, <1>f, <1>v, <1>l, <1>g, <1>p
     DEF WriteChunk, Moves, Writes
<1>28. CASE Rename(c)
  BY <1>28, <1>t, <1>h, <1>d, <1>c, <1>f, <1>v, <1>l, <1>g, <1>p
     DEF Rename, Moves, Lands, Bides, Dir, KeptBy, AFault
<1>29. CASE Finished(c)
  BY <1>29, <1>t, <1>h, <1>d, <1>c, <1>f, <1>v, <1>l, <1>g, <1>p
     DEF Finished, Moves, Tells
<1>30. CASE MkRow(c)
  <2>1. /\ UNCHANGED <<acked, used, removed>> /\ pc[c] = "mkrow"
        /\ Single' /\ Refd' = Refd
    BY <1>30, <1>v, <1>d, <1>c DEF MkRow
  <2>2. \/ /\ UNCHANGED <<parts, blobs, data>>
           /\ pc'[c] \in {"verify", "live"}
        \/ /\ parts' = parts \ {tid[c]} /\ UNCHANGED <<blobs, data>>
           /\ pc'[c] = "idle"
    BY <1>30, <1>f, <1>l, <1>p DEF MkRow, Dir
  <2> QED BY <1>h, <1>p, <2>1, <2>2 DEF Moves, Bides, Clears
<1>31. CASE File(c)
  <2>1. /\ UNCHANGED <<parts, blobs, data, acked, used, removed>>
        /\ pc[c] = "file" /\ tid'[c] = tid[c] /\ tid[c] \in Uploads
        /\ name[c] \in Names
    BY <1>31, <1>t, <1>f, <1>v DEF File
  <2>2. CASE UNCHANGED dbVars /\ Goto(c, "dropRow")
    BY <1>d, <1>p, <2>1, <2>2 DEF Moves, Bides
  <2>3. CASE \E n \in Names : entry[n] = Free /\ FileAs(c, n)
    <3>1. PICK n \in Names : entry[n] = Free /\ FileAs(c, n)
      BY <2>3
    <3>2. PICK u \in Uploads : u = tid[c]
      BY <2>1
    <3>3. Single' /\ Refd' = Refd \cup {tid[c]}
      BY <1>t, <2>1, <3>1, <3>2, TreeEdits DEF FileAs, Commit
    <3> QED BY <1>p, <2>1, <3>1, <3>3 DEF FileAs, Moves, Files
  <2>4. CASE Filed(tid[c])
    BY <2>1, <2>4 DEF Refd, Referenced
  <2>5. FreeNames(name[c], Taken \cup live.names) # {} =>
          /\ FreeName(name[c], Taken \cup live.names) \in Names
          /\ entry[FreeName(name[c], Taken \cup live.names)] = Free
    BY <2>1, ClaimConstants, FreeNameIsFree DEF Taken, FreeNames, Names
  <2> QED BY <1>31, <2>1, <2>2, <2>3, <2>4, <2>5 DEF File
<1>32. CASE Undo(c)
  <2>1. /\ UNCHANGED <<parts, blobs, data, acked, used, removed>>
        /\ pc[c] = "undo" /\ pc'[c] \notin Places /\ tid[c] \in Uploads
    BY <1>32, <1>t, <1>f, <1>v, <1>g, <1>p DEF Undo
  <2>2. CASE AFault /\ UNCHANGED dbVars
    BY <1>d, <2>1, <2>2 DEF Moves, Bides, AFault
  <2>3. CASE \E r : Commit(r, [n \in Names |-> IF entry[n] = tid[c] THEN Free
                                               ELSE entry[n]], away \ {tid[c]})
    <3>1. PICK u \in Uploads : u = tid[c]
      BY <2>1
    <3>2. PICK n : n \in Names
      BY <1>t, <2>1
    <3>3. Single' /\ Refd' = Refd \ {tid[c]}
      BY <1>t, <2>3, <3>1, <3>2, TreeEdits DEF Commit
    <3> QED BY <2>1, <3>3 DEF Moves, Withdraws
  <2> QED BY <1>32, <2>2, <2>3 DEF Undo
<1> QED BY <1>1, <1>2, <1>3, <1>4, <1>5, <1>6, <1>7, <1>8, <1>9, <1>10,
     <1>11, <1>12, <1>13, <1>14, <1>15, <1>16, <1>17, <1>18, <1>19, <1>20,
     <1>21, <1>22, <1>23, <1>24, <1>25, <1>26, <1>27, <1>28, <1>29, <1>30,
     <1>31, <1>32
        DEF ConnStep, Request, Handle

(* What a task holds, nobody else is putting in place.                     *)
LEMMA NotMending ==
  ASSUME TypeOK, TaskShape, HeldExact, Quiet, NEW c \in Conns,
         NEW u \in Holds(c), pc[c] \notin {"rename", "undo"}
  PROVE  ~Mending(u)
<1>1. pc[c] # "idle"
  BY DEF TaskShape, Shape, Holds, Bare, Dropping
<1>2. spc \notin {"repair", "repairParts"}
  BY <1>1 DEF Quiet
<1>3. ASSUME NEW d \in Conns, tid[d] = u, pc[d] \in {"rename", "undo"}
      PROVE  FALSE
  <2>1. u \in Holds(d)
    BY <1>3, ClaimHolds DEF Bare, Dropping
  <2> QED BY <1>3, <2>1, ClaimHolds
<1> QED BY <1>2, <1>3 DEF Mending

(* An acknowledged upload is on the shelf, in other words.                 *)
LEMMA AckedInPlace ==
  ASSUME acked \subseteq Uploads
  PROVE  AckedAvailable <=> acked \ removed \subseteq Refd \cap blobs
  BY DEF AckedAvailable, Refd

(* A task leaves what others rely on alone, and sees to what it relies on. *)
LEMMA ConnShelved ==
  ASSUME TypeOK, TaskShape, HeldExact, Keeping, Shelving, Mild,
         Mild', NEW c \in Conns, ConnStep(c), Moves(c), removed' = removed
  PROVE  \A d \in Conns : Shelved(d)'
<1>t. /\ pc[c] \notin {"idle", "prepared"} => tid[c] \in Uploads \cap used
      /\ faults \in Nat
  BY ClaimHolds DEF Keeping, Unused, TypeOK, ServerType
<1>h. /\ pc[c] \notin Bare \cup Dropping => tid[c] \in Holds(c)
      /\ pc[c] = "dropPart" => tid[c] \in Holds(c)
  BY ClaimHolds DEF Dropping
<1>k. KeptBy(c) /\ Shelved(c)
  BY DEF Keeping, Shelving
<1>f. faults' = faults \/ faults' = faults + 1
  BY OneFault DEF Next
<1>1. ASSUME NEW d \in Conns \ {c}
      PROVE  Shelved(d)'
  <2>1. pc'[d] = pc[d] /\ tid'[d] = tid[d]
    BY ConnLocal
  <2>2. Shelved(d)
    BY DEF Shelving
  <2>3. pc[d] \in Places => /\ tid[d] \in Uploads \cap used
                            /\ tid[d] \notin Holds(c)
    BY ClaimHolds DEF Keeping, Unused, Places, Young, Bare, Dropping
  <2>4. pc[d] \in Places /\ pc[c] \notin Bare \cup Dropping
          => tid[d] # tid[c]
    BY <1>h, <2>3
  <2>5. pc[d] \in Places => (Intact(tid[d]) => Intact(tid[d])')
    <3>1. pc[d] \in Places => data'[tid[d]] = data[tid[d]]
      BY <2>3, <2>4 DEF Moves, Bides, Begins, Lays, Clears, Writes, Files,
         Lands, Withdraws, Tells, Bare, Dropping
    <3> QED BY <2>1, <3>1 DEF Intact
  <2>6. pc[d] \in Places =>
          /\ tid[d] \in Refd' <=> tid[d] \in Refd
          /\ tid[d] \in parts' <=> tid[d] \in parts
          /\ tid[d] \in blobs' <=> tid[d] \in blobs
    BY <2>3, <2>4 DEF Moves, Bides, Begins, Lays, Clears, Writes, Files,
       Lands, Withdraws, Tells, Bare, Dropping
  <2>7. faults > 0 => faults' > 0
    BY <1>t, <1>f
  <2> QED BY <2>1, <2>2, <2>5, <2>6, <2>7 DEF Shelved, Places
<1>2. Shelved(c)'
  <2>1. CASE pc'[c] \notin Places
    BY <2>1 DEF Shelved, Places
  <2>2. CASE pc'[c] \in Places
    <3>1. CASE Bides(c)
      <4>1. CASE pc'[c] = pc[c] /\ tid'[c] = tid[c]
        BY <1>t, <1>f, <1>k, <3>1, <4>1 DEF Bides, Shelved, Intact
      <4>2. CASE pc[c] \in Young /\ pc'[c] \in Young /\ tid'[c] = tid[c]
        BY <1>k, <3>1, <4>2 DEF Bides, Shelved, Young
      <4>3. CASE /\ pc[c] = "hash" /\ pc'[c] = "file" /\ tid'[c] = tid[c]
                 /\ Intact(tid[c])
        BY <3>1, <4>3 DEF Bides, Shelved, Intact, Young
      <4>4. CASE /\ pc[c] = "rename" /\ pc'[c] = "undo" /\ tid'[c] = tid[c]
                 /\ faults' > 0
        BY <1>k, <3>1, <4>4 DEF Bides, Shelved, KeptBy, Young
      <4>5. CASE pc[c] = "undo" /\ faults' = faults + 1
        BY <1>t, <1>k, <4>5 DEF Shelved, Mild
      <4> QED BY <2>2, <3>1, <4>1, <4>2, <4>3, <4>4, <4>5 DEF Bides
    <3>2. CASE Begins(c)
      BY <3>2 DEF Begins, Shelved, Shelving, Unborn, Young
    <3>3. CASE Lays(c)
      BY <1>k, <3>3 DEF Lays, Shelved, Young
    <3>4. CASE Clears(c)
      BY <1>k, <2>2, <3>4 DEF Clears, Shelved, Young, Places
    <3>5. CASE Files(c)
      BY <3>5 DEF Files, Shelved, Young
    <3>6. CASE Lands(c)
      BY <1>k, <3>6 DEF Lands, Shelved, Young
    <3> QED BY <2>2, <3>1, <3>2, <3>3, <3>4, <3>5, <3>6
            DEF Moves, Writes, Withdraws, Tells
  <2> QED BY <2>1, <2>2
<1> QED BY <1>1, <1>2

(* A connection's step preserves what is known of the shelf.               *)
LEMMA ConnShelving ==
  ASSUME TypeOK, TaskShape, SweepShape, HeldExact, Keeping, Shelving, Mild,
         Mild', NEW c \in Conns, ConnStep(c)
  PROVE  Moves(c) /\ Shelving' /\ removed' = removed
<1>t. /\ pc[c] \notin {"idle", "prepared"} => tid[c] \in Uploads \cap used
      /\ acked \subseteq Uploads /\ faults \in Nat
  BY ClaimHolds DEF Keeping, Unused, TypeOK, ServerType
<1>h. /\ pc[c] \notin Bare \cup Dropping => tid[c] \in Holds(c)
      /\ Holds(c) \cap shold = {}
  BY ClaimHolds
<1>k. KeptBy(c) /\ Shelved(c) /\ Quiet
  BY DEF Keeping, Shelving
<1>s. UNCHANGED <<spc, todo, shold, unlinking, crashes>>
  BY DEF ConnStep, sweepVars, counts
<1>n. /\ pc[c] \in {"mkpart", "live", "file"} => tid[c] \notin Refd
      /\ \A u \in Holds(c) \cap Refd :
           pc[c] \notin {"rename", "undo"} => u \notin parts
  <2>1. ASSUME NEW u \in Holds(c) \cap Refd, pc[c] \notin {"rename", "undo"}
        PROVE  u \notin parts
    BY <1>k, <2>1, NotMending DEF Shelving, Available
  <2>2. pc[c] \in {"live", "file"} => tid[c] \notin Refd
    BY <1>h, <1>k, <2>1 DEF KeptBy, Bare, Dropping
  <2> QED BY <1>k, <2>1, <2>2 DEF Shelved, Young
<1>m. Moves(c) /\ Single' /\ removed' = removed
  BY <1>k, <1>n, ConnMoves DEF Shelving
<1>f. ~(pc[c] = "undo" /\ faults' = faults + 1)
  BY <1>t, <1>k DEF Shelved, Mild
<1>u. used \subseteq used'
  BY <1>m DEF Moves, Bides, Begins, Lays, Clears, Writes, Files, Lands,
     Withdraws, Tells
<1>1. Unborn'
  <2> SUFFICES ASSUME NEW u \in Uploads \ used'
               PROVE  u \notin parts' \cup blobs' \cup Refd'
    BY DEF Unborn
  <2>1. u \notin used /\ u \notin parts \cup blobs \cup Refd
    BY <1>u DEF Shelving, Unborn
  <2> QED BY <1>t, <1>m, <2>1 DEF Moves, Bides, Begins, Lays, Clears, Writes,
             Files, Lands, Withdraws, Tells
<1>2. Apart'
  BY <1>k, <1>m DEF Shelving, Apart, Moves, Bides, Begins, Lays, Clears,
     Writes, Files, Lands, Withdraws, Tells, Shelved, Young
<1>3. Available'
  <2> SUFFICES ASSUME NEW u \in Refd'
               PROVE  /\ Intact(u)' /\ u \in removed' \cup blobs' \cup parts'
                      /\ u \in parts' => Mending(u)'
    BY DEF Available
  <2>1. CASE u \in Refd
    <3>1. /\ Intact(u) /\ u \in removed \cup blobs \cup parts
          /\ u \in parts => Mending(u)
      BY <2>1 DEF Shelving, Available
    <3>2. data'[u] = data[u] /\ u \in Uploads
      BY <1>m, <1>n, <2>1 DEF Moves, Bides, Begins, Lays, Clears, Writes,
         Files, Lands, Withdraws, Tells, Refd
    <3>3. Intact(u)'
      BY <3>1, <3>2 DEF Intact
    <3>4. u \in removed \cup blobs' \cup parts'
      BY <1>m, <1>n, <2>1, <3>1 DEF Moves, Bides, Begins, Lays, Clears,
         Writes, Files, Lands, Withdraws, Tells
    <3>5. ASSUME u \in parts' PROVE Mending(u)'
      <4>1. u \in parts
        BY <1>m, <1>n, <2>1, <3>5 DEF Moves, Bides, Begins, Lays, Clears,
           Writes, Files, Lands, Withdraws, Tells
      <4>2. CASE \E d \in Conns \ {c} : tid[d] = u /\ pc[d] \in {"rename", "undo"}
        BY <4>2, ConnLocal DEF Mending
      <4>3. CASE tid[c] = u /\ pc[c] \in {"rename", "undo"}
        <5>1. tid'[c] = u /\ pc'[c] \in {"rename", "undo"}
          BY <1>m, <1>f, <3>5, <4>3 DEF Moves, Bides, Begins, Lays, Clears,
             Writes, Files, Lands, Withdraws, Tells, Young
        <5> QED BY <5>1 DEF Mending
      <4>4. CASE spc = "repair" /\ (u \in todo \/ u \notin Rowed)
        <5>1. pc[c] = "idle"
          BY <1>k, <4>4 DEF Quiet
        <5>2. Rowed' = Rowed
          BY <5>1, ConnEffect DEF Effect
        <5> QED BY <1>s, <4>4, <5>2 DEF Mending
      <4>5. CASE spc = "repairParts" /\ u \in todo
        BY <1>s, <4>5 DEF Mending
      <4> QED BY <3>1, <4>1, <4>2, <4>3, <4>4, <4>5 DEF Mending
    <3> QED BY <1>m, <3>3, <3>4, <3>5
  <2>2. CASE u \notin Refd
    <3>1. /\ Files(c) /\ u = tid[c]
      BY <1>m, <2>2 DEF Moves, Bides, Begins, Lays, Clears, Writes, Files,
         Lands, Withdraws, Tells
    <3>2. Intact(u)'
      BY <1>k, <3>1 DEF Files, Shelved, Intact
    <3>3. u \in parts /\ parts' = parts
      BY <1>k, <3>1 DEF Files, KeptBy
    <3>4. Mending(u)'
      BY <3>1 DEF Files, Mending
    <3> QED BY <3>2, <3>3, <3>4
  <2> QED BY <2>1, <2>2
<1>4. Tending'
  <2>1. spc = "moving" => todo \cap Refd' = {}
    BY <1>h, <1>m DEF Shelving, Tending, SweepShape, Moves, Bides, Begins,
       Lays, Clears, Writes, Files, Lands, Withdraws, Tells, Bare, Dropping
  <2> QED BY <1>m, <1>s, <1>u, <2>1 DEF Shelving, Tending
<1>5. AckedAvailable'
  <2>1. acked \ removed \subseteq Refd \cap blobs
    BY <1>t, AckedInPlace DEF Shelving
  <2>2. acked' \subseteq Uploads /\ acked' \ removed \subseteq Refd' \cap blobs'
    BY <1>t, <1>k, <1>m, <2>1 DEF Moves, Bides, Begins, Lays, Clears, Writes,
       Files, Lands, Withdraws, Tells, Shelved, Shelving, Apart
  <2> QED BY <1>m, <2>2 DEF AckedAvailable, Refd
<1>6. \A d \in Conns : Shelved(d)'
  BY <1>m, ConnShelved
<1> QED BY <1>1, <1>2, <1>3, <1>4, <1>5, <1>6, <1>m DEF Shelving

(* A step that only takes away, and nothing that is listed and has not     *)
(* been deleted, preserves it too.                                         *)
LEMMA TakesShelving ==
  ASSUME TypeOK, Shelving, Single', Tending',
         UNCHANGED <<pc, tid, data, acked, used>>,
         removed \subseteq removed', faults > 0 => faults' > 0,
         Refd' \subseteq Refd, Refd \ Refd' \subseteq removed',
         blobs' \subseteq blobs, (blobs \ blobs') \cap Refd \subseteq removed',
         parts' \subseteq parts, (parts \ parts') \cap Refd = {},
         \A c \in Conns : pc[c] = "undo" => tid[c] \notin parts \ parts',
         \A u \in Refd' \cap parts' : Mending(u) => Mending(u)'
  PROVE  Shelving'
<1>t. acked \subseteq Uploads /\ acked' \subseteq Uploads
  BY DEF TypeOK, ServerType
<1>1. Unborn' /\ Apart'
  BY DEF Shelving, Unborn, Apart
<1>2. Available'
  <2>1. \A u \in Refd' : Intact(u)'
    BY DEF Shelving, Available, Intact
  <2> QED BY <2>1 DEF Shelving, Available
<1>3. AckedAvailable'
  BY <1>t, AckedInPlace DEF Shelving, AckedAvailable, Refd
<1>4. ASSUME NEW c \in Conns PROVE Shelved(c)'
  <2>1. Shelved(c)
    BY DEF Shelving
  <2> QED BY <2>1 DEF Shelved, Intact
<1> QED BY <1>1, <1>2, <1>3, <1>4 DEF Shelving

(* What a user deletes is gone from the listing, and only that.            *)
LEMMA UserDeletes ==
  ASSUME TypeOK, Single, DeleteEntry
  PROVE  /\ UNCHANGED blobs
         /\ \E u \in Uploads :
              /\ Single' /\ Refd' = Refd \ {u}
              /\ removed' = removed \cup {u}
              /\ unlinking' = unlinking \cup {u}
<1>t. DbType
  BY DEF TypeOK
<1>1. CASE \E n \in Names : /\ entry[n] \in Uploads
                            /\ Deleted(entry[n], [entry EXCEPT ![n] = Free],
                                       away)
  <2>1. PICK n \in Names : /\ entry[n] \in Uploads
                           /\ Deleted(entry[n], [entry EXCEPT ![n] = Free],
                                      away)
    BY <1>1
  <2>2. PICK u \in Uploads : entry[n] = u
    BY <2>1
  <2>3. Single' /\ Refd' = Refd \ {u}
    BY <1>t, <2>1, <2>2, TreeEdits DEF Deleted, Commit
  <2> QED BY <2>1, <2>2, <2>3 DEF DeleteEntry, Deleted, fsVars
<1>2. CASE \E u \in away : Deleted(u, entry, away \ {u})
  <2>1. PICK u \in away : Deleted(u, entry, away \ {u})
    BY <1>2
  <2>2. u \in Uploads
    BY <1>t DEF DbType
  <2>3. /\ entry' = entry /\ away' = away \ {u}
        /\ \A n \in Names : entry[n] # u
    BY <2>1 DEF Deleted, Commit, Single
  <2>4. Single' /\ Refd' = Refd \ {u}
    BY <2>3 DEF Single, Refd, Referenced, Filed
  <2> QED BY <2>1, <2>2, <2>4 DEF DeleteEntry, Deleted, fsVars
<1> QED BY <1>1, <1>2 DEF DeleteEntry

(* Nothing else that users do, and no time that passes, changes what is    *)
(* listed.                                                                 *)
LEMMA UserEdits ==
  ASSUME TypeOK, Single, Unlink \/ EditFolder \/ Age
  PROVE  Single' /\ Refd' = Refd /\ removed' = removed
<1>t. DbType
  BY DEF TypeOK
<1>1. removed' = removed
  BY DEF Unlink, EditFolder, Age, envVars
<1>2. CASE entry' = entry /\ away' = away
  BY <1>1, <1>2 DEF Single, Refd, Referenced, Filed
<1>3. CASE EditFolder
  <2>1. PICK n \in Names :
          \/ /\ entry[n] \in Uploads
             /\ Commit(row, [entry EXCEPT ![n] = Free], away \cup {entry[n]})
          \/ /\ entry[n] \in {Free, Other}
             /\ \E o \in {Free, Other} :
                  Commit(row, [entry EXCEPT ![n] = o], away)
    BY <1>3 DEF EditFolder
  <2>2. CASE entry[n] \in Uploads
    <3>1. PICK u \in Uploads : entry[n] = u
      BY <2>2
    <3> QED BY <1>t, <1>1, <2>1, <3>1, TreeEdits, MarksAreNoIds DEF Commit
  <2>3. CASE entry[n] \notin Uploads
    <3>1. PICK o \in {Free, Other} :
            /\ entry[n] \in {Free, Other}
            /\ entry' = [entry EXCEPT ![n] = o] /\ away' = away
      BY <2>1, <2>3 DEF Commit
    <3>2. ASSUME NEW u \in Uploads PROVE Single' /\ Refd' = Refd
      BY <1>t, <3>1, TreeEdits
    <3>3. Uploads = {} => Single' /\ Refd' = Refd
      BY <1>t, <3>1 DEF Refd, Single, DbType, EntryTable
    <3> QED BY <1>1, <3>2, <3>3
  <2> QED BY <2>2, <2>3
<1> QED BY <1>2, <1>3 DEF Unlink, Age, dbVars

(* Users and time: what a user deletes, the user deletes.                  *)
LEMMA WorldShelving ==
  ASSUME TypeOK, Shelving, DeleteEntry \/ Unlink \/ EditFolder \/ Age
  PROVE  Shelving'
<1>0. /\ UNCHANGED <<pc, tid, data, acked, used, faults, parts, spc, todo>>
      /\ crashes' = crashes
  BY DEF DeleteEntry, AnEdit, Unlink, EditFolder, Age, upVars, envVars,
     fsVars, sweepVars, counts, Dir
<1>1. Rowed' = Rowed
  <2>1. CASE Age
    <3>1. PICK u \in Uploads :
            \/ row' = row
            \/ HasRow(u) /\ row' = [row EXCEPT ![u] = [@ EXCEPT !.old = TRUE]]
      BY <2>1 DEF Age
    <3> QED BY <3>1, RowedUpdates DEF TypeOK
  <2>2. CASE DeleteEntry \/ Unlink \/ EditFolder
    <3>1. row' = row
      BY <2>2 DEF DeleteEntry, Deleted, Unlink, EditFolder, Commit, dbVars
    <3> QED BY <3>1 DEF Rowed, HasRow
  <2> QED BY <2>1, <2>2
<1>2. \A u : Mending(u) => Mending(u)'
  BY <1>0, <1>1 DEF Mending
<1>3. CASE DeleteEntry
  <2>1. /\ UNCHANGED blobs
        /\ \E u \in Uploads :
             /\ Single' /\ Refd' = Refd \ {u}
             /\ removed' = removed \cup {u}
             /\ unlinking' = unlinking \cup {u}
    BY <1>3, UserDeletes DEF Shelving
  <2>2. Tending'
    BY <1>0, <2>1 DEF Tending, Shelving
  <2> QED BY <1>0, <1>2, <2>1, <2>2, TakesShelving
<1>4. CASE Unlink \/ EditFolder \/ Age
  <2>1. /\ blobs' \subseteq blobs /\ blobs \ blobs' \subseteq unlinking
        /\ unlinking' \subseteq unlinking
    BY <1>4 DEF Unlink, EditFolder, Age, Dir, fsVars
  <2>2. Single' /\ Refd' = Refd /\ removed' = removed
    BY <1>4, UserEdits DEF Shelving
  <2>3. Tending'
    BY <1>0, <2>1, <2>2 DEF Tending, Shelving
  <2>4. blobs \ blobs' \subseteq removed
    BY <2>1 DEF Tending, Shelving
  <2> QED BY <1>0, <1>2, <2>1, <2>2, <2>3, <2>4, TakesShelving
<1> QED BY <1>3, <1>4

(* The sweeper quarantines blobs without an entry, and lists nothing.      *)
LEMMA SweeperQuarantines ==
  ASSUME TypeOK, Shelving, SweeperStep
  PROVE  /\ UNCHANGED <<pc, tid, data, acked, used, removed, unlinking>>
         /\ spc \notin {"repair", "repairParts"}
         /\ spc' \notin {"repair", "repairParts"}
         /\ Single' /\ Refd' = Refd
         /\ blobs' \subseteq blobs /\ (blobs \ blobs') \cap Refd = {}
         /\ spc' = "moving" => todo' \cap Refd = {}
<1>0. /\ UNCHANGED <<pc, tid, data, acked, used, removed, unlinking>>
      /\ UNCHANGED <<entry, away>>
      /\ spc \notin {"repair", "repairParts"}
      /\ spc' \notin {"repair", "repairParts"}
  BY DEF SweeperStep, SweepStart, ListStale, SweepStale, SweepStalePart,
     SweepParts, SweepOrphanPart, SweepEnd, ListBlobs, HoldBlobs, FindOrphans,
     Quarantine, LeaveBlobs, Purge, Stage, upVars, envVars, fsVars, dbVars,
     Commit
<1>1. Single' /\ Refd' = Refd
  BY <1>0 DEF Shelving, Single, Refd, Referenced, Filed
<1>2. /\ blobs' \subseteq blobs /\ (blobs \ blobs') \cap Refd = {}
      /\ spc' = "moving" => todo' \cap Refd = {}
  <2>1. CASE Quarantine
    <3>1. \E u \in todo : /\ blobs' = blobs \/ blobs' = blobs \ {u}
                          /\ todo' = todo \ {u}
      BY <2>1 DEF Quarantine, Dir, Stage
    <3> QED BY <2>1, <3>1 DEF Quarantine, Shelving, Tending
  <2>2. CASE FindOrphans
    BY <2>2 DEF FindOrphans, Stage, Refd, fsVars
  <2>3. CASE ~Quarantine /\ ~FindOrphans
    <3>1. blobs' = blobs
      BY <2>3 DEF SweeperStep, SweepStart, SweepStale, SweepStalePart,
         SweepParts, SweepOrphanPart, SweepEnd, ListBlobs, HoldBlobs,
         LeaveBlobs, Purge, fsVars, Dir
    <3>2. spc' # "moving"
      BY <2>3 DEF SweeperStep, SweepStart, ListStale, SweepStale,
         SweepStalePart, SweepParts, SweepOrphanPart, SweepEnd, ListBlobs,
         HoldBlobs, LeaveBlobs, Purge, Stage
    <3> QED BY <3>1, <3>2
  <2> QED BY <2>1, <2>2, <2>3
<1> QED BY <1>0, <1>1, <1>2

(* The sweeper takes only what nobody holds and nobody is putting in       *)
(* place, and only blobs without an entry.                                 *)
LEMMA SweeperShelving ==
  ASSUME TypeOK, TaskShape, SweepShape, HeldExact, Shelving, SweeperStep
  PROVE  Shelving'
<1>0. /\ UNCHANGED <<pc, tid, data, acked, used, removed, unlinking>>
      /\ spc \notin {"repair", "repairParts"}
      /\ spc' \notin {"repair", "repairParts"}
      /\ Single' /\ Refd' = Refd
      /\ blobs' \subseteq blobs /\ (blobs \ blobs') \cap Refd = {}
      /\ spc' = "moving" => todo' \cap Refd = {}
  BY SweeperQuarantines
<1>2. \A u : Mending(u) => Mending(u)'
  BY <1>0 DEF Mending
<1>3. faults > 0 => faults' > 0
  BY OneFault DEF Next, TypeOK, ServerType
<1>4. ASSUME NEW u \in parts, u \in shold \/ u \notin live.held
      PROVE  u \notin Refd /\ \A c \in Conns : pc[c] = "undo" => tid[c] # u
  <2>1. ASSUME NEW c \in Conns, pc[c] \in {"rename", "undo"}
        PROVE  tid[c] # u
    BY <1>4, <2>1, ClaimHolds DEF Bare, Dropping
  <2>2. ~Mending(u)
    BY <1>0, <2>1 DEF Mending
  <2> QED BY <2>1, <2>2 DEF Shelving, Available
<1>6. /\ parts' \subseteq parts
      /\ \A u \in parts \ parts' : u \in shold \/ u \notin live.held
  BY DEF SweeperStep, SweepStart, SweepStale, SweepStalePart, SweepParts,
     SweepOrphanPart, SweepEnd, ListBlobs, HoldBlobs, FindOrphans, Quarantine,
     LeaveBlobs, Purge, fsVars, Dir
<1>7. Tending'
  BY <1>0 DEF Shelving, Tending
<1>8. /\ (parts \ parts') \cap Refd = {}
      /\ \A c \in Conns : pc[c] = "undo" => tid[c] \notin parts \ parts'
  BY <1>4, <1>6
<1> QED BY <1>0, <1>2, <1>3, <1>6, <1>7, <1>8, TakesShelving

(* The startup repair mends what crashes left: nobody is served, and no    *)
(* error occurs.                                                           *)
LEMMA StartupShelving ==
  ASSUME TypeOK, Keeping, Shelving, Mild, Mild', StartupStep
  PROVE  Shelving'
<1>0. /\ UNCHANGED <<pc, tid, data, acked, used, removed, unlinking>>
      /\ UNCHANGED <<entry, away>> /\ crashes' = crashes
      /\ spc \in {"repair", "repairParts"}
  BY DEF StartupStep, Repair, RepairParts, RepairPart, StartupSweep, Place,
     RepairRename, upVars, envVars, fsVars, dbVars, counts, Commit
<1>1. Single' /\ Refd' = Refd
  BY <1>0 DEF Shelving, Single, Refd, Referenced, Filed
<1>2. ~AFault
  <2>1. faults \in Nat /\ crashes \in Nat /\ crashes > 0
    BY <1>0 DEF TypeOK, ServerType, Shelving, Tending
  <2> QED BY <1>0, <2>1 DEF Mild, AFault
<1>3. \A c \in Conns : pc[c] = "idle" /\ pc'[c] = "idle"
  BY <1>0 DEF Keeping, Quiet
<1>4. \A c \in Conns : Shelved(c)'
  BY <1>3 DEF Shelved, Young
<1>t. /\ parts \subseteq Uploads /\ blobs \subseteq Uploads
      /\ todo \subseteq Uploads /\ acked \subseteq Uploads /\ DbType
  BY DEF TypeOK, FsType, ServerType
<1>a. acked \ removed \subseteq Refd \cap blobs
  BY <1>t, AckedInPlace DEF Shelving
<1>m. \A u \in Refd : u \in parts =>
        \/ spc = "repair" /\ (u \in todo \/ u \notin Rowed)
        \/ spc = "repairParts" /\ u \in todo
  BY <1>3 DEF Shelving, Available, Mending
<1> DEFINE Rest == /\ Unborn' /\ Apart' /\ Tending'
                   /\ acked' \ removed' \subseteq Refd' \cap blobs'
                   /\ \A u \in Refd' :
                        /\ u \in removed' \cup blobs' \cup parts'
                        /\ u \in parts' => Mending(u)'
<1>5. ASSUME Repair PROVE Rest
  <2>1. PICK u \in todo :
          \/ /\ u \in Refd /\ u \in blobs /\ spc = "repair"
             /\ row' = DeleteRow(u) /\ spc' = "repair" /\ todo' = todo \ {u}
             /\ UNCHANGED <<parts, blobs>>
          \/ /\ u \in Refd /\ u \in parts \ blobs /\ spc = "repair"
             /\ parts' = parts \ {u} /\ blobs' = blobs \cup {u}
             /\ row' = row /\ spc' = "repair" /\ todo' = todo
          \/ /\ u \notin Refd /\ u \in blobs \ parts /\ spc = "repair"
             /\ parts' = parts \cup {u} /\ blobs' = blobs \ {u}
             /\ row' = row /\ spc' = "repair" /\ todo' = todo \ {u}
          \/ /\ u \notin parts \/ u \notin Refd
             /\ spc = "repair" /\ UNCHANGED <<parts, blobs, row>>
             /\ spc' = "repair" /\ todo' = todo \ {u}
    BY <1>5, <1>2, <1>t DEF Repair, Place, RepairRename, Stage, Commit,
       dbVars, fsVars, Refd
  <2>2. u \in Uploads
    BY <1>t
  <2>3. Rowed' \subseteq Rowed
    <3>1. row' = row \/ row' = DeleteRow(u)
      BY <2>1
    <3> QED BY <1>t, <2>2, <3>1, RowedUpdates DEF Rowed, HasRow
  <2>4. \A v : Mending(v)' <=> v \in todo' \/ v \notin Rowed'
    BY <1>3, <2>1 DEF Mending
  <2>5. Unborn' /\ Apart' /\ Tending'
    BY <1>0, <1>1, <1>a, <1>m, <2>1, <2>2, <2>3, <2>4
       DEF Shelving, Unborn, Apart, Tending
  <2>6. acked' \ removed' \subseteq Refd' \cap blobs'
    BY <1>0, <1>1, <1>a, <1>m, <2>1, <2>2, <2>3, <2>4 DEF Shelving, Apart
  <2>7. \A v \in Refd' :
          /\ v \in removed' \cup blobs' \cup parts'
          /\ v \in parts' => Mending(v)'
    BY <1>0, <1>1, <1>a, <1>m, <2>1, <2>2, <2>3, <2>4
       DEF Shelving, Apart, Available
  <2> QED BY <2>5, <2>6, <2>7
<1>6. ASSUME RepairParts PROVE Rest
  <2>1. /\ spc = "repair" /\ todo = {} /\ spc' = "repairParts"
        /\ todo' = {v \in parts \ blobs : ~HasRow(v) /\ Referenced(v)}
        /\ UNCHANGED <<parts, blobs>>
    BY <1>6 DEF RepairParts, Stage, fsVars
  <2>2. todo' = {u \in parts \ blobs : u \notin Rowed /\ u \in Refd}
    BY <1>t, <2>1 DEF Rowed, Refd
  <2>3. Unborn' /\ Apart' /\ Tending'
    BY <1>0, <1>1, <1>a, <1>m, <1>t, <2>1, <2>2
       DEF Shelving, Unborn, Apart, Tending
  <2>4. acked' \ removed' \subseteq Refd' \cap blobs'
    BY <1>0, <1>1, <1>a, <1>m, <1>t, <2>1, <2>2 DEF Shelving, Apart
  <2>5. \A u \in Refd' :
          /\ u \in removed' \cup blobs' \cup parts'
          /\ u \in parts' => Mending(u)'
    BY <1>0, <1>1, <1>a, <1>m, <1>t, <2>1, <2>2
       DEF Shelving, Apart, Available, Mending
  <2> QED BY <2>3, <2>4, <2>5
<1>7. ASSUME RepairPart PROVE Rest
  <2>1. PICK u \in todo :
          /\ spc = "repairParts" /\ spc' = "repairParts"
          /\ todo' = todo \ {u}
          /\ parts' = parts \ {u} /\ blobs' = blobs \cup {u}
    BY <1>7, <1>2 DEF RepairPart, Place, RepairRename, Stage
  <2>2. Unborn' /\ Apart' /\ Tending'
    BY <1>0, <1>1, <1>a, <1>m, <1>t, <2>1
       DEF Shelving, Unborn, Apart, Tending
  <2>3. acked' \ removed' \subseteq Refd' \cap blobs'
    BY <1>0, <1>1, <1>a, <1>m, <1>t, <2>1 DEF Shelving, Apart
  <2>4. \A v \in Refd' :
          /\ v \in removed' \cup blobs' \cup parts'
          /\ v \in parts' => Mending(v)'
    BY <1>0, <1>1, <1>a, <1>m, <1>t, <2>1
       DEF Shelving, Apart, Available, Mending
  <2> QED BY <2>2, <2>3, <2>4
<1>8. ASSUME StartupSweep PROVE Rest
  <2>1. /\ spc = "repairParts" /\ todo = {} /\ spc' = "stale"
        /\ UNCHANGED <<parts, blobs>>
    BY <1>8, <1>2 DEF StartupSweep, ListStale, Stage, fsVars
  <2>2. Unborn' /\ Apart' /\ Tending'
    BY <1>0, <1>1, <1>a, <1>m, <1>t, <2>1
       DEF Shelving, Unborn, Apart, Tending
  <2>3. acked' \ removed' \subseteq Refd' \cap blobs'
    BY <1>0, <1>1, <1>a, <1>m, <1>t, <2>1 DEF Shelving, Apart
  <2>4. \A u \in Refd' :
          /\ u \in removed' \cup blobs' \cup parts'
          /\ u \in parts' => Mending(u)'
    BY <1>0, <1>1, <1>a, <1>m, <1>t, <2>1
       DEF Shelving, Apart, Available, Mending
  <2> QED BY <2>2, <2>3, <2>4
<1>9. Rest
  BY <1>5, <1>6, <1>7, <1>8 DEF StartupStep
<1>10. Available'
  <2>1. \A u \in Refd' : Intact(u)'
    BY <1>0, <1>1 DEF Shelving, Available, Intact
  <2> QED BY <1>9, <2>1 DEF Available
<1>11. AckedAvailable'
  <2>1. acked' \subseteq Uploads
    BY <1>0, <1>t
  <2> QED BY <1>9, <2>1 DEF AckedAvailable, Refd
<1> QED BY <1>1, <1>4, <1>9, <1>10, <1>11 DEF Shelving

(* After a crash whatever is listed and not in place is on the list of the *)
(* repair, or will be: it has a partial file, with or without a row.       *)
LEMMA CrashShelving ==
  ASSUME TypeOK, Shelving, Crash
  PROVE  Shelving'
<1>0. /\ UNCHANGED <<data, acked, used, removed, parts, blobs, entry, away>>
      /\ unlinking' = {} /\ spc' = "repair" /\ crashes' = crashes + 1
      /\ row' = row /\ todo' = {u \in Uploads : row[u] # NoRow}
      /\ \A c \in Conns : pc'[c] = "idle"
  BY DEF Crash, Restart, dbVars, fsVars, Stage
<1>1. Single' /\ Refd' = Refd
  BY <1>0 DEF Shelving, Single, Refd, Referenced, Filed
<1>2. \A u \in Uploads : Mending(u)'
  BY <1>0 DEF Mending, Rowed, HasRow
<1>3. \A c \in Conns : Shelved(c)'
  BY <1>0 DEF Shelved, Young
<1>4. Unborn' /\ Apart' /\ Tending'
  BY <1>0, <1>1 DEF Shelving, Unborn, Apart, Tending, TypeOK, ServerType
<1>5. Available'
  BY <1>0, <1>1, <1>2 DEF Shelving, Available, Intact, Refd
<1>6. AckedAvailable'
  BY <1>0 DEF Shelving, AckedAvailable, Referenced, Filed
<1> QED BY <1>1, <1>3, <1>4, <1>5, <1>6 DEF Shelving

LEMMA InitShelving ==
  ASSUME RecoveryInit
  PROVE  Shelving
<1>1. /\ parts = {} /\ blobs = {} /\ used = {} /\ acked = {}
      /\ unlinking = {} /\ spc = "off" /\ away = {}
      /\ \A n \in Names : entry[n] = Free
      /\ \A c \in Conns : pc[c] = "idle"
  BY DEF RecoveryInit, Init
<1>2. Refd = {}
  BY <1>1, MarksAreNoIds DEF Refd, Referenced, Filed
<1> QED BY <1>1, <1>2, MarksAreNoIds
        DEF Shelving, Unborn, Apart, Single, Available, Tending,
            AckedAvailable, Shelved, Young

(* A step between mild states preserves it.                                *)
LEMMA ShelvingStep ==
  ASSUME Ownership, Keeping, ShelfInv, [Next]_vars, Mild'
  PROVE  Mild /\ Shelving /\ Shelving'
<1>1. CASE UNCHANGED vars
  <2>1. Mild /\ Shelving
    BY <1>1 DEF ShelfInv, Mild, vars, counts
  <2>2. /\ UNCHANGED <<row, entry, away, parts, blobs, data, pc, tid, used>>
        /\ UNCHANGED <<acked, removed, faults, spc, todo, unlinking, crashes>>
    BY <1>1 DEF vars, dbVars, fsVars, upVars, envVars, sweepVars, counts
  <2>3. Refd' = Refd /\ Rowed' = Rowed
    BY <2>2 DEF Refd, Referenced, Filed, Rowed, HasRow
  <2>4. \A u : Mending(u)' <=> Mending(u)
    BY <2>2, <2>3 DEF Mending
  <2> QED BY <2>1, <2>2, <2>3, <2>4
          DEF Shelving, Unborn, Apart, Single, Available, Tending,
              AckedAvailable, Referenced, Filed, Shelved, Intact
<1>2. CASE Next
  <2>1. Mild /\ ~PowerLoss
    BY <1>2, MildBack DEF Ownership
  <2>2. Shelving
    BY <2>1 DEF ShelfInv
  <2> QED BY <1>2, <2>1, <2>2, ConnShelving, WorldShelving, SweeperShelving,
             StartupShelving, CrashShelving DEF Next, Ownership
<1> QED BY <1>1, <1>2

LEMMA ShelfHolds == Spec => []ShelfInv
<1>1. RecoveryInit => ShelfInv
  BY InitShelving DEF ShelfInv
<1>2. Ownership /\ Keeping /\ ShelfInv /\ [Next]_vars => ShelfInv'
  BY ShelvingStep DEF ShelfInv
<1> QED BY <1>1, <1>2, OwnershipHolds, KeepingHolds, PTL DEF Spec

(* What the docs of transfer/manager.rs promise of finish, and repair at   *)
(* startup, put together, while faults are Mild: an upload in progress     *)
(* keeps its row and its bytes, what its row says was received was         *)
(* received, every entry of the tree has its verified bytes or a task that *)
(* is putting them in place, and what a client was told is stored stays    *)
(* stored until a user deletes it.                                         *)
THEOREM StoredStaysStored == Spec => [](Mild => StorageSound)
<1>1. Ownership /\ Keeping /\ DataInv /\ ShelfInv => (Mild => StorageSound)
  <2> SUFFICES ASSUME Ownership, Keeping, DataInv, ShelfInv, Mild
               PROVE  StorageSound
    OBVIOUS
  <2>1. OwnerKeepsState
    BY DEF Keeping, KeptBy, OwnerKeepsState, Rowed
  <2>2. BitmapSound
    BY DEF Mild, DataInv, RowsWritten, BitmapSound, Said, Written
  <2>3. Shelving
    BY DEF ShelfInv
  <2>4. EntryHasBytes
    <3> SUFFICES ASSUME NEW u \in Refd, serving, u \notin removed
                 PROVE  /\ Intact(u)
                        /\ \/ u \in blobs
                           \/ /\ u \in parts
                              /\ \E c \in Conns : /\ tid[c] = u
                                                  /\ pc[c] \in {"rename", "undo"}
      BY DEF EntryHasBytes, Refd
    <3>1. Intact(u) /\ u \in blobs \cup parts /\ (u \in parts => Mending(u))
      BY <2>3 DEF Shelving, Available
    <3>2. spc \notin {"repair", "repairParts"}
      BY DEF Keeping, Quiet
    <3> QED BY <3>1, <3>2 DEF Mending
  <2> QED BY <2>1, <2>2, <2>3, <2>4 DEF StorageSound, Shelving
<1> QED BY <1>1, OwnershipHolds, KeepingHolds, DataHolds, ShelfHolds, PTL

---------------------------------------------------------------------------
(* The uploads implement the promise of FileShelf.                         *)

OnShelf == {u \in blobs : Referenced(u)}

(* One step of the abstract shelf, or none.                                *)
Shows ==
  \/ UNCHANGED <<OnShelf, acked, removed>>
  \/ \E u \in Uploads :
       \/ /\ OnShelf' = OnShelf \cup {u} /\ UNCHANGED <<acked, removed>>
       \/ /\ u \in OnShelf \cup removed /\ acked' = acked \cup {u}
          /\ UNCHANGED <<OnShelf, removed>>
       \/ /\ OnShelf' = OnShelf \ {u} /\ removed' = removed \cup {u}
          /\ UNCHANGED acked

(* Publishing is a rename to the blob's name; telling is the packet that   *)
(* ends the upload; deleting is the commit of a delete request, or the     *)
(* unlink of a blob some such request left to unlink.                      *)
LEMMA ShelfStep ==
  ASSUME Ownership, Keeping, ShelfInv, [Next]_vars, Mild'
  PROVE  Shows
<1>m. Mild /\ Shelving /\ Shelving'
  BY ShelvingStep
<1>t. /\ blobs \subseteq Uploads /\ parts \subseteq Uploads
      /\ todo \subseteq Uploads /\ unlinking \subseteq Uploads
  BY DEF Ownership, TypeOK, FsType, ServerType
<1>o. /\ OnShelf = Refd \cap blobs
      /\ blobs' \subseteq Uploads => OnShelf' = Refd' \cap blobs'
  BY <1>t DEF OnShelf, Refd
<1>1. CASE UNCHANGED vars
  BY <1>1 DEF vars, dbVars, fsVars, envVars, Shows, OnShelf, Referenced, Filed
<1>2. ASSUME NEW c \in Conns, ConnStep(c)
      PROVE  Shows
  <2>1. Moves(c) /\ removed' = removed
    BY <1>m, <1>2, ConnShelving DEF Ownership
  <2>2. KeptBy(c) /\ Shelved(c)
    BY <1>m DEF Keeping, Shelving
  <2>3. pc[c] \notin {"idle", "prepared"} => tid[c] \in Uploads
    BY ClaimHolds DEF Ownership
  <2>4. CASE \/ Bides(c) \/ Begins(c) \/ Lays(c) \/ Clears(c) \/ Writes(c)
    BY <1>t, <1>o, <2>1, <2>4
       DEF Shows, Bides, Begins, Lays, Clears, Writes
  <2>5. CASE Files(c)
    <3>1. tid[c] \notin blobs
      BY <1>m, <2>2, <2>5 DEF Files, KeptBy, Shelving, Apart
    <3> QED BY <1>t, <1>o, <2>1, <2>5, <3>1 DEF Shows, Files
  <2>6. CASE Lands(c)
    BY <1>t, <1>o, <2>1, <2>3, <2>6 DEF Shows, Lands
  <2>7. CASE Withdraws(c)
    <3>1. tid[c] \notin blobs
      BY <1>m, <2>2, <2>7 DEF Withdraws, Shelved, Shelving, Apart
    <3> QED BY <1>t, <1>o, <2>1, <2>7, <3>1 DEF Shows, Withdraws
  <2>8. CASE Tells(c)
    BY <1>t, <1>o, <2>1, <2>2, <2>3, <2>8 DEF Shows, Tells, Shelved
  <2> QED BY <2>1, <2>4, <2>5, <2>6, <2>7, <2>8 DEF Moves
<1>3. CASE DeleteEntry
  <2>1. PICK u \in Uploads : /\ Refd' = Refd \ {u} /\ blobs' = blobs
                             /\ removed' = removed \cup {u}
    BY <1>m, <1>3, UserDeletes DEF Ownership, Shelving
  <2>2. acked' = acked
    BY <1>3 DEF DeleteEntry
  <2> QED BY <1>t, <1>o, <2>1, <2>2 DEF Shows
<1>4. CASE Unlink \/ EditFolder \/ Age
  <2>1. Refd' = Refd /\ removed' = removed /\ acked' = acked
    BY <1>m, <1>4, UserEdits
       DEF Ownership, Shelving, Unlink, EditFolder, Age, envVars
  <2>2. \/ blobs' = blobs
        \/ \E u \in unlinking : blobs' = blobs \ {u}
    BY <1>4 DEF Unlink, EditFolder, Age, Dir, fsVars
  <2>3. unlinking \subseteq removed
    BY <1>m DEF Shelving, Tending
  <2>4. ASSUME NEW u \in unlinking, blobs' = blobs \ {u} PROVE Shows
    <3>1. u \in Uploads /\ removed' = removed \cup {u}
      BY <1>t, <2>1, <2>3
    <3>2. OnShelf' = OnShelf \ {u}
      BY <1>t, <1>o, <2>1, <2>4
    <3> QED BY <2>1, <3>1, <3>2 DEF Shows
  <2>5. CASE blobs' = blobs
    BY <1>t, <1>o, <2>1, <2>5 DEF Shows
  <2> QED BY <2>2, <2>4, <2>5
<1>5. CASE SweeperStep
  BY <1>t, <1>m, <1>o, <1>5, SweeperQuarantines DEF Shows, Ownership
<1>6. CASE StartupStep
  <2>1. UNCHANGED <<acked, removed, entry, away>>
    BY <1>6 DEF StartupStep, Repair, RepairParts, RepairPart, StartupSweep,
       envVars, dbVars, Commit
  <2>2. Refd' = Refd
    BY <2>1 DEF Refd, Referenced, Filed
  <2>3. \/ blobs' = blobs
        \/ \E u \in todo : \/ blobs' = blobs \cup {u}
                           \/ u \notin Refd /\ blobs' = blobs \ {u}
    BY <1>6, <1>t DEF StartupStep, Repair, RepairParts, RepairPart,
       StartupSweep, Place, RepairRename, fsVars, Refd
  <2>4. ASSUME NEW u \in todo, blobs' = blobs \cup {u} PROVE Shows
    <3>1. u \in Uploads
      BY <1>t
    <3>2. OnShelf' = OnShelf \/ OnShelf' = OnShelf \cup {u}
      BY <1>t, <1>o, <2>2, <2>4, <3>1
    <3> QED BY <2>1, <3>1, <3>2 DEF Shows
  <2>5. ASSUME NEW u \in todo, u \notin Refd, blobs' = blobs \ {u} PROVE Shows
    BY <1>t, <1>o, <2>1, <2>2, <2>5 DEF Shows
  <2>6. CASE blobs' = blobs
    BY <1>t, <1>o, <2>1, <2>2, <2>6 DEF Shows
  <2> QED BY <2>3, <2>4, <2>5, <2>6
<1>7. CASE Crash
  BY <1>7 DEF Crash, Restart, dbVars, fsVars, Shows, OnShelf, Referenced, Filed
<1> QED BY <1>m, <1>1, <1>2, <1>3, <1>4, <1>5, <1>6, <1>7, MildBack
        DEF Next, Ownership

(* The connections, the sweeper, the repair and the users together keep    *)
(* the promise of FileShelf across crashes of the process, while faults    *)
(* are Mild: a file that can be downloaded stays so until it is deleted,   *)
(* and whoever is told that an upload is complete finds it there.          *)
THEOREM UploadsKeepThePromise == Spec /\ []Mild => ImplementsShelf
<1>1. RecoveryInit => Shelf!Init
  BY DEF RecoveryInit, Init, Shelf!Init
<1>2. /\ Ownership /\ Keeping /\ ShelfInv /\ [Next]_vars /\ Mild'
      => [Shelf!Next]_<<{u \in blobs : Referenced(u)}, acked, removed>>
  <2> SUFFICES ASSUME Ownership, Keeping, ShelfInv, [Next]_vars, Mild'
               PROVE  [Shelf!Next]_<<OnShelf, acked, removed>>
    BY DEF OnShelf
  <2>1. Shows
    BY ShelfStep
  <2> QED BY <2>1 DEF Shows, OnShelf, Shelf!Next, Shelf!Publish, Shelf!Tell,
             Shelf!Delete
<1> QED BY <1>1, <1>2, OwnershipHolds, KeepingHolds, ShelfHolds, PTL
        DEF Spec, ImplementsShelf, Shelf!Spec

---------------------------------------------------------------------------
(* How many rows an account has.                                           *)

(* The tasks of an account that have counted its rows and not yet added    *)
(* one, and the evictions each still has before it.                        *)
Adding    == {"evict", "evictPart", "mkpart", "mkrow"}
Adders(a) == {c \in Conns : Acct(c) = a /\ pc[c] \in Adding}
Left(c)   == IF pc[c] = "evictPart" THEN need[c] - 1 ELSE need[c]

Ceiling == RowCap - 1 + MaxUploadsPerAccount + faults

(* B[c] are the adders that counted no later than c.  Of the rows there    *)
(* are, those of S[c], the ones c counted, less those it evicted, leave    *)
(* room once it is done; each other one was added by an adder of that      *)
(* time that has since gone.  D are the adders that counted no later than  *)
(* the last one that found its room, and fit under the ceiling.            *)
Counted(a, D, S, B) ==
  /\ D \subseteq Adders(a)
  /\ Cardinality(MyRows(a)) + Cardinality(D) <= Ceiling
  /\ \A c \in Adders(a) : pc[c] \in {"mkpart", "mkrow"} => c \in D
  /\ \A c \in Adders(a) \ D :
       /\ c \in B[c] /\ D \subseteq B[c] /\ B[c] \subseteq Adders(a)
       /\ victims[c] \subseteq S[c]
       /\ Cardinality(S[c]) <= RowCap - 1 + Left(c) + faults
       /\ Cardinality(MyRows(a) \ S[c]) + Cardinality(B[c])
            <= MaxUploadsPerAccount
  /\ \A c, d \in Adders(a) \ D : B[c] \subseteq B[d] \/ B[d] \subseteq B[c]

Sound(a) ==
  \E D \in SUBSET Conns, S \in [Conns -> SUBSET Uploads],
     B \in [Conns -> SUBSET Conns] : Counted(a, D, S, B)

(* The rows of an account in a state of the database, and the states a     *)
(* power loss may bring back.                                              *)
RowsIn(r, a) == {u \in Uploads : r[u] # NoRow /\ r[u].acct = a}
PastSound(a) ==
  \A i \in DOMAIN past : Cardinality(RowsIn(past[i][1], a)) <= Ceiling

RoomSound == \A a \in Accounts : Sound(a) /\ PastSound(a)

(* Sets of uploads are finite; a smaller set has no more members.          *)
LEMMA UploadsFinite ==
  ASSUME NEW T \in SUBSET Uploads
  PROVE  /\ IsFiniteSet(T) /\ Cardinality(T) \in Nat
         /\ \A U \in SUBSET T : Cardinality(U) <= Cardinality(T)
  BY TransferConstants, FS_Subset, FS_CardinalityType

LEMMA ConnsSubset ==
  ASSUME NEW T \in SUBSET Conns
  PROVE  \A U \in SUBSET T : Cardinality(U) <= Cardinality(T)
  BY ConnsFinite, FS_Subset

(* The numbers of the invariant are numbers.                               *)
LEMMA RoomNumbers ==
  ASSUME TypeOK
  PROVE  /\ RowCap \in Nat /\ RowCap >= 1 /\ MaxUploadsPerAccount \in Nat
         /\ faults \in Nat /\ Ceiling \in Nat
         /\ \A a : MyRows(a) = RowsIn(row, a) /\ MyRows(a) \in SUBSET Uploads
         /\ \A c \in Conns : /\ Left(c) \in Int /\ need[c] \in Nat
                             /\ Acct(c) \in Accounts
  BY TransferConstants, ClaimConstants
     DEF TypeOK, ServerType, UpType, RowCap, Ceiling, MyRows, RowsIn, HasRow,
         Left, Acct

(* What the updates of the row table do to the rows of an account.         *)
LEMMA RowsUpdates ==
  ASSUME DbType, NEW u \in Uploads, NEW a
  PROVE  /\ row' = row => MyRows(a)' = MyRows(a)
         /\ row' = DeleteRow(u) => MyRows(a)' \subseteq MyRows(a) \ {u}
         /\ \A bs \in SUBSET Chunks :
              row' = SaveBits(u, bs) => MyRows(a)' \subseteq MyRows(a)
         /\ \A n \in Names :
              row' = [row EXCEPT ![u] = IF @ = NoRow THEN @
                        ELSE [@ EXCEPT !.name = n, !.old = FALSE]]
              => MyRows(a)' \subseteq MyRows(a)
         /\ \A b \in Accounts, n \in Names :
              row' = [row EXCEPT ![u] = [acct |-> b, name |-> n,
                                         bits |-> {}, old |-> FALSE]]
              => /\ MyRows(a)' \subseteq MyRows(a) \cup {u}
                 /\ a # b => MyRows(a)' \subseteq MyRows(a)
         /\ HasRow(u) /\ row' = [row EXCEPT ![u] = [@ EXCEPT !.old = TRUE]]
              => MyRows(a)' \subseteq MyRows(a)
<1>1. row \in [Uploads -> Rows \cup {NoRow}]
  BY DEF DbType, RowTable
<1>2. \A r \in Rows : r # NoRow
  BY NoRowIsNoRow
<1>3. row' = row => MyRows(a)' = MyRows(a)
  BY DEF MyRows, HasRow
<1>4. row' = DeleteRow(u) => MyRows(a)' \subseteq MyRows(a) \ {u}
  BY <1>1 DEF MyRows, HasRow, DeleteRow
<1>5. ASSUME NEW r, row' = [row EXCEPT ![u] = r],
             r = NoRow \/ (row[u] # NoRow /\ r.acct = row[u].acct)
      PROVE  MyRows(a)' \subseteq MyRows(a)
  BY <1>1, <1>5 DEF MyRows, HasRow
<1>6. ASSUME NEW bs \in SUBSET Chunks, row' = SaveBits(u, bs)
      PROVE  MyRows(a)' \subseteq MyRows(a)
  <2> DEFINE r == IF row[u] = NoRow THEN row[u]
                  ELSE [row[u] EXCEPT !.bits = bs, !.old = FALSE]
  <2>1. r = NoRow \/ (row[u] # NoRow /\ r.acct = row[u].acct)
    BY <1>1 DEF Rows
  <2>2. row' = [row EXCEPT ![u] = r]
    BY <1>6 DEF SaveBits
  <2> HIDE DEF r
  <2> QED BY <1>5, <2>1, <2>2
<1>7. ASSUME NEW n \in Names,
             row' = [row EXCEPT ![u] = IF @ = NoRow THEN @
                       ELSE [@ EXCEPT !.name = n, !.old = FALSE]]
      PROVE  MyRows(a)' \subseteq MyRows(a)
  <2> DEFINE r == IF row[u] = NoRow THEN row[u]
                  ELSE [row[u] EXCEPT !.name = n, !.old = FALSE]
  <2>1. r = NoRow \/ (row[u] # NoRow /\ r.acct = row[u].acct)
    BY <1>1 DEF Rows
  <2>2. row' = [row EXCEPT ![u] = r]
    BY <1>7
  <2> HIDE DEF r
  <2> QED BY <1>5, <2>1, <2>2
<1>8. ASSUME NEW b \in Accounts, NEW n \in Names,
             row' = [row EXCEPT ![u] = [acct |-> b, name |-> n,
                                        bits |-> {}, old |-> FALSE]]
      PROVE  /\ MyRows(a)' \subseteq MyRows(a) \cup {u}
             /\ a # b => MyRows(a)' \subseteq MyRows(a)
  BY <1>1, <1>8 DEF MyRows, HasRow
<1>9. ASSUME HasRow(u), row' = [row EXCEPT ![u] = [@ EXCEPT !.old = TRUE]]
      PROVE  MyRows(a)' \subseteq MyRows(a)
  <2> DEFINE r == [row[u] EXCEPT !.old = TRUE]
  <2>1. row[u] # NoRow /\ r.acct = row[u].acct
    BY <1>1, <1>9 DEF Rows, HasRow
  <2>2. row' = [row EXCEPT ![u] = r]
    BY <1>9
  <2> HIDE DEF r
  <2> QED BY <1>5, <2>1, <2>2
<1> QED BY <1>3, <1>4, <1>6, <1>7, <1>8, <1>9

(* What a connection's step is to the rows and to those who add one: no    *)
(* more rows, and no new adder; a count; an eviction; room found; a row.   *)
NoMoreRows == \A a : MyRows(a)' \subseteq MyRows(a)

Stays(c) ==
  /\ NoMoreRows
  /\ pc'[c] \in Adding =>
       /\ pc[c] \in Adding
       /\ pc'[c] \in {"mkpart", "mkrow"} => pc[c] \in {"mkpart", "mkrow"}
       /\ victims'[c] \subseteq victims[c]
       /\ Left(c) + faults <= Left(c)' + faults'

Counts(c) ==
  /\ NoMoreRows /\ pc[c] = "room" /\ pc'[c] = "evict"
  /\ victims'[c] = MyRows(Acct(c)) /\ need'[c] = Excess(Acct(c))

Evicts(c) ==
  /\ pc[c] = "evict" /\ pc'[c] = "evictPart" /\ need'[c] = need[c]
  /\ \E v \in victims[c] : /\ \A a : MyRows(a)' \subseteq MyRows(a) \ {v}
                           /\ victims'[c] = victims[c] \ {v}

FindsRoom(c) ==
  /\ NoMoreRows /\ pc[c] = "evict" /\ need[c] = 0 /\ pc'[c] = "mkpart"

Inserts(c) ==
  /\ pc[c] = "mkrow" /\ pc'[c] \notin Adding
  /\ MyRows(Acct(c))' \subseteq MyRows(Acct(c)) \cup {tid[c]}
  /\ \A a : a # Acct(c) => MyRows(a)' \subseteq MyRows(a)

Elsewhere(c) ==
  \A d \in Conns \ {c} :
    /\ pc'[d] = pc[d] /\ victims'[d] = victims[d] /\ need'[d] = need[d]

(* Leaving, a task adds nothing any more.                                  *)
LEMMA LeavesRoom ==
  ASSUME TypeOK, NEW c \in Conns, Leave(c) \/ LetGo(c)
  PROVE  /\ Elsewhere(c)
         /\ pc'[c] \notin Adding
<1>1. Leave(c) => Elsewhere(c) /\ pc'[c] \notin Adding
  BY DEF Leave, Goto, TypeOK, UpType, Elsewhere, Adding
<1>2. LetGo(c) => Elsewhere(c) /\ pc'[c] \notin Adding
  BY <1>1 DEF LetGo, Goto, TypeOK, UpType, Elsewhere, Adding
<1> QED BY <1>1, <1>2

RoomStep(c) ==
  /\ Elsewhere(c) /\ faults <= faults'
  /\ \/ Stays(c) \/ Counts(c) \/ Evicts(c) \/ FindsRoom(c) \/ Inserts(c)

(* The steps of a task that is not making room.                            *)
LEMMA ConnAside ==
  ASSUME TypeOK, TaskShape, NEW c \in Conns, ConnStep(c),
         pc[c] \notin Adding \cup {"room"}
  PROVE  RoomStep(c)
<1>t. /\ DbType /\ pc \in [Conns -> Labels]
      /\ pc[c] \notin {"idle", "prepared"} => tid[c] \in Uploads
      /\ pc[c] # "idle" => name[c] \in Names
      /\ bits \in [Conns -> SUBSET Chunks] /\ faults \in Nat
  BY DEF TypeOK, TaskShape, Shape, UpType, ServerType
<1>f. AFault \/ NoFault => faults <= faults'
  BY <1>t DEF AFault, NoFault
<1>s. UNCHANGED dbVars => NoMoreRows
  BY DEF dbVars, NoMoreRows, MyRows, HasRow
<1>m. row' = row => NoMoreRows
  BY DEF NoMoreRows, MyRows, HasRow
<1>d. tid[c] \in Uploads /\ row' = DeleteRow(tid[c]) => NoMoreRows
  BY <1>t, RowsUpdates DEF NoMoreRows
<1>b. ASSUME NEW bs \in SUBSET Chunks, tid[c] \in Uploads,
             row' = SaveBits(tid[c], bs)
      PROVE  NoMoreRows
  BY <1>t, <1>b, RowsUpdates DEF NoMoreRows
<1>o. ASSUME tid[c] \in Uploads, name[c] \in Names,
             row' = [row EXCEPT ![tid[c]] = IF @ = NoRow THEN @
                       ELSE [@ EXCEPT !.name = name[c], !.old = FALSE]]
      PROVE  NoMoreRows
  <2>1. PICK u \in Uploads, n \in Names : u = tid[c] /\ n = name[c]
    BY <1>o
  <2>2. row' = [row EXCEPT ![u] = IF @ = NoRow THEN @
                  ELSE [@ EXCEPT !.name = n, !.old = FALSE]]
    BY <1>o, <2>1
  <2>3. ASSUME NEW a PROVE MyRows(a)' \subseteq MyRows(a)
    BY <1>t, <2>2, RowsUpdates
  <2> QED BY <2>3 DEF NoMoreRows
<1> DEFINE Aside == Elsewhere(c) /\ pc'[c] \notin Adding
<1>l. Leave(c) \/ LetGo(c) => Aside
  BY LeavesRoom
<1>g. ASSUME NEW l \in Labels \ Adding, Goto(c, l), UNCHANGED <<victims, need>>
      PROVE  Aside
  BY <1>t, <1>g DEF Goto, Elsewhere
<1>u. UNCHANGED <<pc, victims, need>> => Aside
  BY <1>t DEF Elsewhere
<1> HIDE DEF Aside
<1> DEFINE Good == Aside /\ NoMoreRows /\ faults <= faults'
<1>1. Claim(c) => Good
  <2> SUFFICES ASSUME Claim(c) PROVE Good
    OBVIOUS
  <2>1. Goto(c, "room") /\ UNCHANGED <<victims, need>> /\ UNCHANGED faults
    BY DEF Claim
  <2> QED BY <1>s, <1>g, <1>t, <2>1 DEF Claim, Labels, Adding
<1>2. ClaimRefused(c) => Good
  BY <1>s, <1>l, <1>t DEF ClaimRefused
<1>12. ResumeFind(c) => Good
  BY <1>s, <1>g, <1>t DEF ResumeFind, Labels, Adding
<1>13. ResumePrepare(c) => Good
  BY <1>s, <1>g, <1>t DEF ResumePrepare, Labels, Adding
<1>14. ResumeRefused(c) => Good
  BY <1>s, <1>g, <1>l, <1>t DEF ResumeRefused, Labels, Adding
<1>15. ResumeClaim(c) => Good
  BY <1>s, <1>g, <1>t DEF ResumeClaim, Labels, Adding
<1>16. ResumeOpen(c) => Good
  <2> SUFFICES ASSUME ResumeOpen(c) PROVE Good
    OBVIOUS
  <2>1. /\ UNCHANGED <<victims, need>> /\ pc[c] = "ropen"
        /\ Goto(c, "verify") \/ Goto(c, "live") \/ Goto(c, "dropRow")
        /\ AFault \/ NoFault
    BY DEF ResumeOpen
  <2>2. NoMoreRows
    BY <1>s, <1>o, <1>t, <2>1 DEF ResumeOpen, Commit
  <2> QED BY <1>g, <1>f, <2>1, <2>2 DEF Labels, Adding
<1>17. SaveThenLeave(c) => Good
  <2> SUFFICES ASSUME SaveThenLeave(c) PROVE Good
    OBVIOUS
  <2>1. NoMoreRows
    BY <1>s, <1>b, <1>t DEF SaveThenLeave, Commit
  <2> QED BY <1>f, <1>l, <2>1 DEF SaveThenLeave
<1>18. Verify(c) => Good
  <2> SUFFICES ASSUME Verify(c) PROVE Good
    OBVIOUS
  <2>1. NoMoreRows
    BY <1>s, <1>b, <1>t DEF Verify, Commit
  <2> QED BY <1>f, <1>g, <2>1 DEF Verify, Labels, Adding
<1>19. HashFile(c) => Good
  BY <1>s, <1>f, <1>g DEF HashFile, Labels, Adding
<1>20. File(c) => Good
  <2> SUFFICES ASSUME File(c) PROVE Good
    OBVIOUS
  <2>1. row' = row /\ (Goto(c, "rename") \/ Goto(c, "dropRow"))
    BY DEF File, FileAs, Commit, dbVars
  <2> QED BY <1>m, <1>f, <1>g, <2>1 DEF File, Labels, Adding
<1>21. FileLater(c) => Good
  BY <1>s, <1>f, <1>l DEF FileLater
<1>22. Rename(c) => Good
  BY <1>s, <1>f, <1>g DEF Rename, Labels, Adding
<1>23. Undo(c) => Good
  <2> SUFFICES ASSUME Undo(c) PROVE Good
    OBVIOUS
  <2>1. row' = row
    BY DEF Undo, Commit, dbVars
  <2> QED BY <1>m, <1>f, <1>l, <2>1 DEF Undo
<1>24. Finished(c) => Good
  <2> SUFFICES ASSUME Finished(c) PROVE Good
    OBVIOUS
  <2>1. NoMoreRows
    BY <1>s, <1>d, <1>t DEF Finished, Commit
  <2> QED BY <1>f, <1>l, <2>1 DEF Finished
<1>25. DropRow(c) => Good
  <2> SUFFICES ASSUME DropRow(c) PROVE Good
    OBVIOUS
  <2>1. NoMoreRows
    BY <1>s, <1>d, <1>t DEF DropRow, Commit
  <2> QED BY <1>f, <1>g, <2>1 DEF DropRow, Labels, Adding
<1>26. DropPart(c) => Good
  BY <1>s, <1>l, <1>t DEF DropPart
<1>27. Prepare(c) => Good
  BY <1>s, <1>g, <1>t DEF Prepare, Labels, Adding
<1>28. Resume(c) => Good
  BY <1>s, <1>g, <1>t DEF Resume, Labels, Adding
<1>29. WriteChunk(c) => Good
  <2> SUFFICES ASSUME WriteChunk(c) PROVE Good
    OBVIOUS
  <2>1. /\ UNCHANGED <<victims, need>> /\ UNCHANGED faults /\ pc[c] = "live"
        /\ Goto(c, "verify") \/ Goto(c, "live")
    BY DEF WriteChunk
  <2>2. NoMoreRows
    <3>1. PICK k \in Chunks :
            \/ UNCHANGED dbVars
            \/ row' = SaveBits(tid[c], bits[c] \cup {k})
      BY DEF WriteChunk, Commit
    <3>2. PICK bs \in SUBSET Chunks : bs = bits[c] \cup {k}
      BY <1>t
    <3> QED BY <1>t, <1>s, <1>b, <2>1, <3>1, <3>2
  <2> QED BY <1>t, <1>g, <2>1, <2>2 DEF Labels, Adding
<1>30. Release(c) => Good
  <2> SUFFICES ASSUME Release(c) PROVE Good
    OBVIOUS
  <2>1. NoMoreRows
    BY <1>s, <1>b, <1>t DEF Release, Commit
  <2> QED BY <1>f, <1>l, <2>1 DEF Release
<1>31. Disconnect(c) => Good
  BY <1>s, <1>l, <1>t DEF Disconnect
<1>32. OpenForRead(c) => Good
  BY <1>s, <1>u, <1>t DEF OpenForRead, upVars
<1>33. EndDownload(c) => Good
  BY <1>s, <1>u, <1>t DEF EndDownload, upVars
<1>34. ~(\/ ListOpen(c) \/ EvictSkip(c) \/ Evict(c) \/ EvictPart(c)
         \/ EvictFailed(c) \/ RoomMade(c) \/ MkPart(c) \/ MkRow(c))
  BY DEF ListOpen, EvictSkip, Evict, EvictPart, EvictFailed, RoomMade,
     MkPart, MkRow, Adding
<1>35. Good
  BY <1>1, <1>2, <1>12, <1>13, <1>14, <1>15, <1>16, <1>17, <1>18, <1>19,
     <1>20, <1>21, <1>22, <1>23, <1>24, <1>25, <1>26, <1>27, <1>28, <1>29,
     <1>30, <1>31, <1>32, <1>33, <1>34 DEF ConnStep, Request, Handle
<1> QED BY <1>35 DEF Aside, RoomStep, Stays

(* The steps of a task that is.                                            *)
LEMMA ConnRoom ==
  ASSUME TypeOK, TaskShape, NEW c \in Conns, ConnStep(c)
  PROVE  RoomStep(c)
<1>t. /\ DbType /\ pc \in [Conns -> Labels]
      /\ pc[c] \notin {"idle", "prepared"} => tid[c] \in Uploads
      /\ pc[c] # "idle" => name[c] \in Names
      /\ faults \in Nat /\ need \in [Conns -> Nat]
      /\ victims \in [Conns -> SUBSET Uploads] /\ Acct(c) \in Accounts
      /\ pc[c] = "evictPart" => need[c] > 0
  BY RoomNumbers DEF TypeOK, TaskShape, Shape, UpType, ServerType
<1>f. /\ NoFault => faults' = faults
      /\ AFault => faults' = faults + 1
  BY DEF AFault, NoFault
<1>s. UNCHANGED dbVars => NoMoreRows
  BY DEF dbVars, NoMoreRows, MyRows, HasRow
<1>l. Leave(c) => Elsewhere(c) /\ pc'[c] \notin Adding
  BY LeavesRoom
<1>a. ASSUME Leave(c), UNCHANGED dbVars, NoFault \/ AFault
      PROVE  RoomStep(c)
  BY <1>a, <1>t, <1>f, <1>s, <1>l DEF RoomStep, Stays
<1> USE DEF Goto
<1>1. CASE ListOpen(c)
  <2>1. CASE Leave(c)
    BY <1>1, <1>a, <2>1 DEF ListOpen
  <2>2. CASE ~Leave(c)
    BY <1>1, <1>t, <1>f, <1>s, <2>2
       DEF ListOpen, RoomStep, Counts, Elsewhere
  <2> QED BY <2>1, <2>2
<1>2. CASE EvictSkip(c)
  BY <1>2, <1>t, <1>s DEF EvictSkip, RoomStep, Stays, Elsewhere, Left, Adding
<1>3. CASE Evict(c)
  <2>1. PICK v \in victims[c] :
          /\ \/ row' = DeleteRow(v) /\ NoFault
             \/ AFault /\ UNCHANGED dbVars
          /\ victims' = [victims EXCEPT ![c] = @ \ {v}]
    BY <1>3 DEF Evict, Commit
  <2>2. /\ pc[c] = "evict" /\ pc' = [pc EXCEPT ![c] = "evictPart"]
        /\ need' = need
    BY <1>3 DEF Evict
  <2>3. Elsewhere(c) /\ victims'[c] = victims[c] \ {v}
    BY <1>t, <2>1, <2>2 DEF Elsewhere
  <2>4. CASE row' = DeleteRow(v) /\ NoFault
    <3>1. \A a : MyRows(a)' \subseteq MyRows(a) \ {v}
      BY <1>t, <2>1, <2>4, RowsUpdates
    <3> QED BY <1>t, <1>f, <2>2, <2>3, <2>4, <3>1 DEF RoomStep, Evicts
  <2>5. CASE AFault /\ UNCHANGED dbVars
    <3>1. Left(c) + faults <= Left(c)' + faults'
      BY <1>t, <1>f, <2>2, <2>5 DEF Left
    <3> QED BY <1>t, <1>f, <1>s, <2>2, <2>3, <2>5, <3>1
            DEF RoomStep, Stays, Adding
  <2> QED BY <2>1, <2>4, <2>5
<1>4. CASE EvictPart(c)
  <2>1. /\ pc[c] = "evictPart" /\ pc' = [pc EXCEPT ![c] = "evict"]
        /\ need' = [need EXCEPT ![c] = @ - 1]
        /\ UNCHANGED victims /\ UNCHANGED dbVars /\ UNCHANGED faults
    BY <1>4 DEF EvictPart
  <2>2. Left(c) + faults <= Left(c)' + faults'
    BY <1>t, <2>1 DEF Left
  <2> QED BY <1>t, <1>s, <2>1, <2>2
          DEF RoomStep, Stays, Elsewhere, Adding
<1>5. CASE EvictFailed(c)
  BY <1>5, <1>a DEF EvictFailed, NoFault
<1>6. CASE RoomMade(c)
  BY <1>6, <1>t, <1>s DEF RoomMade, RoomStep, FindsRoom, Elsewhere
<1>7. CASE MkPart(c)
  <2>1. CASE Leave(c)
    BY <1>7, <1>a, <2>1 DEF MkPart
  <2>2. CASE ~Leave(c)
    BY <1>7, <1>t, <1>f, <1>s, <2>2
       DEF MkPart, RoomStep, Stays, Elsewhere, Left, Adding
  <2> QED BY <2>1, <2>2
<1>8. CASE MkRow(c)
  <2>1. CASE Leave(c)
    <3>1. CASE UNCHANGED dbVars
      BY <1>8, <1>a, <2>1, <3>1 DEF MkRow
    <3>2. CASE ~UNCHANGED dbVars
      BY <1>8, <1>l, <2>1, <3>2, <1>t DEF MkRow, Leave
    <3> QED BY <3>1, <3>2
  <2>2. CASE ~Leave(c)
    <3>1. /\ pc[c] = "mkrow" /\ NoFault
          /\ row' = [row EXCEPT ![tid[c]] = [acct |-> Acct(c),
                       name |-> name[c], bits |-> {}, old |-> FALSE]]
          /\ pc' = [pc EXCEPT ![c] = IF Chunks = {} THEN "verify" ELSE "live"]
          /\ UNCHANGED <<victims, need>>
      BY <1>8, <2>2 DEF MkRow, Commit
    <3>2. tid[c] \in Uploads /\ name[c] \in Names
      BY <1>t, <3>1
    <3>3. \A a : /\ MyRows(a)' \subseteq MyRows(a) \cup {tid[c]}
                 /\ a # Acct(c) => MyRows(a)' \subseteq MyRows(a)
      <4>1. PICK u \in Uploads, n \in Names, b \in Accounts :
              u = tid[c] /\ n = name[c] /\ b = Acct(c)
        BY <1>t, <3>2
      <4>2. row' = [row EXCEPT ![u] = [acct |-> b, name |-> n,
                                       bits |-> {}, old |-> FALSE]]
        BY <3>1, <4>1
      <4>3. ASSUME NEW a
            PROVE  /\ MyRows(a)' \subseteq MyRows(a) \cup {u}
                   /\ a # b => MyRows(a)' \subseteq MyRows(a)
        BY <1>t, <4>2, RowsUpdates
      <4> QED BY <4>1, <4>3
    <3>5. Acct(c)' = Acct(c)
      BY DEF Acct
    <3> QED BY <1>t, <1>f, <3>1, <3>3, <3>5
            DEF RoomStep, Inserts, Elsewhere, Adding
  <2> QED BY <2>1, <2>2
<1>9. CASE pc[c] \notin Adding \cup {"room"}
  BY <1>9, ConnAside
<1>10. \/ ListOpen(c) \/ EvictSkip(c) \/ Evict(c) \/ EvictPart(c)
       \/ EvictFailed(c) \/ RoomMade(c) \/ MkPart(c) \/ MkRow(c)
       \/ OpenForRead(c) \/ EndDownload(c)
       \/ pc[c] \notin Adding \cup {"room"}
  BY DEF ConnStep, Request, Handle, Adding, Claim, ClaimRefused, ResumeFind,
     ResumePrepare, ResumeRefused, ResumeClaim, ResumeOpen, SaveThenLeave,
     Verify, HashFile, File, FileLater, Rename, Undo, Finished, DropRow,
     DropPart, Prepare, Resume, WriteChunk, Release, Disconnect
<1>11. CASE OpenForRead(c) \/ EndDownload(c)
  BY <1>11, <1>t, <1>s
     DEF OpenForRead, EndDownload, upVars, RoomStep, Stays, Elsewhere, Left,
         Adding
<1> QED BY <1>1, <1>2, <1>3, <1>4, <1>5, <1>6, <1>7, <1>8, <1>9, <1>10, <1>11

(* The numbers after a step.                                               *)
LEMMA RoomNumbersNext ==
  ASSUME TypeOK'
  PROVE  /\ faults' \in Nat
         /\ Ceiling' = RowCap - 1 + MaxUploadsPerAccount + faults'
         /\ \A a : MyRows(a)' \in SUBSET Uploads /\ Adders(a)' \in SUBSET Conns
         /\ \A c \in Conns : Left(c)' \in Int /\ need'[c] \in Nat
  BY DEF TypeOK, ServerType, UpType, Ceiling, MyRows, Left, Adders

(* A step that adds neither rows nor adders, and finds nobody room, keeps  *)
(* the ledger: what an adder gains in evictions done, it lost in rows or   *)
(* to a fault.                                                             *)
LEMMA CalmRoom ==
  ASSUME TypeOK, TypeOK', NEW a \in Accounts,
         NEW D \in SUBSET Conns, NEW S \in [Conns -> SUBSET Uploads],
         NEW B \in [Conns -> SUBSET Conns], Counted(a, D, S, B),
         MyRows(a)' \subseteq MyRows(a), faults <= faults',
         Adders(a)' \subseteq Adders(a),
         \A c \in Adders(a)' : pc'[c] \in {"mkpart", "mkrow"} => c \in D,
         \A c \in Adders(a)' \ D :
            /\ victims'[c] \subseteq victims[c]
            /\ Left(c) + faults <= Left(c)' + faults'
  PROVE  Sound(a)'
<1>1. PICK P \in SUBSET Conns : P = Adders(a)'
  BY RoomNumbersNext
<1> DEFINE C == [c \in Conns |-> B[c] \cap P]
<1>n. /\ RowCap \in Nat /\ MaxUploadsPerAccount \in Nat /\ faults \in Nat
      /\ Ceiling = RowCap - 1 + MaxUploadsPerAccount + faults
      /\ MyRows(a) \in SUBSET Uploads /\ Adders(a) \in SUBSET Conns
      /\ \A c \in Conns : Left(c) \in Int
  BY RoomNumbers DEF Ceiling, Adders
<1>m. /\ faults' \in Nat
      /\ Ceiling' = RowCap - 1 + MaxUploadsPerAccount + faults'
      /\ MyRows(a)' \in SUBSET Uploads
      /\ \A c \in Conns : Left(c)' \in Int
  BY RoomNumbersNext
<1>2. Cardinality(MyRows(a)') + Cardinality(D \cap P) <= Ceiling'
  <2>1. Cardinality(MyRows(a)') <= Cardinality(MyRows(a))
    BY <1>n, UploadsFinite
  <2>2. Cardinality(D \cap P) <= Cardinality(D)
    BY ConnsSubset
  <2>3. /\ Cardinality(MyRows(a)') \in Nat /\ Cardinality(MyRows(a)) \in Nat
        /\ Cardinality(D \cap P) \in Nat /\ Cardinality(D) \in Nat
    BY <1>n, <1>m, UploadsFinite, ConnsFinite
  <2>4. Cardinality(MyRows(a)) + Cardinality(D) <= Ceiling
    BY DEF Counted
  <2> QED BY <1>n, <1>m, <2>1, <2>2, <2>3, <2>4
<1>3. ASSUME NEW c \in P \ D
      PROVE  /\ c \in C[c] /\ D \cap P \subseteq C[c] /\ C[c] \subseteq P
             /\ victims'[c] \subseteq S[c]
             /\ Cardinality(S[c]) <= RowCap - 1 + Left(c)' + faults'
             /\ Cardinality(MyRows(a)' \ S[c]) + Cardinality(C[c])
                  <= MaxUploadsPerAccount
  <2>1. c \in Adders(a) \ D /\ c \in Conns
    BY <1>1
  <2>2. /\ c \in B[c] /\ D \subseteq B[c]
        /\ victims[c] \subseteq S[c]
        /\ Cardinality(S[c]) <= RowCap - 1 + Left(c) + faults
        /\ Cardinality(MyRows(a) \ S[c]) + Cardinality(B[c])
             <= MaxUploadsPerAccount
    BY <2>1 DEF Counted
  <2>3. /\ victims'[c] \subseteq victims[c]
        /\ Left(c) + faults <= Left(c)' + faults'
    BY <1>1
  <2>4. /\ Cardinality(S[c]) \in Nat /\ Left(c) \in Int /\ Left(c)' \in Int
        /\ Cardinality(MyRows(a)' \ S[c]) \in Nat
        /\ Cardinality(MyRows(a) \ S[c]) \in Nat
        /\ Cardinality(B[c]) \in Nat /\ Cardinality(C[c]) \in Nat
    BY <1>n, <1>m, <2>1, UploadsFinite, ConnsFinite
  <2>5. Cardinality(MyRows(a)' \ S[c]) <= Cardinality(MyRows(a) \ S[c])
    <3>1. /\ MyRows(a) \ S[c] \in SUBSET Uploads
          /\ MyRows(a)' \ S[c] \in SUBSET (MyRows(a) \ S[c])
      BY <1>n
    <3> QED BY <3>1, UploadsFinite
  <2>6. Cardinality(C[c]) <= Cardinality(B[c])
    <3>1. B[c] \in SUBSET Conns /\ C[c] \in SUBSET B[c]
      BY <2>1
    <3> QED BY <3>1, ConnsSubset
  <2>7. Cardinality(S[c]) <= RowCap - 1 + Left(c)' + faults'
    BY ONLY <1>n, <1>m, <2>2, <2>3, <2>4
  <2>8. Cardinality(MyRows(a)' \ S[c]) + Cardinality(C[c])
          <= MaxUploadsPerAccount
    BY ONLY <1>n, <2>2, <2>4, <2>5, <2>6
  <2> QED BY <2>1, <2>2, <2>3, <2>7, <2>8
<1>4. \A c, d \in P \ D : C[c] \subseteq C[d] \/ C[d] \subseteq C[c]
  BY <1>1 DEF Counted
<1>5. Counted(a, D \cap P, S, C)'
  <2>1. \A c \in P : pc'[c] \in {"mkpart", "mkrow"} => c \in D \cap P
    BY <1>1
  <2> HIDE DEF C
  <2> QED BY <1>1, <1>2, <1>3, <1>4, <2>1 DEF Counted
<1> HIDE DEF C
<1>6. C \in [Conns -> SUBSET Conns]
  BY DEF C
<1> QED BY <1>5, <1>6 DEF Sound

(* An eviction that succeeds takes a row of what the adder counted.        *)
LEMMA EvictsRoom ==
  ASSUME TypeOK, TypeOK', NEW c \in Conns, NEW a \in Accounts, Acct(c) = a,
         NEW D \in SUBSET Conns, NEW S \in [Conns -> SUBSET Uploads],
         NEW B \in [Conns -> SUBSET Conns], Counted(a, D, S, B),
         Elsewhere(c), faults <= faults', Evicts(c)
  PROVE  Sound(a)'
<1>n. /\ RowCap \in Nat /\ MaxUploadsPerAccount \in Nat /\ faults \in Nat
      /\ Ceiling = RowCap - 1 + MaxUploadsPerAccount + faults
      /\ MyRows(a) \in SUBSET Uploads /\ Adders(a) \in SUBSET Conns
      /\ \A d \in Conns : Left(d) \in Int /\ need[d] \in Nat
  BY RoomNumbers DEF Ceiling, Adders
<1>m. /\ faults' \in Nat
      /\ Ceiling' = RowCap - 1 + MaxUploadsPerAccount + faults'
      /\ MyRows(a)' \in SUBSET Uploads
      /\ \A d \in Conns : Left(d)' \in Int
  BY RoomNumbersNext
<1>1. PICK v \in victims[c] : /\ MyRows(a)' \subseteq MyRows(a) \ {v}
                              /\ victims'[c] = victims[c] \ {v}
  BY DEF Evicts
<1>2. /\ pc[c] = "evict" /\ pc'[c] = "evictPart"
      /\ Left(c) = need[c] /\ Left(c)' = need[c] - 1
  BY DEF Evicts, Left
<1>3. /\ Adders(a)' = Adders(a) /\ c \in Adders(a)
      /\ \A d \in Conns \ {c} : Left(d)' = Left(d)
  BY <1>2 DEF Adders, Adding, Elsewhere, Left, Acct
<1>4. CASE c \in D
  <2>1. \A d \in Adders(a) \ D : /\ victims'[d] \subseteq victims[d]
                                 /\ Left(d) + faults <= Left(d)' + faults'
    BY <1>n, <1>m, <1>3, <1>4 DEF Elsewhere
  <2>2. \A d \in Adders(a) : pc'[d] \in {"mkpart", "mkrow"} => d \in D
    BY <1>4, <1>n DEF Elsewhere, Counted
  <2> QED BY <1>1, <1>3, <2>1, <2>2, CalmRoom
<1>5. CASE c \notin D
  <2> DEFINE T == [S EXCEPT ![c] = S[c] \ {v}]
  <2>1. v \in S[c] /\ S[c] \in SUBSET Uploads /\ c \in Adders(a) \ D
    BY <1>1, <1>3, <1>5 DEF Counted
  <2>2. /\ T \in [Conns -> SUBSET Uploads]
        /\ T[c] = S[c] \ {v} /\ \A d \in Conns \ {c} : T[d] = S[d]
    BY <2>1
  <2> HIDE DEF T
  <2>3. Cardinality(T[c]) = Cardinality(S[c]) - 1
    <3>1. PICK X \in SUBSET Uploads : X = S[c] /\ v \in X
      BY <2>1
    <3>2. IsFiniteSet(X)
      BY UploadsFinite
    <3>3. Cardinality(X \ {v}) = Cardinality(X) - 1
      BY <3>1, <3>2, FS_RemoveElement
    <3> QED BY <2>2, <3>1, <3>3
  <2>4. Cardinality(MyRows(a)') <= Cardinality(MyRows(a))
    BY <1>n, <1>1, UploadsFinite
  <2>5. /\ Cardinality(MyRows(a)') \in Nat /\ Cardinality(MyRows(a)) \in Nat
        /\ Cardinality(D) \in Nat
    BY <1>n, <1>m, UploadsFinite, ConnsFinite
  <2>6. Cardinality(MyRows(a)') + Cardinality(D) <= Ceiling'
    <3>1. Cardinality(MyRows(a)) + Cardinality(D) <= Ceiling
      BY DEF Counted
    <3> QED BY <1>n, <1>m, <2>4, <2>5, <3>1
  <2>7. ASSUME NEW d \in Adders(a) \ D
        PROVE  /\ victims'[d] \subseteq T[d]
               /\ Cardinality(T[d]) <= RowCap - 1 + Left(d)' + faults'
               /\ Cardinality(MyRows(a)' \ T[d]) + Cardinality(B[d])
                    <= MaxUploadsPerAccount
    <3>1. d \in Conns
      BY <1>n
    <3>2. /\ victims[d] \subseteq S[d]
          /\ Cardinality(S[d]) <= RowCap - 1 + Left(d) + faults
          /\ Cardinality(MyRows(a) \ S[d]) + Cardinality(B[d])
               <= MaxUploadsPerAccount
      BY <2>7 DEF Counted
    <3>3. /\ Cardinality(S[d]) \in Nat /\ Cardinality(T[d]) \in Nat
          /\ Cardinality(MyRows(a)' \ T[d]) \in Nat
          /\ Cardinality(MyRows(a) \ S[d]) \in Nat
          /\ Cardinality(B[d]) \in Nat
          /\ Left(d) \in Int /\ Left(d)' \in Int /\ need[d] \in Nat
      BY <1>n, <1>m, <2>2, <3>1, UploadsFinite, ConnsFinite
    <3>4. Cardinality(MyRows(a)' \ T[d]) <= Cardinality(MyRows(a) \ S[d])
      <4>1. /\ MyRows(a) \ S[d] \in SUBSET Uploads
            /\ MyRows(a)' \ T[d] \in SUBSET (MyRows(a) \ S[d])
        BY <1>n, <1>1, <2>2, <3>1
      <4> QED BY <4>1, UploadsFinite
    <3>5. victims'[d] \subseteq T[d]
      BY <1>1, <2>2, <3>1, <3>2 DEF Elsewhere
    <3>6. Cardinality(T[d]) <= RowCap - 1 + Left(d)' + faults'
      <4>1. CASE d = c
        BY <1>2, <1>n, <1>m, <2>3, <3>2, <3>3, <4>1
      <4>2. CASE d # c
        <5>1. T[d] = S[d] /\ Left(d)' = Left(d)
          BY <1>3, <2>2, <3>1, <4>2
        <5> QED BY <1>n, <1>m, <3>2, <3>3, <5>1
      <4> QED BY <4>1, <4>2
    <3> QED BY <1>n, <3>2, <3>3, <3>4, <3>5, <3>6
  <2>8. \A d \in Adders(a) : pc'[d] \in {"mkpart", "mkrow"} => d \in D
    BY <1>2, <1>n DEF Elsewhere, Counted
  <2>9. Counted(a, D, T, B)'
    BY <1>3, <2>6, <2>7, <2>8 DEF Counted
  <2> QED BY <2>2, <2>9 DEF Sound
<1> QED BY <1>4, <1>5

(* Whoever finds room has as many rows and adders before it as fit.        *)
LEMMA FindsRoomRoom ==
  ASSUME TypeOK, TypeOK', NEW c \in Conns, NEW a \in Accounts, Acct(c) = a,
         NEW D \in SUBSET Conns, NEW S \in [Conns -> SUBSET Uploads],
         NEW B \in [Conns -> SUBSET Conns], Counted(a, D, S, B),
         Elsewhere(c), faults <= faults', FindsRoom(c)
  PROVE  Sound(a)'
<1>n. /\ RowCap \in Nat /\ MaxUploadsPerAccount \in Nat /\ faults \in Nat
      /\ Ceiling = RowCap - 1 + MaxUploadsPerAccount + faults
      /\ MyRows(a) \in SUBSET Uploads /\ Adders(a) \in SUBSET Conns
      /\ \A d \in Conns : Left(d) \in Int /\ need[d] \in Nat
  BY RoomNumbers DEF Ceiling, Adders
<1>1. /\ pc[c] = "evict" /\ pc'[c] = "mkpart" /\ need[c] = 0
      /\ MyRows(a)' \subseteq MyRows(a)
  BY DEF FindsRoom, NoMoreRows
<1>2. Adders(a)' = Adders(a) /\ c \in Adders(a)
  BY <1>1 DEF Adders, Adding, Elsewhere, Acct
<1>3. \A d \in Adders(a) \ {c} : /\ victims'[d] \subseteq victims[d]
                                 /\ Left(d)' = Left(d)
  BY <1>1, <1>n DEF Elsewhere, Left
<1>4. \A d \in Adders(a) \ {c} : Left(d) + faults <= Left(d)' + faults'
  BY <1>3, <1>n, RoomNumbersNext
<1>5. PICK E \in SUBSET Conns :
         /\ Counted(a, E, S, B) /\ c \in E
  <2>1. CASE c \in D
    BY <2>1
  <2>2. CASE c \notin D
    <3>1. /\ c \in B[c] /\ D \subseteq B[c] /\ B[c] \subseteq Adders(a)
          /\ Cardinality(S[c]) <= RowCap - 1 + Left(c) + faults
          /\ Cardinality(MyRows(a) \ S[c]) + Cardinality(B[c])
               <= MaxUploadsPerAccount
      BY <1>2, <2>2 DEF Counted
    <3>2. /\ S[c] \in SUBSET Uploads /\ B[c] \in SUBSET Conns /\ Left(c) = 0
      BY <1>1 DEF Left
    <3>3. Cardinality(MyRows(a))
            <= Cardinality(S[c]) + Cardinality(MyRows(a) \ S[c])
      <4>1. /\ IsFiniteSet(S[c]) /\ IsFiniteSet(MyRows(a) \ S[c])
            /\ IsFiniteSet(MyRows(a))
        BY <1>n, <3>2, UploadsFinite
      <4>2. Cardinality(MyRows(a) \ S[c])
              = Cardinality(MyRows(a)) - Cardinality(MyRows(a) \cap S[c])
        BY <4>1, FS_Difference
      <4>3. Cardinality(MyRows(a) \cap S[c]) <= Cardinality(S[c])
        BY <3>2, UploadsFinite
      <4>4. /\ Cardinality(MyRows(a)) \in Nat /\ Cardinality(S[c]) \in Nat
            /\ Cardinality(MyRows(a) \cap S[c]) \in Nat
        BY <1>n, <3>2, UploadsFinite
      <4> QED BY <4>2, <4>3, <4>4
    <3>4. /\ Cardinality(MyRows(a)) \in Nat /\ Cardinality(S[c]) \in Nat
          /\ Cardinality(MyRows(a) \ S[c]) \in Nat
          /\ Cardinality(B[c]) \in Nat
      BY <1>n, <3>2, UploadsFinite, ConnsFinite
    <3>5. Cardinality(MyRows(a)) + Cardinality(B[c]) <= Ceiling
      BY <1>n, <3>1, <3>2, <3>3, <3>4
    <3>6. ASSUME NEW d \in Adders(a) \ B[c]
          PROVE  d \in Adders(a) \ D /\ B[c] \subseteq B[d]
      <4>1. d \in Adders(a) \ D
        BY <3>1
      <4>2. d \in B[d]
        BY <4>1 DEF Counted
      <4>3. B[c] \subseteq B[d] \/ B[d] \subseteq B[c]
        BY <1>2, <2>2, <4>1 DEF Counted
      <4> QED BY <4>1, <4>2, <4>3
    <3>7. Counted(a, B[c], S, B)
      BY <3>1, <3>5, <3>6 DEF Counted
    <3> QED BY <3>1, <3>2, <3>7
  <2> QED BY <2>1, <2>2
<1>6. \A d \in Adders(a) : pc'[d] \in {"mkpart", "mkrow"} => d \in E
  BY <1>5, <1>n DEF Elsewhere, Counted
<1> QED BY <1>1, <1>2, <1>3, <1>4, <1>5, <1>6, CalmRoom

(* Whoever counts makes room for one more than it counted, and is one of   *)
(* the account's uploads.                                                  *)
LEMMA CountsRoom ==
  ASSUME TypeOK, TypeOK', TaskShape, AccountingExact,
         NEW c \in Conns, NEW a \in Accounts, Acct(c) = a,
         NEW D \in SUBSET Conns, NEW S \in [Conns -> SUBSET Uploads],
         NEW B \in [Conns -> SUBSET Conns], Counted(a, D, S, B),
         Elsewhere(c), faults <= faults', Counts(c)
  PROVE  Sound(a)'
<1>n. /\ RowCap \in Nat /\ MaxUploadsPerAccount \in Nat /\ faults \in Nat
      /\ Ceiling = RowCap - 1 + MaxUploadsPerAccount + faults
      /\ MyRows(a) \in SUBSET Uploads /\ Adders(a) \in SUBSET Conns
      /\ \A d \in Conns : Left(d) \in Int /\ need[d] \in Nat
  BY RoomNumbers DEF Ceiling, Adders
<1>m. /\ faults' \in Nat
      /\ Ceiling' = RowCap - 1 + MaxUploadsPerAccount + faults'
      /\ MyRows(a)' \in SUBSET Uploads
      /\ \A d \in Conns : Left(d)' \in Int
  BY RoomNumbersNext
<1>1. /\ pc[c] = "room" /\ pc'[c] = "evict" /\ MyRows(a)' \subseteq MyRows(a)
      /\ victims'[c] = MyRows(a) /\ Left(c)' = Excess(a)
  BY DEF Counts, NoMoreRows, Left
<1>2. PICK P \in SUBSET Conns : P = Adders(a) \cup {c}
  BY <1>n
<1>3. /\ Adders(a)' = P /\ c \notin Adders(a)
      /\ \A d \in Adders(a) : Left(d)' = Left(d)
  BY <1>1, <1>2 DEF Adders, Adding, Elsewhere, Left, Acct
<1>4. PICK M \in SUBSET Uploads : M = MyRows(a)
  BY <1>n
<1> DEFINE T == [S EXCEPT ![c] = M]
           C == [B EXCEPT ![c] = P]
<1>5. /\ T \in [Conns -> SUBSET Uploads] /\ T[c] = M
      /\ C \in [Conns -> SUBSET Conns] /\ C[c] = P
      /\ \A d \in Conns \ {c} : T[d] = S[d] /\ C[d] = B[d]
  OBVIOUS
<1> HIDE DEF T, C
<1>6. /\ Cardinality(MyRows(a)') <= Cardinality(M)
      /\ Cardinality(MyRows(a)') \in Nat /\ Cardinality(M) \in Nat
      /\ Cardinality(D) \in Nat /\ Cardinality(P) \in Nat
  BY <1>m, <1>1, <1>4, UploadsFinite, ConnsFinite
<1>7. Cardinality(MyRows(a)') + Cardinality(D) <= Ceiling'
  <2>1. Cardinality(M) + Cardinality(D) <= Ceiling
    BY <1>4 DEF Counted
  <2> QED BY <1>n, <1>m, <1>6, <2>1
<1>8. Cardinality(P) <= MaxUploadsPerAccount
  <2>1. \A d \in P : claim[d].on /\ Acct(d) = a
    <3>1. \A d \in P : /\ pc[d] \in Adding \cup {"room"} /\ d \in Conns
                       /\ Acct(d) = a
      BY <1>1, <1>2 DEF Adders
    <3> QED BY <3>1 DEF TaskShape, Shape, Adding, Bare, Dropping
  <2> DEFINE W == {d \in Working : Acct(d) = a}
  <2>2. W \in SUBSET Conns /\ P \in SUBSET W
    BY <2>1 DEF Working
  <2>3. Cardinality(P) <= Cardinality(W)
    BY <2>2, ConnsSubset
  <2>4. /\ live.up[a] = Cardinality(W) /\ live.up[a] <= MaxUploadsPerAccount
    BY DEF AccountingExact
  <2> HIDE DEF W
  <2>5. Cardinality(W) \in Nat
    BY <2>2, ConnsFinite
  <2> QED BY <1>6, <1>n, <2>3, <2>4, <2>5
<1>9. Cardinality(M) <= RowCap - 1 + Left(c)' + faults'
  <2>1. Left(c)' = SatSub(Cardinality(M) + 1, RowCap)
    BY <1>1, <1>4 DEF Excess
  <2>2. Cardinality(M) <= RowCap - 1 + Left(c)'
    BY <1>n, <1>6, <2>1 DEF SatSub
  <2> QED BY <1>n, <1>m, <1>6, <2>2
<1>10. Cardinality(MyRows(a)' \ M) + Cardinality(P) <= MaxUploadsPerAccount
  <2>1. MyRows(a)' \ M = {}
    BY <1>1, <1>4
  <2>2. Cardinality(MyRows(a)' \ M) = 0
    BY <2>1, FS_EmptySet
  <2> QED BY <1>6, <1>8, <1>n, <2>2
<1>11. ASSUME NEW d \in P \ D
       PROVE  /\ d \in C[d] /\ D \subseteq C[d] /\ C[d] \subseteq P
              /\ victims'[d] \subseteq T[d]
              /\ Cardinality(T[d]) <= RowCap - 1 + Left(d)' + faults'
              /\ Cardinality(MyRows(a)' \ T[d]) + Cardinality(C[d])
                   <= MaxUploadsPerAccount
  <2>1. CASE d = c
    <3>1. D \subseteq P
      BY <1>2 DEF Counted
    <3> QED BY <1>1, <1>4, <1>5, <1>9, <1>10, <2>1, <3>1
  <2>2. CASE d # c
    <3>1. d \in Adders(a) \ D /\ d \in Conns \ {c}
      BY <1>2, <2>2
    <3>2. /\ d \in B[d] /\ D \subseteq B[d] /\ B[d] \subseteq Adders(a)
          /\ victims[d] \subseteq S[d]
          /\ Cardinality(S[d]) <= RowCap - 1 + Left(d) + faults
          /\ Cardinality(MyRows(a) \ S[d]) + Cardinality(B[d])
               <= MaxUploadsPerAccount
      BY <3>1 DEF Counted
    <3>3. /\ Cardinality(S[d]) \in Nat /\ Cardinality(B[d]) \in Nat
          /\ Cardinality(MyRows(a)' \ S[d]) \in Nat
          /\ Cardinality(MyRows(a) \ S[d]) \in Nat
          /\ Left(d) \in Int /\ Left(d)' = Left(d)
      BY <1>n, <1>m, <1>3, <3>1, UploadsFinite, ConnsFinite
    <3>4. Cardinality(MyRows(a)' \ S[d]) <= Cardinality(MyRows(a) \ S[d])
      <4>1. /\ MyRows(a) \ S[d] \in SUBSET Uploads
            /\ MyRows(a)' \ S[d] \in SUBSET (MyRows(a) \ S[d])
        BY <1>n, <1>1
      <4> QED BY <4>1, UploadsFinite
    <3>5. Cardinality(S[d]) <= RowCap - 1 + Left(d)' + faults'
      BY <1>n, <1>m, <3>2, <3>3
    <3>6. Cardinality(MyRows(a)' \ S[d]) + Cardinality(B[d])
            <= MaxUploadsPerAccount
      BY <1>n, <3>2, <3>3, <3>4
    <3>7. victims'[d] = victims[d] /\ T[d] = S[d] /\ C[d] = B[d]
      BY <1>5, <3>1 DEF Elsewhere
    <3> QED BY <1>2, <3>2, <3>5, <3>6, <3>7
  <2> QED BY <2>1, <2>2
<1>12. \A d, e \in P \ D : C[d] \subseteq C[e] \/ C[e] \subseteq C[d]
  <2> SUFFICES ASSUME NEW d \in P \ D, NEW e \in P \ D
               PROVE  C[d] \subseteq C[e] \/ C[e] \subseteq C[d]
    OBVIOUS
  <2>1. CASE d = c \/ e = c
    BY <1>5, <1>11, <2>1
  <2>2. CASE d # c /\ e # c
    <3>1. d \in Adders(a) \ D /\ e \in Adders(a) \ D
      BY <1>2, <2>2
    <3> QED BY <1>5, <2>2, <3>1 DEF Counted
  <2> QED BY <2>1, <2>2
<1>13. \A d \in P : pc'[d] \in {"mkpart", "mkrow"} => d \in D
  BY <1>1, <1>2, <1>n DEF Elsewhere, Counted
<1>14. D \subseteq P
  BY <1>2 DEF Counted
<1>15. Counted(a, D, T, C)'
  BY <1>3, <1>7, <1>11, <1>12, <1>13, <1>14 DEF Counted
<1> QED BY <1>5, <1>15 DEF Sound

(* A row more is an adder less.                                            *)
LEMMA InsertsRoom ==
  ASSUME TypeOK, TypeOK', NEW c \in Conns, NEW a \in Accounts, Acct(c) = a,
         NEW D \in SUBSET Conns, NEW S \in [Conns -> SUBSET Uploads],
         NEW B \in [Conns -> SUBSET Conns], Counted(a, D, S, B),
         Elsewhere(c), faults <= faults', Inserts(c)
  PROVE  Sound(a)'
<1>n. /\ RowCap \in Nat /\ MaxUploadsPerAccount \in Nat /\ faults \in Nat
      /\ Ceiling = RowCap - 1 + MaxUploadsPerAccount + faults
      /\ MyRows(a) \in SUBSET Uploads /\ Adders(a) \in SUBSET Conns
      /\ \A d \in Conns : Left(d) \in Int /\ need[d] \in Nat
  BY RoomNumbers DEF Ceiling, Adders
<1>m. /\ faults' \in Nat
      /\ Ceiling' = RowCap - 1 + MaxUploadsPerAccount + faults'
      /\ MyRows(a)' \in SUBSET Uploads
      /\ \A d \in Conns : Left(d)' \in Int
  BY RoomNumbersNext
<1>1. /\ pc[c] = "mkrow" /\ pc'[c] \notin Adding
      /\ MyRows(a)' \subseteq MyRows(a) \cup {tid[c]}
  BY DEF Inserts
<1>2. PICK P \in SUBSET Conns : P = Adders(a) \ {c}
  BY <1>n
<1>3. /\ Adders(a)' = P /\ c \in Adders(a) /\ c \in D
      /\ \A d \in P : Left(d)' = Left(d) /\ victims'[d] = victims[d]
                     /\ pc'[d] = pc[d]
  BY <1>1, <1>2 DEF Adders, Adding, Elsewhere, Left, Acct, Counted
<1> DEFINE C == [d \in Conns |-> B[d] \ {c}]
<1>4. ASSUME NEW U \in SUBSET Uploads
      PROVE  /\ Cardinality(MyRows(a)' \ U) \in Nat
             /\ Cardinality(MyRows(a) \ U) \in Nat
             /\ Cardinality(MyRows(a)' \ U) <= Cardinality(MyRows(a) \ U) + 1
  <2> DEFINE X == MyRows(a) \ U
  <2>1. IsFiniteSet(X) /\ Cardinality(X) \in Nat
    BY <1>n, UploadsFinite
  <2>2. /\ IsFiniteSet(X \cup {tid[c]})
        /\ Cardinality(X \cup {tid[c]}) \in {Cardinality(X), Cardinality(X) + 1}
    BY <2>1, FS_AddElement
  <2>3. MyRows(a)' \ U \in SUBSET (X \cup {tid[c]})
    BY <1>1
  <2>4. Cardinality(MyRows(a)' \ U) <= Cardinality(X \cup {tid[c]})
    BY <2>2, <2>3, FS_Subset
  <2>5. Cardinality(MyRows(a)' \ U) \in Nat
    BY <1>m, UploadsFinite
  <2> QED BY <2>1, <2>2, <2>4, <2>5
<1>5. Cardinality(MyRows(a)') + Cardinality(D \ {c}) <= Ceiling'
  <2>1. /\ Cardinality(MyRows(a)') \in Nat /\ Cardinality(MyRows(a)) \in Nat
        /\ Cardinality(MyRows(a)') <= Cardinality(MyRows(a)) + 1
    <3>1. MyRows(a) \ {} = MyRows(a) /\ MyRows(a)' \ {} = MyRows(a)'
      OBVIOUS
    <3> QED BY <3>1, <1>4
  <2>2. /\ Cardinality(D) \in Nat
        /\ Cardinality(D \ {c}) = Cardinality(D) - 1
    BY <1>3, OneMore, ConnsFinite
  <2>3. Cardinality(MyRows(a)) + Cardinality(D) <= Ceiling
    BY DEF Counted
  <2> QED BY <1>n, <1>m, <2>1, <2>2, <2>3
<1>6. ASSUME NEW d \in P \ D
      PROVE  /\ d \in C[d] /\ D \ {c} \subseteq C[d] /\ C[d] \subseteq P
             /\ victims'[d] \subseteq S[d]
             /\ Cardinality(S[d]) <= RowCap - 1 + Left(d)' + faults'
             /\ Cardinality(MyRows(a)' \ S[d]) + Cardinality(C[d])
                  <= MaxUploadsPerAccount
  <2>1. d \in Adders(a) \ D /\ d \in Conns /\ d # c
    BY <1>2
  <2>2. /\ d \in B[d] /\ D \subseteq B[d] /\ B[d] \subseteq Adders(a)
        /\ victims[d] \subseteq S[d]
        /\ Cardinality(S[d]) <= RowCap - 1 + Left(d) + faults
        /\ Cardinality(MyRows(a) \ S[d]) + Cardinality(B[d])
             <= MaxUploadsPerAccount
    BY <2>1 DEF Counted
  <2>3. C[d] = B[d] \ {c} /\ c \in B[d] /\ B[d] \in SUBSET Conns
    BY <1>3, <2>1, <2>2
  <2>4. Cardinality(C[d]) = Cardinality(B[d]) - 1
    <3>1. Cardinality(B[d] \ {c}) = Cardinality(B[d]) - 1
      BY <2>3, OneMore
    <3> QED BY <2>3, <3>1
  <2>5. /\ Cardinality(MyRows(a)' \ S[d]) \in Nat
        /\ Cardinality(MyRows(a) \ S[d]) \in Nat
        /\ Cardinality(MyRows(a)' \ S[d])
             <= Cardinality(MyRows(a) \ S[d]) + 1
    <3>1. S[d] \in SUBSET Uploads
      BY <2>1
    <3> QED BY <3>1, <1>4
  <2>6. /\ Cardinality(B[d]) \in Nat /\ Cardinality(S[d]) \in Nat
        /\ Left(d) \in Int /\ Left(d)' = Left(d) /\ victims'[d] = victims[d]
    BY <1>n, <1>3, <2>1, <2>3, ConnsFinite, UploadsFinite
  <2> HIDE DEF C
  <2>7. Cardinality(S[d]) <= RowCap - 1 + Left(d)' + faults'
    BY <1>n, <1>m, <2>2, <2>6
  <2>8. Cardinality(MyRows(a)' \ S[d]) + Cardinality(C[d])
          <= MaxUploadsPerAccount
    BY <1>n, <2>2, <2>4, <2>5, <2>6
  <2> QED BY <1>2, <2>1, <2>2, <2>3, <2>6, <2>7, <2>8
<1>7. \A d, e \in P \ D : C[d] \subseteq C[e] \/ C[e] \subseteq C[d]
  <2> SUFFICES ASSUME NEW d \in P \ D, NEW e \in P \ D
               PROVE  C[d] \subseteq C[e] \/ C[e] \subseteq C[d]
    OBVIOUS
  <2>1. B[d] \subseteq B[e] \/ B[e] \subseteq B[d]
    BY <1>2 DEF Counted
  <2> QED BY <2>1
<1>8. \A d \in P : pc'[d] \in {"mkpart", "mkrow"} => d \in D \ {c}
  BY <1>2, <1>3 DEF Counted
<1>9. D \ {c} \subseteq P
  BY <1>2 DEF Counted
<1>10. C \in [Conns -> SUBSET Conns]
  OBVIOUS
<1>11. P \ (D \ {c}) = P \ D
  BY <1>2
<1> HIDE DEF C
<1>12. Counted(a, D \ {c}, S, C)'
  BY <1>3, <1>5, <1>6, <1>7, <1>8, <1>9, <1>11 DEF Counted
<1> QED BY <1>10, <1>12 DEF Sound

(* A connection's step keeps every account's ledger.                       *)
LEMMA ConnSound ==
  ASSUME TypeOK, TypeOK', TaskShape, AccountingExact,
         NEW c \in Conns, ConnStep(c), NEW a \in Accounts, Sound(a)
  PROVE  Sound(a)'
<1>1. RoomStep(c)
  BY ConnRoom
<1>2. Elsewhere(c) /\ faults <= faults'
  BY <1>1 DEF RoomStep
<1>3. PICK D \in SUBSET Conns, S \in [Conns -> SUBSET Uploads],
           B \in [Conns -> SUBSET Conns] : Counted(a, D, S, B)
  BY DEF Sound
<1>4. CASE Stays(c) \/ Acct(c) # a
  <2>1. MyRows(a)' \subseteq MyRows(a)
    <3>1. CASE Evicts(c)
      <4>1. PICK v : MyRows(a)' \subseteq MyRows(a) \ {v}
        BY <3>1 DEF Evicts
      <4> QED BY <4>1
    <3>2. CASE Inserts(c)
      <4>1. a # Acct(c) \/ MyRows(a)' \subseteq MyRows(a)
        BY <1>4 DEF Stays, NoMoreRows
      <4> QED BY <3>2, <4>1 DEF Inserts
    <3>3. CASE Stays(c) \/ Counts(c) \/ FindsRoom(c)
      BY <3>3 DEF Stays, Counts, FindsRoom, NoMoreRows
    <3> QED BY <1>1, <3>1, <3>2, <3>3 DEF RoomStep
  <2>2. Adders(a)' \subseteq Adders(a)
    <3> SUFFICES ASSUME NEW d \in Adders(a)' PROVE d \in Adders(a)
      OBVIOUS
    <3>1. d \in Conns /\ Acct(d) = a /\ pc'[d] \in Adding
      BY DEF Adders, Acct
    <3>2. pc[d] \in Adding
      BY <1>2, <1>4, <3>1 DEF Elsewhere, Stays
    <3> QED BY <3>1, <3>2 DEF Adders
  <2>3. ASSUME NEW d \in Adders(a)'
        PROVE  /\ pc'[d] \in {"mkpart", "mkrow"} => d \in D
               /\ victims'[d] \subseteq victims[d]
               /\ Left(d) + faults <= Left(d)' + faults'
    <3>1. d \in Conns /\ Acct(d) = a /\ pc'[d] \in Adding /\ d \in Adders(a)
      BY <2>2 DEF Adders, Acct
    <3>2. pc[d] \in {"mkpart", "mkrow"} => d \in D
      BY <1>3, <3>1 DEF Counted
    <3>3. CASE d = c
      BY <1>4, <3>1, <3>2, <3>3 DEF Stays
    <3>4. CASE d # c
      <4>1. /\ pc'[d] = pc[d] /\ victims'[d] = victims[d] /\ need'[d] = need[d]
        BY <1>2, <3>1, <3>4 DEF Elsewhere
      <4>2. Left(d)' = Left(d)
        BY <4>1 DEF Left
      <4>3. Left(d) \in Int /\ faults \in Nat /\ faults' \in Nat
        BY <3>1, RoomNumbers, RoomNumbersNext
      <4> QED BY <1>2, <3>2, <4>1, <4>2, <4>3
    <3> QED BY <3>3, <3>4
  <2> QED BY <1>2, <1>3, <2>1, <2>2, <2>3, CalmRoom
<1>5. CASE Acct(c) = a /\ Counts(c)
  BY <1>2, <1>3, <1>5, CountsRoom
<1>6. CASE Acct(c) = a /\ Evicts(c)
  BY <1>2, <1>3, <1>6, EvictsRoom
<1>7. CASE Acct(c) = a /\ FindsRoom(c)
  BY <1>2, <1>3, <1>7, FindsRoomRoom
<1>8. CASE Acct(c) = a /\ Inserts(c)
  BY <1>2, <1>3, <1>8, InsertsRoom
<1> QED BY <1>1, <1>4, <1>5, <1>6, <1>7, <1>8 DEF RoomStep

(* So do steps of others that add no rows.                                 *)
LEMMA OthersSound ==
  ASSUME TypeOK, TypeOK', UNCHANGED upVars, faults <= faults', NoMoreRows,
         NEW a \in Accounts, Sound(a)
  PROVE  Sound(a)'
<1>1. PICK D \in SUBSET Conns, S \in [Conns -> SUBSET Uploads],
           B \in [Conns -> SUBSET Conns] : Counted(a, D, S, B)
  BY DEF Sound
<1>2. /\ Adders(a)' = Adders(a) /\ MyRows(a)' \subseteq MyRows(a)
      /\ UNCHANGED <<pc, victims, need>>
  BY DEF upVars, Adders, Acct, NoMoreRows
<1>3. \A d \in Conns : /\ Left(d)' = Left(d) /\ Left(d) \in Int
                       /\ faults \in Nat /\ faults' \in Nat
  BY <1>2, RoomNumbers, RoomNumbersNext DEF Left
<1>4. ASSUME NEW d \in Adders(a)
      PROVE  Left(d) + faults <= Left(d)' + faults'
  <2>1. d \in Conns
    BY DEF Adders
  <2> QED BY <1>3, <2>1
<1>5. \A d \in Adders(a) : pc'[d] \in {"mkpart", "mkrow"} => d \in D
  BY <1>1, <1>2 DEF Counted
<1> QED BY <1>1, <1>2, <1>4, <1>5, CalmRoom

(* Users, time, the sweeper and the startup add no rows.                   *)
LEMMA OthersRows ==
  ASSUME TypeOK, \/ DeleteEntry \/ Unlink \/ EditFolder \/ Age
                 \/ SweeperStep \/ StartupStep
  PROVE  /\ UNCHANGED upVars /\ faults <= faults' /\ NoMoreRows
         /\ UNCHANGED past \/ \E r, e, w : Commit(r, e, w)
<1>t. DbType /\ faults \in Nat /\ todo \subseteq Uploads
  BY DEF TypeOK, ServerType
<1>m. row' = row => NoMoreRows
  BY DEF NoMoreRows, MyRows, HasRow
<1>d. ASSUME NEW u \in Uploads, row' = DeleteRow(u)
      PROVE  NoMoreRows
  BY <1>t, <1>d, RowsUpdates DEF NoMoreRows
<1>f. AFault \/ NoFault \/ UNCHANGED faults => faults <= faults'
  BY <1>t DEF AFault, NoFault
<1>1. CASE DeleteEntry \/ Unlink \/ EditFolder
  <2>1. /\ row' = row /\ UNCHANGED <<upVars, faults>>
        /\ UNCHANGED past \/ \E r, e, w : Commit(r, e, w)
    BY <1>1 DEF DeleteEntry, Deleted, Unlink, EditFolder, Commit, dbVars
  <2> QED BY <1>m, <1>f, <2>1
<1>2. CASE Age
  <2>1. PICK u \in Uploads :
          \/ row' = row
          \/ HasRow(u) /\ row' = [row EXCEPT ![u] = [@ EXCEPT !.old = TRUE]]
    BY <1>2 DEF Age
  <2>2. ASSUME NEW a PROVE MyRows(a)' \subseteq MyRows(a)
    BY <1>t, <2>1, RowsUpdates
  <2> QED BY <1>2, <1>f, <2>2 DEF Age, NoMoreRows
<1>3. CASE SweepStale
  <2>1. /\ UNCHANGED upVars
        /\ UNCHANGED dbVars \/ \E r, e, w : Commit(r, e, w)
        /\ AFault \/ NoFault \/ UNCHANGED faults
        /\ UNCHANGED dbVars \/ \E u \in todo : row' = DeleteRow(u)
    BY <1>3 DEF SweepStale, Commit
  <2> QED BY <1>m, <1>d, <1>f, <1>t, <2>1 DEF dbVars
<1>4. CASE SweeperStep /\ ~SweepStale
  <2>1. /\ UNCHANGED upVars /\ UNCHANGED dbVars
        /\ AFault \/ NoFault \/ UNCHANGED faults
    BY <1>4 DEF SweeperStep, SweepStart, ListStale, SweepStalePart,
       SweepParts, SweepOrphanPart, SweepEnd, ListBlobs, HoldBlobs,
       FindOrphans, Quarantine, LeaveBlobs, Purge
  <2> QED BY <1>m, <1>f, <2>1 DEF dbVars
<1>5. CASE StartupStep
  <2>1. /\ UNCHANGED upVars
        /\ UNCHANGED dbVars \/ \E r, e, w : Commit(r, e, w)
        /\ AFault \/ NoFault \/ UNCHANGED faults
        /\ UNCHANGED dbVars \/ \E u \in todo : row' = DeleteRow(u)
    BY <1>5 DEF StartupStep, Repair, RepairParts, RepairPart, StartupSweep,
       ListStale, Commit
  <2> QED BY <1>m, <1>d, <1>f, <1>t, <2>1 DEF dbVars
<1> QED BY <1>1, <1>2, <1>3, <1>4, <1>5

(* An account whose rows fit under the ceiling, with nobody adding, is     *)
(* sound; and a sound one's rows fit.                                      *)
LEMMA RestSound ==
  ASSUME NEW a, Adders(a)' = {}, MyRows(a)' \in SUBSET Uploads,
         Cardinality(MyRows(a)') <= Ceiling'
  PROVE  Sound(a)'
<1>1. Cardinality(MyRows(a)') + Cardinality({}) <= Ceiling'
  <2>1. Cardinality(MyRows(a)') \in Nat /\ Cardinality({}) = 0
    BY UploadsFinite, FS_EmptySet
  <2> QED BY <2>1
<1> DEFINE S == [c \in Conns |-> {}]
           B == [c \in Conns |-> {}]
<1>2. Counted(a, {}, S, B)'
  BY <1>1 DEF Counted
<1>3. S \in [Conns -> SUBSET Uploads] /\ B \in [Conns -> SUBSET Conns]
  OBVIOUS
<1> HIDE DEF S, B
<1> QED BY <1>2, <1>3 DEF Sound

LEMMA SoundFits ==
  ASSUME TypeOK, NEW a \in Accounts, Sound(a)
  PROVE  Cardinality(MyRows(a)) \in Nat /\ Cardinality(MyRows(a)) <= Ceiling
<1>1. PICK D \in SUBSET Conns :
        Cardinality(MyRows(a)) + Cardinality(D) <= Ceiling
  BY DEF Sound, Counted
<1>2. /\ Cardinality(MyRows(a)) \in Nat /\ Cardinality(D) \in Nat
      /\ Ceiling \in Nat
  BY RoomNumbers, UploadsFinite, ConnsFinite
<1> QED BY <1>1, <1>2

(* The states a power loss may bring back fit as well.                     *)
LEMMA PastKept ==
  ASSUME TypeOK, TypeOK', NEW a \in Accounts, Sound(a), PastSound(a),
         faults <= faults', UNCHANGED past \/ \E r, e, w : Commit(r, e, w)
  PROVE  PastSound(a)'
<1>1. \A i \in DOMAIN past' :
        \/ past'[i] = <<row, entry, away>>
        \/ \E j \in DOMAIN past : past'[i] = past[j]
  <2>1. CASE UNCHANGED past
    BY <2>1
  <2>2. CASE \E r, e, w : Commit(r, e, w)
    BY <2>2, PastStates DEF TypeOK, DbType
  <2> QED BY <2>1, <2>2
<1>2. ASSUME NEW i \in DOMAIN past'
      PROVE  Cardinality(RowsIn(past'[i][1], a)) <= Ceiling
  <2>1. CASE past'[i] = <<row, entry, away>>
    <3>1. RowsIn(past'[i][1], a) = MyRows(a)
      BY <2>1 DEF RowsIn, MyRows, HasRow
    <3> QED BY <3>1, SoundFits
  <2>2. CASE \E j \in DOMAIN past : past'[i] = past[j]
    BY <2>2 DEF PastSound
  <2> QED BY <1>1, <2>1, <2>2
<1>3. ASSUME NEW i \in DOMAIN past'
      PROVE  Cardinality(RowsIn(past'[i][1], a)) <= Ceiling'
  <2> DEFINE n == Cardinality(RowsIn(past'[i][1], a))
  <2>1. n \in Nat
    <3>1. RowsIn(past'[i][1], a) \in SUBSET Uploads
      BY DEF RowsIn
    <3> QED BY <3>1, UploadsFinite
  <2>2. n <= Ceiling
    BY <1>2
  <2>3. /\ RowCap \in Nat /\ MaxUploadsPerAccount \in Nat /\ faults \in Nat
        /\ faults' \in Nat
        /\ Ceiling' = RowCap - 1 + MaxUploadsPerAccount + faults'
    BY RoomNumbers, RoomNumbersNext
  <2> HIDE DEF n
  <2>4. Ceiling = RowCap - 1 + MaxUploadsPerAccount + faults
    BY DEF Ceiling
  <2>5. faults <= faults'
    OBVIOUS
  <2>6. \A j, k, m, f, g \in Nat :
          j <= k - 1 + m + f /\ f <= g => j <= k - 1 + m + g
    OBVIOUS
  <2>7. n <= RowCap - 1 + MaxUploadsPerAccount + faults
    BY <2>2, <2>4
  <2>8. n <= RowCap - 1 + MaxUploadsPerAccount + faults'
    BY <2>1, <2>3, <2>5, <2>6, <2>7
  <2> QED BY <2>3, <2>8 DEF n
<1> QED BY <1>3 DEF PastSound

(* After a crash nobody is adding, and the rows are those of the database  *)
(* or of one of its past states.                                           *)
LEMMA CrashSound ==
  ASSUME TypeOK, TypeOK', Crash \/ PowerLoss, NEW a \in Accounts,
         Sound(a), PastSound(a)
  PROVE  Sound(a)' /\ PastSound(a)'
<1>1. \E r : Restart(r)
  BY DEF Crash, PowerLoss
<1>2. Adders(a)' = {} /\ faults' = faults /\ Ceiling' = Ceiling
  BY <1>1 DEF Restart, Adders, Adding, Ceiling
<1>3. /\ row' = row \/ \E i \in DOMAIN past : row' = past[i][1]
      /\ past' = past \/ past' = <<>>
  <2>1. CASE Crash
    BY <2>1 DEF Crash, dbVars
  <2>2. CASE PowerLoss
    <3>1. PICK d \in {<<row, entry, away>>} \cup {past[i] : i \in DOMAIN past} :
            row' = d[1]
      BY <2>2 DEF PowerLoss
    <3>2. d[1] = row \/ \E i \in DOMAIN past : d[1] = past[i][1]
      BY <3>1
    <3> QED BY <2>2, <3>1, <3>2 DEF PowerLoss
  <2> QED BY <2>1, <2>2
<1>4. MyRows(a)' = RowsIn(row', a) /\ MyRows(a) = RowsIn(row, a)
  BY DEF MyRows, RowsIn, HasRow
<1>5. Cardinality(MyRows(a)') <= Ceiling'
  BY <1>2, <1>3, <1>4, SoundFits DEF PastSound
<1>6. MyRows(a)' \in SUBSET Uploads
  BY RoomNumbersNext
<1>7. PastSound(a)'
  BY <1>2, <1>3 DEF PastSound
<1> QED BY <1>2, <1>5, <1>6, <1>7, RestSound

LEMMA RoomSoundHolds == Spec => []RoomSound
<1>1. RecoveryInit => RoomSound
  <2> SUFFICES ASSUME RecoveryInit, NEW a \in Accounts
               PROVE  Sound(a) /\ PastSound(a)
    BY DEF RoomSound
  <2>1. /\ Adders(a) = {} /\ MyRows(a) = {} /\ past = <<>> /\ faults = 0
    BY DEF RecoveryInit, Init, Adders, Adding, MyRows, HasRow
  <2>2. Cardinality({}) = 0
    BY FS_EmptySet
  <2>3. 0 <= Ceiling
    BY <2>1, TransferConstants, ClaimConstants DEF Ceiling, RowCap
  <2> DEFINE S == [c \in Conns |-> {}]
             B == [c \in Conns |-> {}]
  <2>4. Counted(a, {}, S, B)
    BY <2>1, <2>2, <2>3 DEF Counted
  <2>5. S \in [Conns -> SUBSET Uploads] /\ B \in [Conns -> SUBSET Conns]
    OBVIOUS
  <2> HIDE DEF S, B
  <2> QED BY <2>1, <2>4, <2>5 DEF Sound, PastSound
<1>2. Ownership /\ Ownership' /\ AccountingExact /\ RoomSound /\ [Next]_vars
        => RoomSound'
  <2> SUFFICES ASSUME Ownership, Ownership', AccountingExact, RoomSound,
                      [Next]_vars, NEW a \in Accounts
               PROVE  Sound(a)' /\ PastSound(a)'
    BY DEF RoomSound
  <2>1. TypeOK /\ TypeOK' /\ TaskShape /\ Sound(a) /\ PastSound(a)
    BY DEF Ownership, RoomSound
  <2>2. ASSUME NEW c \in Conns, ConnStep(c) PROVE Sound(a)' /\ PastSound(a)'
    <3>1. Sound(a)'
      BY <2>1, <2>2, ConnSound
    <3>2. UNCHANGED past \/ \E r, e, w : Commit(r, e, w)
      BY <2>2, ConnCommits DEF dbVars
    <3>3. faults <= faults'
      BY <2>1, <2>2, ConnRoom DEF RoomStep
    <3> QED BY <2>1, <3>1, <3>2, <3>3, PastKept
  <2>3. CASE \/ DeleteEntry \/ Unlink \/ EditFolder \/ Age
             \/ SweeperStep \/ StartupStep
    BY <2>1, <2>3, OthersRows, OthersSound, PastKept
  <2>4. CASE Crash \/ PowerLoss
    BY <2>1, <2>4, CrashSound
  <2>5. CASE UNCHANGED vars
    <3>1. /\ UNCHANGED upVars /\ faults' = faults /\ UNCHANGED dbVars
      BY <2>5 DEF vars
    <3>2. NoMoreRows /\ UNCHANGED past
      BY <3>1 DEF dbVars, NoMoreRows, MyRows, HasRow
    <3>3. faults <= faults'
      BY <2>1, <3>1, RoomNumbers
    <3> QED BY <2>1, <3>1, <3>2, <3>3, OthersSound, PastKept
  <2> QED BY <2>2, <2>3, <2>4, <2>5 DEF Next
<1> QED BY <1>1, <1>2, OwnershipHolds, CountersNeverDrift, PTL DEF Spec

(* However begin_uploads of an account overlap, evict each other's and     *)
(* their own victims, fail or die, the account never has more rows than    *)
(* the cap and one for every other upload it may run, and one for every    *)
(* eviction that failed.                                                   *)
THEOREM RowsNeverPileUp == Spec => []OpenUploadsBounded
<1>1. Ownership /\ RoomSound => OpenUploadsBounded
  <2> SUFFICES ASSUME Ownership, RoomSound, NEW a \in Accounts
               PROVE  Cardinality(MyRows(a))
                        <= RowCap + MaxUploadsPerAccount - 1 + faults
    BY DEF OpenUploadsBounded
  <2>1. TypeOK
    BY DEF Ownership
  <2>2. /\ Cardinality(MyRows(a)) \in Nat
        /\ Cardinality(MyRows(a)) <= Ceiling
    BY <2>1, SoundFits DEF RoomSound
  <2> QED BY <2>1, <2>2, RoomNumbers DEF Ceiling
<1> QED BY <1>1, OwnershipHolds, RoomSoundHolds, PTL
=============================================================================
