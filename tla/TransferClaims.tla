-------------------------- MODULE TransferClaims --------------------------
(***************************************************************************)
(* The table of live transfers (struct Live in transfer/manager.rs) and    *)
(* the operations every transfer applies to it under its mutex: claiming   *)
(* an upload or download slot, holding an id while it is deleted, and      *)
(* releasing.  The destination folder is fixed, so a destination is a      *)
(* name.  Names are numbered in the order free_name tries them: the        *)
(* variants of name n are n, n+1, ..., MaxName.                            *)
(***************************************************************************)
EXTENDS Naturals, FiniteSets

CONSTANTS
  Uploads,               \* transfer ids (UUIDs)
  Accounts,
  MaxName,               \* names of the destination folder: 1 .. MaxName
  MaxUploadsPerAccount,
  MaxDownloadsPerAccount,
  MaxConcurrent,         \* uploads plus downloads, server-wide
  MaxReserved            \* bytes (here chunks) live uploads may still write

ASSUME ClaimConstants ==
  /\ {MaxName, MaxUploadsPerAccount, MaxDownloadsPerAccount,
      MaxConcurrent, MaxReserved} \subseteq Nat

Names  == 1 .. MaxName
NoName == 0              \* the claim of an upload that is already filed

LiveType ==
  [held : SUBSET Uploads, names : SUBSET Names,
   up : [Accounts -> Nat], down : [Accounts -> Nat],
   total : Nat, bytes : Nat]

EmptyLive ==
  [held |-> {}, names |-> {}, up |-> [a \in Accounts |-> 0],
   down |-> [a \in Accounts |-> 0], total |-> 0, bytes |-> 0]

SatSub(m, n) == IF n <= m THEN m - n ELSE 0

(* Mutant: claim_upload without its Busy check.                            *)
CanClaimUpload_NoBusy(l, a, u, n, b) ==
  /\ l.up[a] < MaxUploadsPerAccount
  /\ l.total < MaxConcurrent
  /\ n \notin l.names
  /\ l.bytes + b <= MaxReserved

(* Shared::claim_upload: every check, then every update, in one critical   *)
(* section.  n = NoName claims no destination.                             *)
CanClaimUpload(l, a, u, n, b) ==
  /\ u \notin l.held                       \* Busy
  /\ l.up[a] < MaxUploadsPerAccount        \* TooManyTransfers
  /\ l.total < MaxConcurrent               \* ServerBusy
  /\ n \notin l.names                      \* Exists
  /\ l.bytes + b <= MaxReserved            \* InsufficientSpace

ClaimUpload(l, a, u, n, b) ==
  [l EXCEPT !.held = @ \cup {u}, !.names = @ \cup ({n} \ {NoName}),
            !.up = [l.up EXCEPT ![a] = @ + 1], !.total = @ + 1, !.bytes = @ + b]

(* Mutants: the bytes, or the name, are not given back.                    *)
ReleaseUpload_KeepsBytes(l, a, u, n, b) ==
  [l EXCEPT !.held = @ \ {u}, !.names = @ \ {n},
            !.up = [l.up EXCEPT ![a] = SatSub(@, 1)], !.total = SatSub(@, 1)]

ReleaseUpload_KeepsName(l, a, u, n, b) ==
  [l EXCEPT !.held = @ \ {u}, !.up = [l.up EXCEPT ![a] = SatSub(@, 1)],
            !.total = SatSub(@, 1), !.bytes = SatSub(@, b)]

(* Drop for Claim, ClaimKind::Upload.                                      *)
ReleaseUpload(l, a, u, n, b) ==
  [l EXCEPT !.held = @ \ {u}, !.names = @ \ {n},
            !.up = [l.up EXCEPT ![a] = SatSub(@, 1)], !.total = SatSub(@, 1),
            !.bytes = SatSub(@, b)]

CanClaimDownload(l, a) ==
  /\ l.down[a] < MaxDownloadsPerAccount
  /\ l.total < MaxConcurrent

ClaimDownload(l, a) ==
  [l EXCEPT !.down = [l.down EXCEPT ![a] = @ + 1], !.total = @ + 1]

ReleaseDownload(l, a) ==
  [l EXCEPT !.down = [l.down EXCEPT ![a] = SatSub(@, 1)],
            !.total = SatSub(@, 1)]

(* Shared::hold and the drop of a ClaimKind::Hold.                         *)
Hold(l, us)   == [l EXCEPT !.held = @ \cup us]
Unhold(l, us) == [l EXCEPT !.held = @ \ us]

(* free_name: the first variant of n that is not taken.                    *)
FreeNames(n, taken) == {m \in Names : m >= n /\ m \notin taken}
FreeName(n, taken)  ==
  CHOOSE m \in FreeNames(n, taken) : \A k \in FreeNames(n, taken) : m <= k
===========================================================================
