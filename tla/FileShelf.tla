----------------------------- MODULE FileShelf -----------------------------
(***************************************************************************)
(* What the file area promises its users, with no uploads, partial files,  *)
(* sweeper, crash or repair in sight: a file that can be downloaded stays  *)
(* downloadable until somebody deletes it, and whoever was told that an    *)
(* upload is complete finds it on the shelf unless it was deleted.         *)
(* Promised of transfer/manager.rs across process crashes; TransferRecovery*)
(* is shown to implement it.                                               *)
(***************************************************************************)
CONSTANT Uploads

VARIABLES
  shelf,    \* files that are listed and have their bytes
  told,     \* uploads whose client was told TRANSFER_VERIFIED
  gone      \* files a user deleted

Init == shelf = {} /\ told = {} /\ gone = {}

Publish(u) ==
  /\ shelf' = shelf \cup {u}
  /\ UNCHANGED <<told, gone>>

Tell(u) ==
  /\ u \in shelf \cup gone
  /\ told' = told \cup {u}
  /\ UNCHANGED <<shelf, gone>>

Delete(u) ==
  /\ shelf' = shelf \ {u}
  /\ gone' = gone \cup {u}
  /\ UNCHANGED told

Next == \E u \in Uploads : Publish(u) \/ Tell(u) \/ Delete(u)

Spec == Init /\ [][Next]_<<shelf, told, gone>>
============================================================================
