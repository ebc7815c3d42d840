----------------------------- MODULE MCProtocol -----------------------------
(***************************************************************************)
(* The wire protocol and the transfers that go over it, at a small scale.  *)
(* A behaviour is about one payload, about the frames of a connection or   *)
(* about the transfers of a client, as `subject` says; the others rest.    *)
(***************************************************************************)
EXTENDS WirePayloads, FrameStream, ClientTransfers

VARIABLE subject

SmallCap(t) == IF t = "FileTransferData" THEN 5 ELSE 3

\* A u16 has one digit, so that a string of three bytes is too long
SmallWidth == [u8 |-> 1, u16 |-> 1, u32 |-> 2, u64 |-> 2,
               a16 |-> 1, a32 |-> 2]

SmallSamples == [
    u8 |-> <<0, 2>>, way |-> <<0, 1>>, u16 |-> <<0, 2>>, u32 |-> <<0, 1, 8>>,
    u64 |-> <<0, 5, 8>>, i32 |-> <<0, -1, 4>>,
    a16 |-> <<<<0>>, <<2>>>>, a32 |-> <<<<0, 1>>, <<2, 0>>>>,
    flag |-> <<TRUE, FALSE>>, bool |-> <<TRUE, FALSE>>,
    str |-> <<<<0>>, <<>>, <<1, 2>>, <<0, 1, 2>>, <<0, 0, 0>>>>,
    blob |-> <<<<2>>, <<>>, <<1, 2, 0>>>>,
    salt |-> <<<<2>>, <<>>, <<1, 2, 0>>>>,
    rest |-> <<<<>>, <<2, 1, 0>>>>]

\* The second version of the remote file is longer than the first.
SmallSize == <<1, 2>>

Ways == {"upload", "download"}
SmallJobs == <<Ways, Ways>>

vars == <<subject, payloadVars, streamVars, carryVars>>

NoPayload ==
  /\ msg = "AuthRequest" /\ value = <<>> /\ payload = <<>>
  /\ intact = FALSE /\ result = Unread

Init ==
  /\ subject \in {"payload", "stream", "transfers"}
  /\ StreamInit /\ (version # PROTOCOL_VERSION => subject = "stream")
  /\ CarryInit
  /\ IF subject = "payload" THEN PayloadInit ELSE NoPayload

PayloadStep ==
  /\ subject = "payload" /\ PayloadNext
  /\ UNCHANGED <<subject, streamVars, carryVars>>
StreamStep ==
  /\ subject = "stream" /\ StreamNext
  /\ UNCHANGED <<subject, payloadVars, carryVars>>
CarryStep ==
  /\ subject = "transfers" /\ CarryNext
  /\ UNCHANGED <<subject, payloadVars, streamVars>>

Next == PayloadStep \/ StreamStep \/ CarryStep

\* Where a part rests nothing of it is enabled, and its fairness asks for
\* nothing.
Spec == Init /\ [][Next]_vars /\ StreamFairness /\ CarryFairness
=============================================================================
