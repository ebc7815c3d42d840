----------------------------- MODULE FrameStream -----------------------------
(***************************************************************************)
(* Messages over the byte stream (kdx-protocol: fragment.rs, codec.rs,     *)
(* header.rs, limits.rs). The sender splits a payload into frames; the     *)
(* stream hands the receiver bytes in pieces of any size; the codec parks  *)
(* a header whose payload has not arrived; the reassembler puts the        *)
(* fragments of a message together again.                                  *)
(*                                                                         *)
(* A cell of the stream is a byte: of a header (which carries it whole) or *)
(* of a payload.                                                           *)
(***************************************************************************)
EXTENDS Integers, Sequences, SequencesExt

CONSTANTS HeaderLen,        \* HEADER_LEN
          MaxPayload,       \* DEFAULT_MAX_FRAME_PAYLOAD
          SequenceMod,      \* 2^32 in the code
          Types,            \* the packet types in use
          Cap(_),           \* max_request_payload
          Lengths,          \* payload lengths tried
          MaxSent           \* bound on the messages sent

ASSUME FrameAssumption ==
    /\ HeaderLen \in Nat \ {0} /\ MaxPayload \in Nat \ {0}
    /\ SequenceMod \in Nat \ {0} /\ MaxSent \in Nat
    /\ Lengths \subseteq Nat /\ \A t \in Types : Cap(t) \in Nat

VARIABLES version,      \* the protocol version the sender speaks
          outbox,       \* messages handed to the sender
          seq,          \* the sender's next sequence number
          stream,       \* cells on the way
          src,          \* KdxCodec's input buffer
          pending,      \* KdxCodec.pending: a header or NoHeader
          group,        \* Reassembler.in_progress: a record or NoGroup
          buffer,       \* Reassembler.buffer
          inbox,        \* messages handed to dispatch
          fault         \* the error that ended the connection, or "none"

streamVars == <<version, outbox, seq, stream, src, pending, group, buffer,
                inbox, fault>>

PROTOCOL_VERSION == 2
NoHeader == [type |-> "none", more |-> FALSE, frag |-> FALSE, seq |-> 0,
             length |-> 0, version |-> 0]
NoGroup == [open |-> FALSE, type |-> "none", next |-> 0, max |-> 0]

StreamInit ==
    /\ version \in {PROTOCOL_VERSION - 1, PROTOCOL_VERSION}
    /\ outbox = <<>> /\ seq = 0 /\ stream = <<>> /\ src = <<>>
    /\ pending = NoHeader /\ group = NoGroup /\ buffer = <<>>
    /\ inbox = <<>> /\ fault = "none"

-----------------------------------------------------------------------------
(* Sending *)

Header(t, frag, more, s, n) ==
    [type |-> t, frag |-> frag, more |-> more, seq |-> s, length |-> n,
     version |-> version]

\* fragment.rs fragment: the frames of a message, numbered from `first`
Fragment(m, first) ==
    LET n == (Len(m.data) + MaxPayload - 1) \div MaxPayload
        chunk(i) == SubSeq(m.data, (i - 1) * MaxPayload + 1,
                           IF i = n THEN Len(m.data) ELSE i * MaxPayload)
    IN IF Len(m.data) <= MaxPayload
       THEN <<[header |-> Header(m.type, FALSE, FALSE, first, Len(m.data)),
               data |-> m.data]>>
       ELSE [i \in 1..n |->
               [header |-> Header(m.type, TRUE, i < n,
                                  (first + i - 1) % SequenceMod,
                                  Len(chunk(i))),
                data |-> chunk(i)]]

\* codec.rs encode and header.rs encode
FrameCells(f) ==
    [i \in 1..HeaderLen |-> [of |-> "header", header |-> f.header,
                             byte |-> <<0, i>>]]
      \o [i \in DOMAIN f.data |-> [of |-> "payload", header |-> NoHeader,
                                   byte |-> f.data[i]]]

(* A message of type t and length n; its bytes are told apart by the
   message and their place in it. *)
Send(t, n) ==
    LET id == Len(outbox) + 1
        m == [type |-> t, version |-> version,
              data |-> [i \in 1..n |-> <<id, i>>]]
        frames == Fragment(m, seq)
    IN /\ id <= MaxSent
       /\ outbox' = Append(outbox, m)
       /\ stream' = stream \o FlattenSeq([i \in DOMAIN frames |->
                                             FrameCells(frames[i])])
       /\ seq' = (seq + Len(frames)) % SequenceMod
       /\ UNCHANGED <<version, src, pending, group, buffer, inbox, fault>>

\* External: the TLS stream delivers the next n bytes
Arrive(n) ==
    /\ fault = "none" /\ n <= Len(stream)
    /\ src' = src \o SubSeq(stream, 1, n)
    /\ stream' = SubSeq(stream, n + 1, Len(stream))
    /\ UNCHANGED <<version, outbox, seq, pending, group, buffer, inbox,
                   fault>>

-----------------------------------------------------------------------------
(* Receiving *)

\* header.rs decode: a stream out of step shows no header here
HeaderFault(cells) ==
    IF \E i \in DOMAIN cells : cells[i].byte # <<0, i>> THEN "bad_magic"
    ELSE IF cells[1].header.version # PROTOCOL_VERSION
    THEN "unsupported_version"
    ELSE IF cells[1].header.length > MaxPayload THEN "payload_too_large"
    ELSE "none"

Stop(why) ==
    /\ fault' = why
    /\ UNCHANGED <<version, outbox, seq, stream, group, buffer, inbox>>

\* codec.rs decode up to the parked header: None until it is complete
TakeHeader ==
    /\ fault = "none" /\ pending = NoHeader /\ Len(src) >= HeaderLen
    /\ LET cells == SubSeq(src, 1, HeaderLen)
           why == HeaderFault(cells)
       IN /\ src' = SubSeq(src, HeaderLen + 1, Len(src))
          /\ IF why # "none" THEN Stop(why) /\ UNCHANGED pending
             ELSE /\ pending' = cells[1].header
                  /\ UNCHANGED <<version, outbox, seq, stream, group, buffer,
                                 inbox, fault>>

Contents(cells) == [i \in DOMAIN cells |-> cells[i].byte]

\* finish: the message the fragments add up to
Whole(h, data) == [type |-> h.type, version |-> h.version, data |-> data]

\* A message's total length is not capped
Push_Uncapped(h, data) ==
    LET all == IF group.open THEN buffer \o data ELSE data
    IN IF h.frag /\ h.more
       THEN [err |-> "none", buffer |-> all, out |-> <<>>,
             group |-> [open |-> TRUE, type |-> h.type, max |-> 0,
                        next |-> (h.seq + 1) % SequenceMod]]
       ELSE [err |-> "none", group |-> NoGroup, buffer |-> <<>>,
             out |-> <<Whole(h, all)>>]

\* The number expected next does not wrap as the sender's does
Push_NoWrap(h, data) ==
    IF group.open /\ h.seq # group.next
    THEN [err |-> "out_of_order", group |-> group, buffer |-> buffer,
          out |-> <<>>]
    ELSE LET r == Push_Uncapped(h, data)
         IN [r EXCEPT !.group.next = h.seq + 1]

(* fragment.rs push: what becomes of the group, the buffer and the inbox,
   and the error if there is one. *)
Push(h, data) ==
    LET all == IF group.open THEN buffer \o data ELSE data
        max == IF group.open THEN group.max ELSE Cap(h.type)
        err(why, g) == [err |-> why, group |-> g, buffer |-> buffer,
                        out |-> <<>>]
    IN IF ~h.frag
       THEN IF group.open THEN err("interleaved", group)
            ELSE [err |-> "none", group |-> group, buffer |-> buffer,
                  out |-> <<Whole(h, data)>>]
       ELSE IF group.open /\ h.type # group.type
       THEN err("interleaved", group)
       ELSE IF group.open /\ h.seq # group.next
       THEN err("out_of_order", group)
       ELSE IF Len(all) > max THEN err("too_large", NoGroup)
       ELSE IF h.more
       THEN [err |-> "none", buffer |-> all, out |-> <<>>,
             group |-> [open |-> TRUE, type |-> h.type, max |-> max,
                        next |-> (h.seq + 1) % SequenceMod]]
       ELSE [err |-> "none", group |-> NoGroup, buffer |-> <<>>,
             out |-> <<Whole(h, all)>>]

\* codec.rs decode once the payload is there, and the connection's push
TakePayload ==
    /\ fault = "none" /\ pending # NoHeader /\ Len(src) >= pending.length
    /\ LET r == Push(pending, Contents(SubSeq(src, 1, pending.length)))
       IN /\ fault' = r.err
          /\ group' = r.group
          /\ buffer' = r.buffer
          /\ inbox' = inbox \o r.out
    /\ src' = SubSeq(src, pending.length + 1, Len(src))
    /\ pending' = NoHeader
    /\ UNCHANGED <<version, outbox, seq, stream>>

(* The connection's reassembly deadline, which runs while a group is open
   (is_reassembling): it drops the group and ends the connection. *)
ReassemblyTimeout ==
    /\ fault = "none" /\ group.open
    /\ fault' = "timeout" /\ group' = NoGroup /\ buffer' = <<>>
    /\ UNCHANGED <<version, outbox, seq, stream, src, pending, inbox>>

StreamNext ==
    \/ \E t \in Types, n \in Lengths : Send(t, n)
    \/ \E n \in 1 .. Len(stream) : Arrive(n)
    \/ TakeHeader
    \/ TakePayload
    \/ ReassemblyTimeout

StreamSpec == StreamInit /\ [][StreamNext]_streamVars

\* The peer's writes and this side's read loop keep running
StreamFairness ==
    /\ WF_streamVars(\E n \in 1 .. Len(stream) : Arrive(n))
    /\ WF_streamVars(TakeHeader)
    /\ WF_streamVars(TakePayload)

-----------------------------------------------------------------------------
(* Properties *)

Accepted(m) ==
    /\ m.version = PROTOCOL_VERSION
    /\ Len(m.data) <= MaxPayload \/ Len(m.data) <= Cap(m.type)

Channel == INSTANCE MessageChannel
    WITH sent <- outbox, got <- inbox, broken <- fault # "none"

(* However the stream is cut into pieces and whatever the sequence numbers
   wrap to, dispatch sees the messages that were sent, whole, once and in
   order, up to the first one over its type's cap, and none from a peer of
   another version (KdxCodec::decode, Reassembler::push). *)
StreamIsChannel == Channel!Spec

(* A sender that keeps to the caps and the version is heard: each of its
   messages reaches dispatch, unless the reassembly deadline ran out. *)
EveryMessageArrives ==
    \A k \in 1..MaxSent :
        (Len(outbox) >= k /\ \A i \in 1..k : Accepted(outbox[i]))
          ~> (Len(inbox) >= k \/ fault = "timeout")

=============================================================================
