------------------------------- MODULE Pacing -------------------------------
(***************************************************************************)
(* What slows requests and transfers down: the flood gates of a connection *)
(* (kdx-server-core/src/chat/flood.rs; RateLimits in connection.rs; the    *)
(* same bucket, kept per account, is news.rs's allow_post) and the         *)
(* bandwidth bucket that all transfers of an account share                 *)
(* (transfer/throttle.rs, charged by transfer/download.rs).                *)
(*                                                                         *)
(* Time is in ticks.  A gate's tokens are counted in parts, TokenParts of  *)
(* which are a token, so that slow refills stay exact; the throttle's      *)
(* clock is counted in bytes' worth of time at one byte a tick.  `mark` is *)
(* any moment: what passed since is counted against the time since.        *)
(***************************************************************************)
EXTENDS Integers, FiniteSets, Functions

CONSTANTS
  TokenParts, GateBurst,   \* parts in a token; burst in tokens
  GateRefill,              \* parts earned per tick
  Carriers,                \* transfers that share the bandwidth bucket
  ChunkSizes, ByteBurst,   \* in bytes; the largest chunk fits the burst
  MaxTicks,                \* bound on time
  MaxAhead                 \* bound on how far tat runs ahead of now

ASSUME PacingAssumption ==
  /\ TokenParts \in Nat \ {0} /\ GateBurst \in Nat \ {0} /\ GateRefill \in Nat
  /\ ByteBurst \in Nat /\ MaxTicks \in Nat /\ MaxAhead \in Nat
  /\ ChunkSizes \subseteq 1..ByteBurst /\ IsFiniteSet(Carriers)

VARIABLES
  tick,      \* Instant::now()
  gate,      \* FloodGate: tokens (in parts) and last
  tat,       \* TokenBucket.tat
  charged,   \* per transfer: the chunk charged for and when it may go
  mark,      \* the moment from which is counted
  passed,    \* requests let through since
  sent,      \* bytes of chunks that went out since
  heldBack   \* bytes of chunks that could have gone out at mark

pacingVars == <<tick, gate, tat, charged, mark, passed, sent, heldBack>>

Uncharged == [size |-> 0, at |-> 0]
Lower(a, b) == IF a < b THEN a ELSE b
Higher(a, b) == IF a > b THEN a ELSE b

PacingInit ==
  /\ tick = 0 /\ tat = 0 /\ mark = 0 /\ passed = 0 /\ sent = 0 /\ heldBack = 0
  /\ gate = [tokens |-> GateBurst * TokenParts, last |-> 0]
  /\ charged = [c \in Carriers |-> Uncharged]

(***************************************************************************)
(* FloodGate.                                                              *)
(***************************************************************************)
Refilled(g) ==
  Lower(g.tokens + (tick - g.last) * GateRefill, GateBurst * TokenParts)

Allowed == Refilled(gate) >= TokenParts

Allow ==
  /\ gate' = [tokens |-> Refilled(gate) - IF Allowed THEN TokenParts ELSE 0,
              last |-> tick]
  /\ passed' = passed + IF Allowed THEN 1 ELSE 0
  /\ UNCHANGED <<tick, tat, charged, mark, sent, heldBack>>

\* ready_at: asked before every read of a frame.
AskReady ==
  /\ gate' = [tokens |-> Refilled(gate), last |-> tick]
  /\ UNCHANGED <<tick, tat, charged, mark, passed, sent, heldBack>>

(***************************************************************************)
(* TokenBucket.                                                            *)
(***************************************************************************)
\* Mutant: the virtual clock is not brought up to now.
ChargeFrom_Behind == tat

ChargeFrom == Higher(tat, tick)

\* reserve: charged once, whoever waits for it is cancelled or not.
Reserve(c) ==
  \E size \in ChunkSizes :
    /\ charged[c] = Uncharged /\ ChargeFrom - tick <= MaxAhead
    /\ tat' = ChargeFrom + size
    /\ charged' = [charged EXCEPT ![c] =
                     [size |-> size, at |-> Higher(tat' - ByteBurst, tick)]]
    /\ UNCHANGED <<tick, gate, mark, passed, sent, heldBack>>

\* wait_until, then the chunk goes out.
SendCharged(c) ==
  /\ charged[c] # Uncharged /\ tick >= charged[c].at
  /\ charged' = [charged EXCEPT ![c] = Uncharged]
  /\ sent' = sent + charged[c].size
  /\ UNCHANGED <<tick, gate, tat, mark, passed, heldBack>>

\* The transfer ends while it waits: what it was charged stays spent.
StopCharged(c) ==
  /\ charged[c] # Uncharged
  /\ charged' = [charged EXCEPT ![c] = Uncharged]
  /\ UNCHANGED <<tick, gate, tat, mark, passed, sent, heldBack>>

Ready == {c \in Carriers : charged[c].at <= tick}

Mark ==
  /\ mark' = tick /\ passed' = 0 /\ sent' = 0
  /\ heldBack' =
       SumFunctionOnSet([c \in Carriers |-> charged[c].size], Ready)
  /\ UNCHANGED <<tick, gate, tat, charged>>

Tick ==
  /\ tick < MaxTicks /\ tick' = tick + 1
  /\ UNCHANGED <<gate, tat, charged, mark, passed, sent, heldBack>>

\* Gates and buckets have nothing in common but the time.
GateNext == Allow \/ AskReady \/ Mark \/ Tick

BucketNext ==
  \/ Mark \/ Tick
  \/ \E c \in Carriers : Reserve(c) \/ SendCharged(c) \/ StopCharged(c)

PacingSpec == PacingInit /\ [][GateNext \/ BucketNext]_pacingVars

(***************************************************************************)
(* Properties.                                                             *)
(***************************************************************************)
\* From whatever moment one counts, however long it was quiet before and
\* however the transfers of the account share the bucket: no more requests
\* pass than the burst and what was earned since, and no more bytes go out
\* than the burst, what was earned since and what the transfers had been
\* granted before and not sent.
Paced ==
  /\ passed * TokenParts <=
       GateBurst * TokenParts + GateRefill * (tick - mark)
  /\ sent <= ByteBurst + (tick - mark) + heldBack
=============================================================================
