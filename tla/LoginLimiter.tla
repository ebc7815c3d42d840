---------------------------- MODULE LoginLimiter ----------------------------
(***************************************************************************)
(* The brute-force throttle for logins (kdx-server-core/src/auth/          *)
(* limiter.rs) and the connections that ask it (connection.rs: logins and  *)
(* changes of one's own password).                                         *)
(*                                                                         *)
(* The limiter is asked when an attempt begins and told when it ends, so   *)
(* attempts of several connections overlap and a connection may sit on     *)
(* one.  All of them come from one address: keys of different addresses    *)
(* only share the table's capacity.  Time is counted in units of           *)
(* BASE_BACKOFF.                                                           *)
(***************************************************************************)
EXTENDS Integers, FiniteSets

CONSTANTS
  Usernames,
  Known,           \* usernames whose password the peer has
  Peers,           \* connections from the address
  AddressFree,     \* IP_FREE_FAILURES
  PairFree,        \* PAIR_FREE_FAILURES
  MaxBackoff,      \* MAX_BACKOFF
  FailureWindow,   \* FAILURE_WINDOW
  MaxTracked,      \* MAX_TRACKED
  MaxTime          \* bound on time

VARIABLES
  buckets,     \* by key: a username (the pair) or the address
  attempt,     \* per connection, the username of the attempt it is in
  time,
  guesses,     \* failures since the address was last forgotten
  firstGuess,  \* when the first of them came
  lastGuess    \* and the last

limiterVars == <<buckets, attempt, time, guesses, firstGuess, lastGuess>>

Address == "address"
None == "none"

LimiterInit ==
  /\ buckets = <<>> /\ attempt = [c \in Peers |-> None] /\ time = 0
  /\ guesses = 0 /\ firstGuess = 0 /\ lastGuess = 0

Expired(b) == time >= b.until /\ time - b.last >= FailureWindow

\* check: neither the address nor the pair is blocked.
LimiterCheck(u) ==
  \A k \in {Address, u} \cap DOMAIN buckets : buckets[k].until <= time

Backoff(doublings) ==
  IF 2^doublings < MaxBackoff THEN 2^doublings ELSE MaxBackoff

\* bump.
Bump(table, k, free) ==
  IF k \notin DOMAIN table /\ Cardinality(DOMAIN table) >= MaxTracked
  THEN table
  ELSE LET fresh == k \notin DOMAIN table \/ Expired(table[k])
           failures == IF fresh THEN 1 ELSE table[k].failures + 1
           until == IF failures > free
                    THEN time + Backoff(failures - free - 1)
                    ELSE IF fresh THEN time ELSE table[k].until
       IN [j \in DOMAIN table \cup {k} |->
             IF j = k
             THEN [failures |-> failures, last |-> time, until |-> until]
             ELSE table[j]]

Only(table, keys) == [k \in keys |-> table[k]]

RecordFailure(u) ==
  LET kept == IF Cardinality(DOMAIN buckets) + 2 > MaxTracked
              THEN Only(buckets, {k \in DOMAIN buckets :
                                    ~Expired(buckets[k])})
              ELSE buckets
      forgotten == guesses = 0 \/ time - lastGuess >= FailureWindow
  IN /\ buckets' = Bump(Bump(kept, Address, AddressFree), u, PairFree)
     /\ guesses' = IF forgotten THEN 1 ELSE guesses + 1
     /\ firstGuess' = IF forgotten THEN time ELSE firstGuess
     /\ lastGuess' = time

\* Mutant: a success clears the address too.
RecordSuccess_ClearsAddress(u) ==
  buckets' = Only(buckets, DOMAIN buckets \ {u, Address})

RecordSuccess(u) == buckets' = Only(buckets, DOMAIN buckets \ {u})

(***************************************************************************)
(* The connections.  A connection that begins anew gives up the attempt it *)
(* was in; a blocked one is refused at once and nothing is counted.        *)
(***************************************************************************)
BeginAttempt(c) ==
  \E u \in Usernames :
    /\ attempt[c] # u /\ LimiterCheck(u)
    /\ attempt' = [attempt EXCEPT ![c] = u]
    /\ UNCHANGED <<buckets, time, guesses, firstGuess, lastGuess>>

\* Wrong password, unknown user, banned account.
AttemptFails(c) ==
  /\ attempt[c] # None /\ attempt' = [attempt EXCEPT ![c] = None]
  /\ RecordFailure(attempt[c]) /\ UNCHANGED time

AttemptSucceeds(c) ==
  /\ attempt[c] \in Known /\ attempt' = [attempt EXCEPT ![c] = None]
  /\ RecordSuccess(attempt[c])
  /\ UNCHANGED <<time, guesses, firstGuess, lastGuess>>

TimePasses ==
  /\ time < MaxTime /\ time' = time + 1
  /\ UNCHANGED <<buckets, attempt, guesses, firstGuess, lastGuess>>

LimiterNext ==
  \/ \E c \in Peers :
       BeginAttempt(c) \/ AttemptFails(c) \/ AttemptSucceeds(c)
  \/ TimePasses

(***************************************************************************)
(* Properties.                                                             *)
(***************************************************************************)
\* How often an address can have become free again within `elapsed`, each
\* block being twice as long as the last, up to MaxBackoff.
Rounds(elapsed) ==
  LET spent[m \in Nat] == IF m = 0 THEN 0 ELSE spent[m - 1] + Backoff(m - 1)
      fit == {m \in 0..elapsed : spent[m] <= elapsed}
  IN CHOOSE m \in fit : \A n \in fit : n <= m

\* However many attempts overlap, are held back or are mixed with logins to
\* an account of one's own, an address gets its free failures, one guess
\* per connection, and one more per connection each time a block has run
\* out, the blocks doubling.
GuessesBounded ==
  guesses <= AddressFree
               + Cardinality(Peers) * (1 + Rounds(time - firstGuess))
=============================================================================
