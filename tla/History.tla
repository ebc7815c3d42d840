------------------------------ MODULE History ------------------------------
(***************************************************************************)
(* The audit log: kdx-server-core/src/history.rs and its table             *)
(* (kdx-storage/src/history.rs).                                           *)
(*                                                                         *)
(* Tasks hand events over: detached, through a bounded queue that one      *)
(* writer task empties in batches, or inline, where the task waits for the *)
(* queue to be written and inserts the row itself.  The steps between two  *)
(* awaits, and between two operations on the shared counters, interleave.  *)
(* An event is the number of its call and what it says.  Rows are numbered *)
(* by rowid and retention removes the oldest, so the table is a sequence   *)
(* and the number of its rows that are gone.  The age limit is off         *)
(* (HistoryConfig::default) and left out, as are timestamps: they grow     *)
(* with the calls.                                                         *)
(***************************************************************************)
EXTENDS Integers, Sequences, FiniteSets, SequencesExt

CONSTANTS
  Tasks,           \* tasks that record and read
  Sayings,         \* what events say: actor, action and detail
  QueueCapacity,   \* queue_capacity
  WriterBatch,     \* MAX_BATCH
  KeepRows,        \* max_rows
  PruneEvery,      \* prune_every
  MaxCalls,        \* bound on calls
  MaxWriteErrors   \* bound on failed writes

VARIABLES
  calls,         \* calls so far: the number of the latest
  handed,        \* events handed over detached
  task,          \* per task, the call it is in
  queue,         \* messages to the writer
  writer,        \* the writer's stage, its rows and whom it will answer
  unreported,    \* Shared.dropped
  sincePrune,    \* Shared.since_prune
  log,           \* rows ever written, by rowid
  cut,           \* rows that retention has deleted
  failedWrites,  \* detached events whose transaction failed
  writeErrors

historyVars == <<calls, handed, task, queue, writer, unreported, sincePrune,
                 log, cut, failedWrites, writeErrors>>

Idle == [stage |-> "idle"]
DropNotice == "history_dropped"
Row(inline, says, events, count) ==
  [inline |-> inline, says |-> says, events |-> events, count |-> count]

\* An older run left more rows than retention keeps; the writer applies
\* retention before its first batch.
HistoryInit ==
  /\ calls = 0 /\ handed = 0 /\ task = [t \in Tasks |-> Idle] /\ queue = <<>>
  /\ writer = [stage |-> "start", rows |-> <<>>, acks |-> {}]
  /\ unreported = 0 /\ sincePrune = 0
  /\ log = [i \in 1..(KeepRows + 1) |-> Row(TRUE, "older", {}, 0)]
  /\ cut = 0 /\ failedWrites = 0 /\ writeErrors = 0

Goto(t, stage) == task' = [task EXCEPT ![t].stage = stage]
Done(t) == task' = [task EXCEPT ![t] = Idle]
QueueHasRoom == Len(queue) < QueueCapacity

(***************************************************************************)
(* The tasks.                                                              *)
(***************************************************************************)
NewCall(t) == task[t] = Idle /\ calls < MaxCalls /\ calls' = calls + 1

RecordDetached(t) ==
  \E s \in Sayings :
    /\ NewCall(t) /\ handed' = handed + 1
    /\ IF QueueHasRoom
       THEN /\ queue' = Append(queue, [kind |-> "entry", says |-> s,
                                       event |-> calls'])
            /\ UNCHANGED task
       ELSE /\ task' = [task EXCEPT ![t] = [stage |-> "dropping"]]
            /\ UNCHANGED queue
    /\ UNCHANGED <<writer, unreported, sincePrune, log, cut, failedWrites,
                   writeErrors>>

CountDropped(t) ==
  /\ task[t].stage = "dropping" /\ Done(t)
  /\ unreported' = unreported + 1
  /\ UNCHANGED <<calls, handed, queue, writer, sincePrune, log, cut,
                 failedWrites, writeErrors>>

\* Mutant: the row is inserted at once.
FirstStage_NoFlush == "write"

FirstStage == "flush"

Record(t) ==
  \E s \in Sayings :
    /\ NewCall(t)
    /\ task' = [task EXCEPT ![t] = [stage |-> FirstStage, op |-> "record",
                                    says |-> s, event |-> calls']]
    /\ UNCHANGED <<handed, queue, writer, unreported, sincePrune, log, cut,
                   failedWrites, writeErrors>>

Recent(t) ==
  /\ NewCall(t)
  /\ task' = [task EXCEPT ![t] = [stage |-> "flush", op |-> "recent",
                                  event |-> calls']]
  /\ UNCHANGED <<handed, queue, writer, unreported, sincePrune, log, cut,
                 failedWrites, writeErrors>>

\* flush: the send waits for room, then the task for the answer.
Flush(t) ==
  /\ task[t].stage = "flush" /\ QueueHasRoom /\ Goto(t, "wait")
  /\ queue' = Append(queue, [kind |-> "flush", task |-> t])
  /\ UNCHANGED <<calls, handed, writer, unreported, sincePrune, log, cut,
                 failedWrites, writeErrors>>

ReadRows(t) ==
  /\ task[t].stage = "write" /\ task[t].op = "recent" /\ Done(t)
  /\ UNCHANGED <<calls, handed, queue, writer, unreported, sincePrune, log,
                 cut, failedWrites, writeErrors>>

InsertInline(t) ==
  /\ task[t].stage = "write" /\ task[t].op = "record"
  /\ \/ /\ log' = Append(log, Row(TRUE, task[t].says, {task[t].event}, 1))
        /\ Goto(t, "count") /\ UNCHANGED writeErrors
     \/ /\ writeErrors < MaxWriteErrors /\ writeErrors' = writeErrors + 1
        /\ Done(t) /\ UNCHANGED log
  /\ UNCHANGED <<calls, handed, queue, writer, unreported, sincePrune, cut,
                 failedWrites>>

CountInline(t) ==
  /\ task[t].stage = "count" /\ Done(t)
  /\ sincePrune' = sincePrune + 1
  /\ queue' = IF sincePrune' = PruneEvery /\ QueueHasRoom
              THEN Append(queue, [kind |-> "prune"]) ELSE queue
  /\ UNCHANGED <<calls, handed, writer, unreported, log, cut, failedWrites,
                 writeErrors>>

(***************************************************************************)
(* run_writer.                                                             *)
(***************************************************************************)
\* Detached events that rows stand for.
CountOf(rows) ==
  FoldLeft(LAMBDA n, r : n + r.count, 0,
           SelectSeq(rows, LAMBDA r : ~r.inline))

\* Mutant: repeats are left out and not counted.
Coalesce_Uncounted(entries) ==
  LET Seen(i) == \E j \in 1..(i - 1) : entries[j].says = entries[i].says
      firsts == SelectSeq([i \in 1..Len(entries) |-> i], LAMBDA i : ~Seen(i))
  IN [k \in 1..Len(firsts) |->
        Row(FALSE, entries[firsts[k]].says, {entries[firsts[k]].event}, 1)]

\* coalesce: events that say the same become the first of them, with a
\* count.
Coalesce(entries) ==
  LET Same(i) == {j \in 1..Len(entries) : entries[j].says = entries[i].says}
      firsts == SelectSeq([i \in 1..Len(entries) |-> i],
                          LAMBDA i : \A j \in Same(i) : i <= j)
  IN [k \in 1..Len(firsts) |->
        LET same == Same(firsts[k]) IN
          Row(FALSE, entries[firsts[k]].says,
              {entries[j].event : j \in same}, Cardinality(same))]

ReceiveMany ==
  LET n == IF Len(queue) < WriterBatch THEN Len(queue) ELSE WriterBatch
      batch == SubSeq(queue, 1, n)
      flushes == SelectSeq(batch, LAMBDA m : m.kind = "flush")
  IN /\ writer.stage = "idle" /\ queue # <<>>
     /\ queue' = SubSeq(queue, n + 1, Len(queue))
     /\ writer' = [stage |-> "swap",
                   rows |-> Coalesce(SelectSeq(batch,
                                       LAMBDA m : m.kind = "entry")),
                   acks |-> {m.task : m \in ToSet(flushes)}]
     /\ UNCHANGED <<calls, handed, task, unreported, sincePrune, log, cut,
                    failedWrites, writeErrors>>

SwapDropped ==
  LET rows == IF unreported = 0 THEN writer.rows
              ELSE Append(writer.rows,
                          Row(FALSE, DropNotice, {}, unreported))
  IN /\ writer.stage = "swap" /\ unreported' = 0
     /\ writer' = [writer EXCEPT !.rows = rows,
                     !.stage = IF rows = <<>> THEN "retain" ELSE "write"]
     /\ UNCHANGED <<calls, handed, task, queue, sincePrune, log, cut,
                    failedWrites, writeErrors>>

\* record_batch: one transaction.
WriteBatch ==
  /\ writer.stage = "write"
  /\ writer' = [writer EXCEPT !.stage = "retain", !.rows = <<>>]
  /\ \/ /\ log' = log \o writer.rows
        /\ sincePrune' = sincePrune + Len(writer.rows)
        /\ UNCHANGED <<failedWrites, writeErrors>>
     \/ /\ writeErrors < MaxWriteErrors /\ writeErrors' = writeErrors + 1
        /\ failedWrites' = failedWrites + CountOf(writer.rows)
        /\ UNCHANGED <<log, sincePrune>>
  /\ UNCHANGED <<calls, handed, task, queue, unreported, cut>>

\* apply_retention: prune_keep_newest.
ApplyRetention ==
  cut' = IF Len(log) - KeepRows > cut THEN Len(log) - KeepRows ELSE cut

FirstRetention ==
  /\ writer.stage = "start" /\ writer' = [writer EXCEPT !.stage = "idle"]
  /\ ApplyRetention
  /\ UNCHANGED <<calls, handed, task, queue, unreported, sincePrune, log,
                 failedWrites, writeErrors>>

Retain ==
  /\ writer.stage = "retain" /\ writer' = [writer EXCEPT !.stage = "ack"]
  /\ IF sincePrune >= PruneEvery THEN sincePrune' = 0 /\ ApplyRetention
     ELSE UNCHANGED <<sincePrune, cut>>
  /\ UNCHANGED <<calls, handed, task, queue, unreported, log, failedWrites,
                 writeErrors>>

AckFlushes ==
  /\ writer.stage = "ack"
  /\ writer' = [stage |-> "idle", rows |-> <<>>, acks |-> {}]
  /\ task' = [t \in Tasks |-> IF t \in writer.acks
                              THEN [task[t] EXCEPT !.stage = "write"]
                              ELSE task[t]]
  /\ UNCHANGED <<calls, handed, queue, unreported, sincePrune, log, cut,
                 failedWrites, writeErrors>>

HistoryNext ==
  \/ \E t \in Tasks :
       \/ RecordDetached(t) \/ CountDropped(t) \/ Record(t) \/ Recent(t)
       \/ Flush(t) \/ ReadRows(t) \/ InsertInline(t) \/ CountInline(t)
  \/ FirstRetention \/ ReceiveMany \/ SwapDropped \/ WriteBatch \/ Retain
  \/ AckFlushes

(***************************************************************************)
(* Properties.                                                             *)
(***************************************************************************)
EventsOf(rows) == UNION {r.events : r \in ToSet(rows)}
QueuedEvents ==
  {m.event : m \in {x \in ToSet(queue) : x.kind = "entry"}}

\* record and recent flush first, so that the log's order is the order
\* events happened in: no event that was queued before an inline record
\* began is written after it, and none that was queued before a task asked
\* for the log is still on its way when the task reads it.
AuditOrdered ==
  /\ \A i, j \in 1..Len(log) :
       i < j /\ log[i].inline /\ ~log[j].inline =>
         \A e \in log[i].events, f \in log[j].events : e < f
  /\ \A t \in Tasks :
       task[t].stage = "write" =>
         \A e \in QueuedEvents \cup EventsOf(writer.rows) : e > task[t].event

\* Whatever the queue's and the counters' interleavings, and although
\* repeats are collapsed: every detached event is exactly once in the
\* queue, with the writer, in the count of a row, in the count of dropped
\* events or in a transaction that failed.  The caller that finds the queue
\* full counts in a second step.
EventsAccounted ==
  handed = Cardinality(QueuedEvents) + CountOf(writer.rows) + CountOf(log)
             + failedWrites + unreported
             + Cardinality({t \in Tasks : task[t].stage = "dropping"})

\* The log tells what happened, in its order, and owns up to what it lost.
LogSound == AuditOrdered /\ EventsAccounted
=============================================================================
