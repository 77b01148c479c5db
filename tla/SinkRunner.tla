------------------------------- MODULE SinkRunner -------------------------------
(***************************************************************************)
(* The Kafka-to-Postgres sink (sink/sink_runner.py over                    *)
(* sink/postgres_writer.py): messages accumulate in a batch over several   *)
(* polls, a full or old batch is inserted with ON CONFLICT DO NOTHING, the *)
(* insert is retried, and only then the consumer commits its positions.    *)
(*                                                                         *)
(* A row is its event id.  Any event in the batch may get old, so a batch  *)
(* may be flushed below its row cap.  The processes are dynamic members of *)
(* one consumer group, and share a database.                               *)
(***************************************************************************)
EXTENDS Integers, Sequences, FiniteSets

CONSTANTS
  Process,        \* sink processes
  Partition,      \* partitions of the source topic
  LogEnd,         \* number of messages in each partition
  Verdict,        \* is a message an event, or does its dict not validate?
  IdOf,           \* the event id of each message
  MaxRows,        \* batch_max_rows
  MaxPoll,        \* poll_max_records
  Attempts,       \* flush_retry_attempts
  MaxFaults,      \* bound: crashes, shutdowns, evictions, failed calls
  NoProcess       \* not a process

Message == UNION {{p} \X (0 .. LogEnd[p] - 1) : p \in Partition}

ASSUME ConstantsOK ==
  /\ LogEnd \in [Partition -> Nat]
  /\ Verdict \in [Message -> {"event", "rejected"}]
  /\ MaxRows \in Nat \ {0} /\ MaxPoll \in Nat \ {0}
  /\ Attempts \in Nat \ {0} /\ MaxFaults \in Nat
  /\ NoProcess \notin Process

VARIABLES
  committed,      \* group offsets: next offset to read, per partition
  table,          \* event ids in raw_events
  owner,          \* the member each partition is assigned to
  insync,         \* is the process a member of the current generation?
  pc,             \* where each process is in SinkRunner.run
  position,       \* next offset its poll returns, per partition
  batch,          \* events not yet committed
  collected,      \* messages in the current poll
  conn,           \* the writer's connection
  tried,          \* failed attempts of the current flush
  fresh,          \* rows the current flush has inserted
  stopping,       \* has the loop been left for the last flush?
  tally,          \* the accountant's counters
  faults          \* counter for MaxFaults

group   == <<owner, insync>>
writer  == <<conn, tried, fresh>>
process == <<pc, position, batch, collected, stopping, tally>>
vars    == <<committed, table, group, process, writer, faults>>

Tally   == [consumed : Nat, inserted : Nat, skipped : Nat, failed : Nat]
NoTally == [consumed |-> 0, inserted |-> 0, skipped |-> 0, failed |-> 0]

TypeOK ==
  /\ committed \in [Partition -> Nat]
  /\ table \subseteq {IdOf[m] : m \in Message}
  /\ owner \in [Partition -> Process \cup {NoProcess}]
  /\ insync \in [Process -> BOOLEAN]
  /\ pc \in [Process -> {"down", "polling", "flushing", "inserted"}]
  /\ position \in [Process -> [Partition -> Nat]]
  /\ batch \in [Process -> Seq(Message)]
  /\ collected \in [Process -> Nat]
  /\ conn \in [Process -> {"none", "open", "broken"}]
  /\ tried \in [Process -> 0 .. Attempts - 1]
  /\ fresh \in [Process -> Nat]
  /\ stopping \in [Process -> BOOLEAN]
  /\ tally \in [Process -> Tally]
  /\ faults \in Nat

Init ==
  /\ committed = [p \in Partition |-> 0]
  /\ table = {}
  /\ owner = [p \in Partition |-> NoProcess]
  /\ insync = [i \in Process |-> FALSE]
  /\ pc = [i \in Process |-> "down"]
  /\ position = [i \in Process |-> [p \in Partition |-> 0]]
  /\ batch = [i \in Process |-> <<>>]
  /\ collected = [i \in Process |-> 0]
  /\ conn = [i \in Process |-> "none"]
  /\ tried = [i \in Process |-> 0]
  /\ fresh = [i \in Process |-> 0]
  /\ stopping = [i \in Process |-> FALSE]
  /\ tally = [i \in Process |-> NoTally]
  /\ faults = 0

-----------------------------------------------------------------------------
Assigned(i) == {p \in Partition : insync[i] /\ owner[p] = i}

(* There is something to commit: a position past its committed offset.      *)
Stored(i) == \E p \in Assigned(i) : position[i][p] > committed[p]

(* consumer.commit(): the positions of the current assignment.              *)
CommitPositions(i) ==
  committed' = [p \in Partition |->
                  IF p \in Assigned(i) THEN position[i][p] ELSE committed[p]]

(* The rows of the batch; the table keeps one row for each event id.        *)
Rows(i) == {IdOf[batch[i][n]] : n \in 1 .. Len(batch[i])}

(* run() ends, by an exception or not: the consumer leaves the group, the   *)
(* writer closes its connection, and the process goes.                      *)
Leave(i) ==
  /\ pc' = [pc EXCEPT ![i] = "down"]
  /\ insync' = [insync EXCEPT ![i] = FALSE]
  /\ position' = [position EXCEPT ![i] = [p \in Partition |-> 0]]
  /\ batch' = [batch EXCEPT ![i] = <<>>]
  /\ collected' = [collected EXCEPT ![i] = 0]
  /\ conn' = [conn EXCEPT ![i] = "none"]
  /\ tried' = [tried EXCEPT ![i] = 0]
  /\ fresh' = [fresh EXCEPT ![i] = 0]
  /\ stopping' = [stopping EXCEPT ![i] = FALSE]
  /\ tally' = [tally EXCEPT ![i] = NoTally]
  /\ UNCHANGED owner

(* The accountant's record_ calls.                                          *)
Count(i, c, n, k, f) ==
  tally' = [tally EXCEPT ![i] =
              [consumed |-> @.consumed + c, inserted |-> @.inserted + n,
               skipped |-> @.skipped + k, failed |-> @.failed + f]]

BoundedFault == faults < MaxFaults /\ faults' = faults + 1

(* Mutant of AttemptFails: the attempt after the last one is made too.      *)
AttemptFailsLate(i, c) ==
  \/ /\ tried[i] < Attempts
     /\ tried' = [tried EXCEPT ![i] = @ + 1]
     /\ conn' = [conn EXCEPT ![i] = c]
     /\ UNCHANGED <<group, pc, position, batch, collected, fresh, stopping, tally>>
  \/ tried[i] >= Attempts /\ Leave(i)

(* _flush_with_retry: an attempt raises, and leaves a connection behind;    *)
(* when it was the last one the exception leaves run().                     *)
AttemptFails(i, c) ==
  \/ /\ tried[i] + 1 < Attempts
     /\ tried' = [tried EXCEPT ![i] = @ + 1]
     /\ conn' = [conn EXCEPT ![i] = c]
     /\ UNCHANGED <<group, pc, position, batch, collected, fresh, stopping, tally>>
  \/ tried[i] + 1 >= Attempts /\ Leave(i)

-----------------------------------------------------------------------------
(* run(): the consumer subscribes.                                          *)
Start(i) ==
  /\ pc[i] = "down"
  /\ pc' = [pc EXCEPT ![i] = "polling"]
  /\ UNCHANGED <<committed, table, group, position, batch, collected, stopping,
                 tally, writer, faults>>

(* The group rebalances when a member waits to join or an owner is gone.    *)
(* It waits for the members inside a flush, or evicts them when they exceed *)
(* max.poll.interval.ms; partitions restart at the committed offsets, while *)
(* what a process has in its batch stays there.  Rebalances that disturb a  *)
(* batch count as faults: without an end to them, members whose commits are *)
(* refused keep disturbing each other as they come back.                    *)
Rebalance(newOwner) ==
  LET polling   == {i \in Process : pc[i] = "polling"}
      disturbed == {i \in Process :
                      insync[i] /\ (i \in polling => batch[i] # <<>> \/ collected[i] > 0)}
  IN  /\ \/ \E i \in polling : ~insync[i]
         \/ \E p \in Partition : \A i \in Process : p \notin Assigned(i)
      /\ polling # {}
      /\ \A p \in Partition : newOwner[p] \in polling
      /\ \/ disturbed = {} /\ UNCHANGED faults
         \/ disturbed # {} /\ BoundedFault
      /\ owner' = newOwner
      /\ insync' = [i \in Process |-> i \in polling]
      /\ position' = [i \in Process |-> IF i \in polling THEN committed
                                                         ELSE position[i]]
      /\ UNCHANGED <<committed, table, pc, batch, collected, stopping, tally, writer>>

(* poll_batch collects one more message and _record_message counts it: an   *)
(* event joins the batch, anything else is dropped.                         *)
PollMessage(i, p) ==
  LET m == <<p, position[i][p]>>
  IN  /\ pc[i] = "polling"
      /\ p \in Assigned(i)
      /\ collected[i] < MaxPoll
      /\ m \in Message
      /\ position' = [position EXCEPT ![i][p] = @ + 1]
      /\ collected' = [collected EXCEPT ![i] = @ + 1]
      /\ \/ /\ Verdict[m] = "event"
            /\ batch' = [batch EXCEPT ![i] = Append(@, m)]
            /\ Count(i, 1, 0, 0, 0)
         \/ /\ Verdict[m] = "rejected"
            /\ Count(i, 1, 0, 0, 1)
            /\ UNCHANGED batch
      /\ UNCHANGED <<committed, table, group, pc, stopping, writer, faults>>

(* poll raises: the registry or the client reports an error.  The exception *)
(* leaves run().                                                            *)
PollRaises(i, p) ==
  /\ pc[i] = "polling"
  /\ p \in Assigned(i)
  /\ collected[i] < MaxPoll
  /\ BoundedFault
  /\ Leave(i)
  /\ UNCHANGED <<committed, table>>

(* A poll ends and the batch is neither full nor old: on to the next poll.  *)
PollReturns(i) ==
  /\ pc[i] = "polling"
  /\ collected[i] > 0
  /\ Len(batch[i]) < MaxRows
  /\ collected' = [collected EXCEPT ![i] = 0]
  /\ UNCHANGED <<committed, table, group, pc, position, batch, stopping, tally,
                 writer, faults>>

(* Mutant of BeginFlush: an old batch waits for the row cap.                *)
BeginFlushFull(i) ==
  /\ pc[i] = "polling"
  /\ Len(batch[i]) >= MaxRows
  /\ pc' = [pc EXCEPT ![i] = "flushing"]
  /\ collected' = [collected EXCEPT ![i] = 0]
  /\ UNCHANGED <<committed, table, group, position, batch, stopping, tally,
                 writer, faults>>

(* A poll ends and should_flush(): the batch is full, or its first event is *)
(* old enough.                                                              *)
BeginFlush(i) ==
  /\ pc[i] = "polling"
  /\ batch[i] # <<>>
  /\ pc' = [pc EXCEPT ![i] = "flushing"]
  /\ collected' = [collected EXCEPT ![i] = 0]
  /\ UNCHANGED <<committed, table, group, position, batch, stopping, tally,
                 writer, faults>>

(* request_shutdown, seen at the top of the loop: the batch is flushed once *)
(* more, unless it is empty.                                                *)
Shutdown(i) ==
  /\ pc[i] = "polling"
  /\ collected[i] = 0
  /\ BoundedFault
  /\ \/ batch[i] = <<>> /\ Leave(i)
     \/ /\ batch[i] # <<>>
        /\ pc' = [pc EXCEPT ![i] = "flushing"]
        /\ stopping' = [stopping EXCEPT ![i] = TRUE]
        /\ UNCHANGED <<group, position, batch, collected, tally, writer>>
  /\ UNCHANGED <<committed, table>>

-----------------------------------------------------------------------------
(* Mutant of Insert: every row of the batch is counted as inserted.         *)
InsertCountsBatch(i) ==
  /\ pc[i] = "flushing"
  /\ conn[i] # "broken"
  /\ table' = table \cup Rows(i)
  /\ fresh' = [fresh EXCEPT ![i] = Len(batch[i])]
  /\ conn' = [conn EXCEPT ![i] = "open"]
  /\ tried' = [tried EXCEPT ![i] = 0]
  /\ pc' = [pc EXCEPT ![i] = "inserted"]
  /\ UNCHANGED <<committed, group, position, batch, collected, stopping, tally,
                 faults>>

(* flush(): one INSERT, which skips the ids the table has, and its commit.  *)
Insert(i) ==
  /\ pc[i] = "flushing"
  /\ conn[i] # "broken"
  /\ table' = table \cup Rows(i)
  /\ fresh' = [fresh EXCEPT ![i] = Cardinality(Rows(i) \ table)]
  /\ conn' = [conn EXCEPT ![i] = "open"]
  /\ tried' = [tried EXCEPT ![i] = 0]
  /\ pc' = [pc EXCEPT ![i] = "inserted"]
  /\ UNCHANGED <<committed, group, position, batch, collected, stopping, tally,
                 faults>>

(* The database refuses the statement (statement_timeout) or, when there is *)
(* no connection yet, to connect; a connection that is there rolls back.    *)
DatabaseError(i) ==
  /\ pc[i] = "flushing"
  /\ conn[i] # "broken"
  /\ BoundedFault
  /\ \/ conn[i] = "none" /\ AttemptFails(i, "none")
     \/ AttemptFails(i, "open")
  /\ UNCHANGED <<committed, table>>

(* The connection goes while the insert is under way, with it or without;   *)
(* rollback raises in its turn, and the writer keeps the dead connection.   *)
ConnectionLost(i) ==
  /\ pc[i] = "flushing"
  /\ conn[i] # "broken"
  /\ BoundedFault
  /\ table' = table \/ table' = table \cup Rows(i)
  /\ AttemptFails(i, "broken")
  /\ UNCHANGED committed

(* _connect returns the dead connection: the attempt fails.                 *)
ConnectionDead(i) ==
  /\ pc[i] = "flushing"
  /\ conn[i] = "broken"
  /\ AttemptFails(i, "broken")
  /\ UNCHANGED <<committed, table, faults>>

(* The server ends its sessions.                                            *)
DatabaseRestart ==
  /\ \E i \in Process : conn[i] = "open"
  /\ BoundedFault
  /\ conn' = [i \in Process |-> IF conn[i] = "open" THEN "broken" ELSE conn[i]]
  /\ UNCHANGED <<committed, table, group, process, tried, fresh>>

(* record_flush, after the commit.                                          *)
RecordFlush(i) == Count(i, 0, fresh[i], Len(batch[i]) - fresh[i], 0)

(* Mutant of CommitOffsets: positions are committed before the insert.      *)
CommitFirst(i) ==
  /\ pc[i] = "flushing"
  /\ Stored(i)
  /\ CommitPositions(i)
  /\ UNCHANGED <<table, group, process, writer, faults>>

(* The consumer commits, the accountant records the flush, the batch is     *)
(* cleared; the last flush is the end of run().                             *)
CommitOffsets(i) ==
  /\ pc[i] = "inserted"
  /\ Stored(i)
  /\ CommitPositions(i)
  /\ \/ stopping[i] /\ Leave(i)
     \/ /\ ~stopping[i]
        /\ RecordFlush(i)
        /\ pc' = [pc EXCEPT ![i] = "polling"]
        /\ batch' = [batch EXCEPT ![i] = <<>>]
        /\ fresh' = [fresh EXCEPT ![i] = 0]
        /\ UNCHANGED <<group, position, collected, stopping, conn, tried>>
  /\ UNCHANGED <<table, faults>>

(* The coordinator refuses an evicted member, and the client library a      *)
(* commit of nothing: the exception leaves run(), with the batch inserted.  *)
CommitRefused(i) ==
  /\ pc[i] = "inserted"
  /\ ~Stored(i)
  /\ Leave(i)
  /\ UNCHANGED <<committed, table, faults>>

(* The commit call fails, its effect unknown.                               *)
CommitError(i) ==
  /\ pc[i] = "inserted"
  /\ BoundedFault
  /\ CommitPositions(i) \/ UNCHANGED committed
  /\ Leave(i)
  /\ UNCHANGED table

(* The process dies; an insert under way happens or does not.               *)
Crash(i) ==
  /\ pc[i] # "down"
  /\ BoundedFault
  /\ \/ table' = table
     \/ pc[i] = "flushing" /\ conn[i] # "broken" /\ table' = table \cup Rows(i)
  /\ Leave(i)
  /\ UNCHANGED committed

-----------------------------------------------------------------------------
Run(i) ==
  \/ Start(i)
  \/ \E p \in Partition : PollMessage(i, p)
  \/ PollReturns(i)
  \/ BeginFlush(i)
  \/ Insert(i)
  \/ ConnectionDead(i)
  \/ CommitOffsets(i)
  \/ CommitRefused(i)

Fault(i) ==
  \/ \E p \in Partition : PollRaises(i, p)
  \/ DatabaseError(i) \/ ConnectionLost(i)
  \/ CommitError(i) \/ Shutdown(i) \/ Crash(i)

Balance == \E newOwner \in [Partition -> Process] : Rebalance(newOwner)

Next == (\E i \in Process : Run(i) \/ Fault(i)) \/ Balance \/ DatabaseRestart

Spec == Init /\ [][Next]_vars

(* The supervisor restarts a process, its loop keeps running, a batch gets  *)
(* old, the services answer, and a pending rebalance takes part in one of   *)
(* the polls to come.                                                       *)
FairSpec ==
  /\ Spec
  /\ \A i \in Process : WF_vars(Run(i))
  /\ SF_vars(Balance)

-----------------------------------------------------------------------------
Consumed(m) == m[2] < committed[m[1]]

(* What a crash discards or a retry repeats: less than the row cap and a    *)
(* poll together (batch_max_rows, poll_max_records).                        *)
BatchBounded == \A i \in Process : Len(batch[i]) < MaxRows + MaxPoll

(* The accountant's books balance: every message a process has consumed     *)
(* failed, waits in the batch, was inserted or was skipped; and the inserts *)
(* it counts are rows of the table that no other process counts, whatever   *)
(* the processes retry and replay.                                          *)
Balanced ==
  \A i \in Process :
    tally[i].consumed =
      tally[i].failed + Len(batch[i]) + tally[i].inserted + tally[i].skipped

CreditedOnce ==
  \E credit \in [table -> Process \cup {NoProcess}] :
    \A i \in Process :
      tally[i].inserted + fresh[i] = Cardinality({r \in table : credit[r] = i})

BooksBalance == Balanced /\ CreditedOnce

Sink == INSTANCE IdempotentSink

(* Effectively once: a batch of rows at a time, one row for each event id,  *)
(* and no offset committed over an event whose row is missing.              *)
EffectivelyOnce == Sink!Spec

(* Every event gets its row and is not read again in the end.               *)
EveryEventStored ==
  \A m \in Message :
    Verdict[m] = "event" => <>(IdOf[m] \in table /\ Consumed(m))
=============================================================================
