----------------------------- MODULE ValidatorAlo -----------------------------
(***************************************************************************)
(* The validator daemon under its default, at-least-once commit strategy   *)
(* (validate/runner.py with AtLeastOnceCommit): every poll batch is routed *)
(* to two asynchronous producers, both producers are flushed, and then the *)
(* consumer commits its positions.                                         *)
(*                                                                         *)
(* A record sits in the producer's queue until the client library delivers *)
(* it or gives it up; flush waits for an empty queue or for its timeout.   *)
(* The processes are dynamic members of one consumer group.                *)
(***************************************************************************)
EXTENDS Integers

CONSTANTS
  Process,        \* validator processes
  Partition,      \* partitions of the source topic
  LogEnd,         \* number of messages in each partition
  Verdict,        \* what validation makes of each message
  MaxBatch,       \* poll_max_records
  MaxFaults,      \* bound: crashes, shutdowns, evictions, failed calls
  MaxOutages,     \* bound: flush timeouts and failed deliveries
  NoProcess       \* not a process

Message == UNION {{p} \X (0 .. LogEnd[p] - 1) : p \in Partition}
Topic   == {"validated", "dlq"}
Record  == Topic \X Message

ASSUME ConstantsOK ==
  /\ LogEnd \in [Partition -> Nat]
  /\ Verdict \in [Message -> {"valid", "invalid", "undecodable"}]
  /\ MaxBatch \in Nat \ {0} /\ MaxFaults \in Nat /\ MaxOutages \in Nat
  /\ NoProcess \notin Process

VARIABLES
  committed,      \* group offsets: next offset to read, per partition
  output,         \* records in the two output topics
  owner,          \* the member each partition is assigned to
  insync,         \* is the process a member of the current generation?
  pc,             \* where each process is in ValidatorRunner.run
  position,       \* next offset its poll returns, per partition
  batch,          \* messages polled and not yet handled
  collected,      \* messages in the current poll batch
  queue,          \* records its producers have not delivered yet
  givenUp,        \* history: records a flush or a delivery gave up
  faults,         \* counter for MaxFaults
  outages         \* counter for MaxOutages

group   == <<owner, insync>>
bounds  == <<faults, outages>>
vars    == <<committed, output, group, pc, position, batch, collected, queue,
             givenUp, bounds>>

TypeOK ==
  /\ committed \in [Partition -> Nat]
  /\ output \in SUBSET Record
  /\ owner \in [Partition -> Process \cup {NoProcess}]
  /\ insync \in [Process -> BOOLEAN]
  /\ pc \in [Process -> {"down", "polling", "routing", "flushed", "draining",
                         "closing"}]
  /\ position \in [Process -> [Partition -> Nat]]
  /\ batch \in [Process -> SUBSET Message]
  /\ collected \in [Process -> Nat]
  /\ queue \in [Process -> SUBSET Record]
  /\ givenUp \in SUBSET Record
  /\ faults \in Nat /\ outages \in Nat

Init ==
  /\ committed = [p \in Partition |-> 0]
  /\ output = {}
  /\ owner = [p \in Partition |-> NoProcess]
  /\ insync = [i \in Process |-> FALSE]
  /\ pc = [i \in Process |-> "down"]
  /\ position = [i \in Process |-> [p \in Partition |-> 0]]
  /\ batch = [i \in Process |-> {}]
  /\ collected = [i \in Process |-> 0]
  /\ queue = [i \in Process |-> {}]
  /\ givenUp = {}
  /\ faults = 0
  /\ outages = 0

-----------------------------------------------------------------------------
(* Mutant of RecordOf: the topic is picked by the verdict's name.           *)
RecordOfVerdict(m) == <<Verdict[m], m>>

(* The record _handle_msg produces for a decoded message.                   *)
RecordOf(m) == <<IF Verdict[m] = "valid" THEN "validated" ELSE "dlq", m>>

Assigned(i) == {p \in Partition : insync[i] /\ owner[p] = i}

(* There is something to commit: a position past its committed offset.      *)
Stored(i) == \E p \in Assigned(i) : position[i][p] > committed[p]

(* consumer.commit(): the positions of the current assignment.              *)
CommitPositions(i) ==
  committed' = [p \in Partition |->
                  IF p \in Assigned(i) THEN position[i][p] ELSE committed[p]]

(* The loop is left: the consumer closes first, and leaves the group.       *)
LeaveLoop(i) ==
  /\ pc' = [pc EXCEPT ![i] = "closing"]
  /\ insync' = [insync EXCEPT ![i] = FALSE]
  /\ batch' = [batch EXCEPT ![i] = {}]
  /\ collected' = [collected EXCEPT ![i] = 0]
  /\ position' = [position EXCEPT ![i] = [p \in Partition |-> 0]]
  /\ UNCHANGED <<output, owner, queue, givenUp>>

BoundedFault == faults < MaxFaults /\ faults' = faults + 1 /\ UNCHANGED outages
BoundedOutage == outages < MaxOutages /\ outages' = outages + 1 /\ UNCHANGED faults

-----------------------------------------------------------------------------
(* run(): strategy.init() does nothing, the consumer subscribes.            *)
Start(i) ==
  /\ pc[i] = "down"
  /\ pc' = [pc EXCEPT ![i] = "polling"]
  /\ UNCHANGED <<committed, output, group, position, batch, collected, queue,
                 givenUp, bounds>>

(* The group rebalances when a member waits to join or an owner is gone.    *)
(* It waits for the members inside a batch, or evicts them when they exceed *)
(* max.poll.interval.ms; partitions restart at the committed offsets, and   *)
(* the messages a poll has already collected stay collected.  Rebalances    *)
(* that disturb a batch count as faults: without an end to them, members    *)
(* whose commits are refused keep disturbing each other as they come back.  *)
Rebalance(newOwner) ==
  LET polling   == {i \in Process : pc[i] = "polling"}
      disturbed == {i \in Process : insync[i] /\ (i \in polling => collected[i] > 0)}
  IN  /\ \/ \E i \in polling : ~insync[i]
         \/ \E p \in Partition : \A i \in Process : p \notin Assigned(i)
      /\ polling # {}
      /\ \A p \in Partition : newOwner[p] \in polling
      /\ \/ disturbed = {} /\ UNCHANGED bounds
         \/ disturbed # {} /\ BoundedFault
      /\ owner' = newOwner
      /\ insync' = [i \in Process |-> i \in polling]
      /\ position' = [i \in Process |-> IF i \in polling THEN committed
                                                         ELSE position[i]]
      /\ UNCHANGED <<committed, output, pc, batch, collected, queue, givenUp>>

(* poll_batch collects one more message and moves the position past it.     *)
PollMessage(i, p) ==
  LET m == <<p, position[i][p]>>
  IN  /\ pc[i] = "polling"
      /\ p \in Assigned(i)
      /\ collected[i] < MaxBatch
      /\ m \in Message
      /\ Verdict[m] # "undecodable"
      /\ position' = [position EXCEPT ![i][p] = @ + 1]
      /\ batch' = [batch EXCEPT ![i] = @ \cup {m}]
      /\ collected' = [collected EXCEPT ![i] = @ + 1]
      /\ UNCHANGED <<committed, output, group, pc, queue, givenUp, bounds>>

(* poll raises, inside poll_batch and before _decode could classify it: the *)
(* bytes do not decode, or the registry or the client reports an error.     *)
(* The exception leaves run().                                              *)
PollRaises(i, p) ==
  LET m == <<p, position[i][p]>>
  IN  /\ pc[i] = "polling"
      /\ p \in Assigned(i)
      /\ collected[i] < MaxBatch
      /\ m \in Message
      /\ \/ Verdict[m] = "undecodable" /\ UNCHANGED bounds
         \/ Verdict[m] # "undecodable" /\ BoundedFault
      /\ LeaveLoop(i)
      /\ UNCHANGED committed

(* Mutant of BeginBatch: wait for a full batch instead of a non-empty one.  *)
BeginFullBatch(i) ==
  /\ pc[i] = "polling"
  /\ collected[i] = MaxBatch
  /\ pc' = [pc EXCEPT ![i] = "routing"]
  /\ UNCHANGED <<committed, output, group, position, batch, collected, queue,
                 givenUp, bounds>>

(* poll_batch returns a non-empty batch; begin() does nothing.              *)
BeginBatch(i) ==
  /\ pc[i] = "polling"
  /\ collected[i] > 0
  /\ pc' = [pc EXCEPT ![i] = "routing"]
  /\ UNCHANGED <<committed, output, group, position, batch, collected, queue,
                 givenUp, bounds>>

(* _handle_msg: decode, validate, enqueue for the route.                    *)
HandleMsg(i, m) ==
  /\ pc[i] = "routing"
  /\ m \in batch[i]
  /\ batch' = [batch EXCEPT ![i] = @ \ {m}]
  /\ queue' = [queue EXCEPT ![i] = @ \cup {RecordOf(m)}]
  /\ UNCHANGED <<committed, output, group, pc, position, collected, givenUp,
                 bounds>>

(* Mutant of Flush: the dead-letter producer is not flushed.                *)
FlushValidatedOnly(i) ==
  /\ pc[i] = "routing"
  /\ batch[i] = {}
  /\ \A r \in queue[i] : r[1] # "validated"
  /\ pc' = [pc EXCEPT ![i] = "flushed"]
  /\ UNCHANGED <<committed, output, group, position, batch, collected, queue,
                 givenUp, bounds>>

(* AtLeastOnceCommit.commit: flush both producers, which queue nothing new  *)
(* meanwhile, until they are empty.                                         *)
Flush(i) ==
  /\ pc[i] = "routing"
  /\ batch[i] = {}
  /\ queue[i] = {}
  /\ pc' = [pc EXCEPT ![i] = "flushed"]
  /\ UNCHANGED <<committed, output, group, position, batch, collected, queue,
                 givenUp, bounds>>

(* The flush budget runs out: what flush returns is not looked at.          *)
FlushTimeout(i) ==
  /\ pc[i] = "routing"
  /\ batch[i] = {}
  /\ queue[i] # {}
  /\ BoundedOutage
  /\ pc' = [pc EXCEPT ![i] = "flushed"]
  /\ givenUp' = givenUp \cup queue[i]
  /\ UNCHANGED <<committed, output, group, position, batch, collected, queue>>

(* Mutant of CommitOffsets: an evicted member commits its old assignment.   *)
CommitByPosition(i) ==
  /\ pc[i] = "flushed"
  /\ committed' = position[i]
  /\ pc' = [pc EXCEPT ![i] = "polling"]
  /\ collected' = [collected EXCEPT ![i] = 0]
  /\ UNCHANGED <<output, group, position, batch, queue, givenUp, bounds>>

(* consumer.commit() of a member of the current generation.                 *)
CommitOffsets(i) ==
  /\ pc[i] = "flushed"
  /\ Stored(i)
  /\ CommitPositions(i)
  /\ pc' = [pc EXCEPT ![i] = "polling"]
  /\ collected' = [collected EXCEPT ![i] = 0]
  /\ UNCHANGED <<output, group, position, batch, queue, givenUp, bounds>>

(* The coordinator refuses an evicted member, and the client library a      *)
(* commit of nothing, after a rebalance took back what was read.  Such a    *)
(* KafkaException requires no abort, so it leaves run().                    *)
CommitRefused(i) ==
  /\ pc[i] = "flushed"
  /\ ~Stored(i)
  /\ LeaveLoop(i)
  /\ UNCHANGED <<committed, bounds>>

(* The commit call fails, its effect unknown.                               *)
CommitError(i) ==
  /\ pc[i] = "flushed"
  /\ BoundedFault
  /\ CommitPositions(i) \/ UNCHANGED committed
  /\ LeaveLoop(i)

(* produce raises (a full queue): not a KafkaException, it leaves run().    *)
ProduceError(i) ==
  /\ pc[i] = "routing"
  /\ batch[i] # {}
  /\ BoundedFault
  /\ LeaveLoop(i)
  /\ UNCHANGED committed

(* request_shutdown, seen at the top of the loop.                           *)
Shutdown(i) ==
  /\ pc[i] = "polling"
  /\ collected[i] = 0
  /\ BoundedFault
  /\ pc' = [pc EXCEPT ![i] = "draining"]
  /\ UNCHANGED <<committed, output, group, position, batch, collected, queue,
                 givenUp>>

(* strategy.finalize(): one more flush and commit.                          *)
Finalize(i) ==
  /\ pc[i] = "draining"
  /\ \/ queue[i] = {} /\ UNCHANGED outages
     \/ queue[i] # {} /\ outages < MaxOutages /\ outages' = outages + 1
  /\ CommitPositions(i)
  /\ LeaveLoop(i)
  /\ UNCHANGED faults

(* The producers' own close() has flushed.                                  *)
Close(i) ==
  /\ pc[i] = "closing"
  /\ queue[i] = {}
  /\ pc' = [pc EXCEPT ![i] = "down"]
  /\ UNCHANGED <<committed, output, group, position, batch, collected, queue,
                 givenUp, bounds>>

(* The process dies, or its close() times out: the queue goes with it.      *)
Crash(i) ==
  /\ pc[i] # "down"
  /\ BoundedFault
  /\ pc' = [pc EXCEPT ![i] = "down"]
  /\ insync' = [insync EXCEPT ![i] = FALSE]
  /\ batch' = [batch EXCEPT ![i] = {}]
  /\ collected' = [collected EXCEPT ![i] = 0]
  /\ position' = [position EXCEPT ![i] = [p \in Partition |-> 0]]
  /\ queue' = [queue EXCEPT ![i] = {}]
  /\ UNCHANGED <<committed, output, owner, givenUp>>

(* The client library, in the background: a record is acknowledged.         *)
Deliver(i, r) ==
  /\ r \in queue[i]
  /\ queue' = [queue EXCEPT ![i] = @ \ {r}]
  /\ output' = output \cup {r}
  /\ UNCHANGED <<committed, group, pc, position, batch, collected, givenUp,
                 bounds>>

(* It gives a record up: the delivery report logs a warning, and that is    *)
(* all.                                                                     *)
DeliveryFailed(i, r) ==
  /\ r \in queue[i]
  /\ BoundedOutage
  /\ queue' = [queue EXCEPT ![i] = @ \ {r}]
  /\ givenUp' = givenUp \cup {r}
  /\ UNCHANGED <<committed, output, group, pc, position, batch, collected>>

-----------------------------------------------------------------------------
Run(i) ==
  \/ Start(i)
  \/ \E p \in Partition : PollMessage(i, p) \/ PollRaises(i, p)
  \/ BeginBatch(i)
  \/ \E m \in Message : HandleMsg(i, m)
  \/ Flush(i)
  \/ CommitOffsets(i)
  \/ CommitRefused(i)
  \/ Finalize(i)
  \/ Close(i)

Fault(i) ==
  \/ FlushTimeout(i) \/ CommitError(i) \/ ProduceError(i)
  \/ Shutdown(i) \/ Crash(i)
  \/ \E r \in Record : DeliveryFailed(i, r)

Delivery(i) == \E r \in Record : Deliver(i, r)

Balance == \E newOwner \in [Partition -> Process] : Rebalance(newOwner)

Next == (\E i \in Process : Run(i) \/ Fault(i) \/ Delivery(i)) \/ Balance

Spec == Init /\ [][Next]_vars

(* The supervisor restarts a process, its loop keeps running, the brokers   *)
(* answer, and a pending rebalance takes part in one of the polls to come.  *)
FairSpec ==
  /\ Spec
  /\ \A i \in Process : WF_vars(Run(i)) /\ WF_vars(Delivery(i))
  /\ SF_vars(Balance)

-----------------------------------------------------------------------------
Consumed(m) == m[2] < committed[m[1]]

(* At-least-once: whatever crashes, evictions and unknown commits there     *)
(* are, a committed offset leaves behind no message whose record is not in  *)
(* its output topic, unless the producer or a flush gave that record up.    *)
AtLeastOnce ==
  \A m \in Message : Consumed(m) => RecordOf(m) \in output \cup givenUp

(* A member that lost its partitions cannot pull their offsets back.        *)
OffsetsNeverRegress ==
  [][\A p \in Partition : committed'[p] >= committed[p]]_vars

(* Where every message decodes, each is routed to one of the two topics in  *)
(* the end, whatever its batch went through.  One that does not decode      *)
(* stops every process that polls it, where week2_01 section 6 expects a    *)
(* record in the dead-letter queue: it is not routed, nor what follows it   *)
(* on its partition, nor surely what was polled with it.                    *)
EveryMessageRouted ==
  (\A m \in Message : Verdict[m] # "undecodable") =>
    \A m \in Message : <>(RecordOf(m) \in output \cup givenUp)

(* The flush before the commit "forces broker ack on both topics" (week2_01 *)
(* section 2.7): no offset is committed past an unacknowledged record.      *)
AckedBeforeCommit ==
  \A m \in Message : Consumed(m) => RecordOf(m) \in output
=============================================================================
