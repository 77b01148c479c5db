----------------------------- MODULE ValidatorEos -----------------------------
(***************************************************************************)
(* The validator daemon under the transactional commit strategy            *)
(* (validate/runner.py with eos/commit_strategy.py): several processes of  *)
(* one consumer group read the partitions of the source topic, route every *)
(* message to validated-events or to the dead-letter queue inside a Kafka  *)
(* transaction, and bind the input offsets into the same transaction.      *)
(*                                                                         *)
(* A process is a static member: its transactional.id is also its          *)
(* group.instance.id.  Two processes may share an id - the supervisor      *)
(* restarted a member whose predecessor is stalled, not dead - and then    *)
(* the producer epoch decides which of them may still commit.              *)
(*                                                                         *)
(* The brokers appear as committed, copies, epoch, owner and member: they  *)
(* are modelled from the calls the code makes.  The consumer reads at the  *)
(* default read_uncommitted, so an assignment does not wait for offsets    *)
(* another member's transaction still holds.  When two transactions hold   *)
(* offsets of one partition the last to end decides, which allows more     *)
(* than a broker that orders them by when they were sent.                  *)
(***************************************************************************)
EXTENDS Integers

CONSTANTS
  Process,        \* validator processes, zombies included
  TxnId,          \* transactional ids, one per static member of the group
  IdOf,           \* the id each process was started with
  Partition,      \* partitions of the source topic
  LogEnd,         \* number of messages in each partition
  Verdict,        \* what validation makes of each message
  MaxBatch,       \* poll_max_records
  MaxEpoch,       \* bound: highest producer epoch
  MaxFaults,      \* bound: crashes, transaction timeouts, abortable errors
  MaxRebalance,   \* bound: rebalances of the group
  NoProcess       \* not a process

Message == UNION {{p} \X (0 .. LogEnd[p] - 1) : p \in Partition}
Topic   == {"validated", "dlq"}
Record  == Topic \X Message

ASSUME ConstantsOK ==
  /\ IdOf \in [Process -> TxnId]
  /\ LogEnd \in [Partition -> Nat]
  /\ Verdict \in [Message -> {"valid", "invalid", "undecodable"}]
  /\ MaxBatch \in Nat \ {0}
  /\ MaxEpoch \in Nat /\ MaxFaults \in Nat /\ MaxRebalance \in Nat
  /\ NoProcess \notin Process

VARIABLES
  committed,      \* group offsets: next offset to read, per partition
  copies,         \* how often each record is in an output topic, read_committed
  epoch,          \* producer epoch the coordinator holds for each id
  owner,          \* the member each partition is assigned to
  member,         \* the process the group knows under each group.instance.id
  pc,             \* where each process is in ValidatorRunner.run
  pepoch,         \* epoch each process's producer was given
  insync,         \* does the process's consumer have the current generation?
  assigned,       \* the assignment the process's consumer works with
  position,       \* its position: next offset poll returns, per partition
  batch,          \* messages polled and not yet handled
  collected,      \* messages in the current poll batch
  out,            \* records produced in the open transaction
  aborted,        \* history: messages of transactions the runner aborted
  raced,          \* history: per process, partitions handed over mid-commit
  faults,         \* counter for MaxFaults
  rebalances      \* counter for MaxRebalance

broker  == <<committed, copies>>
group   == <<owner, member, rebalances>>
process == <<pc, pepoch, insync, assigned, position, batch, collected, out>>
vars    == <<broker, epoch, group, process, aborted, raced, faults>>

None    == [m \in Message |-> 0]
Nothing == [r \in Record |-> 0]

TypeOK ==
  /\ committed \in [Partition -> Nat]
  /\ copies \in [Record -> Nat]
  /\ epoch \in [TxnId -> Nat]
  /\ owner \in [Partition -> TxnId]
  /\ member \in [TxnId -> Process \cup {NoProcess}]
  /\ pc \in [Process -> {"down", "started", "polling", "routing", "sent"}]
  /\ pepoch \in [Process -> Nat]
  /\ insync \in [Process -> BOOLEAN]
  /\ assigned \in [Process -> SUBSET Partition]
  /\ position \in [Process -> [Partition -> Nat]]
  /\ batch \in [Process -> [Message -> Nat]]
  /\ collected \in [Process -> Nat]
  /\ out \in [Process -> [Record -> Nat]]
  /\ aborted \in SUBSET Message
  /\ raced \in [Process -> SUBSET Partition]
  /\ faults \in Nat /\ rebalances \in Nat

Init ==
  /\ committed = [p \in Partition |-> 0]
  /\ copies = Nothing
  /\ epoch = [t \in TxnId |-> 0]
  /\ owner \in [Partition -> TxnId]
  /\ member = [t \in TxnId |-> NoProcess]
  /\ pc = [i \in Process |-> "down"]
  /\ pepoch = [i \in Process |-> 0]
  /\ insync = [i \in Process |-> FALSE]
  /\ assigned = [i \in Process |-> {}]
  /\ position = [i \in Process |-> [p \in Partition |-> 0]]
  /\ batch = [i \in Process |-> None]
  /\ collected = [i \in Process |-> 0]
  /\ out = [i \in Process |-> Nothing]
  /\ aborted = {}
  /\ raced = [i \in Process |-> {}]
  /\ faults = 0
  /\ rebalances = 0

-----------------------------------------------------------------------------
(* Mutant of Unfenced: no zombie fencing.                                   *)
UnfencedForever(i) == pepoch[i] <= epoch[IdOf[i]]

(* The coordinator accepts the transactional calls of the newest epoch.     *)
Unfenced(i) == pepoch[i] = epoch[IdOf[i]]

(* Mutant of InGroup: offsets accepted without the group's generation.      *)
InGroupByName(i) == member[IdOf[i]] = i

(* The group accepts offsets of a member of the current generation.         *)
InGroup(i) == member[IdOf[i]] = i /\ insync[i]

(* The route _handle_msg picks for a decoded message.                       *)
RouteOf(m) == IF Verdict[m] = "valid" THEN "validated" ELSE "dlq"

(* The process leaves run(): nothing it held in memory survives.            *)
Exit(i) ==
  /\ pc' = [pc EXCEPT ![i] = "down"]
  /\ insync' = [insync EXCEPT ![i] = FALSE]
  /\ assigned' = [assigned EXCEPT ![i] = {}]
  /\ position' = [position EXCEPT ![i] = [p \in Partition |-> 0]]
  /\ batch' = [batch EXCEPT ![i] = None]
  /\ collected' = [collected EXCEPT ![i] = 0]
  /\ out' = [out EXCEPT ![i] = Nothing]
  /\ raced' = [raced EXCEPT ![i] = {}]
  /\ UNCHANGED <<broker, epoch, group, pepoch, aborted>>

(* The batch is over: back to the top of the loop, the positions as they are. *)
NextBatch(i) ==
  /\ pc' = [pc EXCEPT ![i] = "polling"]
  /\ batch' = [batch EXCEPT ![i] = None]
  /\ collected' = [collected EXCEPT ![i] = 0]
  /\ out' = [out EXCEPT ![i] = Nothing]
  /\ UNCHANGED <<pepoch, insync, assigned, position>>

(* Partitions whose offsets another member's open transaction holds: it has *)
(* sent them and nothing fences it, so its EndTxn can still move them.      *)
Pending(i) == {p \in Partition : \E k \in Process \ {i} :
                 pc[k] = "sent" /\ Unfenced(k) /\ p \in assigned[k]}

(* An assignment of partitions: fetching starts at the committed offsets,   *)
(* pending ones disregarded.                                                *)
Assign(i) ==
  /\ insync' = [insync EXCEPT ![i] = TRUE]
  /\ assigned' = [assigned EXCEPT ![i] = {p \in Partition : owner[p] = IdOf[i]}]
  /\ position' = [position EXCEPT ![i] = committed]
  /\ raced' = [raced EXCEPT ![i] = Pending(i)]

-----------------------------------------------------------------------------
(* strategy.init(): init_transactions bumps the epoch of the id, fences the *)
(* previous producer and discards its open transaction.                     *)
InitTransactions(i) ==
  /\ pc[i] = "down"
  /\ epoch[IdOf[i]] < MaxEpoch
  /\ epoch' = [epoch EXCEPT ![IdOf[i]] = @ + 1]
  /\ pepoch' = [pepoch EXCEPT ![i] = epoch[IdOf[i]] + 1]
  /\ pc' = [pc EXCEPT ![i] = "started"]
  /\ UNCHANGED <<broker, group, insync, assigned, position, batch, collected,
                 out, aborted, raced, faults>>

(* subscribe() and the first poll: the static member takes over the         *)
(* assignment kept under its group.instance.id.                             *)
Join(i) ==
  /\ pc[i] = "started"
  /\ pc' = [pc EXCEPT ![i] = "polling"]
  /\ member' = [member EXCEPT ![IdOf[i]] = i]
  /\ Assign(i)
  /\ UNCHANGED <<broker, epoch, owner, rebalances, pepoch, batch, collected,
                 out, aborted, faults>>

(* poll_batch collects one more message and moves the position past it.     *)
PollMessage(i, p) ==
  LET m == <<p, position[i][p]>>
  IN  /\ pc[i] = "polling"
      /\ p \in assigned[i]
      /\ collected[i] < MaxBatch
      /\ m \in Message
      /\ Verdict[m] # "undecodable"
      /\ position' = [position EXCEPT ![i][p] = @ + 1]
      /\ batch' = [batch EXCEPT ![i][m] = @ + 1]
      /\ collected' = [collected EXCEPT ![i] = @ + 1]
      /\ UNCHANGED <<broker, epoch, group, pc, pepoch, insync, assigned, out,
                     aborted, raced, faults>>

(* The consumer deserializes inside poll, so bytes it cannot decode raise   *)
(* there, outside the runner's own error handling: the process ends and     *)
(* drops what it had collected.                                             *)
PollUndecodable(i, p) ==
  LET m == <<p, position[i][p]>>
  IN  /\ pc[i] = "polling"
      /\ p \in assigned[i]
      /\ collected[i] < MaxBatch
      /\ m \in Message
      /\ Verdict[m] = "undecodable"
      /\ Exit(i)
      /\ UNCHANGED faults

(* Mutant of BeginBatch: wait for a full batch instead of a non-empty one.  *)
BeginFullBatch(i) ==
  /\ pc[i] = "polling"
  /\ collected[i] = MaxBatch
  /\ pc' = [pc EXCEPT ![i] = "routing"]
  /\ UNCHANGED <<broker, epoch, group, pepoch, insync, assigned, position,
                 batch, collected, out, aborted, raced, faults>>

(* poll_batch returns a non-empty batch: strategy.begin().                  *)
BeginBatch(i) ==
  /\ pc[i] = "polling"
  /\ collected[i] > 0
  /\ pc' = [pc EXCEPT ![i] = "routing"]
  /\ UNCHANGED <<broker, epoch, group, pepoch, insync, assigned, position,
                 batch, collected, out, aborted, raced, faults>>

(* Mutant of HandleMsg: a message the batch does not hold is routed as well. *)
HandleMsgAgain(i, m) ==
  /\ pc[i] = "routing"
  /\ batch' = [batch EXCEPT ![i][m] = @ - 1]
  /\ out' = [out EXCEPT ![i][<<RouteOf(m), m>>] = @ + 1]
  /\ UNCHANGED <<broker, epoch, group, pc, pepoch, insync, assigned, position,
                 collected, aborted, raced, faults>>

(* _handle_msg: decode, validate, produce to the route into the transaction. *)
HandleMsg(i, m) ==
  /\ pc[i] = "routing"
  /\ batch[i][m] > 0
  /\ batch' = [batch EXCEPT ![i][m] = @ - 1]
  /\ out' = [out EXCEPT ![i][<<RouteOf(m), m>>] = @ + 1]
  /\ UNCHANGED <<broker, epoch, group, pc, pepoch, insync, assigned, position,
                 collected, aborted, raced, faults>>

(* Mutant of SendOffsets: commit inside the message loop.                   *)
SendOffsetsPerMessage(i) ==
  /\ pc[i] = "routing"
  /\ Unfenced(i)
  /\ InGroup(i)
  /\ pc' = [pc EXCEPT ![i] = "sent"]
  /\ UNCHANGED <<broker, epoch, group, pepoch, insync, assigned, position,
                 batch, collected, out, aborted, raced, faults>>

(* Mutant of SendOffsets: the consumer commits, outside the transaction.    *)
SendOffsetsDirectly(i) ==
  /\ pc[i] = "routing"
  /\ batch[i] = None
  /\ Unfenced(i)
  /\ InGroup(i)
  /\ pc' = [pc EXCEPT ![i] = "sent"]
  /\ committed' = [p \in Partition |-> IF p \in assigned[i]
                                       THEN position[i][p] ELSE committed[p]]
  /\ UNCHANGED <<copies, epoch, group, pepoch, insync, assigned, position,
                 batch, collected, out, aborted, raced, faults>>

(* TransactionalCommit.commit, first call: the positions of the current     *)
(* assignment join the transaction; the group coordinator checks the member. *)
SendOffsets(i) ==
  /\ pc[i] = "routing"
  /\ batch[i] = None
  /\ Unfenced(i)
  /\ InGroup(i)
  /\ pc' = [pc EXCEPT ![i] = "sent"]
  /\ UNCHANGED <<broker, epoch, group, pepoch, insync, assigned, position,
                 batch, collected, out, aborted, raced, faults>>

(* TransactionalCommit.commit, second call: records and offsets at once.    *)
CommitTransaction(i) ==
  /\ pc[i] = "sent"
  /\ Unfenced(i)
  /\ copies' = [r \in Record |-> copies[r] + out[i][r]]
  /\ committed' = [p \in Partition |-> IF p \in assigned[i]
                                       THEN position[i][p] ELSE committed[p]]
  /\ NextBatch(i)
  /\ UNCHANGED <<epoch, group, aborted, raced, faults>>

(* The messages of the batch, handled or not.                               *)
Held(i) == {m \in Message : batch[i][m] > 0 \/ \E t \in Topic : out[i][<<t, m>>] > 0}

(* requires_abort(exc): the transaction is discarded and _process_batch     *)
(* returns.  Nothing moves the consumer back.                               *)
Abort(i) ==
  /\ Unfenced(i)
  /\ NextBatch(i)
  /\ aborted' = aborted \cup Held(i)
  /\ UNCHANGED <<broker, epoch, group, raced>>

(* An abortable error out of produce or of one of the two commit calls.     *)
AbortableError(i) ==
  /\ pc[i] \in {"routing", "sent"}
  /\ faults < MaxFaults
  /\ faults' = faults + 1
  /\ Abort(i)

(* The group coordinator refuses the offsets of a member it has evicted or  *)
(* replaced, which is abortable for the producer.                           *)
OffsetsRefused(i) ==
  /\ pc[i] = "routing"
  /\ batch[i] = None
  /\ ~InGroup(i)
  /\ Abort(i)
  /\ UNCHANGED faults

(* A fenced producer's call fails for good: the error leaves run().         *)
Fenced(i) ==
  /\ pc[i] \in {"routing", "sent"}
  /\ ~Unfenced(i)
  /\ Exit(i)
  /\ UNCHANGED faults

(* A poll of a consumer whose group.instance.id was taken over raises.      *)
InstanceFenced(i) ==
  /\ pc[i] = "polling"
  /\ member[IdOf[i]] # i
  /\ Exit(i)
  /\ UNCHANGED faults

(* The process dies, or stops for an error that is not a KafkaException, or *)
(* is shut down: each batch is its own transaction, nothing is drained.     *)
Crash(i) ==
  /\ pc[i] # "down"
  /\ faults < MaxFaults
  /\ faults' = faults + 1
  /\ Exit(i)

(* transaction.timeout.ms passes: the coordinator fences the open producer. *)
TransactionTimeout(i) ==
  /\ pc[i] \in {"routing", "sent"}
  /\ Unfenced(i)
  /\ faults < MaxFaults
  /\ epoch[IdOf[i]] < MaxEpoch
  /\ faults' = faults + 1
  /\ epoch' = [epoch EXCEPT ![IdOf[i]] = @ + 1]
  /\ UNCHANGED <<broker, group, process, aborted, raced>>

(* The members that are inside poll take part, keeping what they collected; *)
(* the others are evicted, and one that has sent its offsets may yet commit *)
(* them for a partition that is no longer its own.                          *)
Rebalance(newOwner) ==
  LET polling == {i \in Process : pc[i] = "polling" /\ member[IdOf[i]] = i}
  IN  /\ rebalances < MaxRebalance
      /\ newOwner # owner
      /\ rebalances' = rebalances + 1
      /\ owner' = newOwner
      /\ insync' = [i \in Process |-> i \in polling]
      /\ assigned' = [i \in Process |-> IF i \in polling
                        THEN {p \in Partition : newOwner[p] = IdOf[i]}
                        ELSE assigned[i]]
      /\ position' = [i \in Process |-> IF i \in polling
                        THEN committed ELSE position[i]]
      /\ raced' = [i \in Process |->
           IF i \in polling THEN Pending(i)
           ELSE raced[i] \cup {p \in assigned[i] :
                                 pc[i] = "sent" /\ newOwner[p] # IdOf[i]}]
      /\ UNCHANGED <<broker, epoch, member, pc, pepoch, batch, collected, out,
                     aborted, faults>>

(* An evicted member joins again at its next poll.                          *)
Rejoin(i) ==
  /\ pc[i] = "polling"
  /\ member[IdOf[i]] = i
  /\ ~insync[i]
  /\ Assign(i)
  /\ UNCHANGED <<broker, epoch, group, pc, pepoch, batch, collected, out,
                 aborted, faults>>

-----------------------------------------------------------------------------
(* What process i does by itself.                                           *)
Run(i) ==
  \/ InitTransactions(i)
  \/ Join(i)
  \/ \E p \in Partition : PollMessage(i, p) \/ PollUndecodable(i, p)
  \/ BeginBatch(i)
  \/ \E m \in Message : HandleMsg(i, m)
  \/ SendOffsets(i)
  \/ CommitTransaction(i)
  \/ OffsetsRefused(i)
  \/ Fenced(i)
  \/ InstanceFenced(i)
  \/ Rejoin(i)

(* What happens to it.                                                      *)
Fault(i) == AbortableError(i) \/ Crash(i) \/ TransactionTimeout(i)

Next ==
  \/ \E i \in Process : Run(i) \/ Fault(i)
  \/ \E newOwner \in [Partition -> TxnId] : Rebalance(newOwner)

Spec == Init /\ [][Next]_vars

(* The supervisor restarts a process and the loop keeps running; faults     *)
(* owe nothing.                                                             *)
FairSpec == Spec /\ \A i \in Process : WF_vars(Run(i))
-----------------------------------------------------------------------------
Visible(m) == \E t \in Topic : copies[<<t, m>>] > 0
Consumed(m) == m[2] < committed[m[1]]

(* As long as the assignment has not changed, no message reaches the output *)
(* twice, nor both routes, whatever crashes, stalls and restarts there were. *)
AtMostOnce ==
  rebalances = 0 =>
    \A m \in Message : copies[<<"validated", m>>] + copies[<<"dlq", m>>] <= 1

(* Nothing is skipped but what an aborted transaction held: every message   *)
(* below a committed offset is in an output topic, or the runner aborted    *)
(* the transaction of a batch that had it.  Rebalances do not change that.  *)
NoSilentLoss ==
  \A m \in Message : Consumed(m) => Visible(m) \/ m \in aborted

(* A committed offset moves backwards only where a partition changes hands  *)
(* while its offsets sit between send_offsets and commit_transaction: by    *)
(* the evicted member that sent them, or by the owner that fetched them     *)
(* before they were committed.  No stalled predecessor, no member evicted   *)
(* earlier in its batch and no owner after those two ever moves one back.   *)
OffsetsRegressOnlyIfRaced ==
  [][\A p \in Partition : committed'[p] < committed[p] =>
       \E i \in Process : pc[i] = "sent" /\ pc'[i] # "sent" /\ p \in raced[i]]_vars

(* Every message ends up in an output topic or in an aborted transaction,   *)
(* when faults stop and no message is undecodable.                          *)
EveryMessageSettled ==
  \A m \in Message : <>(Visible(m) \/ m \in aborted)

(* What the design asks of an abort (week2_03 section 2.8, "abort must      *)
(* re-process, not skip"): no offset is committed past a message that is in *)
(* no output topic.                                                         *)
AbortedBatchReplays ==
  \A m \in Message : Consumed(m) => Visible(m)

(* The promise of the transactional validator, see AtomicRelay.             *)
Relay == INSTANCE AtomicRelay
AtomicallyRelayed == Relay!Spec
=============================================================================
