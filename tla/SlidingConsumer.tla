---------------------------- MODULE SlidingConsumer ----------------------------
(***************************************************************************)
(* The loop of the sliding-features processes (sliding/consumer.py) around *)
(* the panes: what is read, folded, emitted and committed, in both modes   *)
(* of delivery, and what reaches the features topic and Redis              *)
(* (sliding/sinks.py) when processes crash and partitions move.            *)
(*                                                                         *)
(* Which windows are due, and which events are too late for the panes, is  *)
(* the subject of SlidingWindows: here every event is folded, and an       *)
(* emission carries all that the panes hold of a partition; one that shows *)
(* nothing new is left out.  Time only enters as the hour that the         *)
(* seek-back on assignment looks back, and moves on when it is looked at.  *)
(***************************************************************************)
EXTENDS Integers, FiniteSets

CONSTANTS
  Proc, Partition,
  FirstOwner,     \* the group's first assignment
  MaxLength,      \* bound: messages of a partition
  MaxBatch,       \* _EOS_MAX_RECORDS
  MaxFaults,      \* bound: crashes, lost deliveries and refused requests
  MaxMoves,       \* bound: rebalances
  None            \* no offset, not in the group

ASSUME ConstantsOK ==
  /\ MaxLength \in Nat /\ MaxBatch \in Nat \ {0}
  /\ MaxFaults \in Nat /\ MaxMoves \in Nat
  /\ FirstOwner \in [Partition -> Proc]
  /\ None \notin Int

Message == Partition \X (0 .. MaxLength - 1)
Offset  == 0 .. MaxLength

(* A feature record of a user of the partition: how often it counts each    *)
(* event.                                                                   *)
Record == [Message -> Nat]

VARIABLES
  eos,            \* transactional delivery: chosen once, for the group
  end, hour,      \* per partition: its length, first offset of the last hour
  committed,      \* committed offsets
  gen, owner,     \* group coordinator: generation and assignment
  joined,         \* generation each process knows, None before it subscribes
  pc,             \* where each process is: down, poll, commit, cache, publish
  from, pos,      \* per assigned partition: where it started and has got to
  batch,          \* messages polled and not folded yet
  panes,          \* how often each message is folded into the panes
  pending,        \* the iteration's records, by partition
  topic, redis,   \* last record of each partition's user there
  faults,
  cold,           \* history: processes whose last seek-back failed
  straddled,      \* history: messages whose partition left amid their batch
  torn,           \* history: partitions with a record written by halves
  skipped,        \* history: messages an assignment jumped over
  read            \* history: messages folded

log    == <<end, hour>>
group  == <<gen, owner>>
inputs == <<joined, from, pos, batch>>
ghosts == <<cold, straddled, torn, skipped, read>>
vars   == <<eos, log, committed, group, inputs, pc, panes, pending, topic, redis, faults, ghosts>>

NoRecord  == [m \in Message |-> 0]
NoOffsets == [p \in Partition |-> None]
NoPending == [p \in {} |-> NoRecord]

TypeOK ==
  /\ eos \in BOOLEAN
  /\ end \in [Partition -> Offset] /\ hour \in [Partition -> Offset]
  /\ \A p \in Partition : hour[p] <= end[p]
  /\ committed \in [Partition -> Offset \cup {None}]
  /\ gen \in Nat /\ owner \in [Partition -> Proc]
  /\ joined \in [Proc -> Nat \cup {None}]
  /\ pc \in [Proc -> {"down", "poll", "commit", "cache", "publish"}]
  /\ from \in [Proc -> [Partition -> Offset \cup {None}]]
  /\ pos \in [Proc -> [Partition -> Offset \cup {None}]]
  /\ \A c \in Proc, p \in Partition :
       /\ (from[c][p] = None) = (pos[c][p] = None)
       /\ pos[c][p] # None => from[c][p] <= pos[c][p] /\ pos[c][p] <= end[p]
  /\ batch \in [Proc -> SUBSET Message]
  /\ \A c \in Proc : Cardinality(batch[c]) <= IF eos THEN MaxBatch ELSE 1
  /\ panes \in [Proc -> Record]
  /\ \A c \in Proc : /\ DOMAIN pending[c] \subseteq Partition
                     /\ \A p \in DOMAIN pending[c] : pending[c][p] \in Record
  /\ topic \in [Partition -> Record] /\ redis \in [Partition -> Record]
  /\ faults \in 0 .. MaxFaults
  /\ cold \subseteq Proc /\ torn \subseteq Partition
  /\ straddled \subseteq Message /\ skipped \subseteq Message /\ read \subseteq Message

Init ==
  /\ eos \in BOOLEAN
  /\ end = [p \in Partition |-> 0] /\ hour = [p \in Partition |-> 0]
  /\ committed = NoOffsets
  /\ gen = 0 /\ owner = FirstOwner
  /\ joined = [c \in Proc |-> None]
  /\ pc = [c \in Proc |-> "poll"]
  /\ from = [c \in Proc |-> NoOffsets] /\ pos = [c \in Proc |-> NoOffsets]
  /\ batch = [c \in Proc |-> {}]
  /\ panes = [c \in Proc |-> NoRecord]
  /\ pending = [c \in Proc |-> NoPending]
  /\ topic = [p \in Partition |-> NoRecord]
  /\ redis = [p \in Partition |-> NoRecord]
  /\ faults = 0
  /\ cold = {} /\ straddled = {} /\ torn = {} /\ skipped = {} /\ read = {}

-----------------------------------------------------------------------------
Arrive(p) ==
  /\ end[p] < MaxLength
  /\ end' = [end EXCEPT ![p] = @ + 1]
  /\ UNCHANGED <<eos, hour, committed, group, inputs, pc, panes, pending, topic, redis, faults, ghosts>>

Assigned(c) == {p \in Partition : pos[c][p] # None}

(* Partitions with a record on its way to the topic or to Redis.            *)
InHand(c) == DOMAIN pending[c]

(* The group moves its partitions: members are evicted, leave or return.    *)
Rebalance ==
  /\ gen < MaxMoves
  /\ gen' = gen + 1
  /\ \E w \in [Partition -> {c \in Proc : pc[c] # "down"}] : owner' = w
  /\ torn' = torn \cup UNION {InHand(c) : c \in Proc}
  /\ UNCHANGED <<eos, log, committed, inputs, pc, panes, pending, topic, redis, faults, cold, straddled, skipped, read>>

-----------------------------------------------------------------------------
(* run: subscribe; init_transactions under EOS.                             *)
Start(c) ==
  /\ pc[c] = "down"
  /\ pc' = [pc EXCEPT ![c] = "poll"]
  /\ UNCHANGED <<eos, log, committed, group, inputs, panes, pending, topic, redis, faults, ghosts>>

(* Mutant of DropPartitions: the state of revoked partitions is kept.       *)
KeepPartitions(c, P) == panes[c]

(* drop_partitions.                                                         *)
DropPartitions(c, P) ==
  [m \in Message |-> IF m[1] \in P THEN 0 ELSE panes[c][m]]

(* _on_revoke, inside a poll, when the member learns of a new generation:   *)
(* messages of this batch polled before it stay in the batch.               *)
Revoke(c) ==
  /\ pc[c] = "poll"
  /\ joined[c] # None /\ joined[c] < gen
  /\ eos \/ batch[c] = {}
  /\ panes' = [panes EXCEPT ![c] = DropPartitions(c, Assigned(c))]
  /\ from' = [from EXCEPT ![c] = NoOffsets]
  /\ pos' = [pos EXCEPT ![c] = NoOffsets]
  /\ joined' = [joined EXCEPT ![c] = None]
  /\ straddled' = straddled \cup batch[c]
  /\ torn' = torn \cup {m[1] : m \in batch[c]}
  /\ UNCHANGED <<eos, log, committed, group, batch, pc, pending, topic,
                 redis, faults, cold, skipped, read>>

(* offsets_for_times(now - 1 h): negative when nothing is that recent.      *)
HourAgo(p) == IF hour'[p] < end[p] THEN hour'[p] ELSE -1

(* Mutant of Resume: the message of the committed offset is left out.       *)
ResumeAfter(p) == IF committed[p] = None THEN end[p] ELSE committed[p] + 1

(* Where the group resumes: auto.offset.reset is latest.                    *)
Resume(p) == IF committed[p] = None THEN end[p] ELSE committed[p]

(* Mutant of SeekBack: an answer past the end moves the partition there.    *)
SeekBackAlways(p) == IF HourAgo(p) >= 0 THEN HourAgo(p) ELSE end[p]

(* Mutant of SeekBack: the committed offset is kept when there is one.      *)
SeekFirstTime(p) == IF committed[p] = None /\ HourAgo(p) >= 0
                    THEN HourAgo(p) ELSE Resume(p)

(* _apply_warmup_seek_back.                                                 *)
SeekBack(p) == IF HourAgo(p) >= 0 THEN HourAgo(p) ELSE Resume(p)

Between(p, a, b) == {<<p, i>> : i \in a .. b - 1}

(* _on_assign, inside a poll; the lookup may fail and is then skipped.      *)
Assign(c) ==
  LET mine     == {p \in Partition : owner[p] = c}
      floor(p) == IF committed[p] = None THEN 0 ELSE committed[p]
  IN  \E found \in BOOLEAN, aged \in [Partition -> Offset] :
        /\ pc[c] = "poll" /\ joined[c] = None
        /\ eos \/ batch[c] = {}
        /\ \A p \in Partition : hour[p] <= aged[p] /\ aged[p] <= end[p]
        /\ hour' = aged
        /\ found \/ faults < MaxFaults
        /\ faults' = IF found THEN faults ELSE faults + 1
        /\ joined' = [joined EXCEPT ![c] = gen]
        /\ from' = [from EXCEPT ![c] = [p \in Partition |->
             IF p \notin mine THEN None
             ELSE IF found THEN SeekBack(p) ELSE Resume(p)]]
        /\ pos' = [pos EXCEPT ![c] = from'[c]]
        /\ cold' = IF found THEN cold \ {c} ELSE cold \cup {c}
        /\ skipped' = skipped \cup UNION {
             IF found /\ HourAgo(p) >= 0 THEN Between(p, floor(p), HourAgo(p))
             ELSE IF committed[p] = None THEN Between(p, 0, end[p]) ELSE {}
             : p \in mine}
        /\ UNCHANGED <<eos, end, committed, group, batch, pc, panes, pending,
                       topic, redis, straddled, torn, read>>

(* consumer.poll, by _poll_once or _collect_batch.                          *)
PollMessage(c, p) ==
  /\ pc[c] = "poll"
  /\ p \in Assigned(c) /\ pos[c][p] < end[p]
  /\ Cardinality(batch[c]) < IF eos THEN MaxBatch ELSE 1
  /\ batch' = [batch EXCEPT ![c] = @ \cup {<<p, pos[c][p]>>}]
  /\ pos' = [pos EXCEPT ![c][p] = @ + 1]
  /\ UNCHANGED <<eos, log, committed, group, joined, from, pc, panes, pending, topic, redis, faults, ghosts>>

-----------------------------------------------------------------------------
(* _fold_message of every message of the batch, then emit_due_windows: of   *)
(* some partitions, windows are due.                                        *)
Fold(c) ==
  LET folded == [m \in Message |-> panes[c][m] + IF m \in batch[c] THEN 1 ELSE 0]
      of(p)  == [m \in Message |-> IF m[1] = p THEN folded[m] ELSE 0]
      new    == {p \in Partition : of(p) \notin {NoRecord, topic[p]}}
  IN  \E due \in SUBSET new :
        /\ pc[c] = "poll"
        /\ eos => batch[c] # {} \/ due # {}
        /\ panes' = [panes EXCEPT ![c] = folded]
        /\ pending' = [pending EXCEPT ![c] = [p \in due |-> of(p)]]
        /\ batch' = [batch EXCEPT ![c] = {}]
        /\ pc' = [pc EXCEPT ![c] = IF eos THEN "commit" ELSE "cache"]
        /\ read' = read \cup batch[c]
        /\ UNCHANGED <<eos, log, committed, group, joined, from, pos, topic,
                       redis, faults, cold, straddled, torn, skipped>>

(* Mutant of Positions: the offsets where the members started.              *)
StartPositions(c) ==
  [p \in Partition |-> IF from[c][p] # None THEN from[c][p] ELSE committed[p]]

(* Offsets of partitions nothing was consumed from are not sent.            *)
Positions(c) ==
  [p \in Partition |-> IF pos[c][p] # None /\ from[c][p] < pos[c][p]
                       THEN pos[c][p] ELSE committed[p]]

Latest(store, records) ==
  [p \in Partition |-> IF p \in DOMAIN records THEN records[p] ELSE store[p]]

(* _commit_batch_txn: late events, records and offsets in one transaction;  *)
(* the coordinator takes the offsets of members of its generation only.     *)
CommitTransaction(c) ==
  /\ eos /\ pc[c] = "commit"
  /\ joined[c] = gen
  /\ topic' = Latest(topic, pending[c])
  /\ committed' = Positions(c)
  /\ pc' = [pc EXCEPT ![c] = "cache"]
  /\ UNCHANGED <<eos, log, group, inputs, panes, pending, redis,
                 faults, ghosts>>

(* Mutant of WriteRedis: done while the transaction is open.                *)
WriteRedisEarly(c) ==
  /\ pc[c] \in {"commit", "cache"}
  /\ redis' = Latest(redis, pending[c])
  /\ pc' = [pc EXCEPT ![c] = IF @ = "commit" THEN @
                             ELSE IF eos THEN "poll" ELSE "publish"]
  /\ pending' = IF pc'[c] = "poll" THEN [pending EXCEPT ![c] = NoPending] ELSE pending
  /\ UNCHANGED <<eos, log, committed, group, inputs, panes, topic,
                 faults, ghosts>>

(* RedisHashSink.write of each record: after the commit under EOS, before   *)
(* the features topic otherwise.                                            *)
WriteRedis(c) ==
  /\ pc[c] = "cache"
  /\ redis' = Latest(redis, pending[c])
  /\ pc' = [pc EXCEPT ![c] = IF eos THEN "poll" ELSE "publish"]
  /\ pending' = IF eos THEN [pending EXCEPT ![c] = NoPending] ELSE pending
  /\ torn' = IF eos \/ joined[c] = gen THEN torn ELSE torn \cup InHand(c)
  /\ UNCHANGED <<eos, log, committed, group, inputs, panes, topic,
                 faults, cold, straddled, skipped, read>>

(* At least once: the records go to the producer's queue, and the positions *)
(* are committed asynchronously whether or not they are delivered.  Either  *)
(* may fail, or be refused, and nobody looks (_default_delivery_report).    *)
Publish(c) ==
  \E delivered, done \in BOOLEAN :
    /\ pc[c] = "publish"
    /\ delivered \/ pending[c] # NoPending
    /\ done => joined[c] = gen
    /\ topic' = IF delivered THEN Latest(topic, pending[c]) ELSE topic
    /\ torn' = IF delivered THEN torn ELSE torn \cup InHand(c)
    /\ committed' = IF done THEN Positions(c) ELSE committed
    /\ IF delivered /\ (done \/ joined[c] # gen) THEN UNCHANGED faults
       ELSE faults < MaxFaults /\ faults' = faults + 1
    /\ pending' = [pending EXCEPT ![c] = NoPending]
    /\ pc' = [pc EXCEPT ![c] = "poll"]
    /\ UNCHANGED <<eos, log, group, inputs, panes, redis, cold, straddled,
                   skipped, read>>

-----------------------------------------------------------------------------
Forget(c) ==
  /\ pc' = [pc EXCEPT ![c] = "down"]
  /\ joined' = [joined EXCEPT ![c] = None]
  /\ from' = [from EXCEPT ![c] = NoOffsets]
  /\ pos' = [pos EXCEPT ![c] = NoOffsets]
  /\ batch' = [batch EXCEPT ![c] = {}]
  /\ panes' = [panes EXCEPT ![c] = NoRecord]
  /\ pending' = [pending EXCEPT ![c] = NoPending]
  /\ UNCHANGED <<eos, log, group, redis, cold, straddled, skipped, read>>

(* A transactional error: the transaction is aborted and the process exits. *)
AbortTransaction(c) ==
  /\ eos /\ pc[c] = "commit"
  /\ IF joined[c] = gen THEN faults < MaxFaults /\ faults' = faults + 1
     ELSE UNCHANGED faults
  /\ Forget(c)
  /\ UNCHANGED <<committed, topic, torn>>

(* Between the commit and Redis, or between Redis and the topic, the record *)
(* is lost to the second: no replay emits the same windows again.           *)
Crash(c) ==
  /\ pc[c] # "down"
  /\ faults < MaxFaults /\ faults' = faults + 1
  /\ Forget(c)
  /\ torn' = IF pc[c] = "commit" THEN torn ELSE torn \cup InHand(c)
  /\ UNCHANGED <<committed, topic>>

(* request_shutdown, seen at the top of the loop, and _shutdown_sinks: the  *)
(* producers are flushed, then the positions are committed.                 *)
Shutdown(c) ==
  /\ pc[c] = "poll" /\ batch[c] = {}
  /\ faults < MaxFaults /\ faults' = faults + 1
  /\ Forget(c)
  /\ committed' = IF eos \/ joined[c] # gen THEN committed ELSE Positions(c)
  /\ UNCHANGED <<topic, torn>>

-----------------------------------------------------------------------------
InPoll(c) ==
  Revoke(c) \/ Assign(c) \/ \E p \in Partition : PollMessage(c, p)

Transaction(c) == CommitTransaction(c) \/ AbortTransaction(c)

Next ==
  \/ \E p \in Partition : Arrive(p)
  \/ Rebalance
  \/ \E c \in Proc :
       \/ Start(c) \/ InPoll(c) \/ Fold(c) \/ Transaction(c)
       \/ WriteRedis(c) \/ Publish(c)
       \/ Crash(c) \/ Shutdown(c)

Spec == Init /\ [][Next]_vars

(* Processes take their steps and are started again by whoever runs them; a *)
(* poll serves the callbacks and returns a message in the end when there is *)
(* one, whatever windows fire between two polls.                            *)
FairSpec ==
  /\ Spec
  /\ \A c \in Proc :
       /\ WF_vars(Start(c)) /\ SF_vars(InPoll(c))
       /\ WF_vars(batch[c] # {} /\ Fold(c))
       /\ WF_vars(Transaction(c) \/ WriteRedis(c) \/ Publish(c))

-----------------------------------------------------------------------------
(* What the seek-back is for (sliding/consumer.py _on_assign): the panes of *)
(* an assigned partition hold the last hour of it, as far as it was read,   *)
(* whoever read and committed it before, unless the lookup failed.          *)
PanesRebuilt ==
  \A c \in Proc \ cold, p \in Partition : \A i \in hour[p] .. MaxLength - 1 :
    pos[c][p] # None /\ i < pos[c][p] =>
      panes[c][<<p, i>>] > 0 \/ <<p, i>> \in batch[c]

(* No feature counts an event twice, although revocations, crashes, aborts  *)
(* and the seek-back all make events be read again: except events of a      *)
(* batch that was being collected when their partition went away, folded    *)
(* by _poll_batch_eos after _on_revoke has dropped its panes.               *)
FoldedOnce ==
  \A c \in Proc, m \in Message : panes[c][m] > 1 => m \in straddled

(* _commit_batch_txn: records become visible only with, or after, the       *)
(* offsets of the events they count, so that no other process publishes     *)
(* those again; with the same exception.                                    *)
OutputWithOffsets ==
  [][\A p \in Partition, m \in Message :
       eos /\ topic'[p] # topic[p] /\ topic'[p][m] > 0 =>
         \/ committed'[m[1]] # None /\ m[2] < committed'[m[1]]
         \/ m \in straddled]_vars

(* Redis shows what the topic shows, in both modes and whatever was aborted *)
(* or replayed, except on the way from one to the other; a partition whose  *)
(* record a crash, a failed delivery or a move of the partition caught on   *)
(* that way may stay torn.                                                  *)
RedisShowsTopic ==
  \A p \in Partition \ torn :
    \/ redis[p] = topic[p]
    \/ \E c \in Proc : p \in InHand(c)

(* Every message is folded in the end, across any crashes and moves,        *)
(* unless an assignment jumped over it: those before the *)
(* first commit ("latest"), and those older than an hour at an assignment   *)
(* that found younger ones.                                                 *)
EveryMessageRead ==
  \A m \in Message :
    m[2] < end[m[1]] ~> m \in read \cup skipped
=============================================================================
