--------------------------- MODULE ValidatorAloProofs ---------------------------
(***************************************************************************)
(* Proofs about ValidatorAlo, for any number of processes, partitions and  *)
(* messages, and for any bounds on faults and outages.                     *)
(***************************************************************************)
EXTENDS ValidatorAlo, TLAPS

-----------------------------------------------------------------------------
LEMMA RecordOfType == \A m \in Message : RecordOf(m) \in Record
  BY DEF RecordOf, Record, Topic

LEMMA MessageShape ==
  /\ \A m \in Message : m[1] \in Partition /\ m[2] \in Nat /\ m = <<m[1], m[2]>>
  /\ \A i \in Process : Assigned(i) \subseteq Partition
  BY ConstantsOK DEF ConstantsOK, Message, Assigned

LEMMA LeaveLoopType ==
  ASSUME TypeOK, NEW i \in Process, LeaveLoop(i)
  PROVE  /\ pc' \in [Process -> {"down", "polling", "routing", "flushed",
                                 "draining", "closing"}]
         /\ insync' \in [Process -> BOOLEAN]
         /\ batch' \in [Process -> SUBSET Message]
         /\ collected' \in [Process -> Nat]
         /\ position' \in [Process -> [Partition -> Nat]]
         /\ UNCHANGED <<output, owner, queue, givenUp>>
  BY DEF TypeOK, LeaveLoop

LEMMA CommitType ==
  ASSUME TypeOK, NEW i \in Process, CommitPositions(i)
  PROVE  committed' \in [Partition -> Nat]
  BY DEF TypeOK, CommitPositions

(* The type invariant: every step of the loop and of the client library     *)
(* leaves the group, the queues and the counters well formed.               *)
THEOREM TypeCorrect == Spec => []TypeOK
  <1> USE ConstantsOK DEF ConstantsOK
  <1>1. Init => TypeOK
    BY DEF Init, TypeOK
  <1>2. TypeOK /\ [Next]_vars => TypeOK'
    <2> SUFFICES ASSUME TypeOK, [Next]_vars PROVE TypeOK'
      OBVIOUS
    <2> USE DEF group, bounds
    <2>1. ASSUME NEW i \in Process, Start(i) PROVE TypeOK'
      BY <2>1 DEF TypeOK, Start
    <2>2. ASSUME NEW i \in Process, NEW p \in Partition, PollMessage(i, p)
          PROVE  TypeOK'
      <3>1. <<p, position[i][p]>> \in Message
        BY <2>2 DEF PollMessage
      <3>2. batch' \in [Process -> SUBSET Message]
        <4>1. batch[i] \cup {<<p, position[i][p]>>} \in SUBSET Message
          BY <3>1 DEF TypeOK
        <4> QED BY <2>2, <4>1 DEF PollMessage, TypeOK
      <3>4. collected' \in [Process -> Nat]
        BY <2>2 DEF PollMessage, TypeOK
      <3>3. position' \in [Process -> [Partition -> Nat]]
        BY <2>2 DEF PollMessage, TypeOK
      <3> QED BY <2>2, <3>2, <3>3, <3>4 DEF TypeOK, PollMessage
    <2>3. ASSUME NEW i \in Process, NEW p \in Partition, PollRaises(i, p)
          PROVE  TypeOK'
      BY <2>3, LeaveLoopType DEF TypeOK, PollRaises, BoundedFault
    <2>4. ASSUME NEW i \in Process, BeginBatch(i) PROVE TypeOK'
      BY <2>4 DEF TypeOK, BeginBatch
    <2>5. ASSUME NEW i \in Process, NEW m \in Message, HandleMsg(i, m)
          PROVE  TypeOK'
      <3>1. queue' \in [Process -> SUBSET Record]
        BY <2>5, RecordOfType DEF TypeOK, HandleMsg
      <3>2. batch' \in [Process -> SUBSET Message]
        BY <2>5 DEF TypeOK, HandleMsg
      <3> QED BY <2>5, <3>1, <3>2 DEF TypeOK, HandleMsg
    <2>6. ASSUME NEW i \in Process, Flush(i) \/ FlushTimeout(i) PROVE TypeOK'
      <3>1. CASE Flush(i)
        BY <3>1 DEF TypeOK, Flush
      <3>2. CASE FlushTimeout(i)
        BY <3>2 DEF TypeOK, FlushTimeout, BoundedOutage
      <3> QED BY <2>6, <3>1, <3>2
    <2>7. ASSUME NEW i \in Process, CommitOffsets(i) PROVE TypeOK'
      BY <2>7, CommitType DEF TypeOK, CommitOffsets
    <2>8. ASSUME NEW i \in Process, CommitRefused(i) \/ ProduceError(i)
          PROVE  TypeOK'
      BY <2>8, LeaveLoopType DEF TypeOK, CommitRefused, ProduceError, BoundedFault
    <2>9. ASSUME NEW i \in Process, CommitError(i) PROVE TypeOK'
      BY <2>9, LeaveLoopType, CommitType DEF TypeOK, CommitError, BoundedFault
    <2>10. ASSUME NEW i \in Process, Finalize(i) PROVE TypeOK'
      BY <2>10, LeaveLoopType, CommitType DEF TypeOK, Finalize
    <2>11. ASSUME NEW i \in Process, Shutdown(i) PROVE TypeOK'
      BY <2>11 DEF TypeOK, Shutdown, BoundedFault
    <2>12. ASSUME NEW i \in Process, Close(i) PROVE TypeOK'
      BY <2>12 DEF TypeOK, Close
    <2>13. ASSUME NEW i \in Process, Crash(i) PROVE TypeOK'
      BY <2>13 DEF TypeOK, Crash, BoundedFault
    <2>14. ASSUME NEW i \in Process, NEW r \in Record, Deliver(i, r)
           PROVE  TypeOK'
      BY <2>14 DEF TypeOK, Deliver
    <2>15. ASSUME NEW i \in Process, NEW r \in Record, DeliveryFailed(i, r)
           PROVE  TypeOK'
      BY <2>15 DEF TypeOK, DeliveryFailed, BoundedOutage
    <2>16. ASSUME NEW newOwner \in [Partition -> Process], Rebalance(newOwner)
           PROVE  TypeOK'
      <3>1. /\ owner' \in [Partition -> Process \cup {NoProcess}]
            /\ insync' \in [Process -> BOOLEAN]
            /\ faults' \in Nat /\ outages' \in Nat
        BY <2>16 DEF Rebalance, TypeOK, BoundedFault
      <3>2. position' \in [Process -> [Partition -> Nat]]
        BY <2>16 DEF Rebalance, TypeOK
      <3> QED BY <2>16, <3>1, <3>2 DEF Rebalance, TypeOK
    <2>17. CASE UNCHANGED vars
      BY <2>17 DEF TypeOK, vars
    <2> QED
      BY <2>1, <2>2, <2>3, <2>4, <2>5, <2>6, <2>7, <2>8, <2>9, <2>10, <2>11,
         <2>12, <2>13, <2>14, <2>15, <2>16, <2>17
         DEF Next, Run, Fault, Delivery, Balance
  <1> QED BY <1>1, <1>2, PTL DEF Spec

-----------------------------------------------------------------------------
(* The strengthening of AtLeastOnce.  Where a message is after a process    *)
(* has read it: in its batch, in its queue, delivered, or given up.         *)
Accounted(i, m) ==
  m \in batch[i] \/ RecordOf(m) \in queue[i] \cup output \cup givenUp

(* What a member has read past the committed offsets is accounted for, and  *)
(* outside a batch there is nothing of the kind.                            *)
Tracked(i) ==
  \A p \in Assigned(i) :
    /\ committed[p] <= position[i][p]
    /\ collected[i] = 0 => committed[p] = position[i][p]
    /\ \A m \in Message :
         m[1] = p /\ committed[p] <= m[2] /\ m[2] < position[i][p]
           => Accounted(i, m)

(* A flushed batch has left both hands; what the flush did not wait for has *)
(* been given up.                                                           *)
FlushedClean(i) ==
  /\ pc[i] = "flushed" => batch[i] = {} /\ queue[i] \subseteq givenUp
  /\ pc[i] = "draining" => collected[i] = 0

AloInv ==
  /\ \A i \in Process : Tracked(i)
  /\ \A i \in Process : FlushedClean(i)
  /\ AtLeastOnce

-----------------------------------------------------------------------------
(* A step that keeps what process j relies on keeps j tracked.              *)
LEMMA TrackedKept ==
  ASSUME NEW j \in Process, Tracked(j),
         Assigned(j)' \subseteq Assigned(j),
         \A p \in Assigned(j) : committed'[p] = committed[p],
         position'[j] = position[j], collected'[j] = collected[j],
         \A m \in Message : Accounted(j, m) => Accounted(j, m)'
  PROVE  Tracked(j)'
  BY DEF Tracked

(* A step that leaves the committed offsets alone and takes no record out   *)
(* of the output keeps AtLeastOnce.                                         *)
LEMMA OffsetsKept ==
  ASSUME AtLeastOnce, UNCHANGED committed,
         output \subseteq output', givenUp \subseteq givenUp'
  PROVE  AtLeastOnce'
  BY DEF AtLeastOnce, Consumed

(* Leaving the loop, whatever was committed before.                         *)
LEMMA LeavingKeeps ==
  ASSUME TypeOK, AloInv, NEW i \in Process, LeaveLoop(i),
         \A p \in Partition \ Assigned(i) : committed'[p] = committed[p],
         AtLeastOnce'
  PROVE  AloInv'
  <1>1. Assigned(i)' = {}
    BY DEF LeaveLoop, Assigned, TypeOK
  <1>2. ASSUME NEW j \in Process, j # i
        PROVE  /\ Assigned(j)' = Assigned(j) /\ Assigned(j) \cap Assigned(i) = {}
               /\ position'[j] = position[j] /\ collected'[j] = collected[j]
               /\ batch'[j] = batch[j] /\ queue'[j] = queue[j] /\ pc'[j] = pc[j]
               /\ UNCHANGED <<output, givenUp>>
    BY <1>2 DEF LeaveLoop, Assigned, TypeOK
  <1>3. \A j \in Process : Tracked(j)'
    <2>2. Tracked(i)'
      BY <1>1 DEF Tracked
    <2>3. ASSUME NEW j \in Process, j # i PROVE Tracked(j)'
      <3>1. \A m \in Message : Accounted(j, m) => Accounted(j, m)'
        BY <1>2, <2>3 DEF Accounted
      <3>2. \A p \in Assigned(j) : committed'[p] = committed[p]
        BY <1>2, <2>3, MessageShape
      <3> QED BY <1>2, <2>3, <3>1, <3>2, TrackedKept DEF AloInv
    <2> QED BY <2>2, <2>3
  <1>4. \A j \in Process : FlushedClean(j)'
    BY <1>2 DEF AloInv, FlushedClean, LeaveLoop, TypeOK
  <1> QED BY <1>3, <1>4 DEF AloInv

(* A commit moves no offset back, and only over what is in the output or    *)
(* given up.                                                                *)
LEMMA CommitKeeps ==
  ASSUME TypeOK, AloInv, NEW i \in Process, CommitPositions(i),
         \/ pc[i] = "flushed"
         \/ pc[i] = "draining",
         output \subseteq output', givenUp \subseteq givenUp'
  PROVE  /\ AtLeastOnce'
         /\ \A p \in Partition : committed'[p] >= committed[p]
         /\ \A p \in Partition \ Assigned(i) : committed'[p] = committed[p]
  <1>1. \A p \in Partition :
          committed'[p] = IF p \in Assigned(i) THEN position[i][p] ELSE committed[p]
    BY DEF CommitPositions
  <1>2. \A p \in Partition : committed[p] \in Nat /\ position[i][p] \in Nat
    BY DEF TypeOK
  <1>3. \A p \in Assigned(i) : committed[p] <= position[i][p]
    BY DEF AloInv, Tracked
  <1>4. ASSUME NEW m \in Message, Consumed(m)'
        PROVE  RecordOf(m) \in output' \cup givenUp'
    <2>1. m[1] \in Partition /\ m[2] \in Nat /\ committed[m[1]] \in Nat
      BY MessageShape DEF TypeOK
    <2>2. CASE Consumed(m)
      BY <2>2 DEF AloInv, AtLeastOnce
    <2>3. CASE ~Consumed(m)
      <3>1. /\ m[1] \in Assigned(i)
            /\ committed[m[1]] <= m[2] /\ m[2] < position[i][m[1]]
        BY <1>1, <1>2, <1>4, <2>1, <2>3 DEF Consumed
      <3>2. collected[i] # 0
        BY <1>2, <2>1, <3>1 DEF AloInv, Tracked
      <3>3. pc[i] = "flushed"
        BY <3>2 DEF AloInv, FlushedClean
      <3>4. Accounted(i, m)
        BY <3>1 DEF AloInv, Tracked
      <3>5. batch[i] = {} /\ queue[i] \subseteq givenUp
        BY <3>3 DEF AloInv, FlushedClean
      <3> QED BY <3>4, <3>5 DEF Accounted
    <2> QED BY <2>2, <2>3
  <1>5. \A p \in Partition : committed'[p] >= committed[p]
    BY <1>1, <1>2, <1>3
  <1> QED BY <1>1, <1>4, <1>5 DEF AtLeastOnce

LEMMA AloStep == TypeOK /\ AloInv /\ [Next]_vars => AloInv'
  <1> SUFFICES ASSUME TypeOK, AloInv, [Next]_vars PROVE AloInv'
    OBVIOUS
  <1> USE DEF group, bounds
  <1>1. ASSUME NEW i \in Process,
               Start(i) \/ BeginBatch(i) \/ Shutdown(i) \/ Close(i)
        PROVE  AloInv'
    <2>1. /\ UNCHANGED <<committed, output, owner, insync, position, batch,
                         collected, queue, givenUp>>
          /\ \A j \in Process : pc'[j] = pc[j] \/
               (j = i /\ pc'[j] # "flushed"
                      /\ (pc'[j] = "draining" => collected[j] = 0))
      BY <1>1 DEF Start, BeginBatch, Shutdown, Close, TypeOK
    <2>2. \A j \in Process : FlushedClean(j)'
      BY <2>1 DEF AloInv, FlushedClean
    <2>3. \A j \in Process : Tracked(j)'
      BY <2>1 DEF AloInv, Tracked, Assigned, Accounted
    <2> QED BY <2>1, <2>2, <2>3, OffsetsKept DEF AloInv
  <1>2. ASSUME NEW i \in Process, NEW p \in Partition, PollMessage(i, p)
        PROVE  AloInv'
    <2> DEFINE n == <<p, position[i][p]>>
    <2>1. /\ UNCHANGED <<committed, output, owner, insync, pc, queue, givenUp>>
          /\ n \in Message /\ pc[i] = "polling" /\ p \in Assigned(i)
          /\ batch'[i] = batch[i] \cup {n} /\ collected'[i] = collected[i] + 1
          /\ position'[i] = [position[i] EXCEPT ![p] = @ + 1]
          /\ \A j \in Process : j # i =>
               /\ position'[j] = position[j] /\ collected'[j] = collected[j]
               /\ batch'[j] = batch[j]
      BY <1>2 DEF PollMessage, TypeOK
    <2>2. \A j \in Process : Assigned(j)' = Assigned(j)
      BY <2>1 DEF Assigned
    <2>3. Tracked(i)'
      <3>1. collected'[i] # 0
        BY <2>1 DEF TypeOK
      <3>2. ASSUME NEW s \in Assigned(i)
            PROVE  /\ committed'[s] <= position'[i][s]
                   /\ \A m \in Message :
                        m[1] = s /\ committed'[s] <= m[2] /\ m[2] < position'[i][s]
                          => Accounted(i, m)'
        <4>1. /\ s \in Partition /\ committed[s] \in Nat /\ position[i][s] \in Nat
              /\ committed[s] <= position[i][s]
          BY <3>2, MessageShape DEF TypeOK, AloInv, Tracked
        <4>2. position'[i][s] = IF s = p THEN position[i][p] + 1 ELSE position[i][s]
          BY <2>1, <4>1 DEF TypeOK
        <4>3. ASSUME NEW m \in Message, m[1] = s, committed[s] <= m[2],
                     m[2] < position'[i][s]
              PROVE  Accounted(i, m)'
          <5>1. CASE m = n
            BY <2>1, <5>1 DEF Accounted
          <5>2. CASE m # n
            <6>1. m[2] \in Nat /\ m = <<m[1], m[2]>>
              BY MessageShape
            <6>2. m[2] < position[i][s]
              BY <4>1, <4>2, <4>3, <5>2, <6>1
            <6>3. Accounted(i, m)
              BY <3>2, <4>3, <6>2 DEF AloInv, Tracked
            <6> QED BY <2>1, <6>3 DEF Accounted
          <5> QED BY <5>1, <5>2
        <4>4. committed[s] <= position'[i][s]
          BY <4>1, <4>2
        <4> QED BY <2>1, <4>3, <4>4
      <3> QED BY <2>2, <3>1, <3>2 DEF Tracked
    <2>4. ASSUME NEW j \in Process, j # i PROVE Tracked(j)'
      <3>1. \A m \in Message : Accounted(j, m) => Accounted(j, m)'
        BY <2>1, <2>4 DEF Accounted
      <3> QED BY <2>1, <2>2, <2>4, <3>1, TrackedKept DEF AloInv
    <2>5. \A j \in Process : FlushedClean(j)'
      BY <2>1 DEF AloInv, FlushedClean
    <2> QED BY <2>1, <2>3, <2>4, <2>5, OffsetsKept DEF AloInv
  <1>3. ASSUME NEW i \in Process, UNCHANGED <<committed, output, givenUp>>,
               LeaveLoop(i)
        PROVE  AloInv'
    BY <1>3, LeavingKeeps, OffsetsKept DEF AloInv
  <1>4. ASSUME NEW i \in Process, NEW n \in Message, HandleMsg(i, n)
        PROVE  AloInv'
    <2>1. /\ UNCHANGED <<committed, output, owner, insync, pc, position,
                         collected, givenUp>>
          /\ batch'[i] = batch[i] \ {n} /\ queue'[i] = queue[i] \cup {RecordOf(n)}
          /\ pc[i] = "routing"
          /\ \A j \in Process : j # i => batch'[j] = batch[j] /\ queue'[j] = queue[j]
      BY <1>4 DEF HandleMsg, TypeOK
    <2>2. \A j \in Process : Assigned(j)' = Assigned(j)
      BY <2>1 DEF Assigned
    <2>3. ASSUME NEW j \in Process PROVE Tracked(j)'
      <3>1. \A m \in Message : Accounted(j, m) => Accounted(j, m)'
        BY <2>1 DEF Accounted
      <3> QED BY <2>1, <2>2, <3>1, TrackedKept DEF AloInv
    <2>4. \A j \in Process : FlushedClean(j)'
      BY <2>1 DEF AloInv, FlushedClean
    <2> QED BY <2>1, <2>3, <2>4, OffsetsKept DEF AloInv
  <1>5. ASSUME NEW i \in Process, Flush(i) \/ FlushTimeout(i) PROVE AloInv'
    <2>1. /\ UNCHANGED <<committed, output, owner, insync, position, batch,
                         collected, queue>>
          /\ givenUp \subseteq givenUp' /\ queue[i] \subseteq givenUp'
          /\ batch[i] = {} /\ pc'[i] = "flushed"
          /\ \A j \in Process : j # i => pc'[j] = pc[j]
      BY <1>5 DEF Flush, FlushTimeout, TypeOK
    <2>2. \A j \in Process : Assigned(j)' = Assigned(j)
      BY <2>1 DEF Assigned
    <2>3. ASSUME NEW j \in Process PROVE Tracked(j)'
      <3>1. \A m \in Message : Accounted(j, m) => Accounted(j, m)'
        BY <2>1 DEF Accounted
      <3> QED BY <2>1, <2>2, <3>1, TrackedKept DEF AloInv
    <2>4. \A j \in Process : FlushedClean(j)'
      BY <2>1 DEF AloInv, FlushedClean
    <2> QED BY <2>1, <2>3, <2>4, OffsetsKept DEF AloInv
  <1>6. ASSUME NEW i \in Process, CommitOffsets(i) PROVE AloInv'
    <2>1. /\ UNCHANGED <<output, owner, insync, position, batch, queue, givenUp>>
          /\ CommitPositions(i) /\ pc[i] = "flushed" /\ pc'[i] = "polling"
          /\ \A j \in Process : j # i => pc'[j] = pc[j] /\ collected'[j] = collected[j]
      BY <1>6 DEF CommitOffsets, TypeOK
    <2>2. /\ AtLeastOnce'
          /\ \A p \in Partition \ Assigned(i) : committed'[p] = committed[p]
      BY <2>1, CommitKeeps
    <2>3. \A j \in Process : Assigned(j)' = Assigned(j)
      BY <2>1 DEF Assigned
    <2>4. Tracked(i)'
      <3>1. \A p \in Assigned(i) :
              committed'[p] = position[i][p] /\ position[i][p] \in Nat
        BY <2>1, MessageShape DEF CommitPositions, TypeOK
      <3>2. \A m \in Message : m[2] \in Nat
        BY MessageShape
      <3> QED BY <2>1, <2>3, <3>1, <3>2 DEF Tracked
    <2>5. ASSUME NEW j \in Process, j # i PROVE Tracked(j)'
      <3>1. \A m \in Message : Accounted(j, m) => Accounted(j, m)'
        BY <2>1 DEF Accounted
      <3>2. \A p \in Assigned(j) : committed'[p] = committed[p]
        BY <2>2, <2>5, MessageShape DEF Assigned
      <3> QED BY <2>1, <2>3, <2>5, <3>1, <3>2, TrackedKept DEF AloInv
    <2>6. \A j \in Process : FlushedClean(j)'
      BY <2>1 DEF AloInv, FlushedClean
    <2> QED BY <2>2, <2>4, <2>5, <2>6 DEF AloInv
  <1>7. ASSUME NEW i \in Process, CommitError(i) PROVE AloInv'
    <2>1. UNCHANGED <<output, givenUp>>
      BY <1>7 DEF CommitError, LeaveLoop
    <2>2. CASE CommitPositions(i)
      BY <1>7, <2>1, <2>2, CommitKeeps, LeavingKeeps DEF CommitError
    <2>3. CASE UNCHANGED committed
      BY <1>3, <1>7, <2>1, <2>3 DEF CommitError
    <2> QED BY <1>7, <2>2, <2>3 DEF CommitError
  <1>8. ASSUME NEW i \in Process, Finalize(i) PROVE AloInv'
    <2>1. UNCHANGED <<output, givenUp>>
      BY <1>8 DEF Finalize, LeaveLoop
    <2> QED BY <1>8, <2>1, CommitKeeps, LeavingKeeps DEF Finalize
  <1>9. ASSUME NEW i \in Process, Crash(i) PROVE AloInv'
    <2>1. /\ UNCHANGED <<committed, output, owner, givenUp>>
          /\ ~insync'[i] /\ pc'[i] = "down"
          /\ \A j \in Process : j # i =>
               /\ insync'[j] = insync[j] /\ pc'[j] = pc[j]
               /\ batch'[j] = batch[j] /\ collected'[j] = collected[j]
               /\ position'[j] = position[j] /\ queue'[j] = queue[j]
      BY <1>9 DEF Crash, TypeOK
    <2>2. Assigned(i)' = {} /\ \A j \in Process : j # i => Assigned(j)' = Assigned(j)
      BY <2>1 DEF Assigned
    <2>3. Tracked(i)'
      BY <2>2 DEF Tracked
    <2>4. ASSUME NEW j \in Process, j # i PROVE Tracked(j)'
      <3>1. \A m \in Message : Accounted(j, m) => Accounted(j, m)'
        BY <2>1, <2>4 DEF Accounted
      <3> QED BY <2>1, <2>2, <2>4, <3>1, TrackedKept DEF AloInv
    <2>5. \A j \in Process : FlushedClean(j)'
      BY <2>1 DEF AloInv, FlushedClean
    <2> QED BY <2>1, <2>3, <2>4, <2>5, OffsetsKept DEF AloInv
  <1>10. ASSUME NEW i \in Process, NEW r \in Record,
                Deliver(i, r) \/ DeliveryFailed(i, r)
         PROVE  AloInv'
    <2>1. /\ UNCHANGED <<committed, owner, insync, pc, position, batch, collected>>
          /\ queue'[i] = queue[i] \ {r}
          /\ r \in output' \cup givenUp'
          /\ output \subseteq output' /\ givenUp \subseteq givenUp'
          /\ \A j \in Process : j # i => queue'[j] = queue[j]
      BY <1>10 DEF Deliver, DeliveryFailed, TypeOK
    <2>2. \A j \in Process : Assigned(j)' = Assigned(j)
      BY <2>1 DEF Assigned
    <2>3. ASSUME NEW j \in Process PROVE Tracked(j)'
      <3>1. \A m \in Message : Accounted(j, m) => Accounted(j, m)'
        BY <2>1 DEF Accounted
      <3> QED BY <2>1, <2>2, <3>1, TrackedKept DEF AloInv
    <2>4. \A j \in Process : FlushedClean(j)'
      BY <2>1 DEF AloInv, FlushedClean
    <2> QED BY <2>1, <2>3, <2>4, OffsetsKept DEF AloInv
  <1>11. ASSUME NEW newOwner \in [Partition -> Process], Rebalance(newOwner)
         PROVE  AloInv'
    <2>1. UNCHANGED <<committed, output, pc, batch, collected, queue, givenUp>>
      BY <1>11 DEF Rebalance
    <2>2. ASSUME NEW j \in Process, NEW p \in Assigned(j)'
          PROVE  position'[j][p] = committed[p] /\ p \in Partition
      BY <1>11, <2>2 DEF Rebalance, Assigned, TypeOK
    <2>3. ASSUME NEW j \in Process PROVE Tracked(j)'
      <3>1. \A m \in Message : m[2] \in Nat
        BY MessageShape
      <3>2. \A p \in Partition : committed[p] \in Nat
        BY DEF TypeOK
      <3> QED BY <2>1, <2>2, <3>1, <3>2 DEF Tracked
    <2>4. \A j \in Process : FlushedClean(j)'
      BY <2>1 DEF AloInv, FlushedClean
    <2> QED BY <2>1, <2>3, <2>4, OffsetsKept DEF AloInv
  <1>12. CASE UNCHANGED vars
    BY <1>12 DEF vars, AloInv, Tracked, FlushedClean, Accounted, Assigned,
                 AtLeastOnce, Consumed
  <1>13. ASSUME NEW i \in Process,
                \/ \E p \in Partition : PollRaises(i, p)
                \/ CommitRefused(i) \/ ProduceError(i)
         PROVE  AloInv'
    BY <1>3, <1>13 DEF PollRaises, CommitRefused, ProduceError, LeaveLoop
  <1> QED
    BY <1>1, <1>2, <1>4, <1>5, <1>6, <1>7, <1>8, <1>9, <1>10, <1>11, <1>12, <1>13
       DEF Next, Run, Fault, Delivery, Balance

LEMMA AloInvariant == Spec => []AloInv
  <1>1. Init => AloInv
    <2> SUFFICES ASSUME Init PROVE AloInv
      OBVIOUS
    <2>1. \A m \in Message : m[1] \in Partition /\ m[2] \in Nat
      BY MessageShape
    <2> QED BY <2>1 DEF Init, AloInv, Tracked, FlushedClean, Assigned,
                       AtLeastOnce, Consumed
  <1> QED BY <1>1, AloStep, TypeCorrect, PTL DEF Spec

(* Flush before commit is at-least-once: for any group, any crashes and any *)
(* commits of unknown effect, what the committed offsets leave behind is in *)
(* the output or was given up by the producer.                              *)
THEOREM NothingSkipped == Spec => []AtLeastOnce
  <1>1. AloInv => AtLeastOnce
    BY DEF AloInv
  <1> QED BY <1>1, AloInvariant, PTL

(* Committed offsets only move forward, evicted members included.           *)
THEOREM OffsetsAdvance == Spec => OffsetsNeverRegress
  <1>1. TypeOK /\ AloInv /\ [Next]_vars
          => [\A p \in Partition : committed'[p] >= committed[p]]_vars
    <2> SUFFICES ASSUME TypeOK, AloInv, [Next]_vars
                 PROVE  \A p \in Partition : committed'[p] >= committed[p]
      OBVIOUS
    <2> USE DEF group, bounds
    <2>1. \A p \in Partition : committed[p] \in Nat
      BY DEF TypeOK
    <2>2. CASE UNCHANGED committed
      BY <2>1, <2>2
    <2>3. ASSUME NEW i \in Process, CommitPositions(i),
                 pc[i] = "flushed" \/ pc[i] = "draining",
                 UNCHANGED <<output, givenUp>>
          PROVE  \A p \in Partition : committed'[p] >= committed[p]
      BY <2>3, CommitKeeps
    <2>4. ASSUME NEW i \in Process,
                 CommitOffsets(i) \/ CommitError(i) \/ Finalize(i)
          PROVE  \/ UNCHANGED committed
                 \/ /\ CommitPositions(i)
                    /\ pc[i] = "flushed" \/ pc[i] = "draining"
                    /\ UNCHANGED <<output, givenUp>>
      BY <2>4 DEF CommitOffsets, CommitError, Finalize, LeaveLoop
    <2>5. ASSUME NEW i \in Process, Run(i) \/ Delivery(i)
          PROVE  UNCHANGED committed \/ CommitOffsets(i) \/ Finalize(i)
      BY <2>5 DEF Run, Delivery, Start, PollMessage, PollRaises, BeginBatch,
             HandleMsg, Flush, CommitRefused, Close, Deliver
    <2>6. ASSUME NEW i \in Process, Fault(i)
          PROVE  UNCHANGED committed \/ CommitError(i)
      BY <2>6 DEF Fault, FlushTimeout, ProduceError, Shutdown, Crash,
             DeliveryFailed
    <2>7. Balance \/ UNCHANGED vars => UNCHANGED committed
      BY DEF Balance, Rebalance, vars
    <2>8. \/ UNCHANGED committed
          \/ \E i \in Process : CommitOffsets(i) \/ CommitError(i) \/ Finalize(i)
      BY <2>5, <2>6, <2>7 DEF Next
    <2> QED BY <2>2, <2>3, <2>4, <2>8
  <1> QED BY <1>1, AloInvariant, TypeCorrect, PTL DEF Spec, OffsetsNeverRegress

(* Where the brokers never keep a flush or a record waiting too long, the   *)
(* documented ordering holds: no offset passes an unacknowledged record.    *)
THEOREM AckedWithoutOutages ==
  MaxOutages = 0 => (Spec => []AckedBeforeCommit)
  <1> SUFFICES ASSUME MaxOutages = 0 PROVE Spec => []AckedBeforeCommit
    OBVIOUS
  <1> DEFINE None == givenUp = {}
  <1>1. Init => None
    BY DEF Init
  <1>2. TypeOK /\ None /\ [Next]_vars => None'
    <2> SUFFICES ASSUME TypeOK, givenUp = {}, [Next]_vars PROVE givenUp' = {}
      OBVIOUS
    <2>1. ~BoundedOutage
      BY DEF BoundedOutage, TypeOK
    <2>2. ASSUME NEW i \in Process, Run(i) \/ Delivery(i) PROVE UNCHANGED givenUp
      BY <2>2 DEF Run, Delivery, Start, PollMessage, PollRaises, BeginBatch,
             HandleMsg, Flush, CommitOffsets, CommitRefused, Finalize, Close,
             Deliver, LeaveLoop
    <2>3. ASSUME NEW i \in Process, Fault(i) PROVE UNCHANGED givenUp
      BY <2>1, <2>3 DEF Fault, FlushTimeout, CommitError, ProduceError, Shutdown,
             Crash, DeliveryFailed, LeaveLoop
    <2>4. Balance \/ UNCHANGED vars => UNCHANGED givenUp
      BY DEF Balance, Rebalance, vars
    <2> QED BY <2>2, <2>3, <2>4 DEF Next
  <1>3. AtLeastOnce /\ None => AckedBeforeCommit
    BY DEF AtLeastOnce, AckedBeforeCommit
  <1> HIDE DEF None
  <1> QED BY <1>1, <1>2, <1>3, TypeCorrect, NothingSkipped, PTL DEF Spec
=============================================================================
