---------------------------- MODULE SinkRunnerProofs ----------------------------
(***************************************************************************)
(* Proofs about SinkRunner, for any number of processes, partitions and    *)
(* messages, any caps on batches and polls, and any bound on faults.       *)
(***************************************************************************)
EXTENDS SinkRunner, FiniteSetTheorems, TLAPS

-----------------------------------------------------------------------------
LEMMA MessageShape ==
  /\ \A m \in Message : m[1] \in Partition /\ m[2] \in Nat /\ m = <<m[1], m[2]>>
  /\ \A i \in Process : Assigned(i) \subseteq Partition
  BY ConstantsOK DEF ConstantsOK, Message, Assigned

(* A batch has at most as many new rows as events.                          *)
LEMMA FreshRows ==
  ASSUME TypeOK, NEW i \in Process
  PROVE  /\ Rows(i) \subseteq {IdOf[m] : m \in Message}
         /\ Cardinality(Rows(i) \ table) \in Nat
         /\ Cardinality(Rows(i) \ table) <= Len(batch[i])
  <1> DEFINE N == Len(batch[i])
             f == [n \in 1 .. N |-> IdOf[batch[i][n]]]
  <1>1. N \in Nat /\ batch[i] \in Seq(Message)
    BY DEF TypeOK
  <1>2. \A n \in 1 .. N : batch[i][n] \in Message
    BY <1>1
  <1>3. Rows(i) \subseteq {IdOf[m] : m \in Message}
    BY <1>2 DEF Rows
  <1>4. f \in Surjection(1 .. N, Rows(i))
    BY DEF Surjection, Rows
  <1>5. IsFiniteSet(1 .. N) /\ Cardinality(1 .. N) = N
    BY <1>1, FS_Interval
  <1>6. IsFiniteSet(Rows(i)) /\ Cardinality(Rows(i)) <= N
    <2> HIDE DEF f, N
    <2> QED BY <1>4, <1>5, FS_Surjection
  <1>7. /\ IsFiniteSet(Rows(i) \ table)
        /\ Cardinality(Rows(i) \ table) <= Cardinality(Rows(i))
    BY <1>6, FS_Subset
  <1>8. Cardinality(Rows(i)) \in Nat /\ Cardinality(Rows(i) \ table) \in Nat
    BY <1>6, <1>7, FS_CardinalityType
  <1> QED BY <1>1, <1>3, <1>6, <1>7, <1>8

(* Counting keeps a tally well formed.                                      *)
LEMMA CountType ==
  ASSUME tally \in [Process -> Tally], NEW i \in Process,
         NEW c \in Nat, NEW n \in Nat, NEW k \in Nat, NEW f \in Nat,
         Count(i, c, n, k, f)
  PROVE  tally' \in [Process -> Tally]
  BY DEF Count, Tally

(* What a process counts as inserted was in its batch.                      *)
FreshInBatch == \A i \in Process : fresh[i] <= Len(batch[i])

TypeInv == TypeOK /\ FreshInBatch

LEMMA LeaveType ==
  ASSUME TypeInv, NEW i \in Process, Leave(i),
         committed' \in [Partition -> Nat],
         table' \subseteq {IdOf[m] : m \in Message}, faults' \in Nat
  PROVE  TypeInv'
  <1>1. UNCHANGED owner
    BY DEF Leave
  <1>2. 0 \in 0 .. Attempts - 1 /\ <<>> \in Seq(Message)
    BY ConstantsOK DEF ConstantsOK
  <1>3. NoTally \in Tally
    BY DEF Tally, NoTally
  <1>4. /\ pc' \in [Process -> {"down", "polling", "flushing", "inserted"}]
        /\ insync' \in [Process -> BOOLEAN]
        /\ conn' \in [Process -> {"none", "open", "broken"}]
        /\ stopping' \in [Process -> BOOLEAN]
        /\ collected' \in [Process -> Nat]
        /\ fresh' \in [Process -> Nat]
    BY DEF Leave, TypeInv, TypeOK
  <1>5. position' \in [Process -> [Partition -> Nat]]
    BY DEF Leave, TypeInv, TypeOK
  <1>6. /\ tried' \in [Process -> 0 .. Attempts - 1]
        /\ batch' \in [Process -> Seq(Message)]
        /\ tally' \in [Process -> Tally]
    BY <1>2, <1>3 DEF Leave, TypeInv, TypeOK
  <1>7. FreshInBatch'
    <2>1. /\ fresh'[i] = 0 /\ batch'[i] = <<>>
          /\ \A j \in Process : j # i => fresh'[j] = fresh[j] /\ batch'[j] = batch[j]
      BY DEF Leave, TypeInv, TypeOK
    <2> QED BY <2>1 DEF TypeInv, FreshInBatch
  <1>8. owner' \in [Partition -> Process \cup {NoProcess}]
    BY <1>1 DEF TypeInv, TypeOK
  <1> QED BY <1>4, <1>5, <1>6, <1>7, <1>8 DEF TypeInv, TypeOK

LEMMA AttemptType ==
  ASSUME TypeInv, NEW i \in Process, NEW c \in {"none", "open", "broken"},
         AttemptFails(i, c), UNCHANGED committed,
         table' \subseteq {IdOf[m] : m \in Message}, faults' \in Nat
  PROVE  TypeInv'
  <1>1. CASE Leave(i)
    BY <1>1, LeaveType DEF TypeInv, TypeOK
  <1>2. CASE ~Leave(i)
    <2>1. /\ tried[i] + 1 < Attempts /\ tried' = [tried EXCEPT ![i] = @ + 1]
          /\ conn' = [conn EXCEPT ![i] = c]
          /\ UNCHANGED <<group, pc, position, batch, collected, fresh, stopping,
                         tally>>
      BY <1>2 DEF AttemptFails
    <2>2. tried' \in [Process -> 0 .. Attempts - 1]
      BY <2>1, ConstantsOK DEF ConstantsOK, TypeInv, TypeOK
    <2> QED BY <2>1, <2>2 DEF TypeInv, TypeOK, FreshInBatch, group
  <1> QED BY <1>1, <1>2

LEMMA CommitType ==
  ASSUME TypeOK, NEW i \in Process, CommitPositions(i)
  PROVE  committed' \in [Partition -> Nat]
  BY DEF TypeOK, CommitPositions

LEMMA TypeStep == TypeInv /\ [Next]_vars => TypeInv'
  <1> SUFFICES ASSUME TypeInv, [Next]_vars PROVE TypeInv'
    OBVIOUS
  <1> USE DEF group, writer, process
  <1>1. ASSUME NEW i \in Process, Start(i) \/ BeginFlush(i) PROVE TypeInv'
    <2>2. pc \in [Process -> {"down", "polling", "flushing", "inserted"}]
      BY DEF TypeInv, TypeOK
    <2>3. collected \in [Process -> Nat]
      BY DEF TypeInv, TypeOK
    <2>1. /\ pc' \in [Process -> {"down", "polling", "flushing", "inserted"}]
          /\ collected' \in [Process -> Nat]
          /\ UNCHANGED <<committed, table, owner, insync, position, batch, conn,
                         tried, fresh, stopping, tally, faults>>
      BY <1>1, <2>2, <2>3 DEF Start, BeginFlush
    <2> QED BY <2>1 DEF TypeInv, TypeOK, FreshInBatch
  <1>2. ASSUME NEW i \in Process, NEW p \in Partition, PollMessage(i, p)
        PROVE  TypeInv'
    <2> DEFINE m == <<p, position[i][p]>>
    <2>1. /\ m \in Message
          /\ position' = [position EXCEPT ![i][p] = @ + 1]
          /\ collected' = [collected EXCEPT ![i] = @ + 1]
          /\ UNCHANGED <<committed, table, owner, insync, pc, conn, tried, fresh,
                         stopping, faults>>
      BY <1>2 DEF PollMessage
    <2>2. position' \in [Process -> [Partition -> Nat]]
      BY <2>1 DEF TypeInv, TypeOK
    <2>3. collected' \in [Process -> Nat]
      BY <2>1 DEF TypeInv, TypeOK
    <2>4. tally' \in [Process -> Tally]
      <3>1. tally \in [Process -> Tally]
        BY DEF TypeInv, TypeOK
      <3>2. Count(i, 1, 0, 0, 0) \/ Count(i, 1, 0, 0, 1)
        BY <1>2 DEF PollMessage
      <3> QED BY <3>1, <3>2, CountType
    <2>5. batch' = [batch EXCEPT ![i] = Append(@, m)] \/ batch' = batch
      BY <1>2 DEF PollMessage
    <2>6. /\ batch[i] \in Seq(Message)
          /\ Append(batch[i], m) \in Seq(Message)
          /\ Len(Append(batch[i], m)) = Len(batch[i]) + 1
          /\ Len(batch[i]) \in Nat
      BY <2>1 DEF TypeInv, TypeOK
    <2>7. batch' \in [Process -> Seq(Message)]
      BY <2>5, <2>6 DEF TypeInv, TypeOK
    <2>8. FreshInBatch'
      <3>1. ASSUME NEW j \in Process PROVE fresh'[j] <= Len(batch'[j])
        <4>1. fresh'[j] = fresh[j] /\ fresh[j] \in Nat /\ fresh[j] <= Len(batch[j])
          BY <2>1 DEF TypeInv, TypeOK, FreshInBatch
        <4>2. batch'[j] = batch[j] \/ (j = i /\ batch'[j] = Append(batch[i], m))
          BY <2>5 DEF TypeInv, TypeOK
        <4> QED BY <2>6, <4>1, <4>2
      <3> QED BY <3>1 DEF FreshInBatch
    <2> QED BY <2>1, <2>2, <2>3, <2>4, <2>7, <2>8 DEF TypeInv, TypeOK
  <1>3. ASSUME NEW i \in Process, NEW p \in Partition, PollRaises(i, p)
        PROVE  TypeInv'
    <2>1. UNCHANGED <<committed, table>> /\ Leave(i)
      BY <1>3 DEF PollRaises
    <2>2. /\ committed' \in [Partition -> Nat]
          /\ table' \subseteq {IdOf[m] : m \in Message}
      BY <2>1 DEF TypeInv, TypeOK
    <2>3. faults' \in Nat
      BY <1>3 DEF PollRaises, BoundedFault, TypeInv, TypeOK
    <2> QED BY <2>1, <2>2, <2>3, LeaveType
  <1>4. ASSUME NEW i \in Process, PollReturns(i) PROVE TypeInv'
    <2>1. /\ collected' \in [Process -> Nat]
          /\ UNCHANGED <<committed, table, owner, insync, pc, position, batch,
                         conn, tried, fresh, stopping, tally, faults>>
      BY <1>4 DEF TypeInv, TypeOK, PollReturns
    <2> QED BY <2>1 DEF TypeInv, TypeOK, FreshInBatch
  <1>5. ASSUME NEW i \in Process, Shutdown(i) PROVE TypeInv'
    <2>1. UNCHANGED <<committed, table>> /\ faults' \in Nat
      BY <1>5 DEF Shutdown, BoundedFault, TypeInv, TypeOK
    <2>2. CASE Leave(i)
      BY <2>1, <2>2, LeaveType DEF TypeInv, TypeOK
    <2>3. CASE ~Leave(i)
      BY <1>5, <2>1, <2>3 DEF Shutdown, TypeInv, TypeOK, FreshInBatch
    <2> QED BY <2>2, <2>3
  <1>6. ASSUME NEW i \in Process, Insert(i) PROVE TypeInv'
    <2>1. table' \subseteq {IdOf[m] : m \in Message}
      BY <1>6, FreshRows DEF Insert, TypeInv, TypeOK
    <2>2. /\ UNCHANGED <<committed, owner, insync, position, batch, collected,
                         stopping, tally, faults>>
          /\ pc' \in [Process -> {"down", "polling", "flushing", "inserted"}]
          /\ conn' \in [Process -> {"none", "open", "broken"}]
      BY <1>6 DEF Insert, TypeInv, TypeOK
    <2>3. tried' \in [Process -> 0 .. Attempts - 1]
      BY <1>6, ConstantsOK DEF ConstantsOK, Insert, TypeInv, TypeOK
    <2>4. /\ fresh' = [fresh EXCEPT ![i] = Cardinality(Rows(i) \ table)]
          /\ Cardinality(Rows(i) \ table) \in Nat
          /\ Cardinality(Rows(i) \ table) <= Len(batch[i])
      BY <1>6, FreshRows DEF Insert, TypeInv
    <2>5. fresh' \in [Process -> Nat]
      BY <2>4 DEF TypeInv, TypeOK
    <2>6. FreshInBatch'
      BY <2>2, <2>4 DEF TypeInv, TypeOK, FreshInBatch
    <2> QED BY <2>1, <2>2, <2>3, <2>5, <2>6 DEF TypeInv, TypeOK
  <1>7. ASSUME NEW i \in Process, DatabaseError(i) PROVE TypeInv'
    <2>1. /\ UNCHANGED <<committed, table>> /\ faults' \in Nat
          /\ \E c \in {"none", "open", "broken"} : AttemptFails(i, c)
      BY <1>7 DEF DatabaseError, BoundedFault, TypeInv, TypeOK
    <2> QED BY <2>1, AttemptType DEF TypeInv, TypeOK
  <1>8. ASSUME NEW i \in Process, ConnectionLost(i) \/ ConnectionDead(i)
        PROVE  TypeInv'
    <2>1. /\ UNCHANGED committed /\ faults' \in Nat
          /\ AttemptFails(i, "broken")
          /\ table' = table \/ table' = table \cup Rows(i)
      BY <1>8 DEF ConnectionLost, ConnectionDead, BoundedFault, TypeInv, TypeOK
    <2>2. table' \subseteq {IdOf[m] : m \in Message}
      BY <2>1, FreshRows DEF TypeInv, TypeOK
    <2> QED BY <2>1, <2>2, AttemptType
  <1>9. CASE DatabaseRestart
    <2>1. conn' \in [Process -> {"none", "open", "broken"}] /\ faults' \in Nat
      BY <1>9 DEF DatabaseRestart, BoundedFault, TypeInv, TypeOK
    <2> QED BY <1>9, <2>1 DEF DatabaseRestart, TypeInv, TypeOK, FreshInBatch
  <1>10. ASSUME NEW i \in Process, CommitOffsets(i) PROVE TypeInv'
    <2>1. /\ committed' \in [Partition -> Nat]
          /\ UNCHANGED <<table, faults>>
      BY <1>10, CommitType DEF CommitOffsets, TypeInv
    <2>2. CASE Leave(i)
      BY <2>1, <2>2, LeaveType DEF TypeInv, TypeOK
    <2>3. CASE ~Leave(i)
      <3>1. /\ RecordFlush(i)
            /\ pc' = [pc EXCEPT ![i] = "polling"]
            /\ batch' = [batch EXCEPT ![i] = <<>>]
            /\ fresh' = [fresh EXCEPT ![i] = 0]
            /\ UNCHANGED <<owner, insync, position, collected, conn, tried, stopping>>
        BY <1>10, <2>3 DEF CommitOffsets
      <3>2. Len(batch[i]) - fresh[i] \in Nat
        BY DEF TypeInv, TypeOK, FreshInBatch
      <3>3. tally' \in [Process -> Tally]
        <4>1. tally \in [Process -> Tally] /\ fresh[i] \in Nat
          BY DEF TypeInv, TypeOK
        <4> QED BY <3>1, <3>2, <4>1, CountType DEF RecordFlush
      <3>4. /\ pc' \in [Process -> {"down", "polling", "flushing", "inserted"}]
            /\ fresh' \in [Process -> Nat]
            /\ batch' \in [Process -> Seq(Message)]
        BY <3>1 DEF TypeInv, TypeOK
      <3>5. FreshInBatch'
        BY <3>1 DEF TypeInv, TypeOK, FreshInBatch
      <3> QED BY <2>1, <3>1, <3>3, <3>4, <3>5 DEF TypeInv, TypeOK
    <2> QED BY <2>2, <2>3
  <1>11. ASSUME NEW i \in Process, CommitRefused(i) PROVE TypeInv'
    <2>1. /\ UNCHANGED <<committed, table, faults>>
          /\ Leave(i)
      BY <1>11 DEF CommitRefused
    <2>2. /\ committed' \in [Partition -> Nat]
          /\ table' \subseteq {IdOf[m] : m \in Message}
          /\ faults' \in Nat
      BY <2>1 DEF TypeInv, TypeOK
    <2> QED BY <2>1, <2>2, LeaveType
  <1>12. ASSUME NEW i \in Process, CommitError(i) PROVE TypeInv'
    <2>1. committed' \in [Partition -> Nat]
      BY <1>12, CommitType DEF CommitError, TypeInv, TypeOK
    <2>2. /\ table' \subseteq {IdOf[m] : m \in Message}
          /\ faults' \in Nat
          /\ Leave(i)
      BY <1>12 DEF CommitError, BoundedFault, TypeInv, TypeOK
    <2> QED BY <2>1, <2>2, LeaveType
  <1>13. ASSUME NEW i \in Process, Crash(i) PROVE TypeInv'
    <2>1. table' \subseteq {IdOf[m] : m \in Message}
      BY <1>13, FreshRows DEF Crash, TypeInv, TypeOK
    <2>2. /\ committed' \in [Partition -> Nat]
          /\ faults' \in Nat
          /\ Leave(i)
      BY <1>13 DEF Crash, BoundedFault, TypeInv, TypeOK
    <2> QED BY <2>1, <2>2, LeaveType
  <1>14. ASSUME NEW newOwner \in [Partition -> Process], Rebalance(newOwner)
         PROVE  TypeInv'
    <2>1. /\ owner' \in [Partition -> Process \cup {NoProcess}]
          /\ insync' \in [Process -> BOOLEAN]
      BY <1>14 DEF Rebalance
    <2>3. faults' \in Nat
      BY <1>14 DEF Rebalance, BoundedFault, TypeInv, TypeOK
    <2>2. position' \in [Process -> [Partition -> Nat]]
      BY <1>14 DEF Rebalance, TypeInv, TypeOK
    <2> QED BY <1>14, <2>1, <2>2, <2>3 DEF Rebalance, TypeInv, TypeOK, FreshInBatch
  <1>15. CASE UNCHANGED vars
    BY <1>15 DEF vars, TypeInv, TypeOK, FreshInBatch
  <1> QED
    BY <1>1, <1>2, <1>3, <1>4, <1>5, <1>6, <1>7, <1>8, <1>9, <1>10, <1>11,
       <1>12, <1>13, <1>14, <1>15 DEF Next, Run, Fault, Balance

LEMMA TypeInvariant == Spec => []TypeInv
  <1>1. Init => TypeInv
    <2>1. Init => TypeOK
      BY ConstantsOK DEF ConstantsOK, Init, TypeOK, Tally, NoTally
    <2>2. Init => FreshInBatch
      BY DEF Init, FreshInBatch
    <2> QED BY <2>1, <2>2 DEF TypeInv
  <1> QED BY <1>1, TypeStep, PTL DEF Spec

(* The type invariant: attempts stay within flush_retry_attempts, and no    *)
(* count of SinkAccountant goes negative, which record_flush would refuse.  *)
THEOREM TypeCorrect == Spec => []TypeOK
  <1>1. TypeInv => TypeOK
    BY DEF TypeInv
  <1> QED BY <1>1, TypeInvariant, PTL

-----------------------------------------------------------------------------
(* A poll begins below the row cap and reads at most MaxPoll messages.      *)
BatchInv(i) ==
  /\ collected[i] <= MaxPoll
  /\ Len(batch[i]) < MaxRows + MaxPoll
  /\ pc[i] \in {"down", "polling"} => Len(batch[i]) < MaxRows + collected[i]

LEMMA BatchKept ==
  ASSUME NEW j \in Process, BatchInv(j),
         batch'[j] = batch[j], collected'[j] = collected[j],
         pc'[j] = "down" \/ pc'[j] = "polling" => pc[j] \in {"down", "polling"}
  PROVE  BatchInv(j)'
  BY DEF BatchInv

LEMMA BatchEmptied ==
  ASSUME NEW j \in Process, batch'[j] = <<>>, collected'[j] \in Nat,
         collected'[j] <= MaxPoll
  PROVE  BatchInv(j)'
  BY ConstantsOK DEF ConstantsOK, BatchInv

LEMMA BatchStep ==
  TypeInv /\ (\A j \in Process : BatchInv(j)) /\ [Next]_vars
    => (\A j \in Process : BatchInv(j))'
  <1> SUFFICES ASSUME TypeInv, \A k \in Process : BatchInv(k), [Next]_vars,
                      NEW j \in Process
               PROVE  BatchInv(j)'
    OBVIOUS
  <1> USE DEF group, writer, process
  <1>0. collected[j] \in Nat /\ batch[j] \in Seq(Message) /\ MaxPoll \in Nat \ {0}
                             /\ MaxRows \in Nat \ {0} /\ BatchInv(j)
    BY ConstantsOK DEF ConstantsOK, TypeInv, TypeOK
  <1>1. ASSUME NEW i \in Process, Leave(i) PROVE BatchInv(j)'
    <2>1. CASE j = i
      BY <1>0, <1>1, <2>1, BatchEmptied DEF Leave, TypeInv, TypeOK
    <2>2. CASE j # i
      BY <1>0, <1>1, <2>2, BatchKept DEF Leave, TypeInv, TypeOK
    <2> QED BY <2>1, <2>2
  <1>2. ASSUME NEW i \in Process, Start(i) PROVE BatchInv(j)'
    BY <1>0, <1>2, BatchKept DEF Start, TypeInv, TypeOK
  <1>3. ASSUME NEW i \in Process, NEW p \in Partition, PollMessage(i, p)
        PROVE  BatchInv(j)'
    <2>1. CASE j = i
      <3> DEFINE m == <<p, position[i][p]>>
      <3>1. /\ m \in Message /\ pc[j] = "polling" /\ pc'[j] = pc[j]
            /\ collected[j] < MaxPoll /\ collected'[j] = collected[j] + 1
            /\ batch'[j] = batch[j] \/ batch'[j] = Append(batch[j], m)
        BY <1>3, <2>1 DEF PollMessage, TypeInv, TypeOK
      <3>2. Len(Append(batch[j], m)) = Len(batch[j]) + 1
        BY <1>0, <3>1
      <3>3. Len(batch[j]) \in Nat
        BY <1>0
      <3> HIDE DEF m
      <3>4. Len(batch'[j]) \in Nat /\ Len(batch'[j]) <= Len(batch[j]) + 1
        BY <3>1, <3>2, <3>3
      <3>5. Len(batch[j]) < MaxRows + collected[j]
        BY <1>0, <3>1 DEF BatchInv
      <3>6. /\ collected'[j] <= MaxPoll
            /\ Len(batch'[j]) < MaxRows + collected'[j]
        <4>1. \A c, l, k \in Nat :
                c < MaxPoll /\ l < MaxRows + c /\ k <= l + 1
                  => c + 1 <= MaxPoll /\ k < MaxRows + (c + 1)
          BY <1>0
        <4> QED BY <1>0, <3>1, <3>3, <3>4, <3>5, <4>1
      <3>7. Len(batch'[j]) < MaxRows + MaxPoll
        <4>1. collected'[j] \in Nat
          BY <1>0, <3>1
        <4> QED BY <1>0, <3>4, <3>6, <4>1
      <3> QED BY <3>6, <3>7 DEF BatchInv
    <2>2. CASE j # i
      BY <1>0, <1>3, <2>2, BatchKept DEF PollMessage, TypeInv, TypeOK
    <2> QED BY <2>1, <2>2
  <1>4. ASSUME NEW i \in Process, PollReturns(i) PROVE BatchInv(j)'
    <2>1. CASE j = i
      BY <1>0, <1>4, <2>1 DEF PollReturns, TypeInv, TypeOK, BatchInv
    <2>2. CASE j # i
      BY <1>0, <1>4, <2>2, BatchKept DEF PollReturns, TypeInv, TypeOK
    <2> QED BY <2>1, <2>2
  <1>5. ASSUME NEW i \in Process, BeginFlush(i) PROVE BatchInv(j)'
    <2>1. CASE j = i
      <3>1. batch'[j] = batch[j] /\ pc'[j] = "flushing" /\ collected'[j] = 0
        BY <1>5, <2>1 DEF BeginFlush, TypeInv, TypeOK
      <3> QED BY <1>0, <3>1 DEF BatchInv
    <2>2. CASE j # i
      BY <1>0, <1>5, <2>2, BatchKept DEF BeginFlush, TypeInv, TypeOK
    <2> QED BY <2>1, <2>2
  <1>6. ASSUME NEW i \in Process, Shutdown(i), ~Leave(i) PROVE BatchInv(j)'
    BY <1>0, <1>6, BatchKept DEF Shutdown, TypeInv, TypeOK
  <1>7. ASSUME NEW i \in Process, Insert(i) PROVE BatchInv(j)'
    BY <1>0, <1>7, BatchKept DEF Insert, TypeInv, TypeOK
  <1>8. ASSUME NEW i \in Process, NEW c, AttemptFails(i, c), ~Leave(i)
        PROVE  BatchInv(j)'
    BY <1>0, <1>8, BatchKept DEF AttemptFails
  <1>9. ASSUME NEW i \in Process, CommitOffsets(i), ~Leave(i) PROVE BatchInv(j)'
    <2>1. CASE j = i
      BY <1>0, <1>9, <2>1, BatchEmptied DEF CommitOffsets, TypeInv, TypeOK, BatchInv
    <2>2. CASE j # i
      BY <1>0, <1>9, <2>2, BatchKept DEF CommitOffsets, TypeInv, TypeOK
    <2> QED BY <2>1, <2>2
  <1>10. CASE DatabaseRestart
    BY <1>0, <1>10, BatchKept DEF DatabaseRestart
  <1>11. ASSUME NEW newOwner \in [Partition -> Process], Rebalance(newOwner)
         PROVE  BatchInv(j)'
    BY <1>0, <1>11, BatchKept DEF Rebalance
  <1>12. CASE UNCHANGED vars
    BY <1>0, <1>12, BatchKept DEF vars
  <1>13. ASSUME NEW i \in Process,
                \/ \E p \in Partition : PollRaises(i, p)
                \/ CommitRefused(i) \/ CommitError(i) \/ Crash(i)
         PROVE  Leave(i)
    BY <1>13 DEF PollRaises, CommitRefused, CommitError, Crash
  <1>14. ASSUME NEW i \in Process,
                DatabaseError(i) \/ ConnectionLost(i) \/ ConnectionDead(i)
         PROVE  \E c : AttemptFails(i, c)
    BY <1>14 DEF DatabaseError, ConnectionLost, ConnectionDead
  <1> QED
    BY <1>1, <1>2, <1>3, <1>4, <1>5, <1>6, <1>7, <1>8, <1>9, <1>10, <1>11,
       <1>12, <1>13, <1>14 DEF Next, Run, Fault, Balance

(* BatchBounded: whatever a crash discards or a retry repeats is less than  *)
(* batch_max_rows + poll_max_records events.                                *)
THEOREM BatchCapped == Spec => []BatchBounded
  <1>1. Init => \A j \in Process : BatchInv(j)
    BY ConstantsOK DEF ConstantsOK, Init, BatchInv
  <1>2. (\A j \in Process : BatchInv(j)) => BatchBounded
    BY DEF BatchInv, BatchBounded
  <1> QED BY <1>1, <1>2, BatchStep, TypeInvariant, PTL DEF Spec

-----------------------------------------------------------------------------
(* The strengthening behind EffectivelyOnce.  A message that was read and   *)
(* need not be read again: it is dropped, or its event is in the batch.     *)
Held(i, m) ==
  \/ Verdict[m] = "rejected"
  \/ \E n \in 1 .. Len(batch[i]) : batch[i][n] = m

(* What a member has read past the committed offsets is held.               *)
Tracked(i) ==
  \A p \in Assigned(i) :
    /\ committed[p] <= position[i][p]
    /\ \A m \in Message :
         m[1] = p /\ committed[p] <= m[2] /\ m[2] < position[i][p] => Held(i, m)

(* A batch holds events, and between insert and commit they have rows.      *)
Written(i) ==
  /\ \A n \in 1 .. Len(batch[i]) :
       batch[i][n] \in Message /\ Verdict[batch[i][n]] = "event"
  /\ pc[i] = "inserted" => Rows(i) \subseteq table

(* Committed offsets are over messages that are settled.                    *)
Settled ==
  \A m \in Message :
    m[2] < committed[m[1]] => Verdict[m] = "rejected" \/ IdOf[m] \in table

SinkInv ==
  /\ \A i \in Process : Tracked(i) /\ Written(i)
  /\ Settled

Allowed == [Sink!Store \/ Sink!Advance]_<<committed, table>>

-----------------------------------------------------------------------------
LEMMA SinkMessage == Sink!Message = Message
  BY DEF Sink!Message, Message

(* Steps of others, and steps that leave a process what it relies on.       *)
LEMMA Kept ==
  ASSUME NEW j \in Process, Tracked(j), Written(j),
         Assigned(j)' = Assigned(j),
         \A p \in Assigned(j) : committed'[p] = committed[p],
         position'[j] = position[j], batch'[j] = batch[j],
         pc'[j] = "inserted" => pc[j] = "inserted",
         table \subseteq table'
  PROVE  Tracked(j)' /\ Written(j)'
  <1>1. \A m \in Message : Held(j, m)' <=> Held(j, m)
    BY DEF Held
  <1>2. Tracked(j)'
    BY <1>1 DEF Tracked
  <1>3. Rows(j)' = Rows(j)
    BY DEF Rows
  <1> QED BY <1>2, <1>3 DEF Written

LEMMA Left ==
  ASSUME TypeInv, SinkInv, NEW i \in Process, Leave(i),
         \A p \in Partition \ Assigned(i) : committed'[p] = committed[p],
         table \subseteq table', NEW j \in Process
  PROVE  Tracked(j)' /\ Written(j)'
  <1>1. CASE j = i
    <2>1. insync'[i] = FALSE /\ batch'[i] = <<>> /\ pc'[i] = "down"
      BY DEF Leave, TypeInv, TypeOK
    <2>2. Assigned(i)' = {}
      BY <2>1 DEF Assigned
    <2>3. 1 .. Len(batch'[i]) = {}
      BY <2>1
    <2> QED BY <1>1, <2>1, <2>2, <2>3 DEF Tracked, Written
  <1>2. CASE j # i
    <2>1. /\ insync'[j] = insync[j] /\ owner' = owner /\ position'[j] = position[j]
          /\ batch'[j] = batch[j] /\ pc'[j] = pc[j]
      BY <1>2 DEF Leave, TypeInv, TypeOK
    <2>2. Assigned(j)' = Assigned(j) /\ Assigned(j) \subseteq Partition \ Assigned(i)
      BY <1>2, <2>1 DEF Assigned
    <2> QED BY <2>1, <2>2, Kept DEF SinkInv
  <1> QED BY <1>1, <1>2

(* A step that leaves the broker and the database alone.                    *)
LEMMA Stutter ==
  ASSUME SinkInv, UNCHANGED <<committed, table>>
  PROVE  Allowed /\ Settled'
  BY DEF SinkInv, Settled, Allowed

(* A batch reaches the table: Store.                                        *)
LEMMA StoreStep ==
  ASSUME SinkInv, NEW i \in Process, UNCHANGED committed,
         table' = table \cup Rows(i)
  PROVE  Allowed /\ Settled'
  <1> DEFINE stored == {batch[i][n] : n \in 1 .. Len(batch[i])}
  <1>1. stored \in SUBSET {m \in Message : Verdict[m] = "event"}
    BY DEF SinkInv, Written
  <1>2. table' = table \cup {IdOf[m] : m \in stored}
    BY DEF Rows
  <1>3. Sink!Store
    BY <1>1, <1>2, SinkMessage DEF Sink!Store
  <1>4. Settled'
    BY DEF SinkInv, Settled
  <1> QED BY <1>3, <1>4 DEF Allowed

(* The commit of an inserted batch: Advance.                                *)
LEMMA CommitStep ==
  ASSUME TypeInv, SinkInv, NEW i \in Process, pc[i] = "inserted",
         CommitPositions(i), UNCHANGED table
  PROVE  /\ Allowed /\ Settled'
         /\ \A p \in Partition \ Assigned(i) : committed'[p] = committed[p]
  <1>1. \A p \in Partition :
          committed'[p] = IF p \in Assigned(i) THEN position[i][p] ELSE committed[p]
    BY DEF CommitPositions
  <1>2. \A p \in Partition : committed[p] \in Nat /\ position[i][p] \in Nat
    BY DEF TypeInv, TypeOK
  <1>3. \A p \in Partition : committed[p] <= committed'[p]
    BY <1>1, <1>2 DEF SinkInv, Tracked
  <1>4. ASSUME NEW m \in Message, m[2] < committed'[m[1]]
        PROVE  Verdict[m] = "rejected" \/ IdOf[m] \in table
    <2>1. m[1] \in Partition /\ m[2] \in Nat /\ committed[m[1]] \in Nat
      BY <1>2, MessageShape
    <2>2. CASE m[2] < committed[m[1]]
      BY <2>2 DEF SinkInv, Settled
    <2>3. CASE ~(m[2] < committed[m[1]])
      <3>1. /\ m[1] \in Assigned(i) /\ committed[m[1]] <= m[2]
            /\ m[2] < position[i][m[1]]
        BY <1>1, <1>4, <2>1, <2>3
      <3>2. Held(i, m)
        BY <3>1 DEF SinkInv, Tracked
      <3>3. Rows(i) \subseteq table
        BY DEF SinkInv, Written
      <3> QED BY <3>2, <3>3 DEF Held, Rows
    <2> QED BY <2>2, <2>3
  <1>5. Sink!Advance
    BY <1>3, <1>4, SinkMessage DEF Sink!Advance
  <1>6. Settled'
    BY <1>4 DEF Settled
  <1> QED BY <1>1, <1>5, <1>6 DEF Allowed

LEMMA SinkStep == TypeInv /\ SinkInv /\ [Next]_vars => SinkInv' /\ Allowed
  <1> SUFFICES ASSUME TypeInv, SinkInv, [Next]_vars
               PROVE  Allowed /\ Settled' /\ \A j \in Process : Tracked(j)' /\ Written(j)'
    BY DEF SinkInv
  <1> USE DEF group, writer, process
  <1> DEFINE Goal == /\ Allowed /\ Settled'
                     /\ \A j \in Process : Tracked(j)' /\ Written(j)'
  <1>0. \A j \in Process : Tracked(j) /\ Written(j)
    BY DEF SinkInv
  <1>1. ASSUME NEW i \in Process, UNCHANGED <<committed, table, owner, insync,
                                             position, batch>>,
               \A j \in Process : pc'[j] = "inserted" => pc[j] = "inserted"
        PROVE  Goal
    <2>1. \A j \in Process : Assigned(j)' = Assigned(j)
      BY <1>1 DEF Assigned
    <2> QED BY <1>0, <1>1, <2>1, Kept, Stutter
  <1>2. ASSUME NEW i \in Process,
               Start(i) \/ PollReturns(i) \/ BeginFlush(i)
        PROVE  Goal
    <2>1. /\ UNCHANGED <<committed, table, owner, insync, position, batch>>
          /\ \A j \in Process : pc'[j] = "inserted" => pc[j] = "inserted"
      BY <1>2 DEF Start, PollReturns, BeginFlush, TypeInv, TypeOK
    <2> QED BY <1>1, <2>1
  <1>3. ASSUME NEW i \in Process, NEW p \in Partition, PollMessage(i, p)
        PROVE  Goal
    <2> DEFINE m == <<p, position[i][p]>>
    <2>1. /\ UNCHANGED <<committed, table, owner, insync, pc>>
          /\ m \in Message /\ pc[i] = "polling" /\ p \in Assigned(i)
          /\ position'[i] = [position[i] EXCEPT ![p] = @ + 1]
          /\ \A j \in Process : j # i =>
               position'[j] = position[j] /\ batch'[j] = batch[j]
          /\ \/ Verdict[m] = "event" /\ batch'[i] = Append(batch[i], m)
             \/ Verdict[m] = "rejected" /\ batch'[i] = batch[i]
      BY <1>3 DEF PollMessage, TypeInv, TypeOK
    <2>2. \A j \in Process : Assigned(j)' = Assigned(j)
      BY <2>1 DEF Assigned
    <2>3. batch[i] \in Seq(Message)
      BY DEF TypeInv, TypeOK
    <2>6. /\ \A k \in Message : k = m \/ Held(i, k) => Held(i, k)'
          /\ \A n \in 1 .. Len(batch'[i]) :
               batch'[i][n] \in Message /\ Verdict[batch'[i][n]] = "event"
      <3>1. CASE Verdict[m] = "event" /\ batch'[i] = Append(batch[i], m)
        <4>1. /\ Len(batch'[i]) = Len(batch[i]) + 1 /\ Len(batch[i]) \in Nat
              /\ batch'[i][Len(batch[i]) + 1] = m
              /\ \A n \in 1 .. Len(batch[i]) : batch'[i][n] = batch[i][n]
          BY <2>1, <2>3, <3>1
        <4>2. Len(batch[i]) + 1 \in 1 .. Len(batch'[i])
          BY <4>1
        <4>3. \A k \in Message : k = m => Held(i, k)'
          BY <4>1, <4>2 DEF Held
        <4>4. \A k \in Message : Held(i, k) => Held(i, k)'
          BY <4>1 DEF Held
        <4>5. ASSUME NEW n \in 1 .. Len(batch'[i])
              PROVE  batch'[i][n] \in Message /\ Verdict[batch'[i][n]] = "event"
          <5>1. n \in 1 .. Len(batch[i]) \/ n = Len(batch[i]) + 1
            BY <4>1
          <5> QED BY <1>0, <2>1, <3>1, <4>1, <5>1 DEF Written
        <4> QED BY <4>3, <4>4, <4>5
      <3>2. CASE Verdict[m] = "rejected" /\ batch'[i] = batch[i]
        <4>1. \A k \in Message : k = m \/ Held(i, k) => Held(i, k)'
          BY <3>2 DEF Held
        <4> QED BY <1>0, <3>2, <4>1 DEF Written
      <3> QED BY <2>1, <3>1, <3>2
    <2>7. Tracked(i)'
      <3>1. ASSUME NEW s \in Assigned(i)
            PROVE  /\ committed'[s] <= position'[i][s]
                   /\ \A k \in Message :
                        k[1] = s /\ committed'[s] <= k[2] /\ k[2] < position'[i][s]
                          => Held(i, k)'
        <4>1. /\ s \in Partition /\ committed[s] \in Nat /\ position[i][s] \in Nat
              /\ committed[s] <= position[i][s]
          BY <1>0, <3>1, MessageShape DEF TypeInv, TypeOK, Tracked
        <4>2. position'[i][s] = IF s = p THEN position[i][p] + 1 ELSE position[i][s]
          BY <2>1, <4>1 DEF TypeInv, TypeOK
        <4>3. ASSUME NEW k \in Message, k[1] = s, committed[s] <= k[2],
                     k[2] < position'[i][s]
              PROVE  Held(i, k)'
          <5>1. CASE k = m
            BY <2>6, <5>1
          <5>2. CASE k # m
            <6>1. k[2] \in Nat /\ k = <<k[1], k[2]>>
              BY MessageShape
            <6>2. k[2] < position[i][s]
              BY <4>1, <4>2, <4>3, <5>2, <6>1
            <6>3. Held(i, k)
              BY <1>0, <3>1, <4>3, <6>2 DEF Tracked
            <6> QED BY <2>6, <6>3
          <5> QED BY <5>1, <5>2
        <4>4. committed[s] <= position'[i][s]
          BY <4>1, <4>2
        <4> QED BY <2>1, <4>3, <4>4
      <3> QED BY <2>2, <3>1 DEF Tracked
    <2>8. Written(i)'
      BY <2>1, <2>6 DEF Written
    <2>9. ASSUME NEW j \in Process, j # i PROVE Tracked(j)' /\ Written(j)'
      BY <1>0, <2>1, <2>2, <2>9, Kept
    <2> QED BY <2>1, <2>7, <2>8, <2>9, Stutter
  <1>4. ASSUME NEW i \in Process, UNCHANGED <<committed, table>>, Leave(i)
        PROVE  Goal
    BY <1>4, Left, Stutter
  <1>5. ASSUME NEW i \in Process, Shutdown(i) PROVE Goal
    <2>1. CASE Leave(i)
      BY <1>4, <1>5, <2>1 DEF Shutdown
    <2>2. CASE ~Leave(i)
      <3>1. /\ UNCHANGED <<committed, table, owner, insync, position, batch>>
            /\ \A j \in Process : pc'[j] = "inserted" => pc[j] = "inserted"
        BY <1>5, <2>2 DEF Shutdown, TypeInv, TypeOK
      <3> QED BY <1>1, <3>1
    <2> QED BY <2>1, <2>2
  <1>6. ASSUME NEW i \in Process, Insert(i) PROVE Goal
    <2>1. /\ UNCHANGED <<committed, owner, insync, position, batch>>
          /\ table' = table \cup Rows(i)
          /\ \A j \in Process : j # i => pc'[j] = pc[j]
      BY <1>6 DEF Insert, TypeInv, TypeOK
    <2>2. \A j \in Process : Assigned(j)' = Assigned(j) /\ Rows(j)' = Rows(j)
      BY <2>1 DEF Assigned, Rows
    <2>3. \A k \in Message : Held(i, k)' <=> Held(i, k)
      BY <2>1 DEF Held
    <2>4. Tracked(i)'
      BY <1>0, <2>1, <2>2, <2>3 DEF Tracked
    <2>5. Written(i)'
      BY <1>0, <2>1, <2>2 DEF Written
    <2>6. ASSUME NEW j \in Process, j # i PROVE Tracked(j)' /\ Written(j)'
      BY <1>0, <2>1, <2>2, <2>6, Kept
    <2> QED BY <2>1, <2>4, <2>5, <2>6, StoreStep
  <1>7. ASSUME NEW i \in Process, NEW c, AttemptFails(i, c), UNCHANGED committed,
               table' = table \/ table' = table \cup Rows(i)
        PROVE  Goal
    <2>1. Allowed /\ Settled'
      BY <1>7, Stutter, StoreStep
    <2>2. CASE Leave(i)
      BY <1>7, <2>1, <2>2, Left
    <2>3. CASE ~Leave(i)
      <3>1. UNCHANGED <<owner, insync, pc, position, batch>>
        BY <1>7, <2>3 DEF AttemptFails
      <3>2. \A j \in Process : Assigned(j)' = Assigned(j)
        BY <3>1 DEF Assigned
      <3> QED BY <1>0, <1>7, <2>1, <3>1, <3>2, Kept
    <2> QED BY <2>2, <2>3
  <1>8. ASSUME NEW i \in Process, CommitOffsets(i) PROVE Goal
    <2>1. pc[i] = "inserted" /\ CommitPositions(i) /\ UNCHANGED table
      BY <1>8 DEF CommitOffsets
    <2>2. /\ Allowed /\ Settled'
          /\ \A p \in Partition \ Assigned(i) : committed'[p] = committed[p]
      BY <2>1, CommitStep
    <2>3. CASE Leave(i)
      BY <2>1, <2>2, <2>3, Left
    <2>4. CASE ~Leave(i)
      <3>1. /\ UNCHANGED <<owner, insync, position>>
            /\ pc'[i] = "polling" /\ batch'[i] = <<>>
            /\ \A j \in Process : j # i => pc'[j] = pc[j] /\ batch'[j] = batch[j]
        BY <1>8, <2>4 DEF CommitOffsets, TypeInv, TypeOK
      <3>2. \A j \in Process : Assigned(j)' = Assigned(j)
        BY <3>1 DEF Assigned
      <3>3. Tracked(i)'
        <4>1. \A p \in Assigned(i) :
                committed'[p] = position[i][p] /\ position[i][p] \in Nat
          BY <2>1, MessageShape DEF CommitPositions, TypeInv, TypeOK
        <4>2. \A m \in Message : m[2] \in Nat
          BY MessageShape
        <4> QED BY <3>1, <3>2, <4>1, <4>2 DEF Tracked
      <3>4. Written(i)'
        <4>1. 1 .. Len(batch'[i]) = {}
          BY <3>1
        <4> QED BY <3>1, <4>1 DEF Written
      <3>5. ASSUME NEW j \in Process, j # i PROVE Tracked(j)' /\ Written(j)'
        <4>1. \A p \in Assigned(j) : committed'[p] = committed[p]
          BY <2>2, <3>5, MessageShape DEF Assigned
        <4> QED BY <1>0, <2>1, <3>1, <3>2, <3>5, <4>1, Kept
      <3> QED BY <2>2, <3>3, <3>4, <3>5
    <2> QED BY <2>3, <2>4
  <1>9. ASSUME NEW i \in Process, CommitError(i) PROVE Goal
    <2>1. pc[i] = "inserted" /\ Leave(i) /\ UNCHANGED table
      BY <1>9 DEF CommitError
    <2>2. CASE CommitPositions(i)
      <3>1. /\ Allowed /\ Settled'
            /\ \A p \in Partition \ Assigned(i) : committed'[p] = committed[p]
        BY <2>1, <2>2, CommitStep
      <3> QED BY <2>1, <3>1, Left
    <2>3. CASE UNCHANGED committed
      BY <1>4, <2>1, <2>3
    <2> QED BY <1>9, <2>2, <2>3 DEF CommitError
  <1>10. ASSUME NEW i \in Process, Crash(i) PROVE Goal
    <2>1. /\ Leave(i) /\ UNCHANGED committed
          /\ table' = table \/ table' = table \cup Rows(i)
      BY <1>10 DEF Crash
    <2>2. Allowed /\ Settled'
      BY <2>1, Stutter, StoreStep
    <2> QED BY <2>1, <2>2, Left
  <1>11. ASSUME NEW newOwner \in [Partition -> Process], Rebalance(newOwner)
         PROVE  Goal
    <2>1. UNCHANGED <<committed, table, pc, batch>>
      BY <1>11 DEF Rebalance
    <2>2. ASSUME NEW j \in Process, NEW p \in Assigned(j)'
          PROVE  position'[j][p] = committed[p] /\ p \in Partition
      BY <1>11, <2>2 DEF Rebalance, Assigned, TypeInv, TypeOK
    <2>3. \A p \in Partition : committed[p] \in Nat
      BY DEF TypeInv, TypeOK
    <2>4. \A m \in Message : m[2] \in Nat
      BY MessageShape
    <2>5. \A j \in Process : Tracked(j)'
      BY <2>1, <2>2, <2>3, <2>4 DEF Tracked
    <2>6. \A j \in Process : Written(j)'
      BY <1>0, <2>1 DEF Written, Rows
    <2> QED BY <2>1, <2>5, <2>6, Stutter
  <1>12. ASSUME DatabaseRestart \/ UNCHANGED vars PROVE Goal
    <2>1. UNCHANGED <<committed, table, owner, insync, pc, position, batch>>
      BY <1>12 DEF DatabaseRestart, vars
    <2>2. \A j \in Process : Assigned(j)' = Assigned(j)
      BY <2>1 DEF Assigned
    <2> QED BY <1>0, <2>1, <2>2, Kept, Stutter
  <1>13. ASSUME NEW i \in Process, NEW p \in Partition, PollRaises(i, p)
         PROVE  Goal
    BY <1>4, <1>13 DEF PollRaises
  <1>14. ASSUME NEW i \in Process, CommitRefused(i) PROVE Goal
    BY <1>4, <1>14 DEF CommitRefused
  <1>15. ASSUME NEW i \in Process,
                DatabaseError(i) \/ ConnectionLost(i) \/ ConnectionDead(i)
         PROVE  Goal
    <2>1. \E c : AttemptFails(i, c) /\ UNCHANGED committed
                 /\ (table' = table \/ table' = table \cup Rows(i))
      BY <1>15 DEF DatabaseError, ConnectionLost, ConnectionDead
    <2> QED BY <1>7, <2>1
  <1> HIDE DEF Goal
  <1>16. ASSUME NEW i \in Process, Run(i) \/ Fault(i) PROVE Goal
    <2>1. CASE \E p \in Partition : PollMessage(i, p) \/ PollRaises(i, p)
      BY <1>3, <1>13, <2>1
    <2>2. CASE Start(i) \/ PollReturns(i) \/ BeginFlush(i) \/ Insert(i)
               \/ CommitOffsets(i) \/ CommitRefused(i)
      BY <1>2, <1>6, <1>8, <1>14, <2>2
    <2>3. CASE DatabaseError(i) \/ ConnectionLost(i) \/ ConnectionDead(i)
               \/ Shutdown(i) \/ CommitError(i) \/ Crash(i)
      BY <1>5, <1>9, <1>10, <1>15, <2>3
    <2> QED BY <1>16, <2>1, <2>2, <2>3 DEF Run, Fault
  <1>17. Goal
    BY <1>11, <1>12, <1>16 DEF Next, Balance
  <1> QED BY <1>17 DEF Goal

(* EffectivelyOnce: the sink implements IdempotentSink.  Rows only appear,  *)
(* a batch at a time, and no offset is committed over an event whose row is *)
(* missing, for any crash, retry, eviction and rebalance.                   *)
THEOREM ImplementsIdempotentSink == Spec => EffectivelyOnce
  <1>1. Init => SinkInv
    <2>1. ASSUME Init, NEW i \in Process PROVE Tracked(i) /\ Written(i)
      <3>1. Assigned(i) = {} /\ batch[i] = <<>> /\ pc[i] = "down"
        BY <2>1 DEF Init, Assigned
      <3>2. 1 .. Len(batch[i]) = {}
        BY <3>1
      <3> QED BY <3>1, <3>2 DEF Tracked, Written
    <2>2. Init => Settled
      BY MessageShape DEF Init, Settled
    <2> QED BY <2>1, <2>2 DEF SinkInv
  <1>2. Init => Sink!Init
    BY DEF Init, Sink!Init
  <1>3. Spec => [][Sink!Store \/ Sink!Advance]_<<committed, table>>
    <2>1. Spec => []SinkInv
      BY <1>1, SinkStep, TypeInvariant, PTL DEF Spec
    <2>2. TypeInv /\ SinkInv /\ [Next]_vars
            => [Sink!Store \/ Sink!Advance]_<<committed, table>>
      BY SinkStep DEF Allowed
    <2> QED BY <2>1, <2>2, TypeInvariant, PTL DEF Spec
  <1> QED BY <1>2, <1>3, PTL DEF Spec, EffectivelyOnce, Sink!Spec

-----------------------------------------------------------------------------
(* The books balance although only Insert sees which rows are new: a flush  *)
(* counts nothing before it inserts, and the table never loses a row.       *)
BooksInv ==
  /\ IsFiniteSet(table)
  /\ \A j \in Process : pc[j] # "inserted" => fresh[j] = 0
  /\ BooksBalance

CountOf(j) == tally[j].inserted + fresh[j]

(* Rows of the batch are finitely many.                                     *)
LEMMA RowsFinite ==
  ASSUME TypeOK, NEW i \in Process
  PROVE  IsFiniteSet(Rows(i))
  <1> DEFINE N == Len(batch[i])
             f == [n \in 1 .. N |-> IdOf[batch[i][n]]]
  <1>1. N \in Nat
    BY DEF TypeOK
  <1>2. f \in Surjection(1 .. N, Rows(i))
    BY DEF Surjection, Rows
  <1>3. IsFiniteSet(1 .. N)
    BY <1>1, FS_Interval
  <1> HIDE DEF f, N
  <1> QED BY <1>2, <1>3, FS_Surjection

(* Rows nobody counts may join the table, and a process that starts over    *)
(* gives up its credit.                                                     *)
LEMMA CreditKept ==
  ASSUME CreditedOnce, table \subseteq table',
         \A j \in Process : CountOf(j)' = CountOf(j) \/ CountOf(j)' = 0
  PROVE  CreditedOnce'
  <1>1. PICK credit \in [table -> Process \cup {NoProcess}] :
          \A j \in Process : CountOf(j) = Cardinality({r \in table : credit[r] = j})
    BY DEF CreditedOnce, CountOf
  <1>2. PICK keep : keep = {j \in Process : CountOf(j)' = CountOf(j)}
    OBVIOUS
  <1>3. PICK new \in [table' -> Process \cup {NoProcess}] :
          \A r \in table' :
            new[r] = IF r \in table /\ credit[r] \in keep THEN credit[r]
                                                          ELSE NoProcess
    <2> DEFINE n == [r \in table' |-> IF r \in table /\ credit[r] \in keep
                                      THEN credit[r] ELSE NoProcess]
    <2>1. n \in [table' -> Process \cup {NoProcess}]
      BY <1>1
    <2> QED BY <2>1
  <1>4. ASSUME NEW j \in Process
        PROVE  CountOf(j)' = Cardinality({r \in table' : new[r] = j})
    <2>1. j # NoProcess
      BY ConstantsOK DEF ConstantsOK
    <2>2. CASE j \in keep
      <3>1. {r \in table' : new[r] = j} = {r \in table : credit[r] = j}
        BY <1>3, <2>1, <2>2
      <3>2. CountOf(j)' = CountOf(j)
        BY <1>2, <2>2
      <3> QED BY <1>1, <3>1, <3>2
    <2>3. CASE j \notin keep
      <3>1. {r \in table' : new[r] = j} = {}
        BY <1>3, <2>1, <2>3
      <3>2. CountOf(j)' = 0
        BY <1>2, <2>3
      <3> QED BY <3>1, <3>2, FS_EmptySet
    <2> QED BY <2>2, <2>3
  <1> QED BY <1>4 DEF CreditedOnce, CountOf

(* The rows an insert counts are new, so no process counts them yet.        *)
LEMMA CreditGained ==
  ASSUME TypeInv, BooksInv, NEW i \in Process, Insert(i)
  PROVE  CreditedOnce'
  <1>1. PICK credit \in [table -> Process \cup {NoProcess}] :
          \A j \in Process : CountOf(j) = Cardinality({r \in table : credit[r] = j})
    BY DEF BooksInv, BooksBalance, CreditedOnce, CountOf
  <1>2. PICK R : R = Rows(i)
    OBVIOUS
  <1>3. PICK new \in [table' -> Process \cup {NoProcess}] :
          \A r \in table' : new[r] = IF r \in table THEN credit[r] ELSE i
    <2> DEFINE n == [r \in table' |-> IF r \in table THEN credit[r] ELSE i]
    <2>1. n \in [table' -> Process \cup {NoProcess}]
      BY <1>1
    <2> QED BY <2>1
  <1>4. /\ table' = table \cup R
        /\ fresh' = [fresh EXCEPT ![i] = Cardinality(R \ table)]
        /\ UNCHANGED tally
        /\ fresh[i] = 0
    BY <1>2 DEF Insert, BooksInv
  <1>5. /\ IsFiniteSet(table) /\ IsFiniteSet(R)
        /\ tally \in [Process -> Tally] /\ fresh \in [Process -> Nat]
    BY <1>2, RowsFinite DEF TypeInv, TypeOK, BooksInv
  <1>6. ASSUME NEW j \in Process
        PROVE  CountOf(j)' = Cardinality({r \in table' : new[r] = j})
    <2>1. CASE j # i
      <3>1. {r \in table' : new[r] = j} = {r \in table : credit[r] = j}
        BY <1>3, <1>4, <2>1
      <3>2. CountOf(j)' = CountOf(j)
        BY <1>4, <1>5, <2>1 DEF CountOf
      <3> QED BY <1>1, <3>1, <3>2
    <2>2. CASE j = i
      <3>1. PICK A : A = {r \in table : credit[r] = i}
        OBVIOUS
      <3>2. PICK B : B = R \ table
        OBVIOUS
      <3>3. {r \in table' : new[r] = j} = A \cup B /\ A \cap B = {}
        BY <1>3, <1>4, <2>2, <3>1, <3>2
      <3>4. A \in SUBSET table /\ B \in SUBSET R
        BY <3>1, <3>2
      <3>5. IsFiniteSet(A) /\ IsFiniteSet(B)
        BY <1>5, <3>4, FS_Subset
      <3>6. Cardinality(A) \in Nat /\ Cardinality(B) \in Nat /\ Cardinality({}) = 0
        BY <3>5, FS_CardinalityType, FS_EmptySet
      <3>7. Cardinality(A \cup B) = Cardinality(A) + Cardinality(B)
        <4>1. Cardinality(A \cup B)
                = Cardinality(A) + Cardinality(B) - Cardinality(A \cap B)
          BY <3>5, FS_Union
        <4>2. Cardinality(A \cap B) = 0
          BY <3>3, <3>6
        <4> HIDE <3>3
        <4> QED BY <3>6, <4>1, <4>2
      <3>8. fresh'[i] = Cardinality(B) /\ tally'[i].inserted = tally[i].inserted
        BY <1>4, <1>5, <3>2
      <3>9. CountOf(i) = Cardinality(A) /\ tally[i].inserted \in Nat
        BY <1>1, <1>5, <3>1 DEF Tally
      <3>10. CountOf(i)' = Cardinality(A) + Cardinality(B)
        <4>1. tally[i].inserted = Cardinality(A)
          BY <1>4, <3>9 DEF CountOf
        <4>2. CountOf(i)' = tally'[i].inserted + fresh'[i]
          BY DEF CountOf
        <4> QED BY <3>8, <4>1, <4>2
      <3>11. Cardinality({r \in table' : new[r] = i}) = Cardinality(A) + Cardinality(B)
        BY <2>2, <3>3, <3>7
      <3> QED BY <2>2, <3>10, <3>11
    <2> QED BY <2>1, <2>2
  <1> QED BY <1>6 DEF CreditedOnce, CountOf

(* A process that ends takes its books with it.                             *)
LEMMA BooksClosed ==
  ASSUME TypeInv, BooksInv, NEW i \in Process, Leave(i),
         table' = table \/ table' = table \cup Rows(i)
  PROVE  BooksInv'
  <1>1. /\ pc'[i] = "down" /\ batch'[i] = <<>> /\ fresh'[i] = 0
        /\ tally'[i] = NoTally
        /\ \A j \in Process : j # i =>
             /\ pc'[j] = pc[j] /\ batch'[j] = batch[j] /\ fresh'[j] = fresh[j]
             /\ tally'[j] = tally[j]
    BY DEF Leave, TypeInv, TypeOK
  <1>2. IsFiniteSet(table')
    BY RowsFinite, FS_Union DEF BooksInv, TypeInv
  <1>3. \A j \in Process : pc'[j] # "inserted" => fresh'[j] = 0
    BY <1>1 DEF BooksInv
  <1>4. Balanced'
    BY <1>1 DEF BooksInv, BooksBalance, Balanced, NoTally
  <1>5. \A j \in Process : CountOf(j)' = CountOf(j) \/ CountOf(j)' = 0
    BY <1>1 DEF CountOf, NoTally
  <1>6. CreditedOnce'
    BY <1>5, CreditKept DEF BooksInv, BooksBalance
  <1> QED BY <1>2, <1>3, <1>4, <1>6 DEF BooksInv, BooksBalance

(* A step that counts nothing may still insert rows.                        *)
LEMMA BooksKept ==
  ASSUME TypeInv, BooksInv, UNCHANGED <<batch, fresh, tally>>,
         table' = table \/ \E i \in Process : table' = table \cup Rows(i),
         \A j \in Process : pc'[j] # "inserted" => pc[j] # "inserted"
  PROVE  BooksInv'
  <1>1. IsFiniteSet(table')
    BY RowsFinite, FS_Union DEF BooksInv, TypeInv
  <1>2. Balanced'
    BY DEF BooksInv, BooksBalance, Balanced
  <1>3. CreditedOnce'
    BY CreditKept DEF BooksInv, BooksBalance, CountOf
  <1> QED BY <1>1, <1>2, <1>3 DEF BooksInv, BooksBalance

(* A flush inserts nothing it counts before it has ended.                   *)
LEMMA BooksAttempt ==
  ASSUME TypeInv, BooksInv, NEW i \in Process, NEW c, AttemptFails(i, c),
         table' = table \/ table' = table \cup Rows(i)
  PROVE  BooksInv'
  <1>1. CASE Leave(i)
    BY <1>1, BooksClosed
  <1>2. CASE ~Leave(i)
    BY <1>2, BooksKept DEF AttemptFails
  <1> QED BY <1>1, <1>2

LEMMA BooksStep == TypeInv /\ BooksInv /\ [Next]_vars => BooksInv'
  <1> SUFFICES ASSUME TypeInv, BooksInv, [Next]_vars PROVE BooksInv'
    OBVIOUS
  <1> USE DEF group, writer, process
  <1>1. ASSUME NEW i \in Process, Start(i) \/ BeginFlush(i) \/ PollReturns(i)
        PROVE  BooksInv'
    <2>1. /\ UNCHANGED <<table, batch, fresh, tally>>
          /\ \A j \in Process : pc'[j] # "inserted" => pc[j] # "inserted"
      BY <1>1 DEF Start, BeginFlush, PollReturns, TypeInv, TypeOK
    <2> QED BY <2>1, BooksKept
  <1>2. ASSUME NEW i \in Process, NEW p \in Partition, PollMessage(i, p)
        PROVE  BooksInv'
    <2>1. /\ UNCHANGED <<table, fresh, pc>>
          /\ \A j \in Process : j # i => batch'[j] = batch[j] /\ tally'[j] = tally[j]
          /\ \/ /\ batch'[i] = Append(batch[i], <<p, position[i][p]>>)
                /\ Count(i, 1, 0, 0, 0)
             \/ batch'[i] = batch[i] /\ Count(i, 1, 0, 0, 1)
      BY <1>2 DEF PollMessage, Count, TypeInv, TypeOK
    <2>2. tally[i] \in Tally /\ batch[i] \in Seq(Message)
      BY DEF TypeInv, TypeOK
    <2>3. Len(Append(batch[i], <<p, position[i][p]>>)) = Len(batch[i]) + 1
      BY <1>2, <2>2 DEF PollMessage
    <2>4. /\ tally'[i].consumed = tally[i].consumed + 1
          /\ tally'[i].inserted = tally[i].inserted
          /\ tally'[i].skipped = tally[i].skipped
          /\ tally'[i].failed + Len(batch'[i]) = tally[i].failed + Len(batch[i]) + 1
      <3>1. Len(batch[i]) \in Nat
        BY <2>2
      <3>2. tally \in [Process -> Tally]
        BY DEF TypeInv, TypeOK
      <3>3. /\ tally'[i].consumed = tally[i].consumed + 1
            /\ tally'[i].inserted = tally[i].inserted
            /\ tally'[i].skipped = tally[i].skipped
            /\ \/ /\ batch'[i] = Append(batch[i], <<p, position[i][p]>>)
                  /\ tally'[i].failed = tally[i].failed
               \/ batch'[i] = batch[i] /\ tally'[i].failed = tally[i].failed + 1
        BY <2>1, <2>2, <3>2 DEF Count, Tally
      <3>4. tally[i].failed \in Nat
        BY <2>2 DEF Tally
      <3>5. tally'[i].failed + Len(batch'[i]) = tally[i].failed + Len(batch[i]) + 1
        <4>1. CASE /\ batch'[i] = Append(batch[i], <<p, position[i][p]>>)
                   /\ tally'[i].failed = tally[i].failed
          <5>1. Len(batch'[i]) = Len(batch[i]) + 1
            BY <2>3, <4>1
          <5> QED BY <3>1, <3>4, <4>1, <5>1
        <4>2. CASE batch'[i] = batch[i] /\ tally'[i].failed = tally[i].failed + 1
          BY <3>1, <3>4, <4>2
        <4> QED BY <3>3, <4>1, <4>2
      <3> QED BY <3>3, <3>5
    <2>5. Balanced'
      <3>1. Len(batch[i]) \in Nat /\ Len(batch'[i]) \in Nat
        BY <2>1, <2>2, <2>3
      <3>2. tally'[i].failed \in Nat
        <4>1. tally \in [Process -> Tally]
          BY DEF TypeInv, TypeOK
        <4> QED BY <2>1, <4>1 DEF Count, Tally
      <3>3. /\ tally[i].consumed \in Nat /\ tally[i].inserted \in Nat
            /\ tally[i].skipped \in Nat /\ tally[i].failed \in Nat
        BY <2>2 DEF Tally
      <3>4. tally[i].consumed =
              tally[i].failed + Len(batch[i]) + tally[i].inserted + tally[i].skipped
        BY DEF BooksInv, BooksBalance, Balanced
      <3>5. tally'[i].consumed =
              tally'[i].failed + Len(batch'[i]) + tally'[i].inserted + tally'[i].skipped
        BY <2>4, <3>1, <3>2, <3>3, <3>4
      <3> QED BY <2>1, <3>5 DEF BooksInv, BooksBalance, Balanced
    <2>6. CreditedOnce'
      BY <2>1, <2>4, CreditKept DEF BooksInv, BooksBalance, CountOf
    <2> QED BY <2>1, <2>5, <2>6 DEF BooksInv, BooksBalance
  <1>3. ASSUME NEW i \in Process, NEW p \in Partition, PollRaises(i, p)
        PROVE  BooksInv'
    BY <1>3, BooksClosed DEF PollRaises
  <1>4. ASSUME NEW i \in Process, Shutdown(i) PROVE BooksInv'
    <2>1. CASE Leave(i)
      BY <1>4, <2>1, BooksClosed DEF Shutdown
    <2>2. CASE ~Leave(i)
      <3>1. /\ UNCHANGED <<table, batch, fresh, tally>>
            /\ \A j \in Process : pc'[j] # "inserted" => pc[j] # "inserted"
        BY <1>4, <2>2 DEF Shutdown, TypeInv, TypeOK
      <3> QED BY <3>1, BooksKept
    <2> QED BY <2>1, <2>2
  <1>5. ASSUME NEW i \in Process, Insert(i) PROVE BooksInv'
    <2>1. CreditedOnce'
      BY <1>5, CreditGained
    <2>2. IsFiniteSet(table')
      BY <1>5, RowsFinite, FS_Union DEF Insert, BooksInv, TypeInv
    <2>3. /\ UNCHANGED <<batch, tally>>
          /\ \A j \in Process : pc'[j] # "inserted" => fresh'[j] = 0
      BY <1>5 DEF Insert, BooksInv, TypeInv, TypeOK
    <2> QED BY <2>1, <2>2, <2>3 DEF BooksInv, BooksBalance, Balanced
  <1>6. ASSUME NEW i \in Process,
               DatabaseError(i) \/ ConnectionLost(i) \/ ConnectionDead(i)
        PROVE  BooksInv'
    <2>1. /\ \E c : AttemptFails(i, c)
          /\ table' = table \/ table' = table \cup Rows(i)
      BY <1>6 DEF DatabaseError, ConnectionLost, ConnectionDead
    <2> QED BY <2>1, BooksAttempt
  <1>7. ASSUME NEW i \in Process, CommitOffsets(i) PROVE BooksInv'
    <2>1. CASE Leave(i)
      BY <1>7, <2>1, BooksClosed DEF CommitOffsets
    <2>2. CASE ~Leave(i)
      <3>1. /\ UNCHANGED table
            /\ RecordFlush(i)
            /\ pc'[i] = "polling" /\ batch'[i] = <<>> /\ fresh'[i] = 0
            /\ \A j \in Process : j # i =>
                 /\ pc'[j] = pc[j] /\ batch'[j] = batch[j]
                 /\ fresh'[j] = fresh[j] /\ tally'[j] = tally[j]
        BY <1>7, <2>2 DEF CommitOffsets, RecordFlush, Count, TypeInv, TypeOK
      <3>2. /\ tally \in [Process -> Tally]
            /\ fresh[i] \in Nat /\ Len(batch[i]) \in Nat
        BY DEF TypeInv, TypeOK
      <3>3. /\ tally'[i].consumed = tally[i].consumed
            /\ tally'[i].failed = tally[i].failed
            /\ tally'[i].inserted = tally[i].inserted + fresh[i]
            /\ tally'[i].skipped = tally[i].skipped + (Len(batch[i]) - fresh[i])
        BY <3>1, <3>2 DEF RecordFlush, Count, Tally
      <3>4. Balanced'
        <4>1. /\ tally[i].consumed \in Nat /\ tally[i].inserted \in Nat
              /\ tally[i].skipped \in Nat /\ tally[i].failed \in Nat
          BY <3>2 DEF Tally
        <4>2. tally[i].consumed =
                tally[i].failed + Len(batch[i]) + tally[i].inserted + tally[i].skipped
          BY DEF BooksInv, BooksBalance, Balanced
        <4>3. Len(batch'[i]) = 0
          BY <3>1
        <4>4. tally'[i].consumed =
                tally'[i].failed + Len(batch'[i]) + tally'[i].inserted + tally'[i].skipped
          <5>1. PICK c \in Nat, n \in Nat, k \in Nat, f \in Nat :
                  /\ c = tally[i].consumed /\ n = tally[i].inserted
                  /\ k = tally[i].skipped /\ f = tally[i].failed
            BY <4>1
          <5>2. PICK x \in Nat, l \in Nat : x = fresh[i] /\ l = Len(batch[i])
            BY <3>2
          <5>3. c = f + l + n + k
            BY <4>2, <5>1, <5>2
          <5>4. c = f + 0 + (n + x) + (k + (l - x))
            BY <5>3
          <5> QED BY <3>3, <4>3, <5>1, <5>2, <5>4
        <4> QED BY <3>1, <4>4 DEF BooksInv, BooksBalance, Balanced
      <3>5. CountOf(i)' = CountOf(i)
        BY <3>1, <3>2, <3>3 DEF CountOf, Tally
      <3>6. CreditedOnce'
        BY <3>1, <3>5, CreditKept DEF BooksInv, BooksBalance, CountOf
      <3> QED BY <3>1, <3>4, <3>6 DEF BooksInv, BooksBalance
    <2> QED BY <2>1, <2>2
  <1>8. ASSUME NEW i \in Process, CommitRefused(i) \/ CommitError(i) PROVE BooksInv'
    BY <1>8, BooksClosed DEF CommitRefused, CommitError
  <1>9. ASSUME NEW i \in Process, Crash(i) PROVE BooksInv'
    BY <1>9, BooksClosed DEF Crash
  <1>10. ASSUME NEW newOwner, Rebalance(newOwner) PROVE BooksInv'
    <2>1. UNCHANGED <<table, batch, fresh, tally, pc>>
      BY <1>10 DEF Rebalance
    <2> QED BY <2>1, BooksKept
  <1>11. CASE DatabaseRestart
    <2>1. UNCHANGED <<table, batch, fresh, tally, pc>>
      BY <1>11 DEF DatabaseRestart
    <2> QED BY <2>1, BooksKept
  <1>12. CASE UNCHANGED vars
    <2>1. UNCHANGED <<table, batch, fresh, tally, pc>>
      BY <1>12 DEF vars
    <2> QED BY <2>1, BooksKept
  <1> QED
    BY <1>1, <1>2, <1>3, <1>4, <1>5, <1>6, <1>7, <1>8, <1>9, <1>10, <1>11, <1>12
       DEF Next, Run, Fault, Balance

(* The accountant's books: whatever is retried after a lost connection,     *)
(* replayed after a rebalance, or inserted by a process that dies before it *)
(* counts, every consumed message is in one column of SinkAccountant, and   *)
(* a row is counted as inserted by one process at most.                     *)
THEOREM BooksAlwaysBalance == Spec => []BooksBalance
  <1>1. Init => BooksInv
    <2> SUFFICES ASSUME Init PROVE BooksInv
      OBVIOUS
    <2>1. /\ table = {}
          /\ \A j \in Process : /\ fresh[j] = 0 /\ batch[j] = <<>>
                                /\ tally[j] = NoTally
      BY DEF Init
    <2>2. CreditedOnce
      <3> DEFINE none == [r \in table |-> NoProcess]
      <3>1. none \in [table -> Process \cup {NoProcess}]
        OBVIOUS
      <3>5. PICK credit : credit = none
        OBVIOUS
      <3>2. \A j \in Process : {r \in table : credit[r] = j} = {}
        BY <2>1
      <3>3. Cardinality({}) = 0
        BY FS_EmptySet
      <3>4. \A j \in Process :
              tally[j].inserted + fresh[j] = Cardinality({r \in table : credit[r] = j})
        BY <2>1, <3>2, <3>3 DEF NoTally
      <3> QED BY <3>1, <3>4, <3>5 DEF CreditedOnce
    <2> QED BY <2>1, <2>2, FS_EmptySet
            DEF BooksInv, BooksBalance, Balanced, NoTally
  <1>2. BooksInv => BooksBalance
    BY DEF BooksInv
  <1> QED BY <1>1, <1>2, BooksStep, TypeInvariant, PTL DEF Spec
=============================================================================
