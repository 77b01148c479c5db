-------------------------- MODULE ValidatorEosProofs --------------------------
(***************************************************************************)
(* Proofs about ValidatorEos, for any number of processes, ids, partitions *)
(* and messages, and for any bounds on faults and rebalances.              *)
(***************************************************************************)
EXTENDS ValidatorEos, TLAPS

-----------------------------------------------------------------------------
(* A message is a partition with an offset of its log.                      *)
LEMMA MessageShape ==
  /\ \A m \in Message : /\ m[1] \in Partition /\ m[2] \in 0 .. LogEnd[m[1]] - 1
                        /\ m[2] \in Nat /\ m = <<m[1], m[2]>>
  /\ \A p \in Partition, o \in Nat : <<p, o>> \in Message <=> o < LogEnd[p]
  <1> USE ConstantsOK DEF ConstantsOK
  <1>1. \A m \in Message : /\ m[1] \in Partition /\ m[2] \in 0 .. LogEnd[m[1]] - 1
                           /\ m[2] \in Nat /\ m = <<m[1], m[2]>>
    BY DEF Message
  <1>2. \A p \in Partition, o \in Nat : <<p, o>> \in Message <=> o < LogEnd[p]
    BY DEF Message
  <1> QED BY <1>1, <1>2

(* The route of a message is an output topic.                               *)
LEMMA RouteIsTopic == \A m \in Message : <<RouteOf(m), m>> \in Record
  BY DEF RouteOf, Record, Topic

(* Leaving the loop keeps the types.                                        *)
LEMMA ExitType ==
  ASSUME TypeOK, NEW i \in Process, Exit(i), faults' \in Nat
  PROVE  TypeOK'
  BY ConstantsOK DEF ConstantsOK, TypeOK, Exit, None, Nothing, broker, group

LEMMA NextBatchType ==
  ASSUME TypeOK, NEW i \in Process, NextBatch(i)
  PROVE  /\ pc' \in [Process -> {"down", "started", "polling", "routing", "sent"}]
         /\ pepoch' \in [Process -> Nat]
         /\ insync' \in [Process -> BOOLEAN]
         /\ assigned' \in [Process -> SUBSET Partition]
         /\ position' \in [Process -> [Partition -> Nat]]
         /\ batch' \in [Process -> [Message -> Nat]]
         /\ collected' \in [Process -> Nat]
         /\ out' \in [Process -> [Record -> Nat]]
  BY DEF TypeOK, NextBatch, None, Nothing

LEMMA AbortType ==
  ASSUME TypeOK, NEW i \in Process, Abort(i), faults' \in Nat
  PROVE  TypeOK'
  BY NextBatchType DEF TypeOK, Abort, Held, broker, group

(* The type invariant: every handler of the daemon leaves the consumer, the *)
(* transaction and the group state well formed.                             *)
THEOREM TypeCorrect == Spec => []TypeOK
  <1> USE ConstantsOK DEF ConstantsOK
  <1>1. Init => TypeOK
    BY DEF Init, TypeOK, None, Nothing
  <1>2. TypeOK /\ [Next]_vars => TypeOK'
    <2> SUFFICES ASSUME TypeOK, [Next]_vars PROVE TypeOK'
      OBVIOUS
    <2>1. ASSUME NEW i \in Process, InitTransactions(i) PROVE TypeOK'
      BY <2>1 DEF TypeOK, InitTransactions, broker, group
    <2>2. ASSUME NEW i \in Process, Join(i) PROVE TypeOK'
      BY <2>2 DEF TypeOK, Join, Assign, Pending, broker
    <2>3. ASSUME NEW i \in Process, NEW p \in Partition, PollMessage(i, p)
          PROVE  TypeOK'
      <3>1. <<p, position[i][p]>> \in Message
        BY <2>3 DEF PollMessage
      <3>2. batch' \in [Process -> [Message -> Nat]]
        BY <2>3, <3>1 DEF TypeOK, PollMessage
      <3>3. position' \in [Process -> [Partition -> Nat]]
        BY <2>3 DEF TypeOK, PollMessage
      <3>4. collected' \in [Process -> Nat]
        BY <2>3 DEF TypeOK, PollMessage
      <3> QED BY <2>3, <3>2, <3>3, <3>4 DEF TypeOK, PollMessage, broker, group
    <2>4. ASSUME NEW i \in Process, NEW p \in Partition, PollUndecodable(i, p)
          PROVE  TypeOK'
      BY <2>4, ExitType DEF PollUndecodable, TypeOK
    <2>5. ASSUME NEW i \in Process, BeginBatch(i) PROVE TypeOK'
      BY <2>5 DEF TypeOK, BeginBatch, broker, group
    <2>6. ASSUME NEW i \in Process, NEW m \in Message, HandleMsg(i, m)
          PROVE  TypeOK'
      <3>1. batch' \in [Process -> [Message -> Nat]]
        BY <2>6 DEF TypeOK, HandleMsg
      <3>2. out' \in [Process -> [Record -> Nat]]
        BY <2>6, RouteIsTopic DEF TypeOK, HandleMsg
      <3> QED BY <2>6, <3>1, <3>2 DEF TypeOK, HandleMsg, broker, group
    <2>7. ASSUME NEW i \in Process, SendOffsets(i) PROVE TypeOK'
      BY <2>7 DEF TypeOK, SendOffsets, broker, group
    <2>8. ASSUME NEW i \in Process, CommitTransaction(i) PROVE TypeOK'
      <3>1. copies' \in [Record -> Nat]
        BY <2>8 DEF TypeOK, CommitTransaction
      <3>2. committed' \in [Partition -> Nat]
        BY <2>8 DEF TypeOK, CommitTransaction
      <3> QED BY <2>8, <3>1, <3>2, NextBatchType
              DEF TypeOK, CommitTransaction, group
    <2>9. ASSUME NEW i \in Process, OffsetsRefused(i) PROVE TypeOK'
      BY <2>9, AbortType DEF OffsetsRefused, TypeOK
    <2>10. ASSUME NEW i \in Process, Fenced(i) \/ InstanceFenced(i) PROVE TypeOK'
      BY <2>10, ExitType DEF Fenced, InstanceFenced, TypeOK
    <2>11. ASSUME NEW i \in Process, Rejoin(i) PROVE TypeOK'
      BY <2>11 DEF TypeOK, Rejoin, Assign, Pending, broker, group
    <2>12. ASSUME NEW i \in Process, AbortableError(i) PROVE TypeOK'
      BY <2>12, AbortType DEF AbortableError, TypeOK
    <2>13. ASSUME NEW i \in Process, Crash(i) PROVE TypeOK'
      BY <2>13, ExitType DEF Crash, TypeOK
    <2>14. ASSUME NEW i \in Process, TransactionTimeout(i) PROVE TypeOK'
      BY <2>14 DEF TypeOK, TransactionTimeout, broker, group, process
    <2>15. ASSUME NEW newOwner \in [Partition -> TxnId], Rebalance(newOwner)
           PROVE  TypeOK'
      <3>1. /\ UNCHANGED <<broker, epoch, member, pc, pepoch, batch, collected,
                           out, aborted, faults>>
            /\ owner' = newOwner /\ rebalances' = rebalances + 1
        BY <2>15 DEF Rebalance
      <3>2. insync' \in [Process -> BOOLEAN]
        BY <2>15 DEF Rebalance
      <3>3. assigned' \in [Process -> SUBSET Partition]
        BY <2>15 DEF Rebalance, TypeOK
      <3>4. position' \in [Process -> [Partition -> Nat]]
        BY <2>15 DEF Rebalance, TypeOK
      <3>5. raced' \in [Process -> SUBSET Partition]
        BY <2>15 DEF Rebalance, Pending, TypeOK
      <3> QED BY <3>1, <3>2, <3>3, <3>4, <3>5 DEF TypeOK, broker
    <2>16. ASSUME UNCHANGED vars PROVE TypeOK'
      BY <2>16 DEF TypeOK, vars, broker, group, process
    <2> QED BY <2>1, <2>2, <2>3, <2>4, <2>5, <2>6, <2>7, <2>8, <2>9, <2>10,
               <2>11, <2>12, <2>13, <2>14, <2>15, <2>16 DEF Next, Run, Fault
  <1> QED BY <1>1, <1>2, PTL DEF Spec

-----------------------------------------------------------------------------
(* Why nothing is lost.  A process can commit in its present batch when its *)
(* producer is not fenced and its offsets are, or already were, accepted.   *)
MayCommit(i) ==
  /\ Unfenced(i)
  /\ \/ pc[i] = "sent"
     \/ pc[i] \in {"polling", "routing"} /\ InGroup(i)

(* Producer epochs are handed out once.                                     *)
Epochs ==
  /\ \A i \in Process : pepoch[i] <= epoch[IdOf[i]]
  /\ \A i \in Process : pc[i] # "down" => pepoch[i] > 0
  /\ \A i, j \in Process :
       IdOf[i] = IdOf[j] /\ pepoch[i] = pepoch[j] /\ pepoch[i] > 0 => i = j

(* What such a process has read past is in the output, or it still holds it, *)
(* or an abort dropped it: committing its position skips nothing.           *)
Settled(i) ==
  \A m \in Message : m[1] \in assigned[i] /\ m[2] < position[i][m[1]]
    => Visible(m) \/ m \in Held(i) \cup aborted

LossInv ==
  /\ Epochs
  /\ \A i \in Process : MayCommit(i) => Settled(i)
  /\ \A i \in Process : pc[i] = "sent" => batch[i] = None
  /\ NoSilentLoss

-----------------------------------------------------------------------------
(* A step that changes nothing a process j relies on keeps j settled.       *)
LEMMA SettledKept ==
  ASSUME TypeOK, NEW j \in Process, Settled(j),
         aborted \subseteq aborted', UNCHANGED copies,
         assigned'[j] = assigned[j], position'[j] = position[j],
         batch'[j] = batch[j], out'[j] = out[j]
  PROVE  Settled(j)'
  BY DEF Settled, Held, Visible

(* Freshly assigned, a process stands on the committed offsets.             *)
LEMMA AssignSettles ==
  ASSUME TypeOK, NoSilentLoss, NEW i \in Process, Assign(i),
         UNCHANGED <<copies, aborted>>
  PROVE  Settled(i)'
  BY MessageShape
     DEF TypeOK, Assign, Settled, NoSilentLoss, Consumed, Visible

(* A process that ends takes nothing along: what it held is still uncommitted. *)
LEMMA ExitKeepsLoss ==
  ASSUME TypeOK, LossInv, NEW i \in Process, Exit(i)
  PROVE  LossInv'
  <1>1. Epochs'
    BY DEF Exit, LossInv, Epochs, TypeOK
  <1>2. ASSUME NEW j \in Process, MayCommit(j)' PROVE Settled(j)'
    <2>1. j # i
      BY <1>2 DEF Exit, MayCommit, TypeOK
    <2>2. MayCommit(j)
      BY <1>2, <2>1 DEF Exit, MayCommit, Unfenced, InGroup, TypeOK, group
    <2> QED BY <2>1, <2>2, SettledKept DEF Exit, LossInv, TypeOK, broker, group
  <1>3. NoSilentLoss'
    BY DEF Exit, LossInv, NoSilentLoss, Consumed, Visible, broker
  <1>4. \A j \in Process : pc'[j] = "sent" => batch'[j] = None
    BY DEF Exit, LossInv, TypeOK
  <1> QED BY <1>1, <1>2, <1>3, <1>4 DEF LossInv

(* Every step keeps LossInv.                                                *)
LEMMA LossStep == TypeOK /\ TypeOK' /\ LossInv /\ [Next]_vars => LossInv'
  <1> USE ConstantsOK DEF ConstantsOK
  <1> SUFFICES ASSUME TypeOK, TypeOK', LossInv, [Next]_vars PROVE LossInv'
    OBVIOUS
  <1>1. ASSUME NEW i \in Process, InitTransactions(i) PROVE LossInv'
    <2>1. Epochs'
      BY <1>1 DEF InitTransactions, LossInv, Epochs, TypeOK
    <2>2. ASSUME NEW j \in Process, MayCommit(j)' PROVE Settled(j)'
      <3>1. j # i
        BY <1>1, <2>2 DEF InitTransactions, MayCommit, TypeOK
      <3>2. pepoch[j] <= epoch[IdOf[j]] /\ pepoch'[j] = pepoch[j]
        BY <1>1, <3>1 DEF InitTransactions, LossInv, Epochs, TypeOK
      <3>3. IdOf[j] # IdOf[i]
        BY <1>1, <2>2, <3>2 DEF InitTransactions, MayCommit, Unfenced, TypeOK
      <3>4. MayCommit(j)
        BY <1>1, <2>2, <3>1, <3>3
           DEF InitTransactions, MayCommit, Unfenced, InGroup, TypeOK, group
      <3> QED BY <1>1, <3>4, SettledKept
              DEF InitTransactions, LossInv, broker, group
    <2>3. NoSilentLoss'
      BY <1>1 DEF InitTransactions, LossInv, NoSilentLoss, Consumed, Visible,
                  broker
    <2>4. \A j \in Process : pc'[j] = "sent" => batch'[j] = None
      BY <1>1 DEF InitTransactions, LossInv, TypeOK
    <2> QED BY <2>1, <2>2, <2>3, <2>4 DEF LossInv
  <1>2. ASSUME NEW i \in Process, Join(i) PROVE LossInv'
    <2>1. Epochs'
      BY <1>2 DEF Join, LossInv, Epochs, TypeOK
    <2>2. ASSUME NEW j \in Process, MayCommit(j)' PROVE Settled(j)'
      <3>1. CASE j = i
        BY <1>2, <3>1, AssignSettles DEF Join, LossInv, broker
      <3>2. CASE j # i
        <4>1. MayCommit(j)
          BY <1>2, <2>2, <3>2
             DEF Join, Assign, MayCommit, Unfenced, InGroup, TypeOK
        <4> QED BY <1>2, <3>2, <4>1, SettledKept
                DEF Join, Assign, LossInv, TypeOK, broker
      <3> QED BY <3>1, <3>2
    <2>3. NoSilentLoss'
      BY <1>2 DEF Join, LossInv, NoSilentLoss, Consumed, Visible, broker
    <2>4. \A j \in Process : pc'[j] = "sent" => batch'[j] = None
      BY <1>2 DEF Join, LossInv, TypeOK
    <2> QED BY <2>1, <2>2, <2>3, <2>4 DEF LossInv
  <1>3. ASSUME NEW i \in Process, NEW p \in Partition, PollMessage(i, p)
        PROVE  LossInv'
    <2> DEFINE n == <<p, position[i][p]>>
    <2>0. n \in Message /\ n[1] = p /\ n[2] = position[i][p]
      BY <1>3 DEF PollMessage
    <2>1. Epochs'
      BY <1>3 DEF PollMessage, LossInv, Epochs, TypeOK
    <2>2. ASSUME NEW j \in Process, MayCommit(j)' PROVE Settled(j)'
      <3>0. MayCommit(j)
        BY <1>3, <2>2 DEF PollMessage, MayCommit, Unfenced, InGroup, group
      <3>1. CASE j = i
        <4>1. Settled(i)
          BY <3>0, <3>1 DEF LossInv
        <4>2. Held(i)' = Held(i) \cup {n}
          <5>1. batch' = [batch EXCEPT ![i][n] = @ + 1] /\ out' = out
            BY <1>3 DEF PollMessage
          <5> HIDE DEF n
          <5>2. \A m \in Message : batch'[i][m] =
                  IF m = n THEN batch[i][m] + 1 ELSE batch[i][m]
            BY <2>0, <5>1 DEF TypeOK
          <5>3. \A m \in Message : batch[i][m] \in Nat
            BY DEF TypeOK
          <5>4. ASSUME NEW m \in Message, m # n
                PROVE  m \in Held(i)' <=> m \in Held(i)
            BY <5>1, <5>2, <5>4 DEF Held
          <5>5. n \in Held(i)'
            BY <2>0, <5>2, <5>3 DEF Held
          <5>6. Held(i) \subseteq Message /\ Held(i)' \subseteq Message
            BY DEF Held
          <5> QED BY <2>0, <5>4, <5>5, <5>6
        <4>3. \A x \in Partition : position'[i][x] =
                 IF x = p THEN position[i][p] + 1 ELSE position[i][x]
          BY <1>3 DEF PollMessage, TypeOK
        <4>4. UNCHANGED <<copies, aborted>> /\ assigned'[i] = assigned[i]
          BY <1>3 DEF PollMessage, broker
        <4> HIDE DEF n
        <4>5. ASSUME NEW m \in Message, m[1] \in assigned[i],
                     m[2] < position'[i][m[1]]
              PROVE  Visible(m) \/ m \in Held(i)' \cup aborted
          <5>1. /\ m[1] \in Partition /\ m[2] \in Nat /\ m = <<m[1], m[2]>>
                /\ position[i][m[1]] \in Nat
            BY MessageShape DEF TypeOK
          <5>2. CASE m[2] < position[i][m[1]]
            BY <4>1, <4>2, <4>5, <5>2 DEF Settled
          <5>3. CASE m[1] = p /\ m[2] = position[i][p]
            BY <4>2, <5>1, <5>3 DEF n
          <5> QED BY <4>3, <4>5, <5>1, <5>2, <5>3
        <4> QED BY <3>1, <4>4, <4>5 DEF Settled, Visible
      <3>2. CASE j # i
        BY <1>3, <3>0, <3>2, SettledKept
           DEF PollMessage, LossInv, TypeOK, broker, group
      <3> QED BY <3>1, <3>2
    <2>3. NoSilentLoss'
      BY <1>3 DEF PollMessage, LossInv, NoSilentLoss, Consumed, Visible, broker
    <2>4. \A j \in Process : pc'[j] = "sent" => batch'[j] = None
      BY <1>3 DEF PollMessage, LossInv, TypeOK
    <2> QED BY <2>1, <2>2, <2>3, <2>4 DEF LossInv
  <1>4. ASSUME NEW i \in Process, Exit(i) PROVE LossInv'
    BY <1>4, ExitKeepsLoss
  <1>5. ASSUME NEW i \in Process, BeginBatch(i) PROVE LossInv'
    <2>1. Epochs' /\ NoSilentLoss'
      BY <1>5 DEF BeginBatch, LossInv, Epochs, NoSilentLoss, Consumed, Visible,
                  TypeOK, broker
    <2>2. ASSUME NEW j \in Process, MayCommit(j)' PROVE Settled(j)'
      <3>1. MayCommit(j)
        BY <1>5, <2>2
           DEF BeginBatch, MayCommit, Unfenced, InGroup, TypeOK, group
      <3> QED BY <1>5, <3>1, SettledKept DEF BeginBatch, LossInv, broker, group
    <2>3. \A j \in Process : pc'[j] = "sent" => batch'[j] = None
      BY <1>5 DEF BeginBatch, LossInv, TypeOK
    <2> QED BY <2>1, <2>2, <2>3 DEF LossInv
  <1>6. ASSUME NEW i \in Process, NEW n \in Message, HandleMsg(i, n)
        PROVE  LossInv'
    <2>1. Epochs' /\ NoSilentLoss'
      BY <1>6 DEF HandleMsg, LossInv, Epochs, NoSilentLoss, Consumed, Visible,
                  TypeOK, broker
    <2>2. Held(i)' = Held(i)
      <3>1. \A m \in Message : batch'[i][m] =
              IF m = n THEN batch[i][m] - 1 ELSE batch[i][m]
        BY <1>6 DEF HandleMsg, TypeOK
      <3>2. \A t \in Topic, m \in Message : out'[i][<<t, m>>] =
              IF m = n /\ t = RouteOf(n) THEN out[i][<<t, m>>] + 1
                                         ELSE out[i][<<t, m>>]
        <4> DEFINE r == <<RouteOf(n), n>>
        <4>1. r \in Record /\ out' = [out EXCEPT ![i][r] = @ + 1]
          BY <1>6, RouteIsTopic DEF HandleMsg
        <4>2. \A t \in Topic, m \in Message :
                <<t, m>> \in Record /\ (<<t, m>> = r <=> m = n /\ t = RouteOf(n))
          BY DEF Record
        <4> HIDE DEF r
        <4>3. \A x \in Record : out'[i][x] =
                IF x = r THEN out[i][x] + 1 ELSE out[i][x]
          BY <4>1 DEF TypeOK
        <4> QED BY <4>2, <4>3
      <3>3. \A t \in Topic, m \in Message : out[i][<<t, m>>] \in Nat
        BY DEF TypeOK, Record
      <3>4. \A m \in Message : batch[i][m] \in Nat
        BY DEF TypeOK
      <3>5. batch[i][n] > 0 /\ RouteOf(n) \in Topic
        BY <1>6 DEF HandleMsg, RouteOf, Topic
      <3>6. ASSUME NEW m \in Message, m # n
            PROVE  m \in Held(i)' <=> m \in Held(i)
        BY <3>1, <3>2, <3>6 DEF Held
      <3>7. n \in Held(i)' /\ n \in Held(i)
        BY <3>2, <3>3, <3>5 DEF Held
      <3> QED BY <3>6, <3>7 DEF Held
    <2>3. ASSUME NEW j \in Process, MayCommit(j)' PROVE Settled(j)'
      <3>1. MayCommit(j)
        BY <1>6, <2>3 DEF HandleMsg, MayCommit, Unfenced, InGroup, group
      <3>2. CASE j = i
        BY <1>6, <2>2, <3>1, <3>2 DEF HandleMsg, LossInv, Settled, Visible, broker
      <3>3. CASE j # i
        BY <1>6, <3>1, <3>3, SettledKept
           DEF HandleMsg, LossInv, TypeOK, broker, group
      <3> QED BY <3>2, <3>3
    <2>4. \A j \in Process : pc'[j] = "sent" => batch'[j] = None
      BY <1>6 DEF HandleMsg, LossInv, TypeOK
    <2> QED BY <2>1, <2>3, <2>4 DEF LossInv
  <1>7. ASSUME NEW i \in Process, SendOffsets(i) PROVE LossInv'
    <2>1. Epochs' /\ NoSilentLoss'
      BY <1>7 DEF SendOffsets, LossInv, Epochs, NoSilentLoss, Consumed, Visible,
                  TypeOK, broker
    <2>2. ASSUME NEW j \in Process, MayCommit(j)' PROVE Settled(j)'
      <3>1. MayCommit(j)
        BY <1>7, <2>2
           DEF SendOffsets, MayCommit, Unfenced, InGroup, TypeOK, group
      <3> QED BY <1>7, <3>1, SettledKept DEF SendOffsets, LossInv, broker, group
    <2>3. \A j \in Process : pc'[j] = "sent" => batch'[j] = None
      BY <1>7 DEF SendOffsets, LossInv, TypeOK
    <2> QED BY <2>1, <2>2, <2>3 DEF LossInv
  <1>8. ASSUME NEW i \in Process, CommitTransaction(i) PROVE LossInv'
    <2>0. MayCommit(i) /\ batch[i] = None
      BY <1>8 DEF CommitTransaction, MayCommit, LossInv
    <2>1. Epochs'
      BY <1>8 DEF CommitTransaction, NextBatch, LossInv, Epochs, TypeOK
    <2>2. \A m \in Message : /\ Visible(m) => Visible(m)'
                             /\ m \in Held(i) => Visible(m)'
      <3>1. \A r \in Record : /\ copies'[r] = copies[r] + out[i][r]
                              /\ copies[r] \in Nat /\ out[i][r] \in Nat
        BY <1>8 DEF CommitTransaction, TypeOK
      <3>2. \A m \in Message, t \in Topic : <<t, m>> \in Record
        BY DEF Record
      <3>3. ASSUME NEW m \in Message, m \in Held(i)
            PROVE  \E t \in Topic : out[i][<<t, m>>] > 0
        <4>1. batch[i][m] = 0
          BY <2>0 DEF None
        <4> QED BY <3>3, <4>1 DEF Held
      <3>4. \A r \in Record : /\ copies[r] > 0 => copies'[r] > 0
                              /\ out[i][r] > 0 => copies'[r] > 0
        BY <3>1
      <3> QED BY <3>2, <3>3, <3>4 DEF Visible
    <2>3. ASSUME NEW j \in Process, MayCommit(j)' PROVE Settled(j)'
      <3>1. UNCHANGED <<assigned, position, aborted>>
        BY <1>8 DEF CommitTransaction, NextBatch
      <3>2. CASE j = i
        BY <2>0, <2>2, <3>1, <3>2 DEF LossInv, Settled
      <3>3. CASE j # i
        <4>1. Settled(j)
          BY <1>8, <2>3, <3>3 DEF CommitTransaction, NextBatch, MayCommit,
                                  Unfenced, InGroup, LossInv, TypeOK, group
        <4>2. batch'[j] = batch[j] /\ out'[j] = out[j]
          BY <1>8, <3>3 DEF CommitTransaction, NextBatch, TypeOK
        <4> QED BY <2>2, <3>1, <4>1, <4>2 DEF Settled, Held
      <3> QED BY <3>2, <3>3
    <2>4. NoSilentLoss'
      <3> SUFFICES ASSUME NEW m \in Message, Consumed(m)'
                   PROVE  Visible(m)' \/ m \in aborted
        BY <1>8 DEF CommitTransaction, NoSilentLoss
      <3>1. CASE Consumed(m)
        BY <2>2, <3>1 DEF LossInv, NoSilentLoss
      <3>2. CASE ~Consumed(m)
        <4>1. m[1] \in assigned[i] /\ m[2] < position[i][m[1]]
          BY <1>8, <3>2, MessageShape DEF CommitTransaction, Consumed, TypeOK
        <4> QED BY <2>0, <2>2, <4>1 DEF LossInv, Settled
      <3> QED BY <3>1, <3>2
    <2>5. \A j \in Process : pc'[j] = "sent" => batch'[j] = None
      BY <1>8 DEF CommitTransaction, NextBatch, LossInv, TypeOK
    <2> QED BY <2>1, <2>3, <2>4, <2>5 DEF LossInv
  <1>9. ASSUME NEW i \in Process, pc[i] \in {"routing", "sent"}, Abort(i)
        PROVE  LossInv'
    <2>1. Epochs'
      BY <1>9 DEF Abort, NextBatch, LossInv, Epochs, TypeOK
    <2>2. ASSUME NEW j \in Process, MayCommit(j)' PROVE Settled(j)'
      <3>1. CASE j = i
        <4>1. MayCommit(i)
          BY <1>9, <2>2, <3>1
             DEF Abort, NextBatch, MayCommit, Unfenced, InGroup, TypeOK, group
        <4>2. Settled(i)
          BY <4>1 DEF LossInv
        <4>3. aborted' = aborted \cup Held(i)
          BY <1>9 DEF Abort
        <4> QED BY <1>9, <3>1, <4>2, <4>3
                DEF Abort, NextBatch, Settled, Visible, broker
      <3>2. CASE j # i
        <4>1. MayCommit(j)
          BY <1>9, <2>2, <3>2
             DEF Abort, NextBatch, MayCommit, Unfenced, InGroup, TypeOK, group
        <4> QED BY <1>9, <3>2, <4>1, SettledKept
                DEF Abort, NextBatch, LossInv, TypeOK, broker, group
      <3> QED BY <3>1, <3>2
    <2>3. NoSilentLoss'
      BY <1>9 DEF Abort, LossInv, NoSilentLoss, Consumed, Visible, broker
    <2>4. \A j \in Process : pc'[j] = "sent" => batch'[j] = None
      BY <1>9 DEF Abort, NextBatch, LossInv, TypeOK
    <2> QED BY <2>1, <2>2, <2>3, <2>4 DEF LossInv
  <1>10. ASSUME NEW i \in Process, Rejoin(i) PROVE LossInv'
    <2>1. Epochs' /\ NoSilentLoss'
      BY <1>10 DEF Rejoin, LossInv, Epochs, NoSilentLoss, Consumed, Visible,
                   TypeOK, broker
    <2>2. ASSUME NEW j \in Process, MayCommit(j)' PROVE Settled(j)'
      <3>1. CASE j = i
        BY <1>10, <3>1, AssignSettles DEF Rejoin, LossInv, broker
      <3>2. CASE j # i
        <4>1. MayCommit(j)
          BY <1>10, <2>2, <3>2
             DEF Rejoin, Assign, MayCommit, Unfenced, InGroup, TypeOK, group
        <4> QED BY <1>10, <3>2, <4>1, SettledKept
                DEF Rejoin, Assign, LossInv, TypeOK, broker, group
      <3> QED BY <3>1, <3>2
    <2>3. \A j \in Process : pc'[j] = "sent" => batch'[j] = None
      BY <1>10 DEF Rejoin, LossInv, TypeOK
    <2> QED BY <2>1, <2>2, <2>3 DEF LossInv
  <1>11. ASSUME NEW i \in Process, TransactionTimeout(i) PROVE LossInv'
    <2>1. Epochs' /\ NoSilentLoss'
      <3>1. Epochs'
        BY <1>11 DEF TransactionTimeout, LossInv, Epochs, TypeOK, process
      <3>2. NoSilentLoss'
        BY <1>11 DEF TransactionTimeout, LossInv, NoSilentLoss, Consumed,
                     Visible, broker
      <3> QED BY <3>1, <3>2
    <2>2. ASSUME NEW j \in Process, MayCommit(j)' PROVE Settled(j)'
      <3>1. MayCommit(j)
        <4>1. pepoch[j] <= epoch[IdOf[j]] /\ pepoch'[j] = pepoch[j]
          BY <1>11 DEF TransactionTimeout, LossInv, Epochs, process
        <4>2. IdOf[j] # IdOf[i]
          BY <1>11, <2>2, <4>1
             DEF TransactionTimeout, MayCommit, Unfenced, TypeOK
        <4> QED BY <1>11, <2>2, <4>2 DEF TransactionTimeout, MayCommit,
                   Unfenced, InGroup, TypeOK, group, process
      <3> QED BY <1>11, <3>1, SettledKept
              DEF TransactionTimeout, LossInv, broker, group, process
    <2>3. \A j \in Process : pc'[j] = "sent" => batch'[j] = None
      BY <1>11 DEF TransactionTimeout, LossInv, process
    <2> QED BY <2>1, <2>2, <2>3 DEF LossInv
  <1>12. ASSUME NEW newOwner \in [Partition -> TxnId], Rebalance(newOwner)
         PROVE  LossInv'
    <2>1. Epochs' /\ NoSilentLoss'
      BY <1>12 DEF Rebalance, LossInv, Epochs, NoSilentLoss, Consumed, Visible,
                   broker
    <2>2. ASSUME NEW j \in Process, MayCommit(j)' PROVE Settled(j)'
      <3>1. UNCHANGED <<committed, copies, aborted, batch, out, pc, epoch, pepoch>>
        BY <1>12 DEF Rebalance, broker
      <3>2. CASE insync'[j]
        <4>1. position'[j] = committed /\ assigned'[j] \subseteq Partition
          BY <1>12, <3>2 DEF Rebalance
        <4> QED BY <3>1, <4>1, MessageShape
                DEF LossInv, Settled, NoSilentLoss, Consumed, Visible, TypeOK
      <3>3. CASE ~insync'[j]
        <4>1. pc[j] = "sent" /\ MayCommit(j)
          BY <2>2, <3>1, <3>3 DEF MayCommit, InGroup, Unfenced
        <4>2. assigned'[j] = assigned[j] /\ position'[j] = position[j]
          BY <1>12, <4>1 DEF Rebalance
        <4> QED BY <3>1, <4>1, <4>2, SettledKept DEF LossInv
      <3> QED BY <3>2, <3>3
    <2>3. \A j \in Process : pc'[j] = "sent" => batch'[j] = None
      BY <1>12 DEF Rebalance, LossInv
    <2> QED BY <2>1, <2>2, <2>3 DEF LossInv
  <1>13. ASSUME UNCHANGED vars PROVE LossInv'
    <2>1. \A j \in Process : MayCommit(j)' = MayCommit(j) /\ Settled(j)' = Settled(j)
      BY <1>13 DEF vars, broker, group, process, MayCommit, Unfenced, InGroup,
                   Settled, Visible, Held
    <2> QED BY <1>13, <2>1 DEF vars, broker, group, process, LossInv, Epochs,
                   NoSilentLoss, Consumed, Visible
  <1> QED
    BY <1>1, <1>2, <1>3, <1>4, <1>5, <1>6, <1>7, <1>8, <1>9, <1>10, <1>11,
       <1>12, <1>13
       DEF Next, Run, Fault, PollUndecodable, OffsetsRefused, Fenced,
           InstanceFenced, AbortableError, Crash


LEMMA LossInvariant == Spec => []LossInv
  <1>1. Init => LossInv
    BY ConstantsOK, MessageShape DEF ConstantsOK, Init, LossInv, Epochs,
       MayCommit, NoSilentLoss, Consumed
  <1> QED BY <1>1, LossStep, TypeCorrect, PTL DEF Spec

(* No message is skipped except by an abort, whatever the processes, their  *)
(* stalls, restarts, evictions and the group's rebalances.                  *)
THEOREM NothingLostSilently == Spec => []NoSilentLoss
  <1>1. LossInv => NoSilentLoss
    BY DEF LossInv
  <1> QED BY <1>1, LossInvariant, PTL

-----------------------------------------------------------------------------
(* Why offsets advance.  A process that may commit is alone with every      *)
(* partition it did not get, or lose, in the middle of a commit.            *)
Sole(i) ==
  \A p \in assigned[i] \ raced[i] :
    /\ owner[p] = IdOf[i]
    /\ committed[p] <= position[i][p]
    /\ \A k \in Process \ {i} : MayCommit(k) => p \notin assigned[k]

RaceInv ==
  /\ \A i \in Process : MayCommit(i) => Sole(i)
  /\ \A i \in Process : insync[i] => \A p \in assigned[i] : owner[p] = IdOf[i]
  /\ rebalances = 0 =>
       \A i \in Process : MayCommit(i) => assigned[i] \cap raced[i] = {}

(* Of the processes of one id at most one runs unfenced.                    *)
LEMMA OneUnfencedPerId ==
  ASSUME Epochs, NEW i \in Process, NEW j \in Process, pc[i] # "down",
         Unfenced(i), Unfenced(j), IdOf[i] = IdOf[j]
  PROVE  i = j
  BY DEF Unfenced, Epochs

(* A step that lets nobody commit who could not before, and leaves the      *)
(* assignments and the offsets alone.                                       *)
LEMMA RaceKept ==
  ASSUME TypeOK, RaceInv,
         UNCHANGED <<committed, owner, rebalances, insync, assigned, raced>>,
         \A j \in Process : MayCommit(j)' => MayCommit(j),
         \A j \in Process, p \in Partition : position[j][p] <= position'[j][p],
         position' \in [Process -> [Partition -> Nat]]
  PROVE  RaceInv'
  <1>1. ASSUME NEW j \in Process, MayCommit(j)' PROVE Sole(j)'
    <2>1. Sole(j) /\ assigned[j] \subseteq Partition
      BY <1>1 DEF RaceInv, TypeOK
    <2>2. ASSUME NEW p \in assigned[j] \ raced[j]
          PROVE  /\ owner[p] = IdOf[j]
                 /\ committed[p] <= position'[j][p]
                 /\ \A k \in Process \ {j} : MayCommit(k)' => p \notin assigned[k]
      <3>1. p \in Partition /\ committed[p] \in Nat /\ position[j][p] \in Nat
            /\ position'[j][p] \in Nat /\ position[j][p] <= position'[j][p]
        BY <2>1 DEF TypeOK
      <3> QED BY <2>1, <3>1 DEF Sole
    <2> QED BY <2>2 DEF Sole
  <1> QED BY <1>1 DEF RaceInv

(* Leaving the loop.                                                        *)
LEMMA ExitKeepsRace ==
  ASSUME TypeOK, RaceInv, NEW i \in Process, Exit(i)
  PROVE  RaceInv'
  <1>1. ~MayCommit(i)' /\ ~insync'[i]
    BY DEF Exit, MayCommit, TypeOK
  <1>2. \A j \in Process : j # i => /\ MayCommit(j)' => MayCommit(j)
                                    /\ assigned'[j] = assigned[j]
                                    /\ position'[j] = position[j]
                                    /\ raced'[j] = raced[j]
                                    /\ insync'[j] = insync[j]
    BY DEF Exit, MayCommit, Unfenced, InGroup, TypeOK, group
  <1>3. UNCHANGED <<committed, owner, rebalances>>
    BY DEF Exit, broker, group
  <1> QED BY <1>1, <1>2, <1>3 DEF RaceInv, Sole

(* A process that is assigned its partitions: what nobody is committing is  *)
(* its own, and what somebody is committing is recorded as raced.           *)
LEMMA AssignKeepsRace ==
  ASSUME TypeOK, Epochs, RaceInv, NEW i \in Process,
         pc[i] \in {"started", "polling"}, pc'[i] = "polling", Assign(i), member'[IdOf[i]] = i,
         UNCHANGED <<committed, owner, rebalances, epoch, pepoch>>,
         \A j \in Process : j # i => pc'[j] = pc[j],
         \A j \in Process : j # i /\ InGroup(j)' => InGroup(j)
  PROVE  RaceInv'
  <1>1. /\ assigned'[i] = {p \in Partition : owner[p] = IdOf[i]}
        /\ position'[i] = committed /\ raced'[i] = Pending(i) /\ insync'[i]
    BY DEF Assign, TypeOK
  <1>2. \A j \in Process : j # i => /\ MayCommit(j)' => MayCommit(j)
                                    /\ assigned'[j] = assigned[j]
                                    /\ position'[j] = position[j]
                                    /\ raced'[j] = raced[j]
                                    /\ insync'[j] = insync[j]
    BY DEF Assign, MayCommit, Unfenced, TypeOK
  <1>3. ASSUME NEW k \in Process \ {i}, MayCommit(k)', NEW p \in assigned'[i],
               p \in assigned[k], p \notin Pending(i)
        PROVE  FALSE
    <2>1. pc[k] # "sent"
      BY <1>1, <1>2, <1>3 DEF Pending, MayCommit
    <2>2. insync'[k] /\ member'[IdOf[k]] = k
      BY <1>2, <1>3, <2>1 DEF MayCommit, InGroup
    <2>3. owner[p] = IdOf[k]
      BY <1>2, <1>3, <2>2 DEF RaceInv
    <2> QED BY <1>1, <1>3, <2>2, <2>3
  <1>4. ASSUME NEW j \in Process, MayCommit(j)' PROVE Sole(j)'
    <2>1. CASE j = i
      <3>1. \A p \in Partition : committed[p] \in Nat
        BY DEF TypeOK
      <3>2. \A k \in Process \ {i} : assigned'[k] = assigned[k]
        BY <1>2
      <3> QED BY <1>1, <1>3, <2>1, <3>1, <3>2 DEF Sole
    <2>2. CASE j # i
      <3>1. Sole(j)
        BY <1>2, <1>4, <2>2 DEF RaceInv
      <3>2. ASSUME NEW p \in assigned[j] \ raced[j], MayCommit(i)', p \in assigned'[i]
            PROVE  FALSE
        <4>1. IdOf[j] = IdOf[i]
          BY <1>1, <3>1, <3>2 DEF Sole
        <4>2. Unfenced(i) /\ Unfenced(j)
          BY <1>4, <3>2 DEF MayCommit, Unfenced
        <4> QED BY <2>2, <4>1, <4>2, OneUnfencedPerId
      <3> QED BY <1>2, <2>2, <3>1, <3>2 DEF Sole
    <2> QED BY <2>1, <2>2
  <1>5. \A j \in Process : insync'[j] => \A p \in assigned'[j] : owner'[p] = IdOf[j]
    BY <1>1, <1>2 DEF RaceInv
  <1>6. ASSUME rebalances = 0, NEW j \in Process, MayCommit(j)'
        PROVE  assigned'[j] \cap raced'[j] = {}
    <2>1. CASE j = i
      <3> SUFFICES ASSUME NEW p \in assigned'[i], p \in Pending(i) PROVE FALSE
        BY <1>1, <2>1
      <3>1. PICK k \in Process \ {i} :
              pc[k] = "sent" /\ Unfenced(k) /\ p \in assigned[k]
        BY DEF Pending
      <3>2. MayCommit(k) /\ MayCommit(k)'
        BY <3>1 DEF MayCommit, Unfenced
      <3>3. owner[p] = IdOf[k]
        BY <1>6, <3>1, <3>2 DEF RaceInv, Sole
      <3>4. IdOf[k] = IdOf[i]
        BY <1>1, <3>3
      <3>5. Unfenced(i)
        BY <1>6, <2>1 DEF MayCommit, Unfenced
      <3> QED BY <3>1, <3>4, <3>5, OneUnfencedPerId
    <2>2. CASE j # i
      BY <1>2, <1>6, <2>2 DEF RaceInv
    <2> QED BY <2>1, <2>2
  <1> QED BY <1>4, <1>5, <1>6 DEF RaceInv

(* Every step keeps RaceInv.                                                *)
LEMMA RaceStep == TypeOK /\ TypeOK' /\ LossInv /\ RaceInv /\ [Next]_vars => RaceInv'
  <1> SUFFICES ASSUME TypeOK, TypeOK', LossInv, RaceInv, [Next]_vars
               PROVE  RaceInv'
    OBVIOUS
  <1>0. Epochs /\ \A j \in Process : pepoch[j] <= epoch[IdOf[j]]
    BY DEF LossInv, Epochs
  <1>00. /\ \A p \in Partition, j \in Process :
              position[j][p] \in Nat /\ position'[j][p] \in Nat
         /\ position' \in [Process -> [Partition -> Nat]]
    BY DEF TypeOK
  <1>1. ASSUME NEW i \in Process, InitTransactions(i) \/ TransactionTimeout(i)
        PROVE  RaceInv'
    <2>1. /\ UNCHANGED <<committed, owner, rebalances, insync, assigned, raced,
                         position, member>>
          /\ epoch' = [epoch EXCEPT ![IdOf[i]] = @ + 1]
          /\ \A j \in Process : j # i => pc'[j] = pc[j] /\ pepoch'[j] = pepoch[j]
      BY <1>1 DEF InitTransactions, TransactionTimeout, broker, group, process,
                  TypeOK
    <2>2. ~MayCommit(i)'
      BY <1>0, <1>1, ConstantsOK DEF ConstantsOK, InitTransactions,
         TransactionTimeout, MayCommit, Unfenced, TypeOK, process
    <2>3. \A j \in Process : MayCommit(j)' => MayCommit(j)
      <3> SUFFICES ASSUME NEW j \in Process, MayCommit(j)' PROVE MayCommit(j)
        OBVIOUS
      <3>1. j # i /\ IdOf[j] \in TxnId /\ epoch[IdOf[j]] \in Nat
            /\ pepoch[j] \in Nat
        BY <2>2, ConstantsOK DEF ConstantsOK, TypeOK
      <3>2. IdOf[j] # IdOf[i]
        BY <1>0, <2>1, <3>1 DEF MayCommit, Unfenced, TypeOK
      <3> QED BY <2>1, <3>1, <3>2 DEF MayCommit, Unfenced, InGroup, TypeOK
    <2> QED BY <1>00, <2>1, <2>3, RaceKept
  <1>2. ASSUME NEW i \in Process, Join(i) PROVE RaceInv'
    <2>1. \A j \in Process : j # i => pc'[j] = pc[j] /\ (InGroup(j)' => InGroup(j))
      BY <1>2, ConstantsOK DEF ConstantsOK, Join, Assign, InGroup, TypeOK
    <2>2. /\ pc[i] \in {"started", "polling"} /\ pc'[i] = "polling"
          /\ member'[IdOf[i]] = i
          /\ UNCHANGED <<committed, owner, rebalances, epoch, pepoch>>
          /\ Assign(i)
      BY <1>2, ConstantsOK DEF ConstantsOK, Join, TypeOK, broker
    <2> QED BY <1>0, <2>1, <2>2, AssignKeepsRace
  <1>3. ASSUME NEW i \in Process, Rejoin(i) PROVE RaceInv'
    <2>1. \A j \in Process : j # i => pc'[j] = pc[j] /\ (InGroup(j)' => InGroup(j))
      BY <1>3 DEF Rejoin, Assign, InGroup, TypeOK, group
    <2>2. /\ pc[i] \in {"started", "polling"} /\ pc'[i] = "polling"
          /\ member'[IdOf[i]] = i
          /\ UNCHANGED <<committed, owner, rebalances, epoch, pepoch>>
          /\ Assign(i)
      BY <1>3 DEF Rejoin, group, broker
    <2> QED BY <1>0, <2>1, <2>2, AssignKeepsRace
  <1>4. ASSUME NEW i \in Process, NEW p \in Partition, PollMessage(i, p)
        PROVE  RaceInv'
    <2>1. /\ UNCHANGED <<committed, owner, rebalances, insync, assigned, raced,
                         pc, epoch, pepoch, member>>
          /\ position' = [position EXCEPT ![i][p] = @ + 1]
      BY <1>4 DEF PollMessage, broker, group
    <2>2. \A j \in Process : MayCommit(j)' => MayCommit(j)
      BY <2>1 DEF MayCommit, Unfenced, InGroup
    <2>3. \A j \in Process, q \in Partition : position[j][q] <= position'[j][q]
      BY <1>00, <2>1 DEF TypeOK
    <2> QED BY <1>00, <2>1, <2>2, <2>3, RaceKept
  <1>5. ASSUME NEW i \in Process,
               \/ BeginBatch(i) \/ SendOffsets(i)
               \/ \E m \in Message : HandleMsg(i, m)
               \/ pc[i] \in {"routing", "sent"} /\ Abort(i)
        PROVE  RaceInv'
    <2>1. /\ UNCHANGED <<committed, owner, rebalances, insync, assigned, raced,
                         position, epoch, pepoch, member>>
          /\ \A j \in Process : j # i => pc'[j] = pc[j]
      BY <1>5 DEF BeginBatch, SendOffsets, HandleMsg, Abort, NextBatch, TypeOK,
                  broker, group
    <2>2. MayCommit(i)' => MayCommit(i)
      BY <1>5, <2>1 DEF BeginBatch, SendOffsets, HandleMsg, Abort, NextBatch,
                        MayCommit, Unfenced, InGroup, TypeOK
    <2>3. \A j \in Process : MayCommit(j)' => MayCommit(j)
      BY <2>1, <2>2 DEF MayCommit, Unfenced, InGroup
    <2> QED BY <1>00, <2>1, <2>3, RaceKept
  <1>6. ASSUME NEW i \in Process, Exit(i) PROVE RaceInv'
    BY <1>6, ExitKeepsRace
  <1>7. ASSUME NEW i \in Process, CommitTransaction(i) PROVE RaceInv'
    <2>1. /\ MayCommit(i)
          /\ UNCHANGED <<owner, rebalances, insync, assigned, raced, position,
                         epoch, pepoch, member>>
          /\ \A j \in Process : j # i => pc'[j] = pc[j]
          /\ pc[i] = "sent" /\ pc'[i] = "polling"
          /\ \A p \in Partition : committed'[p] = IF p \in assigned[i]
                                    THEN position[i][p] ELSE committed[p]
      BY <1>7 DEF CommitTransaction, NextBatch, MayCommit, TypeOK, group
    <2>2. \A j \in Process : MayCommit(j)' => MayCommit(j)
      BY <2>1 DEF MayCommit, Unfenced, InGroup
    <2>3. ASSUME NEW j \in Process, MayCommit(j)' PROVE Sole(j)'
      <3>1. Sole(j) /\ assigned[j] \subseteq Partition
        BY <2>2, <2>3 DEF RaceInv, TypeOK
      <3>2. ASSUME NEW p \in assigned[j] \ raced[j]
            PROVE  committed'[p] <= position[j][p]
        BY <1>00, <2>1, <3>1, <3>2 DEF Sole
      <3> QED BY <2>1, <2>2, <3>1, <3>2 DEF Sole
    <2> QED BY <2>1, <2>2, <2>3 DEF RaceInv
  <1>8. ASSUME NEW newOwner \in [Partition -> TxnId], Rebalance(newOwner)
        PROVE  RaceInv'
    <2> DEFINE polling == {i \in Process : pc[i] = "polling" /\ member[IdOf[i]] = i}
    <2>1. /\ UNCHANGED <<committed, epoch, member, pc, pepoch>>
          /\ owner' = newOwner /\ rebalances' = rebalances + 1
          /\ \A i \in Process :
               /\ insync'[i] <=> i \in polling
               /\ i \in polling =>
                    /\ assigned'[i] = {p \in Partition : newOwner[p] = IdOf[i]}
                    /\ position'[i] = committed
                    /\ raced'[i] = Pending(i)
               /\ i \notin polling =>
                    /\ assigned'[i] = assigned[i]
                    /\ position'[i] = position[i]
                    /\ raced'[i] = raced[i] \cup {p \in assigned[i] :
                                     pc[i] = "sent" /\ newOwner[p] # IdOf[i]}
      BY <1>8 DEF Rebalance, broker
    <2>2. \A j \in Process : MayCommit(j)' =>
            \/ j \in polling /\ Unfenced(j)
            \/ j \notin polling /\ pc[j] = "sent" /\ MayCommit(j)
      BY <2>1 DEF MayCommit, Unfenced, InGroup
    <2>3. \A j \in polling : j \in Process /\ pc[j] = "polling" /\ member[IdOf[j]] = j
      OBVIOUS
    <2> HIDE DEF polling
    <2>4. ASSUME NEW j \in Process, NEW k \in Process \ {j},
                 MayCommit(j)', MayCommit(k)', NEW p \in assigned'[j],
                 p \notin raced'[j], p \in assigned'[k]
          PROVE  FALSE
      <3>1. CASE j \in polling
        <4>1. newOwner[p] = IdOf[j] /\ p \in Partition /\ p \notin Pending(j)
          BY <2>1, <2>4, <3>1
        <4>2. CASE k \in polling
          <5>1. newOwner[p] = IdOf[k]
            BY <2>1, <2>4, <4>2
          <5> QED BY <2>3, <3>1, <4>1, <4>2, <5>1
        <4>3. CASE k \notin polling
          <5>1. pc[k] = "sent" /\ Unfenced(k) /\ p \in assigned[k]
            BY <2>1, <2>2, <2>4, <4>3 DEF MayCommit
          <5> QED BY <4>1, <5>1 DEF Pending
        <4> QED BY <4>2, <4>3
      <3>2. CASE j \notin polling
        <4>1. /\ pc[j] = "sent" /\ MayCommit(j) /\ p \in assigned[j] \ raced[j]
              /\ newOwner[p] = IdOf[j]
          BY <2>1, <2>2, <2>4, <3>2
        <4>2. CASE k \in polling
          <5>1. newOwner[p] = IdOf[k] /\ Unfenced(k) /\ pc[k] # "down"
            BY <2>1, <2>2, <2>3, <2>4, <4>2
          <5>2. Unfenced(j)
            BY <4>1 DEF MayCommit
          <5> QED BY <1>0, <4>1, <5>1, <5>2, OneUnfencedPerId
        <4>3. CASE k \notin polling
          <5>1. MayCommit(k) /\ p \in assigned[k]
            BY <2>1, <2>2, <2>4, <4>3
          <5> QED BY <4>1, <5>1 DEF RaceInv, Sole
        <4> QED BY <4>2, <4>3
      <3> QED BY <3>1, <3>2
    <2>5. ASSUME NEW j \in Process, MayCommit(j)', NEW p \in assigned'[j] \ raced'[j]
          PROVE  owner'[p] = IdOf[j] /\ committed'[p] <= position'[j][p]
      <3>1. CASE j \in polling
        <4>1. p \in Partition /\ newOwner[p] = IdOf[j] /\ position'[j] = committed
          BY <2>1, <2>5, <3>1
        <4> QED BY <2>1, <4>1 DEF TypeOK
      <3>2. CASE j \notin polling
        <4>1. /\ MayCommit(j) /\ p \in assigned[j] \ raced[j]
              /\ newOwner[p] = IdOf[j] /\ position'[j] = position[j]
          BY <2>1, <2>2, <2>5, <3>2
        <4> QED BY <2>1, <4>1 DEF RaceInv, Sole
      <3> QED BY <3>1, <3>2
    <2>6. \A j \in Process : MayCommit(j)' => Sole(j)'
      BY <2>4, <2>5 DEF Sole
    <2>7. \A j \in Process : insync'[j] => \A p \in assigned'[j] : owner'[p] = IdOf[j]
      BY <2>1
    <2>8. rebalances' # 0
      BY <2>1 DEF TypeOK
    <2> QED BY <2>6, <2>7, <2>8 DEF RaceInv
  <1>9. ASSUME UNCHANGED vars PROVE RaceInv'
    <2>1. UNCHANGED <<committed, owner, rebalances, insync, assigned, raced,
                      position, pc, epoch, pepoch, member>>
      BY <1>9 DEF vars, broker, group, process
    <2>2. \A j \in Process : MayCommit(j)' => MayCommit(j)
      BY <2>1 DEF MayCommit, Unfenced, InGroup
    <2> QED BY <1>00, <2>1, <2>2, RaceKept
  <1> QED
    BY <1>1, <1>2, <1>3, <1>4, <1>5, <1>6, <1>7, <1>8, <1>9
       DEF Next, Run, Fault, PollUndecodable, OffsetsRefused, Fenced,
           InstanceFenced, AbortableError, Crash

LEMMA RaceInvariant == Spec => []RaceInv
  <1>1. Init => RaceInv
    BY DEF Init, RaceInv, MayCommit
  <1> QED BY <1>1, RaceStep, LossInvariant, TypeCorrect, PTL DEF Spec

(* A committed offset moves back only by a commit of a process that lost or *)
(* got the partition while its offsets were between the two commit calls.   *)
THEOREM OffsetsAdvance == Spec => OffsetsRegressOnlyIfRaced
  <1>1. TypeOK /\ RaceInv /\ [Next]_vars
          => [\A p \in Partition : committed'[p] < committed[p] =>
                \E i \in Process : pc[i] = "sent" /\ pc'[i] # "sent"
                                    /\ p \in raced[i]]_vars
    <2> SUFFICES ASSUME TypeOK, RaceInv, Next, NEW p \in Partition,
                        committed'[p] < committed[p]
                 PROVE  \E i \in Process : pc[i] = "sent" /\ pc'[i] # "sent"
                                            /\ p \in raced[i]
      OBVIOUS
    <2>1. ASSUME NEW i \in Process, CommitTransaction(i)
          PROVE  pc[i] = "sent" /\ pc'[i] # "sent" /\ p \in raced[i]
      <3>1. pc[i] = "sent" /\ pc'[i] = "polling" /\ MayCommit(i)
        BY <2>1 DEF CommitTransaction, NextBatch, MayCommit, TypeOK
      <3>2. p \in assigned[i] /\ committed'[p] = position[i][p]
        BY <2>1 DEF CommitTransaction, TypeOK
      <3>3. committed[p] \in Nat /\ position[i][p] \in Nat
        BY DEF TypeOK
      <3> QED BY <3>1, <3>2, <3>3 DEF RaceInv, Sole
    <2>2. ~UNCHANGED committed
      BY DEF TypeOK
    <2>3. ASSUME NEW i \in Process, Run(i)
          PROVE  CommitTransaction(i) \/ UNCHANGED committed
      BY <2>3 DEF Run, broker, InitTransactions, Join, PollMessage,
         PollUndecodable, BeginBatch, HandleMsg, SendOffsets, OffsetsRefused,
         Abort, Fenced, InstanceFenced, Rejoin, Exit
    <2>4. ASSUME NEW i \in Process, Fault(i)
          PROVE  UNCHANGED committed
      BY <2>4 DEF Fault, broker, Abort, Exit, AbortableError, Crash,
         TransactionTimeout
    <2>5. ASSUME NEW newOwner \in [Partition -> TxnId], Rebalance(newOwner)
          PROVE  UNCHANGED committed
      BY <2>5 DEF Rebalance, broker
    <2> QED
      BY <2>1, <2>2, <2>3, <2>4, <2>5 DEF Next
  <1> QED BY <1>1, RaceInvariant, TypeCorrect, PTL
          DEF Spec, OffsetsRegressOnlyIfRaced

-----------------------------------------------------------------------------
(* Why nothing is doubled.  Before the first rebalance such a process holds *)
(* every message at most once, each past the committed offset, and what is  *)
(* in the output lies before it.                                            *)
Window(i) ==
  \A m \in Message :
    /\ batch[i][m] + out[i][<<RouteOf(m), m>>] <= 1
    /\ m \in Held(i) => /\ m[1] \in assigned[i]
                        /\ committed[m[1]] <= m[2]
                        /\ m[2] < position[i][m[1]]

Routed(i) ==
  \A m \in Message, t \in Topic : out[i][<<t, m>>] > 0 => t = RouteOf(m)

OnceInv ==
  /\ \A i \in Process : Routed(i)
  /\ \A i \in Process :
       pc[i] \in {"down", "started"} => batch[i] = None /\ out[i] = Nothing
  /\ rebalances = 0 =>
       /\ \A i \in Process : pc[i] \notin {"down", "started"} => insync[i]
       /\ \A i \in Process : MayCommit(i) => Window(i)
       /\ \A m \in Message : Visible(m) => Consumed(m)
       /\ AtMostOnce

-----------------------------------------------------------------------------
(* Before the first rebalance nobody is raced, so two processes that may    *)
(* commit share no partition ...                                            *)
LEMMA Disjoint ==
  ASSUME RaceInv, rebalances = 0, NEW i \in Process, NEW j \in Process, i # j,
         MayCommit(i), MayCommit(j)
  PROVE  assigned[i] \cap assigned[j] = {}
  BY DEF RaceInv, Sole

(* ... and all a process has read past the committed offsets it still       *)
(* holds, or an abort dropped it.                                           *)
Covered(i) ==
  \A p \in assigned[i] :
    /\ committed[p] <= position[i][p]
    /\ \A m \in Message :
         m[1] = p /\ committed[p] <= m[2] /\ m[2] < position[i][p]
           => m \in Held(i) \cup aborted

LEMMA CoversAtOnce ==
  ASSUME TypeOK, LossInv, RaceInv, OnceInv, rebalances = 0,
         NEW i \in Process, MayCommit(i)
  PROVE  Covered(i)
  <1>1. Settled(i) /\ Sole(i) /\ assigned[i] \cap raced[i] = {}
    BY DEF LossInv, RaceInv
  <1>2. \A m \in Message : Visible(m) => m[2] < committed[m[1]]
    BY DEF OnceInv, Consumed
  <1>3. \A m \in Message : m[1] \in Partition /\ m[2] \in Nat
                            /\ committed[m[1]] \in Nat
    BY MessageShape DEF TypeOK
  <1>4. \A p \in assigned[i] : committed[p] <= position[i][p]
    BY <1>1 DEF Sole
  <1>5. ASSUME NEW m \in Message, m[1] \in assigned[i],
               committed[m[1]] <= m[2], m[2] < position[i][m[1]]
        PROVE  m \in Held(i) \cup aborted
    <2>1. ~Visible(m)
      BY <1>2, <1>3, <1>5
    <2> QED BY <1>1, <1>5, <2>1 DEF Settled
  <1> QED BY <1>4, <1>5 DEF Covered

(* OnceInv in two parts: what holds always, and what holds of a process     *)
(* before the first rebalance.                                              *)
LEMMA WindowKept ==
  ASSUME TypeOK, NEW j \in Process, Window(j),
         assigned'[j] = assigned[j], position'[j] = position[j],
         \A p \in assigned[j] : committed'[p] = committed[p],
         batch'[j] = batch[j], out'[j] = out[j]
  PROVE  Window(j)'
  BY DEF Window, Held

LEMMA EmptyWindow ==
  ASSUME NEW i \in Process, batch'[i] = None, out'[i] = Nothing
  PROVE  Window(i)' /\ Routed(i)'
  <1>1. \A m \in Message, t \in Topic : out'[i][<<t, m>>] = 0
    BY DEF Nothing, Record
  <1>2. \A m \in Message : batch'[i][m] = 0 /\ RouteOf(m) \in Topic
    BY DEF None, RouteOf, Topic
  <1>3. ASSUME NEW m \in Message, m \in Held(i)' PROVE FALSE
    <2>1. batch'[i][m] > 0 \/ \E t \in Topic : out'[i][<<t, m>>] > 0
      BY <1>3 DEF Held
    <2>2. ASSUME NEW t \in Topic, out'[i][<<t, m>>] > 0 PROVE FALSE
      <3>1. out'[i][<<t, m>>] = 0
        BY <1>1, <1>3, <2>2
      <3> QED BY <2>2, <3>1
    <2>3. ~(batch'[i][m] > 0)
      <3>1. batch'[i][m] = 0
        BY <1>2, <1>3
      <3> QED BY <3>1
    <2> QED BY <2>1, <2>2, <2>3
  <1> QED BY <1>1, <1>2, <1>3 DEF Window, Routed

(* The output is untouched.                                                 *)
LEMMA OutputKept ==
  ASSUME OnceInv, UNCHANGED <<committed, copies, rebalances>>, rebalances = 0
  PROVE  (\A m \in Message : Visible(m) => Consumed(m))' /\ AtMostOnce'
  BY DEF OnceInv, Visible, Consumed, AtMostOnce

(* Leaving the loop, or starting the next batch, empties the hands.         *)
LEMMA DropKeepsOnce ==
  ASSUME TypeOK, TypeOK', OnceInv, NEW i \in Process,
         Exit(i) \/ (pc[i] \notin {"down", "started"} /\ Abort(i))
  PROVE  OnceInv'
  <1> USE DEF Exit, Abort, NextBatch
  <1>1. /\ batch'[i] = None /\ out'[i] = Nothing
        /\ UNCHANGED <<committed, copies, epoch, rebalances, member, pepoch>>
    BY DEF TypeOK, broker, group
  <1>2. \A j \in Process : j # i =>
          /\ pc'[j] = pc[j] /\ assigned'[j] = assigned[j]
          /\ position'[j] = position[j] /\ batch'[j] = batch[j]
          /\ out'[j] = out[j] /\ insync'[j] = insync[j]
    BY DEF TypeOK
  <1>3. pc'[i] = "down" \/ (pc[i] \notin {"down", "started"} /\ insync'[i] = insync[i])
    BY DEF TypeOK
  <1> HIDE DEF Exit, Abort, NextBatch
  <1>4. \A j \in Process : Routed(j)'
    BY <1>1, <1>2, EmptyWindow DEF OnceInv, Routed
  <1>5. \A j \in Process :
          pc'[j] \in {"down", "started"} => batch'[j] = None /\ out'[j] = Nothing
    BY <1>1, <1>2 DEF OnceInv
  <1>6. ASSUME rebalances' = 0
        PROVE  /\ \A j \in Process : pc'[j] \notin {"down", "started"} => insync'[j]
               /\ \A j \in Process : MayCommit(j)' => Window(j)'
               /\ (\A m \in Message : Visible(m) => Consumed(m))' /\ AtMostOnce'
    <2>1. rebalances = 0
      BY <1>1, <1>6
    <2>2. \A j \in Process : pc'[j] \notin {"down", "started"} => insync'[j]
      BY <1>2, <1>3, <2>1 DEF OnceInv
    <2>3. ASSUME NEW j \in Process, MayCommit(j)', j # i PROVE Window(j)'
      <3>1. MayCommit(j)
        BY <1>1, <1>2, <2>3 DEF MayCommit, Unfenced, InGroup
      <3> QED BY <1>1, <1>2, <2>1, <2>3, <3>1, WindowKept DEF OnceInv
    <2> QED BY <1>1, <2>1, <2>2, <2>3, EmptyWindow, OutputKept
  <1> QED BY <1>4, <1>5, <1>6 DEF OnceInv

(* A step of i that neither touches what processes hold nor the offsets.    *)
LEMMA HandsKeptKeepsOnce ==
  ASSUME TypeOK, OnceInv,
         UNCHANGED <<committed, copies, rebalances, assigned, position, batch,
                     out>>,
         \A j \in Process : pc'[j] \in {"down", "started"}
                             => pc[j] \in {"down", "started"},
         \A j \in Process : pc'[j] \notin {"down", "started"}
                             => pc[j] \notin {"down", "started"},
         insync' = insync,
         \A j \in Process : MayCommit(j)' => MayCommit(j)
  PROVE  OnceInv'
  <1>1. \A j \in Process : Window(j)' = Window(j) /\ Routed(j)' = Routed(j)
    BY DEF Window, Routed, Held
  <1> QED BY <1>1, OutputKept DEF OnceInv

(* Every step keeps OnceInv; RaceInv keeps the windows of two committers    *)
(* apart.                                                                   *)
LEMMA OnceStep ==
  TypeOK /\ TypeOK' /\ LossInv /\ RaceInv /\ OnceInv /\ [Next]_vars => OnceInv'
  <1> USE ConstantsOK DEF ConstantsOK
  <1> SUFFICES ASSUME TypeOK, TypeOK', LossInv, RaceInv, OnceInv, [Next]_vars
               PROVE  OnceInv'
    OBVIOUS
  <1>1. ASSUME NEW i \in Process, InitTransactions(i) PROVE OnceInv'
    <2>1. ASSUME NEW j \in Process, MayCommit(j)' PROVE MayCommit(j)
      <3>1. pepoch[j] <= epoch[IdOf[j]] /\ j # i
        BY <1>1, <2>1 DEF InitTransactions, MayCommit, LossInv, Epochs, TypeOK
      <3>2. IdOf[j] # IdOf[i]
        BY <1>1, <2>1, <3>1 DEF InitTransactions, MayCommit, Unfenced, TypeOK
      <3> QED BY <1>1, <2>1, <3>1, <3>2
          DEF InitTransactions, MayCommit, Unfenced, InGroup, TypeOK, group
    <2> QED BY <1>1, <2>1, HandsKeptKeepsOnce
            DEF InitTransactions, TypeOK, broker, group
  <1>2. ASSUME NEW i \in Process, Join(i) PROVE OnceInv'
    <2>1. batch'[i] = None /\ out'[i] = Nothing
      BY <1>2 DEF Join, OnceInv
    <2>2. \A j \in Process : Routed(j)'
      BY <1>2 DEF Join, OnceInv, Routed
    <2>3. \A j \in Process :
            pc'[j] \in {"down", "started"} => batch'[j] = None /\ out'[j] = Nothing
      BY <1>2 DEF Join, OnceInv, TypeOK
    <2>4. \A j \in Process : rebalances = 0 /\ pc'[j] \notin {"down", "started"}
                              => insync'[j]
      BY <1>2 DEF Join, Assign, OnceInv, TypeOK
    <2>5. ASSUME NEW j \in Process, MayCommit(j)', rebalances = 0 PROVE Window(j)'
      <3>1. CASE j = i
        BY <2>1, <3>1, EmptyWindow
      <3>2. CASE j # i
        <4>1. MayCommit(j)
          BY <1>2, <2>5, <3>2
             DEF Join, Assign, MayCommit, Unfenced, InGroup, TypeOK
        <4> QED BY <1>2, <2>5, <3>2, <4>1, WindowKept
                DEF Join, Assign, OnceInv, TypeOK, broker
      <3> QED BY <3>1, <3>2
    <2>6. UNCHANGED <<committed, copies, rebalances>>
      BY <1>2 DEF Join, broker
    <2> QED BY <2>2, <2>3, <2>4, <2>5, <2>6, OutputKept DEF OnceInv
  <1>3. ASSUME NEW i \in Process, NEW p \in Partition, PollMessage(i, p)
        PROVE  OnceInv'
    <2> DEFINE n == <<p, position[i][p]>>
    <2>0. n \in Message /\ n[1] = p /\ n[2] = position[i][p] /\ p \in assigned[i]
      BY <1>3 DEF PollMessage
    <2>1. \A j \in Process : Routed(j)'
      BY <1>3 DEF PollMessage, OnceInv, Routed
    <2>2. batch' = [batch EXCEPT ![i][n] = @ + 1] /\ pc[i] = "polling"
      BY <1>3 DEF PollMessage
    <2> HIDE DEF n
    <2>3. \A j \in Process :
            pc'[j] \in {"down", "started"} => batch'[j] = None /\ out'[j] = Nothing
      BY <1>3, <2>2 DEF PollMessage, OnceInv, TypeOK
    <2>4. ASSUME NEW j \in Process, MayCommit(j)', rebalances = 0 PROVE Window(j)'
      <3>0. MayCommit(j)
        BY <1>3, <2>4 DEF PollMessage, MayCommit, Unfenced, InGroup, group
      <3>1. CASE j = i
        <4>1. Window(i) /\ Covered(i)
          BY <2>4, <3>0, <3>1, CoversAtOnce DEF OnceInv
        <4>2. UNCHANGED <<committed, out>> /\ assigned'[i] = assigned[i]
          BY <1>3 DEF PollMessage, broker
        <4>3. \A x \in Partition : position'[i][x] =
                 IF x = p THEN position[i][p] + 1 ELSE position[i][x]
          BY <1>3 DEF PollMessage, TypeOK
        <4>4. \A m \in Message : batch'[i][m] =
                IF m = n THEN batch[i][m] + 1 ELSE batch[i][m]
          BY <2>0, <2>2 DEF TypeOK
        <4>5. ASSUME NEW m \in Message
              PROVE  /\ batch'[i][m] + out'[i][<<RouteOf(m), m>>] <= 1
                     /\ m \in Held(i)' => /\ m[1] \in assigned'[i]
                                          /\ committed'[m[1]] <= m[2]
                                          /\ m[2] < position'[i][m[1]]
          <5>0. /\ m[1] \in Partition /\ m[2] \in Nat /\ batch[i][m] \in Nat
                /\ position[i][m[1]] \in Nat /\ committed[m[1]] \in Nat
                /\ RouteOf(m) \in Topic /\ <<RouteOf(m), m>> \in Record
            BY MessageShape, RouteIsTopic DEF TypeOK, RouteOf, Topic
          <5>1. CASE m = n
            <6>1. m \notin Held(i)
              BY <2>0, <4>1, <5>0, <5>1 DEF Window
            <6>2. batch[i][m] = 0 /\ out[i][<<RouteOf(m), m>>] = 0
              <7>1. out[i][<<RouteOf(m), m>>] \in Nat
                BY <5>0 DEF TypeOK
              <7>2. ~(batch[i][m] > 0) /\ ~(out[i][<<RouteOf(m), m>>] > 0)
                BY <5>0, <6>1 DEF Held
              <7> QED BY <5>0, <7>1, <7>2
            <6>3. committed[p] <= position[i][p]
              BY <2>0, <4>1 DEF Covered
            <6> QED BY <2>0, <4>2, <4>3, <4>4, <5>0, <5>1, <6>2, <6>3
          <5>2. CASE m # n
            <6>1. m \in Held(i)' <=> m \in Held(i)
              BY <4>2, <4>4, <5>2 DEF Held
            <6> QED BY <2>0, <4>1, <4>2, <4>3, <4>4, <5>0, <5>2, <6>1 DEF Window
          <5> QED BY <5>1, <5>2
        <4> QED BY <3>1, <4>5 DEF Window
      <3>2. CASE j # i
        BY <1>3, <2>4, <3>0, <3>2, WindowKept
           DEF PollMessage, OnceInv, TypeOK, broker
      <3> QED BY <3>1, <3>2
    <2>5. UNCHANGED <<committed, copies, rebalances, pc, insync>>
      BY <1>3 DEF PollMessage, broker, group
    <2> QED BY <2>1, <2>3, <2>4, <2>5, OutputKept DEF OnceInv
  <1>4. ASSUME NEW i \in Process, BeginBatch(i) \/ SendOffsets(i) PROVE OnceInv'
    <2>1. ASSUME NEW j \in Process, MayCommit(j)' PROVE MayCommit(j)
      BY <1>4, <2>1 DEF BeginBatch, SendOffsets, MayCommit, Unfenced, InGroup,
                        TypeOK, group
    <2> QED BY <1>4, <2>1, HandsKeptKeepsOnce
            DEF BeginBatch, SendOffsets, TypeOK, broker, group
  <1>5. ASSUME NEW i \in Process, NEW n \in Message, HandleMsg(i, n)
        PROVE  OnceInv'
    <2> DEFINE r == <<RouteOf(n), n>>
    <2>0. /\ r \in Record /\ out' = [out EXCEPT ![i][r] = @ + 1]
          /\ \A t \in Topic, m \in Message :
                <<t, m>> \in Record /\ (<<t, m>> = r <=> m = n /\ t = RouteOf(n))
      BY <1>5, RouteIsTopic DEF HandleMsg, Record
    <2> HIDE DEF r
    <2>1. \A x \in Record : out'[i][x] = IF x = r THEN out[i][x] + 1 ELSE out[i][x]
      BY <2>0 DEF TypeOK
    <2>2. \A m \in Message : batch'[i][m] =
            IF m = n THEN batch[i][m] - 1 ELSE batch[i][m]
      BY <1>5 DEF HandleMsg, TypeOK
    <2>3. \A m \in Message : batch[i][m] \in Nat /\ RouteOf(m) \in Topic
      BY DEF TypeOK, RouteOf, Topic
    <2>4. \A x \in Record : out[i][x] \in Nat
      BY DEF TypeOK
    <2>5. ASSUME NEW j \in Process PROVE Routed(j)'
      <3>1. CASE j = i
        BY <2>0, <2>1, <3>1 DEF OnceInv, Routed
      <3>2. CASE j # i
        BY <1>5, <3>2 DEF HandleMsg, OnceInv, Routed, TypeOK
      <3> QED BY <3>1, <3>2
    <2>6. \A j \in Process :
            pc'[j] \in {"down", "started"} => batch'[j] = None /\ out'[j] = Nothing
      BY <1>5 DEF HandleMsg, OnceInv, TypeOK
    <2>7. ASSUME NEW j \in Process, MayCommit(j)', rebalances = 0 PROVE Window(j)'
      <3>0. MayCommit(j)
        BY <1>5, <2>7 DEF HandleMsg, MayCommit, Unfenced, InGroup, group
      <3>1. CASE j = i
        <4>1. Window(i)
          BY <2>7, <3>0, <3>1 DEF OnceInv
        <4>2. UNCHANGED committed /\ assigned'[i] = assigned[i]
              /\ position'[i] = position[i]
          BY <1>5 DEF HandleMsg, broker
        <4>3. ASSUME NEW m \in Message
              PROVE  /\ batch'[i][m] + out'[i][<<RouteOf(m), m>>] <= 1
                     /\ m \in Held(i)' => m \in Held(i)
          <5>1. <<RouteOf(m), m>> \in Record /\ batch[i][n] > 0
            BY <1>5, RouteIsTopic DEF HandleMsg
          <5>2. CASE m = n
            BY <2>0, <2>1, <2>2, <2>3, <2>4, <4>1, <5>1, <5>2 DEF Window, Held
          <5>3. CASE m # n
            BY <2>0, <2>1, <2>2, <2>3, <2>4, <4>1, <5>1, <5>3 DEF Window, Held
          <5> QED BY <5>2, <5>3
        <4> QED BY <3>1, <4>1, <4>2, <4>3 DEF Window
      <3>2. CASE j # i
        BY <1>5, <2>7, <3>0, <3>2, WindowKept DEF HandleMsg, OnceInv, TypeOK, broker
      <3> QED BY <3>1, <3>2
    <2>8. UNCHANGED <<committed, copies, rebalances, pc, insync>>
      BY <1>5 DEF HandleMsg, broker, group
    <2> QED BY <2>5, <2>6, <2>7, <2>8, OutputKept DEF OnceInv
  <1>6. ASSUME NEW i \in Process, CommitTransaction(i) PROVE OnceInv'
    <2>0. /\ MayCommit(i)
          /\ batch'[i] = None /\ out'[i] = Nothing
          /\ UNCHANGED <<epoch, rebalances, member, pepoch, insync, assigned,
                         position>>
          /\ pc[i] = "sent" /\ pc'[i] = "polling"
      BY <1>6 DEF CommitTransaction, NextBatch, MayCommit, LossInv, TypeOK, group
    <2>1. \A j \in Process : j # i =>
            pc'[j] = pc[j] /\ batch'[j] = batch[j] /\ out'[j] = out[j]
      BY <1>6 DEF CommitTransaction, NextBatch, TypeOK
    <2>2. \A j \in Process : Routed(j)'
      BY <2>0, <2>1, EmptyWindow DEF OnceInv, Routed
    <2>3. \A j \in Process :
            pc'[j] \in {"down", "started"} => batch'[j] = None /\ out'[j] = Nothing
      BY <2>0, <2>1 DEF OnceInv
    <2>4. \A j \in Process : rebalances = 0 /\ pc'[j] \notin {"down", "started"}
                              => insync'[j]
      BY <2>0, <2>1 DEF OnceInv
    <2>5. ASSUME NEW j \in Process, MayCommit(j)', rebalances = 0 PROVE Window(j)'
      <3>1. CASE j = i
        BY <2>0, <3>1, EmptyWindow
      <3>2. CASE j # i
        <4>1. MayCommit(j)
          BY <2>0, <2>1, <2>5, <3>2 DEF MayCommit, Unfenced, InGroup
        <4>2. \A p \in assigned[j] : committed'[p] = committed[p]
          BY <1>6, <2>0, <2>5, <3>2, <4>1, Disjoint DEF CommitTransaction, TypeOK
        <4> QED BY <2>0, <2>1, <2>5, <3>2, <4>1, <4>2, WindowKept DEF OnceInv
      <3> QED BY <3>1, <3>2
    <2>6. ASSUME NEW m \in Message, rebalances = 0
          PROVE  /\ Visible(m)' => Consumed(m)'
                 /\ copies'[<<"validated", m>>] + copies'[<<"dlq", m>>] <= 1
      <3>1. Window(i) /\ Routed(i) /\ (Visible(m) => Consumed(m))
            /\ copies[<<"validated", m>>] + copies[<<"dlq", m>>] <= 1
        BY <2>0, <2>6 DEF OnceInv, AtMostOnce
      <3>2. \A t \in Topic : <<t, m>> \in Record
        BY DEF Record
      <3>3. \A t \in Topic : copies'[<<t, m>>] = copies[<<t, m>>] + out[i][<<t, m>>]
        BY <1>6, <3>2 DEF CommitTransaction
      <3>4. \A t \in Topic : copies[<<t, m>>] \in Nat /\ out[i][<<t, m>>] \in Nat
        BY <3>2 DEF TypeOK
      <3>5. m[1] \in Partition /\ m[2] \in Nat /\ committed[m[1]] \in Nat
        BY MessageShape DEF TypeOK
      <3>6. CASE m \in Held(i)
        <4>1. m[1] \in assigned[i] /\ committed[m[1]] <= m[2]
              /\ m[2] < position[i][m[1]]
          BY <3>1, <3>6 DEF Window
        <4>2. ~Visible(m)
          BY <3>1, <3>5, <4>1 DEF Consumed
        <4>3. copies[<<"validated", m>>] = 0 /\ copies[<<"dlq", m>>] = 0
          BY <3>4, <4>2 DEF Visible, Topic
        <4>4. out[i][<<"validated", m>>] + out[i][<<"dlq", m>>] <= 1
          <5>1. batch[i][m] \in Nat /\ batch[i][m] + out[i][<<RouteOf(m), m>>] <= 1
            BY <3>1 DEF Window, TypeOK
          <5>2. \A t \in Topic : t # RouteOf(m) => out[i][<<t, m>>] = 0
            BY <3>1, <3>4 DEF Routed
          <5> QED BY <3>4, <5>1, <5>2 DEF Topic, RouteOf
        <4>5. Consumed(m)'
          BY <1>6, <3>5, <4>1 DEF CommitTransaction, Consumed
        <4>6. /\ copies'[<<"validated", m>>] = out[i][<<"validated", m>>]
              /\ copies'[<<"dlq", m>>] = out[i][<<"dlq", m>>]
          BY <3>3, <3>4, <4>3 DEF Topic
        <4>7. copies'[<<"validated", m>>] + copies'[<<"dlq", m>>] <= 1
          BY <4>4, <4>6
        <4> QED BY <4>5, <4>7
      <3>7. CASE m \notin Held(i)
        <4>1. \A t \in Topic : out[i][<<t, m>>] = 0
          BY <3>4, <3>7 DEF Held
        <4>2. \A t \in Topic : copies'[<<t, m>>] = copies[<<t, m>>]
          BY <3>3, <3>4, <4>1
        <4>3. committed'[m[1]] >= committed[m[1]]
          BY <1>6, <2>0, <2>6, <3>5, CoversAtOnce
             DEF CommitTransaction, Covered, TypeOK
        <4>4. Consumed(m) => Consumed(m)'
          BY <3>5, <4>3 DEF Consumed, TypeOK
        <4>5. Visible(m)' <=> Visible(m)
          BY <4>2 DEF Visible
        <4>6. /\ copies'[<<"validated", m>>] = copies[<<"validated", m>>]
              /\ copies'[<<"dlq", m>>] = copies[<<"dlq", m>>]
          BY <4>2 DEF Topic
        <4>7. Visible(m)' => Consumed(m)'
          BY <3>1, <4>4, <4>5, Zenon
        <4>8. copies'[<<"validated", m>>] + copies'[<<"dlq", m>>] <= 1
          BY <3>1, <4>6
        <4> QED BY <4>7, <4>8
      <3> QED BY <3>6, <3>7
    <2> QED BY <2>0, <2>2, <2>3, <2>4, <2>5, <2>6 DEF OnceInv, AtMostOnce
  <1>7. ASSUME NEW i \in Process,
               Exit(i) \/ (pc[i] \notin {"down", "started"} /\ Abort(i))
        PROVE  OnceInv'
    BY <1>7, DropKeepsOnce
  <1>8. ASSUME NEW i \in Process, Rejoin(i) PROVE OnceInv'
    <2>1. rebalances # 0 /\ rebalances' # 0
      BY <1>8 DEF Rejoin, OnceInv, group
    <2> QED BY <1>8, <2>1 DEF Rejoin, OnceInv, Routed
  <1>9. ASSUME NEW i \in Process, TransactionTimeout(i) PROVE OnceInv'
    <2>1. ASSUME NEW j \in Process, MayCommit(j)' PROVE MayCommit(j)
      <3>1. pepoch[j] <= epoch[IdOf[j]] /\ pepoch'[j] = pepoch[j]
        BY <1>9 DEF TransactionTimeout, LossInv, Epochs, process
      <3>2. IdOf[j] # IdOf[i]
        BY <1>9, <2>1, <3>1 DEF TransactionTimeout, MayCommit, Unfenced, TypeOK
      <3> QED BY <1>9, <2>1, <3>2 DEF TransactionTimeout, MayCommit, Unfenced,
                 InGroup, TypeOK, group, process
    <2> QED BY <1>9, <2>1, HandsKeptKeepsOnce
            DEF TransactionTimeout, broker, group, process
  <1>10. ASSUME NEW newOwner \in [Partition -> TxnId], Rebalance(newOwner)
         PROVE  OnceInv'
    <2>1. rebalances' # 0
      BY <1>10 DEF Rebalance, TypeOK
    <2> QED BY <1>10, <2>1 DEF Rebalance, OnceInv, Routed
  <1>11. ASSUME UNCHANGED vars PROVE OnceInv'
    <2>1. \A j \in Process : MayCommit(j)' = MayCommit(j)
      BY <1>11 DEF vars, broker, group, process, MayCommit, Unfenced, InGroup
    <2> QED BY <1>11, <2>1, HandsKeptKeepsOnce
            DEF vars, broker, group, process
  <1> QED
    BY <1>1, <1>2, <1>3, <1>4, <1>5, <1>6, <1>7, <1>8, <1>9, <1>10, <1>11
       DEF Next, Run, Fault, PollUndecodable, OffsetsRefused, Fenced,
           InstanceFenced, AbortableError, Crash

LEMMA OnceInvariant == Spec => []OnceInv
  <1>1. Init => OnceInv
    <2> SUFFICES ASSUME Init PROVE OnceInv
      OBVIOUS
    <2>1. \A t \in Topic, m \in Message : <<t, m>> \in Record
      BY DEF Record
    <2> QED BY <2>1 DEF Init, OnceInv, Routed, MayCommit, Visible, AtMostOnce,
               None, Nothing, Topic
  <1> QED BY <1>1, OnceStep, LossInvariant, RaceInvariant, TypeCorrect, PTL
          DEF Spec

(* While the assignment stands, no message has two records in the output:   *)
(* crashes, replays, aborts and stalled predecessors notwithstanding.       *)
THEOREM NothingTwice == Spec => []AtMostOnce
  <1>1. OnceInv => AtMostOnce
    BY DEF OnceInv, AtMostOnce
  <1> QED BY <1>1, OnceInvariant, PTL

-----------------------------------------------------------------------------
(* AtomicRelay: the abstract relay the validator implements as long as its  *)
(* partitions are not reassigned.                                           *)

(* The two modules agree on what a message, a record and a route are.       *)
LEMMA SameVocabulary ==
  /\ Relay!Message = Message
  /\ Relay!Topic = Topic
  /\ Relay!Record = Record
  /\ \A m : Relay!RouteOf(m) = RouteOf(m)
  BY DEF Relay!Message, Message, Relay!Topic, Topic, Relay!Record, Record,
         Relay!RouteOf, RouteOf

(* A bound of zero leaves the assignment alone.                             *)
LEMMA NoRebalance == MaxRebalance = 0 => (Spec => [](rebalances = 0))
  <1> SUFFICES ASSUME MaxRebalance = 0 PROVE Spec => [](rebalances = 0)
    OBVIOUS
  <1>1. Init => rebalances = 0
    BY DEF Init
  <1>2. rebalances = 0 /\ [Next]_vars => (rebalances = 0)'
    <2> SUFFICES ASSUME rebalances = 0, [Next]_vars PROVE (rebalances = 0)'
      OBVIOUS
    <2>1. \A newOwner : ~Rebalance(newOwner)
      BY DEF Rebalance
    <2>2. ASSUME NEW i \in Process, Run(i) \/ Fault(i) PROVE UNCHANGED rebalances
      BY <2>2 DEF Run, Fault, InitTransactions, Join, PollMessage,
           PollUndecodable, BeginBatch, HandleMsg, SendOffsets,
           CommitTransaction, OffsetsRefused, Abort, Fenced, InstanceFenced,
           Rejoin, AbortableError, Crash, TransactionTimeout, Exit, group
    <2>3. CASE UNCHANGED vars
      BY <2>3 DEF vars, group
    <2> QED BY <2>1, <2>2, <2>3 DEF Next
  <1> QED BY <1>1, <1>2, PTL DEF Spec

(* Only a commit touches the output or the offsets, and only an abort adds  *)
(* to the aborted messages.                                                 *)
LEMMA QuietStep ==
  ASSUME [Next]_vars, \A i \in Process : ~CommitTransaction(i)
  PROVE  /\ UNCHANGED <<committed, copies>>
         /\ aborted \subseteq aborted'
  <1>1. ASSUME NEW i \in Process, Run(i) \/ Fault(i)
        PROVE  UNCHANGED <<committed, copies>> /\ aborted \subseteq aborted'
    BY <1>1 DEF Run, Fault, InitTransactions, Join, PollMessage,
         PollUndecodable, BeginBatch, HandleMsg, SendOffsets,
         OffsetsRefused, Abort, Fenced, InstanceFenced,
         Rejoin, AbortableError, Crash, TransactionTimeout, Exit, broker
  <1>2. ASSUME NEW newOwner, Rebalance(newOwner)
        PROVE  UNCHANGED <<committed, copies>> /\ aborted \subseteq aborted'
    BY <1>2 DEF Rebalance, broker
  <1>3. CASE UNCHANGED vars
    BY <1>3 DEF vars, broker
  <1> QED BY <1>1, <1>2, <1>3 DEF Next

(* A committed transaction is one batch of the abstract relay: it holds the *)
(* whole stretch between the old and the new offsets, but for what the      *)
(* process itself aborted, once and on the right route.                     *)
LEMMA CommitIsRelayBatch ==
  ASSUME TypeOK, LossInv, RaceInv, OnceInv, rebalances = 0,
         NEW i \in Process, CommitTransaction(i)
  PROVE  Relay!RelayBatch
  <1> DEFINE left == Relay!Stretch \ Held(i)
  <1>1. /\ Covered(i) /\ Window(i) /\ Routed(i) /\ batch[i] = None
        /\ \A p \in assigned[i] : p \in Partition
    BY CoversAtOnce DEF CommitTransaction, MayCommit, LossInv, OnceInv, TypeOK
  <1>2. \A p \in Partition : /\ committed[p] \in Nat
                             /\ p \in assigned[i] => committed'[p] = position[i][p]
                             /\ p \notin assigned[i] => committed'[p] = committed[p]
    BY DEF CommitTransaction, TypeOK
  <1>3. \A p \in Partition : committed[p] <= committed'[p]
    BY <1>1, <1>2 DEF Covered
  <1>4. \A m \in Message : m \in Relay!Stretch <=>
           /\ m[1] \in assigned[i]
           /\ committed[m[1]] <= m[2] /\ m[2] < position[i][m[1]]
    BY <1>2, MessageShape, SameVocabulary DEF Relay!Stretch
  <1>5. \A m \in Held(i) : m \in Relay!Stretch
    BY <1>1, <1>4 DEF Window, Held
  <1>6. left \in SUBSET (Relay!Stretch \cap aborted)
    <2>1. \A m \in Relay!Stretch : m \in Held(i) \cup aborted
      BY <1>1, <1>4, SameVocabulary DEF Covered, Relay!Stretch
    <2> QED BY <2>1
  <1>7. \A r \in Record : copies'[r] = copies[r] +
           (IF r[2] \in Relay!Stretch \ left /\ r[1] = RouteOf(r[2]) THEN 1 ELSE 0)
    <2> SUFFICES ASSUME NEW m \in Message, NEW t \in Topic
                 PROVE  out[i][<<t, m>>] =
                          IF m \in Held(i) /\ t = RouteOf(m) THEN 1 ELSE 0
      <3>1. \A r \in Record : /\ copies'[r] = copies[r] + out[i][r]
                              /\ r = <<r[1], r[2]>>
                              /\ r[1] \in Topic /\ r[2] \in Message
        BY DEF CommitTransaction, Record
      <3>2. \A m \in Message : m \in Relay!Stretch \ left <=> m \in Held(i)
        BY <1>5
      <3> QED BY <3>1, <3>2
    <2>1. /\ \A s \in Topic : out[i][<<s, m>>] \in Nat
          /\ batch[i][m] = 0
          /\ RouteOf(m) \in Topic
      BY <1>1 DEF TypeOK, Record, None, RouteOf, Topic
    <2>2. out[i][<<RouteOf(m), m>>] <= 1
      BY <1>1, <2>1 DEF Window
    <2>3. t # RouteOf(m) => out[i][<<t, m>>] = 0
      BY <1>1, <2>1 DEF Routed
    <2>4. m \notin Held(i) => out[i][<<t, m>>] = 0
      BY <2>1 DEF Held
    <2>5. m \in Held(i) => out[i][<<RouteOf(m), m>>] > 0
      <3>1. m \in Held(i) => \E s \in Topic : out[i][<<s, m>>] > 0
        BY <2>1 DEF Held
      <3> QED BY <1>1, <3>1 DEF Routed
    <2> QED BY <2>1, <2>2, <2>3, <2>4, <2>5
  <1>8. UNCHANGED aborted
    BY DEF CommitTransaction
  <1>9. copies' = [r \in Record |-> copies[r] +
           (IF r[2] \in Relay!Stretch \ left /\ r[1] = RouteOf(r[2]) THEN 1 ELSE 0)]
    <2>1. copies' = [r \in Record |-> copies'[r]]
      BY DEF CommitTransaction
    <2> QED BY <1>7, <2>1
  <1> HIDE DEF left
  <1> QED BY <1>3, <1>6, <1>8, <1>9, SameVocabulary DEF Relay!RelayBatch

(* Outputs and offsets move as AtomicRelay promises: together, over a       *)
(* stretch nobody covered before, one record per message.                   *)
THEOREM RelaysAtomically ==
  MaxRebalance = 0 => (Spec => AtomicallyRelayed)
  <1> SUFFICES ASSUME MaxRebalance = 0 PROVE Spec => AtomicallyRelayed
    OBVIOUS
  <1>1. Init => Relay!Init
    BY SameVocabulary DEF Init, Relay!Init, Nothing
  <1>2. TypeOK /\ LossInv /\ RaceInv /\ OnceInv /\ rebalances = 0 /\ [Next]_vars
          => [Relay!Next]_<<committed, copies, aborted>>
    <2> SUFFICES ASSUME TypeOK, LossInv, RaceInv, OnceInv, rebalances = 0,
                        [Next]_vars
                 PROVE  [Relay!Next]_<<committed, copies, aborted>>
      OBVIOUS
    <2>1. CASE \E i \in Process : CommitTransaction(i)
      BY <2>1, CommitIsRelayBatch DEF Relay!Next
    <2>2. CASE \A i \in Process : ~CommitTransaction(i)
      BY <2>2, QuietStep DEF Relay!Next, Relay!AbortBatch
    <2> QED BY <2>1, <2>2
  <1>3. Spec => [](rebalances = 0)
    BY NoRebalance
  <1> QED BY <1>1, <1>2, <1>3, TypeCorrect, LossInvariant, RaceInvariant,
             OnceInvariant, PTL
          DEF Spec, AtomicallyRelayed, Relay!Spec
=============================================================================
