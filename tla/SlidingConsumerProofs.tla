-------------------------- MODULE SlidingConsumerProofs -------------------------
(***************************************************************************)
(* For any group, any partitions and any bounds: what the loop of the      *)
(* sliding-features processes folds, outputs and caches is right, whatever *)
(* crashes, aborts and moves of partitions come between.                   *)
(***************************************************************************)
EXTENDS SlidingConsumer, FiniteSetTheorems, TLAPS

(* Nothing is committed that is not in the log yet, a batch can be counted, *)
(* and only a member of the group has partitions.                           *)
Shape ==
  /\ \A p \in Partition : committed[p] # None => committed[p] <= end[p]
  /\ \A c \in Proc : IsFiniteSet(batch[c])
  /\ DOMAIN pending = Proc

TypeInv == TypeOK /\ Shape

(* Messages read since the process got their partition.                     *)
Has(c, m) == panes[c][m] > 0 \/ m \in batch[c]

Within(c, m) ==
  /\ m[1] \in Assigned(c)
  /\ from[c][m[1]] <= m[2] /\ m[2] < pos[c][m[1]]

(* What a process has of a message comes from this assignment, and once: it *)
(* is in the panes or in the batch; except for messages that were in a      *)
(* batch when their partition left.                                         *)
ReadOnce(c) ==
  \A m \in Message \ straddled :
    /\ Has(c, m) => Within(c, m)
    /\ ~(panes[c][m] > 0 /\ m \in batch[c])
    /\ panes[c][m] <= 1

(* The records of an iteration show what the panes hold, and the mode       *)
(* decides where a process goes.                                            *)
Shown(c) ==
  /\ pc[c] \in {"down", "poll"} => InHand(c) = {}
  /\ \A p \in InHand(c), m \in Message : pending[c][p][m] > 0 => panes[c][m] > 0
  /\ pc[c] = "commit" => eos
  /\ pc[c] = "publish" => ~eos

(* The coordinator's view and the members' agree on a generation.           *)
Membership(c) ==
  /\ joined[c] = None => Assigned(c) = {}
  /\ joined[c] # None => joined[c] <= gen
  /\ \A p \in Assigned(c) : joined[c] = gen => owner[p] = c

(* Where a process is between its two stores.                               *)
Midway == IF eos THEN "cache" ELSE "publish"

(* A partition with anything in hand is the process's own, and its record   *)
(* between the stores is the one the first of them shows.                   *)
Halfway(c) ==
  /\ \A m \in Message : Has(c, m) /\ m[1] \notin torn => m[1] \in Assigned(c)
  /\ \A p \in InHand(c) \ torn :
       /\ p \in Assigned(c)
       /\ pc[c] = Midway =>
            /\ joined[c] = gen
            /\ pending[c][p] = IF eos THEN topic[p] ELSE redis[p]

Agree ==
  \A p \in Partition \ torn :
    \/ redis[p] = topic[p]
    \/ \E c \in Proc : p \in InHand(c) /\ pc[c] = Midway

-----------------------------------------------------------------------------
LEMMA ConstantFacts ==
  /\ MaxLength \in Nat /\ MaxBatch \in Nat /\ MaxBatch > 0
  /\ MaxFaults \in Nat /\ MaxMoves \in Nat
  /\ FirstOwner \in [Partition -> Proc]
  /\ \A i \in Int : i # None
BY ConstantsOK

LEMMA MessageShape ==
  /\ \A m \in Message : /\ m[1] \in Partition /\ m[2] \in 0 .. MaxLength - 1
                        /\ m[2] \in Nat /\ m = <<m[1], m[2]>>
  /\ \A p \in Partition, i \in 0 .. MaxLength - 1 : <<p, i>> \in Message
BY ConstantFacts DEF Message

LEMMA RecordShape ==
  /\ NoRecord \in Record
  /\ NoOffsets \in [Partition -> Offset \cup {None}]
  /\ DOMAIN NoPending = {}
  /\ \A p \in Partition : NoOffsets[p] = None
  /\ \A m \in Message : NoRecord[m] = 0
<1>1. DOMAIN NoPending = {}
  BY DEF NoPending
<1>2. NoRecord \in Record /\ \A m \in Message : NoRecord[m] = 0
  BY DEF NoRecord, Record
<1>3. /\ NoOffsets \in [Partition -> Offset \cup {None}]
      /\ \A p \in Partition : NoOffsets[p] = None
  BY DEF NoOffsets
<1> QED
  BY <1>1, <1>2, <1>3

LEMMA InitTyped == Init => TypeInv
<1> SUFFICES ASSUME Init PROVE TypeInv
  OBVIOUS
<1>1. Cardinality({}) = 0 /\ IsFiniteSet({})
  BY FS_EmptySet
<1>2. 0 \in Offset
  BY ConstantFacts DEF Offset
<1>3. /\ end \in [Partition -> Offset] /\ hour \in [Partition -> Offset]
      /\ \A p \in Partition : hour[p] <= end[p]
      /\ committed \in [Partition -> Offset \cup {None}]
      /\ \A p \in Partition : committed[p] = None
  BY <1>2, RecordShape DEF Init
<1>4. /\ gen \in Nat /\ owner \in [Partition -> Proc]
      /\ joined \in [Proc -> Nat \cup {None}]
      /\ pc \in [Proc -> {"down", "poll", "commit", "cache", "publish"}]
      /\ eos \in BOOLEAN /\ faults \in 0 .. MaxFaults
  BY ConstantFacts DEF Init
<1>5. /\ from \in [Proc -> [Partition -> Offset \cup {None}]]
      /\ pos \in [Proc -> [Partition -> Offset \cup {None}]]
      /\ \A c \in Proc, p \in Partition :
           /\ (from[c][p] = None) = (pos[c][p] = None)
           /\ pos[c][p] # None => from[c][p] <= pos[c][p] /\ pos[c][p] <= end[p]
  BY RecordShape DEF Init
<1>6. /\ batch \in [Proc -> SUBSET Message]
      /\ \A c \in Proc : batch[c] = {}
      /\ panes \in [Proc -> Record]
  BY RecordShape DEF Init
<1>7. \A c \in Proc : Cardinality(batch[c]) <= IF eos THEN MaxBatch ELSE 1
  BY <1>1, <1>6, ConstantFacts
<1>8. /\ DOMAIN pending = Proc
      /\ \A c \in Proc : DOMAIN pending[c] = {}
  BY RecordShape DEF Init
<1>9. topic \in [Partition -> Record] /\ redis \in [Partition -> Record]
  BY RecordShape DEF Init
<1>10. /\ cold \subseteq Proc /\ torn \subseteq Partition
       /\ straddled \subseteq Message /\ skipped \subseteq Message /\ read \subseteq Message
  BY DEF Init
<1>11. TypeOK
  BY <1>3, <1>4, <1>5, <1>6, <1>7, <1>8, <1>9, <1>10 DEF TypeOK
<1> QED
  BY <1>1, <1>3, <1>6, <1>8, <1>11 DEF TypeInv, Shape

(* What is counted of the messages that were folded and are in the batch.   *)
Folded(c) == [m \in Message |-> panes[c][m] + IF m \in batch[c] THEN 1 ELSE 0]

OfPartition(c, p) == [m \in Message |-> IF m[1] = p THEN Folded(c)[m] ELSE 0]

LEMMA FoldedShape ==
  ASSUME TypeInv, NEW c \in Proc
  PROVE  /\ Folded(c) \in Record
         /\ \A p \in Partition : OfPartition(c, p) \in Record
         /\ \A m \in Message : Folded(c)[m] > 0 <=> Has(c, m)
<1>1. \A m \in Message : panes[c][m] \in Nat
  BY DEF TypeInv, TypeOK, Record
<1>2. \A m \in Message :
        /\ Folded(c)[m] = panes[c][m] + IF m \in batch[c] THEN 1 ELSE 0
        /\ Folded(c)[m] \in Nat
  BY <1>1 DEF Folded
<1>3. Folded(c) \in Record
  BY <1>1 DEF Folded, Record
<1>4. \A p \in Partition : OfPartition(c, p) \in Record
  BY <1>2 DEF OfPartition, Record
<1>5. \A m \in Message : Folded(c)[m] > 0 <=> Has(c, m)
  BY <1>1, <1>2 DEF Has
<1> QED
  BY <1>3, <1>4, <1>5

(* Offsets to be committed are in the log.                                  *)
LEMMA PositionsShape ==
  ASSUME TypeInv, NEW c \in Proc
  PROVE  /\ Positions(c) \in [Partition -> Offset \cup {None}]
         /\ \A p \in Partition : Positions(c)[p] # None => Positions(c)[p] <= end[p]
BY DEF TypeInv, TypeOK, Shape, Positions

LEMMA LatestShape ==
  ASSUME NEW store \in [Partition -> Record], NEW records,
         \A p \in DOMAIN records : records[p] \in Record
  PROVE  Latest(store, records) \in [Partition -> Record]
BY DEF Latest

-----------------------------------------------------------------------------
(* A batch stays, or is emptied.                                            *)
LEMMA BatchTyped ==
  ASSUME TypeInv, UNCHANGED eos,
         \A j \in Proc : batch'[j] = {} \/ batch'[j] = batch[j]
  PROVE  \A j \in Proc : /\ Cardinality(batch'[j]) <= IF eos THEN MaxBatch ELSE 1
                         /\ IsFiniteSet(batch'[j])
<1> SUFFICES ASSUME NEW j \in Proc
             PROVE  /\ Cardinality(batch'[j]) <= IF eos THEN MaxBatch ELSE 1
                    /\ IsFiniteSet(batch'[j])
  OBVIOUS
<1>1. Cardinality({}) = 0 /\ IsFiniteSet({})
  BY FS_EmptySet
<1>2. 0 <= MaxBatch /\ 0 <= 1
  BY ConstantFacts
<1>3. CASE batch'[j] = {}
  BY <1>1, <1>2, <1>3
<1>4. CASE batch'[j] = batch[j]
  BY <1>4 DEF TypeInv, TypeOK, Shape
<1> QED
  BY <1>3, <1>4

(* What the end of a process leaves well typed.                             *)
LEMMA ForgetTyped ==
  ASSUME TypeInv, NEW c \in Proc, Forget(c),
         UNCHANGED committed \/ committed' = Positions(c),
         UNCHANGED topic, faults' \in 0 .. MaxFaults, torn' \subseteq Partition
  PROVE  TypeInv'
<1>1. /\ committed' \in [Partition -> Offset \cup {None}]
      /\ \A p \in Partition : committed'[p] # None => committed'[p] <= end[p]
  BY PositionsShape DEF TypeInv, TypeOK, Shape
<1>2. /\ from' \in [Proc -> [Partition -> Offset \cup {None}]]
      /\ pos' \in [Proc -> [Partition -> Offset \cup {None}]]
      /\ \A j \in Proc, p \in Partition :
           /\ (from'[j][p] = None) = (pos'[j][p] = None)
           /\ pos'[j][p] # None => from'[j][p] <= pos'[j][p] /\ pos'[j][p] <= end[p]
  BY RecordShape DEF Forget, TypeInv, TypeOK
<1>3. /\ batch' \in [Proc -> SUBSET Message]
      /\ \A j \in Proc : batch'[j] = {} \/ batch'[j] = batch[j]
  BY DEF Forget, TypeInv, TypeOK
<1>4. /\ \A j \in Proc : Cardinality(batch'[j]) <= IF eos THEN MaxBatch ELSE 1
      /\ \A j \in Proc : IsFiniteSet(batch'[j])
  BY <1>3, BatchTyped DEF Forget
<1>5. panes' \in [Proc -> Record]
  BY RecordShape DEF Forget, TypeInv, TypeOK
<1>6. /\ DOMAIN pending' = Proc
      /\ \A j \in Proc : /\ DOMAIN pending'[j] \subseteq Partition
                         /\ \A p \in DOMAIN pending'[j] : pending'[j][p] \in Record
  <2>1. DOMAIN pending' = Proc
    BY DEF Forget, TypeInv, Shape
  <2>2. \A j \in Proc : pending'[j] = NoPending \/ pending'[j] = pending[j]
    BY DEF Forget, TypeInv, Shape
  <2> QED
    BY <2>1, <2>2, RecordShape DEF TypeInv, TypeOK
<1>7. /\ joined' \in [Proc -> Nat \cup {None}]
      /\ pc' \in [Proc -> {"down", "poll", "commit", "cache", "publish"}]
  BY DEF Forget, TypeInv, TypeOK
<1>8. UNCHANGED <<eos, end, hour, gen, owner, redis, cold, straddled, skipped, read>>
  BY DEF Forget, log, group
<1>9. TypeOK'
  BY <1>1, <1>2, <1>3, <1>4, <1>5, <1>6, <1>7, <1>8 DEF TypeInv, TypeOK
<1>10. Shape'
  BY <1>1, <1>4, <1>6, <1>8 DEF Shape
<1> QED
  BY <1>9, <1>10 DEF TypeInv

(* Groups of conjuncts of TypeInv that an action disturbs or leaves alone.  *)
LEMMA RestTyped ==
  ASSUME TypeInv, UNCHANGED <<eos, end, hour, gen, owner, from, pos, batch>>,
         committed' \in [Partition -> Offset \cup {None}],
         \A p \in Partition : committed'[p] # None => committed'[p] <= end[p],
         joined' \in [Proc -> Nat \cup {None}],
         pc' \in [Proc -> {"down", "poll", "commit", "cache", "publish"}],
         panes' \in [Proc -> Record], DOMAIN pending' = Proc,
         \A j \in Proc : /\ DOMAIN pending'[j] \subseteq Partition
                         /\ \A p \in DOMAIN pending'[j] : pending'[j][p] \in Record,
         topic' \in [Partition -> Record], redis' \in [Partition -> Record],
         faults' \in 0 .. MaxFaults, cold' \subseteq Proc, torn' \subseteq Partition,
         straddled' \subseteq Message, skipped' \subseteq Message, read' \subseteq Message
  PROVE  TypeInv'
<1>1. TypeOK'
  BY DEF TypeInv, TypeOK
<1>2. Shape'
  BY DEF TypeInv, Shape
<1> QED
  BY <1>1, <1>2 DEF TypeInv

LEMMA StoreTyped ==
  ASSUME TypeInv, NEW c \in Proc, CommitTransaction(c) \/ WriteRedis(c) \/ Publish(c)
  PROVE  TypeInv'
<1>1. /\ \A j \in Proc : DOMAIN pending[j] \subseteq Partition
      /\ \A j \in Proc : \A p \in DOMAIN pending[j] : pending[j][p] \in Record
      /\ topic \in [Partition -> Record] /\ redis \in [Partition -> Record]
      /\ committed \in [Partition -> Offset \cup {None}]
      /\ \A p \in Partition : committed[p] # None => committed[p] <= end[p]
      /\ torn \subseteq Partition /\ faults \in 0 .. MaxFaults
      /\ panes \in [Proc -> Record] /\ joined \in [Proc -> Nat \cup {None}]
      /\ pc \in [Proc -> {"down", "poll", "commit", "cache", "publish"}]
      /\ cold \subseteq Proc /\ straddled \subseteq Message /\ skipped \subseteq Message
      /\ read \subseteq Message
  BY DEF TypeInv, TypeOK, Shape
<1>2. /\ committed' = committed \/ committed' = Positions(c)
      /\ topic' = topic \/ topic' = Latest(topic, pending[c])
      /\ redis' = redis \/ redis' = Latest(redis, pending[c])
      /\ pending' = pending \/ pending' = [pending EXCEPT ![c] = NoPending]
      /\ torn' = torn \/ torn' = torn \cup InHand(c)
      /\ faults' = faults \/ (faults < MaxFaults /\ faults' = faults + 1)
      /\ \E s \in {"poll", "cache", "publish"} : pc' = [pc EXCEPT ![c] = s]
      /\ UNCHANGED <<eos, end, hour, gen, owner, joined, from, pos, batch, panes,
                     cold, straddled, skipped, read>>
  <2>1. CASE CommitTransaction(c)
    BY <2>1 DEF CommitTransaction, log, group, inputs, ghosts
  <2>2. CASE WriteRedis(c)
    BY <2>2 DEF WriteRedis, log, group, inputs
  <2>3. CASE Publish(c)
    BY <2>3 DEF Publish, log, group, inputs
  <2> QED
    BY <2>1, <2>2, <2>3
<1>3. /\ committed' \in [Partition -> Offset \cup {None}]
      /\ \A p \in Partition : committed'[p] # None => committed'[p] <= end[p]
  BY <1>1, <1>2, PositionsShape
<1>4. /\ topic' \in [Partition -> Record] /\ redis' \in [Partition -> Record]
  BY <1>1, <1>2, LatestShape
<1>5. /\ DOMAIN pending' = Proc
      /\ \A j \in Proc : pending'[j] = NoPending \/ pending'[j] = pending[j]
  BY <1>2 DEF TypeInv, Shape
<1>6. \A j \in Proc : /\ DOMAIN pending'[j] \subseteq Partition
                      /\ \A p \in DOMAIN pending'[j] : pending'[j][p] \in Record
  BY <1>1, <1>5, RecordShape
<1>7. torn' \subseteq Partition
  BY <1>1, <1>2 DEF InHand
<1>8. /\ faults' \in 0 .. MaxFaults
      /\ pc' \in [Proc -> {"down", "poll", "commit", "cache", "publish"}]
  BY <1>1, <1>2, ConstantFacts
<1> QED
  BY <1>1, <1>2, <1>3, <1>4, <1>5, <1>6, <1>7, <1>8, RestTyped

LEMMA FoldTyped ==
  ASSUME TypeInv, NEW c \in Proc, Fold(c)
  PROVE  TypeInv'
<1>1. PICK due \in SUBSET Partition :
        /\ panes' = [panes EXCEPT ![c] = Folded(c)]
        /\ pending' = [pending EXCEPT ![c] = [p \in due |-> OfPartition(c, p)]]
        /\ batch' = [batch EXCEPT ![c] = {}]
        /\ pc' = [pc EXCEPT ![c] = IF eos THEN "commit" ELSE "cache"]
        /\ read' = read \cup batch[c]
        /\ UNCHANGED <<eos, log, committed, group, joined, from, pos, topic,
                       redis, faults, cold, straddled, torn, skipped>>
  BY DEF Fold, Folded, OfPartition
<1>2. /\ panes' \in [Proc -> Record] /\ DOMAIN pending' = Proc
  BY <1>1, FoldedShape DEF TypeInv, TypeOK, Shape
<1>3. \A j \in Proc : /\ DOMAIN pending'[j] \subseteq Partition
                      /\ \A p \in DOMAIN pending'[j] : pending'[j][p] \in Record
  BY <1>1, FoldedShape DEF TypeInv, TypeOK, Shape
<1>4. /\ batch' \in [Proc -> SUBSET Message]
      /\ \A j \in Proc : batch'[j] = {} \/ batch'[j] = batch[j]
  BY <1>1 DEF TypeInv, TypeOK
<1>5. /\ \A j \in Proc : Cardinality(batch'[j]) <= IF eos THEN MaxBatch ELSE 1
      /\ \A j \in Proc : IsFiniteSet(batch'[j])
  BY <1>1, <1>4, BatchTyped
<1>6. /\ pc' \in [Proc -> {"down", "poll", "commit", "cache", "publish"}]
      /\ read' \subseteq Message
  BY <1>1 DEF TypeInv, TypeOK
<1>7. UNCHANGED <<eos, end, hour, committed, gen, owner, joined, from, pos, topic,
                  redis, faults, cold, straddled, torn, skipped>>
  BY <1>1 DEF log, group
<1>8. TypeOK'
  BY <1>2, <1>3, <1>4, <1>5, <1>6, <1>7 DEF TypeInv, TypeOK
<1>9. Shape'
  BY <1>2, <1>5, <1>7 DEF TypeInv, Shape
<1> QED
  BY <1>8, <1>9 DEF TypeInv

LEMMA RevokeTyped ==
  ASSUME TypeInv, NEW c \in Proc, Revoke(c)
  PROVE  TypeInv'
<1>1. DropPartitions(c, Assigned(c)) \in Record
  <2>1. \A m \in Message : panes[c][m] \in Nat
    BY DEF TypeInv, TypeOK, Record
  <2> QED
    BY <2>1 DEF DropPartitions, Record
<1>2. panes' \in [Proc -> Record] /\ joined' \in [Proc -> Nat \cup {None}]
  BY <1>1 DEF Revoke, TypeInv, TypeOK
<1>3. /\ from' \in [Proc -> [Partition -> Offset \cup {None}]]
      /\ pos' \in [Proc -> [Partition -> Offset \cup {None}]]
      /\ \A j \in Proc, p \in Partition :
           /\ (from'[j][p] = None) = (pos'[j][p] = None)
           /\ pos'[j][p] # None => from'[j][p] <= pos'[j][p] /\ pos'[j][p] <= end[p]
  BY RecordShape DEF Revoke, TypeInv, TypeOK
<1>4. straddled' \subseteq Message /\ torn' \subseteq Partition
  BY MessageShape DEF Revoke, TypeInv, TypeOK
<1>5. UNCHANGED <<eos, end, hour, committed, gen, owner, batch, pc, pending, topic,
                  redis, faults, cold, skipped, read>>
  BY DEF Revoke, log, group
<1>6. TypeOK'
  BY <1>2, <1>3, <1>4, <1>5 DEF TypeInv, TypeOK
<1>7. Shape'
  BY <1>5 DEF TypeInv, Shape
<1> QED
  BY <1>6, <1>7 DEF TypeInv

(* Where a process begins to read a partition it is given: inside the log,  *)
(* and not before the hour unless the lookup failed.                        *)
Begin(p, found) == IF found THEN SeekBack(p) ELSE Resume(p)

LEMMA BeginShape ==
  ASSUME TypeInv, hour' \in [Partition -> Offset],
         NEW p \in Partition, NEW found \in BOOLEAN, hour'[p] <= end[p]
  PROVE  /\ Begin(p, found) \in Offset /\ Begin(p, found) <= end[p]
         /\ found => Begin(p, found) <= hour'[p]
BY ConstantFacts DEF TypeInv, TypeOK, Shape, Begin, SeekBack, Resume, HourAgo, Offset

(* What it jumps over.                                                      *)
Jumped(p, found) ==
  IF found /\ HourAgo(p) >= 0
    THEN Between(p, IF committed[p] = None THEN 0 ELSE committed[p], HourAgo(p))
  ELSE IF committed[p] = None THEN Between(p, 0, end[p])
  ELSE {}

LEMMA JumpedShape ==
  ASSUME TypeInv, hour' \in [Partition -> Offset],
         NEW p \in Partition, NEW found \in BOOLEAN
  PROVE  Jumped(p, found) \subseteq Message
<1>1. /\ end[p] \in 0 .. MaxLength /\ hour'[p] \in 0 .. MaxLength
      /\ committed[p] \in (0 .. MaxLength) \cup {None}
  BY DEF TypeInv, TypeOK, Offset
<1>2. ASSUME NEW a \in Nat, NEW b \in 0 .. MaxLength
      PROVE  Between(p, a, b) \subseteq Message
  <2>1. a .. b - 1 \subseteq 0 .. MaxLength - 1
    BY <1>2, ConstantFacts
  <2> QED
    BY <2>1, MessageShape DEF Between
<1>3. HourAgo(p) >= 0 => HourAgo(p) \in 0 .. MaxLength
  BY <1>1 DEF HourAgo
<1> QED
  BY <1>1, <1>2, <1>3, ConstantFacts DEF Jumped

LEMMA AssignTyped ==
  ASSUME TypeInv, NEW c \in Proc, Assign(c)
  PROVE  TypeInv'
<1> DEFINE mine == {p \in Partition : owner[p] = c}
<1>1. PICK found \in BOOLEAN, aged \in [Partition -> Offset] :
        /\ \A p \in Partition : hour[p] <= aged[p] /\ aged[p] <= end[p]
        /\ hour' = aged
        /\ found \/ faults < MaxFaults
        /\ faults' = IF found THEN faults ELSE faults + 1
        /\ joined' = [joined EXCEPT ![c] = gen]
        /\ from' = [from EXCEPT ![c] = [p \in Partition |->
             IF p \notin mine THEN None ELSE Begin(p, found)]]
        /\ pos' = [pos EXCEPT ![c] = from'[c]]
        /\ cold' = IF found THEN cold \ {c} ELSE cold \cup {c}
        /\ skipped' = skipped \cup UNION {Jumped(p, found) : p \in mine}
  BY DEF Assign, Begin, Jumped
<1>2. \A p \in Partition : Begin(p, found) \in Offset /\ Begin(p, found) <= end[p]
  BY <1>1, BeginShape
<1>3. [p \in Partition |-> IF p \notin mine THEN None ELSE Begin(p, found)]
        \in [Partition -> Offset \cup {None}]
  BY <1>2
<1>4. /\ from' \in [Proc -> [Partition -> Offset \cup {None}]]
      /\ pos' \in [Proc -> [Partition -> Offset \cup {None}]]
      /\ from'[c] = [p \in Partition |-> IF p \notin mine THEN None ELSE Begin(p, found)]
      /\ pos'[c] = from'[c]
      /\ \A j \in Proc : j # c => from'[j] = from[j] /\ pos'[j] = pos[j]
  BY <1>1, <1>3 DEF TypeInv, TypeOK
<1>5. \A j \in Proc, p \in Partition :
        /\ (from'[j][p] = None) = (pos'[j][p] = None)
        /\ pos'[j][p] # None => from'[j][p] <= pos'[j][p] /\ pos'[j][p] <= end[p]
  <2>1. SUFFICES ASSUME NEW j \in Proc, NEW p \in Partition
                 PROVE  /\ (from'[j][p] = None) = (pos'[j][p] = None)
                        /\ pos'[j][p] # None =>
                             from'[j][p] <= pos'[j][p] /\ pos'[j][p] <= end[p]
    OBVIOUS
  <2>2. CASE j = c
    BY <1>2, <1>4, <2>2 DEF Offset
  <2>3. CASE j # c
    BY <1>4, <2>3 DEF TypeInv, TypeOK
  <2> QED
    BY <2>2, <2>3
<1>6. /\ joined' \in [Proc -> Nat \cup {None}] /\ faults' \in 0 .. MaxFaults
      /\ cold' \subseteq Proc
  BY <1>1, ConstantFacts DEF TypeInv, TypeOK
<1>7. skipped' \subseteq Message
  <2>1. \A p \in Partition : Jumped(p, found) \subseteq Message
    BY <1>1, JumpedShape
  <2>2. mine \subseteq Partition /\ skipped \subseteq Message
    BY DEF TypeInv, TypeOK
  <2> QED
    BY <1>1, <2>1, <2>2
<1>8. /\ hour' \in [Partition -> Offset]
      /\ \A p \in Partition : hour'[p] <= end[p]
  BY <1>1
<1>9. UNCHANGED <<eos, end, committed, gen, owner, batch, pc, panes, pending,
                  topic, redis, straddled, torn, read>>
  BY DEF Assign, group
<1>10. TypeOK'
  BY <1>4, <1>5, <1>6, <1>7, <1>8, <1>9 DEF TypeInv, TypeOK
<1>11. Shape'
  BY <1>9 DEF TypeInv, Shape
<1> QED
  BY <1>10, <1>11 DEF TypeInv

LEMMA PollTyped ==
  ASSUME TypeInv, NEW c \in Proc, NEW p \in Partition, PollMessage(c, p)
  PROVE  TypeInv'
<1> DEFINE m == <<p, pos[c][p]>>
<1>1. /\ p \in Partition /\ pos[c][p] \in Offset /\ pos[c][p] < end[p]
      /\ end[p] \in Offset /\ pos[c][p] + 1 \in Offset
  BY ConstantFacts DEF PollMessage, Assigned, TypeInv, TypeOK, Offset
<1>2. m \in Message
  BY <1>1, MessageShape, ConstantFacts DEF Offset
<1>3. /\ pos' \in [Proc -> [Partition -> Offset \cup {None}]]
      /\ pos'[c][p] = pos[c][p] + 1
      /\ \A j \in Proc, q \in Partition : j # c \/ q # p => pos'[j][q] = pos[j][q]
  BY <1>1 DEF PollMessage, TypeInv, TypeOK
<1>4. \A j \in Proc, q \in Partition :
        /\ (from[j][q] = None) = (pos'[j][q] = None)
        /\ pos'[j][q] # None => from[j][q] <= pos'[j][q] /\ pos'[j][q] <= end[q]
  <2>1. SUFFICES ASSUME NEW j \in Proc, NEW q \in Partition
                 PROVE  /\ (from[j][q] = None) = (pos'[j][q] = None)
                        /\ pos'[j][q] # None =>
                             from[j][q] <= pos'[j][q] /\ pos'[j][q] <= end[q]
    OBVIOUS
  <2>2. CASE j = c /\ q = p
    <3>1. /\ from[c][p] # None /\ from[c][p] \in Offset \cup {None}
          /\ from[c][p] <= pos[c][p] /\ pos[c][p] # None
      BY <1>1, ConstantFacts DEF PollMessage, Assigned, TypeInv, TypeOK, Offset
    <3>2. pos'[c][p] # None
      BY <1>1, <1>3, ConstantFacts DEF Offset
    <3> QED
      BY <1>1, <1>3, <2>2, <3>1, <3>2 DEF Offset
  <2>3. CASE ~(j = c /\ q = p)
    BY <1>3, <2>3 DEF TypeInv, TypeOK
  <2> QED
    BY <2>2, <2>3
<1>5. /\ batch' \in [Proc -> SUBSET Message] /\ batch'[c] = batch[c] \cup {m}
      /\ \A j \in Proc : j # c => batch'[j] = batch[j]
  BY <1>2 DEF PollMessage, TypeInv, TypeOK
<1>6. \A j \in Proc : /\ Cardinality(batch'[j]) <= IF eos THEN MaxBatch ELSE 1
                      /\ IsFiniteSet(batch'[j])
  <2>1. /\ IsFiniteSet(batch[c]) /\ Cardinality(batch[c]) \in Nat
        /\ Cardinality(batch[c]) < IF eos THEN MaxBatch ELSE 1
    BY FS_CardinalityType DEF TypeInv, Shape, PollMessage
  <2>2. /\ IsFiniteSet(batch[c] \cup {m})
        /\ \/ Cardinality(batch[c] \cup {m}) = Cardinality(batch[c])
           \/ Cardinality(batch[c] \cup {m}) = Cardinality(batch[c]) + 1
    BY <2>1, FS_AddElement
  <2>3. Cardinality(batch[c] \cup {m}) <= IF eos THEN MaxBatch ELSE 1
    BY <2>1, <2>2, ConstantFacts
  <2> QED
    BY <1>5, <2>2, <2>3 DEF TypeInv, TypeOK, Shape
<1>7. UNCHANGED <<eos, end, hour, committed, gen, owner, joined, from, pc, panes,
                  pending, topic, redis, faults, cold, straddled, torn, skipped, read>>
  BY DEF PollMessage, log, group, ghosts
<1>8. TypeOK'
  BY <1>3, <1>4, <1>5, <1>6, <1>7 DEF TypeInv, TypeOK
<1>9. Shape'
  BY <1>6, <1>7 DEF TypeInv, Shape
<1> QED
  BY <1>8, <1>9 DEF TypeInv

LEMMA StepTyped == TypeInv /\ [Next]_vars => TypeInv'
<1> SUFFICES ASSUME TypeInv, [Next]_vars PROVE TypeInv'
  OBVIOUS
<1>1. ASSUME NEW p \in Partition, Arrive(p) PROVE TypeInv'
  <2>1. /\ end' \in [Partition -> Offset]
        /\ \A q \in Partition : end[q] <= end'[q]
    BY <1>1, ConstantFacts DEF Arrive, TypeInv, TypeOK, Offset
  <2>2. UNCHANGED <<eos, hour, committed, gen, owner, joined, from, pos, batch, pc,
                    panes, pending, topic, redis, faults, cold, straddled, torn,
                    skipped, read>>
    BY <1>1 DEF Arrive, group, inputs, ghosts
  <2>3. \A q \in Partition : hour[q] <= end'[q]
    BY <2>1 DEF TypeInv, TypeOK, Offset
  <2>4. \A c \in Proc, q \in Partition : pos[c][q] # None => pos[c][q] <= end'[q]
    BY <2>1 DEF TypeInv, TypeOK, Offset
  <2>5. \A q \in Partition : committed[q] # None => committed[q] <= end'[q]
    BY <2>1 DEF TypeInv, TypeOK, Shape, Offset
  <2>6. TypeOK'
    BY <2>1, <2>2, <2>3, <2>4 DEF TypeInv, TypeOK
  <2>7. Shape'
    BY <2>2, <2>5 DEF TypeInv, Shape
  <2> QED
    BY <2>6, <2>7 DEF TypeInv
<1>2. ASSUME Rebalance PROVE TypeInv'
  <2>1. /\ gen' \in Nat /\ owner' \in [Partition -> Proc] /\ torn' \subseteq Partition
    BY <1>2 DEF Rebalance, TypeInv, TypeOK, InHand
  <2>2. UNCHANGED <<eos, end, hour, committed, joined, from, pos, batch, pc, panes,
                    pending, topic, redis, faults, cold, straddled, skipped, read>>
    BY <1>2 DEF Rebalance, log, inputs
  <2>3. TypeOK'
    BY <2>1, <2>2 DEF TypeInv, TypeOK
  <2>4. Shape'
    BY <2>2 DEF TypeInv, Shape
  <2> QED
    BY <2>3, <2>4 DEF TypeInv
<1>3. ASSUME NEW c \in Proc, Start(c) PROVE TypeInv'
  <2>1. pc' \in [Proc -> {"down", "poll", "commit", "cache", "publish"}]
    BY <1>3 DEF Start, TypeInv, TypeOK
  <2>2. UNCHANGED <<eos, end, hour, committed, gen, owner, joined, from, pos, batch,
                    panes, pending, topic, redis, faults, cold, straddled, torn,
                    skipped, read>>
    BY <1>3 DEF Start, log, group, inputs, ghosts
  <2>3. TypeOK'
    BY <2>1, <2>2 DEF TypeInv, TypeOK
  <2>4. Shape'
    BY <2>2 DEF TypeInv, Shape
  <2> QED
    BY <2>3, <2>4 DEF TypeInv
<1>4. ASSUME NEW c \in Proc, AbortTransaction(c) \/ Crash(c) \/ Shutdown(c)
      PROVE  TypeInv'
  <2>1. /\ Forget(c) /\ UNCHANGED topic
        /\ UNCHANGED committed \/ committed' = Positions(c)
        /\ faults' = faults \/ (faults < MaxFaults /\ faults' = faults + 1)
        /\ torn' = torn \/ torn' = torn \cup InHand(c)
    BY <1>4 DEF AbortTransaction, Crash, Shutdown
  <2>2. faults' \in 0 .. MaxFaults /\ torn' \subseteq Partition
    BY <2>1, ConstantFacts DEF TypeInv, TypeOK, InHand
  <2> QED
    BY <2>1, <2>2, ForgetTyped
<1>5. CASE UNCHANGED vars
  <2>1. UNCHANGED <<eos, end, hour, committed, gen, owner, joined, from, pos, batch, pc,
                    panes, pending, topic, redis, faults, cold, straddled, torn,
                    skipped, read>>
    BY <1>5 DEF vars, log, group, inputs, ghosts
  <2>2. TypeOK'
    BY <2>1 DEF TypeInv, TypeOK
  <2>3. Shape'
    BY <2>1 DEF TypeInv, Shape
  <2> QED
    BY <2>2, <2>3 DEF TypeInv
<1>6. ASSUME NEW c \in Proc, InPoll(c) PROVE TypeInv'
  BY <1>6, RevokeTyped, AssignTyped, PollTyped DEF InPoll
<1> QED
  BY <1>1, <1>2, <1>3, <1>4, <1>5, <1>6, FoldTyped, StoreTyped DEF Next, Transaction

LEMMA TypeInvariant == Spec => []TypeInv
BY InitTyped, StepTyped, PTL DEF Spec

(* TypeOK: positions stay inside the log and batches within their limit.    *)
THEOREM TypeCorrect == Spec => []TypeOK
<1>1. TypeInv => TypeOK
  BY DEF TypeInv
<1> QED
  BY <1>1, TypeInvariant, PTL

-----------------------------------------------------------------------------
(* A step of a process leaves the others alone.                             *)
StepOf(c) ==
  \/ Start(c) \/ InPoll(c) \/ Fold(c) \/ Transaction(c)
  \/ WriteRedis(c) \/ Publish(c)
  \/ Crash(c) \/ Shutdown(c)

Same(j) ==
  /\ joined'[j] = joined[j] /\ from'[j] = from[j] /\ pos'[j] = pos[j]
  /\ batch'[j] = batch[j] /\ panes'[j] = panes[j] /\ pending'[j] = pending[j]
  /\ pc'[j] = pc[j]

LEMMA OthersSame ==
  ASSUME TypeInv, NEW c \in Proc, StepOf(c)
  PROVE  /\ \A j \in Proc \ {c} : Same(j)
         /\ UNCHANGED <<eos, end, gen, owner>>
         /\ straddled \subseteq straddled' /\ torn \subseteq torn'
<1> DEFINE Goal == /\ \A j \in Proc \ {c} : Same(j)
                   /\ UNCHANGED <<eos, end, gen, owner>>
                   /\ straddled \subseteq straddled' /\ torn \subseteq torn'
<1>1. /\ DOMAIN pending = Proc
      /\ joined \in [Proc -> Nat \cup {None}]
      /\ from \in [Proc -> [Partition -> Offset \cup {None}]]
      /\ pos \in [Proc -> [Partition -> Offset \cup {None}]]
      /\ batch \in [Proc -> SUBSET Message] /\ panes \in [Proc -> Record]
      /\ pc \in [Proc -> {"down", "poll", "commit", "cache", "publish"}]
  BY DEF TypeInv, TypeOK, Shape
<1>2. ASSUME Start(c) PROVE Goal
  BY <1>1, <1>2 DEF Start, Same, log, group, inputs, ghosts
<1>3. ASSUME Revoke(c) PROVE Goal
  BY <1>1, <1>3 DEF Revoke, Same, log, group
<1>4. ASSUME Assign(c) PROVE Goal
  BY <1>1, <1>4 DEF Assign, Same, group
<1>5. ASSUME NEW p \in Partition, PollMessage(c, p) PROVE Goal
  BY <1>1, <1>5 DEF PollMessage, Same, log, group, ghosts
<1>6. ASSUME Fold(c) PROVE Goal
  BY <1>1, <1>6 DEF Fold, Same, log, group
<1>7. ASSUME CommitTransaction(c) PROVE Goal
  BY <1>1, <1>7 DEF CommitTransaction, Same, log, group, inputs, ghosts
<1>8. ASSUME WriteRedis(c) PROVE Goal
  BY <1>1, <1>8 DEF WriteRedis, Same, log, group, inputs
<1>9. ASSUME Publish(c) PROVE Goal
  BY <1>1, <1>9 DEF Publish, Same, log, group, inputs
<1>10. ASSUME AbortTransaction(c) \/ Crash(c) \/ Shutdown(c) PROVE Goal
  BY <1>1, <1>10 DEF AbortTransaction, Crash, Shutdown, Forget, Same, log, group
<1> HIDE DEF Goal
<1>11. Goal
  BY <1>2, <1>3, <1>4, <1>5, <1>6, <1>7, <1>8, <1>9, <1>10
     DEF StepOf, InPoll, Transaction
<1> QED
  BY <1>11 DEF Goal

LEMMA NextIsStep ==
  ASSUME [Next]_vars
  PROVE  \/ \E p \in Partition : Arrive(p)
         \/ Rebalance
         \/ \E c \in Proc : StepOf(c)
         \/ UNCHANGED vars
BY DEF Next, StepOf

(* A process keeps what it knows when nothing of it changes.                *)
LEMMA NothingMoves ==
  ASSUME TypeInv, (\E p \in Partition : Arrive(p)) \/ Rebalance \/ UNCHANGED vars
  PROVE  /\ \A j \in Proc : Same(j)
         /\ UNCHANGED <<eos, hour, committed, topic, redis, cold, straddled>>
         /\ torn \subseteq torn'
<1>1. CASE \E p \in Partition : Arrive(p)
  BY <1>1 DEF Arrive, Same, group, inputs, ghosts
<1>2. CASE Rebalance
  BY <1>2 DEF Rebalance, Same, log, inputs
<1>3. CASE UNCHANGED vars
  BY <1>3 DEF vars, Same, log, group, inputs, ghosts
<1> QED
  BY <1>1, <1>2, <1>3

-----------------------------------------------------------------------------
(* The hour of a partition, for one process.                                *)
Rebuilt(c) ==
  \A p \in Partition : \A i \in hour[p] .. MaxLength - 1 :
    pos[c][p] # None /\ i < pos[c][p] => Has(c, <<p, i>>)

LEMMA RebuiltKept ==
  ASSUME TypeInv, TypeInv', NEW c \in Proc, Rebuilt(c), Same(c),
         \A p \in Partition : hour[p] <= hour'[p]
  PROVE  Rebuilt(c)'
<1> SUFFICES ASSUME NEW p \in Partition, NEW i \in hour'[p] .. MaxLength - 1,
                    pos'[c][p] # None, i < pos'[c][p]
             PROVE  panes'[c][<<p, i>>] > 0 \/ <<p, i>> \in batch'[c]
  BY DEF Rebuilt, Has
<1>1. i \in hour[p] .. MaxLength - 1
  BY DEF TypeInv, TypeOK, Offset
<1> QED
  BY <1>1 DEF Rebuilt, Has, Same

LEMMA StepRebuilt ==
  ASSUME TypeInv, TypeInv', \A c \in Proc \ cold : Rebuilt(c), [Next]_vars
  PROVE  \A c \in Proc \ cold' : Rebuilt(c)'
<1>1. CASE (\E p \in Partition : Arrive(p)) \/ Rebalance \/ UNCHANGED vars
  <2>1. \A p \in Partition : hour[p] <= hour'[p]
    BY <1>1, NothingMoves DEF TypeInv, TypeOK, Offset
  <2> QED
    BY <1>1, <2>1, NothingMoves, RebuiltKept
<1>2. ASSUME NEW c \in Proc, StepOf(c)
      PROVE  \A j \in Proc \ cold' : Rebuilt(j)'
  <2>1. \A p \in Partition : hour[p] <= hour'[p]
    <3>1. hour' = hour \/ \A p \in Partition : hour[p] <= hour'[p]
      BY <1>2 DEF StepOf, InPoll, Transaction, Start, Revoke, Assign, PollMessage, Fold,
         CommitTransaction, WriteRedis, Publish, AbortTransaction, Crash, Shutdown,
         Forget, log
    <3> QED
      BY <3>1 DEF TypeInv, TypeOK, Offset
  <2>2. cold' \ {c} = cold \ {c} /\ (~Assign(c) => cold' = cold)
    BY <1>2 DEF StepOf, InPoll, Transaction, Start, Revoke, Assign, PollMessage, Fold,
       CommitTransaction, WriteRedis, Publish, AbortTransaction, Crash, Shutdown,
       Forget, ghosts
  <2>3. ASSUME NEW j \in Proc \ cold', j # c
        PROVE  Rebuilt(j)'
    <3>1. j \in Proc \ cold /\ Same(j)
      BY <1>2, <2>2, <2>3, OthersSame
    <3> QED
      BY <2>1, <3>1, RebuiltKept
  <2>4. ASSUME c \notin cold'
        PROVE  Rebuilt(c)'
    <3>1. CASE Start(c) \/ CommitTransaction(c) \/ WriteRedis(c) \/ Publish(c)
      <4>1. /\ pos'[c] = pos[c] /\ panes'[c] = panes[c] /\ batch'[c] = batch[c]
            /\ c \notin cold
        BY <2>2, <2>4, <3>1 DEF Start, CommitTransaction, WriteRedis, Publish, inputs, ghosts
      <4> SUFFICES ASSUME NEW p \in Partition, NEW i \in hour'[p] .. MaxLength - 1,
                          pos'[c][p] # None, i < pos'[c][p]
                   PROVE  panes'[c][<<p, i>>] > 0 \/ <<p, i>> \in batch'[c]
        BY DEF Rebuilt, Has
      <4>2. i \in hour[p] .. MaxLength - 1
        BY <2>1 DEF TypeInv, TypeOK, Offset
      <4> QED
        BY <4>1, <4>2 DEF Rebuilt, Has
    <3>2. CASE Revoke(c) \/ AbortTransaction(c) \/ Crash(c) \/ Shutdown(c)
      <4>1. \A p \in Partition : pos'[c][p] = None
        BY <3>2, RecordShape DEF Revoke, AbortTransaction, Crash, Shutdown, Forget,
           TypeInv, TypeOK
      <4> QED
        BY <4>1 DEF Rebuilt
    <3>3. CASE Assign(c)
      <4>1. /\ \A p \in Partition : hour'[p] <= end[p]
            /\ hour' \in [Partition -> Offset]
            /\ \A p \in Partition :
                 pos'[c][p] # None => pos'[c][p] = Begin(p, TRUE)
        BY <2>4, <3>3 DEF Assign, Begin, TypeInv, TypeOK
      <4>2. \A p \in Partition : Begin(p, TRUE) \in Offset /\ Begin(p, TRUE) <= hour'[p]
        BY <4>1, BeginShape
      <4>3. ASSUME NEW p \in Partition, NEW i \in hour'[p] .. MaxLength - 1,
                   pos'[c][p] # None
            PROVE  ~(i < pos'[c][p])
        <5>1. pos'[c][p] \in Offset /\ pos'[c][p] <= hour'[p]
          <6>1. pos'[c][p] = Begin(p, TRUE)
            BY <4>1, <4>3
          <6> QED
            BY <4>2, <6>1, Zenon
        <5>2. pos'[c][p] \in Int /\ pos'[c][p] <= hour'[p]
          BY <5>1, ConstantFacts DEF Offset
        <5>3. hour'[p] \in Int
          BY <4>1, ConstantFacts DEF Offset
        <5>4. i \in Int /\ hour'[p] <= i
          BY <5>3, ConstantFacts
        <5> QED
          BY <5>2, <5>3, <5>4
      <4> QED
        BY <4>3 DEF Rebuilt
    <3>4. ASSUME NEW p \in Partition, PollMessage(c, p)
          PROVE  Rebuilt(c)'
      <4>1. /\ pos[c][p] \in Nat /\ pos'[c][p] = pos[c][p] + 1 /\ pos[c][p] # None
            /\ \A q \in Partition : q # p => pos'[c][q] = pos[c][q]
            /\ batch'[c] = batch[c] \cup {<<p, pos[c][p]>>}
            /\ hour' = hour /\ panes' = panes /\ c \notin cold
        BY <2>2, <2>4, <3>4, ConstantFacts DEF PollMessage, Assigned, log, ghosts, TypeInv, TypeOK, Offset
      <4> SUFFICES ASSUME NEW q \in Partition, NEW i \in hour[q] .. MaxLength - 1,
                          pos'[c][q] # None, i < pos'[c][q]
                   PROVE  panes[c][<<q, i>>] > 0 \/ <<q, i>> \in batch'[c]
        BY <4>1 DEF Rebuilt, Has
      <4>2. i \in Int
        BY DEF TypeInv, TypeOK, Offset
      <4>3. CASE q = p /\ i = pos[c][p]
        BY <4>1, <4>3
      <4>4. CASE ~(q = p /\ i = pos[c][p])
        <5>1. pos[c][q] # None /\ i < pos[c][q]
          BY <4>1, <4>2, <4>4
        <5> QED
          BY <4>1, <5>1 DEF Rebuilt, Has
      <4> QED
        BY <4>3, <4>4
    <3>5. CASE Fold(c)
      <4>1. /\ panes'[c] = Folded(c) /\ UNCHANGED <<pos, hour>> /\ c \notin cold
        BY <2>2, <2>4, <3>5 DEF Fold, Folded, log, TypeInv, TypeOK
      <4> SUFFICES ASSUME NEW p \in Partition, NEW i \in hour[p] .. MaxLength - 1,
                          pos[c][p] # None, i < pos[c][p]
                   PROVE  panes'[c][<<p, i>>] > 0
        BY <4>1 DEF Rebuilt, Has
      <4>2. <<p, i>> \in Message
        BY MessageShape DEF TypeInv, TypeOK, Offset
      <4>3. Has(c, <<p, i>>)
        BY <4>1 DEF Rebuilt
      <4> QED
        BY <4>1, <4>2, <4>3, FoldedShape
    <3> QED
      BY <1>2, <3>1, <3>2, <3>3, <3>4, <3>5 DEF StepOf, InPoll, Transaction
  <2> QED
    BY <2>3, <2>4
<1> QED
  BY <1>1, <1>2, NextIsStep

(* PanesRebuilt: whoever had a partition before, and wherever it was        *)
(* committed, a process that was given it and could look up the offsets     *)
(* holds its last hour.                                                     *)
THEOREM HourRebuilt == Spec => []PanesRebuilt
<1> DEFINE R == \A c \in Proc \ cold : Rebuilt(c)
<1>1. Init => R
  <2>1. Init => \A c \in Proc, p \in Partition : pos[c][p] = None
    BY RecordShape DEF Init
  <2> QED
    BY <2>1 DEF Rebuilt
<1>2. TypeInv /\ TypeInv' /\ R /\ [Next]_vars => R'
  BY StepRebuilt
<1>3. R => PanesRebuilt
  BY DEF Rebuilt, Has, PanesRebuilt
<1> HIDE DEF R
<1> QED
  BY <1>1, <1>2, <1>3, TypeInvariant, PTL DEF Spec
-----------------------------------------------------------------------------
LEMMA OnceKept ==
  ASSUME TypeInv, NEW c \in Proc, Same(c), straddled \subseteq straddled', ReadOnce(c)
  PROVE  ReadOnce(c)'
BY DEF ReadOnce, Same, Has, Within, Assigned

LEMMA MembershipKept ==
  ASSUME TypeInv, NEW c \in Proc, Same(c), Membership(c),
         UNCHANGED <<gen, owner>> \/ gen' = gen + 1
  PROVE  Membership(c)'
<1>1. /\ joined'[c] = joined[c] /\ Assigned(c)' = Assigned(c)
      /\ gen \in Nat /\ joined[c] \in Nat \cup {None}
      /\ joined[c] # None => joined[c] <= gen
  BY DEF Same, Assigned, TypeInv, TypeOK, Membership
<1>2. CASE UNCHANGED <<gen, owner>>
  BY <1>1, <1>2 DEF Membership
<1>3. CASE gen' = gen + 1
  <2>1. joined[c] # None => joined[c] <= gen' /\ joined[c] # gen'
    BY <1>1, <1>3
  <2>2. gen' # None
    BY <1>1, <1>3, ConstantFacts
  <2> QED
    BY <1>1, <2>1, <2>2 DEF Membership
<1> QED
  BY <1>2, <1>3

LEMMA ForgetShape ==
  ASSUME TypeInv, NEW c \in Proc, Forget(c)
  PROVE  /\ Assigned(c)' = {} /\ joined'[c] = None /\ pc'[c] = "down"
         /\ batch'[c] = {} /\ panes'[c] = NoRecord /\ InHand(c)' = {}
BY RecordShape DEF Forget, TypeInv, TypeOK, Shape, Assigned, InHand

LEMMA StepMembership ==
  ASSUME TypeInv, NEW c \in Proc, Membership(c), StepOf(c)
  PROVE  Membership(c)'
<1>1. UNCHANGED <<gen, owner>> /\ gen \in Nat /\ gen # None
  BY OthersSame, ConstantFacts DEF TypeInv, TypeOK
<1>2. CASE \/ Start(c) \/ Fold(c) \/ CommitTransaction(c) \/ WriteRedis(c) \/ Publish(c)
           \/ \E p \in Partition : PollMessage(c, p)
  <2>1. joined' = joined
    BY <1>2 DEF Start, Fold, CommitTransaction, WriteRedis, Publish, PollMessage, inputs
  <2>2. Assigned(c)' \subseteq Assigned(c)
    <3>1. CASE pos' = pos
      BY <3>1 DEF Assigned
    <3>2. ASSUME NEW p \in Partition, PollMessage(c, p)
          PROVE  Assigned(c)' \subseteq Assigned(c)
      BY <3>2 DEF PollMessage, Assigned, TypeInv, TypeOK
    <3> QED
      BY <1>2, <3>1, <3>2 DEF Start, Fold, CommitTransaction, WriteRedis, Publish, inputs
  <2> QED
    BY <1>1, <2>1, <2>2 DEF Membership
<1>3. CASE AbortTransaction(c) \/ Crash(c) \/ Shutdown(c)
  <2>1. Assigned(c)' = {} /\ joined'[c] = None
    BY <1>3, ForgetShape DEF AbortTransaction, Crash, Shutdown
  <2> QED
    BY <1>1, <2>1 DEF Membership
<1>4. CASE Revoke(c)
  <2>1. Assigned(c)' = {} /\ joined'[c] = None
    BY <1>4, RecordShape DEF Revoke, Assigned, TypeInv, TypeOK
  <2> QED
    BY <1>1, <2>1 DEF Membership
<1>5. CASE Assign(c)
  <2>1. joined'[c] = gen
    BY <1>5 DEF Assign, TypeInv, TypeOK
  <2>2. \A p \in Partition : owner[p] # c => pos'[c][p] = None
    BY <1>5 DEF Assign, TypeInv, TypeOK
  <2>3. \A p \in Assigned(c)' : owner[p] = c
    BY <2>2 DEF Assigned
  <2> QED
    BY <1>1, <2>1, <2>3 DEF Membership
<1> QED
  BY <1>2, <1>3, <1>4, <1>5 DEF StepOf, InPoll, Transaction

LEMMA StepOnce ==
  ASSUME TypeInv, NEW c \in Proc, Membership(c), ReadOnce(c), StepOf(c)
  PROVE  ReadOnce(c)'
<1>1. \A m \in Message : panes[c][m] \in Nat
  BY DEF TypeInv, TypeOK, Record
<1>2. straddled \subseteq straddled'
  BY OthersSame
<1>3. CASE Start(c) \/ CommitTransaction(c) \/ WriteRedis(c) \/ Publish(c)
  <2>1. /\ panes' = panes /\ batch' = batch /\ pos' = pos /\ from' = from
        /\ straddled' = straddled
    BY <1>3 DEF Start, CommitTransaction, WriteRedis, Publish, inputs, ghosts
  <2> QED
    BY <2>1 DEF ReadOnce, Has, Within, Assigned
<1>4. CASE AbortTransaction(c) \/ Crash(c) \/ Shutdown(c)
  <2>1. batch'[c] = {} /\ \A m \in Message : panes'[c][m] = 0
    BY <1>4, ForgetShape, RecordShape DEF AbortTransaction, Crash, Shutdown
  <2> QED
    BY <2>1 DEF ReadOnce, Has
<1>5. CASE Revoke(c)
  <2>1. /\ batch' = batch /\ straddled' = straddled \cup batch[c]
        /\ \A m \in Message :
             panes'[c][m] = IF m[1] \in Assigned(c) THEN 0 ELSE panes[c][m]
    BY <1>5 DEF Revoke, DropPartitions, TypeInv, TypeOK
  <2>2. ASSUME NEW m \in Message, m \notin straddled'
        PROVE  m \notin batch'[c] /\ panes'[c][m] = 0
    BY <1>1, <2>1, <2>2 DEF ReadOnce, Has, Within
  <2> QED
    BY <2>2 DEF ReadOnce, Has
<1>6. CASE Assign(c)
  <2>1. panes' = panes /\ batch' = batch /\ joined[c] = None /\ straddled' = straddled
    BY <1>6 DEF Assign
  <2>2. ASSUME NEW m \in Message, m \notin straddled'
        PROVE  m \notin batch'[c] /\ panes'[c][m] = 0
    BY <1>1, <2>1, <2>2 DEF ReadOnce, Has, Within, Membership
  <2> QED
    BY <2>2 DEF ReadOnce, Has
<1>7. ASSUME NEW p \in Partition, PollMessage(c, p)
      PROVE  ReadOnce(c)'
  <2>6. PICK n \in Message : n = <<p, pos[c][p]>>
    <3>1. pos[c][p] \in 0 .. MaxLength - 1
      BY <1>7, ConstantFacts DEF PollMessage, Assigned, TypeInv, TypeOK, Offset
    <3> QED
      BY <3>1, MessageShape
  <2>1. /\ pos[c][p] \in Nat /\ pos'[c][p] = pos[c][p] + 1 /\ pos[c][p] # None
        /\ from[c][p] \in Nat /\ from[c][p] <= pos[c][p]
    BY <1>7, ConstantFacts DEF PollMessage, Assigned, TypeInv, TypeOK, Offset
  <2>2. /\ \A q \in Partition : q # p => pos'[c][q] = pos[c][q]
        /\ batch'[c] = batch[c] \cup {n} /\ panes' = panes /\ from' = from
        /\ straddled' = straddled
    BY <1>7, <2>6 DEF PollMessage, TypeInv, TypeOK, ghosts
  <2>3. pos'[c][p] # None
    BY <2>1, ConstantFacts
  <2>4. ASSUME NEW m \in Message, Within(c, m) PROVE Within(c, m)'
    <3>1. m[1] \in Partition /\ m[2] \in Nat /\ pos[c][m[1]] # None
      BY <2>4, MessageShape DEF Within, Assigned
    <3>2. from[c][m[1]] <= m[2] /\ m[2] < pos[c][m[1]]
      BY <2>4 DEF Within
    <3>3. CASE m[1] = p
      BY <2>1, <2>2, <2>3, <3>1, <3>2, <3>3 DEF Within, Assigned
    <3>4. CASE m[1] # p
      BY <2>2, <3>1, <3>2, <3>4 DEF Within, Assigned
    <3> QED
      BY <3>3, <3>4
  <2>5. Within(c, n)' /\ ~Within(c, n)
    <3>1. n[1] = p /\ n[2] = pos[c][p]
      BY <2>6
    <3> QED
      BY <2>1, <2>2, <2>3, <3>1 DEF Within, Assigned
  <2>7. ASSUME NEW m \in Message, m \notin straddled
        PROVE  /\ Has(c, m)' => Within(c, m)'
               /\ ~(panes'[c][m] > 0 /\ m \in batch'[c])
               /\ panes'[c][m] <= 1
    <3>1. CASE m = n
      <4>1. ~Has(c, m)
        BY <2>5, <2>7, <3>1 DEF ReadOnce
      <4> QED
        BY <1>1, <2>2, <2>5, <3>1, <4>1 DEF Has
    <3>2. CASE m # n
      <4>1. Has(c, m)' <=> Has(c, m)
        BY <2>2, <3>2 DEF Has
      <4> QED
        BY <2>2, <2>4, <2>7, <3>2, <4>1 DEF ReadOnce
    <3> QED
      BY <3>1, <3>2
  <2> QED
    BY <2>2, <2>7 DEF ReadOnce
<1>8. CASE Fold(c)
  <2>1. /\ panes'[c] = Folded(c) /\ batch'[c] = {} /\ pos' = pos /\ from' = from
        /\ straddled' = straddled
    BY <1>8 DEF Fold, Folded, TypeInv, TypeOK
  <2>2. ASSUME NEW m \in Message
        PROVE  /\ Has(c, m)' <=> Has(c, m)
               /\ Within(c, m)' <=> Within(c, m)
    BY <2>1, FoldedShape DEF Has, Within, Assigned
  <2>3. \A m \in Message : panes'[c][m] = panes[c][m] + IF m \in batch[c] THEN 1 ELSE 0
    BY <2>1 DEF Folded
  <2>4. ASSUME NEW m \in Message, m \notin straddled PROVE panes'[c][m] <= 1
    BY <1>1, <2>3, <2>4 DEF ReadOnce
  <2> QED
    BY <2>1, <2>2, <2>4 DEF ReadOnce
<1> QED
  BY <1>3, <1>4, <1>5, <1>6, <1>7, <1>8 DEF StepOf, InPoll, Transaction

(* What the theorems below rest on: what each process has of the log, and   *)
(* how it stands to the group.                                              *)
OnceInv == \A c \in Proc : ReadOnce(c) /\ Membership(c)

LEMMA OnceInvariant == Spec => []OnceInv
<1>1. ASSUME Init, TypeInv PROVE OnceInv
  <2>1. \A c \in Proc : /\ joined[c] = None /\ batch[c] = {} /\ Assigned(c) = {}
                        /\ \A m \in Message : panes[c][m] = 0
    BY <1>1, RecordShape DEF Init, Assigned
  <2>2. \A c \in Proc : Membership(c)
    BY <1>1, <2>1, ConstantFacts DEF Membership, TypeInv, TypeOK
  <2>3. \A c \in Proc : ReadOnce(c)
    BY <2>1 DEF ReadOnce, Has
  <2> QED
    BY <2>2, <2>3 DEF OnceInv
<1>2. ASSUME TypeInv, OnceInv, [Next]_vars PROVE OnceInv'
  <2>1. CASE (\E p \in Partition : Arrive(p)) \/ Rebalance \/ UNCHANGED vars
    <3>1. UNCHANGED <<gen, owner>> \/ gen' = gen + 1
      BY <2>1 DEF Arrive, Rebalance, vars, group
    <3> QED
      BY <1>2, <2>1, <3>1, NothingMoves, OnceKept, MembershipKept DEF OnceInv
  <2>2. ASSUME NEW c \in Proc, StepOf(c) PROVE OnceInv'
    <3>1. ReadOnce(c)' /\ Membership(c)'
      BY <1>2, <2>2, StepOnce, StepMembership DEF OnceInv
    <3>2. ASSUME NEW j \in Proc, j # c PROVE ReadOnce(j)' /\ Membership(j)'
      BY <1>2, <2>2, <3>2, OthersSame, OnceKept, MembershipKept DEF OnceInv
    <3> QED
      BY <3>1, <3>2 DEF OnceInv
  <2> QED
    BY <1>2, <2>1, <2>2, NextIsStep
<1> QED
  BY <1>1, <1>2, TypeInvariant, PTL DEF Spec

(* FoldedOnce: revocations, crashes, aborts and the seek-back make events   *)
(* be read again, and none counts twice, but those of a batch that was      *)
(* being collected when their partition went away.                          *)
THEOREM CountedOnce == Spec => []FoldedOnce
<1>1. TypeInv /\ OnceInv => FoldedOnce
  <2> SUFFICES ASSUME TypeInv, OnceInv, NEW c \in Proc, NEW m \in Message,
                      panes[c][m] > 1, m \notin straddled
               PROVE  FALSE
    BY DEF FoldedOnce
  <2>1. panes[c][m] \in Nat /\ panes[c][m] <= 1
    BY DEF TypeInv, TypeOK, Record, OnceInv, ReadOnce
  <2> QED
    BY <2>1
<1> QED
  BY <1>1, TypeInvariant, OnceInvariant, PTL
-----------------------------------------------------------------------------
LEMMA ShownKept ==
  ASSUME TypeInv, NEW c \in Proc, Same(c), UNCHANGED eos, Shown(c)
  PROVE  Shown(c)'
BY DEF Shown, Same, InHand

LEMMA StepShown ==
  ASSUME TypeInv, NEW c \in Proc, Shown(c), StepOf(c)
  PROVE  Shown(c)'
<1>1. UNCHANGED eos /\ eos \in BOOLEAN
  BY OthersSame DEF TypeInv, TypeOK
<1>2. CASE Start(c) \/ Assign(c) \/ \E p \in Partition : PollMessage(c, p)
  <2>1. /\ pending' = pending /\ panes' = panes /\ pc[c] \in {"down", "poll"}
        /\ pc'[c] = "poll"
    BY <1>2 DEF Start, Assign, PollMessage, TypeInv, TypeOK
  <2> QED
    BY <1>1, <2>1 DEF Shown, InHand
<1>3. CASE Revoke(c)
  <2>1. pending' = pending /\ pc' = pc /\ pc[c] = "poll"
    BY <1>3 DEF Revoke
  <2> QED
    BY <1>1, <2>1 DEF Shown, InHand
<1>4. CASE AbortTransaction(c) \/ Crash(c) \/ Shutdown(c)
  <2>1. InHand(c)' = {} /\ pc'[c] = "down"
    BY <1>4, ForgetShape DEF AbortTransaction, Crash, Shutdown
  <2> QED
    BY <2>1 DEF Shown
<1>5. CASE Fold(c)
  <2>1. PICK due \in SUBSET Partition :
          pending' = [pending EXCEPT ![c] = [p \in due |-> OfPartition(c, p)]]
    BY <1>5 DEF Fold, Folded, OfPartition
  <2>2. /\ panes'[c] = Folded(c)
        /\ pc'[c] = IF eos THEN "commit" ELSE "cache"
    BY <1>5 DEF Fold, Folded, TypeInv, TypeOK
  <2>3. /\ InHand(c)' = due
        /\ \A p \in due : pending'[c][p] = OfPartition(c, p)
    BY <2>1 DEF InHand, TypeInv, Shape
  <2>4. \A p \in due, m \in Message : OfPartition(c, p)[m] > 0 => Folded(c)[m] > 0
    BY DEF OfPartition
  <2> QED
    BY <1>1, <2>2, <2>3, <2>4 DEF Shown
<1>6. CASE CommitTransaction(c)
  <2>1. pending' = pending /\ panes' = panes /\ pc'[c] = "cache" /\ pc[c] = "commit"
    BY <1>6 DEF CommitTransaction, inputs, TypeInv, TypeOK
  <2> QED
    BY <1>1, <2>1 DEF Shown, InHand
<1>7. CASE WriteRedis(c)
  <2>1. /\ pc'[c] = IF eos THEN "poll" ELSE "publish"
        /\ panes' = panes
        /\ eos => pending'[c] = NoPending
        /\ ~eos => pending' = pending
    BY <1>7 DEF WriteRedis, TypeInv, TypeOK, Shape
  <2> QED
    BY <1>1, <2>1, RecordShape DEF Shown, InHand
<1>8. CASE Publish(c)
  <2>1. pc'[c] = "poll" /\ pending'[c] = NoPending
    BY <1>8 DEF Publish, TypeInv, TypeOK, Shape
  <2> QED
    BY <2>1, RecordShape DEF Shown, InHand
<1> QED
  BY <1>2, <1>3, <1>4, <1>5, <1>6, <1>7, <1>8 DEF StepOf, InPoll, Transaction

ShownInv == \A c \in Proc : Shown(c)

LEMMA ShownInvariant == Spec => []ShownInv
<1>1. Init => ShownInv
  <2> SUFFICES ASSUME Init, NEW c \in Proc PROVE Shown(c)
    BY DEF ShownInv
  <2>1. pc[c] = "poll" /\ InHand(c) = {}
    BY RecordShape DEF Init, InHand
  <2> QED
    BY <2>1 DEF Shown
<1>2. ASSUME TypeInv, ShownInv, [Next]_vars PROVE ShownInv'
  <2>1. CASE (\E p \in Partition : Arrive(p)) \/ Rebalance \/ UNCHANGED vars
    BY <1>2, <2>1, NothingMoves, ShownKept DEF ShownInv
  <2>2. ASSUME NEW c \in Proc, StepOf(c) PROVE ShownInv'
    <3>1. Shown(c)'
      BY <1>2, <2>2, StepShown DEF ShownInv
    <3>2. ASSUME NEW j \in Proc, j # c PROVE Shown(j)'
      BY <1>2, <2>2, <3>2, OthersSame, ShownKept DEF ShownInv
    <3> QED
      BY <3>1, <3>2 DEF ShownInv
  <2> QED
    BY <1>2, <2>1, <2>2, NextIsStep
<1> QED
  BY <1>1, <1>2, TypeInvariant, PTL DEF Spec

(* Under EOS only a commit changes the topic.                               *)
LEMMA TopicStep ==
  ASSUME TypeInv, ShownInv, [Next]_vars, eos, topic' # topic
  PROVE  \E c \in Proc : CommitTransaction(c)
<1>1. ~((\E p \in Partition : Arrive(p)) \/ Rebalance \/ UNCHANGED vars)
  BY NothingMoves
<1>2. PICK c \in Proc : StepOf(c)
  BY <1>1, NextIsStep
<1>3. ~Publish(c)
  BY DEF ShownInv, Shown, Publish
<1>4. CommitTransaction(c)
  BY <1>2, <1>3 DEF StepOf, InPoll, Transaction, Start, Revoke, Assign, PollMessage, Fold,
     WriteRedis, AbortTransaction, Crash, Shutdown
<1> QED
  BY <1>4

(* OutputWithOffsets: a transaction that makes a record visible commits the *)
(* offsets of every event the record counts, or these were committed.       *)
THEOREM CommittedTogether == Spec => OutputWithOffsets
<1> DEFINE A == \A p \in Partition, m \in Message :
                  eos /\ topic'[p] # topic[p] /\ topic'[p][m] > 0 =>
                    \/ committed'[m[1]] # None /\ m[2] < committed'[m[1]]
                    \/ m \in straddled
<1>1. TypeInv /\ OnceInv /\ ShownInv /\ [Next]_vars => A
  <2> SUFFICES ASSUME TypeInv, OnceInv, ShownInv, [Next]_vars,
                      NEW p \in Partition, NEW m \in Message,
                      eos, topic'[p] # topic[p], topic'[p][m] > 0, m \notin straddled
               PROVE  committed'[m[1]] # None /\ m[2] < committed'[m[1]]
    OBVIOUS
  <2>1. PICK c \in Proc : CommitTransaction(c)
    BY TopicStep
  <2>2. p \in InHand(c) /\ topic'[p] = pending[c][p]
    BY <2>1 DEF CommitTransaction, Latest, InHand
  <2>3. Within(c, m)
    BY <2>2 DEF ShownInv, Shown, OnceInv, ReadOnce, Has
  <2>4. /\ m[1] \in Partition /\ m[2] \in Nat
        /\ from[c][m[1]] \in Nat /\ pos[c][m[1]] \in Nat
        /\ from[c][m[1]] < pos[c][m[1]] /\ pos[c][m[1]] # None
    <3>1. /\ m[1] \in Partition /\ m[2] \in Nat /\ pos[c][m[1]] # None
          /\ from[c][m[1]] <= m[2] /\ m[2] < pos[c][m[1]]
      BY <2>3, MessageShape DEF Within, Assigned
    <3>2. /\ from[c][m[1]] \in Offset /\ pos[c][m[1]] \in Offset
      BY <3>1 DEF TypeInv, TypeOK
    <3>3. /\ from[c][m[1]] \in Nat /\ pos[c][m[1]] \in Nat
      BY <3>2, ConstantFacts DEF Offset
    <3> QED
      BY <3>1, <3>3
  <2>5. committed'[m[1]] = pos[c][m[1]]
    BY <2>1, <2>4 DEF CommitTransaction, Positions
  <2> QED
    BY <2>3, <2>4, <2>5 DEF Within
<1>2. [Next]_vars /\ A => [A]_vars
  OBVIOUS
<1>3. OutputWithOffsets <=> [][A]_vars
  BY DEF OutputWithOffsets
<1> HIDE DEF A
<1> QED
  BY <1>1, <1>2, <1>3, TypeInvariant, OnceInvariant, ShownInvariant, PTL DEF Spec
-----------------------------------------------------------------------------
(* A process keeps what it relies on while nobody else writes the           *)
(* partitions it has in hand between the stores.                            *)
LEMMA HalfwayKept ==
  ASSUME TypeInv, NEW c \in Proc, Same(c), UNCHANGED eos, torn \subseteq torn', Halfway(c),
         \A p \in InHand(c) \ torn' : pc[c] = Midway =>
            /\ gen' = gen
            /\ IF eos THEN topic'[p] = topic[p] ELSE redis'[p] = redis[p]
  PROVE  Halfway(c)'
<1>1. /\ Midway' = Midway /\ InHand(c)' = InHand(c) /\ Assigned(c)' = Assigned(c)
      /\ pc'[c] = pc[c] /\ joined'[c] = joined[c] /\ pending'[c] = pending[c]
      /\ \A m \in Message : Has(c, m)' <=> Has(c, m)
  BY DEF Same, Midway, InHand, Assigned, Has
<1>2. \A m \in Message : Has(c, m)' /\ m[1] \notin torn' => m[1] \in Assigned(c)'
  BY <1>1 DEF Halfway
<1>3. ASSUME NEW p \in InHand(c) \ torn'
      PROVE  /\ p \in Assigned(c)
             /\ pc[c] = Midway =>
                  /\ joined[c] = gen'
                  /\ pending[c][p] = IF eos THEN topic'[p] ELSE redis'[p]
  BY <1>3 DEF Halfway
<1> QED
  BY <1>1, <1>2, <1>3 DEF Halfway

(* Two members of a generation have no partition in common.                 *)
LEMMA OneOwner ==
  ASSUME OnceInv, NEW c \in Proc, NEW j \in Proc, NEW p \in Partition,
         p \in Assigned(c), p \in Assigned(j), joined[c] = gen, joined[j] = gen
  PROVE  j = c
BY DEF OnceInv, Membership

LEMMA InHandShape ==
  ASSUME TypeInv, NEW c \in Proc
  PROVE  InHand(c) \subseteq Partition
BY DEF TypeInv, TypeOK, InHand

(* A process between its stores is the only one to write a partition.       *)
LEMMA OthersHalfway ==
  ASSUME TypeInv, OnceInv, \A i \in Proc : Halfway(i), ShownInv,
         NEW c \in Proc, StepOf(c), NEW j \in Proc, j # c
  PROVE  Halfway(j)'
<1>1. Same(j) /\ UNCHANGED <<eos, gen>> /\ torn \subseteq torn' /\ eos \in BOOLEAN
  BY OthersSame DEF TypeInv, TypeOK
<1>2. ASSUME NEW p \in InHand(j) \ torn', pc[j] = Midway
      PROVE  IF eos THEN topic'[p] = topic[p] ELSE redis'[p] = redis[p]
  <2>1. p \in Partition /\ p \in Assigned(j) /\ joined[j] = gen /\ p \notin torn
    BY <1>1, <1>2, InHandShape DEF Halfway
  <2>2. p \in InHand(c) => p \in Assigned(c)
    BY <2>1 DEF Halfway
  <2>3. CASE CommitTransaction(c)
    <3>1. p \notin InHand(c)
      BY <2>1, <2>2, <2>3, OneOwner DEF CommitTransaction
    <3>2. eos /\ topic'[p] = topic[p]
      BY <2>1, <2>3, <3>1 DEF CommitTransaction, Latest, InHand
    <3> QED
      BY <3>2
  <2>4. CASE WriteRedis(c)
    <3>1. CASE eos
      BY <2>4, <3>1 DEF WriteRedis
    <3>2. CASE ~eos
      <4>1. p \in InHand(c) => joined[c] = gen
        BY <1>2, <2>4, <3>2 DEF WriteRedis
      <4>2. p \notin InHand(c)
        BY <1>2, <2>1, <2>2, <4>1, OneOwner
      <4>3. redis'[p] = redis[p]
        BY <2>1, <2>4, <4>2 DEF WriteRedis, Latest, InHand
      <4> QED
        BY <3>2, <4>3
    <3> QED
      BY <3>1, <3>2
  <2>5. CASE Publish(c)
    <3>1. ~eos /\ redis' = redis
      BY <2>5 DEF Publish, ShownInv, Shown
    <3> QED
      BY <3>1
  <2>6. CASE ~(CommitTransaction(c) \/ WriteRedis(c) \/ Publish(c))
    <3>1. topic' = topic /\ redis' = redis
      BY <1>1, <2>6 DEF StepOf, InPoll, Transaction, Start, Revoke, Assign, PollMessage,
         Fold, AbortTransaction, Crash, Shutdown, Forget
    <3> QED
      BY <3>1
  <2> QED
    BY <2>3, <2>4, <2>5, <2>6
<1> QED
  BY <1>1, <1>2, HalfwayKept

LEMMA StepHalfway ==
  ASSUME TypeInv, OnceInv, ShownInv, NEW c \in Proc, Halfway(c), StepOf(c)
  PROVE  Halfway(c)'
<1>1. UNCHANGED <<eos, gen>> /\ torn \subseteq torn' /\ eos \in BOOLEAN
  BY OthersSame DEF TypeInv, TypeOK
<1>2. CASE Start(c) \/ Revoke(c) \/ Assign(c) \/ \E p \in Partition : PollMessage(c, p)
  <2>1. pc[c] \in {"down", "poll"} /\ pending' = pending
    BY <1>2 DEF Start, Revoke, Assign, PollMessage
  <2>2. InHand(c)' = {}
    BY <2>1 DEF ShownInv, Shown, InHand
  <2>3. ASSUME NEW m \in Message, Has(c, m)', m[1] \notin torn'
        PROVE  m[1] \in Assigned(c)'
    <3>1. CASE Start(c)
      BY <2>3, <3>1 DEF Start, Has, Assigned, Halfway, inputs, ghosts
    <3>2. CASE Revoke(c)
      <4>1. m \notin batch'[c] /\ m \in Message
        BY <2>3, <3>2 DEF Revoke
      <4>2. panes'[c][m] = IF m[1] \in Assigned(c) THEN 0 ELSE panes[c][m]
        BY <3>2 DEF Revoke, DropPartitions, TypeInv, TypeOK
      <4>3. panes'[c][m] > 0
        BY <2>3, <4>1 DEF Has
      <4>4. m[1] \notin Assigned(c) /\ Has(c, m)
        BY <4>2, <4>3 DEF Has
      <4> QED
        BY <1>1, <2>3, <4>4 DEF Halfway
    <3>3. CASE Assign(c)
      <4>1. Has(c, m) /\ joined[c] = None
        BY <2>3, <3>3 DEF Assign, Has
      <4>2. m[1] \notin Assigned(c)
        BY <4>1 DEF OnceInv, Membership
      <4> QED
        BY <1>1, <2>3, <4>1, <4>2 DEF Halfway
    <3>4. ASSUME NEW p \in Partition, PollMessage(c, p)
          PROVE  m[1] \in Assigned(c)'
      <4>1. Has(c, m) \/ m[1] = p
        BY <2>3, <3>4 DEF PollMessage, Has, TypeInv, TypeOK
      <4>2. Assigned(c) \subseteq Assigned(c)' /\ p \in Assigned(c)
        <5>1. pos[c][p] \in Nat /\ p \in Assigned(c)
          BY <3>4, ConstantFacts DEF PollMessage, Assigned, TypeInv, TypeOK, Offset
        <5>2. pos'[c][p] # None
          BY <3>4, <5>1, ConstantFacts DEF PollMessage, TypeInv, TypeOK
        <5>3. \A q \in Partition : q # p => pos'[c][q] = pos[c][q]
          BY <3>4 DEF PollMessage, TypeInv, TypeOK
        <5> QED
          BY <5>1, <5>2, <5>3 DEF Assigned
      <4> QED
        BY <1>1, <2>3, <4>1, <4>2 DEF Halfway
    <3> QED
      BY <1>2, <3>1, <3>2, <3>3, <3>4
  <2> QED
    BY <2>2, <2>3 DEF Halfway
<1>3. CASE AbortTransaction(c) \/ Crash(c) \/ Shutdown(c)
  <2>1. /\ InHand(c)' = {} /\ batch'[c] = {}
        /\ \A m \in Message : panes'[c][m] = 0
    BY <1>3, ForgetShape, RecordShape DEF AbortTransaction, Crash, Shutdown
  <2> QED
    BY <2>1 DEF Halfway, Has
<1>4. CASE Fold(c)
  <2>1. PICK due \in SUBSET Partition :
          /\ \A p \in due : OfPartition(c, p) # NoRecord
          /\ pending' = [pending EXCEPT ![c] = [p \in due |-> OfPartition(c, p)]]
    BY <1>4 DEF Fold, Folded, OfPartition
  <2>2. InHand(c)' = due
    BY <2>1 DEF InHand, TypeInv, Shape
  <2>3. /\ panes'[c] = Folded(c) /\ batch'[c] = {} /\ pos' = pos /\ torn' = torn
        /\ pc'[c] = IF eos THEN "commit" ELSE "cache"
    BY <1>4 DEF Fold, Folded, TypeInv, TypeOK
  <2>4. \A m \in Message : Has(c, m)' <=> Has(c, m)
    BY <2>3, FoldedShape DEF Has
  <2>5. \A m \in Message : Has(c, m) /\ m[1] \notin torn => m[1] \in Assigned(c)
    BY DEF Halfway
  <2>6. ASSUME NEW p \in due, p \notin torn PROVE p \in Assigned(c)
    <3>1. PICK m \in Message : OfPartition(c, p)[m] # 0
      <4>1. SUFFICES ASSUME \A m \in Message : OfPartition(c, p)[m] = 0
                     PROVE  FALSE
        OBVIOUS
      <4>2. OfPartition(c, p) = NoRecord
        BY <4>1 DEF OfPartition, NoRecord
      <4> QED
        BY <2>1, <4>2
    <3>2. m[1] = p /\ Folded(c)[m] # 0
      BY <3>1 DEF OfPartition
    <3>3. Folded(c)[m] > 0
      BY <3>2, FoldedShape DEF Record
    <3> QED
      BY <2>5, <2>6, <3>2, <3>3, FoldedShape
  <2>7. Assigned(c)' = Assigned(c) /\ pc'[c] # Midway'
    BY <1>1, <2>3 DEF Assigned, Midway
  <2> QED
    BY <2>2, <2>3, <2>4, <2>5, <2>6, <2>7 DEF Halfway
<1>5. CASE CommitTransaction(c) \/ WriteRedis(c) \/ Publish(c)
  <2>1. /\ \A m \in Message : Has(c, m)' <=> Has(c, m)
        /\ Assigned(c)' = Assigned(c) /\ UNCHANGED joined
    BY <1>5 DEF CommitTransaction, WriteRedis, Publish, inputs, Has, Assigned
  <2>2. \A m \in Message : Has(c, m)' /\ m[1] \notin torn' => m[1] \in Assigned(c)'
    BY <1>1, <2>1 DEF Halfway
  <2>3. CASE CommitTransaction(c)
    <3>1. eos /\ joined[c] = gen /\ pending' = pending
      BY <2>3 DEF CommitTransaction
    <3>2. \A p \in InHand(c) : topic'[p] = pending[c][p]
      BY <2>3, InHandShape DEF CommitTransaction, Latest, InHand
    <3>3. \A p \in InHand(c) \ torn' : p \in Assigned(c)
      BY <1>1 DEF Halfway
    <3>4. InHand(c)' = InHand(c)
      BY <3>1 DEF InHand
    <3> QED
      BY <1>1, <2>1, <2>2, <3>1, <3>2, <3>3, <3>4 DEF Halfway
  <2>4. CASE WriteRedis(c) /\ ~eos
    <3>1. pending' = pending
      BY <2>4 DEF WriteRedis
    <3>2. \A p \in InHand(c) : redis'[p] = pending[c][p]
      BY <2>4, InHandShape DEF WriteRedis, Latest, InHand
    <3>3. \A p \in InHand(c) \ torn' : p \in Assigned(c)
      BY <1>1 DEF Halfway
    <3>4. InHand(c)' = InHand(c)
      BY <3>1 DEF InHand
    <3>5. \A p \in InHand(c) \ torn' : joined[c] = gen
      BY <2>4 DEF WriteRedis
    <3> QED
      BY <1>1, <2>1, <2>2, <2>4, <3>1, <3>2, <3>3, <3>4, <3>5 DEF Halfway
  <2>5. CASE Publish(c) \/ (WriteRedis(c) /\ eos)
    <3>1. InHand(c)' = {}
      BY <2>5, RecordShape DEF WriteRedis, Publish, InHand, TypeInv, Shape
    <3> QED
      BY <2>2, <3>1 DEF Halfway
  <2> QED
    BY <1>5, <2>3, <2>4, <2>5
<1> QED
  BY <1>2, <1>3, <1>4, <1>5 DEF StepOf, InPoll, Transaction
(* What is left of Agree when a process takes its step.                     *)
LEMMA StepAgree ==
  ASSUME TypeInv, OnceInv, ShownInv, \A i \in Proc : Halfway(i), Agree,
         NEW c \in Proc, StepOf(c)
  PROVE  Agree'
<1>1. UNCHANGED eos /\ eos \in BOOLEAN /\ torn \subseteq torn' /\ Midway' = Midway
  BY OthersSame DEF TypeInv, TypeOK, Midway
<1>2. ASSUME NEW j \in Proc, j # c
      PROVE  InHand(j)' = InHand(j) /\ pc'[j] = pc[j]
  BY <1>2, OthersSame DEF Same, InHand
<1> SUFFICES ASSUME NEW p \in Partition \ torn'
             PROVE  \/ redis'[p] = topic'[p]
                    \/ \E j \in Proc : p \in InHand(j)' /\ pc'[j] = Midway
  BY <1>1 DEF Agree
<1>3. \/ redis[p] = topic[p]
      \/ \E j \in Proc : p \in InHand(j) /\ pc[j] = Midway
  BY <1>1 DEF Agree
<1>4. ASSUME UNCHANGED <<topic, redis>>,
             ~(p \in InHand(c) /\ pc[c] = Midway)
      PROVE  \/ redis'[p] = topic'[p]
             \/ \E j \in Proc : p \in InHand(j)' /\ pc'[j] = Midway
  BY <1>2, <1>3, <1>4
<1>5. CASE \/ Start(c) \/ Revoke(c) \/ Assign(c) \/ Fold(c) \/ Shutdown(c)
           \/ \E q \in Partition : PollMessage(c, q)
  <2>1. UNCHANGED <<topic, redis>> /\ pc[c] \in {"down", "poll"}
    BY <1>5 DEF Start, Revoke, Assign, Fold, Shutdown, PollMessage, Forget
  <2> QED
    BY <1>4, <2>1 DEF ShownInv, Shown
<1>6. CASE AbortTransaction(c) \/ Crash(c)
  <2>1. UNCHANGED <<topic, redis>> /\ (pc[c] # "commit" => p \notin InHand(c))
    BY <1>6 DEF AbortTransaction, Crash, Forget
  <2>2. pc[c] = "commit" => pc[c] # Midway
    BY DEF Midway
  <2> QED
    BY <1>4, <2>1, <2>2
<1>7. CASE CommitTransaction(c)
  <2>1. /\ redis' = redis /\ pc[c] = "commit" /\ pc'[c] = Midway
        /\ InHand(c)' = InHand(c)
        /\ p \notin InHand(c) => topic'[p] = topic[p]
    BY <1>7 DEF CommitTransaction, Latest, InHand, Midway, TypeInv, TypeOK
  <2>2. CASE p \in InHand(c)
    BY <2>1, <2>2
  <2>3. CASE p \notin InHand(c)
    BY <1>2, <1>3, <2>1, <2>3
  <2> QED
    BY <2>2, <2>3
<1>8. CASE WriteRedis(c)
  <2>1. /\ topic' = topic /\ pc[c] = "cache"
        /\ redis'[p] = IF p \in InHand(c) THEN pending[c][p] ELSE redis[p]
    BY <1>8 DEF WriteRedis, Latest, InHand
  <2>2. CASE p \notin InHand(c)
    BY <1>2, <1>3, <2>1, <2>2
  <2>3. CASE p \in InHand(c) /\ eos
    <3>1. pending[c][p] = topic[p]
      BY <1>1, <2>1, <2>3 DEF Halfway, Midway
    <3> QED
      BY <2>1, <2>3, <3>1
  <2>4. CASE p \in InHand(c) /\ ~eos
    <3>1. pc'[c] = Midway /\ pending' = pending
      BY <1>8, <2>4 DEF WriteRedis, Midway, TypeInv, TypeOK
    <3>2. p \in InHand(c)'
      BY <2>4, <3>1 DEF InHand
    <3> QED
      BY <3>1, <3>2
  <2> QED
    BY <2>2, <2>3, <2>4
<1>9. CASE Publish(c)
  <2>1. redis' = redis /\ pc[c] = "publish"
    BY <1>9 DEF Publish
  <2>2. pc[c] = Midway /\ ~eos
    BY <2>1 DEF ShownInv, Shown, Midway
  <2>3. CASE p \notin InHand(c)
    <3>1. topic'[p] = topic[p]
      BY <1>9, <2>3 DEF Publish, Latest, InHand
    <3> QED
      BY <1>2, <1>3, <2>1, <2>3, <3>1
  <2>4. CASE p \in InHand(c)
    <3>1. topic'[p] = pending[c][p]
      BY <1>9, <2>4 DEF Publish, Latest, InHand
    <3>2. pending[c][p] = redis[p]
      BY <1>1, <2>2, <2>4 DEF Halfway
    <3> QED
      BY <2>1, <3>1, <3>2
  <2> QED
    BY <2>3, <2>4
<1> QED
  BY <1>5, <1>6, <1>7, <1>8, <1>9 DEF StepOf, InPoll, Transaction

StoresInv == Agree /\ \A c \in Proc : Halfway(c)

LEMMA StoresInvariant == Spec => []StoresInv
<1>1. Init => StoresInv
  <2> SUFFICES ASSUME Init PROVE StoresInv
    OBVIOUS
  <2>1. Agree
    BY DEF Init, Agree
  <2>2. ASSUME NEW c \in Proc PROVE Halfway(c)
    <3>1. InHand(c) = {} /\ batch[c] = {} /\ \A m \in Message : panes[c][m] = 0
      BY RecordShape DEF Init, InHand
    <3> QED
      BY <3>1 DEF Halfway, Has
  <2> QED
    BY <2>1, <2>2 DEF StoresInv
<1>2. ASSUME TypeInv, OnceInv, ShownInv, StoresInv, [Next]_vars PROVE StoresInv'
  <2>1. CASE (\E p \in Partition : Arrive(p)) \/ Rebalance \/ UNCHANGED vars
    <3>1. /\ UNCHANGED <<eos, topic, redis>> /\ torn \subseteq torn'
          /\ \A j \in Proc : Same(j)
      BY <1>2, <2>1, NothingMoves
    <3>2. ASSUME NEW j \in Proc, NEW p \in InHand(j) \ torn'
          PROVE  gen' = gen
      <4>1. ~Rebalance
        BY <3>2 DEF Rebalance
      <4> QED
        BY <2>1, <4>1 DEF Arrive, vars, group
    <3>3. \A j \in Proc : Halfway(j)'
      BY <1>2, <3>1, <3>2, HalfwayKept DEF StoresInv
    <3>4. \A j \in Proc : InHand(j)' = InHand(j) /\ pc'[j] = pc[j]
      BY <3>1 DEF Same, InHand
    <3>5. Midway' = Midway
      BY <3>1 DEF Midway
    <3>6. Agree'
      BY <1>2, <3>1, <3>4, <3>5 DEF StoresInv, Agree
    <3> QED
      BY <3>3, <3>6 DEF StoresInv
  <2>2. ASSUME NEW c \in Proc, StepOf(c) PROVE StoresInv'
    <3>1. Halfway(c)'
      BY <1>2, <2>2, StepHalfway DEF StoresInv
    <3>2. ASSUME NEW j \in Proc, j # c PROVE Halfway(j)'
      BY <1>2, <2>2, <3>2, OthersHalfway DEF StoresInv
    <3>3. Agree'
      BY <1>2, <2>2, StepAgree DEF StoresInv
    <3> QED
      BY <3>1, <3>2, <3>3 DEF StoresInv
  <2> QED
    BY <1>2, <2>1, <2>2, NextIsStep
<1> QED
  BY <1>1, <1>2, TypeInvariant, OnceInvariant, ShownInvariant, PTL DEF Spec

(* RedisShowsTopic: whatever is aborted, replayed or moved, Redis and the   *)
(* features topic disagree of a partition only while a process has its      *)
(* record in hand, or once it was caught between the two.                   *)
THEOREM StoresAgree == Spec => []RedisShowsTopic
<1>1. StoresInv => RedisShowsTopic
  BY DEF StoresInv, Agree, RedisShowsTopic
<1> QED
  BY <1>1, StoresInvariant, PTL
=============================================================================
