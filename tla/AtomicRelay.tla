------------------------------ MODULE AtomicRelay ------------------------------
(***************************************************************************)
(* What the transactional validator promises to a read_committed reader:   *)
(* outputs and input offsets move in one step, a step covers a stretch of  *)
(* each partition that no earlier step covered, and it puts one record for *)
(* every message of the stretch, in the topic of its verdict.  The only    *)
(* messages a stretch may leave out are those of an aborted transaction.   *)
(***************************************************************************)
EXTENDS Integers

CONSTANTS Partition, LogEnd, Verdict

VARIABLES committed, copies, aborted

Message == UNION {{p} \X (0 .. LogEnd[p] - 1) : p \in Partition}
Topic   == {"validated", "dlq"}
Record  == Topic \X Message
RouteOf(m) == IF Verdict[m] = "valid" THEN "validated" ELSE "dlq"

Init ==
  /\ committed = [p \in Partition |-> 0]
  /\ copies = [r \in Record |-> 0]
  /\ aborted = {}

(* The messages a move of the offsets from committed to committed' covers.  *)
Stretch == {m \in Message : committed[m[1]] <= m[2] /\ m[2] < committed'[m[1]]}

(* One committed transaction.                                               *)
RelayBatch ==
  /\ \A p \in Partition : committed[p] <= committed'[p]
  /\ \E left \in SUBSET (Stretch \cap aborted) :
       copies' = [r \in Record |->
                    copies[r] + (IF /\ r[2] \in Stretch \ left
                                    /\ r[1] = RouteOf(r[2])
                                 THEN 1 ELSE 0)]
  /\ UNCHANGED aborted

(* One aborted transaction: some messages of the log lose their turn.       *)
AbortBatch ==
  /\ aborted \subseteq aborted'
  /\ UNCHANGED <<committed, copies>>

Next == RelayBatch \/ AbortBatch

Spec == Init /\ [][Next]_<<committed, copies, aborted>>
=============================================================================
