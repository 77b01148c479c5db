----------------------------- MODULE IdempotentSink -----------------------------
(***************************************************************************)
(* What the Postgres sink promises about raw_events ("at-least-once read,  *)
(* idempotent write"): rows only appear, one per event id, and the offsets *)
(* of the group only advance, over messages whose rows are already there.  *)
(* Messages that fail validation are dropped.                              *)
(***************************************************************************)
EXTENDS Integers

CONSTANTS Partition, LogEnd, Verdict, IdOf

VARIABLES committed, table

Message == UNION {{p} \X (0 .. LogEnd[p] - 1) : p \in Partition}

Init ==
  /\ committed = [p \in Partition |-> 0]
  /\ table = {}

(* One batch becomes visible to the readers of the table.                   *)
Store ==
  /\ \E stored \in SUBSET {m \in Message : Verdict[m] = "event"} :
       table' = table \cup {IdOf[m] : m \in stored}
  /\ UNCHANGED committed

(* The group's offsets follow.                                              *)
Advance ==
  /\ \A p \in Partition : committed[p] <= committed'[p]
  /\ \A m \in Message :
       m[2] < committed'[m[1]] => Verdict[m] = "rejected" \/ IdOf[m] \in table
  /\ UNCHANGED table

Spec == Init /\ [][Store \/ Advance]_<<committed, table>>
=============================================================================
