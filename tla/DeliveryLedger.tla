---------------------------- MODULE DeliveryLedger -----------------------------
(***************************************************************************)
(* What a delivery accountant promises of a run: every record a producer   *)
(* accepts is settled at most once, as acknowledged or as failed, and once *)
(* the run is closed the books say what has become of each.                *)
(***************************************************************************)
EXTENDS Integers

VARIABLES
  accepted,       \* records the producer has taken
  acked, failed,  \* records settled, by outcome
  closed          \* the run has ended

ledger == <<accepted, acked, failed, closed>>

Init ==
  /\ accepted = 0 /\ acked = 0 /\ failed = 0
  /\ closed = FALSE

Accept ==
  /\ ~closed
  /\ accepted' = accepted + 1
  /\ UNCHANGED <<acked, failed, closed>>

(* A producer settles what is outstanding, several records at a time.       *)
Settle ==
  /\ ~closed
  /\ \E good, bad \in 0 .. accepted - acked - failed :
       /\ good + bad \in 1 .. accepted - acked - failed
       /\ acked' = acked + good
       /\ failed' = failed + bad
  /\ UNCHANGED <<accepted, closed>>

(* The last deliveries settle as the run ends; what is left stays in        *)
(* flight.                                                                  *)
Close ==
  /\ ~closed
  /\ closed' = TRUE
  /\ UNCHANGED <<accepted, acked, failed>>

Next == Accept \/ Settle \/ Close

Spec == Init /\ [][Next]_ledger
=============================================================================
