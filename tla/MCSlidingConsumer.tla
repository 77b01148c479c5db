--------------------------- MODULE MCSlidingConsumer ---------------------------
(* A small instance of SlidingConsumer: two processes of a group.           *)
EXTENDS SlidingConsumer, TLC

CONSTANTS c1, c2, p

ToFirst == [x \in {p} |-> c1]
=============================================================================
