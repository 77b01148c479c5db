------------------------------ MODULE MCLoadRunner -----------------------------
(* A small instance of LoadRunner: two threads.                             *)
EXTENDS LoadRunner, TLC

CONSTANTS t1, t2
=============================================================================
