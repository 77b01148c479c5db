----------------------------- MODULE MCValidatorAlo -----------------------------
(* A small instance of ValidatorAlo.                                        *)
EXTENDS ValidatorAlo, TLC

CONSTANTS i, j, p   \* two processes, a partition

(* Both routes.                                                             *)
MixedLogEnd  == (p :> 2)
MixedVerdict == (<<p, 0>> :> "valid") @@ (<<p, 1>> :> "invalid")
=============================================================================
