---------------------------- MODULE MCValidatorEos ----------------------------
(* Small instances of ValidatorEos.                                         *)
EXTENDS ValidatorEos, TLC

CONSTANTS a1, a2, b1,   \* processes: a1 and a2 run as member a, b1 as member b
          a, b,         \* transactional ids
          p, q          \* partitions

(* One member with a stalled predecessor; q ends in an undecodable message. *)
ZombieIdOf    == (a1 :> a) @@ (a2 :> a)
ZombieVerdict == (<<p, 0>> :> "valid") @@ (<<p, 1>> :> "invalid")
                   @@ (<<q, 0>> :> "valid") @@ (<<q, 1>> :> "undecodable")

(* One member alone.                                                        *)
SingleIdOf   == (a1 :> a)

(* Two members that pass partition p between them.                          *)
GroupIdOf    == (a1 :> a) @@ (b1 :> b)
GroupVerdict == (<<p, 0>> :> "valid") @@ (<<p, 1>> :> "invalid")

ZombieLogEnd == (p :> 2) @@ (q :> 2)
GroupLogEnd  == (p :> 2)
=============================================================================
