--------------------------------- MODULE MCFleet -------------------------------
(* A topic of two partitions, one of them short, for at most two members.   *)
EXTENDS Fleet

OneAndTwo == <<1, 2>>
OneUnfit == {<<1, 0>>}
OneDamaged == {<<2, 1>>}
=============================================================================
