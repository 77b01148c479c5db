--------------------------- MODULE MCSlidingWindows ---------------------------
(* Small instances of SlidingWindows.                                       *)
EXTENDS SlidingWindows, TLC

CONSTANTS e1, e2, e3,   \* events of one user
          u, p,         \* a user, a partition
          short, long   \* resolutions

OneUser      == [e \in Event |-> u]
OnePartition == [x \in User |-> p]

(* A window of two panes, and one of two larger panes.                      *)
SlideTicks == (short :> 1) @@ (long :> 2)
SizeTicks  == (short :> 2) @@ (long :> 4)

(* Two events close together and one that is far ahead.                     *)
EventTimes == (e1 :> 2) @@ (e2 :> 3) @@ (e3 :> 7)
=============================================================================
