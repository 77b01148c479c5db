---------------------------- MODULE MCSinkRunner ----------------------------
(* Small instances of SinkRunner.                                           *)
EXTENDS SinkRunner, TLC

CONSTANTS i, j, p, a, b   \* two processes, a partition, two event ids

(* An event, a message that is dropped, the event again, another event.     *)
MixedLogEnd  == (p :> 4)
MixedVerdict == (<<p, 0>> :> "event") @@ (<<p, 1>> :> "rejected")
                @@ (<<p, 2>> :> "event") @@ (<<p, 3>> :> "event")
MixedIdOf    == (<<p, 0>> :> a) @@ (<<p, 1>> :> b) @@ (<<p, 2>> :> a)
                @@ (<<p, 3>> :> b)
=============================================================================
