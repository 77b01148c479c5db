---------------------------------- MODULE Fleet --------------------------------
(***************************************************************************)
(* The multi-process harnesses: a script ensures its topic                 *)
(* (admin/topic_admin.py), plans the number of members (process_planner),  *)
(* spawns one child per member in a multiprocessing Pool, waits for all of *)
(* them and aggregates their reports (mp_runner, aggregator).  The three   *)
(* packages load_mp, consume_mp and validate_mp share this shape; the      *)
(* child of consume_mp, ConsumeRunner, is modelled in full, those of the   *)
(* other two are LoadRunner and the validator modules.                     *)
(*                                                                         *)
(* ConsumeRunner registers no rebalance callback, so librdkafka changes    *)
(* the assignment on its own thread, between any two steps of a member.    *)
(* The log does not grow: the benchmark drains a topic loaded before.      *)
(***************************************************************************)
EXTENDS Integers, Sequences, FiniteSetsExt

CONSTANTS
  Programs,          \* the harnesses to run: "load", "consume", "validate"
  Topics,            \* layouts found at the start: partitions, 0 when absent
  Wanted,            \* KafkaConfig.num_partitions of the script
  SetUpWanted,       \* ... of another process that ensures the same topic
  Cpus, Requested,   \* CPUs to plan for; --members, 0 when not given
  Workers,           \* workers_per_process of a load run
  LogEnd,            \* LogEnd[p]: records of partition p
  Unfit,             \* records that avro_dict_to_event rejects
  Damaged,           \* records whose bytes may not deserialize
  MaxBatch,          \* max_batch
  MaxFaults          \* bound: exceptions and killed children

Max1(n) == IF n < 1 THEN 1 ELSE n

MaxTopic == Max(Topics \cup {Wanted, SetUpWanted})

ASSUME FleetConstants ==
  /\ {Wanted, SetUpWanted, Workers, MaxBatch} \subseteq Nat \ {0} /\ MaxFaults \in Nat
  /\ IsFiniteSet(Topics) /\ Topics \subseteq Nat
  /\ IsFiniteSet(Cpus) /\ Cpus \subseteq Nat \ {0}
  /\ IsFiniteSet(Requested) /\ Requested \subseteq Nat
  /\ LogEnd \in [1 .. MaxTopic -> Nat]

VARIABLES
  program, until_caught_up,  \* the command line
  undecodable,               \* records whose bytes do not deserialize
  topic,                     \* partitions of the topic, 0 when absent
  admin,                     \* steps of the two processes that ensure it
  parent, members,           \* the script's process and its plan
  child,                     \* where each member is
  late,                      \* members past their deadline
  batch,                     \* messages a member has polled
  consumed, unfit,           \* each member's accountant
  counted,                   \* history: records some accountant has recorded
  owner, position,           \* the assignment, -1 before a partition's first fetch
  committed, stale,          \* the group's offsets; has its membership changed?
  blind, cut,                \* history: a member took a lag of 0 it could not
                             \* see for caught up; a member met its deadline
  orphaned,                  \* history: records left to read were assigned to
                             \* a member past its loop but not yet closed
  faults

script  == <<program, until_caught_up, undecodable, parent, members>>
topics  == <<topic, admin>>
loop    == <<child, late, batch>>
books   == <<consumed, unfit, counted>>
group   == <<owner, position, committed, stale>>
ghosts  == <<blind, cut, orphaned, faults>>
vars    == <<script, topics, loop, books, group, ghosts>>

Parts   == 1 .. MaxTopic
Members == 1 .. Max(Cpus \cup Requested \cup {Wanted})
Inside  == {"top", "poll", "process", "commit", "lag", "ended", "raising"}
Joined  == {i \in Members : child[i] \in Inside}
Owned(i) == {p \in Parts : owner[p] = i}
OwnedAll(i) == Owned(i)     \* mutant: positions taken as they are
Fetched(i) == {p \in Owned(i) : position[p] >= 0}

TypeOK ==
  /\ program \in Programs /\ until_caught_up \in BOOLEAN /\ undecodable \subseteq Damaged
  /\ topic \in Topics \cup {Wanted, SetUpWanted}
  /\ admin \in [{"script", "setup"} -> {"look", "create", "CREATED", "MATCHING", "MISMATCH", "off"}]
  /\ parent \in {"start", "waiting", "reported", "raised"}
  /\ members \in {0} \cup Members
  /\ child \in [Members -> Inside \cup {"off", "queued", "working", "done", "failed", "killed"}]
  /\ late \subseteq Members
  /\ batch \in [Members -> Seq(Parts \X Nat)]
  /\ \A i \in Members : Len(batch[i]) <= MaxBatch
  /\ consumed \in [Members -> Nat] /\ unfit \in [Members -> Nat]
  /\ \A i \in Members : unfit[i] <= consumed[i]
  /\ counted \subseteq Parts \X Nat
  /\ owner \in [Parts -> {0} \cup Joined]
  /\ position \in [Parts -> Int] /\ committed \in [Parts -> Nat]
  /\ \A p \in Parts : position[p] \in -1 .. LogEnd[p] /\ committed[p] \in 0 .. LogEnd[p]
  /\ stale \in BOOLEAN /\ blind \in BOOLEAN /\ cut \in BOOLEAN /\ orphaned \in BOOLEAN
  /\ faults \in 0 .. MaxFaults

Init ==
  /\ program \in Programs /\ until_caught_up \in BOOLEAN
  /\ program # "consume" => ~until_caught_up
  /\ undecodable \in {{}, Damaged}
  /\ program # "consume" => undecodable = {}
  /\ topic \in Topics
  /\ admin = [script |-> IF program = "load" THEN "look" ELSE "off", setup |-> "look"]
  /\ parent = "start" /\ members = 0
  /\ child = [i \in Members |-> "off"] /\ late = {}
  /\ batch = [i \in Members |-> <<>>]
  /\ consumed = [i \in Members |-> 0] /\ unfit = consumed /\ counted = {}
  /\ owner = [p \in Parts |-> 0] /\ position = [p \in Parts |-> -1]
  /\ committed = [p \in Parts |-> 0] /\ stale = FALSE
  /\ blind = FALSE /\ cut = FALSE /\ orphaned = FALSE /\ faults = 0

-----------------------------------------------------------------------------
(* Ensuring the topic: ensure_topic looks first and never alters; a topic   *)
(* created by another process in between counts as created.  Bound: the     *)
(* other process acts, if at all, before the members are planned.           *)

Layout(a) == IF a = "script" THEN Wanted ELSE SetUpWanted

Look(a) ==
  /\ admin[a] = "look"
  /\ admin' = [admin EXCEPT ![a] = IF topic = 0 THEN "create"
                                   ELSE IF topic = Layout(a) THEN "MATCHING" ELSE "MISMATCH"]
  /\ UNCHANGED <<topic, script, loop, books, group, ghosts>>

Create(a) ==
  /\ admin[a] = "create"
  /\ topic' = IF topic = 0 THEN Layout(a) ELSE topic
  /\ admin' = [admin EXCEPT ![a] = "CREATED"]
  /\ UNCHANGED <<script, loop, books, group, ghosts>>

-----------------------------------------------------------------------------
(* Planning and spawning.                                                   *)

Budget(cpus, onHost) == Max1(IF onHost THEN cpus \div 2 ELSE cpus - 1)

(* run_validator_mp describes the topic, the other two trust KafkaConfig.   *)
Partitions == IF program = "validate" THEN topic ELSE Wanted

Cap == IF program = "load" THEN Max1(Partitions \div Workers) ELSE Partitions

(* The planned number of members, 0 for a ValueError or KeyError.           *)
Planned(budget, requested) ==
  IF Partitions = 0 \/ requested > Cap THEN 0
  ELSE IF requested # 0 THEN requested
  ELSE Min({Cap, budget})

Plan ==
  /\ parent = "start" /\ admin["script"] \notin {"look", "create"}
  /\ \E cpus \in Cpus, onHost \in BOOLEAN, requested \in Requested :
       members' = Planned(Budget(cpus, onHost), requested)
  /\ parent' = IF members' = 0 THEN "raised" ELSE "waiting"
  /\ child' = [i \in Members |-> IF i <= members' THEN "queued" ELSE "off"]
  /\ admin' = [a \in {"script", "setup"} |-> "off"]    \* the outcomes are only logged
  /\ UNCHANGED <<program, until_caught_up, undecodable, topic, late, batch, books, group, ghosts>>

Start(i) ==
  /\ child[i] = "queued"
  /\ child' = [child EXCEPT ![i] = IF program = "consume" THEN "top" ELSE "working"]
  /\ stale' = (stale \/ program = "consume")
  /\ UNCHANGED <<script, topics, late, batch, books, owner, position, committed, ghosts>>

(* A load child stops at its duration.  Nothing asks a validator child to:  *)
(* it installs no signal handler and has no duration.                       *)
Work(i) ==
  /\ child[i] = "working" /\ program = "load"
  /\ child' = [child EXCEPT ![i] = "done"]
  /\ UNCHANGED <<script, topics, late, batch, books, group, ghosts>>

(* Pool.map returns when every child has, and then raises the first error.  *)
Return ==
  /\ parent = "waiting"
  /\ \A i \in 1 .. members : child[i] \in {"done", "failed"}
  /\ parent' = IF \E i \in 1 .. members : child[i] = "failed" THEN "raised" ELSE "reported"
  /\ UNCHANGED <<program, until_caught_up, undecodable, members, topics, loop, books, group, ghosts>>

-----------------------------------------------------------------------------
(* The loop of a ConsumeRunner.                                             *)

Deadline(i) ==
  /\ child[i] \in Inside /\ i \notin late
  /\ late' = late \cup {i}
  /\ UNCHANGED <<script, topics, child, batch, books, group, ghosts>>

(* Mutant: the loop has no deadline.                                        *)
TopForever(i) ==
  /\ child[i] = "top"
  /\ child' = [child EXCEPT ![i] = "poll"]
  /\ UNCHANGED <<script, topics, late, batch, books, group, ghosts>>

Top(i) ==
  /\ child[i] = "top"
  /\ child' = [child EXCEPT ![i] = IF i \in late THEN "ended" ELSE "poll"]
  /\ cut' = (cut \/ i \in late)
  /\ UNCHANGED <<script, topics, late, batch, books, group, blind, orphaned, faults>>

Upcoming(p) == IF position[p] >= 0 THEN position[p] ELSE committed[p]

(* One poll of poll_batch; undecodable bytes raise out of it.               *)
PollMessage(i) ==
  /\ child[i] = "poll" /\ Len(batch[i]) < MaxBatch
  /\ \E p \in Owned(i) : LET offset == Upcoming(p) IN
       /\ offset < LogEnd[p]
       /\ position' = [position EXCEPT ![p] = offset + 1]
       /\ IF <<p, offset>> \in undecodable
          THEN child' = [child EXCEPT ![i] = "raising"] /\ UNCHANGED batch
          ELSE batch' = [batch EXCEPT ![i] = Append(@, <<p, offset>>)] /\ UNCHANGED child
  /\ UNCHANGED <<script, topics, late, books, owner, committed, stale, ghosts>>

EndPoll(i) ==
  /\ child[i] = "poll"
  /\ child' = [child EXCEPT ![i] = IF batch[i] = <<>> THEN "lag" ELSE "process"]
  /\ UNCHANGED <<script, topics, late, batch, books, group, ghosts>>

Polled(i) == {batch[i][k] : k \in DOMAIN batch[i]}

ProcessBatch(i) ==
  /\ child[i] = "process"
  /\ child' = [child EXCEPT ![i] = "commit"]
  /\ consumed' = [consumed EXCEPT ![i] = @ + Len(batch[i])]
  /\ unfit' = [unfit EXCEPT
       ![i] = @ + Cardinality({k \in DOMAIN batch[i] : batch[i][k] \in Unfit})]
  /\ counted' = counted \cup Polled(i)
  /\ UNCHANGED <<script, topics, late, batch, group, ghosts>>

(* commit() commits the positions of the partitions assigned by now, and    *)
(* raises when none of them has been fetched from.                          *)
Commit(i) ==
  /\ child[i] = "commit"
  /\ child' = [child EXCEPT ![i] = IF Fetched(i) = {} THEN "raising" ELSE "lag"]
  /\ committed' = [p \in Parts |-> IF p \in Fetched(i) THEN position[p] ELSE committed[p]]
  /\ batch' = [batch EXCEPT ![i] = <<>>]
  /\ UNCHANGED <<script, topics, late, books, owner, position, stale, ghosts>>

(* consumer_lag skips a partition without a position, and is 0 when nothing *)
(* is assigned: the sum counts the unread records of the others.            *)
Unread(P) == UNION {{p} \X (position[p] .. LogEnd[p] - 1) : p \in P}

(* Mutant: the lag of one of the partitions.                                *)
LagOfFirst(i) ==
  Cardinality(Unread(IF Fetched(i) = {} THEN {} ELSE {Min(Fetched(i))}))

Lag(i) == Cardinality(Unread(Fetched(i)))

Unseen(i) == Owned(i) = {} \/ \E p \in Owned(i) \ Fetched(i) : committed[p] < LogEnd[p]

SampleLag(i) ==
  /\ child[i] = "lag"
  /\ LET caughtUp == until_caught_up /\ Lag(i) <= 0 IN
       /\ child' = [child EXCEPT ![i] = IF caughtUp THEN "ended" ELSE "top"]
       /\ blind' = (blind \/ (caughtUp /\ Unseen(i)))
  /\ UNCHANGED <<script, topics, late, batch, books, group, cut, orphaned, faults>>

(* What a closed or killed member leaves to the group.                      *)
Leave(i) ==
  /\ owner' = [p \in Parts |-> IF owner[p] = i THEN 0 ELSE owner[p]]
  /\ position' = [p \in Parts |-> IF owner[p] = i THEN -1 ELSE position[p]]
  /\ stale' = TRUE
  /\ UNCHANGED committed

(* Mutant: enable.auto.commit, which commits the positions on close.        *)
CloseCommitting(i) ==
  /\ child[i] \in {"ended", "raising"}
  /\ child' = [child EXCEPT ![i] = IF child[i] = "ended" THEN "done" ELSE "failed"]
  /\ batch' = [batch EXCEPT ![i] = <<>>]
  /\ committed' = [p \in Parts |-> IF p \in Fetched(i) THEN position[p] ELSE committed[p]]
  /\ owner' = [p \in Parts |-> IF owner[p] = i THEN 0 ELSE owner[p]]
  /\ position' = [p \in Parts |-> IF owner[p] = i THEN -1 ELSE position[p]]
  /\ stale' = TRUE
  /\ UNCHANGED <<script, topics, late, books, ghosts>>

Close(i) ==
  /\ child[i] \in {"ended", "raising"}
  /\ child' = [child EXCEPT ![i] = IF child[i] = "ended" THEN "done" ELSE "failed"]
  /\ batch' = [batch EXCEPT ![i] = <<>>]
  /\ Leave(i)
  /\ UNCHANGED <<script, topics, late, books, ghosts>>

-----------------------------------------------------------------------------
(* The group coordinator (external): members rejoin after a change, then    *)
(* receive a balanced assignment and start from the committed offsets.      *)

Revoke(i) ==
  /\ stale /\ child[i] \in Inside /\ Owned(i) # {}
  /\ owner' = [p \in Parts |-> IF owner[p] = i THEN 0 ELSE owner[p]]
  /\ position' = [p \in Parts |-> IF owner[p] = i THEN -1 ELSE position[p]]
  /\ UNCHANGED <<script, topics, loop, books, committed, stale, ghosts>>

Load(f, i) == Cardinality({p \in 1 .. topic : f[p] = i})

Assign ==
  /\ stale /\ Joined # {}
  /\ \A i \in Joined : Owned(i) = {}
  /\ \E f \in [1 .. topic -> Joined] :
       /\ \A i, j \in Joined : Load(f, i) <= Load(f, j) + 1
       /\ owner' = [p \in Parts |-> IF p <= topic THEN f[p] ELSE 0]
       /\ orphaned' = (orphaned \/ \E p \in 1 .. topic :
                          child[f[p]] = "ended" /\ committed[p] < LogEnd[p])
  /\ stale' = FALSE
  /\ UNCHANGED <<script, topics, loop, books, position, committed, blind, cut, faults>>

(* Faults: an exception in a child (no subject, a broker error) reaches the *)
(* Pool as its result; a killed child never answers.                        *)
Raise(i) ==
  /\ faults < MaxFaults /\ faults' = faults + 1
  /\ \/ child[i] \in {"poll", "commit", "lag"} /\ child' = [child EXCEPT ![i] = "raising"]
     \/ child[i] \in {"queued", "working"} /\ child' = [child EXCEPT ![i] = "failed"]
  /\ UNCHANGED <<script, topics, late, batch, books, group, blind, cut, orphaned>>

Kill(i) ==
  /\ faults < MaxFaults /\ faults' = faults + 1
  /\ child[i] \in Inside \cup {"queued", "working"}
  /\ child' = [child EXCEPT ![i] = "killed"]
  /\ batch' = [batch EXCEPT ![i] = <<>>]
  /\ Leave(i)
  /\ UNCHANGED <<script, topics, late, books, blind, cut, orphaned>>

-----------------------------------------------------------------------------
MemberSteps(i) ==
  \/ Start(i) \/ Work(i) \/ Deadline(i) \/ Top(i) \/ EndPoll(i)
  \/ ProcessBatch(i) \/ Commit(i) \/ SampleLag(i) \/ Close(i)

Next ==
  \/ \E a \in {"script", "setup"} : Look(a) \/ Create(a)
  \/ Plan \/ Return
  \/ \E i \in Members : MemberSteps(i) \/ PollMessage(i)
  \/ \E i \in Members : Revoke(i) \/ Raise(i) \/ Kill(i)
  \/ Assign

Spec == Init /\ [][Next]_vars

(* Processes run, a poll ends at its timeout and time passes; nothing       *)
(* obliges the broker to deliver or the group to settle.                    *)
FairSpec ==
  /\ Spec
  /\ \A a \in {"script", "setup"} : WF_vars(Look(a) \/ Create(a))
  /\ WF_vars(Plan) /\ WF_vars(Return)
  /\ \A i \in Members : WF_vars(Start(i)) /\ WF_vars(Work(i)) /\ WF_vars(Deadline(i))
  /\ \A i \in Members : WF_vars(Top(i) \/ EndPoll(i) \/ ProcessBatch(i) \/ Commit(i)
                                  \/ SampleLag(i) \/ Close(i))

-----------------------------------------------------------------------------
Committed == UNION {{p} \X (0 .. committed[p] - 1) : p \in Parts}

(* The records can be credited to members, each to one, so that none is     *)
(* credited with more than its accountant consumed: together the members    *)
(* consumed at least that many.                                             *)
Creditable(records) ==
  \E credit \in [records -> Members] : \A i \in Members :
    Cardinality({r \in records : credit[r] = i}) <= consumed[i]

(* No offset is committed before its record is in some member's books,      *)
(* whatever the group does between a poll and the commit after it, and a    *)
(* report, which adds up what the members consumed, never shows fewer       *)
(* records than the group has committed (ConsumeRunner.run,                 *)
(* aggregate_outcomes).                                                     *)
CommittedWasCounted ==
  /\ Committed \subseteq counted
  /\ parent = "reported" => Creditable(Committed)

(* A run that ends because every member had caught up has drained the       *)
(* topic, unless a member took for a lag of 0 that nothing was assigned to  *)
(* it, or nothing fetched, or a rebalance gave records to a member between  *)
(* the end of its loop and its close (until_caught_up, consumer_lag).       *)
DrainedUnlessBlind ==
  program = "consume" /\ parent = "reported" /\ ~cut /\ ~blind /\ ~orphaned =>
    \A p \in 1 .. topic : committed[p] = LogEnd[p]

(* The parent of a load or consume run always returns, with a report or an  *)
(* error, unless one of its children is killed: Pool.map then waits for an  *)
(* answer that never comes.                                                 *)
RunReturns ==
  (parent = "start" /\ program # "validate") ~>
    (parent \in {"reported", "raised"} \/ \E i \in Members : child[i] = "killed")
=============================================================================
