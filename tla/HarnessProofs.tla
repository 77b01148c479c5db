----------------------------- MODULE HarnessProofs -----------------------------
(***************************************************************************)
(* Theorems about the processes that load and measure the topics: Fleet,   *)
(* whose parents spawn them and whose members read as a group, and         *)
(* LoadRunner (from RunTypeOK on), the threads of one that produces.       *)
(*                                                                         *)
(* The group may take a partition away between any two steps of the member *)
(* that reads it.  What survives that is: behind a committed offset all    *)
(* records are counted; behind a position they are counted or in the hands *)
(* of the partition's owner (Tracked); each counted record can be credited *)
(* to the member that consumed it (Booked); outside its batch a member has *)
(* committed what it fetched (Sync); and while records are left, somebody  *)
(* is still going to see them, or no report will be made (DrainInv).       *)
(***************************************************************************)
EXTENDS Fleet, LoadRunner, FiniteSetTheorems, WellFoundedInduction, TLAPS

-----------------------------------------------------------------------------
(* Numbers and finite sets.                                                 *)

(* A set of numbers has a least element.                                    *)
LEMMA LeastOf ==
  ASSUME NEW T \in SUBSET Nat, T # {}
  PROVE  \E n \in T : \A m \in T : n <= m
<1>1. \E n \in T : \A m \in T : ~ (<<m, n>> \in OpToRel(<, Nat))
  BY NatLessThanWellFounded, WFMin
<1>2. PICK n \in T : \A m \in T : ~ (<<m, n>> \in OpToRel(<, Nat))
  BY <1>1
<1>3. \A m \in T : ~ (m < n)
  BY <1>2 DEF OpToRel
<1> QED
  BY <1>3

(* A finite set of numbers has an upper bound: by induction on how many of  *)
(* its elements have been counted.                                          *)
LEMMA FiniteIsBounded ==
  ASSUME NEW S \in SUBSET Nat, IsFiniteSet(S)
  PROVE  \E m \in Nat : \A s \in S : s <= m
<1>1. PICK n \in Nat : ExistsBijection(1 .. n, S)
  BY FS_NatBijection
<1>2. PICK f : f \in Bijection(1 .. n, S)
  BY <1>1 DEF ExistsBijection
<1>3. f \in [1 .. n -> S] /\ \A s \in S : \E j \in 1 .. n : f[j] = s
  BY <1>2 DEF Bijection, Injection, Surjection
<1>4. \A j \in 1 .. n : f[j] \in Nat
  BY <1>3
<1> DEFINE Bounded(k) == \E m \in Nat : \A j \in 1 .. k : j <= n => f[j] <= m
           Bad == {k \in Nat : ~Bounded(k)}
<1>5. Bounded(0)
  OBVIOUS
<1>6. ASSUME NEW k \in Nat, Bounded(k) PROVE Bounded(k + 1)
  <2>1. PICK m \in Nat : \A j \in 1 .. k : j <= n => f[j] <= m
    BY <1>6
  <2>2. PICK q \in Nat : m <= q /\ (k + 1 <= n => f[k + 1] <= q)
    <3>1. CASE k + 1 <= n
      <4>1. f[k + 1] \in Nat
        BY <1>4, <3>1
      <4>2. CASE m <= f[k + 1]
        BY <4>1, <4>2
      <4>3. CASE f[k + 1] <= m
        BY <4>3
      <4> QED
        BY <4>1, <4>2, <4>3
    <3>2. CASE ~(k + 1 <= n)
      BY <3>2
    <3> QED
      BY <3>1, <3>2
  <2>3. ASSUME NEW j \in 1 .. k + 1, j <= n PROVE f[j] <= q
    <3>1. CASE j = k + 1
      BY <2>2, <2>3, <3>1
    <3>2. CASE j # k + 1
      <4>1. j \in 1 .. k /\ j \in 1 .. n
        BY <2>3, <3>2
      <4>2. f[j] <= m /\ f[j] \in Nat
        BY <1>4, <2>1, <2>3, <4>1
      <4> QED
        BY <2>2, <4>2
    <3> QED
      BY <3>1, <3>2
  <2> QED
    BY <2>3
<1>7. Bounded(n)
  <2> HIDE DEF Bounded
  <2>1. SUFFICES ASSUME n \in Bad PROVE FALSE
    OBVIOUS
  <2>2. PICK k \in Bad : \A j \in Bad : k <= j
    <3>1. Bad \in SUBSET Nat /\ Bad # {}
      BY <2>1
    <3> HIDE DEF Bad
    <3> QED
      BY <3>1, LeastOf
  <2>3. k \in Nat /\ ~Bounded(k)
    BY <2>2
  <2>4. k # 0
    BY <1>5, <2>3
  <2>5. k - 1 \in Nat /\ (k - 1) + 1 = k
    BY <2>3, <2>4
  <2>6. ~Bounded(k - 1)
    BY <1>6, <2>3, <2>5
  <2>7. k <= k - 1
    BY <2>2, <2>5, <2>6
  <2> QED
    BY <2>3, <2>7
<1>8. PICK m \in Nat : \A j \in 1 .. n : f[j] <= m
  BY <1>7
<1> QED
  BY <1>3, <1>8

(* The maximum the model takes of a finite set of numbers is one of them.   *)
LEMMA MaxOf ==
  ASSUME NEW S \in SUBSET Nat, IsFiniteSet(S), S # {}
  PROVE  Max(S) \in S /\ \A s \in S : s <= Max(S)
<1> DEFINE U == {m \in Nat : \A s \in S : s <= m}
<1>1. U # {}
  BY FiniteIsBounded
<1>2. PICK u \in U : \A m \in U : u <= m
  <2> HIDE DEF U
  <2>1. U \in SUBSET Nat
    BY DEF U
  <2> QED
    BY <1>1, <2>1, LeastOf
<1>3. u \in S
  <2>1. CASE u = 0
    <3>1. PICK s : s \in S
      OBVIOUS
    <3>2. s \in Nat /\ s <= 0
      BY <1>2, <2>1, <3>1
    <3> QED
      BY <2>1, <3>1, <3>2
  <2>2. CASE u # 0 /\ u \notin S
    <3>1. u - 1 \in Nat
      BY <2>2
    <3>2. \A s \in S : s <= u - 1
      BY <2>2
    <3> QED
      BY <1>2, <3>1, <3>2
  <2> QED
    BY <2>1, <2>2
<1>4. \E x \in S : \A y \in S : x >= y
  BY <1>2, <1>3
<1>5. Max(S) \in S /\ \A y \in S : Max(S) >= y
  BY <1>4 DEF Max
<1> QED
  BY <1>5

(* So is the smaller of two numbers.                                        *)
LEMMA MinOfTwo ==
  ASSUME NEW a \in Nat, NEW b \in Nat
  PROVE  Min({a, b}) \in {a, b} /\ Min({a, b}) <= a /\ Min({a, b}) <= b
<1>1. \E x \in {a, b} : \A y \in {a, b} : x <= y
  OBVIOUS
<1>2. Min({a, b}) \in {a, b} /\ \A y \in {a, b} : Min({a, b}) <= y
  BY <1>1 DEF Min
<1> QED
  BY <1>2

-----------------------------------------------------------------------------
(* The constants: how many partitions and members there can be.             *)

(* There are finitely many partitions and members, numbered from 1, and     *)
(* what the constants can ask for is among them.                            *)
LEMMA Sizes ==
  /\ MaxTopic \in Nat /\ Parts = 1 .. MaxTopic
  /\ \A n \in Topics \cup {Wanted, SetUpWanted} : n \in Nat /\ n <= MaxTopic
  /\ \A n \in Cpus \cup Requested \cup {Wanted} : n \in Nat /\ (n # 0 => 1 .. n \subseteq Members)
  /\ Members \subseteq Nat \ {0} /\ IsFiniteSet(Members)
  /\ \A i \in Members : 1 .. i \subseteq Members
<1> USE FleetConstants
<1> DEFINE T == Topics \cup {Wanted, SetUpWanted}
           M == Cpus \cup Requested \cup {Wanted}
<1>1. T \in SUBSET Nat /\ IsFiniteSet(T) /\ T # {}
  <2>1. IsFiniteSet({Wanted}) /\ IsFiniteSet({SetUpWanted})
    BY FS_Singleton
  <2>2. IsFiniteSet(Topics \cup {Wanted})
    BY <2>1, FS_Union
  <2>3. IsFiniteSet((Topics \cup {Wanted}) \cup {SetUpWanted})
    BY <2>1, <2>2, FS_Union
  <2>4. T = (Topics \cup {Wanted}) \cup {SetUpWanted}
    OBVIOUS
  <2> QED
    BY <2>3, <2>4
<1>2. M \in SUBSET Nat /\ IsFiniteSet(M) /\ M # {}
  <2>1. IsFiniteSet({Wanted}) /\ IsFiniteSet(Cpus \cup Requested)
    BY FS_Singleton, FS_Union
  <2> QED
    BY <2>1, FS_Union
<1>3. MaxTopic \in T /\ \A n \in T : n <= MaxTopic
  <2> HIDE DEF T
  <2>1. Max(T) \in T /\ \A n \in T : n <= Max(T)
    BY <1>1, MaxOf
  <2> QED
    BY <2>1 DEF MaxTopic, T
<1>4. PICK most \in Nat : most = Max(M) /\ \A n \in M : n <= most
  <2> HIDE DEF M
  <2> QED
    BY <1>2, MaxOf
<1>5. Members = 1 .. most
  BY <1>4 DEF Members
<1>6. IsFiniteSet(1 .. most)
  BY FS_Interval, SMTT(30)
<1>7. MaxTopic \in Nat /\ Parts = 1 .. MaxTopic
  BY <1>1, <1>3 DEF Parts
<1>8. \A n \in Cpus \cup Requested \cup {Wanted} : n \in Nat /\ (n # 0 => 1 .. n \subseteq Members)
  <2> SUFFICES ASSUME NEW n \in M
               PROVE  n \in Nat /\ (n # 0 => 1 .. n \subseteq Members)
    OBVIOUS
  <2>1. n \in Nat /\ n <= most
    <3> HIDE DEF M
    <3> QED
      BY <1>2, <1>4
  <2> QED
    BY <1>5, <2>1
<1>9. \A n \in Topics \cup {Wanted, SetUpWanted} : n \in Nat /\ n <= MaxTopic
  BY <1>1, <1>3
<1>10. Members \subseteq Nat \ {0} /\ \A i \in Members : 1 .. i \subseteq Members
  BY <1>5
<1> QED
  BY <1>5, <1>6, <1>7, <1>8, <1>9, <1>10

(* PlanProcesses: the planned number of members is one the fleet can have.  *)
LEMMA PlannedMembers ==
  ASSUME TypeOK, NEW cpus \in Cpus, NEW onHost \in BOOLEAN, NEW requested \in Requested
  PROVE  Planned(Budget(cpus, onHost), requested) \in {0} \cup Members
<1>1. Partitions \in Nat
  BY Sizes DEF Partitions, TypeOK
<1>2. Cap \in Nat \ {0} \/ Partitions = 0
  <2>1. \A a \in Nat, b \in Nat \ {0} : a \div b \in Nat
    OBVIOUS
  <2>2. Partitions \div Workers \in Nat
    BY <1>1, <2>1, FleetConstants
  <2> QED
    BY <1>1, <2>2 DEF Cap, Max1
<1>3. Budget(cpus, onHost) \in 1 .. cpus /\ cpus \in Nat \ {0}
  <2>1. cpus \in Nat \ {0}
    BY FleetConstants
  <2>2. cpus \div 2 \in Nat /\ cpus \div 2 <= cpus /\ cpus - 1 \in Nat
    BY <2>1
  <2> QED
    BY <2>1, <2>2 DEF Budget, Max1
<1>4. CASE Partitions = 0 \/ requested > Cap
  BY <1>4 DEF Planned
<1>5. CASE ~(Partitions = 0 \/ requested > Cap) /\ requested # 0
  <2>1. requested \in 1 .. requested
    BY <1>5, FleetConstants
  <2>2. requested \in Members
    BY <1>5, <2>1, Sizes
  <2> QED
    BY <1>5, <2>2 DEF Planned
<1>6. CASE ~(Partitions = 0 \/ requested > Cap) /\ requested = 0
  <2>1. Min({Cap, Budget(cpus, onHost)}) \in 1 .. cpus
    BY <1>2, <1>3, <1>6, MinOfTwo
  <2>2. 1 .. cpus \subseteq Members
    BY <1>3, Sizes
  <2> QED
    BY <1>6, <2>1, <2>2 DEF Planned
<1> QED
  BY <1>4, <1>5, <1>6

-----------------------------------------------------------------------------
(* Types.                                                                   *)

Places == Inside \cup {"off", "queued", "working", "done", "failed", "killed"}

(* TypeOK in three parts, the plan, the members and the group; before the   *)
(* plan there are no members, and after it the topic stays.                 *)
PlanTyped ==
  /\ program \in Programs /\ until_caught_up \in BOOLEAN /\ undecodable \subseteq Damaged
  /\ topic \in Topics \cup {Wanted, SetUpWanted}
  /\ admin \in [{"script", "setup"} -> {"look", "create", "CREATED", "MATCHING", "MISMATCH", "off"}]
  /\ parent \in {"start", "waiting", "reported", "raised"}
  /\ members \in {0} \cup Members

MembersTyped ==
  /\ child \in [Members -> Places]
  /\ late \subseteq Members
  /\ batch \in [Members -> Seq(Parts \X Nat)]
  /\ \A i \in Members : Len(batch[i]) <= MaxBatch
  /\ consumed \in [Members -> Nat] /\ unfit \in [Members -> Nat]
  /\ \A i \in Members : unfit[i] <= consumed[i]
  /\ counted \subseteq Parts \X Nat

GroupTyped ==
  /\ owner \in [Parts -> {0} \cup Joined]
  /\ position \in [Parts -> Int] /\ committed \in [Parts -> Nat]
  /\ \A p \in Parts : position[p] \in -1 .. LogEnd[p] /\ committed[p] \in 0 .. LogEnd[p]

GhostsTyped ==
  /\ stale \in BOOLEAN /\ blind \in BOOLEAN /\ cut \in BOOLEAN /\ orphaned \in BOOLEAN
  /\ faults \in 0 .. MaxFaults

LEMMA TypeParts == TypeOK <=> PlanTyped /\ MembersTyped /\ GroupTyped /\ GhostsTyped
  BY DEF TypeOK, PlanTyped, MembersTyped, GroupTyped, GhostsTyped, Places

(* The same of the state after a step.                                      *)
LEMMA TypePartsNext ==
  TypeOK' <=> PlanTyped' /\ MembersTyped' /\ GroupTyped' /\ GhostsTyped'
  BY DEF TypeOK, PlanTyped, MembersTyped, GroupTyped, GhostsTyped, Places

(* There are no members before the plan, and none but the planned ones      *)
(* after it; by then the topic is what it is.                               *)
Spawned ==
  /\ parent = "start" => members = 0 /\ \A i \in Members : child[i] = "off"
  /\ parent # "start" => admin = [a \in {"script", "setup"} |-> "off"]
  /\ parent \in {"waiting", "reported"} => members # 0
  /\ parent = "reported" => \A i \in 1 .. members : child[i] = "done"
  /\ \A i \in Members : child[i] # "off" => i <= members

(* Before the plan nothing runs and nothing has been fetched.               *)
LEMMA InitTyped == Init => TypeOK /\ Spawned
<1> SUFFICES ASSUME Init PROVE TypeOK /\ Spawned
  OBVIOUS
<1> USE DEF Init
<1>1. PlanTyped
  BY DEF PlanTyped
<1>2. MembersTyped
  <2>1. batch \in [Members -> Seq(Parts \X Nat)] /\ \A i \in Members : Len(batch[i]) = 0
    OBVIOUS
  <2>2. child \in [Members -> Places]
    BY DEF Places
  <2>3. consumed \in [Members -> Nat] /\ unfit \in [Members -> Nat]
        /\ \A i \in Members : unfit[i] <= consumed[i]
    OBVIOUS
  <2> QED
    BY <2>1, <2>2, <2>3, FleetConstants DEF MembersTyped
<1>3. GroupTyped
  BY FleetConstants DEF GroupTyped, Parts
<1>4. GhostsTyped
  <2>1. 0 \in 0 .. MaxFaults
    BY FleetConstants
  <2> QED
    BY <2>1 DEF GhostsTyped
<1>5. Spawned
  BY DEF Spawned
<1> QED
  BY <1>1, <1>2, <1>3, <1>4, <1>5, TypeParts

-----------------------------------------------------------------------------
(* The steps, and what they keep.                                           *)

(* The plan keeps its type while the script and its topic stay as they are. *)
LEMMA PlanKept ==
  ASSUME TypeOK, UNCHANGED <<script, topics>>
  PROVE  PlanTyped'
  BY DEF TypeOK, PlanTyped, script, topics

(* Every other member stays where it is, and the moving one is planned.     *)
LEMMA MemberMoves ==
  ASSUME TypeOK, Spawned, NEW i \in Members, NEW s \in Places \ {"off"},
         child[i] \notin {"off", "done"}, child' = [child EXCEPT ![i] = s],
         UNCHANGED <<script, topics>>
  PROVE  /\ child' \in [Members -> Places] /\ Spawned'
         /\ \A j \in Members \ {i} : j \in Joined' <=> j \in Joined
         /\ i \in Joined' <=> s \in Inside
         /\ parent # "start" /\ i \in 1 .. members
<1>1. child \in [Members -> Places] /\ members \in Nat
  BY Sizes DEF TypeOK, Places
<1>2. child' \in [Members -> Places] /\ child'[i] = s
      /\ \A j \in Members \ {i} : child'[j] = child[j]
  BY <1>1
<1>3. parent # "start" /\ i \in 1 .. members
  <2>1. i \in Nat \ {0}
    BY Sizes
  <2> QED
    BY <1>1, <2>1 DEF Spawned
<1>4. parent # "reported"
  BY <1>3 DEF Spawned
<1>5. Spawned'
  BY <1>2, <1>3, <1>4 DEF Spawned, script, topics
<1> QED
  BY <1>2, <1>3, <1>5 DEF Joined

(* The assignment keeps its type while no member leaves the group.          *)
LEMMA GroupKept ==
  ASSUME TypeOK, UNCHANGED <<owner, position, committed>>,
         \A j \in Joined : j \in Joined'
  PROVE  GroupTyped'
<1>1. owner \in [Parts -> {0} \cup Joined]
  BY DEF TypeOK
<1>2. owner' \in [Parts -> {0} \cup Joined']
  BY <1>1
<1> QED
  BY <1>2 DEF TypeOK, GroupTyped

(* So do the members while only their places change,                        *)
LEMMA MembersKept ==
  ASSUME TypeOK, child' \in [Members -> Places], UNCHANGED <<late, batch, books>>
  PROVE  MembersTyped'
  BY DEF TypeOK, MembersTyped, books

(* and the history while nothing is noted in it.                            *)
LEMMA GhostsKept ==
  ASSUME TypeOK, UNCHANGED stale, UNCHANGED ghosts
  PROVE  GhostsTyped'
  BY DEF TypeOK, GhostsTyped, ghosts

(* The steps that only move a member.                                       *)
LEMMA StepMoves ==
  ASSUME TypeOK, Spawned, NEW i \in Members, NEW s \in Places \ {"off"},
         child[i] \notin {"off", "done"}, child' = [child EXCEPT ![i] = s],
         child[i] \in Inside => s \in Inside,
         UNCHANGED <<script, topics, late, batch, books, owner, position, committed>>,
         GhostsTyped'
  PROVE  TypeOK' /\ Spawned'
<1>1. /\ child' \in [Members -> Places] /\ Spawned'
      /\ \A j \in Members \ {i} : j \in Joined' <=> j \in Joined
      /\ i \in Joined' <=> s \in Inside
  BY MemberMoves
<1>2. \A j \in Joined : j \in Joined'
  BY <1>1 DEF Joined
<1>3. GroupTyped'
  BY <1>2, GroupKept
<1>4. MembersTyped'
  BY <1>1, MembersKept
<1>5. PlanTyped'
  BY PlanKept
<1> QED
  BY <1>1, <1>3, <1>4, <1>5, TypePartsNext

(* A closed or killed member leaves the group, and with it its partitions.  *)
LEMMA StepLeaves ==
  ASSUME TypeOK, Spawned, NEW i \in Members, NEW s \in Places \ {"off"},
         child[i] \notin {"off", "done"}, child' = [child EXCEPT ![i] = s],
         batch' = [batch EXCEPT ![i] = <<>>], Leave(i),
         UNCHANGED <<script, topics, late, books>>, GhostsTyped'
  PROVE  TypeOK' /\ Spawned'
<1>1. /\ child' \in [Members -> Places] /\ Spawned'
      /\ \A j \in Members \ {i} : j \in Joined' <=> j \in Joined
  BY MemberMoves
<1>2. GroupTyped'
  <2>1. owner \in [Parts -> {0} \cup Joined] /\ Joined \subseteq Members
    BY DEF TypeOK, Joined
  <2>2. owner' \in [Parts -> {0} \cup Joined']
    BY <1>1, <2>1 DEF Leave
  <2>3. /\ position' \in [Parts -> Int] /\ committed' \in [Parts -> Nat]
        /\ \A p \in Parts : position'[p] \in -1 .. LogEnd[p] /\ committed'[p] \in 0 .. LogEnd[p]
    <3>1. \A p \in Parts : LogEnd[p] \in Nat
      BY FleetConstants DEF Parts
    <3> QED
      BY <3>1 DEF TypeOK, Leave
  <2> QED
    BY <2>2, <2>3 DEF GroupTyped
<1>3. MembersTyped'
  <2>1. batch' \in [Members -> Seq(Parts \X Nat)] /\ \A j \in Members : Len(batch'[j]) <= MaxBatch
    BY FleetConstants DEF TypeOK
  <2> QED
    BY <1>1, <2>1 DEF TypeOK, MembersTyped, books
<1>4. PlanTyped'
  BY PlanKept
<1> QED
  BY <1>1, <1>2, <1>3, <1>4, TypePartsNext

(* The topic is created with one of the two layouts, before the plan.       *)
LEMMA EnsuringTyped ==
  ASSUME TypeOK, Spawned, NEW a \in {"script", "setup"}, Look(a) \/ Create(a)
  PROVE  TypeOK' /\ Spawned'
<1>1. parent = "start"
  BY DEF Look, Create, Spawned
<1>2. PlanTyped'
  BY DEF TypeOK, PlanTyped, Look, Create, Layout, script
<1>3. UNCHANGED <<loop, books, group, ghosts, parent, members>>
  BY DEF Look, Create, script
<1>4. Spawned'
  BY <1>1, <1>3 DEF Spawned, loop
<1>5. MembersTyped' /\ GhostsTyped' /\ GroupTyped'
  BY <1>3 DEF TypeOK, MembersTyped, GhostsTyped, GroupTyped, Joined, Places, loop, books, group, ghosts
<1> QED
  BY <1>2, <1>4, <1>5, TypePartsNext

(* No member is in the group when the members are planned.                  *)
LEMMA PlanStepTyped ==
  ASSUME TypeOK, Spawned, Plan
  PROVE  TypeOK' /\ Spawned'
<1>1. members' \in {0} \cup Members
  BY PlannedMembers DEF Plan
<1>2. child' = [i \in Members |-> IF i <= members' THEN "queued" ELSE "off"]
  BY DEF Plan
<1>3. \A i \in Members : i \notin Joined
  BY DEF Plan, Spawned, Joined, Inside
<1>4. PlanTyped'
  BY <1>1 DEF TypeOK, PlanTyped, Plan
<1>5. MembersTyped'
  <2>1. child' \in [Members -> Places]
    BY <1>2 DEF Places
  <2> QED
    BY <2>1, MembersKept DEF Plan
<1>6. GroupTyped'
  <2>1. UNCHANGED <<owner, position, committed>>
    BY DEF Plan, group
  <2>2. \A j \in Joined : j \in Joined'
    BY <1>3 DEF Joined
  <2> QED
    BY <2>1, <2>2, GroupKept
<1>7. GhostsTyped'
  BY GhostsKept DEF Plan, group
<1>8. Spawned'
  <2>1. parent' # "start" /\ parent' # "reported" /\ (parent' = "waiting" => members' # 0)
    BY DEF Plan
  <2>2. \A i \in Members : child'[i] # "off" => i <= members'
    BY <1>2
  <2> QED
    BY <2>1, <2>2 DEF Spawned, Plan
<1> QED
  BY <1>4, <1>5, <1>6, <1>7, <1>8, TypePartsNext

(* Pool.map returns when every planned child has.                           *)
LEMMA ReturnTyped ==
  ASSUME TypeOK, Spawned, Return
  PROVE  TypeOK' /\ Spawned'
<1>1. /\ UNCHANGED <<program, until_caught_up, undecodable, members, topics, loop, books, group, ghosts>>
      /\ parent = "waiting" /\ parent' \in {"raised", "reported"}
      /\ parent' = "reported" => \A i \in 1 .. members : child[i] = "done"
  BY DEF Return
<1>2. PlanTyped'
  BY <1>1 DEF TypeOK, PlanTyped, topics
<1>3. MembersTyped' /\ GhostsTyped' /\ GroupTyped'
  BY <1>1 DEF TypeOK, MembersTyped, GhostsTyped, GroupTyped, Joined, Places, loop, books, group, ghosts
<1>4. Spawned'
  BY <1>1 DEF Spawned, topics, loop
<1> QED
  BY <1>2, <1>3, <1>4, TypePartsNext

-----------------------------------------------------------------------------
(* The loop of a member.                                                    *)

(* What the arithmetic of the steps needs to know of a state.               *)
LEMMA Numbered ==
  ASSUME TypeOK
  PROVE  /\ \A p \in Parts : LogEnd[p] \in Nat /\ position[p] \in Int /\ committed[p] \in Nat
         /\ \A i \in Members : /\ Len(batch[i]) \in Nat /\ DOMAIN batch[i] = 1 .. Len(batch[i])
                                /\ Polled(i) \subseteq Parts \X Nat
<1>1. \A p \in Parts : LogEnd[p] \in Nat /\ position[p] \in Int /\ committed[p] \in Nat
  BY FleetConstants DEF TypeOK, Parts
<1>2. ASSUME NEW i \in Members
      PROVE  /\ Len(batch[i]) \in Nat /\ DOMAIN batch[i] = 1 .. Len(batch[i])
             /\ Polled(i) \subseteq Parts \X Nat
  <2>1. batch[i] \in Seq(Parts \X Nat)
    BY DEF TypeOK
  <2> QED
    BY <2>1 DEF Polled
<1> QED
  BY <1>1, <1>2

(* poll_batch adds a message while the batch has room.                      *)
LEMMA BatchTyped ==
  ASSUME TypeOK, NEW i \in Members, Len(batch[i]) < MaxBatch,
         NEW r \in Parts \X Nat, batch' = [batch EXCEPT ![i] = Append(@, r)]
  PROVE  batch' \in [Members -> Seq(Parts \X Nat)] /\ \A j \in Members : Len(batch'[j]) <= MaxBatch
<1>1. batch \in [Members -> Seq(Parts \X Nat)] /\ \A j \in Members : Len(batch[j]) <= MaxBatch
  BY DEF TypeOK
<1>2. PICK b \in Seq(Parts \X Nat) : b = batch[i]
  BY <1>1
<1>3. Append(b, r) \in Seq(Parts \X Nat) /\ Len(Append(b, r)) = Len(b) + 1
  BY <1>2
<1>4. Len(b) \in Nat /\ MaxBatch \in Nat /\ Len(b) < MaxBatch
  BY <1>2, FleetConstants
<1>5. batch' = [batch EXCEPT ![i] = Append(b, r)]
  BY <1>1, <1>2
<1> QED
  BY <1>1, <1>3, <1>4, <1>5

(* A position moves to the next offset, inside the log.                     *)
LEMMA PollTyped ==
  ASSUME TypeOK, Spawned, NEW i \in Members, PollMessage(i)
  PROVE  TypeOK' /\ Spawned'
<1>1. PICK p \in Owned(i) : LET offset == Upcoming(p) IN
        /\ offset < LogEnd[p]
        /\ position' = [position EXCEPT ![p] = offset + 1]
        /\ IF <<p, offset>> \in undecodable
           THEN child' = [child EXCEPT ![i] = "raising"] /\ UNCHANGED batch
           ELSE batch' = [batch EXCEPT ![i] = Append(@, <<p, offset>>)] /\ UNCHANGED child
  BY DEF PollMessage
<1>2. /\ child[i] = "poll" /\ Len(batch[i]) < MaxBatch
      /\ UNCHANGED <<script, topics, late, books, owner, committed, stale, ghosts>>
  BY DEF PollMessage
<1>3. PICK offset \in Nat : offset = Upcoming(p) /\ offset < LogEnd[p] /\ p \in Parts
  <2>1. p \in Parts
    BY DEF Owned
  <2> QED
    BY <1>1, <2>1, Numbered DEF Upcoming
<1>4. child' = child \/ child' = [child EXCEPT ![i] = "raising"]
  BY <1>1
<1>5. child' \in [Members -> Places] /\ Spawned' /\ (\A j \in Joined : j \in Joined')
  <2>1. CASE child' = child
    BY <1>2, <2>1 DEF TypeOK, Places, Spawned, script, topics, Joined
  <2>2. CASE child' = [child EXCEPT ![i] = "raising"]
    <3>1. "raising" \in Places \ {"off"} /\ "raising" \in Inside
      BY DEF Places, Inside
    <3> QED
      BY <1>2, <2>2, <3>1, MemberMoves DEF Joined
  <2> QED
    BY <1>4, <2>1, <2>2
<1>6. MembersTyped'
  <2>1. batch' \in [Members -> Seq(Parts \X Nat)] /\ \A j \in Members : Len(batch'[j]) <= MaxBatch
    <3>1. CASE batch' = batch
      BY <3>1 DEF TypeOK
    <3>2. CASE batch' = [batch EXCEPT ![i] = Append(@, <<p, offset>>)]
      <4>1. <<p, offset>> \in Parts \X Nat
        BY <1>3
      <4> DEFINE r == <<p, offset>>
      <4>2. r \in Parts \X Nat /\ batch' = [batch EXCEPT ![i] = Append(@, r)]
        BY <3>2, <4>1
      <4> HIDE DEF r
      <4> QED
        BY <1>2, <4>2, BatchTyped
    <3> QED
      BY <1>1, <1>3, <3>1, <3>2
  <2> QED
    BY <1>2, <1>5, <2>1 DEF TypeOK, MembersTyped, books
<1>7. GroupTyped'
  <2>1. position' = [position EXCEPT ![p] = offset + 1]
    BY <1>1, <1>3
  <2>2. /\ position' \in [Parts -> Int]
        /\ \A q \in Parts : position'[q] \in -1 .. LogEnd[q]
    <3>1. offset + 1 \in Int /\ offset + 1 \in -1 .. LogEnd[p]
      BY <1>3, Numbered
    <3>2. position \in [Parts -> Int] /\ \A q \in Parts : position[q] \in -1 .. LogEnd[q]
      BY DEF TypeOK
    <3> QED
      BY <2>1, <3>1, <3>2
  <2>3. owner' \in [Parts -> {0} \cup Joined']
    BY <1>2, <1>5 DEF TypeOK
  <2> QED
    BY <1>2, <2>2, <2>3 DEF TypeOK, GroupTyped
<1>8. PlanTyped' /\ GhostsTyped'
  BY <1>2, PlanKept, GhostsKept
<1> QED
  BY <1>5, <1>6, <1>7, <1>8, TypePartsNext

(* The accountant of a member takes its whole batch.                        *)
LEMMA UnfitOfBatch ==
  ASSUME TypeOK, NEW i \in Members
  PROVE  LET bad == Cardinality({k \in DOMAIN batch[i] : batch[i][k] \in Unfit})
         IN  bad \in Nat /\ bad <= Len(batch[i])
<1>1. PICK n \in Nat : n = Len(batch[i]) /\ DOMAIN batch[i] = 1 .. n
  BY Numbered
<1>2. IsFiniteSet(1 .. n) /\ Cardinality(1 .. n) = IF 1 > n THEN 0 ELSE n - 1 + 1
  BY FS_Interval, SMTT(30)
<1>3. Cardinality(1 .. n) = n
  <2>1. (IF 1 > n THEN 0 ELSE n - 1 + 1) = n
    OBVIOUS
  <2> QED
    BY <1>2, <2>1
<1> DEFINE B == {k \in 1 .. n : batch[i][k] \in Unfit}
<1>4. B \in SUBSET (1 .. n)
  OBVIOUS
<1>5. IsFiniteSet(B) /\ Cardinality(B) <= Cardinality(1 .. n)
  <2> HIDE DEF B
  <2> QED
    BY <1>2, <1>4, FS_Subset
<1>6. Cardinality(B) \in Nat
  <2> HIDE DEF B
  <2> QED
    BY <1>5, FS_CardinalityType
<1> QED
  BY <1>1, <1>3, <1>5, <1>6

(* The accountant records a batch: no more events unfit than consumed.      *)
LEMMA ProcessTyped ==
  ASSUME TypeOK, Spawned, NEW i \in Members, ProcessBatch(i)
  PROVE  TypeOK' /\ Spawned'
<1>1. /\ child[i] = "process" /\ child' = [child EXCEPT ![i] = "commit"]
      /\ UNCHANGED <<script, topics, late, batch, group, ghosts>>
      /\ counted' = counted \cup Polled(i)
  BY DEF ProcessBatch
<1>2. "commit" \in Places \ {"off"} /\ "commit" \in Inside
  BY DEF Places, Inside
<1>3. child' \in [Members -> Places] /\ Spawned' /\ (\A j \in Joined : j \in Joined')
  BY <1>1, <1>2, MemberMoves DEF Joined
<1>4. PICK bad \in Nat, n \in Nat :
        /\ bad <= n
        /\ consumed' = [consumed EXCEPT ![i] = @ + n]
        /\ unfit' = [unfit EXCEPT ![i] = @ + bad]
  BY UnfitOfBatch, Numbered DEF ProcessBatch
<1>5. /\ consumed' \in [Members -> Nat] /\ unfit' \in [Members -> Nat]
      /\ \A j \in Members : unfit'[j] <= consumed'[j]
  <2>1. /\ consumed \in [Members -> Nat] /\ unfit \in [Members -> Nat]
        /\ \A j \in Members : unfit[j] <= consumed[j]
    BY DEF TypeOK
  <2> QED
    BY <1>4, <2>1
<1>6. MembersTyped'
  <2>1. counted' \subseteq Parts \X Nat
    BY <1>1, Numbered DEF TypeOK
  <2> QED
    BY <1>1, <1>3, <1>5, <2>1 DEF TypeOK, MembersTyped
<1>7. GroupTyped' /\ PlanTyped' /\ GhostsTyped'
  BY <1>1, <1>3, GroupKept, PlanKept, GhostsKept DEF group
<1> QED
  BY <1>3, <1>6, <1>7, TypePartsNext

(* A position that is committed has been fetched from, so it is no -1.      *)
LEMMA CommitTyped ==
  ASSUME TypeOK, Spawned, NEW i \in Members, Commit(i)
  PROVE  TypeOK' /\ Spawned'
<1>1. PICK s \in {"raising", "lag"} : child' = [child EXCEPT ![i] = s]
  BY DEF Commit
<1>2. /\ child[i] = "commit" /\ batch' = [batch EXCEPT ![i] = <<>>]
      /\ committed' = [p \in Parts |-> IF p \in Fetched(i) THEN position[p] ELSE committed[p]]
      /\ UNCHANGED <<script, topics, late, books, owner, position, stale, ghosts>>
  BY DEF Commit
<1>3. s \in Places \ {"off"} /\ s \in Inside
  BY DEF Places, Inside
<1>4. child' \in [Members -> Places] /\ Spawned' /\ (\A j \in Joined : j \in Joined')
  BY <1>1, <1>2, <1>3, MemberMoves DEF Joined
<1>5. MembersTyped'
  <2>1. batch' \in [Members -> Seq(Parts \X Nat)] /\ \A j \in Members : Len(batch'[j]) <= MaxBatch
    BY <1>2, FleetConstants DEF TypeOK
  <2> QED
    BY <1>2, <1>4, <2>1 DEF TypeOK, MembersTyped, books
<1>6. GroupTyped'
  <2>1. committed' \in [Parts -> Nat] /\ \A p \in Parts : committed'[p] \in 0 .. LogEnd[p]
    BY <1>2, Numbered DEF TypeOK, Fetched
  <2>2. owner' \in [Parts -> {0} \cup Joined']
    BY <1>2, <1>4 DEF TypeOK
  <2> QED
    BY <1>2, <2>1, <2>2 DEF TypeOK, GroupTyped
<1>7. PlanTyped' /\ GhostsTyped'
  BY <1>2, PlanKept, GhostsKept
<1> QED
  BY <1>4, <1>5, <1>6, <1>7, TypePartsNext

(* A revoked partition has no owner.                                        *)
LEMMA RevokeTyped ==
  ASSUME TypeOK, Spawned, NEW i \in Members, Revoke(i)
  PROVE  TypeOK' /\ Spawned'
<1>1. /\ owner' = [p \in Parts |-> IF owner[p] = i THEN 0 ELSE owner[p]]
      /\ position' = [p \in Parts |-> IF owner[p] = i THEN -1 ELSE position[p]]
      /\ UNCHANGED <<script, topics, loop, books, committed, stale, ghosts>>
  BY DEF Revoke
<1>2. GroupTyped'
  <2>1. owner \in [Parts -> {0} \cup Joined] /\ Joined' = Joined
    BY <1>1 DEF TypeOK, Joined, loop
  <2>2. owner' \in [Parts -> {0} \cup Joined']
    BY <1>1, <2>1
  <2>3. /\ position' \in [Parts -> Int]
        /\ \A p \in Parts : position'[p] \in -1 .. LogEnd[p]
    <3>1. position \in [Parts -> Int] /\ \A p \in Parts : position[p] \in -1 .. LogEnd[p]
      BY DEF TypeOK
    <3>2. \A p \in Parts : LogEnd[p] \in Nat /\ -1 \in -1 .. LogEnd[p]
      BY Numbered
    <3> QED
      BY <1>1, <3>1, <3>2
  <2> QED
    BY <1>1, <2>2, <2>3 DEF TypeOK, GroupTyped
<1>3. MembersTyped' /\ PlanTyped' /\ GhostsTyped'
  BY <1>1, PlanKept, GhostsKept DEF TypeOK, MembersTyped, Places, loop, books
<1>4. Spawned'
  BY <1>1 DEF Spawned, script, topics, loop
<1> QED
  BY <1>2, <1>3, <1>4, TypePartsNext

(* Only members of the group are assigned partitions.                       *)
LEMMA AssignTyped ==
  ASSUME TypeOK, Spawned, Assign
  PROVE  TypeOK' /\ Spawned'
<1>1. PICK f \in [1 .. topic -> Joined] :
        owner' = [p \in Parts |-> IF p <= topic THEN f[p] ELSE 0]
  BY DEF Assign
<1>2. UNCHANGED <<script, topics, loop, books, position, committed, blind, cut, faults>>
      /\ stale' = FALSE /\ orphaned' \in BOOLEAN
  BY DEF Assign
<1>3. GroupTyped'
  <2>1. topic \in Nat /\ \A p \in Parts : p \in Nat \ {0}
    BY Sizes DEF TypeOK
  <2>2. owner' \in [Parts -> {0} \cup Joined]
    BY <1>1, <2>1
  <2>3. Joined' = Joined
    BY <1>2 DEF Joined, loop
  <2> QED
    BY <1>2, <2>2, <2>3 DEF TypeOK, GroupTyped
<1>4. MembersTyped' /\ PlanTyped'
  BY <1>2, PlanKept DEF TypeOK, MembersTyped, Places, loop, books
<1>5. GhostsTyped'
  BY <1>2 DEF TypeOK, GhostsTyped
<1>6. Spawned'
  BY <1>2 DEF Spawned, script, topics, loop
<1> QED
  BY <1>3, <1>4, <1>5, <1>6, TypePartsNext

(* The steps by which a member starts, fails or moves on.                   *)
LEMMA MoveTyped ==
  ASSUME TypeOK, Spawned, NEW i \in Members,
         Start(i) \/ Work(i) \/ Top(i) \/ EndPoll(i) \/ SampleLag(i) \/ Raise(i)
  PROVE  TypeOK' /\ Spawned'
<1> DEFINE To(s) == child' = [child EXCEPT ![i] = s]
<1>1. PICK s \in Places \ {"off"} : To(s) /\ (child[i] \in Inside => s \in Inside)
  <2>1. CASE Start(i) \/ Work(i)
    <3>1. (To("top") \/ To("working") \/ To("done")) /\ child[i] \notin Inside
      BY <2>1 DEF Start, Work, Inside
    <3>2. {"top", "working", "done"} \subseteq Places \ {"off"}
      BY DEF Places, Inside
    <3> QED
      BY <3>1, <3>2
  <2>2. CASE Top(i) \/ EndPoll(i) \/ SampleLag(i)
    <3>1. To("ended") \/ To("poll") \/ To("lag") \/ To("process") \/ To("top")
      BY <2>2 DEF Top, EndPoll, SampleLag
    <3>2. {"ended", "poll", "lag", "process", "top"} \subseteq (Places \ {"off"}) \cap Inside
      BY DEF Places, Inside
    <3> QED
      BY <3>1, <3>2
  <2>3. CASE Raise(i)
    <3>1. To("raising") \/ (To("failed") /\ child[i] \notin Inside)
      BY <2>3 DEF Raise, Inside
    <3>2. "raising" \in Inside /\ {"raising", "failed"} \subseteq Places \ {"off"}
      BY DEF Places, Inside
    <3> QED
      BY <3>1, <3>2
  <2> QED
    BY <2>1, <2>2, <2>3
<1>2. child[i] \notin {"off", "done"}
  BY DEF Start, Work, Top, EndPoll, SampleLag, Raise
<1>3. UNCHANGED <<script, topics, late, batch, books, owner, position, committed>>
  BY DEF Start, Work, Top, EndPoll, SampleLag, Raise, group
<1>4. GhostsTyped'
  <2>1. CASE Raise(i)
    <3>1. faults \in 0 .. MaxFaults /\ faults < MaxFaults /\ faults' = faults + 1
      BY <2>1 DEF Raise, TypeOK
    <3>2. faults' \in 0 .. MaxFaults
      BY <3>1, FleetConstants
    <3> QED
      BY <2>1, <3>2 DEF Raise, TypeOK, GhostsTyped, group
  <2>2. CASE ~Raise(i)
    BY <2>2 DEF Start, Work, Top, EndPoll, SampleLag, TypeOK, GhostsTyped, group, ghosts
  <2> QED
    BY <2>1, <2>2
<1> HIDE DEF To
<1>5. child' = [child EXCEPT ![i] = s] /\ (child[i] \in Inside => s \in Inside)
  BY <1>1 DEF To
<1> QED
  BY <1>2, <1>3, <1>4, <1>5, StepMoves

(* A closed or killed child leaves its partitions without an owner.         *)
LEMMA LeaveTyped ==
  ASSUME TypeOK, Spawned, NEW i \in Members, Close(i) \/ Kill(i)
  PROVE  TypeOK' /\ Spawned'
<1>1. PICK s \in {"done", "failed", "killed"} : child' = [child EXCEPT ![i] = s]
  BY DEF Close, Kill
<1>2. s \in Places \ {"off"}
  BY DEF Places
<1>3. /\ child[i] \notin {"off", "done"} /\ Leave(i)
      /\ batch' = [batch EXCEPT ![i] = <<>>] /\ UNCHANGED <<script, topics, late, books>>
  BY DEF Close, Kill, Inside
<1>4. GhostsTyped'
  <2>1. stale' = TRUE
    BY <1>3 DEF Leave
  <2>2. CASE Kill(i)
    <3>1. faults \in 0 .. MaxFaults /\ faults < MaxFaults /\ faults' = faults + 1
      BY <2>2 DEF Kill, TypeOK
    <3>2. faults' \in 0 .. MaxFaults
      BY <3>1, FleetConstants
    <3> QED
      BY <2>1, <2>2, <3>2 DEF Kill, TypeOK, GhostsTyped
  <2>3. CASE Close(i)
    BY <2>1, <2>3 DEF Close, TypeOK, GhostsTyped, ghosts
  <2> QED
    BY <2>2, <2>3
<1> QED
  BY <1>1, <1>2, <1>3, <1>4, StepLeaves

(* Time passes for one member.                                              *)
LEMMA DeadlineTyped ==
  ASSUME TypeOK, Spawned, NEW i \in Members, Deadline(i)
  PROVE  TypeOK' /\ Spawned'
<1>1. /\ late' = late \cup {i}
      /\ UNCHANGED <<script, topics, child, batch, books, group, ghosts>>
  BY DEF Deadline
<1>2. MembersTyped' /\ GroupTyped'
  BY <1>1 DEF TypeOK, MembersTyped, GroupTyped, Joined, Places, books, group
<1>3. PlanTyped' /\ GhostsTyped'
  BY <1>1, PlanKept, GhostsKept DEF group
<1>4. Spawned'
  BY <1>1 DEF Spawned, script, topics
<1> QED
  BY <1>2, <1>3, <1>4, TypePartsNext

(* Every step keeps the types, and the plan as it was spawned.              *)
LEMMA StepTyped == TypeOK /\ Spawned /\ [Next]_vars => TypeOK' /\ Spawned'
<1> SUFFICES ASSUME TypeOK, Spawned, [Next]_vars PROVE TypeOK' /\ Spawned'
  OBVIOUS
<1>1. ASSUME NEW a \in {"script", "setup"}, Look(a) \/ Create(a) PROVE TypeOK' /\ Spawned'
  BY <1>1, EnsuringTyped
<1>2. ASSUME NEW i \in Members, MemberSteps(i) \/ PollMessage(i) PROVE TypeOK' /\ Spawned'
  BY <1>2, MoveTyped, DeadlineTyped, ProcessTyped, CommitTyped, LeaveTyped, PollTyped
     DEF MemberSteps
<1>3. ASSUME NEW i \in Members, Revoke(i) \/ Raise(i) \/ Kill(i) PROVE TypeOK' /\ Spawned'
  BY <1>3, RevokeTyped, MoveTyped, LeaveTyped
<1>4. CASE Plan \/ Return \/ Assign
  BY <1>4, PlanStepTyped, ReturnTyped, AssignTyped
<1>5. CASE UNCHANGED vars
  <2>1. UNCHANGED <<script, topics, loop, books, group, ghosts>>
    BY <1>5 DEF vars
  <2>2. MembersTyped' /\ GroupTyped'
    BY <2>1 DEF TypeOK, MembersTyped, GroupTyped, Joined, Places, loop, books, group
  <2>3. PlanTyped' /\ GhostsTyped'
    BY <2>1, PlanKept, GhostsKept DEF group
  <2>4. Spawned'
    BY <2>1 DEF Spawned, script, topics, loop
  <2> QED
    BY <2>2, <2>3, <2>4, TypePartsNext
<1> QED
  BY <1>1, <1>2, <1>3, <1>4, <1>5 DEF Next

(* Whatever the group does to the assignment between the steps of its       *)
(* members, and whichever of them fail or are killed: no position or        *)
(* committed offset is outside its log, no partition is owned by a process  *)
(* that has left, and no more processes run than can be planned.            *)
THEOREM FleetTyped == Spec => []TypeOK
<1>1. Init => TypeOK /\ Spawned
  BY InitTyped
<1>2. TypeOK /\ Spawned /\ [Next]_vars => (TypeOK /\ Spawned)'
  BY StepTyped
<1> QED
  BY <1>1, <1>2, PTL DEF Spec

-----------------------------------------------------------------------------
(* What has been read is in the books, or in the hands of the member that   *)
(* read it.                                                                 *)

InHand(i, r) == child[i] \in {"poll", "process"} /\ r \in Polled(i)

AllCounted(p) == \A o \in 0 .. position[p] - 1 : <<p, o>> \in counted

(* An offset is committed only behind counted records, and a position that  *)
(* has been fetched from has an owner, whose batch holds what is not        *)
(* counted yet, unless an exception is on its way out of the owner.         *)
TrackedAt(p) ==
  /\ \A o \in 0 .. committed[p] - 1 : <<p, o>> \in counted
  /\ position[p] >= 0 =>
       /\ owner[p] # 0
       /\ child[owner[p]] # "raising" =>
            \A o \in 0 .. position[p] - 1 : <<p, o>> \in counted \/ InHand(owner[p], <<p, o>>)

Tracked == \A p \in Parts : TrackedAt(p)

(* A partition whose position and committed offset stay where they are:     *)
(* what its owner had in hand is counted now, or still in its hands.        *)
LEMMA Unmoved ==
  ASSUME TypeOK, NEW p \in Parts, TrackedAt(p),
         owner'[p] = owner[p], position'[p] = position[p], committed'[p] = committed[p],
         counted \subseteq counted',
         position[p] >= 0 =>
           \/ child'[owner[p]] = "raising"
           \/ AllCounted(p)
           \/ /\ child[owner[p]] # "raising"
              /\ \A o \in 0 .. position[p] - 1 : InHand(owner[p], <<p, o>>) =>
                   \/ <<p, o>> \in counted'
                   \/ /\ child'[owner[p]] \in {"poll", "process"}
                      /\ \E k \in DOMAIN batch'[owner[p]] : batch'[owner[p]][k] = <<p, o>>
  PROVE  TrackedAt(p)'
<1>1. \A o \in 0 .. committed'[p] - 1 : <<p, o>> \in counted'
  BY DEF TrackedAt
<1>2. ASSUME position'[p] >= 0, child'[owner[p]] # "raising", NEW o \in 0 .. position[p] - 1
      PROVE  <<p, o>> \in counted' \/ InHand(owner[p], <<p, o>>)'
  <2>1. CASE <<p, o>> \in counted
    BY <2>1
  <2>2. CASE <<p, o>> \notin counted
    <3>1. ~AllCounted(p)
      BY <2>2 DEF AllCounted
    <3>2. child[owner[p]] # "raising" /\ InHand(owner[p], <<p, o>>)
      BY <1>2, <2>2, <3>1 DEF TrackedAt
    <3>3. \/ <<p, o>> \in counted'
          \/ /\ child'[owner[p]] \in {"poll", "process"}
             /\ \E k \in DOMAIN batch'[owner[p]] : batch'[owner[p]][k] = <<p, o>>
      BY <1>2, <3>1, <3>2
    <3> QED
      BY <3>3 DEF InHand, Polled
  <2> QED
    BY <2>1, <2>2
<1>3. position'[p] >= 0 => owner'[p] # 0
  BY DEF TrackedAt
<1>4. ASSUME position'[p] >= 0, child'[owner'[p]] # "raising", NEW o \in 0 .. position'[p] - 1
      PROVE  <<p, o>> \in counted' \/ InHand(owner[p], <<p, o>>)'
  BY <1>2, <1>4 DEF InHand, Polled
<1> QED
  BY <1>1, <1>3, <1>4 DEF TrackedAt

(* A partition whose position is given up.                                  *)
LEMMA Freed ==
  ASSUME TypeOK, NEW p \in Parts, TrackedAt(p),
         position'[p] = -1, committed'[p] = committed[p], counted \subseteq counted'
  PROVE  TrackedAt(p)'
  BY DEF TrackedAt

(* The owner of a fetched partition is a member of the group.               *)
LEMMA OwnerJoined ==
  ASSUME TypeOK, Tracked, NEW p \in Parts, position[p] >= 0
  PROVE  owner[p] \in Joined /\ owner[p] \in Members
  BY DEF TypeOK, Tracked, TrackedAt, Joined

(* A step after which every member of the group is where it was, with the   *)
(* batch it had.                                                            *)
LEMMA StepAside ==
  ASSUME TypeOK, Tracked, UNCHANGED <<owner, position, committed, counted>>,
         \A j \in Joined : child'[j] = child[j] /\ batch'[j] = batch[j]
  PROVE  Tracked'
<1> SUFFICES ASSUME NEW p \in Parts PROVE TrackedAt(p)'
  BY DEF Tracked
<1>1. TrackedAt(p)
  BY DEF Tracked
<1>2. ASSUME position[p] >= 0, child[owner[p]] # "raising",
             NEW o \in 0 .. position[p] - 1, InHand(owner[p], <<p, o>>)
      PROVE  /\ child'[owner[p]] \in {"poll", "process"}
             /\ \E k \in DOMAIN batch'[owner[p]] : batch'[owner[p]][k] = <<p, o>>
  BY <1>2, OwnerJoined DEF InHand, Polled
<1>3. position[p] >= 0 /\ child[owner[p]] = "raising" => child'[owner[p]] = "raising"
  BY OwnerJoined
<1> QED
  BY <1>1, <1>2, <1>3, Unmoved

(* A step of one member that leaves alone what the others have read.        *)
LEMMA StepOfOne ==
  ASSUME TypeOK, Tracked, NEW i \in Members, NEW s, child' = [child EXCEPT ![i] = s],
         \A j \in Members \ {i} : batch'[j] = batch[j],
         UNCHANGED <<owner, position, committed>>, counted \subseteq counted',
         \A p \in Fetched(i) :
           \/ s = "raising"
           \/ AllCounted(p)
           \/ /\ child[i] # "raising"
              /\ \A o \in 0 .. position[p] - 1 : InHand(i, <<p, o>>) =>
                   \/ <<p, o>> \in counted'
                   \/ /\ s \in {"poll", "process"}
                      /\ \E k \in DOMAIN batch'[i] : batch'[i][k] = <<p, o>>
  PROVE  Tracked'
<1> SUFFICES ASSUME NEW p \in Parts PROVE TrackedAt(p)'
  BY DEF Tracked
<1>1. TrackedAt(p) /\ child \in [Members -> Places]
  BY DEF Tracked, TypeOK, Places
<1>2. CASE position[p] < 0
  BY <1>1, <1>2, Unmoved, Numbered
<1>3. CASE position[p] >= 0 /\ owner[p] = i
  <2>1. p \in Fetched(i) /\ child'[i] = s
    BY <1>1, <1>3 DEF Fetched, Owned
  <2> QED
    BY <1>1, <1>3, <2>1, Unmoved
<1>4. CASE position[p] >= 0 /\ owner[p] # i
  <2>1. owner[p] \in Members \ {i}
    BY <1>4, OwnerJoined
  <2>2. child'[owner[p]] = child[owner[p]] /\ batch'[owner[p]] = batch[owner[p]]
    BY <1>1, <2>1
  <2>3. ASSUME child[owner[p]] # "raising",
               NEW o \in 0 .. position[p] - 1, InHand(owner[p], <<p, o>>)
        PROVE  /\ child'[owner[p]] \in {"poll", "process"}
               /\ \E k \in DOMAIN batch'[owner[p]] : batch'[owner[p]][k] = <<p, o>>
    BY <2>2, <2>3 DEF InHand, Polled
  <2>4. child[owner[p]] = "raising" => child'[owner[p]] = "raising"
    BY <2>2
  <2> QED
    BY <1>1, <2>3, <2>4, Unmoved
<1> QED
  BY <1>2, <1>3, <1>4, Numbered

(* A member outside its batch has only what is counted.                     *)
LEMMA OutsideBatch ==
  ASSUME TypeOK, Tracked, NEW i \in Members, NEW p \in Fetched(i),
         child[i] \notin {"poll", "process", "raising"}
  PROVE  AllCounted(p)
  BY DEF Tracked, TrackedAt, Fetched, Owned, AllCounted, InHand

(* Nothing has been fetched and nothing committed.                          *)
LEMMA InitTracked == Init => Tracked
  BY Sizes DEF Init, Tracked, TrackedAt

(* The message a member has just polled is the last of its batch.           *)
LEMMA Appended ==
  ASSUME TypeOK, NEW i \in Members, NEW r \in Parts \X Nat,
         batch' = [batch EXCEPT ![i] = Append(@, r)]
  PROVE  /\ \A k \in DOMAIN batch[i] : k \in DOMAIN batch'[i] /\ batch'[i][k] = batch[i][k]
         /\ \E k \in DOMAIN batch'[i] : batch'[i][k] = r
         /\ batch'[i] # <<>>
         /\ \A j \in Members \ {i} : batch'[j] = batch[j]
<1>1. PICK b \in Seq(Parts \X Nat) : b = batch[i]
  BY DEF TypeOK
<1>2. batch'[i] = Append(b, r) /\ \A j \in Members \ {i} : batch'[j] = batch[j]
  BY <1>1 DEF TypeOK
<1>3. /\ DOMAIN b = 1 .. Len(b) /\ Len(b) \in Nat
      /\ DOMAIN Append(b, r) = 1 .. Len(b) + 1
      /\ Append(b, r)[Len(b) + 1] = r
      /\ \A k \in 1 .. Len(b) : Append(b, r)[k] = b[k]
  BY <1>1
<1>4. Len(b) + 1 \in DOMAIN Append(b, r) /\ Append(b, r) # <<>>
  BY <1>3
<1> QED
  BY <1>1, <1>2, <1>3, <1>4

(* The polled record is in the hands of its owner.  A first fetch starts at *)
(* the committed offset, behind which all is counted.                       *)
LEMMA PollTracked ==
  ASSUME TypeOK, Tracked, NEW i \in Members, PollMessage(i)
  PROVE  Tracked'
<1>1. PICK p \in Owned(i) : LET offset == Upcoming(p) IN
        /\ offset < LogEnd[p]
        /\ position' = [position EXCEPT ![p] = offset + 1]
        /\ IF <<p, offset>> \in undecodable
           THEN child' = [child EXCEPT ![i] = "raising"] /\ UNCHANGED batch
           ELSE batch' = [batch EXCEPT ![i] = Append(@, <<p, offset>>)] /\ UNCHANGED child
  BY DEF PollMessage
<1>2. child[i] = "poll" /\ UNCHANGED <<owner, committed, counted>>
  BY DEF PollMessage, books
<1>3. p \in Parts /\ owner[p] = i /\ i # 0
  BY Sizes DEF Owned
<1>4. PICK offset \in Nat : offset = Upcoming(p)
  BY <1>3, Numbered DEF Upcoming
<1>5. child \in [Members -> Places] /\ position \in [Parts -> Int]
  BY DEF TypeOK, Places
<1>6. position'[p] = offset + 1 /\ \A q \in Parts \ {p} : position'[q] = position[q]
  BY <1>1, <1>3, <1>4, <1>5
<1>7. \A j \in Members \ {i} : child'[j] = child[j] /\ batch'[j] = batch[j]
  BY <1>1, <1>5 DEF TypeOK
<1>8. \/ child'[i] = "raising"
      \/ /\ child'[i] = "poll"
         /\ \A k \in DOMAIN batch[i] : k \in DOMAIN batch'[i] /\ batch'[i][k] = batch[i][k]
         /\ \E k \in DOMAIN batch'[i] : batch'[i][k] = <<p, offset>>
  <2>1. CASE <<p, offset>> \in undecodable
    BY <1>1, <1>4, <1>5, <2>1
  <2>2. CASE <<p, offset>> \notin undecodable
    <3> DEFINE r == <<p, offset>>
    <3>1. r \in Parts \X Nat
      BY <1>3, <1>4
    <3>2. batch' = [batch EXCEPT ![i] = Append(@, r)] /\ child' = child
      BY <1>1, <1>4, <2>2
    <3>3. /\ \A k \in DOMAIN batch[i] : k \in DOMAIN batch'[i] /\ batch'[i][k] = batch[i][k]
          /\ \E k \in DOMAIN batch'[i] : batch'[i][k] = r
      <4> HIDE DEF r
      <4> QED
        BY <3>1, <3>2, Appended, ZenonT(20)
    <3> QED
      BY <1>2, <3>2, <3>3
  <2> QED
    BY <2>1, <2>2
<1>9. ASSUME NEW q \in Parts \ {p} PROVE TrackedAt(q)'
  <2>1. TrackedAt(q)
    BY DEF Tracked
  <2>2. CASE position[q] < 0
    BY <1>2, <1>5, <1>6, <2>1, <2>2, Unmoved
  <2>3. CASE position[q] >= 0
    <3>1. owner[q] \in Members
      BY <2>3, OwnerJoined
    <3>2. CASE owner[q] # i
      <4>1. child'[owner[q]] = child[owner[q]] /\ batch'[owner[q]] = batch[owner[q]]
        BY <1>7, <3>1, <3>2
      <4> QED
        BY <1>2, <1>6, <2>1, <4>1, Unmoved DEF InHand, Polled
    <3>3. CASE owner[q] = i
      BY <1>2, <1>6, <1>8, <2>1, <3>3, Unmoved DEF InHand, Polled
    <3> QED
      BY <3>2, <3>3
  <2> QED
    BY <1>5, <2>2, <2>3
<1>10. TrackedAt(p)'
  <2>1. TrackedAt(p)
    BY <1>3 DEF Tracked
  <2>2. ASSUME child'[i] # "raising", NEW o \in 0 .. offset
        PROVE  <<p, o>> \in counted' \/ InHand(i, <<p, o>>)'
    <3>1. CASE o = offset
      BY <1>8, <2>2, <3>1 DEF InHand, Polled
    <3>2. CASE o # offset /\ position[p] >= 0
      <4>1. o \in 0 .. position[p] - 1
        BY <1>4, <1>5, <3>2 DEF Upcoming
      <4>2. <<p, o>> \in counted \/ InHand(i, <<p, o>>)
        BY <1>2, <1>3, <2>1, <3>2, <4>1 DEF TrackedAt
      <4>3. InHand(i, <<p, o>>) => InHand(i, <<p, o>>)'
        BY <1>8, <2>2 DEF InHand, Polled
      <4> QED
        BY <1>2, <4>2, <4>3
    <3>3. CASE o # offset /\ ~(position[p] >= 0)
      <4>1. o \in 0 .. committed[p] - 1
        BY <1>3, <1>4, <3>3, Numbered DEF Upcoming
      <4> QED
        BY <1>2, <2>1, <4>1 DEF TrackedAt
    <3> QED
      BY <3>1, <3>2, <3>3
  <2>3. 0 .. position'[p] - 1 = 0 .. offset
    BY <1>6
  <2>4. owner'[p] = i /\ owner'[p] # 0
    BY <1>2, <1>3
  <2>5. \A o \in 0 .. committed'[p] - 1 : <<p, o>> \in counted'
    BY <1>2, <2>1 DEF TrackedAt
  <2>6. child'[owner'[p]] # "raising" =>
          \A o \in 0 .. position'[p] - 1 : <<p, o>> \in counted' \/ InHand(owner[p], <<p, o>>)'
    BY <1>2, <1>3, <2>2, <2>3, <2>4 DEF InHand, Polled
  <2> QED
    BY <2>4, <2>5, <2>6 DEF TrackedAt
<1> QED
  BY <1>9, <1>10 DEF Tracked

(* The accountant takes the whole batch, then the positions are committed.  *)
LEMMA ProcessTracked ==
  ASSUME TypeOK, Tracked, NEW i \in Members, ProcessBatch(i)
  PROVE  Tracked'
<1>1. /\ child' = [child EXCEPT ![i] = "commit"]
      /\ UNCHANGED <<owner, position, committed, batch>>
      /\ counted' = counted \cup Polled(i) /\ child[i] = "process"
  BY DEF ProcessBatch, group
<1>2. \A p \in Fetched(i), o \in Nat : InHand(i, <<p, o>>) => <<p, o>> \in counted'
  BY <1>1 DEF InHand
<1>3. \A p \in Fetched(i) : \A o \in 0 .. position[p] - 1 : o \in Nat
  BY Numbered DEF Fetched, Owned
<1> QED
  BY <1>1, <1>2, <1>3, StepOfOne

(* What is committed now are positions of an empty-handed owner.            *)
LEMMA CommitTracked ==
  ASSUME TypeOK, Tracked, NEW i \in Members, Commit(i)
  PROVE  Tracked'
<1>1. PICK s \in {"raising", "lag"} : child' = [child EXCEPT ![i] = s]
  BY DEF Commit
<1>2. /\ child[i] = "commit" /\ batch' = [batch EXCEPT ![i] = <<>>]
      /\ committed' = [p \in Parts |-> IF p \in Fetched(i) THEN position[p] ELSE committed[p]]
      /\ UNCHANGED <<owner, position, counted>>
  BY DEF Commit, books
<1>3. child \in [Members -> Places] /\ batch \in [Members -> Seq(Parts \X Nat)]
  BY DEF TypeOK, Places
<1>4. \A j \in Members \ {i} : child'[j] = child[j] /\ batch'[j] = batch[j]
  BY <1>1, <1>2, <1>3
<1>5. ASSUME NEW p \in Fetched(i) PROVE TrackedAt(p)'
  <2>1. AllCounted(p) /\ p \in Parts /\ owner[p] = i /\ TrackedAt(p)
    BY <1>2, <1>5, OutsideBatch DEF Fetched, Owned, Tracked
  <2>2. committed'[p] = position[p]
    BY <1>2, <2>1
  <2> QED
    BY <1>2, <2>1, <2>2 DEF TrackedAt, AllCounted
<1>6. ASSUME NEW p \in Parts \ Fetched(i) PROVE TrackedAt(p)'
  <2>1. TrackedAt(p) /\ committed'[p] = committed[p]
    BY <1>2, <1>6 DEF Tracked
  <2>2. CASE position[p] < 0
    BY <1>2, <2>1, <2>2, Unmoved, Numbered
  <2>3. CASE position[p] >= 0
    <3>1. owner[p] \in Members \ {i}
      BY <1>6, <2>3, OwnerJoined DEF Fetched, Owned
    <3>2. child'[owner[p]] = child[owner[p]] /\ batch'[owner[p]] = batch[owner[p]]
      BY <1>4, <3>1
    <3> QED
      BY <1>2, <2>1, <3>2, Unmoved DEF InHand, Polled
  <2> QED
    BY <2>2, <2>3, Numbered
<1> QED
  BY <1>5, <1>6 DEF Tracked

(* A member that leaves the group, or loses its partitions.                 *)
LEMMA LossTracked ==
  ASSUME TypeOK, Tracked, NEW i \in Members,
         owner' = [p \in Parts |-> IF owner[p] = i THEN 0 ELSE owner[p]],
         position' = [p \in Parts |-> IF owner[p] = i THEN -1 ELSE position[p]],
         UNCHANGED <<committed, counted>>,
         \A j \in Members \ {i} : child'[j] = child[j] /\ batch'[j] = batch[j]
  PROVE  Tracked'
<1> SUFFICES ASSUME NEW p \in Parts PROVE TrackedAt(p)'
  BY DEF Tracked
<1>1. TrackedAt(p)
  BY DEF Tracked
<1>2. CASE owner[p] = i
  BY <1>1, <1>2, Freed
<1>3. CASE owner[p] # i /\ position[p] < 0
  BY <1>1, <1>3, Unmoved, Numbered
<1>4. CASE owner[p] # i /\ position[p] >= 0
  <2>1. owner[p] \in Members \ {i}
    BY <1>4, OwnerJoined
  <2>2. child'[owner[p]] = child[owner[p]] /\ batch'[owner[p]] = batch[owner[p]]
    BY <2>1
  <2> QED
    BY <1>1, <1>4, <2>2, Unmoved DEF InHand, Polled
<1> QED
  BY <1>2, <1>3, <1>4, Numbered

(* Partitions are only assigned when every member has given its own back,   *)
(* so that none has been fetched from.                                      *)
LEMMA NothingFetched ==
  ASSUME TypeOK, Tracked, Assign
  PROVE  \A p \in Parts : position[p] = -1
<1> SUFFICES ASSUME NEW p \in Parts, position[p] >= 0 PROVE FALSE
  BY DEF TypeOK
<1>1. owner[p] \in Joined
  BY OwnerJoined
<1>2. Owned(owner[p]) = {}
  BY <1>1 DEF Assign
<1> QED
  BY <1>2 DEF Owned

(* The new owners have no positions.                                        *)
LEMMA AssignTracked ==
  ASSUME TypeOK, Tracked, Assign
  PROVE  Tracked'
<1> SUFFICES ASSUME NEW p \in Parts PROVE TrackedAt(p)'
  BY DEF Tracked
<1>1. TrackedAt(p) /\ position'[p] = -1 /\ UNCHANGED <<committed, counted>>
  BY NothingFetched DEF Tracked, Assign, books
<1> QED
  BY <1>1, Freed

(* The steps by which a member starts, fails or moves on: it lets go of     *)
(* what is in its hands only when it raises.                                *)
LEMMA MoveTracked ==
  ASSUME TypeOK, Tracked, NEW i \in Members,
         Top(i) \/ EndPoll(i) \/ SampleLag(i) \/ Raise(i) \/ Start(i) \/ Work(i)
  PROVE  Tracked'
<1>1. UNCHANGED <<owner, position, committed, counted, batch>>
  BY DEF Top, EndPoll, SampleLag, Raise, Start, Work, group, books
<1>2. child \in [Members -> Places]
  BY DEF TypeOK, Places
<1>3. CASE child[i] \in {"queued", "working"}
  <2>1. \A j \in Joined : j # i /\ j \in Members
    BY <1>3 DEF Joined, Inside
  <2>2. PICK s : child' = [child EXCEPT ![i] = s]
    BY DEF Top, EndPoll, SampleLag, Raise, Start, Work
  <2>3. \A j \in Joined : child'[j] = child[j] /\ batch'[j] = batch[j]
    BY <1>1, <1>2, <2>1, <2>2
  <2> QED
    BY <1>1, <2>3, StepAside
<1>4. CASE Raise(i) /\ child[i] \notin {"queued", "working"}
  <2>1. child' = [child EXCEPT ![i] = "raising"]
    BY <1>4 DEF Raise
  <2> QED
    BY <1>1, <2>1, StepOfOne
<1>5. CASE Top(i) \/ SampleLag(i)
  <2>1. PICK s : child' = [child EXCEPT ![i] = s]
    BY <1>5 DEF Top, SampleLag
  <2>2. child[i] \notin {"poll", "process", "raising"}
    BY <1>5 DEF Top, SampleLag
  <2>3. \A p \in Fetched(i) : AllCounted(p)
    BY <2>2, OutsideBatch
  <2> QED
    BY <1>1, <2>1, <2>3, StepOfOne
<1>6. CASE EndPoll(i)
  <2>1. PICK s : child' = [child EXCEPT ![i] = s] /\ s = IF batch[i] = <<>> THEN "lag" ELSE "process"
    BY <1>6 DEF EndPoll
  <2>2. ASSUME NEW p \in Fetched(i), NEW o \in 0 .. position[p] - 1, InHand(i, <<p, o>>)
        PROVE  /\ s \in {"poll", "process"}
               /\ \E k \in DOMAIN batch'[i] : batch'[i][k] = <<p, o>>
    <3>1. PICK k \in DOMAIN batch[i] : batch[i][k] = <<p, o>>
      BY <2>2 DEF InHand, Polled
    <3>2. batch[i] # <<>>
      BY <3>1
    <3> QED
      BY <1>1, <2>1, <3>1, <3>2
  <2>3. child[i] # "raising"
    BY <1>6 DEF EndPoll
  <2>4. \A p \in Fetched(i) :
          /\ child[i] # "raising"
          /\ \A o \in 0 .. position[p] - 1 : InHand(i, <<p, o>>) =>
               \/ <<p, o>> \in counted'
               \/ /\ s \in {"poll", "process"}
                  /\ \E k \in DOMAIN batch'[i] : batch'[i][k] = <<p, o>>
    BY <2>2, <2>3
  <2>5. counted \subseteq counted' /\ (\A j \in Members \ {i} : batch'[j] = batch[j])
        /\ UNCHANGED <<owner, position, committed>> /\ child' = [child EXCEPT ![i] = s]
    BY <1>1, <2>1
  <2> QED
    BY <2>4, <2>5, StepOfOne, ZenonT(20)
<1> QED
  BY <1>3, <1>4, <1>5, <1>6 DEF Start, Work, Raise

(* Every step of the fleet.                                                 *)
LEMMA StepTracked ==
  ASSUME TypeOK, Spawned, Tracked, [Next]_vars
  PROVE  Tracked'
<1>1. ASSUME NEW a \in {"script", "setup"}, Look(a) \/ Create(a) PROVE Tracked'
  <2>1. UNCHANGED <<child, batch, owner, position, committed, counted>>
    BY <1>1 DEF Look, Create, loop, group, books
  <2> QED
    BY <2>1, StepAside
<1>2. CASE Plan
  <2>1. Joined = {} /\ UNCHANGED <<owner, position, committed, counted>>
    BY <1>2 DEF Plan, Spawned, Joined, Inside, group, books
  <2> QED
    BY <2>1, StepAside
<1>3. CASE Return
  <2>1. UNCHANGED <<child, batch, owner, position, committed, counted>>
    BY <1>3 DEF Return, loop, group, books
  <2> QED
    BY <2>1, StepAside
<1>4. ASSUME NEW i \in Members, Deadline(i) PROVE Tracked'
  <2>1. UNCHANGED <<child, batch, owner, position, committed, counted>>
    BY <1>4 DEF Deadline, group, books
  <2> QED
    BY <2>1, StepAside
<1>5. ASSUME NEW i \in Members, Close(i) \/ Kill(i) \/ Revoke(i) PROVE Tracked'
  <2>1. \A j \in Members \ {i} : child'[j] = child[j] /\ batch'[j] = batch[j]
    BY <1>5 DEF Close, Kill, Revoke, loop, TypeOK
  <2>2. /\ owner' = [p \in Parts |-> IF owner[p] = i THEN 0 ELSE owner[p]]
        /\ position' = [p \in Parts |-> IF owner[p] = i THEN -1 ELSE position[p]]
        /\ UNCHANGED <<committed, counted>>
    BY <1>5 DEF Close, Kill, Revoke, Leave, books
  <2> QED
    BY <2>1, <2>2, LossTracked
<1>6. CASE UNCHANGED vars
  <2>1. UNCHANGED <<child, batch, owner, position, committed, counted>>
    BY <1>6 DEF vars, loop, group, books
  <2> QED
    BY <2>1, StepAside
<1> QED
  BY <1>1, <1>2, <1>3, <1>4, <1>5, <1>6, MoveTracked, PollTracked, ProcessTracked,
     CommitTracked, AssignTracked DEF Next, MemberSteps

-----------------------------------------------------------------------------
(* The books of the members.                                                *)

(* A batch holds no more records than messages.                             *)
LEMMA PolledSize ==
  ASSUME TypeOK, NEW i \in Members
  PROVE  IsFiniteSet(Polled(i)) /\ Cardinality(Polled(i)) <= Len(batch[i])
<1>1. PICK n \in Nat : n = Len(batch[i]) /\ DOMAIN batch[i] = 1 .. n
  BY Numbered
<1>2. IsFiniteSet(1 .. n) /\ Cardinality(1 .. n) = IF 1 > n THEN 0 ELSE n - 1 + 1
  BY FS_Interval, SMTT(30)
<1>3. Cardinality(1 .. n) = n
  <2>1. (IF 1 > n THEN 0 ELSE n - 1 + 1) = n
    OBVIOUS
  <2> QED
    BY <1>2, <2>1
<1> DEFINE g == [k \in 1 .. n |-> batch[i][k]]
<1>4. g \in Surjection(1 .. n, Polled(i))
  BY <1>1 DEF Polled, Surjection
<1>5. IsFiniteSet(Polled(i)) /\ Cardinality(Polled(i)) <= Cardinality(1 .. n)
  <2> HIDE DEF g
  <2> QED
    BY <1>2, <1>4, FS_Surjection
<1> QED
  BY <1>1, <1>3, <1>5

(* Every counted record can be credited to a member, none of them with more *)
(* than it consumed.                                                        *)
Booked == IsFiniteSet(counted) /\ Creditable(counted)

(* Nothing is counted.                                                      *)
LEMMA InitBooked == Init => Booked
<1> SUFFICES ASSUME Init PROVE Booked
  OBVIOUS
<1>1. counted = {} /\ consumed = [i \in Members |-> 0]
  BY DEF Init
<1>2. IsFiniteSet({}) /\ Cardinality({}) = 0
  BY FS_EmptySet
<1> DEFINE credit == [r \in {} |-> r]
<1>3. credit \in [counted -> Members]
  BY <1>1
<1>4. ASSUME NEW i \in Members
      PROVE  Cardinality({r \in counted : credit[r] = i}) <= consumed[i]
  <2>1. {r \in counted : credit[r] = i} = {}
    BY <1>1
  <2> QED
    BY <1>1, <1>2, <2>1
<1>5. Creditable(counted)
  <2> HIDE DEF credit
  <2> QED
    BY <1>3, <1>4 DEF Creditable
<1> QED
  BY <1>1, <1>2, <1>5 DEF Booked

(* A member is credited with the records of its batch that no accountant    *)
(* has recorded yet; it consumes the whole batch.                           *)
LEMMA ProcessBooked ==
  ASSUME TypeOK, Booked, NEW i \in Members, ProcessBatch(i)
  PROVE  Booked'
<1>1. counted' = counted \cup Polled(i) /\ consumed' = [consumed EXCEPT ![i] = @ + Len(batch[i])]
  BY DEF ProcessBatch
<1>2. PICK n \in Nat : n = Len(batch[i])
  BY Numbered
<1>3. IsFiniteSet(Polled(i)) /\ Cardinality(Polled(i)) <= n /\ IsFiniteSet(counted)
  BY <1>2, PolledSize DEF Booked
<1>4. IsFiniteSet(counted')
  BY <1>1, <1>3, FS_Union
<1>5. PICK credit \in [counted -> Members] :
        \A j \in Members : Cardinality({r \in counted : credit[r] = j}) <= consumed[j]
  BY DEF Booked, Creditable
<1>6. consumed \in [Members -> Nat]
  BY DEF TypeOK
<1>7. consumed'[i] = consumed[i] + n /\ \A j \in Members \ {i} : consumed'[j] = consumed[j]
  BY <1>1, <1>2, <1>6
<1> DEFINE next == [r \in counted' |-> IF r \in counted THEN credit[r] ELSE i]
<1>8. next \in [counted' -> Members]
  BY <1>5
<1>9. ASSUME NEW j \in Members PROVE Cardinality({r \in counted' : next[r] = j}) <= consumed'[j]
  <2> DEFINE old == {r \in counted : credit[r] = j}
             new == {r \in counted' : next[r] = j}
  <2>1. IsFiniteSet(old) /\ Cardinality(old) \in Nat
    <3>1. old \subseteq counted
      OBVIOUS
    <3> HIDE DEF old
    <3> QED
      BY <1>3, <3>1, FS_Subset, FS_CardinalityType
  <2>2. CASE j # i
    <3>1. new = old
      BY <1>1, <2>2
    <3> QED
      BY <1>5, <1>7, <2>2, <3>1
  <2>3. CASE j = i
    <3>1. new \subseteq old \cup Polled(i)
      BY <1>1, <2>3
    <3>2. Cardinality(old) <= consumed[i]
      BY <1>5, <2>3
    <3> HIDE DEF old, new
    <3>3. /\ IsFiniteSet(old \cup Polled(i))
          /\ Cardinality(old \cup Polled(i))
               = Cardinality(old) + Cardinality(Polled(i)) - Cardinality(old \cap Polled(i))
      BY <1>3, <2>1, FS_Union
    <3>4. Cardinality(Polled(i)) \in Nat /\ Cardinality(old \cap Polled(i)) \in Nat
      BY <1>3, <2>1, FS_Intersection, FS_CardinalityType
    <3>5. Cardinality(new) <= Cardinality(old \cup Polled(i))
      BY <3>1, <3>3, FS_Subset
    <3>6. Cardinality(new) \in Nat
      BY <3>1, <3>3, FS_Subset, FS_CardinalityType
    <3>7. consumed[i] \in Nat
      BY <1>6
    <3>8. Cardinality(new) <= consumed[i] + n
      BY <1>2, <1>3, <2>1, <3>2, <3>3, <3>4, <3>5, <3>6, <3>7
    <3> QED
      BY <1>7, <2>3, <3>8 DEF new
  <2> QED
    BY <2>2, <2>3
<1>10. Creditable(counted)'
  <2> HIDE DEF next
  <2> QED
    BY <1>8, <1>9 DEF Creditable
<1> QED
  BY <1>4, <1>10 DEF Booked

(* No other step touches the books.                                         *)
LEMMA StepBooked ==
  ASSUME TypeOK, Booked, [Next]_vars
  PROVE  Booked'
<1>1. ASSUME NEW i \in Members, ProcessBatch(i) PROVE Booked'
  BY <1>1, ProcessBooked
<1>2. ASSUME \A i \in Members : ~ProcessBatch(i) PROVE Booked'
  <2>1. UNCHANGED <<counted, consumed>>
    BY <1>2 DEF Next, MemberSteps, Look, Create, Plan, Return, Start, Work, Deadline, Top,
       EndPoll, Commit, SampleLag, Close, PollMessage, Revoke, Raise, Kill, Assign, books, vars
  <2> QED
    BY <2>1 DEF Booked, Creditable
<1> QED
  BY <1>1, <1>2

(* What is committed is a part of what was counted, so it can be credited   *)
(* as that was.                                                             *)
LEMMA CommittedIsCredited ==
  ASSUME TypeOK, Tracked, Booked
  PROVE  Committed \subseteq counted /\ Creditable(Committed)
<1>1. ASSUME NEW r \in Committed PROVE r \in counted
  <2>1. PICK p \in Parts : r \in {p} \X (0 .. committed[p] - 1)
    BY <1>1 DEF Committed
  <2>2. PICK o \in 0 .. committed[p] - 1 : r = <<p, o>>
    BY <2>1
  <2> QED
    BY <2>2 DEF Tracked, TrackedAt
<1>2. PICK credit \in [counted -> Members] :
        \A i \in Members : Cardinality({r \in counted : credit[r] = i}) <= consumed[i]
  BY DEF Booked, Creditable
<1> DEFINE part == [r \in Committed |-> credit[r]]
<1>3. part \in [Committed -> Members]
  BY <1>1, <1>2
<1>4. ASSUME NEW i \in Members
      PROVE  Cardinality({r \in Committed : part[r] = i}) <= consumed[i]
  <2> DEFINE all == {r \in counted : credit[r] = i}
             some == {r \in Committed : part[r] = i}
  <2>1. some \subseteq all /\ all \subseteq counted
    BY <1>1
  <2>2. Cardinality(all) <= consumed[i] /\ consumed[i] \in Nat
    BY <1>2 DEF TypeOK
  <2> HIDE DEF some, all
  <2>3. IsFiniteSet(all) /\ IsFiniteSet(some) /\ Cardinality(some) <= Cardinality(all)
    BY <2>1, FS_Subset DEF Booked
  <2>4. Cardinality(all) \in Nat /\ Cardinality(some) \in Nat
    BY <2>3, FS_CardinalityType
  <2>5. Cardinality(some) <= consumed[i]
    BY <2>2, <2>3, <2>4
  <2> QED
    BY <2>5 DEF some
<1>5. Creditable(Committed)
  <2> HIDE DEF part
  <2> QED
    BY <1>3, <1>4 DEF Creditable
<1> QED
  BY <1>1, <1>5

(* Exactly what a rebalance between a poll and its commit could break: an   *)
(* offset is committed only when the record below it is in the books of a   *)
(* member, and the records committed can be shared out among the members so *)
(* that none is credited with more than it consumed, which is what a report *)
(* adds up.                                                                 *)
THEOREM CommittedIsCounted == Spec => []CommittedWasCounted
<1> DEFINE IInv == TypeOK /\ Spawned /\ Tracked /\ Booked
<1>1. Init => IInv
  BY InitTyped, InitTracked, InitBooked
<1>2. IInv /\ [Next]_vars => IInv'
  BY StepTyped, StepTracked, StepBooked
<1>3. IInv => CommittedWasCounted
  BY CommittedIsCredited DEF CommittedWasCounted
<1> QED
  BY <1>1, <1>2, <1>3, PTL DEF Spec

-----------------------------------------------------------------------------
(* What a lag of 0 tells a member.                                          *)

Settled(i) == child[i] \in {"top", "lag", "ended"} \/ (child[i] = "poll" /\ batch[i] = <<>>)

(* Outside its batch a member has committed what it has fetched.            *)
SyncAt(i) ==
  /\ child[i] \in {"off", "queued", "top", "lag", "ended"} => batch[i] = <<>>
  /\ Settled(i) => \A p \in Fetched(i) : position[p] = committed[p]

Sync == \A i \in Members : SyncAt(i)

(* No member has a batch or a position.                                     *)
LEMMA InitSync == Init => Sync
<1> SUFFICES ASSUME Init, NEW i \in Members PROVE SyncAt(i)
  BY DEF Sync
<1>1. Fetched(i) = {} /\ batch[i] = <<>>
  BY DEF Init, Fetched, Owned
<1> QED
  BY <1>1 DEF SyncAt

(* A member that neither moves nor gains a position.                        *)
LEMMA SyncKept ==
  ASSUME NEW j \in Members, SyncAt(j), child'[j] = child[j], batch'[j] = batch[j],
         \A p \in Parts : owner'[p] = j /\ position'[p] >= 0 =>
            /\ owner[p] = j /\ position[p] >= 0
            /\ position'[p] = position[p] /\ committed'[p] = committed[p]
  PROVE  SyncAt(j)'
  BY DEF SyncAt, Settled, Fetched, Owned

(* A step of one member, seen from the others.                              *)
LEMMA OthersInSync ==
  ASSUME TypeOK, Sync, NEW i \in Members, SyncAt(i)',
         \A j \in Members \ {i} : child'[j] = child[j] /\ batch'[j] = batch[j],
         \A p \in Parts :
           \/ owner'[p] \in {0, i} \/ ~(position'[p] >= 0)
           \/ owner'[p] = owner[p] /\ position'[p] = position[p] /\ committed'[p] = committed[p]
  PROVE  Sync'
<1> SUFFICES ASSUME NEW j \in Members \ {i} PROVE SyncAt(j)'
  BY DEF Sync
<1>1. SyncAt(j) /\ j # 0
  BY Sizes DEF Sync
<1>2. \A p \in Parts : owner'[p] = j /\ position'[p] >= 0 =>
        /\ owner[p] = j /\ position[p] >= 0
        /\ position'[p] = position[p] /\ committed'[p] = committed[p]
  <2> SUFFICES ASSUME NEW p \in Parts, owner'[p] = j, position'[p] >= 0
               PROVE  /\ owner[p] = j /\ position[p] >= 0
                      /\ position'[p] = position[p] /\ committed'[p] = committed[p]
    OBVIOUS
  <2>1. ~(owner'[p] \in {0, i})
    BY <1>1
  <2> QED
    BY <2>1
<1> QED
  BY <1>1, <1>2, SyncKept

(* A member leaves its batch empty-handed or not at all.                    *)
LEMMA MoveInSync ==
  ASSUME TypeOK, Spawned, Sync, NEW i \in Members,
         Start(i) \/ Work(i) \/ Top(i) \/ EndPoll(i) \/ SampleLag(i) \/ Raise(i)
  PROVE  Sync'
<1>1. UNCHANGED <<owner, position, committed, batch>>
  BY DEF Top, EndPoll, SampleLag, Raise, Start, Work, group
<1>2. PICK s : child' = [child EXCEPT ![i] = s]
  BY DEF Top, EndPoll, SampleLag, Raise, Start, Work
<1>3. child \in [Members -> Places] /\ SyncAt(i)
  BY DEF TypeOK, Places, Sync
<1>4. child'[i] = s /\ \A j \in Members \ {i} : child'[j] = child[j] /\ batch'[j] = batch[j]
  BY <1>1, <1>2, <1>3
<1>5. SyncAt(i)'
  <2>1. CASE Start(i) \/ Work(i) \/ (Raise(i) /\ child[i] \in {"queued", "working"})
    <3>1. child[i] \in {"queued", "working"} /\ s \in {"top", "working", "done", "failed"}
      BY <1>3, <1>4, <2>1 DEF Start, Work, Raise
    <3>2. Fetched(i) = {}
      BY <3>1, Sizes DEF TypeOK, Joined, Inside, Fetched, Owned
    <3>3. Fetched(i)' = {}
      BY <1>1, <3>2 DEF Fetched, Owned
    <3>4. s = "top" => child[i] = "queued"
      BY <1>3, <1>4, <2>1 DEF Start, Work, Raise
    <3> QED
      BY <1>1, <1>3, <1>4, <3>1, <3>3, <3>4 DEF SyncAt
  <2>2. CASE Raise(i) /\ child[i] \notin {"queued", "working"}
    <3>1. s = "raising"
      BY <1>3, <1>4, <2>2 DEF Raise
    <3> QED
      BY <1>4, <3>1 DEF SyncAt, Settled
  <2>3. CASE Top(i) \/ SampleLag(i)
    <3>1. child[i] \in {"top", "lag"} /\ s \in {"top", "ended", "poll"}
      BY <1>3, <1>4, <2>3 DEF Top, SampleLag
    <3> QED
      BY <1>1, <1>3, <1>4, <3>1 DEF SyncAt, Settled, Fetched, Owned
  <2>4. CASE EndPoll(i)
    <3>1. child[i] = "poll" /\ s = IF batch[i] = <<>> THEN "lag" ELSE "process"
      BY <1>3, <1>4, <2>4 DEF EndPoll
    <3> QED
      BY <1>1, <1>3, <1>4, <3>1 DEF SyncAt, Settled, Fetched, Owned
  <2> QED
    BY <2>1, <2>2, <2>3, <2>4
<1> QED
  BY <1>1, <1>4, <1>5, OthersInSync

(* A polled message makes the batch a batch, or raises.                     *)
LEMMA PollInSync ==
  ASSUME TypeOK, Sync, NEW i \in Members, PollMessage(i)
  PROVE  Sync'
<1>1. PICK p \in Owned(i) : LET offset == Upcoming(p) IN
        /\ offset < LogEnd[p]
        /\ position' = [position EXCEPT ![p] = offset + 1]
        /\ IF <<p, offset>> \in undecodable
           THEN child' = [child EXCEPT ![i] = "raising"] /\ UNCHANGED batch
           ELSE batch' = [batch EXCEPT ![i] = Append(@, <<p, offset>>)] /\ UNCHANGED child
  BY DEF PollMessage
<1>2. child[i] = "poll" /\ UNCHANGED <<owner, committed>>
  BY DEF PollMessage
<1>3. p \in Parts /\ owner[p] = i
  BY DEF Owned
<1>4. PICK offset \in Nat : offset = Upcoming(p)
  BY <1>3, Numbered DEF Upcoming
<1>5. child \in [Members -> Places] /\ position \in [Parts -> Int]
  BY DEF TypeOK, Places
<1>6. \A q \in Parts \ {p} : position'[q] = position[q]
  BY <1>1, <1>5
<1>7. child'[i] = "raising" \/ (child'[i] = "poll" /\ batch'[i] # <<>>)
  <2>1. CASE <<p, offset>> \in undecodable
    BY <1>1, <1>4, <1>5, <2>1
  <2>2. CASE <<p, offset>> \notin undecodable
    <3> DEFINE r == <<p, offset>>
    <3>1. r \in Parts \X Nat
      BY <1>3, <1>4
    <3>2. batch' = [batch EXCEPT ![i] = Append(@, r)] /\ child' = child
      BY <1>1, <1>4, <2>2
    <3>3. batch'[i] # <<>>
      <4> HIDE DEF r
      <4> QED
        BY <3>1, <3>2, Appended
    <3> QED
      BY <1>2, <3>2, <3>3
  <2> QED
    BY <2>1, <2>2
<1>8. SyncAt(i)'
  BY <1>7 DEF SyncAt, Settled
<1>9. \A j \in Members \ {i} : child'[j] = child[j] /\ batch'[j] = batch[j]
  BY <1>1, <1>5 DEF TypeOK
<1>10. \A q \in Parts :
         \/ owner'[q] \in {0, i} \/ ~(position'[q] >= 0)
         \/ owner'[q] = owner[q] /\ position'[q] = position[q] /\ committed'[q] = committed[q]
  BY <1>2, <1>3, <1>6
<1> QED
  BY <1>8, <1>9, <1>10, OthersInSync

(* After the commit, position and committed offset agree again.             *)
LEMMA CommitInSync ==
  ASSUME TypeOK, Sync, NEW i \in Members, Commit(i)
  PROVE  Sync'
<1>1. /\ child' = [child EXCEPT ![i] = IF Fetched(i) = {} THEN "raising" ELSE "lag"]
      /\ batch' = [batch EXCEPT ![i] = <<>>]
      /\ committed' = [p \in Parts |-> IF p \in Fetched(i) THEN position[p] ELSE committed[p]]
      /\ UNCHANGED <<owner, position>>
  BY DEF Commit
<1>2. batch'[i] = <<>> /\ \A j \in Members \ {i} : child'[j] = child[j] /\ batch'[j] = batch[j]
  BY <1>1 DEF TypeOK
<1>3. Fetched(i)' = Fetched(i)
  BY <1>1 DEF Fetched, Owned
<1>4. SyncAt(i)'
  <2>1. \A p \in Fetched(i) : committed'[p] = position'[p]
    BY <1>1 DEF Fetched, Owned
  <2> QED
    BY <1>2, <1>3, <2>1 DEF SyncAt
<1>5. \A p \in Parts :
        \/ owner'[p] \in {0, i} \/ ~(position'[p] >= 0)
        \/ owner'[p] = owner[p] /\ position'[p] = position[p] /\ committed'[p] = committed[p]
  BY <1>1 DEF Fetched, Owned
<1> QED
  BY <1>2, <1>4, <1>5, OthersInSync

(* The member is still inside its batch.                                    *)
LEMMA ProcessInSync ==
  ASSUME TypeOK, Sync, NEW i \in Members, ProcessBatch(i)
  PROVE  Sync'
<1>1. child' = [child EXCEPT ![i] = "commit"] /\ UNCHANGED <<owner, position, committed, batch>>
  BY DEF ProcessBatch, group
<1>2. child'[i] = "commit" /\ \A j \in Members \ {i} : child'[j] = child[j] /\ batch'[j] = batch[j]
  BY <1>1 DEF TypeOK
<1>3. SyncAt(i)'
  BY <1>2 DEF SyncAt, Settled
<1> QED
  BY <1>1, <1>2, <1>3, OthersInSync

(* A member without partitions has fetched nothing.                         *)
LEMMA LossInSync ==
  ASSUME TypeOK, Sync, NEW i \in Members, Close(i) \/ Kill(i) \/ Revoke(i)
  PROVE  Sync'
<1>1. /\ owner' = [p \in Parts |-> IF owner[p] = i THEN 0 ELSE owner[p]]
      /\ position' = [p \in Parts |-> IF owner[p] = i THEN -1 ELSE position[p]]
      /\ UNCHANGED committed
  BY DEF Close, Kill, Revoke, Leave
<1>2. \A j \in Members \ {i} : child'[j] = child[j] /\ batch'[j] = batch[j]
  BY DEF Close, Kill, Revoke, loop, TypeOK
<1>3. batch'[i] = <<>> \/ (batch'[i] = batch[i] /\ child'[i] = child[i])
  BY DEF Close, Kill, Revoke, loop, TypeOK
<1>4. Fetched(i)' = {}
  BY <1>1, Sizes DEF Fetched, Owned
<1>5. SyncAt(i)'
  BY <1>3, <1>4 DEF SyncAt, Sync
<1>6. \A p \in Parts :
        \/ owner'[p] \in {0, i} \/ ~(position'[p] >= 0)
        \/ owner'[p] = owner[p] /\ position'[p] = position[p] /\ committed'[p] = committed[p]
  BY <1>1
<1> QED
  BY <1>2, <1>5, <1>6, OthersInSync

(* Every step of the fleet.                                                 *)
LEMMA StepInSync ==
  ASSUME TypeOK, Spawned, Tracked, Sync, [Next]_vars
  PROVE  Sync'
<1>1. ASSUME UNCHANGED <<child, batch, owner, position, committed>> PROVE Sync'
  BY <1>1 DEF Sync, SyncAt, Settled, Fetched, Owned
<1>2. ASSUME NEW a \in {"script", "setup"}, Look(a) \/ Create(a) PROVE Sync'
  BY <1>1, <1>2 DEF Look, Create, loop, group
<1>3. CASE Plan
  <2> SUFFICES ASSUME NEW i \in Members PROVE SyncAt(i)'
    BY DEF Sync
  <2>1. child[i] = "off" /\ SyncAt(i)
    BY <1>3 DEF Plan, Spawned, Sync
  <2>2. batch'[i] = <<>> /\ ~Settled(i)'
    BY <1>3, <2>1 DEF Plan, SyncAt, Settled
  <2> QED
    BY <2>2 DEF SyncAt
<1>4. CASE Return \/ UNCHANGED vars
  BY <1>1, <1>4 DEF Return, loop, group, vars
<1>5. ASSUME NEW i \in Members, Deadline(i) PROVE Sync'
  BY <1>1, <1>5 DEF Deadline, group
<1>6. CASE Assign
  <2> SUFFICES ASSUME NEW i \in Members PROVE SyncAt(i)'
    BY DEF Sync
  <2>1. UNCHANGED <<child, batch, position>>
    BY <1>6 DEF Assign, loop
  <2>2. Fetched(i)' = {}
    BY <1>6, <2>1, NothingFetched DEF Fetched, Owned
  <2>3. SyncAt(i)
    BY DEF Sync
  <2> QED
    BY <2>1, <2>2, <2>3 DEF SyncAt
<1> QED
  BY <1>2, <1>3, <1>4, <1>5, <1>6, MoveInSync, PollInSync, CommitInSync, ProcessInSync,
     LossInSync DEF Next, MemberSteps

(* The unread records of some partitions are finitely many.                 *)
LEMMA UnreadIsFinite ==
  ASSUME TypeOK, NEW P \in SUBSET Parts
  PROVE  IsFiniteSet(Unread(P))
<1> DEFINE Rest(p) == {p} \X (position[p] .. LogEnd[p] - 1)
           rest == [p \in P |-> Rest(p)]
           Rests == {Rest(p) : p \in P}
<1>1. IsFiniteSet(P)
  <2>1. IsFiniteSet(1 .. MaxTopic)
    BY Sizes, FS_Interval, SMTT(30)
  <2> QED
    BY <2>1, Sizes, FS_Subset
<1>2. rest \in Surjection(P, Rests)
  BY DEF Surjection
<1>3. IsFiniteSet(Rests)
  <2> HIDE DEF rest, Rests
  <2> QED
    BY <1>1, <1>2, FS_Surjection
<1>4. ASSUME NEW p \in P PROVE IsFiniteSet(Rest(p))
  <2>1. position[p] \in Int /\ LogEnd[p] - 1 \in Int
    BY Numbered
  <2>2. IsFiniteSet(position[p] .. LogEnd[p] - 1)
    <3> DEFINE a == position[p]
               b == LogEnd[p] - 1
    <3>1. a \in Int /\ b \in Int
      BY <2>1
    <3> HIDE DEF a, b
    <3>2. IsFiniteSet(a .. b)
      BY <3>1, FS_Interval, SMTT(30)
    <3> QED
      BY <3>2 DEF a, b
  <2> QED
    BY <2>2, FS_Singleton, FS_Product
<1>5. IsFiniteSet(UNION Rests)
  <2>1. \A T \in Rests : IsFiniteSet(T)
    BY <1>4
  <2> HIDE DEF Rests
  <2> QED
    BY <1>3, <2>1, FS_UNION
<1> QED
  BY <1>5 DEF Unread

(* A lag of 0 is the sum of the lags of all fetched partitions: each of     *)
(* them has been read to its end.                                           *)
LEMMA LagOfZero ==
  ASSUME TypeOK, NEW i \in Members, Lag(i) <= 0, NEW p \in Fetched(i)
  PROVE  position[p] = LogEnd[p]
<1>1. p \in Parts /\ Fetched(i) \subseteq Parts
  BY DEF Fetched, Owned
<1>2. IsFiniteSet(Unread(Fetched(i)))
  BY <1>1, UnreadIsFinite
<1>3. Lag(i) = Cardinality(Unread(Fetched(i))) /\ Cardinality(Unread(Fetched(i))) \in Nat
  BY <1>2, FS_CardinalityType DEF Lag
<1>4. Cardinality(Unread(Fetched(i))) = 0
  BY <1>3
<1>5. Unread(Fetched(i)) = {}
  BY <1>2, <1>4, FS_EmptySet
<1>6. position[p] \in -1 .. LogEnd[p] /\ LogEnd[p] \in Nat /\ position[p] \in Int
  BY <1>1, Numbered DEF TypeOK
<1>7. ~(position[p] < LogEnd[p])
  <2> SUFFICES ASSUME position[p] < LogEnd[p] PROVE FALSE
    OBVIOUS
  <2>1. position[p] \in position[p] .. LogEnd[p] - 1
    BY <1>6
  <2>2. <<p, position[p]>> \in Unread(Fetched(i))
    BY <2>1 DEF Unread
  <2> QED
    BY <1>5, <2>2
<1> QED
  BY <1>6, <1>7

(* While records of a partition are left, some member will see them: its    *)
(* owner, still in its loop; while it has no owner, a member that owns      *)
(* nothing and is in the loop or on its way to it; or else a member is on   *)
(* its way to an error, or killed, and there will be no report.             *)
Busy == {"top", "poll", "process", "commit", "lag"}

Attended(p) ==
  \/ \E j \in 1 .. members : child[j] \in {"failed", "killed", "raising"}
  \/ owner[p] # 0 /\ child[owner[p]] \in Busy
  \/ owner[p] = 0 /\ \E j \in 1 .. members : Owned(j) = {} /\ child[j] \in Busy \cup {"queued"}

Watched == program = "consume" /\ parent \in {"waiting", "reported"} /\ ~cut /\ ~blind /\ ~orphaned

DrainInv == Watched => \A p \in 1 .. topic : committed[p] < LogEnd[p] => Attended(p)

(* There is nobody to wait for before the plan.                             *)
LEMMA InitDrains == Init => DrainInv
  BY DEF Init, DrainInv, Watched

(* A step of a member that stays in the loop, or enters it.                 *)
LEMMA AttendedStill ==
  ASSUME TypeOK, NEW p \in Parts, Attended(p), NEW i \in 1 .. members, i \in Members,
         NEW s, child' = [child EXCEPT ![i] = s],
         UNCHANGED <<owner, members>>,
         \/ s \in {"failed", "killed", "raising"}
         \/ s \in Busy /\ child[i] \in Busy \cup {"queued"}
  PROVE  Attended(p)'
<1>1. child \in [Members -> Places]
  BY DEF TypeOK, Places
<1>2. child'[i] = s /\ \A j \in Members \ {i} : child'[j] = child[j]
  BY <1>1
<1>3. 1 .. members \subseteq Members
  BY Sizes DEF TypeOK
<1>4. CASE s \in {"failed", "killed", "raising"}
  BY <1>2, <1>4 DEF Attended
<1>5. CASE s \in Busy /\ child[i] \in Busy \cup {"queued"}
  <2>1. CASE \E j \in 1 .. members : child[j] \in {"failed", "killed", "raising"}
    <3>1. PICK j \in 1 .. members : child[j] \in {"failed", "killed", "raising"}
      BY <2>1
    <3>2. j \in Members \ {i}
      BY <1>3, <1>5, <3>1 DEF Busy
    <3> QED
      BY <1>2, <3>1, <3>2 DEF Attended
  <2>2. CASE owner[p] # 0 /\ child[owner[p]] \in Busy
    <3>1. owner[p] \in Members
      BY <2>2 DEF TypeOK, Joined
    <3>2. child'[owner[p]] \in Busy
      BY <1>2, <1>5, <2>2, <3>1
    <3> QED
      BY <2>2, <3>2 DEF Attended
  <2>3. CASE owner[p] = 0 /\ \E j \in 1 .. members :
               Owned(j) = {} /\ child[j] \in Busy \cup {"queued"}
    <3>1. PICK j \in 1 .. members : Owned(j) = {} /\ child[j] \in Busy \cup {"queued"}
      BY <2>3
    <3>2. child'[j] \in Busy \cup {"queued"}
      BY <1>2, <1>3, <1>5, <3>1
    <3>3. Owned(j)' = {}
      BY <3>1 DEF Owned
    <3> QED
      BY <2>3, <3>2, <3>3 DEF Attended
  <2> QED
    BY <2>1, <2>2, <2>3 DEF Attended
<1> QED
  BY <1>4, <1>5

(* The partitions of the topic and the planned members are among those      *)
(* there can be, and whoever runs was planned.                              *)
LEMMA Spread ==
  ASSUME TypeOK, Spawned
  PROVE  /\ 1 .. topic \subseteq Parts
         /\ 1 .. members \subseteq Members
         /\ \A i \in Members : child[i] # "off" => i \in 1 .. members
<1>1. members \in {0} \cup Members /\ topic \in Nat /\ topic <= MaxTopic
  BY Sizes DEF TypeOK
<1>2. 1 .. topic \subseteq Parts
  BY <1>1, Sizes
<1>3. 1 .. members \subseteq Members
  BY <1>1, Sizes
<1>4. ASSUME NEW i \in Members, child[i] # "off" PROVE i \in 1 .. members
  <2>1. i \in Nat \ {0} /\ i <= members
    BY <1>4, Sizes DEF Spawned
  <2> QED
    BY <1>1, <2>1, Sizes
<1> QED
  BY <1>2, <1>3, <1>4

(* Such a step keeps every partition attended.                              *)
LEMMA StepDrains ==
  ASSUME TypeOK, Spawned, DrainInv, NEW i \in Members, child[i] # "off",
         NEW s, child' = [child EXCEPT ![i] = s],
         UNCHANGED <<owner, topic, committed, members>>,
         Watched' => /\ Watched
                     /\ \/ s \in {"failed", "killed", "raising"}
                        \/ s \in Busy /\ child[i] \in Busy \cup {"queued"}
  PROVE  DrainInv'
<1> SUFFICES ASSUME Watched', NEW p \in 1 .. topic, committed[p] < LogEnd[p]
             PROVE  Attended(p)'
  BY DEF DrainInv
<1>1. Attended(p) /\ p \in Parts /\ i \in 1 .. members
  BY Spread DEF DrainInv
<1> QED
  BY <1>1, AttendedStill

(* The steps of a member that leave its offsets alone; a member that meets  *)
(* its deadline is out of the question.                                     *)
LEMMA MoveDrains ==
  ASSUME TypeOK, Spawned, DrainInv, NEW i \in Members,
         \/ Start(i) \/ Work(i) \/ Top(i) \/ EndPoll(i) \/ Raise(i) \/ PollMessage(i)
         \/ ProcessBatch(i)
  PROVE  DrainInv'
<1>1. UNCHANGED <<owner, topic, committed, members, program, parent>>
  <2>1. UNCHANGED <<owner, committed>>
    BY DEF Top, EndPoll, Raise, Start, Work, PollMessage, ProcessBatch, group
  <2>2. UNCHANGED <<script, topics>>
    BY DEF Top, EndPoll, Raise, Start, Work, PollMessage, ProcessBatch
  <2> QED
    BY <2>1, <2>2 DEF script, topics
<1>2. child[i] # "off" /\ (Watched' => Watched)
  <2>1. child[i] # "off"
    BY DEF Top, EndPoll, Raise, Start, Work, PollMessage, ProcessBatch
  <2>2. CASE Top(i)
    BY <1>1, <2>1, <2>2 DEF Top, Watched, TypeOK
  <2>3. CASE ~Top(i)
    <3>1. UNCHANGED <<blind, cut, orphaned>>
      <4>1. CASE Raise(i)
        BY <4>1 DEF Raise
      <4>2. CASE ~Raise(i)
        <5>1. UNCHANGED ghosts
          BY <2>3, <4>2 DEF EndPoll, Start, Work, PollMessage, ProcessBatch
        <5> QED
          BY <5>1 DEF ghosts
      <4> QED
        BY <4>1, <4>2
    <3> QED
      BY <1>1, <2>1, <3>1 DEF Watched
  <2> QED
    BY <2>1, <2>2, <2>3
<1>3. PICK s : /\ child' = [child EXCEPT ![i] = s]
               /\ Watched' => \/ s \in {"failed", "killed", "raising"}
                              \/ s \in Busy /\ child[i] \in Busy \cup {"queued"}
  <2>1. CASE Start(i)
    BY <1>1, <2>1 DEF Start, Watched, Busy
  <2>2. CASE Work(i)
    BY <1>1, <2>2 DEF Work, Watched
  <2>3. CASE Top(i)
    BY <2>3 DEF Top, Watched, Busy
  <2>4. CASE EndPoll(i)
    <3>1. child' = [child EXCEPT ![i] = "lag"] \/ child' = [child EXCEPT ![i] = "process"]
      BY <2>4 DEF EndPoll
    <3> QED
      BY <2>4, <3>1 DEF EndPoll, Busy
  <2>5. CASE Raise(i)
    <3>1. child' = [child EXCEPT ![i] = "raising"] \/ child' = [child EXCEPT ![i] = "failed"]
      BY <2>5 DEF Raise
    <3> QED
      BY <3>1
  <2>6. CASE PollMessage(i)
    <3>1. child' = child \/ child' = [child EXCEPT ![i] = "raising"]
      BY <2>6 DEF PollMessage
    <3>2. child[i] = "poll" /\ child \in [Members -> Places]
      BY <2>6 DEF PollMessage, TypeOK, Places
    <3>3. child = [child EXCEPT ![i] = "poll"]
      BY <3>2
    <3>4. CASE child' = child
      <4>1. child' = [child EXCEPT ![i] = "poll"]
        BY <3>3, <3>4
      <4> QED
        BY <3>2, <4>1 DEF Busy
    <3> QED
      BY <3>1, <3>4
  <2>7. CASE ProcessBatch(i)
    BY <2>7 DEF ProcessBatch, Busy
  <2> QED
    BY <2>1, <2>2, <2>3, <2>4, <2>5, <2>6, <2>7
<1> QED
  BY <1>1, <1>2, <1>3, StepDrains

(* The committing member attends to what it has fetched.                    *)
LEMMA CommitDrains ==
  ASSUME TypeOK, Spawned, DrainInv, NEW i \in Members, Commit(i)
  PROVE  DrainInv'
<1>1. PICK s \in {"raising", "lag"} : child' = [child EXCEPT ![i] = s]
  BY DEF Commit
<1>2. /\ child[i] = "commit" /\ UNCHANGED <<owner, topic, members>> /\ (Watched' => Watched)
      /\ committed' = [p \in Parts |-> IF p \in Fetched(i) THEN position[p] ELSE committed[p]]
  BY DEF Commit, script, topics, ghosts, Watched
<1> SUFFICES ASSUME Watched', NEW p \in 1 .. topic, committed'[p] < LogEnd[p]
             PROVE  Attended(p)'
  BY <1>2 DEF DrainInv
<1>3. p \in Parts /\ i \in 1 .. members
  BY <1>2, Spread
<1>4. CASE p \in Fetched(i)
  <2>1. child'[i] = s
    BY <1>1 DEF TypeOK
  <2>2. CASE s = "raising"
    BY <1>2, <1>3, <2>1, <2>2 DEF Attended
  <2>3. CASE s = "lag"
    <3>1. owner'[p] = i /\ i # 0
      BY <1>2, <1>4, Sizes DEF Fetched, Owned
    <3> QED
      BY <2>1, <2>3, <3>1 DEF Attended, Busy
  <2> QED
    BY <2>2, <2>3
<1>5. CASE p \notin Fetched(i)
  <2>1. committed[p] < LogEnd[p]
    BY <1>2, <1>3, <1>5
  <2>2. Attended(p)
    BY <1>2, <2>1 DEF DrainInv
  <2>3. s \in {"failed", "killed", "raising"} \/ (s \in Busy /\ child[i] \in Busy \cup {"queued"})
    BY <1>2 DEF Busy
  <2> QED
    BY <1>1, <1>2, <1>3, <2>2, <2>3, AttendedStill
<1> QED
  BY <1>4, <1>5

(* A member that takes itself for caught up owned something, and everything *)
(* it owned is read and committed: whoever attends to the rest is another.  *)
LEMMA SampleDrains ==
  ASSUME TypeOK, Spawned, Sync, DrainInv, NEW i \in Members, SampleLag(i)
  PROVE  DrainInv'
<1>1. /\ child[i] = "lag"
      /\ UNCHANGED <<owner, topic, committed, members, program, parent, cut, orphaned>>
      /\ blind' = (blind \/ (until_caught_up /\ Lag(i) <= 0 /\ Unseen(i)))
  BY DEF SampleLag, group, script, topics
<1>2. Watched' => Watched
  BY <1>1 DEF Watched, TypeOK
<1>3. CASE ~(until_caught_up /\ Lag(i) <= 0)
  <2>1. child' = [child EXCEPT ![i] = "top"]
    BY <1>3 DEF SampleLag
  <2>2. "top" \in Busy /\ child[i] \in Busy \cup {"queued"}
    BY <1>1 DEF Busy
  <2> QED
    BY <1>1, <1>2, <2>1, <2>2, StepDrains
<1>4. CASE until_caught_up /\ Lag(i) <= 0
  <2>1. child' = [child EXCEPT ![i] = "ended"] /\ blind' = (blind \/ Unseen(i))
    BY <1>1, <1>4 DEF SampleLag
  <2>2. \A j \in Members \ {i} : child'[j] = child[j]
    BY <2>1 DEF TypeOK
  <2> SUFFICES ASSUME Watched', NEW p \in 1 .. topic, committed[p] < LogEnd[p]
               PROVE  Attended(p)'
    BY <1>1 DEF DrainInv
  <2>3. Attended(p) /\ p \in Parts /\ ~Unseen(i)
    BY <1>2, <2>1, Spread DEF DrainInv, Watched
  <2>4. owner[p] # i
    <3> SUFFICES ASSUME owner[p] = i PROVE FALSE
      OBVIOUS
    <3>1. CASE p \in Fetched(i)
      <4>1. position[p] = LogEnd[p]
        BY <1>4, <3>1, LagOfZero
      <4>2. position[p] = committed[p]
        BY <1>1, <3>1 DEF Sync, SyncAt, Settled
      <4> QED
        BY <2>3, <4>1, <4>2, Numbered
    <3>2. CASE p \notin Fetched(i)
      BY <2>3, <3>2 DEF Unseen, Owned
    <3> QED
      BY <3>1, <3>2
  <2>5. CASE \E j \in 1 .. members : child[j] \in {"failed", "killed", "raising"}
    <3>1. PICK j \in 1 .. members : child[j] \in {"failed", "killed", "raising"}
      BY <2>5
    <3>2. child'[j] = child[j]
      BY <1>1, <2>2, <3>1, Spread
    <3> QED
      BY <1>1, <3>1, <3>2 DEF Attended
  <2>6. CASE owner[p] # 0 /\ child[owner[p]] \in Busy
    <3>1. child'[owner[p]] = child[owner[p]]
      BY <2>2, <2>3, <2>4, <2>6 DEF TypeOK, Joined
    <3> QED
      BY <1>1, <2>6, <3>1 DEF Attended
  <2>7. CASE owner[p] = 0 /\ \E j \in 1 .. members :
               Owned(j) = {} /\ child[j] \in Busy \cup {"queued"}
    <3>1. PICK j \in 1 .. members : Owned(j) = {} /\ child[j] \in Busy \cup {"queued"}
      BY <2>7
    <3>2. j # i
      BY <2>3, <3>1 DEF Unseen
    <3>3. child'[j] = child[j] /\ Owned(j)' = {}
      BY <1>1, <2>2, <3>1, <3>2, Spread DEF Owned
    <3> QED
      BY <1>1, <2>7, <3>1, <3>3 DEF Attended
  <2> QED
    BY <2>3, <2>5, <2>6, <2>7 DEF Attended
<1> QED
  BY <1>3, <1>4

(* A member that loses its partitions: what it leaves is attended by itself *)
(* when it is still in its loop, and it has put an error in the way of a    *)
(* report when it is not.                                                   *)
LEMMA LossDrains ==
  ASSUME TypeOK, Spawned, DrainInv, NEW i \in Members, Close(i) \/ Kill(i) \/ Revoke(i)
  PROVE  DrainInv'
<1>1. /\ owner' = [p \in Parts |-> IF owner[p] = i THEN 0 ELSE owner[p]]
      /\ UNCHANGED <<topic, committed, members, program, parent>>
  BY DEF Close, Kill, Revoke, Leave, script, topics
<1>2. \A j \in Members \ {i} : child'[j] = child[j]
  BY DEF Close, Kill, Revoke, loop, TypeOK
<1>3. Watched' => Watched
  <2>1. UNCHANGED <<blind, cut, orphaned>>
    BY DEF Close, Kill, Revoke, ghosts
  <2> QED
    BY <1>1, <2>1 DEF Watched
<1>4. i # 0 /\ i \in 1 .. members
  BY Spread, Sizes DEF Close, Kill, Revoke, Inside
<1>5. \/ child'[i] = "done" /\ child[i] = "ended"
      \/ child'[i] \in {"failed", "killed"}
      \/ child'[i] = child[i] /\ child[i] \in Inside
  BY DEF Close, Kill, Revoke, loop, TypeOK
<1> SUFFICES ASSUME Watched', NEW p \in 1 .. topic, committed[p] < LogEnd[p]
             PROVE  Attended(p)'
  BY <1>1 DEF DrainInv
<1>6. Attended(p) /\ p \in Parts
  BY <1>3, Spread DEF DrainInv
<1>7. CASE \E j \in 1 .. members : child'[j] \in {"failed", "killed", "raising"}
  BY <1>1, <1>7 DEF Attended
<1>8. CASE ~(\E j \in 1 .. members : child'[j] \in {"failed", "killed", "raising"})
  <2>1. \/ child'[i] = "done" /\ child[i] = "ended"
        \/ child'[i] = child[i] /\ child[i] \in {"top", "poll", "process", "commit", "lag", "ended"}
    BY <1>4, <1>5, <1>8 DEF Inside
  <2>2. ~(\E j \in 1 .. members : child[j] \in {"failed", "killed", "raising"})
    BY <1>2, <1>8, <2>1, Spread
  <2>3. CASE owner[p] # 0 /\ child[owner[p]] \in Busy
    <3>1. CASE owner[p] = i
      <4>1. child'[i] \in Busy
        BY <2>1, <2>3, <3>1 DEF Busy
      <4>2. Owned(i)' = {}
        BY <1>1, <1>4 DEF Owned
      <4>3. owner'[p] = 0
        BY <1>1, <1>6, <3>1
      <4> QED
        BY <1>1, <1>4, <4>1, <4>2, <4>3 DEF Attended
    <3>2. CASE owner[p] # i
      <4>1. owner[p] \in Members \ {i} /\ owner'[p] = owner[p]
        BY <1>1, <1>6, <2>3, <3>2 DEF TypeOK, Joined
      <4> QED
        BY <1>2, <2>3, <4>1 DEF Attended
    <3> QED
      BY <3>1, <3>2
  <2>4. CASE owner[p] = 0 /\ \E j \in 1 .. members :
               Owned(j) = {} /\ child[j] \in Busy \cup {"queued"}
    <3>1. PICK j \in 1 .. members : Owned(j) = {} /\ child[j] \in Busy \cup {"queued"}
      BY <2>4
    <3>2. child'[j] \in Busy \cup {"queued"}
      BY <1>2, <2>1, <3>1, Spread DEF Busy
    <3>3. Owned(j)' = {}
      <4>1. j # 0
        OBVIOUS
      <4> QED
        BY <1>1, <3>1, <4>1 DEF Owned
    <3>4. owner'[p] = 0
      BY <1>1, <1>6, <2>4
    <3> QED
      BY <1>1, <3>2, <3>3, <3>4 DEF Attended
  <2> QED
    BY <1>6, <2>2, <2>3, <2>4 DEF Attended
<1> QED
  BY <1>7, <1>8

(* An assignment gives what is left to members still in their loop, except  *)
(* where it orphans it.                                                     *)
LEMMA AssignDrains ==
  ASSUME TypeOK, Spawned, Assign
  PROVE  DrainInv'
<1>1. PICK f \in [1 .. topic -> Joined] :
        /\ owner' = [p \in Parts |-> IF p <= topic THEN f[p] ELSE 0]
        /\ orphaned' = (orphaned \/ \E p \in 1 .. topic :
                           child[f[p]] = "ended" /\ committed[p] < LogEnd[p])
  BY DEF Assign
<1>2. UNCHANGED <<topic, committed, members, child>>
  BY DEF Assign, topics, script, loop
<1> SUFFICES ASSUME Watched', NEW p \in 1 .. topic, committed[p] < LogEnd[p]
             PROVE  Attended(p)'
  BY <1>2 DEF DrainInv
<1>3. p \in Parts /\ p <= topic
  BY Spread, Sizes DEF TypeOK
<1>4. owner'[p] = f[p] /\ f[p] \in Joined /\ f[p] # 0
  BY <1>1, <1>3, Sizes DEF Joined
<1>5. child[f[p]] # "ended"
  BY <1>1 DEF Watched
<1>6. CASE child[f[p]] = "raising"
  <2>1. f[p] \in 1 .. members
    BY <1>4, <1>6, Spread DEF Joined
  <2> QED
    BY <1>2, <1>6, <2>1 DEF Attended
<1>7. CASE child[f[p]] # "raising"
  <2>1. child[f[p]] \in Busy
    BY <1>4, <1>5, <1>7 DEF Joined, Inside, Busy
  <2> QED
    BY <1>2, <1>4, <2>1 DEF Attended
<1> QED
  BY <1>6, <1>7

(* Every planned member is on its way to the loop.                          *)
LEMMA PlanDrains ==
  ASSUME TypeOK, Spawned, Plan
  PROVE  DrainInv'
<1>1. members' \in {0} \cup Members
  BY PlannedMembers DEF Plan
<1>2. /\ child' = [i \in Members |-> IF i <= members' THEN "queued" ELSE "off"]
      /\ UNCHANGED <<owner, topic>>
      /\ parent' = IF members' = 0 THEN "raised" ELSE "waiting"
  BY DEF Plan, group
<1>3. \A p \in Parts : owner[p] = 0
  BY DEF Plan, Spawned, TypeOK, Joined, Inside
<1> SUFFICES ASSUME Watched', NEW p \in 1 .. topic PROVE Attended(p)'
  BY <1>2 DEF DrainInv
<1>4. members' \in Members
  BY <1>1, <1>2 DEF Watched
<1>5. 1 \in 1 .. members' /\ 1 \in Members /\ 1 <= members'
  BY <1>4, Sizes
<1>6. child'[1] = "queued"
  BY <1>2, <1>5
<1>7. owner'[p] = 0 /\ Owned(1)' = {}
  BY <1>2, <1>3, Spread DEF Owned
<1> QED
  BY <1>5, <1>6, <1>7 DEF Attended

(* Every step of the fleet.                                                 *)
LEMMA StepInDrain ==
  ASSUME TypeOK, Spawned, Sync, DrainInv, [Next]_vars
  PROVE  DrainInv'
<1>1. ASSUME NEW a \in {"script", "setup"}, Look(a) \/ Create(a) PROVE DrainInv'
  <2>1. parent' = "start"
    BY <1>1 DEF Look, Create, Spawned, script
  <2> QED
    BY <2>1 DEF DrainInv, Watched
<1>2. ASSUME UNCHANGED <<owner, child, topic, committed, members, program, blind, cut, orphaned>>,
             Watched' => Watched
      PROVE  DrainInv'
  BY <1>2 DEF DrainInv, Attended, Owned
<1>3. CASE Return \/ UNCHANGED vars
  <2>1. UNCHANGED <<loop, topics, group, members, program, ghosts>>
    BY <1>3 DEF Return, vars, script
  <2>2. UNCHANGED <<owner, child, topic, committed, members, program, blind, cut, orphaned>>
    BY <2>1 DEF loop, topics, group, ghosts
  <2>3. parent \in {"waiting", "reported"} \/ parent' \notin {"waiting", "reported"}
    BY <1>3 DEF Return, vars, script
  <2> QED
    BY <1>2, <2>2, <2>3 DEF Watched
<1>4. ASSUME NEW i \in Members, Deadline(i) PROVE DrainInv'
  <2>1. UNCHANGED <<script, topics, child, group, ghosts>>
    BY <1>4 DEF Deadline
  <2>2. UNCHANGED <<owner, child, topic, committed, members, program, blind, cut, orphaned, parent>>
    BY <2>1 DEF script, topics, group, ghosts
  <2> QED
    BY <1>2, <2>2 DEF Watched
<1> QED
  BY <1>1, <1>3, <1>4, MoveDrains, CommitDrains, SampleDrains, LossDrains, AssignDrains, PlanDrains
     DEF Next, MemberSteps

(* A report without a member that met its deadline, took nothing for a lag  *)
(* of 0, or was given records between its loop and its close, means a       *)
(* drained topic: whatever the rebalances did in between.                   *)
THEOREM ReportsAreDrained == Spec => []DrainedUnlessBlind
<1> DEFINE IInv == TypeOK /\ Spawned /\ Tracked /\ Sync /\ DrainInv
<1>1. Init => IInv
  BY InitTyped, InitTracked, InitSync, InitDrains
<1>2. IInv /\ [Next]_vars => IInv'
  BY StepTyped, StepTracked, StepInSync, StepInDrain
<1>3. IInv => DrainedUnlessBlind
  <2> SUFFICES ASSUME IInv, program = "consume", parent = "reported", ~cut, ~blind, ~orphaned,
                      NEW p \in 1 .. topic
               PROVE  committed[p] = LogEnd[p]
    BY DEF DrainedUnlessBlind
  <2>1. \A j \in 1 .. members : child[j] = "done"
    BY DEF Spawned
  <2>2. p \in Parts
    BY Spread
  <2>3. ~Attended(p)
    <3>1. owner[p] # 0 => owner[p] \in 1 .. members
      BY <2>2, Spread DEF TypeOK, Joined, Inside
    <3> QED
      BY <2>1, <3>1 DEF Attended, Busy
  <2>4. ~(committed[p] < LogEnd[p])
    BY <2>3 DEF DrainInv, Watched
  <2>5. committed[p] \in 0 .. LogEnd[p] /\ LogEnd[p] \in Nat
    BY <2>2, Numbered DEF TypeOK
  <2> QED
    BY <2>4, <2>5
<1> QED
  BY <1>1, <1>2, <1>3, PTL DEF Spec

-----------------------------------------------------------------------------
(* LoadRunner, for every number of threads, batch size, queue and rate: the *)
(* accountant counts each record once, the pacer keeps the run to its rate, *)
(* and a run of LoadRunner or FeederRunner keeps a DeliveryLedger.          *)

(* The constants, one by one.                                               *)
LEMMA ConstantFacts ==
  /\ Feeder \in Worker /\ Batch \in Nat /\ Batch > 0 /\ Batch <= Burst
  /\ Attempts \in Nat /\ Attempts > 0
  /\ Burst \in Nat /\ Rate \in Nat /\ Rate > 0 /\ Full \in Nat
  /\ MaxBatches \in Nat
<1>1. /\ Feeder \in Worker /\ Batch \in Nat /\ Batch > 0 /\ Batch <= Burst
      /\ Attempts \in Nat /\ Attempts > 0
      /\ Burst \in Nat /\ Rate \in Nat /\ Rate > 0
      /\ MaxBatches \in Nat
  BY ConstantsOK
<1>2. Burst + Rate - 1 \in Nat /\ Rate \in Nat \ {0}
  BY <1>1
<1>3. \A a \in Nat, b \in Nat \ {0} : a \div b \in Nat
  OBVIOUS
<1> QED
  BY <1>1, <1>2, <1>3 DEF Full

LEMMA ThreadsAreWorkers == Threads \subseteq Worker
BY ConstantFacts DEF Threads

(* A thread that may attempt an event has attempts left, one that waits for *)
(* its records in flight has its batch before it, and before the threads    *)
(* run and after they have ended nothing is half done.                      *)
Paces ==
  /\ \A t \in Worker : pc[t] = "wait" => left[t] > 0
  /\ \A t \in Worker :
       pc[t] \in {"top", "acquire", "wait", "produce"} => tries[t] < Attempts
  /\ outcome # "running" => \A t \in Threads : pc[t] \in {"top", "done"}

(* The bucket, with what has dripped in, and the tokens taken are covered   *)
(* by the burst and the rate's worth of the time gone by.                   *)
Dripped == tokens + idle * Rate + taken <= Burst + now * Rate

LEMMA RunInitTyped == RunInit => RunTypeOK /\ Paces
<1> SUFFICES ASSUME RunInit PROVE RunTypeOK /\ Paces
  OBVIOUS
<1>1. RunTypeOK
  <2>1. NoReports \in Reports
    BY DEF NoReports, Reports
  <2>2. /\ Batch \in Nat /\ Attempts \in Nat /\ Full \in Nat /\ Burst \in Nat
        /\ MaxBatches \in Nat
    BY ConstantFacts
  <2>3. /\ pc \in [Worker -> {"top"}] /\ left \in [Worker -> 0 .. Batch]
        /\ tries \in [Worker -> 0 .. Attempts]
    BY <2>2 DEF RunInit
  <2>4. pc \in [Worker -> {"top", "acquire", "wait", "produce", "poll", "count",
                           "retry", "done"}]
    BY <2>3
  <2>5. \A t \in Worker : pc[t] \notin {"produce", "poll", "count", "retry"}
    BY DEF RunInit
  <2>6. /\ tokens \in 0 .. Burst /\ idle \in 0 .. Full /\ now \in Nat /\ taken \in Nat
        /\ batches \in 0 .. MaxBatches /\ transit \in Nat
        /\ produced \in Nat /\ acked \in Nat /\ failed \in Nat
    BY <2>2 DEF RunInit
  <2>7. /\ kind \in {"load", "feeder"} /\ paced \in BOOLEAN
        /\ outcome = "starting" /\ stop \in BOOLEAN /\ error \in BOOLEAN
        /\ reports \in Reports
    BY <2>1 DEF RunInit
  <2> QED
    BY <2>3, <2>4, <2>5, <2>6, <2>7 DEF RunTypeOK
<1>2. Paces
  BY ConstantFacts, ThreadsAreWorkers DEF RunInit, Paces
<1> QED
  BY <1>1, <1>2

(* Serving reports keeps the counters natural numbers.                      *)
LEMMA ServedTyped ==
  ASSUME RunTypeOK, Served
  PROVE  acked' \in Nat /\ failed' \in Nat /\ reports' \in Reports
<1>1. reports.good \in Nat /\ reports.bad \in Nat
  BY DEF RunTypeOK, Reports
<1>2. NoReports \in Reports
  BY DEF NoReports, Reports
<1> QED
  BY <1>1, <1>2 DEF RunTypeOK, Served

LEMMA RunStepTyped == RunTypeOK /\ Paces /\ [RunNext]_runVars => RunTypeOK' /\ Paces'
<1> SUFFICES ASSUME RunTypeOK, Paces, [RunNext]_runVars
             PROVE  RunTypeOK' /\ Paces'
  OBVIOUS
<1> USE ConstantFacts, ThreadsAreWorkers
<1> DEFINE Control == <<kind, paced, outcome, pc, left, tries, batches, stop, error>>
<1>1. CASE StartRun
  BY <1>1 DEF StartRun, RunTypeOK, Paces, Threads, pacer, queue, counters
<1>2. CASE Stop
  BY <1>2 DEF Stop, RunTypeOK, Paces, Threads, pacer, queue, counters
<1>3. CASE Tick
  BY <1>3 DEF Tick, RunTypeOK, Paces, Threads, queue, counters
<1>4. CASE Deliver
  <2>1. reports' \in Reports /\ transit' \in Nat
    BY <1>4 DEF Deliver, RunTypeOK, Reports
  <2>2. UNCHANGED <<Control, pacer, counters>>
    BY <1>4 DEF Deliver
  <2> QED
    BY <2>1, <2>2 DEF RunTypeOK, Paces, Threads, pacer, counters
<1>5. CASE Flush
  <2>1. acked' \in Nat /\ failed' \in Nat /\ reports' \in Reports
    BY <1>5, ServedTyped DEF Flush
  <2> QED
    BY <1>5, <2>1 DEF Flush, RunTypeOK, Paces, Threads, pacer
<1>6. CASE Report
  BY <1>6 DEF Report, RunTypeOK, Paces, Threads, pacer, queue, counters
<1>7. ASSUME NEW t \in Threads, Begin(t)
      PROVE  RunTypeOK' /\ Paces'
  BY <1>7 DEF Begin, RunTypeOK, Paces, Threads, pacer, queue, counters
<1>8. ASSUME NEW t \in Threads, LeaveLoop(t)
      PROVE  RunTypeOK' /\ Paces'
  BY <1>8 DEF LeaveLoop, RunTypeOK, Paces, Threads, pacer, queue, counters
<1>9. ASSUME NEW t \in Threads, Acquire(t)
      PROVE  RunTypeOK' /\ Paces'
  <2>1. tokens' \in 0 .. Burst /\ idle' \in 0 .. Full /\ taken' \in Nat /\ now' \in Nat
    <3>1. CASE UNCHANGED pacer
      BY <3>1 DEF RunTypeOK, pacer
    <3>2. CASE /\ Refilled >= Batch
               /\ tokens' = Refilled - Batch /\ idle' = SinceRefill
               /\ taken' = taken + Batch /\ UNCHANGED now
      <4>1. Refilled \in 0 .. Burst
        <5>1. tokens \in 0 .. Burst /\ idle \in Nat /\ idle * Rate \in Nat
          BY DEF RunTypeOK
        <5> QED
          BY <5>1 DEF Refilled
      <4> QED
        BY <3>2, <4>1 DEF RunTypeOK, SinceRefill
    <3> QED
      BY <1>9, <3>1, <3>2 DEF Acquire
  <2>2. outcome = "running" /\ outcome' = "running"
    BY <1>9 DEF Acquire, Paces
  <2> QED
    BY <1>9, <2>1, <2>2 DEF Acquire, RunTypeOK, Paces, Threads, queue, counters
<1>10. ASSUME NEW t \in Threads, EndWait(t)
       PROVE  RunTypeOK' /\ Paces'
  <2>1. outcome = "running" /\ outcome' = "running"
    BY <1>10 DEF EndWait, Paces
  <2>2. tries[t] # Attempts => tries[t] < Attempts
    BY DEF RunTypeOK
  <2> QED
    BY <1>10, <2>1, <2>2 DEF EndWait, RunTypeOK, Paces, Threads, pacer, queue, counters
<1>11. ASSUME NEW t \in Threads, Enqueue(t)
       PROVE  RunTypeOK' /\ Paces'
  <2>1. outcome = "running" /\ outcome' = "running"
    BY <1>11 DEF Enqueue, Paces
  <2> QED
    BY <1>11, <2>1 DEF Enqueue, RunTypeOK, Paces, Threads, pacer, counters
<1>12. ASSUME NEW t \in Threads, Refuse(t)
       PROVE  RunTypeOK' /\ Paces'
  <2>1. outcome = "running" /\ outcome' = "running"
    BY <1>12 DEF Refuse, Paces
  <2>2. t \in Worker /\ left[t] > 0 /\ tries[t] + 1 \in 0 .. Attempts
    BY <1>12 DEF Refuse, RunTypeOK, Paces
  <2>3. /\ tries' = tries \/ tries' = [tries EXCEPT ![t] = @ + 1]
        /\ pc' = [pc EXCEPT ![t] = "retry"] \/ pc' = [pc EXCEPT ![t] = "done"]
        /\ stop' \in BOOLEAN /\ error' \in BOOLEAN
        /\ UNCHANGED <<kind, paced, outcome, left, batches, pacer, queue, counters>>
    BY <1>12 DEF Refuse, RunTypeOK
  <2>4. RunTypeOK'
    BY <2>2, <2>3 DEF RunTypeOK, pacer, queue, counters
  <2>5. Paces'
    BY <2>1, <2>2, <2>3 DEF RunTypeOK, Paces, Threads
  <2> QED
    BY <2>4, <2>5
<1>13. ASSUME NEW t \in Threads, Poll(t)
       PROVE  RunTypeOK' /\ Paces'
  <2>1. outcome = "running" /\ outcome' = "running"
    BY <1>13 DEF Poll, Paces
  <2>2. acked' \in Nat /\ failed' \in Nat /\ reports' \in Reports
    BY <1>13, ServedTyped DEF Poll
  <2> QED
    BY <1>13, <2>1, <2>2 DEF Poll, RunTypeOK, Paces, Threads, pacer
<1>14. ASSUME NEW t \in Threads, Count(t)
       PROVE  RunTypeOK' /\ Paces'
  <2>1. outcome = "running" /\ outcome' = "running"
    BY <1>14 DEF Count, Paces
  <2>2. acked' \in Nat /\ failed' \in Nat /\ reports' \in Reports
    BY <1>14, ServedTyped DEF Count, RunTypeOK
  <2> QED
    BY <1>14, <2>1, <2>2 DEF Count, RunTypeOK, Paces, Threads, pacer
<1>15. CASE UNCHANGED runVars
  BY <1>15 DEF runVars, RunTypeOK, Paces, Threads, pacer, queue, counters
<1> QED
  BY <1>1, <1>2, <1>3, <1>4, <1>5, <1>6, <1>7, <1>8, <1>9, <1>10, <1>11, <1>12,
     <1>13, <1>14, <1>15 DEF RunNext, Thread

(* RunTypeOK: no thread is ever at an attempt without an event left.           *)
THEOREM TypeCorrect == RunSpec => []RunTypeOK
<1>1. RunSpec => [](RunTypeOK /\ Paces)
  BY RunInitTyped, RunStepTyped, PTL DEF RunSpec
<1> QED
  BY <1>1, PTL

-----------------------------------------------------------------------------
(* The bucket.  Refilling caps the tokens, waiting adds Rate at each tick.  *)
LEMMA StepDripped == RunTypeOK /\ Paces /\ Dripped /\ [RunNext]_runVars => Dripped'
<1> SUFFICES ASSUME RunTypeOK, Dripped, [RunNext]_runVars
             PROVE  Dripped'
  OBVIOUS
<1>1. /\ tokens \in Nat /\ idle \in Nat /\ now \in Nat /\ taken \in Nat
      /\ Batch \in Nat /\ Burst \in Nat /\ Rate \in Nat
      /\ idle * Rate \in Nat /\ now * Rate \in Nat
  BY ConstantFacts DEF RunTypeOK
<1>2. CASE Tick
  <2>1. (idle + 1) * Rate = idle * Rate + Rate /\ (now + 1) * Rate = now * Rate + Rate
    BY <1>1
  <2> QED
    BY <1>1, <1>2, <2>1 DEF Tick, Dripped
<1>3. ASSUME NEW t \in Threads, Acquire(t)
      PROVE  Dripped'
  <2>1. CASE UNCHANGED pacer
    BY <2>1 DEF pacer, Dripped
  <2>2. CASE /\ tokens' = Refilled - Batch /\ idle' = SinceRefill
             /\ taken' = taken + Batch /\ UNCHANGED now
    <3>1. Refilled \in Int /\ Refilled <= tokens + idle * Rate
      BY <1>1 DEF Refilled
    <3>2. idle' * Rate = 0
      BY <1>1, <2>2 DEF SinceRefill
    <3>3. tokens' + 0 + taken' <= Burst + now' * Rate
      BY <1>1, <2>2, <3>1 DEF Dripped
    <3> QED
      BY <3>2, <3>3 DEF Dripped
  <2> QED
    BY <1>3, <2>1, <2>2 DEF Acquire
<1>4. CASE UNCHANGED pacer
  BY <1>4 DEF pacer, Dripped
<1>5. StartRun \/ Stop \/ Deliver \/ Flush \/ Report \/ UNCHANGED runVars
        => UNCHANGED pacer
  BY DEF StartRun, Stop, Deliver, Flush, Report, runVars
<1>6. ASSUME NEW t \in Threads, Thread(t), ~Acquire(t)
      PROVE  UNCHANGED pacer
  BY <1>6 DEF Thread, Begin, LeaveLoop, EndWait, Enqueue, Refuse, Poll, Count
<1> QED
  BY <1>2, <1>3, <1>4, <1>5, <1>6 DEF RunNext

(* RateKept: however many threads share the pacer, whatever they wait for   *)
(* and however long, a run takes no more than the burst and the rate's      *)
(* worth of events.                                                         *)
THEOREM RateRespected == RunSpec => []RateKept
<1>1. RunInit => Dripped
  BY ConstantFacts DEF RunInit, Dripped
<1>2. RunSpec => [](RunTypeOK /\ Paces /\ Dripped)
  BY <1>1, RunInitTyped, RunStepTyped, StepDripped, PTL DEF RunSpec
<1>3. RunTypeOK /\ Dripped => RateKept
  <2>1. RunTypeOK => /\ tokens \in Nat /\ taken \in Nat /\ idle \in Nat /\ now \in Nat
                  /\ idle * Rate \in Nat /\ now * Rate \in Nat /\ Burst \in Nat
    BY ConstantFacts DEF RunTypeOK
  <2> QED
    BY <2>1 DEF Dripped, RateKept
<1> QED
  BY <1>2, <1>3, PTL

-----------------------------------------------------------------------------
(* The records being produced, as threads come and go.                      *)
LEMMA UncountedFinite == IsFiniteSet(Uncounted) /\ Cardinality(Uncounted) \in Nat
<1>1. Uncounted \subseteq Worker /\ IsFiniteSet(Worker)
  BY ConstantsOK DEF Uncounted
<1> QED
  BY <1>1, FS_Subset, FS_CardinalityType

(* A thread's step between two states that are both counted, or both not.   *)
LEMMA UncountedKept ==
  ASSUME RunTypeOK, NEW t \in Worker, NEW s, pc' = [pc EXCEPT ![t] = s],
         pc[t] \in {"poll", "count"} <=> s \in {"poll", "count"}
  PROVE  Uncounted' = Uncounted
BY DEF RunTypeOK, Uncounted

(* What a step does to the producer's queue, the accountant's counters and  *)
(* the records between the two: nothing, ...                                *)
Closed    == outcome \in {"reported", "raised"}
Open      == ~Closed /\ ~Closed'
Untouched ==
  /\ UNCHANGED <<transit, reports, produced, acked, failed, Uncounted>>
  /\ ~Closed \/ Closed'

(* ... a record enters the queue, ...                                       *)
Entered ==
  /\ transit' = transit + 1
  /\ Cardinality(Uncounted)' = Cardinality(Uncounted) + 1
  /\ UNCHANGED <<reports, produced, acked, failed>>
  /\ Open

(* ... the library files a report, ...                                      *)
Filed ==
  /\ Queued' = Queued
  /\ UNCHANGED <<produced, acked, failed, Uncounted>>
  /\ Open

(* ... reports are served, ...                                              *)
ServedOnly ==
  /\ Served
  /\ UNCHANGED <<transit, produced, Uncounted>>
  /\ Open

(* ... or a record is counted, the last of a feeder's batch with a poll.    *)
Counted ==
  /\ produced' = produced + 1
  /\ Cardinality(Uncounted)' = Cardinality(Uncounted) - 1
  /\ Served \/ UNCHANGED <<acked, failed, reports>>
  /\ UNCHANGED transit
  /\ Open

LEMMA StepEffects ==
  ASSUME RunTypeOK, Paces, [RunNext]_runVars
  PROVE  Untouched \/ Entered \/ Filed \/ ServedOnly \/ Counted
<1> USE ThreadsAreWorkers
<1>1. ASSUME NEW t \in Threads, pc[t] \notin {"top", "done"}
      PROVE  outcome = "running"
  BY <1>1 DEF Paces
<1>2. ASSUME UNCHANGED pc
      PROVE  Uncounted' = Uncounted
  BY <1>2 DEF Uncounted
<1>3. CASE StartRun \/ Stop \/ Tick \/ Report \/ UNCHANGED runVars
  BY <1>2, <1>3 DEF StartRun, Stop, Tick, Report, runVars, queue, counters, Untouched, Closed
<1>4. CASE Deliver
  <2>1. Queued' = Queued
    <3>1. transit \in Nat /\ reports.good \in Nat /\ reports.bad \in Nat
      BY DEF RunTypeOK, Reports
    <3> QED
      BY <1>4, <3>1 DEF Deliver, Queued
  <2> QED
    BY <1>2, <1>4, <2>1 DEF Deliver, counters, Filed, Open, Closed
<1>5. CASE Flush
  BY <1>2, <1>5 DEF Flush, ServedOnly, Open, Closed
<1>6. ASSUME NEW t \in Threads, Begin(t) \/ LeaveLoop(t) \/ Acquire(t) \/ EndWait(t) \/ Refuse(t)
      PROVE  Untouched
  <2>1. \E s \in {"acquire", "done", "wait", "produce", "retry"} :
          pc' = [pc EXCEPT ![t] = s]
    BY <1>6 DEF Begin, LeaveLoop, Acquire, EndWait, Refuse
  <2>2. pc[t] \notin {"poll", "count"}
    BY <1>6 DEF Begin, LeaveLoop, Acquire, EndWait, Refuse
  <2>3. Uncounted' = Uncounted
    BY <2>1, <2>2, UncountedKept
  <2>4. UNCHANGED <<outcome, queue, counters>>
    BY <1>6 DEF Begin, LeaveLoop, Acquire, EndWait, Refuse
  <2> QED
    BY <2>3, <2>4 DEF queue, counters, Untouched, Closed
<1>7. ASSUME NEW t \in Threads, Enqueue(t)
      PROVE  Entered
  <2>1. t \notin Uncounted /\ Uncounted' = Uncounted \cup {t}
    BY <1>7 DEF Enqueue, Uncounted, RunTypeOK
  <2>2. Cardinality(Uncounted \cup {t}) = Cardinality(Uncounted) + 1
    BY <2>1, UncountedFinite, FS_AddElement
  <2>3. outcome = "running" /\ outcome' = "running"
    BY <1>1, <1>7 DEF Enqueue
  <2> QED
    BY <1>7, <2>1, <2>2, <2>3 DEF Enqueue, counters, Entered, Open, Closed
<1>8. ASSUME NEW t \in Threads, Poll(t)
      PROVE  ServedOnly
  <2>1. Uncounted' = Uncounted
    BY <1>8, UncountedKept DEF Poll
  <2>2. outcome = "running" /\ outcome' = "running"
    BY <1>1, <1>8 DEF Poll
  <2> QED
    BY <1>8, <2>1, <2>2 DEF Poll, ServedOnly, Open, Closed
<1>9. ASSUME NEW t \in Threads, Count(t)
      PROVE  Counted
  <2>1. t \in Uncounted /\ Uncounted' = Uncounted \ {t}
    BY <1>9 DEF Count, Uncounted, RunTypeOK
  <2>2. Cardinality(Uncounted \ {t}) = Cardinality(Uncounted) - 1
    BY <2>1, UncountedFinite, FS_RemoveElement
  <2>3. outcome = "running" /\ outcome' = "running"
    BY <1>1, <1>9 DEF Count
  <2> QED
    BY <1>9, <2>1, <2>2, <2>3 DEF Count, Counted, Open, Closed
<1> QED
  BY <1>3, <1>4, <1>5, <1>6, <1>7, <1>8, <1>9 DEF RunNext, Thread

(* The numbers the queue and the books are made of.                         *)
LEMMA Numbers ==
  ASSUME RunTypeOK
  PROVE  /\ transit \in Nat /\ reports.good \in Nat /\ reports.bad \in Nat
         /\ produced \in Nat /\ acked \in Nat /\ failed \in Nat
         /\ Cardinality(Uncounted) \in Nat
         /\ NoReports.good = 0 /\ NoReports.bad = 0
BY UncountedFinite DEF RunTypeOK, Reports, NoReports

LEMMA StepInFlight ==
  ASSUME RunTypeOK, Paces, InFlightIsQueue, [RunNext]_runVars
  PROVE  InFlightIsQueue'
<1>1. /\ produced - acked - failed
           = transit + reports.good + reports.bad - Cardinality(Uncounted)
      /\ transit \in Nat /\ reports.good \in Nat /\ reports.bad \in Nat
      /\ produced \in Nat /\ acked \in Nat /\ failed \in Nat
      /\ Cardinality(Uncounted) \in Nat
      /\ NoReports.good = 0 /\ NoReports.bad = 0
  BY Numbers DEF InFlightIsQueue, InFlight, Queued
<1>2. InFlightIsQueue' <=>
        produced' - acked' - failed' = Queued' - Cardinality(Uncounted)'
  BY DEF InFlightIsQueue, InFlight
<1>3. Queued' = transit' + reports'.good + reports'.bad
  BY DEF Queued
<1>4. Uncounted' = Uncounted => Cardinality(Uncounted)' = Cardinality(Uncounted)
  OBVIOUS
<1>5. CASE Untouched
  BY <1>1, <1>2, <1>3, <1>4, <1>5 DEF Untouched
<1>6. CASE Entered
  BY <1>1, <1>2, <1>3, <1>6 DEF Entered
<1>7. CASE Filed
  <2>1. Queued' = transit + reports.good + reports.bad
    BY <1>7 DEF Filed, Queued
  <2> QED
    BY <1>1, <1>2, <1>4, <1>7, <2>1 DEF Filed
<1>8. CASE ServedOnly
  <2>1. /\ acked' = acked + reports.good /\ failed' = failed + reports.bad
        /\ Queued' = transit /\ produced' = produced
        /\ Cardinality(Uncounted)' = Cardinality(Uncounted)
    BY <1>1, <1>3, <1>4, <1>8 DEF ServedOnly, Served
  <2>2. produced' - acked' - failed' = Queued' - Cardinality(Uncounted)'
    BY <1>1, <2>1
  <2> QED
    BY <1>2, <2>2
<1>9. CASE Counted
  <2>1. CASE Served
    <3>1. /\ acked' = acked + reports.good /\ failed' = failed + reports.bad
          /\ Queued' = transit /\ produced' = produced + 1
          /\ Cardinality(Uncounted)' = Cardinality(Uncounted) - 1
      BY <1>1, <1>3, <1>9, <2>1 DEF Counted, Served
    <3>2. produced' - acked' - failed'
            = (produced + 1) - (acked + reports.good) - (failed + reports.bad)
      BY <3>1
    <3>3. Queued' - Cardinality(Uncounted)' = transit - (Cardinality(Uncounted) - 1)
      BY <3>1
    <3>4. (produced + 1) - (acked + reports.good) - (failed + reports.bad)
            = transit - (Cardinality(Uncounted) - 1)
      BY <1>1
    <3> QED
      BY <1>2, <3>2, <3>3, <3>4
  <2>2. CASE UNCHANGED <<acked, failed, reports>>
    BY <1>1, <1>2, <1>3, <1>9, <2>2 DEF Counted
  <2> QED
    BY <1>9, <2>1, <2>2 DEF Counted
<1> QED
  BY <1>5, <1>6, <1>7, <1>8, <1>9, StepEffects

LEMMA NoneUncounted ==
  ASSUME RunInit
  PROVE  Cardinality(Uncounted) = 0
<1>1. \A t \in Worker : pc[t] = "top"
  BY DEF RunInit
<1>2. Uncounted = {}
  BY <1>1 DEF Uncounted
<1> QED
  BY <1>2, FS_EmptySet

LEMMA InvAlways == RunSpec => [](RunTypeOK /\ Paces /\ InFlightIsQueue)
<1>1. RunInit => InFlightIsQueue
  <2> SUFFICES ASSUME RunInit PROVE InFlightIsQueue
    OBVIOUS
  <2>1. Cardinality(Uncounted) = 0
    BY NoneUncounted
  <2>2. /\ reports.good = 0 /\ reports.bad = 0 /\ transit = 0
        /\ produced = 0 /\ acked = 0 /\ failed = 0
    BY DEF RunInit, NoReports
  <2>3. InFlight = 0 /\ Queued = 0
    BY <2>2 DEF InFlight, Queued
  <2> QED
    BY <2>1, <2>3 DEF InFlightIsQueue
<1> QED
  BY <1>1, RunInitTyped, RunStepTyped, StepInFlight, PTL DEF RunSpec

(* InFlightIsQueue: the in-flight count that holds back production is off   *)
(* by the records just being produced and by nothing else, for any number   *)
(* of threads serving each other's reports.                                 *)
THEOREM CountedOnce == RunSpec => []InFlightIsQueue
BY InvAlways, PTL

-----------------------------------------------------------------------------
(* A step of the run is a step of its ledger, or leaves the ledger alone.   *)
LEMMA StepLedger ==
  ASSUME RunTypeOK, Paces, InFlightIsQueue, [RunNext]_runVars
  PROVE  [Ledger!Next]_(Ledger!ledger)
<1> DEFINE n == Cardinality(Uncounted)
<1>1. /\ produced + n - acked - failed = transit + reports.good + reports.bad
      /\ transit \in Nat /\ reports.good \in Nat /\ reports.bad \in Nat
      /\ produced \in Nat /\ acked \in Nat /\ failed \in Nat /\ n \in Nat
  BY Numbers DEF InFlightIsQueue, InFlight, Queued
<1>2. Uncounted' = Uncounted => n' = n
  OBVIOUS
<1> HIDE DEF n
<1>3. ASSUME Served, produced' + n' = produced + n, Open
      PROVE  [Ledger!Next]_(Ledger!ledger)
  <2>1. CASE reports.good + reports.bad = 0
    <3>1. acked' = acked /\ failed' = failed
      BY <1>1, <1>3, <2>1 DEF Served
    <3> QED
      BY <1>3, <3>1 DEF Ledger!ledger, Open, Closed, n
  <2>2. CASE reports.good + reports.bad > 0
    <3> DEFINE unsettled == (produced + Cardinality(Uncounted)) - acked - failed
    <3>1. /\ reports.good \in 0 .. unsettled /\ reports.bad \in 0 .. unsettled
          /\ reports.good + reports.bad \in 1 .. unsettled
      <4>1. unsettled = reports.good + reports.bad + transit
        BY <1>1 DEF n
      <4> HIDE DEF unsettled
      <4> QED
        BY <1>1, <2>2, <4>1
    <3>2. acked' = acked + reports.good /\ failed' = failed + reports.bad
      BY <1>3 DEF Served
    <3>3. /\ ~(outcome \in {"reported", "raised"})
          /\ (outcome \in {"reported", "raised"})' = (outcome \in {"reported", "raised"})
      BY <1>3 DEF Open, Closed
    <3>4. produced' + Cardinality(Uncounted)' = produced + Cardinality(Uncounted)
      BY <1>3 DEF n
    <3>5. UNCHANGED <<produced + Cardinality(Uncounted),
                      outcome \in {"reported", "raised"}>>
      BY <3>3, <3>4
    <3>6. \E good, bad \in 0 .. unsettled :
            /\ good + bad \in 1 .. unsettled
            /\ acked' = acked + good
            /\ failed' = failed + bad
      <4> HIDE DEF unsettled
      <4> QED
        BY <3>1, <3>2
    <3>7. Ledger!Settle
      BY ONLY <3>3, <3>5, <3>6, Zenon DEF Ledger!Settle
    <3> QED
      BY <3>7 DEF Ledger!Next
  <2> QED
    BY <1>1, <2>1, <2>2
<1>4. CASE Untouched
  <2>1. UNCHANGED <<produced, acked, failed, n>> /\ (~Closed \/ Closed')
    BY <1>2, <1>4 DEF Untouched
  <2> QED
    BY <2>1 DEF Closed, Ledger!Next, Ledger!Close, Ledger!ledger, n
<1>5. CASE Entered
  <2>1. produced' + n' = produced + n + 1 /\ UNCHANGED <<acked, failed>> /\ Open
    BY <1>1, <1>5 DEF Entered, n
  <2> QED
    BY <2>1 DEF Open, Closed, Ledger!Next, Ledger!Accept, n
<1>6. CASE Filed
  BY <1>2, <1>6 DEF Filed, Open, Closed, Ledger!ledger, n
<1>7. CASE ServedOnly
  BY <1>2, <1>3, <1>7 DEF ServedOnly
<1>8. CASE Counted
  <2>1. produced' + n' = produced + n /\ Open
    BY <1>1, <1>8 DEF Counted, n
  <2>2. CASE Served
    BY <1>3, <2>1, <2>2
  <2>3. CASE UNCHANGED <<acked, failed>>
    BY <2>1, <2>3 DEF Open, Closed, Ledger!ledger, n
  <2> QED
    BY <1>8, <2>2, <2>3 DEF Counted
<1> QED
  BY <1>4, <1>5, <1>6, <1>7, <1>8, StepEffects

(* LedgerKept: whatever the threads, the reports and the end of the run do, *)
(* the accountant's books are a DeliveryLedger: no record is settled twice, *)
(* none is settled that was not produced, and none after the run is closed. *)
THEOREM ImplementsLedger == RunSpec => LedgerKept
<1>1. RunInit => Ledger!Init
  <2> SUFFICES ASSUME RunInit PROVE Ledger!Init
    OBVIOUS
  <2>1. produced = 0 /\ Cardinality(Uncounted) = 0
    BY NoneUncounted DEF RunInit
  <2>2. produced + Cardinality(Uncounted) = 0
    BY <2>1
  <2>3. outcome \notin {"reported", "raised"}
    BY DEF RunInit
  <2>4. acked = 0 /\ failed = 0
    BY DEF RunInit
  <2> QED
    BY <2>2, <2>3, <2>4 DEF Ledger!Init
<1>2. RunTypeOK /\ Paces /\ InFlightIsQueue /\ [RunNext]_runVars
        => [Ledger!Next]_(Ledger!ledger)
  BY StepLedger
<1> QED
  BY <1>1, <1>2, InvAlways, PTL DEF RunSpec, LedgerKept, Ledger!Spec
=============================================================================
