---------------------------- MODULE SlidingWindows ----------------------------
(***************************************************************************)
(* Windowing in one sliding-features process: the watermark                *)
(* (sliding/watermark.py) and the panes with their emission cursor, late   *)
(* re-fires, emission_seq and garbage collection (sliding/panes.py), as    *)
(* the consumer's loop drives them (_fold_message, emit_due_windows and    *)
(* the on_revoke callback of sliding/consumer.py).                         *)
(*                                                                         *)
(* A tick stands for the unit of event time and of both clocks.  A pane is *)
(* the bag of the events folded into it: what the aggregators count, sum   *)
(* and collect from them is not told apart.  An iteration of the loop      *)
(* takes no time: the clock moves between iterations.                      *)
(***************************************************************************)
EXTENDS Integers

CONSTANTS
  Event,          \* messages of the source topic
  User, Partition, Resolution,
  UserOf,         \* the user of each event
  PartitionOf,    \* the partition of each user
  TsOf,           \* event time of each event
  Ahead,          \* how far the clocks that stamp events run ahead of ours
  MaxOffset,      \* bound: length of a partition's log
  Slide, Size,    \* geometry of each resolution
  Skew,           \* out_of_orderness_ms
  Lateness,       \* allowed_lateness_ms
  Idleness,       \* idleness_ms
  MaxBatch,       \* messages folded per iteration: 1, or _EOS_MAX_RECORDS
  MaxNow,         \* bound: the clock stops there
  MaxLife,        \* bound: times a partition is revoked
  None            \* no value yet

ASSUME ConstantsOK ==
  /\ UserOf \in [Event -> User] /\ PartitionOf \in [User -> Partition]
  /\ TsOf \in [Event -> Nat] /\ Ahead \in Nat /\ MaxOffset \in Nat
  /\ Slide \in [Resolution -> Nat \ {0}]
  /\ Size \in [Resolution -> Nat \ {0}]
  /\ \A r \in Resolution : Slide[r] <= Size[r] /\ Size[r] % Slide[r] = 0
  /\ Skew \in Nat /\ Lateness \in Nat /\ Idleness \in Nat
  /\ MaxBatch \in Nat \ {0} /\ MaxNow \in Nat /\ MaxLife \in Nat
  /\ None \notin Int

Key == User \X Resolution \X Int    \* a user's window: resolution and end

VARIABLES
  offset,         \* where each event is in its partition
  now,            \* the clock
  maxTs,          \* largest event time observed
  lastEvent,      \* when the last event was observed
  users,          \* users with pane buffers
  panes,          \* how often each event is folded into its pane
  cursor,         \* next window end to fire, per resolution
  seq,            \* emission_seq counters
  dirty,          \* windows to fire again
  folds,          \* messages folded in this iteration
  late,           \* events sent to the late topic
  emitted,        \* history: feature records emitted
  read,           \* events read since their partition was last assigned
  life,           \* history: how often each partition was revoked
  folded,         \* history: events that were folded at some time
  slipped         \* history: has the watermark fallen behind a fired window?

tracker == <<maxTs, lastEvent>>
manager == <<users, panes, cursor, seq, dirty>>
history == <<emitted, life, folded, slipped>>
vars    == <<offset, now, tracker, manager, folds, late, read, history>>

Emission == [key : Key, seq : Nat, of : [Event -> Nat], life : Nat]

TypeOK ==
  /\ offset \in [Event -> Nat]
  /\ now \in Nat
  /\ maxTs \in Nat \cup {None} /\ lastEvent \in Nat
  /\ users \in SUBSET User
  /\ panes \in [Resolution -> [Event -> Nat]]
  /\ cursor \in [Resolution -> Int \cup {None}]
  /\ \A r \in Resolution : cursor[r] # None => cursor[r] % Slide[r] = 0
  /\ DOMAIN seq \subseteq Key /\ \A k \in DOMAIN seq : seq[k] \in Nat
  /\ dirty \subseteq Key
  /\ folds \in 0 .. MaxBatch
  /\ late \in SUBSET Event /\ read \in SUBSET Event
  /\ emitted \subseteq Emission
  /\ life \in [Partition -> Nat]
  /\ folded \in SUBSET Event /\ slipped \in BOOLEAN

SamePartition(e, f) == PartitionOf[UserOf[e]] = PartitionOf[UserOf[f]]

Init ==
  /\ offset \in [Event -> 1 .. MaxOffset]
  /\ \A e, f \in Event : SamePartition(e, f) /\ e # f => offset[e] # offset[f]
  /\ now = 0
  /\ maxTs = None /\ lastEvent = 0
  /\ users = {}
  /\ panes = [r \in Resolution |-> [e \in Event |-> 0]]
  /\ cursor = [r \in Resolution |-> None]
  /\ seq = [k \in {} |-> 0]
  /\ dirty = {}
  /\ folds = 0
  /\ late = {}
  /\ emitted = {}
  /\ read = {}
  /\ life = [p \in Partition |-> 0]
  /\ folded = {}
  /\ slipped = FALSE

-----------------------------------------------------------------------------
(* Mutant of Watermark: no idleness fallback.                               *)
WatermarkOfEvents(top, last) == top - Skew

(* watermark_ms, after an event.                                            *)
Watermark(top, last) ==
  IF now - last >= Idleness /\ now > top THEN now - Skew ELSE top - Skew

Pane(r, e) == TsOf[e] \div Slide[r]

(* Mutant of Ends: the first window ends where the pane begins.             *)
EndsFromPane(r, e) ==
  {(Pane(r, e) + step) * Slide[r] : step \in 0 .. Size[r] \div Slide[r] - 1}

(* window_ends_including: the windows that contain the event's pane.        *)
Ends(r, e) ==
  {(Pane(r, e) + step) * Slide[r] : step \in 1 .. Size[r] \div Slide[r]}

InWindow(e, k) ==
  /\ UserOf[e] = k[1]
  /\ (k[3] - Size[k[2]]) \div Slide[k[2]] <= Pane(k[2], e)
  /\ Pane(k[2], e) < k[3] \div Slide[k[2]]

(* window_record: the panes of the window merged; None when there are none. *)
Contents(k) ==
  [e \in Event |-> IF InWindow(e, k) THEN panes[k[2]][e] ELSE 0]

Contributes(k) == \E e \in Event : Contents(k)[e] > 0

SeqOf(k) == IF k \in DOMAIN seq THEN seq[k] ELSE 0

-----------------------------------------------------------------------------
(* WatermarkTracker.observe.                                                *)
Top(e) == IF maxTs = None THEN TsOf[e]
          ELSE IF TsOf[e] > maxTs THEN TsOf[e] ELSE maxTs

Observe(e) ==
  /\ maxTs' = Top(e)
  /\ lastEvent' = now

(* The next message of a partition is read; Idleness leaves the clock room  *)
(* to pass it by.                                                           *)
Read(e) ==
  /\ folds < MaxBatch
  /\ now + Idleness <= MaxNow
  /\ TsOf[e] <= now + Ahead
  /\ e \notin read
  /\ \A f \in Event : SamePartition(e, f) /\ offset[f] < offset[e] => f \in read
  /\ read' = read \cup {e}
  /\ folds' = folds + 1
  /\ Observe(e)
  /\ slipped' = (slipped \/ \E r \in Resolution :
                   cursor[r] # None /\ Watermark(Top(e), now) < cursor[r] - Slide[r])

VeryLate(e) == TsOf[e] < Watermark(Top(e), now) - Lateness

(* Mutant of Refires: the window that ends at the watermark is forgotten.   *)
RefiresBelow(e) ==
  UNION {{<<UserOf[e], r, end>> :
            end \in {x \in Ends(r, e) : x < Watermark(Top(e), now)}}
         : r \in Resolution}

(* _mark_late_refires: windows of the event that the watermark has crossed. *)
Refires(e) ==
  UNION {{<<UserOf[e], r, end>> :
            end \in {x \in Ends(r, e) : x <= Watermark(Top(e), now)}}
         : r \in Resolution}

(* add: an event that is not too late goes into a pane of each resolution.  *)
Add(e) ==
  /\ Read(e)
  /\ ~VeryLate(e)
  /\ users' = users \cup {UserOf[e]}
  /\ panes' = [r \in Resolution |-> [panes[r] EXCEPT ![e] = @ + 1]]
  /\ dirty' = dirty \cup Refires(e)
  /\ folded' = folded \cup {e}
  /\ UNCHANGED <<offset, now, cursor, seq, late, emitted, life>>

(* add returns the event, for the late topic.                               *)
SendLate(e) ==
  /\ Read(e)
  /\ VeryLate(e)
  /\ late' = late \cup {e}
  /\ UNCHANGED <<offset, now, manager, emitted, life, folded>>

-----------------------------------------------------------------------------
(* The first emission starts at the last window end below the watermark.    *)
CursorStart(r, w) ==
  IF cursor[r] = None THEN (w \div Slide[r]) * Slide[r] ELSE cursor[r]

(* How many window ends the cursor passes on its way to the watermark.      *)
Passed(r, w) ==
  IF CursorStart(r, w) <= w THEN (w - CursorStart(r, w)) \div Slide[r] + 1 ELSE 0

Due(r, w) == {CursorStart(r, w) + Slide[r] * n : n \in 0 .. Passed(r, w) - 1}

Fired(w) ==
  {k \in UNION {users \X {r} \X Due(r, w) : r \in Resolution} : Contributes(k)}

EmissionOf(k, n) ==
  [key |-> k, seq |-> n, of |-> Contents(k), life |-> life[PartitionOf[k[1]]]]

(* Mutant of PaneCutoff: no lateness tail.                                  *)
PaneCutoffEarly(r, w) == (w - Size[r]) \div Slide[r]

(* PanedSlidingWindow.gc: panes below this index are dropped.               *)
PaneCutoff(r, w) == (w - Size[r] - Lateness) \div Slide[r]

(* emit_due_windows: fire what is due, fire the dirty windows again, then   *)
(* collect panes and counters no re-fire can need.                          *)
Emit ==
  LET w          == Watermark(maxTs, lastEvent)
      fired      == Fired(w)
      Again(k)   == IF k \in fired THEN 1 ELSE 0
      NextSeq(k) == SeqOf(k) + Again(k) + (IF k \in dirty THEN 1 ELSE 0)
  IN  /\ maxTs # None
      /\ cursor' = [r \in Resolution |->
                      CursorStart(r, w) + Slide[r] * Passed(r, w)]
      /\ emitted' = emitted
           \cup {EmissionOf(k, SeqOf(k)) : k \in fired}
           \cup {EmissionOf(k, SeqOf(k) + Again(k)) : k \in dirty}
      /\ seq' = [k \in {x \in DOMAIN seq \cup fired \cup dirty :
                          x[3] >= w - Size[x[2]] - Lateness} |-> NextSeq(k)]
      /\ panes' = [r \in Resolution |-> [e \in Event |->
                     IF Pane(r, e) < PaneCutoff(r, w) THEN 0 ELSE panes[r][e]]]
      /\ dirty' = {}
      /\ folds' = 0
      /\ UNCHANGED <<offset, now, tracker, users, late, read, life, folded, slipped>>

(* The clock moves on, between two iterations.                              *)
Tick ==
  /\ folds = 0
  /\ now < MaxNow
  /\ now' = now + 1
  /\ UNCHANGED <<offset, tracker, manager, folds, late, read, history>>

(* on_revoke, inside a poll: the state of the partition's users goes.  When *)
(* the partition comes back it is read from an hour back.                   *)
Drop(p) ==
  LET victim == {u \in users : PartitionOf[u] = p}
  IN  /\ folds = 0
      /\ life[p] < MaxLife
      /\ life' = [life EXCEPT ![p] = @ + 1]
      /\ read' = {e \in read : PartitionOf[UserOf[e]] # p}
      /\ users' = users \ victim
      /\ panes' = [r \in Resolution |-> [e \in Event |->
                     IF UserOf[e] \in victim THEN 0 ELSE panes[r][e]]]
      /\ seq' = [k \in {x \in DOMAIN seq : x[1] \notin victim} |-> seq[k]]
      /\ dirty' = {k \in dirty : k[1] \notin victim}
      /\ UNCHANGED <<offset, now, tracker, cursor, folds, late, emitted, folded,
                     slipped>>

-----------------------------------------------------------------------------
Next ==
  \/ \E e \in Event : Add(e) \/ SendLate(e)
  \/ Emit
  \/ Tick
  \/ \E p \in Partition : Drop(p)

Spec == Init /\ [][Next]_vars

(* The loop keeps polling, whether or not there is a message, and time      *)
(* passes; nothing promises that a message arrives.                         *)
FairSpec == Spec /\ WF_vars(Emit) /\ WF_vars(Tick)

-----------------------------------------------------------------------------
(* What _emit_dirty relies on (its Notes): a window to fire again has a     *)
(* live user and a pane, or the process dies on a missing user or record.   *)
DirtyLive == \A k \in dirty : k[1] \in users /\ Contributes(k)

Current(x) == x.life = life[PartitionOf[x.key[1]]]
Later(x, y) == y.key = x.key /\ y.life = x.life /\ y.seq > x.seq

(* The last emission of a window agrees with the panes, event by event.     *)
UpToDate(x) == \A e \in Event :
  InWindow(e, x.key) /\ panes[x.key[2]][e] > 0 => x.of[e] = panes[x.key[2]][e]

(* What _mark_late_refires promises: it flags "already-fired windows that a *)
(* within-lateness event re-opens".  An emitted window is never left        *)
(* behind: its last emission has all that its panes hold, or the iteration  *)
(* fires it again.                                                          *)
LateEventsRefire ==
  \A x \in emitted :
    Current(x) => x.key \in dirty \/ UpToDate(x) \/ \E y \in emitted : Later(x, y)

(* The same, as long as the watermark has not fallen back behind a fired    *)
(* window, as it does after an idle spell.                                  *)
EmittedFresh == slipped \/ LateEventsRefire

(* emission_seq orders what a window's emissions contain: a consumer that   *)
(* keeps the largest loses nothing, one that drops a repeated               *)
(* (user, window, resolution, seq) drops an equal record.  While the state  *)
(* lives, whatever the garbage collection has forgotten.                    *)
SeqOrdersContents ==
  slipped \/ \A x, y \in emitted :
    x.key = y.key /\ x.life = y.life /\ x.seq <= y.seq =>
      \A e \in Event : x.of[e] <= y.of[e]

(* A folded event reaches every window it belongs to, although no other     *)
(* event may follow it: an idle process's windows close by the clock.       *)
EventuallyEmitted ==
  \A e \in Event, r \in Resolution, n \in 0 .. MaxLife :
    \A end \in {x \in Ends(r, e) : x <= MaxNow - Skew} :
      panes[r][e] > 0 /\ life[PartitionOf[UserOf[e]]] = n
        ~> \/ \E x \in emitted : x.key = <<UserOf[e], r, end>> /\ x.of[e] > 0
           \/ slipped
           \/ life[PartitionOf[UserOf[e]]] > n
=============================================================================
