------------------------------ MODULE OnlineStore ------------------------------
(***************************************************************************)
(* One user's hash in the online store: the windows of three resolutions   *)
(* that the panes emit (sliding/panes.py), the record each aggregator      *)
(* makes of a window (sliding/aggregators.py), the HSET and EXPIRE that    *)
(* RedisHashSink.write does of it (sliding/sinks.py), and the vector the   *)
(* serving API makes of the hash (serving/store.py, serving/models.py).    *)
(*                                                                         *)
(* A tick is a minute, the slide of the smallest resolution.  The loop may *)
(* lag behind the clock (a rebalance, an outage, a slow broker) by at most *)
(* MaxLag ticks; Kafka, crashes and the panes' collection are the subject  *)
(* of SlidingConsumer and SlidingWindows.                                  *)
(*                                                                         *)
(* Two watermarks matter.  The cursors of the panes only advance: watermark*)
(* is how far windows have fired.  The tracker's (sliding/watermark.py)    *)
(* rises with the clock while no event comes and falls back to the newest  *)
(* event's with the next one: an event is judged and its windows are marked*)
(* by that, which may be far behind what has fired.                        *)
(***************************************************************************)
EXTENDS Integers, FiniteSets, Sequences

CONSTANTS
  Order,          \* resolutions, as WindowResolution declares them
  RefireOrder,    \* resolutions, sorted by the value of the enum
  Slide, Size,    \* geometry of each resolution
  Skew,           \* out_of_orderness_seconds
  Lateness,       \* allowed_lateness_seconds
  MaxLag,         \* bound: how far the loop may lag behind the clock
  MaxDelay,       \* bound: how old an event may be when it is folded
  MaxEvents,      \* bound: events of the user
  LastEvent,      \* bound: no event after this tick
  MaxNow,         \* bound: the clock stops there
  None            \* no field

Resolution == {Order[i] : i \in 1 .. Len(Order)}
Smallest   == Order[1]
Largest    == Order[Len(Order)]

ASSUME GeometryOK ==
  /\ Len(Order) \in Nat \ {0}
  /\ \A i, j \in 1 .. Len(Order) : Order[i] = Order[j] => i = j
  /\ RefireOrder \in Seq(Resolution)
  /\ \A r \in Resolution : \E i \in 1 .. Len(RefireOrder) : RefireOrder[i] = r
  /\ \A r \in Resolution :
       /\ Slide[r] \in Nat \ {0} /\ Size[r] \in Nat
       /\ Size[r] % Slide[r] = 0 /\ Slide[r] < Size[r]
  /\ \A i \in 1 .. Len(Order) - 1 : Slide[Order[i + 1]] = Size[Order[i]]
  /\ Skew \in Nat /\ Lateness \in Nat /\ Lateness < Size[Smallest]
  /\ MaxLag \in Nat /\ MaxDelay \in Nat
  /\ MaxEvents \in Nat /\ LastEvent \in Nat /\ MaxNow \in Nat

Kind  == {"click", "purchase"}
Event == (0 .. LastEvent) \X Kind

VARIABLES
  eos,            \* transactional delivery: the loop folds a batch, then emits
  now,            \* the clock
  events,         \* events folded into the panes: time and kind
  watermark,      \* windows that end at or before it have fired (the cursors)
  base,           \* the watermark of the newest event (max_event_ts - skew)
  dirty,          \* windows to fire again
  queue,          \* records of this emission not written yet
  hash,           \* fields of each resolution, when they were written
  avg,            \* end of the window the average comes from
  deadline,       \* when the key expires
  missed,         \* history: fired windows an event was folded into, unmarked
  outrun          \* history: what had fired when an event came under a lower mark

vars == <<eos, now, events, watermark, base, dirty, queue, hash, avg, deadline,
          missed, outrun>>

Window == Resolution \X Int      \* resolution and end

Init ==
  /\ eos \in BOOLEAN
  /\ now = 0
  /\ events = {}
  /\ watermark = 0
  /\ base = 0
  /\ dirty = {}
  /\ queue = <<>>
  /\ hash = [r \in Resolution |-> None]
  /\ avg = None
  /\ deadline = 0
  /\ missed = {}
  /\ outrun = 0

TypeOK ==
  /\ eos \in BOOLEAN
  /\ now \in 0 .. MaxNow
  /\ events \subseteq Event /\ Cardinality(events) <= MaxEvents
  /\ watermark \in 0 .. now /\ now - watermark <= MaxLag
  /\ base \in 0 .. now
  /\ \A w \in dirty : w[1] \in Resolution /\ (w[2] <= watermark \/ w[2] <= base)
  /\ \A i \in 1 .. Len(queue) : queue[i][1] \in Resolution /\ queue[i][2] <= watermark
  /\ \A r \in Resolution :
       hash[r] # None => /\ hash[r].end % Slide[r] = 0 /\ hash[r].end <= hash[r].at
                         /\ hash[r].at <= now
                         /\ hash[r].clicks + hash[r].purchases \in 1 .. MaxEvents
  /\ avg # None => avg % Slide[Largest] = 0
  /\ deadline \in Nat
  /\ missed \subseteq Resolution \X (0 .. outrun)
  /\ outrun \in 0 .. watermark

-----------------------------------------------------------------------------
(* window_ends_including.                                                   *)
Ends(r, ts) ==
  {((ts \div Slide[r]) + n) * Slide[r] : n \in 1 .. Size[r] \div Slide[r]}

Contents(w) == {e \in events : w[2] \in Ends(w[1], e[1])}

(* window_ends_including, for every resolution.                             *)
WindowsOf(e) == UNION {{r} \X Ends(r, e[1]) : r \in Resolution}

(* _fold_message.  The event is observed first, so that the idle clock no   *)
(* longer counts: mark, the watermark it is judged by, is the newest        *)
(* event's, of any user.  An event no older than the lateness tail reaches  *)
(* the panes; the windows of it that end by the mark will fire again, those *)
(* the idle clock has fired beyond it will not.  At least once an emission  *)
(* follows every event; under EOS the batch is folded first.                *)
Add(e) ==
  \E mark \in base .. now :
    /\ queue = <<>> /\ Cardinality(events) < MaxEvents
    /\ e \notin events
    /\ e[1] <= now /\ now - e[1] <= MaxDelay
    /\ mark >= e[1] - Skew
    /\ eos \/ /\ dirty = {} /\ base <= watermark
              /\ mark <= watermark \/ mark = e[1] - Skew
    /\ e[1] >= mark - Lateness
    /\ base' = mark
    /\ events' = events \cup {e}
    /\ dirty' = dirty \cup {w \in WindowsOf(e) : w[2] <= mark}
    /\ missed' = missed \cup {w \in WindowsOf(e) : w[2] > mark /\ w[2] <= watermark}
    /\ outrun' = IF mark < watermark THEN watermark ELSE outrun
    /\ UNCHANGED <<eos, now, watermark, queue, hash, avg, deadline>>

(* The place of a resolution in an order, and whether a window comes no     *)
(* later than another: by resolution, then by end.                          *)
Rank(r, order) == CHOOSE i \in 1 .. Len(order) : order[i] = r

Before(v, w, order) ==
  Rank(v[1], order) < Rank(w[1], order) \/ (v[1] = w[1] /\ v[2] <= w[2])

(* Windows as a sequence, in that order.                                    *)
Place(w, W, order) == Cardinality({v \in W : Before(v, w, order)})

Ascending(W, order) ==
  [i \in 1 .. Cardinality(W) |-> CHOOSE w \in W : Place(w, W, order) = i]

(* Mutant of Closing: a window fires a slide before it ends.                *)
ClosingEarly(new) ==
  {w \in UNION {{r} \X UNION {Ends(r, e[1]) : e \in events} : r \in Resolution} :
     w[2] > watermark /\ w[2] - Slide[w[1]] <= new /\ Contents(w) # {}}

(* Windows that close between two watermarks and hold an event.             *)
Closing(new) ==
  {w \in UNION {{r} \X UNION {Ends(r, e[1]) : e \in events} : r \in Resolution} :
     w[2] > watermark /\ w[2] <= new /\ Contents(w) # {}}

(* Mutant of Refires: the newest window is fired again before the others.   *)
RefiresNewestFirst ==
  LET s == Ascending(dirty, RefireOrder) IN [i \in 1 .. Len(s) |-> s[Len(s) + 1 - i]]

(* _emit_dirty.                                                             *)
Refires == Ascending(dirty, RefireOrder)

(* emit_due_windows: what closes, then what fires again.  The watermark may *)
(* be an event's or, idle, the clock's, and base keeps the event's; one     *)
(* that has fallen back closes nothing.  At least once this follows every   *)
(* event, and a late event does not move the watermark; under EOS a later   *)
(* event of the batch may have.                                             *)
Emit ==
  \E new \in watermark .. now :
    /\ new >= base
    /\ eos \/ dirty = {} \/ new = watermark
    /\ queue = <<>> /\ (new > watermark \/ dirty # {})
    /\ watermark' = new
    /\ queue' = Ascending(Closing(new), Order) \o Refires
    /\ dirty' = {}
    /\ UNCHANGED <<eos, now, events, base, hash, avg, deadline, missed, outrun>>

-----------------------------------------------------------------------------
Live == now < deadline

(* ttl_seconds_for: one and a half times the window, truncated.             *)
Ttl(r) == (3 * Size[r]) \div 2

(* Mutants of Expiry: EXPIRE only when the key is created; no EXPIRE.       *)
ExpiryOnCreation(r) == IF Live THEN deadline ELSE now + Ttl(r)
NoExpiry(r) == MaxNow + 1

(* Plain EXPIRE: the latest write sets the deadline.                        *)
Expiry(r) == now + Ttl(r)

CountOf(kind, w) == Cardinality({e \in Contents(w) : e[2] = kind})

(* get_result of the aggregators: counts that are zero are written.         *)
Result(w) ==
  [end |-> w[2], at |-> now,
   clicks |-> CountOf("click", w), purchases |-> CountOf("purchase", w)]

(* RedisHashSink.write: one pipeline of HSET and EXPIRE.  A key that has    *)
(* expired is created anew; the average of a window with no purchase is     *)
(* None, which redis_field_updates leaves out.                              *)
Write ==
  /\ queue # <<>>
  /\ LET w    == Head(queue)
         r    == w[1]
         kept == IF Live THEN hash ELSE [x \in Resolution |-> None]
         new  == Result(w)
     IN  /\ hash' = [kept EXCEPT ![r] = new]
         /\ avg' = IF r = Largest /\ new.purchases > 0 THEN new.end
                   ELSE IF Live THEN avg ELSE None
         /\ deadline' = Expiry(r)
  /\ queue' = Tail(queue)
  /\ UNCHANGED <<eos, now, events, watermark, base, dirty, missed, outrun>>

Tick ==
  /\ queue = <<>> /\ dirty = {} /\ base <= watermark
  /\ now < MaxNow /\ now - watermark < MaxLag
  /\ now' = now + 1
  /\ UNCHANGED <<eos, events, watermark, base, dirty, queue, hash, avg, deadline,
                 missed, outrun>>

Next ==
  \/ \E e \in Event : Add(e)
  \/ Emit
  \/ Write
  \/ Tick

Spec == Init /\ [][Next]_vars

-----------------------------------------------------------------------------
(* HGETALL: the fields of the key, none once it has expired.                *)
Stored(r) == IF Live THEN hash[r] ELSE None

(* FeatureVector: every absent field is zero.                               *)
FeatureVector ==
  LET Count(r, field) == IF Stored(r) = None THEN 0 ELSE Stored(r)[field]
  IN  [clicks    |-> [r \in Resolution |-> Count(r, "clicks")],
       purchases |-> [r \in Resolution |-> Count(r, "purchases")],
       average   |-> IF Live THEN avg ELSE None]

(* RedisFeatureReader.read.                                                 *)
Read == [key_present |-> Live, features |-> FeatureVector]

Quiet == queue = <<>> /\ dirty = {}

Closed(r) == {x \in UNION {Ends(r, e[1]) : e \in events} : x <= watermark}

Newest(r) == CHOOSE x \in Closed(r) : \A y \in Closed(r) : y <= x

(* "A user whose purchases_24h is legitimately stable for 25 hours must not *)
(* have that feature expired at the 7.5 min mark" (week2_02, section 2.8):  *)
(* a field is served for its own TTL at least, although the writes of a     *)
(* smaller resolution shorten the key's.  True of a loop whose lag stays    *)
(* within half of the smallest window, and that folds no event older than   *)
(* the smallest window: either condition dropped, a field expires early.    *)
KeepsOwnTtl ==
  queue = <<>> =>
    \A r \in Resolution :
      hash[r] # None /\ now < hash[r].at + Ttl(r) => Read.key_present

(* Whatever fired late, again, or in a burst after a lag: the counts served *)
(* are all that their window holds, unless an event was folded into it      *)
(* after the idle clock had fired it, which marks nothing.  At least once,  *)
(* the window is the newest that closed with an event of the user, unless   *)
(* that one had closed when an event came under a watermark that had fallen *)
(* back: what fires again then is an older one.  (Under EOS a batch may     *)
(* close a window and fire an older one again after it: the hash then shows *)
(* the older one until the next closes.)  The average is that of the newest *)
(* window with a purchase, with the same exception, even under a count of   *)
(* no purchases.                                                            *)
FreshestServed ==
  Quiet /\ Live =>
    /\ \A r \in Resolution :
         hash[r] # None =>
           /\ \/ <<r, hash[r].end>> \in missed
              \/ /\ Read.features.clicks[r] = CountOf("click", <<r, hash[r].end>>)
                 /\ Read.features.purchases[r] = CountOf("purchase", <<r, hash[r].end>>)
           /\ eos \/ hash[r].end = Newest(r) \/ Newest(r) <= outrun
    /\ Read.features.average # None =>
         /\ CountOf("purchase", <<Largest, avg>>) > 0
         /\ eos \/ \A x \in Closed(Largest) :
                     x > avg /\ x > outrun => CountOf("purchase", <<Largest, x>>) = 0

(* Feature decay: some time after the user's last event nothing is served   *)
(* of it, and the user is cold.                                             *)
GoneInTime ==
  Read.key_present =>
    \E e \in events : \/ now < e[1] + Size[Largest] + Ttl(Largest) + MaxLag
                      \/ now < e[1] + MaxDelay + Ttl(Largest)
=============================================================================
