------------------------- MODULE SlidingWindowsProofs -------------------------
(***************************************************************************)
(* Theorems about SlidingWindows, for all events, geometries and budgets:  *)
(* type correctness with the alignment of the emission cursor, the         *)
(* invariant that _emit_dirty's Notes take for granted, and what the       *)
(* emissions of a window promise whoever reads them.                       *)
(***************************************************************************)
EXTENDS SlidingWindows, TLAPS

-----------------------------------------------------------------------------
(* Floor division by a slide.                                               *)

(* A multiple of the slide divides exactly.                                 *)
LEMMA ExactDivision ==
  ASSUME NEW s \in Nat \ {0}, NEW n \in Int
  PROVE  (n * s) \div s = n /\ (n * s) % s = 0
<1> DEFINE q == (n * s) \div s
           r == (n * s) % s
<1>1. q \in Int /\ r \in Int /\ 0 <= r /\ r < s /\ n * s = s * q + r
  BY Z3
<1>2. r = s * (n - q)
  BY <1>1, Z3
<1>3. CASE n - q >= 1
  <2>1. s * (n - q) >= s
    BY <1>1, <1>3, Z3
  <2> QED BY <2>1, <1>1, <1>2
<1>4. CASE n - q <= -1
  <2>1. s * (n - q) <= -s
    BY <1>1, <1>4, Z3
  <2> QED BY <2>1, <1>1, <1>2
<1>5. CASE n = q
  BY <1>1, <1>2, <1>5
<1> QED BY <1>1, <1>3, <1>4, <1>5
(* The pane of an event is a number.                                        *)
LEMMA PaneType ==
  ASSUME NEW r \in Resolution, NEW e \in Event
  PROVE  /\ Slide[r] \in Nat \ {0} /\ Size[r] \in Nat
         /\ Pane(r, e) \in Int
<1>1. Slide[r] \in Nat \ {0} /\ Size[r] \in Nat /\ TsOf[e] \in Nat
  BY ConstantsOK
<1> QED BY <1>1 DEF Pane

(* window_ends_including names windows that contain the event.              *)
LEMMA EndsContain ==
  ASSUME NEW r \in Resolution, NEW e \in Event, NEW end \in Ends(r, e)
  PROVE  end \in Int /\ InWindow(e, <<UserOf[e], r, end>>)
<1> DEFINE s == Slide[r]
           m == Size[r] \div s
           a == Pane(r, e)
<1>1. s \in Nat \ {0} /\ Size[r] \in Nat /\ a \in Int
  BY PaneType
<1>2. PICK step \in 1 .. m : end = (a + step) * s
  BY DEF Ends
<1>3. m \in Int /\ Size[r] = m * s
  <2>1. Size[r] % s = 0
    BY ConstantsOK
  <2> QED BY <1>1, <2>1, Z3
<1>4. end \div s = a + step
  <2>1. a + step \in Int
    BY <1>1
  <2> HIDE DEF s, a
  <2> QED BY <1>1, <1>2, <2>1, ExactDivision
<1>5. (end - Size[r]) \div s = a + step - m
  <2>1. a + step - m \in Int
    BY <1>1, <1>3
  <2>2. end - Size[r] = (a + step - m) * s
    <3> HIDE DEF s, a, m
    <3> QED BY <1>1, <1>2, <1>3, Z3
  <2> HIDE DEF s, a, m
  <2> QED BY <1>1, <2>1, <2>2, ExactDivision
<1>6. end \in Int
  <2> HIDE DEF s, a, m
  <2> QED BY <1>1, <1>2, Z3
<1>7. a + step - m <= a /\ a < a + step
  <2> HIDE DEF s, a, m
  <2> QED BY <1>1, <1>3
<1> QED BY <1>4, <1>5, <1>6, <1>7 DEF InWindow

-----------------------------------------------------------------------------
(* Contents of a window and the panes it is made of.                        *)

LEMMA ContentsType ==
  ASSUME NEW k, panes \in [Resolution -> [Event -> Nat]], k \in Key
  PROVE  Contents(k) \in [Event -> Nat]
BY DEF Contents, Key

(* An iteration's watermark is a number.                                    *)
LEMMA WatermarkType ==
  ASSUME NEW top \in Nat, NEW last \in Nat, now \in Nat
  PROVE  Watermark(top, last) \in Int
BY ConstantsOK DEF Watermark

LEMMA TopType ==
  ASSUME NEW e \in Event, maxTs \in Nat \cup {None}
  PROVE  Top(e) \in Nat
BY ConstantsOK DEF Top

(* Only windows of the event's own user are marked, at slide boundaries.    *)
LEMMA RefiresType ==
  ASSUME NEW e \in Event, NEW k \in Refires(e)
  PROVE  /\ k \in Key /\ k[1] = UserOf[e]
         /\ InWindow(e, k)
<1>1. PICK r \in Resolution :
        \E end \in {x \in Ends(r, e) : x <= Watermark(Top(e), now)} :
          k = <<UserOf[e], r, end>>
  BY DEF Refires
<1>2. PICK end \in Ends(r, e) : k = <<UserOf[e], r, end>>
  BY <1>1
<1>3. end \in Int /\ InWindow(e, <<UserOf[e], r, end>>)
  BY EndsContain
<1>4. UserOf[e] \in User
  BY ConstantsOK
<1> QED BY <1>2, <1>3, <1>4 DEF Key

(* The cursor moves by whole slides.                                        *)
LEMMA CursorMoves ==
  ASSUME NEW r \in Resolution, NEW w \in Int,
         cursor[r] \in Int \cup {None},
         cursor[r] # None => cursor[r] % Slide[r] = 0
  PROVE  LET next == CursorStart(r, w) + Slide[r] * Passed(r, w)
         IN  next \in Int /\ next % Slide[r] = 0
<1> DEFINE s == Slide[r]
           c == CursorStart(r, w)
           n == Passed(r, w)
<1>1. s \in Nat \ {0}
  BY ConstantsOK
<1>2. PICK q \in Int : c = q * s
  <2>1. CASE cursor[r] = None
    <3>1. w \div s \in Int
      BY <1>1
    <3> QED BY <2>1, <3>1 DEF CursorStart
  <2>2. CASE cursor[r] # None
    <3>1. cursor[r] \in Int /\ cursor[r] % s = 0 /\ c = cursor[r]
      BY <2>2 DEF CursorStart
    <3>2. cursor[r] \div s \in Int /\ cursor[r] = (cursor[r] \div s) * s
      <4> HIDE DEF s
      <4> QED BY <1>1, <3>1, Z3
    <3> QED BY <3>1, <3>2
  <2> QED BY <2>1, <2>2
<1>3. n \in Int
  <2>1. c \in Int
    <3> HIDE DEF s, c
    <3> QED BY <1>1, <1>2
  <2>2. (w - c) \div s \in Int
    <3> HIDE DEF s, c
    <3> QED BY <1>1, <2>1
  <2> QED BY <2>1, <2>2 DEF Passed
<1>4. c + s * n = (q + n) * s
  <2> HIDE DEF s, c, n
  <2> QED BY <1>1, <1>2, <1>3, Z3
<1>5. q + n \in Int
  <2> HIDE DEF s, c, n
  <2> QED BY <1>2, <1>3
<1> HIDE DEF s, c, n
<1>6. (c + s * n) \in Int /\ (c + s * n) % s = 0
  <2>1. ((q + n) * s) % s = 0
    BY <1>1, <1>5, ExactDivision
  <2>2. (q + n) * s \in Int
    BY <1>1, <1>5, Z3
  <2> QED BY <1>4, <2>1, <2>2
<1> QED BY <1>6 DEF s, c, n
(* The window ends that are due are numbers.                                *)
LEMMA FiredType ==
  ASSUME NEW w \in Int, TypeOK, NEW k \in Fired(w)
  PROVE  k \in Key /\ k[1] \in users
<1>1. PICK r \in Resolution : k \in users \X {r} \X Due(r, w)
  BY DEF Fired
<1>2. PICK u \in users, end \in Due(r, w) : k = <<u, r, end>>
  BY <1>1
<1>3. end \in Int
  <2>1. CursorStart(r, w) \in Int /\ Slide[r] \in Nat \ {0}
    <3>1. Slide[r] \in Nat \ {0}
      BY ConstantsOK
    <3>2. w \div Slide[r] \in Int
      BY <3>1
    <3>3. (w \div Slide[r]) * Slide[r] \in Int
      BY <3>1, <3>2
    <3>4. cursor[r] \in Int \cup {None}
      BY DEF TypeOK
    <3> QED BY <3>1, <3>3, <3>4 DEF CursorStart
  <2>2. PICK n \in 0 .. Passed(r, w) - 1 : end = CursorStart(r, w) + Slide[r] * n
    BY <1>2 DEF Due
  <2>3. n \in Int
    BY <2>2
  <2>4. Slide[r] * n \in Int
    BY <2>1, <2>3
  <2> QED BY <2>1, <2>2, <2>4
<1> QED BY <1>2, <1>3 DEF Key, TypeOK

LEMMA SeqType ==
  ASSUME TypeOK, NEW k
  PROVE  SeqOf(k) \in Nat
BY DEF TypeOK, SeqOf

LEMMA EmissionType ==
  ASSUME TypeOK, NEW k \in Key, NEW n \in Nat
  PROVE  EmissionOf(k, n) \in Emission
<1>1. Contents(k) \in [Event -> Nat]
  BY ContentsType DEF TypeOK
<1>2. life[PartitionOf[k[1]]] \in Nat
  BY ConstantsOK DEF TypeOK, Key
<1> QED BY <1>1, <1>2 DEF EmissionOf, Emission

-----------------------------------------------------------------------------
(* Type correctness.                                                        *)

LEMMA TypeInit == Init => TypeOK
<1> SUFFICES ASSUME Init PROVE TypeOK
  OBVIOUS
<1>1. folds \in 0 .. MaxBatch
  BY ConstantsOK DEF Init
<1>2. offset \in [Event -> Nat]
  BY ConstantsOK DEF Init
<1>3. DOMAIN seq = {}
  BY DEF Init
<1> QED BY <1>1, <1>2, <1>3 DEF Init, TypeOK

LEMMA TypeRead ==
  ASSUME TypeOK, NEW e \in Event, Read(e)
  PROVE  /\ maxTs' \in Nat \cup {None} /\ lastEvent' \in Nat
         /\ folds' \in 0 .. MaxBatch
         /\ read' \in SUBSET Event
         /\ slipped' \in BOOLEAN
<1>1. maxTs' \in Nat \cup {None}
  BY TopType DEF TypeOK, Read, Observe
<1>2. folds' \in 0 .. MaxBatch
  BY ConstantsOK DEF TypeOK, Read
<1> QED BY <1>1, <1>2 DEF TypeOK, Read, Observe

LEMMA TypeEmit ==
  ASSUME TypeOK, Emit
  PROVE  TypeOK'
<1> DEFINE w == Watermark(maxTs, lastEvent)
           Again(k) == IF k \in Fired(w) THEN 1 ELSE 0
           Kept == {x \in DOMAIN seq \cup Fired(w) \cup dirty :
                      x[3] >= w - Size[x[2]] - Lateness}
           NextSeq(k) == SeqOf(k) + Again(k) + (IF k \in dirty THEN 1 ELSE 0)
<1>1. w \in Int
  BY WatermarkType DEF TypeOK, Emit
<1>2. \A k \in Fired(w) \cup dirty : k \in Key
  BY <1>1, FiredType DEF TypeOK
<1>3. \A r \in Resolution : /\ cursor'[r] \in Int
                            /\ cursor'[r] % Slide[r] = 0
  <2> SUFFICES ASSUME NEW r \in Resolution
               PROVE cursor'[r] \in Int /\ cursor'[r] % Slide[r] = 0
    OBVIOUS
  <2>1. cursor'[r] = CursorStart(r, w) + Slide[r] * Passed(r, w)
    BY DEF Emit
  <2>2. cursor[r] \in Int \cup {None} /\ (cursor[r] # None => cursor[r] % Slide[r] = 0)
    BY DEF TypeOK
  <2> QED BY <1>1, <2>1, <2>2, CursorMoves
<1>4. emitted' \subseteq Emission
  <2>1. \A k \in Fired(w) : EmissionOf(k, SeqOf(k)) \in Emission
    BY <1>2, SeqType, EmissionType
  <2>2. \A k \in dirty : EmissionOf(k, SeqOf(k) + Again(k)) \in Emission
    <3> SUFFICES ASSUME NEW k \in dirty
                 PROVE EmissionOf(k, SeqOf(k) + Again(k)) \in Emission
      OBVIOUS
    <3>1. SeqOf(k) + Again(k) \in Nat
      BY SeqType
    <3> HIDE DEF Again
    <3> QED BY <1>2, <3>1, EmissionType
  <2>3. emitted' = emitted \cup {EmissionOf(k, SeqOf(k)) : k \in Fired(w)}
                     \cup {EmissionOf(k, SeqOf(k) + Again(k)) : k \in dirty}
    BY DEF Emit
  <2> QED BY <2>1, <2>2, <2>3 DEF TypeOK
<1>5. DOMAIN seq' \subseteq Key /\ \A k \in DOMAIN seq' : seq'[k] \in Nat
  <2>1. seq' = [k \in Kept |-> NextSeq(k)]
    BY DEF Emit
  <2>2. \A k \in Kept : NextSeq(k) \in Nat
    BY SeqType
  <2>3. Kept \subseteq Key
    BY <1>2 DEF TypeOK
  <2> QED BY <2>1, <2>2, <2>3
<1>6. panes' \in [Resolution -> [Event -> Nat]]
  BY DEF TypeOK, Emit
<1>7. cursor' \in [Resolution -> Int \cup {None}]
  <2>1. DOMAIN cursor' = Resolution /\ cursor' = [r \in Resolution |-> cursor'[r]]
    BY DEF Emit
  <2> QED BY <1>3, <2>1
<1>8. folds' \in 0 .. MaxBatch /\ dirty' \subseteq Key
  BY ConstantsOK DEF Emit
<1> QED BY <1>3, <1>4, <1>5, <1>6, <1>7, <1>8 DEF TypeOK, Emit, tracker

(* The cursor is always at a slide boundary, a counter exists only for a    *)
(* window, and no count is negative.                                        *)
THEOREM TypeCorrect == Spec => []TypeOK
<1>1. TypeOK /\ [Next]_vars => TypeOK'
  <2> SUFFICES ASSUME TypeOK, [Next]_vars PROVE TypeOK'
    OBVIOUS
  <2>1. ASSUME NEW e \in Event, Add(e) PROVE TypeOK'
    <3>1. Read(e)
      BY <2>1 DEF Add
    <3>2. users' \in SUBSET User
      BY <2>1, ConstantsOK DEF Add, TypeOK
    <3>3. panes' \in [Resolution -> [Event -> Nat]]
      BY <2>1 DEF Add, TypeOK
    <3>4. dirty' \subseteq Key
      BY <2>1, RefiresType DEF Add, TypeOK
    <3> QED BY <2>1, <3>1, <3>2, <3>3, <3>4, TypeRead DEF Add, TypeOK
  <2>2. ASSUME NEW e \in Event, SendLate(e) PROVE TypeOK'
    <3>1. Read(e)
      BY <2>2 DEF SendLate
    <3> QED BY <2>2, <3>1, TypeRead DEF SendLate, TypeOK, manager
  <2>3. ASSUME Emit PROVE TypeOK'
    BY <2>3, TypeEmit
  <2>4. ASSUME Tick PROVE TypeOK'
    BY <2>4 DEF Tick, TypeOK, tracker, manager, history
  <2>5. ASSUME NEW p \in Partition, Drop(p) PROVE TypeOK'
    <3>1. panes' \in [Resolution -> [Event -> Nat]]
      BY <2>5 DEF Drop, TypeOK
    <3>2. DOMAIN seq' \subseteq Key /\ \A k \in DOMAIN seq' : seq'[k] \in Nat
      BY <2>5 DEF Drop, TypeOK
    <3>3. life' \in [Partition -> Nat]
      BY <2>5 DEF Drop, TypeOK
    <3> QED BY <2>5, <3>1, <3>2, <3>3 DEF Drop, TypeOK, tracker
  <2>6. ASSUME UNCHANGED vars PROVE TypeOK'
    BY <2>6 DEF vars, TypeOK, tracker, manager, history
  <2> QED BY <2>1, <2>2, <2>3, <2>4, <2>5, <2>6 DEF Next
<1> QED BY TypeInit, <1>1, PTL DEF Spec
-----------------------------------------------------------------------------
(* The invariant of _emit_dirty.                                            *)

LEMMA DirtyAdd ==
  ASSUME TypeOK, DirtyLive, NEW e \in Event, Add(e)
  PROVE  DirtyLive'
<1> SUFFICES ASSUME NEW k \in dirty'
             PROVE  k[1] \in users' /\ \E f \in Event : Contents(k)'[f] > 0
  BY DEF DirtyLive, Contributes
<1>1. users' = users \cup {UserOf[e]}
  BY DEF Add
<1>2. \A r \in Resolution, f \in Event :
        panes'[r][f] = IF f = e THEN panes[r][e] + 1 ELSE panes[r][f]
  BY DEF Add, TypeOK
<1>3. \A r \in Resolution, f \in Event : panes[r][f] \in Nat
  BY DEF TypeOK
<1>4. \A f \in Event :
        Contents(k)'[f] = IF InWindow(f, k) THEN panes'[k[2]][f] ELSE 0
  BY DEF Contents, InWindow, Pane
<1>5. CASE k \in Refires(e)
  <2>1. k \in Key /\ k[1] = UserOf[e] /\ InWindow(e, k)
    BY <1>5, RefiresType
  <2>2. k[2] \in Resolution
    BY <2>1 DEF Key
  <2>3. Contents(k)'[e] = panes[k[2]][e] + 1
    BY <1>2, <1>4, <2>1, <2>2
  <2>4. Contents(k)'[e] > 0
    BY <1>3, <2>2, <2>3
  <2> QED BY <1>1, <2>1, <2>4
<1>6. CASE k \in dirty
  <2>1. k \in Key /\ k[2] \in Resolution
    BY <1>6 DEF TypeOK, Key
  <2>2. k[1] \in users
    BY <1>6 DEF DirtyLive
  <2>3. PICK f \in Event : Contents(k)[f] > 0
    BY <1>6 DEF DirtyLive, Contributes
  <2>4. InWindow(f, k) /\ panes[k[2]][f] > 0
    BY <2>3 DEF Contents
  <2>5. panes'[k[2]][f] > 0
    BY <1>2, <1>3, <2>1, <2>4
  <2>6. Contents(k)'[f] > 0
    BY <1>4, <2>4, <2>5
  <2> QED BY <1>1, <2>2, <2>6
<1> QED BY <1>5, <1>6 DEF Add

LEMMA DirtyDrop ==
  ASSUME TypeOK, DirtyLive, NEW p \in Partition, Drop(p)
  PROVE  DirtyLive'
<1> DEFINE victim == {u \in users : PartitionOf[u] = p}
<1> SUFFICES ASSUME NEW k \in dirty'
             PROVE  k[1] \in users' /\ \E f \in Event : Contents(k)'[f] > 0
  BY DEF DirtyLive, Contributes
<1>1. k \in dirty /\ k[1] \notin victim
  BY DEF Drop
<1>2. k[1] \in users /\ k[2] \in Resolution
  BY <1>1 DEF DirtyLive, TypeOK, Key
<1>3. PICK f \in Event : Contents(k)[f] > 0
  BY <1>1 DEF DirtyLive, Contributes
<1>4. InWindow(f, k) /\ panes[k[2]][f] > 0
  BY <1>3 DEF Contents
<1>5. UserOf[f] = k[1]
  BY <1>4 DEF InWindow
<1>6. panes'[k[2]][f] = panes[k[2]][f]
  BY <1>1, <1>2, <1>5 DEF Drop
<1>7. Contents(k)'[f] = panes'[k[2]][f]
  BY <1>4 DEF Contents, InWindow, Pane
<1> QED BY <1>1, <1>2, <1>4, <1>6, <1>7 DEF Drop

(* Every window marked for a re-fire has a live user and a pane: the        *)
(* re-merge in _emit_dirty always finds its record.                         *)
THEOREM RefireFindsPane == Spec => []DirtyLive
<1>1. Init => DirtyLive
  BY DEF Init, DirtyLive
<1>2. TypeOK /\ DirtyLive /\ [Next]_vars => DirtyLive'
  <2> SUFFICES ASSUME TypeOK, DirtyLive, [Next]_vars PROVE DirtyLive'
    OBVIOUS
  <2>1. ASSUME NEW e \in Event, Add(e) PROVE DirtyLive'
    BY <2>1, DirtyAdd
  <2>2. ASSUME NEW e \in Event, SendLate(e) PROVE DirtyLive'
    BY <2>2 DEF SendLate, manager, DirtyLive, Contributes, Contents, InWindow, Pane
  <2>3. ASSUME Emit PROVE DirtyLive'
    BY <2>3 DEF Emit, DirtyLive
  <2>4. ASSUME Tick PROVE DirtyLive'
    BY <2>4 DEF Tick, manager, DirtyLive, Contributes, Contents, InWindow, Pane
  <2>5. ASSUME NEW p \in Partition, Drop(p) PROVE DirtyLive'
    BY <2>5, DirtyDrop
  <2>6. ASSUME UNCHANGED vars PROVE DirtyLive'
    BY <2>6 DEF vars, manager, DirtyLive, Contributes, Contents, InWindow, Pane
  <2> QED BY <2>1, <2>2, <2>3, <2>4, <2>5, <2>6 DEF Next
<1> QED BY TypeCorrect, <1>1, <1>2, PTL DEF Spec
-----------------------------------------------------------------------------
(* What a window's emissions are ordered and refreshed by.                  *)

(* Window ends are at slide boundaries.                                     *)
Aligned(k) == k \in Key /\ k[3] % Slide[k[2]] = 0

(* No event that is still accepted belongs to the window, and the cursor    *)
(* is past it: its panes and its counter may be collected.                  *)
Closed(k) ==
  /\ cursor[k[2]] # None
  /\ k[3] + Slide[k[2]] + Lateness <= cursor[k[2]]

(* Emissions are of windows the cursor has passed.                          *)
PassedInv ==
  \A x \in emitted :
    /\ Aligned(x.key)
    /\ x.life <= life[PartitionOf[x.key[1]]]
    /\ cursor[x.key[2]] # None
    /\ x.key[3] + Slide[x.key[2]] <= cursor[x.key[2]]

(* An iteration that has folded an event sees the watermark of its last     *)
(* one, and no window to fire again is beyond it.                           *)
IterationInv ==
  /\ folds = 0 => dirty = {}
  /\ folds > 0 => maxTs # None /\ lastEvent = now
  /\ \A k \in dirty : Aligned(k) /\ k[3] <= Watermark(maxTs, lastEvent)

(* The counter of a window that may be emitted again is past its emissions, *)
(* and its panes hold all that they contained.                              *)
Counted(x) ==
  /\ x.key \in DOMAIN seq /\ x.seq < seq[x.key]
  /\ \A e \in Event : x.of[e] <= Contents(x.key)[e]

OpenInv ==
  slipped \/ /\ \A k \in dirty : ~Closed(k)
             /\ \A x \in emitted : Current(x) => Closed(x.key) \/ Counted(x)

-----------------------------------------------------------------------------
(* Window ends, panes and the cursor.                                       *)

(* Division by a slide, without the division.                               *)
LEMMA Floor ==
  ASSUME NEW s \in Nat \ {0}, NEW a \in Int
  PROVE  /\ a \div s \in Int
         /\ s * (a \div s) <= a /\ a < s * (a \div s) + s
BY Z3

LEMMA Monotone ==
  ASSUME NEW s \in Nat \ {0}, NEW a \in Int, NEW b \in Int, a <= b
  PROVE  s * a <= s * b
BY Z3

(* Two multiples of the slide are a slide apart.                            *)
LEMMA SlideApart ==
  ASSUME NEW s \in Nat \ {0}, NEW a \in Int, NEW b \in Int,
         a % s = 0, b % s = 0, a < b
  PROVE  a + s <= b
<1>1. /\ a \div s \in Int /\ a = s * (a \div s)
      /\ b \div s \in Int /\ b = s * (b \div s)
  BY Z3
<1>2. PICK i \in Int, j \in Int : a = s * i /\ b = s * j
  BY <1>1
<1>3. i + 1 <= j
  <2>1. CASE j <= i
    <3>1. s * j <= s * i
      BY <2>1, Monotone
    <3> QED
      BY <1>2, <3>1
  <2> QED
    BY <1>2, <2>1
<1>4. s * (i + 1) <= s * j
  BY <1>3, Monotone
<1>5. s * (i + 1) = s * i + s
  BY Z3
<1> QED
  BY <1>2, <1>4, <1>5

(* An aligned window is a whole number of slides.                           *)
LEMMA AlignedShape ==
  ASSUME NEW k, Aligned(k)
  PROVE  /\ k[1] \in User /\ k[2] \in Resolution /\ k[3] \in Int
         /\ k = <<k[1], k[2], k[3]>>
         /\ k[3] = Slide[k[2]] * (k[3] \div Slide[k[2]])
         /\ k[3] \div Slide[k[2]] \in Int
         /\ (k[3] - Size[k[2]]) \div Slide[k[2]]
              = k[3] \div Slide[k[2]] - Size[k[2]] \div Slide[k[2]]
         /\ k[3] - Size[k[2]]
              = Slide[k[2]] * (k[3] \div Slide[k[2]] - Size[k[2]] \div Slide[k[2]])
         /\ Size[k[2]] \div Slide[k[2]] \in Int
<1>1. /\ k[1] \in User /\ k[2] \in Resolution /\ k[3] \in Int
      /\ k = <<k[1], k[2], k[3]>> /\ k[3] % Slide[k[2]] = 0
  BY DEF Aligned, Key
<1>2. PICK s \in Nat \ {0} : s = Slide[k[2]]
  BY <1>1, ConstantsOK
<1>3. PICK z \in Nat : z = Size[k[2]] /\ z % s = 0
  BY <1>1, <1>2, ConstantsOK
<1>4. PICK a \in Int : a = k[3] \div s /\ k[3] = s * a
  <2>1. k[3] \div s \in Int /\ k[3] = s * (k[3] \div s)
    BY <1>1, <1>2, Z3
  <2> QED
    BY <2>1
<1>5. PICK m \in Int : m = z \div s /\ z = s * m
  <2>1. z \div s \in Int /\ z = s * (z \div s)
    BY <1>3, Z3
  <2> QED
    BY <2>1
<1>6. k[3] - z = s * (a - m) /\ (a - m) * s = s * (a - m)
  BY <1>4, <1>5, Z3
<1>7. (k[3] - z) \div s = a - m
  BY <1>6, ExactDivision
<1> QED
  BY <1>1, <1>2, <1>3, <1>4, <1>5, <1>6, <1>7

(* An event is before the end of its windows, and they are the ones         *)
(* window_ends_including names.                                             *)
LEMMA WindowOfEvent ==
  ASSUME NEW k, Aligned(k), NEW e \in Event, InWindow(e, k)
  PROVE  /\ TsOf[e] < k[3]
         /\ k[1] = UserOf[e] /\ k[3] \in Ends(k[2], e)
<1>1. /\ k[2] \in Resolution /\ k[3] \in Int /\ TsOf[e] \in Nat
      /\ k[3] \div Slide[k[2]] \in Int
      /\ k[3] = Slide[k[2]] * (k[3] \div Slide[k[2]])
      /\ Size[k[2]] \div Slide[k[2]] \in Int
      /\ (k[3] - Size[k[2]]) \div Slide[k[2]]
           = k[3] \div Slide[k[2]] - Size[k[2]] \div Slide[k[2]]
  BY AlignedShape, ConstantsOK
<1>2. PICK s \in Nat \ {0} : s = Slide[k[2]]
  BY <1>1, ConstantsOK
<1>3. PICK q \in Int : q = k[3] \div s /\ k[3] = s * q
  BY <1>1, <1>2
<1>4. PICK m \in Int : m = Size[k[2]] \div s
  BY <1>1, <1>2
<1>5. PICK a \in Int : a = Pane(k[2], e) /\ TsOf[e] < s * a + s
  <2>1. PICK x \in Int : x = TsOf[e]
    BY <1>1
  <2>2. x \div s \in Int /\ x < s * (x \div s) + s
    BY Floor
  <2> QED
    BY <1>2, <2>1, <2>2 DEF Pane
<1>6. k[1] = UserOf[e] /\ q - m <= a /\ a < q
  BY <1>1, <1>2, <1>3, <1>4, <1>5 DEF InWindow
<1>7. TsOf[e] < k[3]
  <2>1. s * (a + 1) <= s * q
    BY <1>6, Monotone
  <2>2. s * (a + 1) = s * a + s
    BY Z3
  <2> QED
    BY <1>1, <1>3, <1>5, <2>1, <2>2
<1>8. k[3] \in Ends(k[2], e)
  <2>1. q - a \in 1 .. m
    BY <1>6
  <2>2. (a + (q - a)) * s = s * q
    BY Z3
  <2> QED
    BY <1>2, <1>3, <1>4, <1>5, <2>1, <2>2 DEF Ends
<1> QED
  BY <1>6, <1>7, <1>8

(* window_ends_including keeps to slide boundaries.                         *)
LEMMA RefiresAligned ==
  ASSUME NEW e \in Event, NEW k \in Refires(e)
  PROVE  Aligned(k) /\ k[3] <= Watermark(Top(e), now)
<1>1. PICK r \in Resolution :
        \E end \in {x \in Ends(r, e) : x <= Watermark(Top(e), now)} :
          k = <<UserOf[e], r, end>>
  BY DEF Refires
<1>2. PICK end \in Ends(r, e) : k = <<UserOf[e], r, end>> /\ end <= Watermark(Top(e), now)
  BY <1>1
<1>3. PICK step \in 1 .. Size[r] \div Slide[r] : end = (Pane(r, e) + step) * Slide[r]
  BY <1>2 DEF Ends
<1>4. Pane(r, e) + step \in Int /\ Slide[r] \in Nat \ {0}
  BY PaneType
<1>5. end % Slide[r] = 0
  BY <1>3, <1>4, ExactDivision
<1> QED
  BY <1>2, <1>5, RefiresType DEF Aligned

(* A pane that is collected belongs to windows that end before the lateness *)
(* budget.                                                                  *)
LEMMA CollectedPane ==
  ASSUME NEW k, Aligned(k), NEW e \in Event, InWindow(e, k), NEW w \in Int,
         Pane(k[2], e) < PaneCutoff(k[2], w)
  PROVE  k[3] + Slide[k[2]] + Lateness <= w
<1>1. PICK s \in Nat \ {0} : s = Slide[k[2]]
  BY AlignedShape, ConstantsOK
<1>2. PICK z \in Nat : z = Size[k[2]]
  BY AlignedShape, ConstantsOK
<1>3. PICK a \in Int : (k[3] - z) \div s = a /\ k[3] - z = s * a /\ k[3] \in Int
  BY <1>1, <1>2, AlignedShape
<1>4. Lateness \in Nat
  BY ConstantsOK
<1>5. PICK b \in Int : b = PaneCutoff(k[2], w) /\ s * b <= w - z - Lateness
  <2>1. PICK x \in Int : x = w - z - Lateness
    BY <1>4
  <2>2. x \div s \in Int /\ s * (x \div s) <= x
    BY Floor
  <2> QED
    BY <1>1, <1>2, <2>1, <2>2 DEF PaneCutoff
<1>6. Pane(k[2], e) \in Int
  BY AlignedShape, PaneType
<1>7. a + 1 <= b
  BY <1>1, <1>2, <1>3, <1>5, <1>6 DEF InWindow
<1>8. s * (a + 1) <= s * b /\ s * (a + 1) = s * a + s
  <2>1. s * (a + 1) = s * a + s
    BY Z3
  <2> QED
    BY <1>7, <2>1, Monotone
<1> QED
  BY <1>1, <1>2, <1>3, <1>4, <1>5, <1>8

(* An emission takes the cursor past the watermark; what was due is behind. *)
LEMMA CursorPasses ==
  ASSUME TypeOK, NEW r \in Resolution, NEW w \in Int
  PROVE  LET next == CursorStart(r, w) + Slide[r] * Passed(r, w)
         IN  /\ next \in Int /\ next > w
             /\ cursor[r] # None => cursor[r] \in Int /\ cursor[r] <= next
             /\ \A end \in Due(r, w) : /\ end \in Int /\ end % Slide[r] = 0
                                       /\ end + Slide[r] <= next
                                       /\ cursor[r] # None => cursor[r] <= end
<1>1. PICK s \in Nat \ {0} : s = Slide[r]
  BY ConstantsOK
<1>2. PICK c \in Int : /\ c = CursorStart(r, w) /\ c % s = 0
                       /\ cursor[r] # None => cursor[r] = c
  <2>1. cursor[r] \in Int \cup {None} /\ (cursor[r] # None => cursor[r] % s = 0)
    BY <1>1 DEF TypeOK
  <2>2. (w \div s) * s \in Int /\ ((w \div s) * s) % s = 0
    <3>1. w \div s \in Int
      BY Floor
    <3> QED
      BY <3>1, ExactDivision
  <2> QED
    BY <1>1, <2>1, <2>2 DEF CursorStart
<1>3. PICK d \in Int : d = (w - c) \div s /\ s * d <= w - c /\ w - c < s * d + s
  BY Floor
<1>4. CASE c <= w
  <2>1. Passed(r, w) = d + 1
    BY <1>1, <1>2, <1>3, <1>4 DEF Passed
  <2>2. s * (d + 1) = s * d + s
    BY Z3
  <2>3. ASSUME NEW end \in Due(r, w)
        PROVE  /\ end \in Int /\ end % s = 0 /\ end + s <= c + s * (d + 1) /\ c <= end
    <3>1. PICK n \in 0 .. d : end = c + s * n
      BY <1>1, <1>2, <2>1 DEF Due
    <3>2. s * n \in Int /\ s * 0 <= s * n /\ s * n <= s * d
      BY <3>1, Monotone
    <3>3. (c + s * n) % s = 0
      <4>1. PICK a \in Int : c = s * a
        <5>1. c \div s \in Int /\ c = s * (c \div s)
          BY <1>2, Z3
        <5> QED
          BY <5>1
      <4>2. c + s * n = (a + n) * s /\ a + n \in Int
        BY <3>1, <4>1, Z3
      <4> QED
        BY <4>2, ExactDivision
    <3> QED
      BY <2>2, <3>1, <3>2, <3>3
  <2>4. s * (d + 1) \in Int /\ c + s * (d + 1) > w
    BY <1>3, <2>2
  <2>5. c <= c + s * (d + 1)
    BY <1>4, <2>4
  <2> QED
    BY <1>1, <1>2, <2>1, <2>3, <2>4, <2>5
<1>5. CASE ~(c <= w)
  <2>1. Passed(r, w) = 0 /\ Due(r, w) = {}
    BY <1>1, <1>2, <1>5 DEF Passed, Due
  <2>2. s * 0 = 0
    OBVIOUS
  <2> QED
    BY <1>1, <1>2, <1>5, <2>1, <2>2
<1> QED
  BY <1>4, <1>5

(* Within an iteration the watermark does not fall back.                    *)
LEMMA WatermarkRises ==
  ASSUME TypeOK, NEW e \in Event, lastEvent = now, maxTs # None
  PROVE  Watermark(maxTs, lastEvent) <= Watermark(Top(e), now)
<1>1. maxTs \in Nat /\ now \in Nat /\ TsOf[e] \in Nat /\ Skew \in Nat /\ Idleness \in Nat
  BY ConstantsOK DEF TypeOK
<1>2. Top(e) \in Nat /\ maxTs <= Top(e)
  BY <1>1 DEF Top
<1> QED
  BY <1>1, <1>2 DEF Watermark
-----------------------------------------------------------------------------
(* What emit_due_windows does, window by window.                            *)

(* A record the iteration emits.                                            *)
FromPanes(y, w) ==
  /\ y.key \in Fired(w) \cup dirty
  /\ y.of = Contents(y.key)
  /\ y.life = life[PartitionOf[y.key[1]]]
  /\ y.seq \in Nat /\ SeqOf(y.key) <= y.seq
  /\ y.key \in DOMAIN seq' => y.seq < seq'[y.key]

LEMMA CursorStep ==
  ASSUME TypeOK, Emit, NEW w \in Int, w = Watermark(maxTs, lastEvent),
         NEW r \in Resolution
  PROVE  /\ cursor'[r] \in Int /\ cursor'[r] > w
         /\ cursor'[r] # None /\ cursor'[r] % Slide[r] = 0
         /\ cursor[r] # None => cursor[r] \in Int /\ cursor[r] <= cursor'[r]
         /\ \A end \in Due(r, w) : /\ end \in Int /\ end % Slide[r] = 0
                                   /\ end + Slide[r] <= cursor'[r]
                                   /\ cursor[r] # None => cursor[r] <= end
<1>1. cursor'[r] = CursorStart(r, w) + Slide[r] * Passed(r, w)
  BY DEF Emit
<1>2. cursor'[r] \in Int /\ cursor'[r] % Slide[r] = 0
  <2>1. cursor[r] \in Int \cup {None} /\ (cursor[r] # None => cursor[r] % Slide[r] = 0)
    BY DEF TypeOK
  <2> QED
    BY <1>1, <2>1, CursorMoves
<1>3. cursor'[r] # None
  BY <1>2, ConstantsOK
<1> QED
  BY <1>1, <1>2, <1>3, CursorPasses

LEMMA EmitWatermark ==
  ASSUME TypeOK, Emit
  PROVE  \E w \in Int : w = Watermark(maxTs, lastEvent)
BY WatermarkType DEF TypeOK, Emit

(* Windows that fire, and those that fire again, are open and then passed.  *)
LEMMA FiredPassed ==
  ASSUME TypeOK, IterationInv, Emit, NEW w \in Int, w = Watermark(maxTs, lastEvent)
  PROVE  /\ \A k \in Fired(w) \cup dirty :
              Aligned(k) /\ k[3] + Slide[k[2]] <= cursor'[k[2]]
         /\ \A k \in Fired(w) : ~Closed(k)
<1>1. ASSUME NEW k \in Fired(w)
      PROVE  /\ Aligned(k) /\ k[3] + Slide[k[2]] <= cursor'[k[2]]
             /\ ~Closed(k)
  <2>1. k \in Key
    BY FiredType
  <2>2. PICK r \in Resolution : k \in users \X {r} \X Due(r, w)
    BY DEF Fired
  <2>3. k[2] = r /\ k[3] \in Due(r, w)
    BY <2>2
  <2>4. /\ k[3] \in Int /\ k[3] % Slide[r] = 0 /\ k[3] + Slide[r] <= cursor'[r]
        /\ cursor[r] # None => cursor[r] \in Int /\ cursor[r] <= k[3]
    BY <2>3, CursorStep
  <2>5. Slide[r] \in Nat \ {0} /\ Lateness \in Nat
    BY ConstantsOK
  <2>6. ~Closed(k)
    BY <2>3, <2>4, <2>5 DEF Closed
  <2> QED
    BY <2>1, <2>3, <2>4, <2>6 DEF Aligned
<1>2. ASSUME NEW k \in dirty
      PROVE  Aligned(k) /\ k[3] + Slide[k[2]] <= cursor'[k[2]]
  <2>1. Aligned(k) /\ k[3] <= w
    BY DEF IterationInv
  <2>2. /\ k[2] \in Resolution /\ k[3] \in Int /\ k[3] % Slide[k[2]] = 0
        /\ Slide[k[2]] \in Nat \ {0}
    BY <2>1, AlignedShape, ConstantsOK DEF Aligned
  <2>3. /\ cursor'[k[2]] \in Int /\ cursor'[k[2]] > w
        /\ cursor'[k[2]] % Slide[k[2]] = 0
    BY <2>2, CursorStep
  <2>4. k[3] < cursor'[k[2]]
    BY <2>1, <2>2, <2>3
  <2> QED
    BY <2>1, <2>2, <2>3, <2>4, SlideApart
<1> QED
  BY <1>1, <1>2

(* The records that are emitted, and the counters.                          *)
LEMMA EmittedRecords ==
  ASSUME TypeOK, Emit, NEW w \in Int, w = Watermark(maxTs, lastEvent)
  PROVE  /\ \A y \in emitted' : y \in emitted \/ FromPanes(y, w)
         /\ \A k \in Fired(w) \cup dirty : \E y \in emitted' :
              FromPanes(y, w) /\ y.key = k
         /\ \A k \in DOMAIN seq' : SeqOf(k) <= seq'[k]
         /\ \A k \in DOMAIN seq \cup Fired(w) \cup dirty :
              k \in DOMAIN seq' \/ ~(k[3] >= w - Size[k[2]] - Lateness)
<1> DEFINE Again(k) == IF k \in Fired(w) THEN 1 ELSE 0
           Kept == {x \in DOMAIN seq \cup Fired(w) \cup dirty :
                      x[3] >= w - Size[x[2]] - Lateness}
           NextSeq(k) == SeqOf(k) + Again(k) + (IF k \in dirty THEN 1 ELSE 0)
<1>1. /\ emitted' = emitted \cup {EmissionOf(k, SeqOf(k)) : k \in Fired(w)}
                      \cup {EmissionOf(k, SeqOf(k) + Again(k)) : k \in dirty}
      /\ seq' = [k \in Kept |-> NextSeq(k)]
  BY DEF Emit
<1>2. ASSUME NEW k, NEW n \in Nat, k \in Fired(w) \cup dirty, SeqOf(k) <= n,
             n < NextSeq(k)
      PROVE  FromPanes(EmissionOf(k, n), w) /\ EmissionOf(k, n).key = k
  <2>1. k \in DOMAIN seq' => n < seq'[k]
    BY <1>1, <1>2
  <2> QED
    BY <1>2, <2>1 DEF FromPanes, EmissionOf
<1>3. ASSUME NEW k \in Fired(w)
      PROVE  /\ FromPanes(EmissionOf(k, SeqOf(k)), w)
             /\ EmissionOf(k, SeqOf(k)).key = k
  <2>1. SeqOf(k) \in Nat
    BY SeqType
  <2>2. SeqOf(k) < NextSeq(k)
    BY <2>1
  <2> QED
    BY <1>2, <2>1, <2>2
<1>4. ASSUME NEW k \in dirty
      PROVE  /\ FromPanes(EmissionOf(k, SeqOf(k) + Again(k)), w)
             /\ EmissionOf(k, SeqOf(k) + Again(k)).key = k
  <2>1. SeqOf(k) \in Nat
    BY SeqType
  <2>2. /\ SeqOf(k) + Again(k) \in Nat /\ SeqOf(k) <= SeqOf(k) + Again(k)
        /\ SeqOf(k) + Again(k) < NextSeq(k)
    BY <2>1
  <2> QED
    BY <1>2, <2>2
<1>5. \A k \in DOMAIN seq' : SeqOf(k) <= seq'[k]
  <2> SUFFICES ASSUME NEW k \in Kept PROVE SeqOf(k) <= NextSeq(k)
    BY <1>1
  <2>1. SeqOf(k) \in Nat
    BY SeqType
  <2> QED
    BY <2>1
<1>6. DOMAIN seq' = Kept
  BY <1>1
<1> HIDE DEF Again, NextSeq
<1> QED
  BY <1>1, <1>3, <1>4, <1>5, <1>6

(* A window keeps its counter and its panes unless it is closed then.       *)
LEMMA EmitKeeps ==
  ASSUME TypeOK, Emit, NEW w \in Int, w = Watermark(maxTs, lastEvent),
         NEW k, Aligned(k)
  PROVE  /\ Closed(k) => Closed(k)'
         /\ k \in DOMAIN seq \cup Fired(w) \cup dirty =>
              Closed(k)' \/ k \in DOMAIN seq'
         /\ Closed(k)' \/ \A e \in Event : Contents(k)'[e] = Contents(k)[e]
<1>1. /\ k[2] \in Resolution /\ k[3] \in Int /\ Slide[k[2]] \in Nat \ {0}
      /\ Lateness \in Nat /\ Size[k[2]] \in Nat /\ Slide[k[2]] <= Size[k[2]]
  BY AlignedShape, ConstantsOK
<1>2. /\ cursor'[k[2]] \in Int /\ cursor'[k[2]] > w /\ cursor'[k[2]] # None
      /\ cursor[k[2]] # None => cursor[k[2]] \in Int /\ cursor[k[2]] <= cursor'[k[2]]
  BY <1>1, CursorStep
<1>3. Closed(k) => Closed(k)'
  BY <1>1, <1>2 DEF Closed
<1>4. ASSUME k[3] + Slide[k[2]] + Lateness <= w
      PROVE  Closed(k)'
  BY <1>1, <1>2, <1>4 DEF Closed
<1>5. ASSUME k \in DOMAIN seq \cup Fired(w) \cup dirty, k \notin DOMAIN seq'
      PROVE  Closed(k)'
  <2>1. ~(k[3] >= w - Size[k[2]] - Lateness)
    BY <1>5, EmittedRecords
  <2> QED
    BY <1>1, <1>4, <2>1
<1>6. ASSUME NEW e \in Event, Contents(k)'[e] # Contents(k)[e]
      PROVE  Closed(k)'
  <2>1. panes'[k[2]][e] = IF Pane(k[2], e) < PaneCutoff(k[2], w)
                            THEN 0 ELSE panes[k[2]][e]
    BY <1>1 DEF Emit
  <2>2. InWindow(e, k) /\ panes'[k[2]][e] # panes[k[2]][e]
    BY <1>6 DEF Contents, InWindow, Pane
  <2>3. Pane(k[2], e) < PaneCutoff(k[2], w)
    BY <2>1, <2>2
  <2> QED
    BY <1>4, <2>2, <2>3, CollectedPane
<1> QED
  BY <1>3, <1>5, <1>6

-----------------------------------------------------------------------------
LEMMA EmissionShape ==
  ASSUME TypeOK, NEW x \in emitted
  PROVE  /\ x.key \in Key /\ x.seq \in Nat /\ x.of \in [Event -> Nat] /\ x.life \in Nat
         /\ x.key[1] \in User /\ PartitionOf[x.key[1]] \in Partition
         /\ x.key[2] \in Resolution
<1>1. x \in Emission
  BY DEF TypeOK
<1> QED
  BY <1>1, ConstantsOK DEF Emission, Key

LEMMA PassedStep == TypeOK /\ IterationInv /\ PassedInv /\ [Next]_vars => PassedInv'
<1> SUFFICES ASSUME TypeOK, IterationInv, PassedInv, [Next]_vars PROVE PassedInv'
  OBVIOUS
<1>1. CASE UNCHANGED <<emitted, life, cursor>>
  BY <1>1 DEF PassedInv
<1>2. CASE Emit
  <2>1. PICK w \in Int : w = Watermark(maxTs, lastEvent)
    BY <1>2, EmitWatermark
  <2> SUFFICES ASSUME NEW x \in emitted'
               PROVE  /\ Aligned(x.key)
                      /\ x.life <= life[PartitionOf[x.key[1]]]
                      /\ cursor'[x.key[2]] # None
                      /\ x.key[3] + Slide[x.key[2]] <= cursor'[x.key[2]]
    BY <1>2 DEF PassedInv, Emit, Aligned
  <2>2. CASE x \in emitted
    <3>1. /\ Aligned(x.key) /\ x.life <= life[PartitionOf[x.key[1]]]
          /\ cursor[x.key[2]] # None
          /\ x.key[3] + Slide[x.key[2]] <= cursor[x.key[2]]
      BY <2>2 DEF PassedInv
    <3>2. /\ x.key[2] \in Resolution /\ x.key[3] \in Int
          /\ Slide[x.key[2]] \in Nat \ {0}
      BY <3>1, AlignedShape, ConstantsOK
    <3>3. /\ cursor'[x.key[2]] \in Int /\ cursor'[x.key[2]] # None
          /\ cursor[x.key[2]] \in Int /\ cursor[x.key[2]] <= cursor'[x.key[2]]
      BY <1>2, <2>1, <3>1, <3>2, CursorStep
    <3> QED
      BY <3>1, <3>2, <3>3
  <2>3. CASE FromPanes(x, w)
    <3>1. Aligned(x.key) /\ x.key[3] + Slide[x.key[2]] <= cursor'[x.key[2]]
      BY <1>2, <2>1, <2>3, FiredPassed DEF FromPanes
    <3>2. x.key[2] \in Resolution /\ x.key[1] \in User
      BY <3>1, AlignedShape
    <3>3. cursor'[x.key[2]] # None
      BY <1>2, <2>1, <3>2, CursorStep
    <3>4. x.life = life[PartitionOf[x.key[1]]] /\ x.life \in Nat
      BY <2>3, <3>2, ConstantsOK DEF FromPanes, TypeOK
    <3> QED
      BY <3>1, <3>3, <3>4
  <2> QED
    BY <1>2, <2>1, <2>2, <2>3, EmittedRecords
<1>3. ASSUME NEW p \in Partition, Drop(p) PROVE PassedInv'
  <2>1. /\ UNCHANGED <<emitted, cursor>>
        /\ \A q \in Partition : life[q] \in Nat /\ life[q] <= life'[q]
        /\ life' \in [Partition -> Nat]
    BY <1>3 DEF Drop, TypeOK
  <2>2. ASSUME NEW x \in emitted
        PROVE  x.life <= life'[PartitionOf[x.key[1]]]
    <3>1. x.life \in Nat /\ PartitionOf[x.key[1]] \in Partition
      BY EmissionShape
    <3>2. x.life <= life[PartitionOf[x.key[1]]]
      BY DEF PassedInv
    <3>3. /\ life[PartitionOf[x.key[1]]] <= life'[PartitionOf[x.key[1]]]
          /\ life[PartitionOf[x.key[1]]] \in Nat
          /\ life'[PartitionOf[x.key[1]]] \in Nat
      BY <2>1, <3>1
    <3> QED
      BY <3>1, <3>2, <3>3
  <2> QED
    BY <2>1, <2>2 DEF PassedInv, Aligned
<1> QED
  BY <1>1, <1>2, <1>3 DEF Next, Add, SendLate, Tick, vars, manager, history

LEMMA IterationStep == TypeOK /\ IterationInv /\ [Next]_vars => IterationInv'
<1> SUFFICES ASSUME TypeOK, IterationInv, [Next]_vars PROVE IterationInv'
  OBVIOUS
<1>0. folds \in Nat
  BY DEF TypeOK
<1>1. ASSUME NEW e \in Event, Read(e), UNCHANGED now,
             dirty' = dirty \/ dirty' = dirty \cup Refires(e)
      PROVE  IterationInv'
  <2>1. maxTs' = Top(e) /\ lastEvent' = now /\ now' = now /\ folds' = folds + 1
    BY <1>1 DEF Read, Observe
  <2>2. Top(e) \in Nat /\ now \in Nat
    BY TopType DEF TypeOK
  <2>3. Top(e) # None
    BY <2>2, ConstantsOK
  <2>4. Watermark(Top(e), now) \in Int
    BY <2>2, WatermarkType
  <2>5. Watermark(maxTs, lastEvent)' = Watermark(Top(e), now)
    BY <2>1 DEF Watermark
  <2>6. ASSUME NEW k \in dirty
        PROVE  Aligned(k) /\ k[3] <= Watermark(Top(e), now)
    <3>1. folds > 0
      BY <1>0, <2>6 DEF IterationInv
    <3>2. maxTs # None /\ lastEvent = now
      BY <3>1 DEF IterationInv
    <3>3. Aligned(k) /\ k[3] <= Watermark(maxTs, lastEvent) /\ k[3] \in Int
      BY AlignedShape DEF IterationInv
    <3>4. Watermark(maxTs, lastEvent) <= Watermark(Top(e), now)
      BY <3>2, WatermarkRises
    <3>5. Watermark(maxTs, lastEvent) \in Int
      BY <3>2, WatermarkType DEF TypeOK
    <3> QED
      BY <2>4, <3>3, <3>4, <3>5
  <2>7. \A k \in dirty' : Aligned(k)' /\ k[3] <= Watermark(maxTs, lastEvent)'
    BY <1>1, <2>5, <2>6, RefiresAligned DEF Aligned
  <2>8. folds' > 0
    BY <1>0, <2>1
  <2> QED
    BY <2>1, <2>3, <2>7, <2>8 DEF IterationInv
<1>2. ASSUME NEW e \in Event, Add(e) \/ SendLate(e) PROVE IterationInv'
  BY <1>1, <1>2 DEF Add, SendLate, manager
<1>3. CASE Emit
  BY <1>3 DEF Emit, IterationInv
<1>4. CASE Tick
  BY <1>4 DEF Tick, IterationInv, manager
<1>5. ASSUME NEW p \in Partition, Drop(p) PROVE IterationInv'
  BY <1>5 DEF Drop, IterationInv
<1>6. CASE UNCHANGED vars
  <2>1. UNCHANGED <<folds, dirty, maxTs, lastEvent, now>>
    BY <1>6 DEF vars, tracker, manager
  <2> QED
    BY <2>1 DEF IterationInv, Watermark, Aligned
<1> QED
  BY <1>2, <1>3, <1>4, <1>5, <1>6 DEF Next
-----------------------------------------------------------------------------
(* Reading an event while the watermark has not slipped: it belongs to no   *)
(* closed window, and fires again all that have passed.                     *)
LEMMA ReadOpen ==
  ASSUME TypeOK, NEW e \in Event, Read(e), ~slipped', ~VeryLate(e),
         NEW k, Aligned(k), InWindow(e, k)
  PROVE  /\ ~Closed(k)
         /\ cursor[k[2]] # None /\ k[3] + Slide[k[2]] <= cursor[k[2]] => k \in Refires(e)
<1>1. /\ k[2] \in Resolution /\ k[3] \in Int /\ Slide[k[2]] \in Nat \ {0}
      /\ Lateness \in Nat /\ TsOf[e] \in Nat /\ k = <<k[1], k[2], k[3]>>
  BY AlignedShape, ConstantsOK
<1>2. PICK w \in Int : w = Watermark(Top(e), now)
  BY TopType, WatermarkType DEF TypeOK
<1>3. TsOf[e] < k[3] /\ k[1] = UserOf[e] /\ k[3] \in Ends(k[2], e)
  BY WindowOfEvent
<1>4. TsOf[e] >= w - Lateness
  BY <1>1, <1>2 DEF VeryLate
<1>5. cursor[k[2]] # None => cursor[k[2]] \in Int /\ w >= cursor[k[2]] - Slide[k[2]]
  <2>1. cursor[k[2]] # None => ~(w < cursor[k[2]] - Slide[k[2]])
    BY <1>1, <1>2 DEF Read
  <2>2. cursor[k[2]] \in Int \cup {None}
    BY <1>1 DEF TypeOK
  <2> QED
    BY <1>1, <2>1, <2>2
<1>6. ~Closed(k)
  BY <1>1, <1>3, <1>4, <1>5 DEF Closed
<1>7. ASSUME cursor[k[2]] # None, k[3] + Slide[k[2]] <= cursor[k[2]]
      PROVE  k \in Refires(e)
  <2>1. k[3] <= w
    BY <1>1, <1>5, <1>7
  <2> QED
    BY <1>1, <1>2, <1>3, <2>1 DEF Refires
<1> QED
  BY <1>6, <1>7

LEMMA AddShape ==
  ASSUME TypeOK, NEW e \in Event, Add(e)
  PROVE  /\ \A r \in Resolution, f \in Event :
              /\ panes'[r][f] = IF f = e THEN panes[r][e] + 1 ELSE panes[r][f]
              /\ panes[r][f] \in Nat
         /\ \A k \in Key, f \in Event : Contents(k)[f] <= Contents(k)'[f]
<1>1. \A r \in Resolution, f \in Event :
        /\ panes'[r][f] = IF f = e THEN panes[r][e] + 1 ELSE panes[r][f]
        /\ panes[r][f] \in Nat
  BY DEF Add, TypeOK
<1>2. ASSUME NEW k \in Key, NEW f \in Event
      PROVE  Contents(k)[f] <= Contents(k)'[f]
  <2>1. k[2] \in Resolution
    BY DEF Key
  <2>2. /\ Contents(k)[f] = IF InWindow(f, k) THEN panes[k[2]][f] ELSE 0
        /\ Contents(k)'[f] = IF InWindow(f, k) THEN panes'[k[2]][f] ELSE 0
    BY DEF Contents, InWindow, Pane
  <2> QED
    BY <1>1, <2>1, <2>2
<1> QED
  BY <1>1, <1>2

(* Who is current after a revocation is of another partition.               *)
LEMMA DropShape ==
  ASSUME TypeOK, PassedInv, NEW p \in Partition, Drop(p), NEW x \in emitted, Current(x)'
  PROVE  /\ Current(x)
         /\ x.key \in DOMAIN seq => x.key \in DOMAIN seq' /\ seq'[x.key] = seq[x.key]
         /\ x.key \in dirty => x.key \in dirty'
         /\ \A e \in Event : InWindow(e, x.key) => panes'[x.key[2]][e] = panes[x.key[2]][e]
<1> DEFINE q == PartitionOf[x.key[1]]
<1>1. /\ q \in Partition /\ x.life \in Nat /\ x.key[2] \in Resolution
  BY EmissionShape
<1>2. x.life = life'[q] /\ x.life <= life[q] /\ life[q] \in Nat
  BY <1>1 DEF Current, PassedInv, TypeOK
<1>3. life' = [life EXCEPT ![p] = @ + 1]
  BY DEF Drop
<1>4. q # p
  <2>1. q = p => life'[q] = life[q] + 1
    BY <1>1, <1>3 DEF TypeOK
  <2> QED
    BY <1>1, <1>2, <2>1
<1>5. x.life = life[q]
  BY <1>1, <1>2, <1>3, <1>4 DEF TypeOK
<1>6. \A e \in Event : InWindow(e, x.key) => panes'[x.key[2]][e] = panes[x.key[2]][e]
  BY <1>1, <1>4 DEF Drop, InWindow
<1> QED
  BY <1>4, <1>5, <1>6 DEF Current, Drop

LEMMA OpenStep ==
  TypeOK /\ IterationInv /\ PassedInv /\ OpenInv /\ [Next]_vars => OpenInv'
<1> SUFFICES ASSUME TypeOK, IterationInv, PassedInv, OpenInv, [Next]_vars, ~slipped'
             PROVE  /\ \A k \in dirty' : ~Closed(k)'
                    /\ \A x \in emitted' : Current(x)' => Closed(x.key)' \/ Counted(x)'
  BY DEF OpenInv
<1> DEFINE Goal == /\ \A k \in dirty' : ~Closed(k)'
                   /\ \A x \in emitted' : Current(x)' => Closed(x.key)' \/ Counted(x)'
<1>0. ~slipped
  BY DEF Next, Add, SendLate, Read, Emit, Tick, Drop, vars, history
<1>00. /\ \A k \in dirty : ~Closed(k)
       /\ \A x \in emitted : Current(x) => Closed(x.key) \/ Counted(x)
  BY <1>0 DEF OpenInv
<1>1. ASSUME NEW e \in Event, Add(e) PROVE Goal
  <2>1. Read(e) /\ ~VeryLate(e) /\ UNCHANGED <<cursor, seq, emitted, life>>
        /\ dirty' = dirty \cup Refires(e)
    BY <1>1 DEF Add
  <2>2. ASSUME NEW k \in dirty' PROVE ~Closed(k)'
    <3>1. Closed(k)' <=> Closed(k)
      BY <2>1 DEF Closed
    <3>2. k \in Refires(e) => ~Closed(k)
      BY <2>1, RefiresAligned, RefiresType, ReadOpen
    <3> QED
      BY <1>00, <2>1, <2>2, <3>1, <3>2
  <2>3. ASSUME NEW x \in emitted, Current(x) PROVE Closed(x.key)' \/ Counted(x)'
    <3>1. Closed(x.key)' <=> Closed(x.key)
      BY <2>1 DEF Closed
    <3>2. ASSUME Counted(x) PROVE Counted(x)'
      <4>1. x.key \in Key /\ x.of \in [Event -> Nat]
        BY EmissionShape
      <4>2. \A f \in Event : x.of[f] <= Contents(x.key)'[f]
        <5> SUFFICES ASSUME NEW f \in Event PROVE x.of[f] <= Contents(x.key)'[f]
          OBVIOUS
        <5>1. x.of[f] <= Contents(x.key)[f] /\ x.of[f] \in Nat
          BY <3>2, <4>1 DEF Counted
        <5>2. Contents(x.key)[f] \in Nat
          BY <4>1, ContentsType DEF TypeOK
        <5>3. Contents(x.key)'[f] \in Nat
          <6>1. x.key[2] \in Resolution
            BY EmissionShape
          <6>2. panes'[x.key[2]][f] \in Nat
            BY <1>1, <6>1, AddShape
          <6> QED
            BY <6>2 DEF Contents
        <5>4. Contents(x.key)[f] <= Contents(x.key)'[f]
          BY <1>1, <4>1, AddShape
        <5> QED
          BY <5>1, <5>2, <5>3, <5>4
      <4> QED
        BY <2>1, <3>2, <4>2 DEF Counted
    <3> QED
      BY <1>00, <2>3, <3>1, <3>2
  <2>4. \A x \in emitted' : Current(x)' => Current(x) /\ x \in emitted
    BY <2>1 DEF Current
  <2> QED
    BY <2>2, <2>3, <2>4
<1>2. ASSUME UNCHANGED <<cursor, seq, emitted, life, dirty, panes>> PROVE Goal
  <2>1. \A k : Closed(k)' <=> Closed(k)
    BY <1>2 DEF Closed
  <2>2. \A x \in emitted : (Current(x)' <=> Current(x)) /\ (Counted(x)' <=> Counted(x))
    BY <1>2 DEF Current, Counted, Contents, InWindow, Pane
  <2> QED
    BY <1>00, <1>2, <2>1, <2>2
<1>3. ASSUME Emit PROVE Goal
  <2>1. PICK w \in Int : w = Watermark(maxTs, lastEvent)
    BY <1>3, EmitWatermark
  <2>2. ASSUME NEW x \in emitted', Current(x)' PROVE Closed(x.key)' \/ Counted(x)'
    <3>1. CASE x \in emitted
      <4>1. Current(x) /\ Aligned(x.key)
        BY <1>3, <2>2, <3>1 DEF Current, Emit, PassedInv
      <4>2. CASE Closed(x.key)
        BY <1>3, <2>1, <4>1, <4>2, EmitKeeps
      <4>3. CASE Counted(x)
        <5>1. x.key \in DOMAIN seq /\ x.seq < seq[x.key] /\ SeqOf(x.key) = seq[x.key]
          BY <4>3 DEF Counted, SeqOf
        <5>2. Closed(x.key)' \/ x.key \in DOMAIN seq'
          BY <1>3, <2>1, <4>1, <5>1, EmitKeeps
        <5>3. Closed(x.key)' \/ \A e \in Event : Contents(x.key)'[e] = Contents(x.key)[e]
          BY <1>3, <2>1, <4>1, EmitKeeps
        <5>4. x.key \in DOMAIN seq' => x.seq < seq'[x.key]
          <6>1. x.seq \in Nat /\ seq[x.key] \in Nat
            BY <3>1, <5>1, EmissionShape DEF TypeOK
          <6>2. x.key \in DOMAIN seq' => seq[x.key] <= seq'[x.key] /\ seq'[x.key] \in Nat
            BY <1>3, <2>1, <5>1, EmittedRecords, TypeEmit DEF TypeOK
          <6> QED
            BY <5>1, <6>1, <6>2
        <5> QED
          BY <4>3, <5>2, <5>3, <5>4 DEF Counted
      <4> QED
        BY <1>00, <3>1, <4>1, <4>2, <4>3
    <3>2. CASE FromPanes(x, w)
      <4>1. x.key \in Fired(w) \cup dirty /\ Aligned(x.key)
        BY <1>3, <2>1, <3>2, FiredPassed DEF FromPanes
      <4>2. Closed(x.key)' \/ x.key \in DOMAIN seq'
        BY <1>3, <2>1, <4>1, EmitKeeps
      <4>3. Closed(x.key)' \/ \A e \in Event : Contents(x.key)'[e] = x.of[e]
        BY <1>3, <2>1, <3>2, <4>1, EmitKeeps DEF FromPanes
      <4>4. x.of \in [Event -> Nat]
        BY <3>2, <4>1, ContentsType DEF FromPanes, Aligned, TypeOK
      <4>5. x.key \in DOMAIN seq' => x.seq < seq'[x.key]
        BY <3>2 DEF FromPanes
      <4>6. ASSUME ~Closed(x.key)' PROVE \A e \in Event : x.of[e] <= Contents(x.key)'[e]
        BY <4>3, <4>4, <4>6
      <4> QED
        BY <4>2, <4>5, <4>6 DEF Counted
    <3> QED
      BY <1>3, <2>1, <3>1, <3>2, EmittedRecords
  <2>3. dirty' = {}
    BY <1>3 DEF Emit
  <2> QED
    BY <2>2, <2>3
<1>4. ASSUME NEW p \in Partition, Drop(p) PROVE Goal
  <2>1. /\ UNCHANGED <<cursor, emitted>> /\ dirty' \subseteq dirty
    BY <1>4 DEF Drop
  <2>2. \A k : Closed(k)' <=> Closed(k)
    BY <2>1 DEF Closed
  <2>3. ASSUME NEW x \in emitted, Current(x)' PROVE Closed(x.key) \/ Counted(x)'
    <3>1. /\ Current(x)
          /\ x.key \in DOMAIN seq => x.key \in DOMAIN seq' /\ seq'[x.key] = seq[x.key]
          /\ \A e \in Event : InWindow(e, x.key) => panes'[x.key[2]][e] = panes[x.key[2]][e]
      BY <1>4, <2>3, DropShape
    <3>2. \A e \in Event : Contents(x.key)'[e] = Contents(x.key)[e]
      BY <3>1 DEF Contents, InWindow, Pane
    <3> QED
      BY <1>00, <3>1, <3>2 DEF Counted
  <2> QED
    BY <1>00, <2>1, <2>2, <2>3
<1>5. ASSUME NEW e \in Event, SendLate(e) PROVE Goal
  BY <1>2, <1>5 DEF SendLate, manager
<1>6. ASSUME Tick \/ UNCHANGED vars PROVE Goal
  BY <1>2, <1>6 DEF Tick, vars, manager, history
<1> HIDE DEF Goal
<1>7. Goal
  BY <1>1, <1>3, <1>4, <1>5, <1>6 DEF Next
<1> QED
  BY <1>7 DEF Goal

WindowsInv == TypeOK /\ IterationInv /\ PassedInv /\ OpenInv

LEMMA WindowsInvariant == Spec => []WindowsInv
<1>1. Init => IterationInv /\ PassedInv /\ OpenInv
  BY DEF Init, IterationInv, PassedInv, OpenInv
<1>2. Spec => []TypeOK
  BY TypeCorrect
<1>3. Spec => []IterationInv
  BY <1>1, <1>2, IterationStep, PTL DEF Spec
<1>4. Spec => []PassedInv
  BY <1>1, <1>2, <1>3, PassedStep, PTL DEF Spec
<1>5. Spec => []OpenInv
  BY <1>1, <1>2, <1>3, <1>4, OpenStep, PTL DEF Spec
<1>6. TypeOK /\ IterationInv /\ PassedInv /\ OpenInv => WindowsInv
  BY DEF WindowsInv
<1> QED
  BY <1>2, <1>3, <1>4, <1>5, <1>6, PTL
-----------------------------------------------------------------------------
(* What was emitted of a window that fires or fires again came before, and  *)
(* contained no more than its panes do.                                     *)
LEMMA EmittedBefore ==
  ASSUME WindowsInv, ~slipped, Emit, NEW w \in Int, w = Watermark(maxTs, lastEvent),
         NEW x \in emitted, Current(x), x.key \in Fired(w) \cup dirty
  PROVE  /\ x.seq \in Nat /\ SeqOf(x.key) \in Nat /\ x.seq < SeqOf(x.key)
         /\ \A e \in Event : x.of[e] <= Contents(x.key)[e]
<1>1. ~Closed(x.key)
  BY FiredPassed DEF WindowsInv, OpenInv
<1>2. Counted(x)
  BY <1>1 DEF WindowsInv, OpenInv
<1> QED
  BY <1>2, EmissionShape, SeqType DEF WindowsInv, Counted, SeqOf

Ordered(x, y) ==
  x.key = y.key /\ x.life = y.life /\ x.seq <= y.seq =>
    \A e \in Event : x.of[e] <= y.of[e]

LEMMA OrderStep ==
  WindowsInv /\ SeqOrdersContents /\ [Next]_vars => SeqOrdersContents'
<1> SUFFICES ASSUME WindowsInv, SeqOrdersContents, [Next]_vars, ~slipped'
             PROVE  \A x, y \in emitted' : Ordered(x, y)
  BY DEF SeqOrdersContents, Ordered
<1>0. ~slipped
  BY DEF Next, Add, SendLate, Read, Emit, Tick, Drop, vars, history
<1>1. \A x, y \in emitted : Ordered(x, y)
  BY <1>0 DEF SeqOrdersContents, Ordered
<1>2. CASE UNCHANGED emitted
  BY <1>1, <1>2
<1>3. CASE Emit
  <2>1. PICK w \in Int : w = Watermark(maxTs, lastEvent)
    BY <1>3, EmitWatermark DEF WindowsInv
  <2> SUFFICES ASSUME NEW x \in emitted', NEW y \in emitted'
               PROVE  Ordered(x, y)
    OBVIOUS
  <2>2. /\ x \in emitted \/ FromPanes(x, w)
        /\ y \in emitted \/ FromPanes(y, w)
    BY <1>3, <2>1, EmittedRecords DEF WindowsInv
  <2>3. ASSUME NEW k \in Fired(w) \cup dirty
        PROVE  Contents(k) \in [Event -> Nat]
    <3>1. k \in Key
      BY FiredType DEF WindowsInv, TypeOK
    <3> QED
      BY <3>1, ContentsType DEF WindowsInv, TypeOK
  <2>4. ASSUME NEW a \in emitted, NEW b, FromPanes(b, w), a.key = b.key, a.life = b.life
        PROVE  a.seq \in Nat /\ b.seq \in Nat /\ a.seq < b.seq /\ Ordered(a, b)
    <3>1. Current(a) /\ a.key \in Fired(w) \cup dirty
      BY <2>4 DEF FromPanes, Current
    <3>2. /\ a.seq \in Nat /\ SeqOf(a.key) \in Nat /\ a.seq < SeqOf(a.key)
          /\ \A e \in Event : a.of[e] <= Contents(a.key)[e]
      BY <1>0, <1>3, <2>1, <3>1, EmittedBefore
    <3> QED
      BY <2>4, <3>2 DEF FromPanes, Ordered
  <2>5. CASE x \in emitted /\ y \in emitted
    BY <1>1, <2>5
  <2>6. CASE x \in emitted /\ FromPanes(y, w)
    BY <2>4, <2>6 DEF Ordered
  <2>7. CASE FromPanes(x, w) /\ y \in emitted
    <3>1. x.key = y.key /\ x.life = y.life => ~(x.seq <= y.seq)
      BY <2>4, <2>7
    <3> QED
      BY <3>1 DEF Ordered
  <2>8. CASE FromPanes(x, w) /\ FromPanes(y, w)
    <3>1. x.key = y.key => x.of = y.of /\ x.of \in [Event -> Nat]
      BY <2>3, <2>8 DEF FromPanes
    <3> QED
      BY <3>1 DEF Ordered
  <2> QED
    BY <2>2, <2>5, <2>6, <2>7, <2>8
<1> QED
  BY <1>2, <1>3 DEF Next, Add, SendLate, Tick, Drop, vars, history

(* SeqOrdersContents: of two emissions of a window, the one with the larger *)
(* emission_seq contains at least what the other does, and an equal         *)
(* (user, window, resolution, seq) means an equal record, although counters *)
(* and panes are garbage-collected, as long as the watermark has not fallen *)
(* behind a fired window.                                                   *)
THEOREM SeqOrders == Spec => []SeqOrdersContents
<1>1. Init => SeqOrdersContents
  BY DEF Init, SeqOrdersContents
<1> QED
  BY <1>1, WindowsInvariant, OrderStep, PTL DEF Spec

-----------------------------------------------------------------------------
Fresh(x) == x.key \in dirty \/ UpToDate(x) \/ \E y \in emitted : Later(x, y)

LEMMA FreshStep == WindowsInv /\ EmittedFresh /\ [Next]_vars => EmittedFresh'
<1> SUFFICES ASSUME WindowsInv, EmittedFresh, [Next]_vars, ~slipped'
             PROVE  \A x \in emitted' : Current(x)' => Fresh(x)'
  BY DEF EmittedFresh, LateEventsRefire, Fresh
<1> DEFINE Goal == \A x \in emitted' : Current(x)' => Fresh(x)'
<1>0. ~slipped
  BY DEF Next, Add, SendLate, Read, Emit, Tick, Drop, vars, history
<1>00. \A x \in emitted : Current(x) => Fresh(x)
  BY <1>0 DEF EmittedFresh, LateEventsRefire, Fresh
<1>1. ASSUME NEW e \in Event, Add(e) PROVE Goal
  <2>1. Read(e) /\ ~VeryLate(e) /\ UNCHANGED <<cursor, emitted, life>>
        /\ dirty' = dirty \cup Refires(e)
    BY <1>1 DEF Add
  <2> SUFFICES ASSUME NEW x \in emitted, Current(x) PROVE Fresh(x)'
    BY <2>1 DEF Current
  <2>2. CASE x.key \in dirty \/ \E y \in emitted : Later(x, y)
    BY <2>1, <2>2 DEF Fresh, Later
  <2>3. CASE UpToDate(x)
    <3>1. /\ Aligned(x.key) /\ cursor[x.key[2]] # None
          /\ x.key[3] + Slide[x.key[2]] <= cursor[x.key[2]]
      BY DEF WindowsInv, PassedInv
    <3>2. CASE InWindow(e, x.key)
      <4>1. x.key \in Refires(e)
        BY <2>1, <3>1, <3>2, ReadOpen DEF WindowsInv
      <4> QED
        BY <2>1, <4>1 DEF Fresh
    <3>3. CASE ~InWindow(e, x.key)
      <4>1. x.key[2] \in Resolution
        BY EmissionShape DEF WindowsInv
      <4>2. \A f \in Event : f # e => panes'[x.key[2]][f] = panes[x.key[2]][f]
        BY <1>1, <4>1, AddShape DEF WindowsInv
      <4>3. ASSUME NEW f \in Event, InWindow(f, x.key), panes'[x.key[2]][f] > 0
            PROVE  x.of[f] = panes'[x.key[2]][f]
        <5>1. panes'[x.key[2]][f] = panes[x.key[2]][f]
          BY <3>3, <4>2, <4>3
        <5> QED
          BY <2>3, <4>3, <5>1 DEF UpToDate
      <4>4. UpToDate(x)'
        BY <4>3 DEF UpToDate, InWindow, Pane
      <4> QED
        BY <4>4 DEF Fresh
    <3> QED
      BY <3>2, <3>3
  <2> QED
    BY <1>00, <2>2, <2>3 DEF Fresh
<1>2. ASSUME UNCHANGED <<emitted, life, dirty, panes>> PROVE Goal
  <2>1. \A x \in emitted : (Current(x)' <=> Current(x)) /\ (UpToDate(x)' <=> UpToDate(x))
    BY <1>2 DEF Current, UpToDate, InWindow, Pane
  <2>2. \A x \in emitted : Fresh(x) => Fresh(x)'
    BY <1>2, <2>1 DEF Fresh, Later
  <2> QED
    BY <1>00, <1>2, <2>1, <2>2
<1>3. ASSUME Emit PROVE Goal
  <2>1. PICK w \in Int : w = Watermark(maxTs, lastEvent)
    BY <1>3, EmitWatermark DEF WindowsInv
  <2>2. ASSUME NEW x \in emitted', Current(x)' PROVE Fresh(x)'
    <3>1. /\ x.key[2] \in Resolution => \A e \in Event :
               panes'[x.key[2]][e] = 0 \/ panes'[x.key[2]][e] = panes[x.key[2]][e]
          /\ Current(x) /\ life' = life /\ emitted \subseteq emitted'
      BY <1>3, <2>2 DEF Emit, Current
    <3>2. CASE x \in emitted
      <4>1. CASE x.key \in dirty
        <5>1. PICK y \in emitted' : FromPanes(y, w) /\ y.key = x.key
          BY <1>3, <2>1, <4>1, EmittedRecords DEF WindowsInv
        <5>2. y.life = x.life /\ SeqOf(x.key) <= y.seq /\ y.seq \in Nat
          BY <3>1, <5>1 DEF FromPanes, Current
        <5>3. x.seq \in Nat /\ SeqOf(x.key) \in Nat /\ x.seq < SeqOf(x.key)
          BY <1>0, <1>3, <2>1, <3>1, <3>2, <4>1, EmittedBefore
        <5>4. Later(x, y)'
          BY <5>1, <5>2, <5>3 DEF Later
        <5> QED
          BY <5>4 DEF Fresh
      <4>2. CASE UpToDate(x)
        <5>1. x.key[2] \in Resolution
          BY <3>2, EmissionShape DEF WindowsInv
        <5>2. UpToDate(x)'
          BY <3>1, <4>2, <5>1 DEF UpToDate, InWindow, Pane
        <5> QED
          BY <5>2 DEF Fresh
      <4>3. CASE \E y \in emitted : Later(x, y)
        BY <3>1, <4>3 DEF Fresh, Later
      <4> QED
        BY <1>00, <3>1, <3>2, <4>1, <4>2, <4>3 DEF Fresh
    <3>3. CASE FromPanes(x, w)
      <4>1. x.key \in Key
        BY <1>3, <2>1, <3>3, FiredPassed DEF WindowsInv, FromPanes, Aligned
      <4>2. x.key[2] \in Resolution /\ x.of = Contents(x.key)
        BY <3>3, <4>1 DEF Key, FromPanes
      <4>3. ASSUME NEW e \in Event, InWindow(e, x.key), panes'[x.key[2]][e] > 0
            PROVE  x.of[e] = panes'[x.key[2]][e]
        <5>1. x.of[e] = panes[x.key[2]][e]
          BY <4>2, <4>3 DEF Contents
        <5> QED
          BY <3>1, <4>2, <4>3, <5>1
      <4>4. UpToDate(x)'
        BY <4>3 DEF UpToDate, InWindow, Pane
      <4> QED
        BY <4>4 DEF Fresh
    <3> QED
      BY <1>3, <2>1, <3>2, <3>3, EmittedRecords DEF WindowsInv
  <2> QED
    BY <2>2
<1>4. ASSUME NEW p \in Partition, Drop(p) PROVE Goal
  <2>1. emitted' = emitted
    BY <1>4 DEF Drop
  <2> SUFFICES ASSUME NEW x \in emitted, Current(x)' PROVE Fresh(x)'
    BY <2>1
  <2>2. /\ Current(x) /\ (x.key \in dirty => x.key \in dirty')
        /\ \A e \in Event : InWindow(e, x.key) => panes'[x.key[2]][e] = panes[x.key[2]][e]
    BY <1>4, DropShape DEF WindowsInv
  <2>3. UpToDate(x) => UpToDate(x)'
    BY <2>2 DEF UpToDate, InWindow, Pane
  <2> QED
    BY <1>00, <2>1, <2>2, <2>3 DEF Fresh, Later
<1>5. ASSUME NEW e \in Event, SendLate(e) PROVE Goal
  BY <1>2, <1>5 DEF SendLate, manager
<1>6. ASSUME Tick \/ UNCHANGED vars PROVE Goal
  BY <1>2, <1>6 DEF Tick, vars, manager, history
<1> HIDE DEF Goal
<1>7. Goal
  BY <1>1, <1>3, <1>4, <1>5, <1>6 DEF Next
<1> QED
  BY <1>7 DEF Goal

(* EmittedFresh: an emitted window that a within-lateness event changes is  *)
(* fired again (_mark_late_refires), as long as the watermark has not       *)
(* fallen behind a fired window: its last emission shows all that its panes *)
(* still hold.                                                              *)
THEOREM RefiredWhenChanged == Spec => []EmittedFresh
<1>1. Init => EmittedFresh
  BY DEF Init, EmittedFresh, LateEventsRefire
<1> QED
  BY <1>1, WindowsInvariant, FreshStep, PTL DEF Spec
=============================================================================
