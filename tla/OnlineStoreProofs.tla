--------------------------- MODULE OnlineStoreProofs ---------------------------
(***************************************************************************)
(* Theorems about OnlineStore, for any resolutions whose geometry is that  *)
(* of WindowResolution, any lateness tail, lag and events: what a user's   *)
(* hash serves is fresh, and neither expires early nor stays for good.     *)
(***************************************************************************)
EXTENDS OnlineStore, FiniteSetTheorems, WellFoundedInduction, TLAPS

-----------------------------------------------------------------------------
(* Numbers.                                                                 *)

LEMMA LeastNat ==
  ASSUME NEW T \in SUBSET Nat, T # {}
  PROVE  \E n \in T : \A m \in T : n <= m
  <1>1. \E n \in T : \A m \in T : ~ (<<m, n>> \in OpToRel(<, Nat))
    BY NatLessThanWellFounded, WFMin
  <1>2. PICK n \in T : \A m \in T : ~ (<<m, n>> \in OpToRel(<, Nat))
    BY <1>1
  <1>3. \A m \in T : ~ (m < n)
    BY <1>2 DEF OpToRel
  <1> QED BY <1>3

(* A bounded set of numbers has a greatest one.                             *)
LEMMA GreatestNat ==
  ASSUME NEW T \in SUBSET Nat, T # {}, NEW b \in Nat, \A n \in T : n <= b
  PROVE  \E n \in T : \A m \in T : m <= n
  <1> DEFINE U == {d \in Nat : b - d \in T}
  <1>1. U \in SUBSET Nat /\ U # {}
    <2>1. PICK n \in T : n \in Nat /\ n <= b
      OBVIOUS
    <2>2. b - n \in Nat /\ b - (b - n) = n
      BY <2>1
    <2> QED BY <2>1, <2>2
  <1>2. PICK d \in U : \A c \in U : d <= c
    <2> HIDE DEF U
    <2> QED BY <1>1, LeastNat
  <1>3. b - d \in T /\ d \in Nat
    BY <1>2
  <1>4. ASSUME NEW m \in T PROVE m <= b - d
    <2>1. m \in Nat /\ m <= b /\ b - m \in Nat /\ b - (b - m) = m
      OBVIOUS
    <2>2. b - m \in U
      BY <2>1
    <2>3. d <= b - m
      BY <1>2, <2>2
    <2> QED BY <1>3, <2>1, <2>3
  <1> QED BY <1>3, <1>4

LEMMA Monotone ==
  ASSUME NEW a \in Int, NEW b \in Int, NEW s \in Nat, a <= b
  PROVE  a * s <= b * s
  <1>1. (b - a) * s >= 0
    BY Z3
  <1> QED BY <1>1, Z3

(* Floor division, and exact division of a multiple.                        *)
LEMMA Floor ==
  ASSUME NEW s \in Nat \ {0}, NEW a \in Nat
  PROVE  /\ a \div s \in Nat
         /\ (a \div s) * s <= a
         /\ a < (a \div s + 1) * s
         /\ a % s = 0 => a = (a \div s) * s
  <1>1. a \div s \in Int /\ s * (a \div s) <= a /\ a < s * (a \div s) + s
    BY Z3
  <1>2. a % s = 0 => a = s * (a \div s)
    BY Z3
  <1>3. PICK q \in Int : q = a \div s
    BY <1>1
  <1>4. s * q <= a /\ a < s * q + s /\ (a % s = 0 => a = s * q)
    BY <1>1, <1>2, <1>3
  <1>5. q >= 0
    <2>1. CASE q <= -1
      <3>1. q * s <= (-1) * s
        BY <2>1, Monotone
      <3> QED BY <3>1, <1>4, Z3
    <2> QED BY <2>1
  <1>6. q * s = s * q /\ (q + 1) * s = s * q + s
    BY Z3
  <1> QED BY <1>3, <1>4, <1>5, <1>6

LEMMA ExactDivision ==
  ASSUME NEW s \in Nat \ {0}, NEW n \in Nat
  PROVE  n * s \in Nat /\ (n * s) % s = 0
  <1> DEFINE q == (n * s) \div s
             m == (n * s) % s
  <1>1. n * s \in Nat
    BY Z3
  <1>2. q \in Int /\ m \in Int /\ 0 <= m /\ m < s /\ n * s = s * q + m
    BY Z3
  <1> HIDE DEF q
  <1>3. CASE n > q
    <2>1. (q + 1) * s <= n * s
      BY <1>2, <1>3, Monotone
    <2> QED BY <2>1, <1>2, Z3
  <1>4. CASE n < q
    <2>1. (n + 1) * s <= q * s
      BY <1>2, <1>4, Monotone
    <2> QED BY <2>1, <1>2, Z3
  <1>5. CASE n = q
    <2>1. m = 0
      <3> HIDE DEF m
      <3> QED BY <1>2, <1>5, Z3
    <2> QED BY <1>1, <2>1
  <1> QED BY <1>2, <1>3, <1>4, <1>5

-----------------------------------------------------------------------------
(* The resolutions.                                                         *)

LEMMA GeometryType ==
  ASSUME NEW r \in Resolution
  PROVE  /\ Slide[r] \in Nat \ {0} /\ Size[r] \in Nat /\ Slide[r] < Size[r]
         /\ Ttl(r) \in Nat /\ 2 * Ttl(r) <= 3 * Size[r]
         /\ 3 * Size[r] <= 2 * Ttl(r) + 1
  <1>1. Slide[r] \in Nat \ {0} /\ Size[r] \in Nat /\ Slide[r] < Size[r]
    BY GeometryOK
  <1>2. PICK m \in Nat : m = Size[r]
    BY <1>1
  <1>3. /\ (3 * m) \div 2 \in Nat /\ 2 * ((3 * m) \div 2) <= 3 * m
        /\ 3 * m <= 2 * ((3 * m) \div 2) + 1
    OBVIOUS
  <1> QED BY <1>1, <1>2, <1>3 DEF Ttl

(* A window is a whole number of slides, two at least.                      *)
LEMMA WholeSlides ==
  ASSUME NEW r \in Resolution
  PROVE  \E n \in Nat : Size[r] = n * Slide[r] /\ n >= 2
  <1>1. PICK s \in Nat \ {0}, m \in Nat : s = Slide[r] /\ m = Size[r] /\ s < m
    BY GeometryType
  <1>2. m % s = 0
    BY <1>1, GeometryOK
  <1>3. PICK n \in Nat : n = m \div s
    BY Floor
  <1>4. m = n * s
    BY <1>2, <1>3, Floor
  <1>5. n >= 2
    <2>1. CASE n <= 1
      <3>1. n * s <= 1 * s
        BY <2>1, Monotone
      <3> QED BY <1>1, <1>4, <3>1
    <2> QED BY <2>1
  <1> QED BY <1>1, <1>4, <1>5

(* A resolution slides by the size of an earlier one, or by more.           *)
LEMMA LaterSlides ==
  ASSUME NEW i \in 1 .. Len(Order), NEW j \in 1 .. Len(Order), i < j
  PROVE  Size[Order[i]] <= Slide[Order[j]]
  <1> DEFINE L == Len(Order)
             T == {k \in 1 .. L :
                     \E h \in 1 .. L : h < k /\ ~ (Size[Order[h]] <= Slide[Order[k]])}
  <1>1. L \in Nat \ {0} /\ \A k \in 1 .. L : Order[k] \in Resolution
    BY GeometryOK DEF Resolution
  <1>2. SUFFICES T = {}
    BY DEF T
  <1>3. SUFFICES ASSUME T # {} PROVE FALSE
    OBVIOUS
  <1>4. PICK k \in T : \A m \in T : k <= m
    <2>1. T \in SUBSET Nat
      BY <1>1
    <2> HIDE DEF T
    <2> QED BY <1>3, <2>1, LeastNat
  <1>5. PICK h \in 1 .. L : h < k /\ ~ (Size[Order[h]] <= Slide[Order[k]])
    BY <1>4
  <1>6. /\ k \in 1 .. L /\ k - 1 \in 1 .. L /\ k - 1 \notin T
    BY <1>1, <1>4, <1>5
  <1>7. Slide[Order[k]] = Size[Order[k - 1]]
    <2>1. \A n \in 1 .. L - 1 : Slide[Order[n + 1]] = Size[Order[n]]
      BY GeometryOK
    <2>2. k - 1 \in 1 .. L - 1 /\ (k - 1) + 1 = k
      BY <1>1, <1>6
    <2> QED BY <2>1, <2>2
  <1>8. /\ Size[Order[h]] \in Nat /\ Size[Order[k - 1]] \in Nat
        /\ Slide[Order[k - 1]] \in Nat /\ Slide[Order[k - 1]] < Size[Order[k - 1]]
    BY <1>1, <1>5, <1>6, GeometryType
  <1>9. CASE h = k - 1
    BY <1>5, <1>7, <1>8, <1>9
  <1>10. CASE h < k - 1
    <2>1. Size[Order[h]] <= Slide[Order[k - 1]]
      BY <1>5, <1>6, <1>10
    <2> QED BY <1>5, <1>7, <1>8, <2>1
  <1> QED BY <1>5, <1>6, <1>9, <1>10

(* The smallest resolution has the smallest windows, the largest the        *)
(* largest ones and the longest TTL.                                        *)
LEMMA Extremes ==
  /\ Smallest \in Resolution /\ Largest \in Resolution
  /\ \A r \in Resolution : /\ Size[Smallest] <= Size[r] /\ Size[r] <= Size[Largest]
                           /\ Ttl(r) <= Ttl(Largest)
  <1>1. Len(Order) \in Nat \ {0}
    BY GeometryOK
  <1>2. Smallest \in Resolution /\ Largest \in Resolution
    BY <1>1 DEF Smallest, Largest, Resolution
  <1>3. ASSUME NEW r \in Resolution
        PROVE  /\ Size[Smallest] <= Size[r] /\ Size[r] <= Size[Largest]
    <2>1. PICK i \in 1 .. Len(Order) : r = Order[i]
      BY DEF Resolution
    <2>2. \A q \in Resolution : Size[q] \in Nat /\ Slide[q] \in Nat /\ Slide[q] < Size[q]
      BY GeometryType
    <2>3. Size[Smallest] <= Size[r]
      <3>1. CASE i = 1
        BY <1>2, <2>1, <2>2, <3>1 DEF Smallest
      <3>2. CASE i > 1
        <4>1. Size[Order[1]] <= Slide[Order[i]]
          BY <1>1, <3>2, LaterSlides
        <4> QED BY <1>2, <2>1, <2>2, <4>1 DEF Smallest
      <3> QED BY <3>1, <3>2
    <2>4. Size[r] <= Size[Largest]
      <3>1. CASE i = Len(Order)
        BY <1>2, <2>1, <2>2, <3>1 DEF Largest
      <3>2. CASE i < Len(Order)
        <4>1. Size[Order[i]] <= Slide[Order[Len(Order)]]
          BY <1>1, <3>2, LaterSlides
        <4> QED BY <1>2, <2>1, <2>2, <4>1 DEF Largest
      <3> QED BY <1>1, <3>1, <3>2
    <2> QED BY <2>3, <2>4
  <1>4. ASSUME NEW r \in Resolution PROVE Ttl(r) <= Ttl(Largest)
    <2>1. Size[r] <= Size[Largest]
      BY <1>3
    <2> QED BY <1>2, <2>1, GeometryType
  <1> QED BY <1>2, <1>3, <1>4

-----------------------------------------------------------------------------
(* The windows of an event.                                                 *)

(* They end at the slide boundaries after it, at most a window away.        *)
LEMMA EndsAre ==
  ASSUME NEW r \in Resolution, NEW ts \in Nat, NEW x
  PROVE  x \in Ends(r, ts) <=>
           x \in Nat /\ x % Slide[r] = 0 /\ ts < x /\ x <= ts + Size[r]
  <1>1. PICK s \in Nat \ {0}, m \in Nat : s = Slide[r] /\ m = Size[r]
    BY GeometryType
  <1>2. PICK N \in Nat, q \in Nat : N = m \div s /\ q = ts \div s
    BY Floor
  <1>3. m = N * s
    <2>1. m % s = 0
      BY <1>1, GeometryOK
    <2> QED BY <1>2, <2>1, Floor
  <1>4. q * s <= ts /\ ts < (q + 1) * s
    BY <1>2, Floor
  <1>5. Ends(r, ts) = {(q + n) * s : n \in 1 .. N}
    BY <1>1, <1>2 DEF Ends
  <1>6. ASSUME NEW n \in 1 .. N, x = (q + n) * s
        PROVE  x \in Nat /\ x % s = 0 /\ ts < x /\ x <= ts + m
    <2>1. x \in Nat /\ x % s = 0
      BY <1>6, ExactDivision
    <2>2. (q + 1) * s <= (q + n) * s
      BY Monotone
    <2>3. n * s <= N * s
      BY Monotone
    <2>4. (q + n) * s = q * s + n * s
      BY Z3
    <2>5. PICK a \in Int, b \in Int, c \in Int, d \in Int :
            a = q * s /\ b = n * s /\ c = (q + 1) * s /\ d = (q + n) * s
      BY Z3
    <2> QED BY <1>3, <1>4, <1>6, <2>1, <2>2, <2>3, <2>4, <2>5
  <1>7. ASSUME x \in Nat, x % s = 0, ts < x, x <= ts + m
        PROVE  \E n \in 1 .. N : x = (q + n) * s
    <2>1. PICK k \in Nat : k = x \div s /\ x = k * s
      BY <1>7, Floor
    <2>2. k > q
      <3>1. CASE k <= q
        <4>1. k * s <= q * s
          BY <3>1, Monotone
        <4>2. PICK a \in Int : a = q * s
          BY Z3
        <4> QED BY <1>4, <1>7, <2>1, <4>1, <4>2
      <3> QED BY <3>1
    <2>3. k <= q + N
      <3>1. CASE k >= q + 1 + N
        <4>1. (q + 1 + N) * s <= k * s
          BY <3>1, Monotone
        <4>2. (q + 1 + N) * s = (q + 1) * s + N * s
          BY Z3
        <4>3. PICK a \in Int, b \in Int : a = (q + 1) * s /\ b = N * s
          BY Z3
        <4> QED BY <1>3, <1>4, <1>7, <2>1, <4>1, <4>2, <4>3
      <3> QED BY <3>1
    <2>4. k - q \in 1 .. N /\ k = q + (k - q)
      BY <2>2, <2>3
    <2> QED BY <2>1, <2>4
  <1> QED BY <1>1, <1>5, <1>6, <1>7

(* The next end after t is a window of the event, unless the event's last   *)
(* window is over by t.                                                     *)
LEMMA NextEnd ==
  ASSUME NEW r \in Resolution, NEW ts \in Nat, NEW t \in Nat, ts <= t
  PROVE  \E x \in Nat : /\ t < x /\ x <= t + Slide[r]
                        /\ \/ x \in Ends(r, ts)
                           \/ \E z \in Ends(r, ts) : /\ z <= t
                                                     /\ ts + Size[r] < z + Slide[r]
  <1>1. PICK s \in Nat \ {0}, m \in Nat : s = Slide[r] /\ m = Size[r] /\ s < m
    BY GeometryType
  <1>2. PICK N \in Nat : m = N * s /\ N >= 2
    BY <1>1, WholeSlides
  <1>3. PICK p \in Nat, q \in Nat : p = t \div s /\ q = ts \div s
    BY Floor
  <1>4. /\ p * s <= t /\ t < (p + 1) * s
        /\ q * s <= ts /\ ts < (q + 1) * s
    BY <1>3, Floor
  <1>5. PICK x \in Nat, z \in Nat : x = (p + 1) * s /\ z = (q + N) * s
    BY ExactDivision
  <1>6. x % s = 0 /\ z % s = 0
    BY <1>5, ExactDivision
  <1>7. PICK a \in Nat, b \in Nat : a = p * s /\ b = q * s
    BY ExactDivision
  <1>8. x = a + s /\ z = b + m /\ (q + 1) * s = b + s
    BY <1>2, <1>5, <1>7, Z3
  <1>9. t < x /\ x <= t + s /\ ts < z /\ z <= ts + m /\ ts + m < z + s
    BY <1>1, <1>4, <1>5, <1>7, <1>8
  <1>10. z \in Ends(r, ts)
    BY <1>1, <1>6, <1>9, EndsAre
  <1>11. CASE z <= t
    BY <1>1, <1>9, <1>10, <1>11
  <1>12. CASE z > t
    <2>1. q + N >= p + 1
      <3>1. CASE q + N <= p
        <4>1. (q + N) * s <= p * s
          BY <3>1, Monotone
        <4> QED BY <1>4, <1>5, <1>7, <1>12, <4>1
      <3> QED BY <3>1
    <2>2. x <= z
      BY <1>5, <2>1, Monotone
    <2>3. x \in Ends(r, ts)
      <3>1. ts < x /\ x <= ts + m
        BY <1>9, <2>2
      <3>2. x % Slide[r] = 0 /\ m = Size[r]
        BY <1>1, <1>6
      <3> QED BY <3>1, <3>2, EndsAre
    <2> QED BY <1>1, <1>9, <2>3
  <1> QED BY <1>11, <1>12

-----------------------------------------------------------------------------
(* Windows in order.                                                        *)

LEMMA RankIsPlace ==
  ASSUME NEW order, NEW r, \E i \in 1 .. Len(order) : order[i] = r
  PROVE  Rank(r, order) \in 1 .. Len(order) /\ order[Rank(r, order)] = r
  BY DEF Rank

(* The order of windows is total.                                           *)
LEMMA BeforeIsOrder ==
  ASSUME NEW order, Len(order) \in Nat,
         \A r \in Resolution : \E i \in 1 .. Len(order) : order[i] = r
  PROVE  /\ \A v \in Resolution \X Nat : Before(v, v, order)
         /\ \A v, w \in Resolution \X Nat : Before(v, w, order) \/ Before(w, v, order)
         /\ \A v, w \in Resolution \X Nat :
              Before(v, w, order) /\ Before(w, v, order) => v = w
         /\ \A u, v, w \in Resolution \X Nat :
              Before(u, v, order) /\ Before(v, w, order) => Before(u, w, order)
  <1>1. PICK rank \in [Resolution -> Nat] :
          \A r \in Resolution : rank[r] = Rank(r, order) /\ order[rank[r]] = r
    <2> DEFINE f == [r \in Resolution |-> Rank(r, order)]
    <2>1. \A r \in Resolution : Rank(r, order) \in Nat /\ order[Rank(r, order)] = r
      BY RankIsPlace
    <2>2. f \in [Resolution -> Nat]
      BY <2>1
    <2> QED BY <2>1, <2>2
  <1>2. \A v, w \in Resolution \X Nat :
          Before(v, w, order) <=> \/ rank[v[1]] < rank[w[1]]
                                  \/ v[1] = w[1] /\ v[2] <= w[2]
    BY <1>1 DEF Before
  <1>3. \A v, w \in Resolution \X Nat : rank[v[1]] = rank[w[1]] => v[1] = w[1]
    BY <1>1
  <1>4. \A v \in Resolution \X Nat : rank[v[1]] \in Nat /\ v[2] \in Nat /\ v = <<v[1], v[2]>>
    BY <1>1
  <1>5. \A v \in Resolution \X Nat : Before(v, v, order)
    BY <1>2, <1>4
  <1>6. \A v, w \in Resolution \X Nat : Before(v, w, order) \/ Before(w, v, order)
    BY <1>2, <1>3, <1>4
  <1>7. \A v, w \in Resolution \X Nat :
          Before(v, w, order) /\ Before(w, v, order) => v = w
    BY <1>2, <1>3, <1>4
  <1>8. \A u, v, w \in Resolution \X Nat :
          Before(u, v, order) /\ Before(v, w, order) => Before(u, w, order)
    <2> SUFFICES ASSUME NEW u \in Resolution \X Nat, NEW v \in Resolution \X Nat,
                        NEW w \in Resolution \X Nat,
                        Before(u, v, order), Before(v, w, order)
                 PROVE  Before(u, w, order)
      OBVIOUS
    <2>1. /\ rank[u[1]] < rank[v[1]] \/ (u[1] = v[1] /\ u[2] <= v[2])
          /\ rank[v[1]] < rank[w[1]] \/ (v[1] = w[1] /\ v[2] <= w[2])
      BY <1>2
    <2>2. /\ rank[u[1]] \in Nat /\ rank[v[1]] \in Nat /\ rank[w[1]] \in Nat
          /\ u[2] \in Nat /\ v[2] \in Nat /\ w[2] \in Nat
      BY <1>4
    <2>3. rank[u[1]] < rank[w[1]] \/ (u[1] = w[1] /\ u[2] <= w[2])
      BY <2>1, <2>2
    <2> QED BY <1>2, <2>3
  <1> QED BY <1>5, <1>6, <1>7, <1>8

LEMMA UpTo ==
  ASSUME NEW n \in Nat
  PROVE  IsFiniteSet(1 .. n) /\ Cardinality(1 .. n) = n
  <1>1. /\ IsFiniteSet(1 .. n)
        /\ Cardinality(1 .. n) = IF 1 > n THEN 0 ELSE n - 1 + 1
    BY FS_Interval, SMTT(30)
  <1>2. (IF 1 > n THEN 0 ELSE n - 1 + 1) = n
    OBVIOUS
  <1> QED BY <1>1, <1>2

(* emit_due_windows and _emit_dirty list every window once, in order.       *)
LEMMA AscendingIsList ==
  ASSUME NEW W \in SUBSET (Resolution \X Nat), IsFiniteSet(W),
         NEW order, Len(order) \in Nat,
         \A r \in Resolution : \E i \in 1 .. Len(order) : order[i] = r
  PROVE  /\ Ascending(W, order) \in Seq(W)
         /\ \A w \in W : \E i \in 1 .. Len(Ascending(W, order)) : Ascending(W, order)[i] = w
         /\ \A i, j \in 1 .. Len(Ascending(W, order)) :
              i < j => /\ Ascending(W, order)[i] # Ascending(W, order)[j]
                       /\ Before(Ascending(W, order)[i], Ascending(W, order)[j], order)
  <1>1. PICK n \in Nat : n = Cardinality(W)
    BY FS_CardinalityType
  <1>2. ASSUME NEW w \in W PROVE Place(w, W, order) \in 1 .. n
    <2> DEFINE D == {v \in W : Before(v, w, order)}
    <2>1. w \in D
      BY BeforeIsOrder
    <2>2. IsFiniteSet(D) /\ Cardinality(D) <= n
      BY <1>1, FS_Subset
    <2>3. Cardinality(D) \in Nat /\ Cardinality(D) # 0
      BY <2>1, <2>2, FS_CardinalityType, FS_EmptySet
    <2>4. Place(w, W, order) = Cardinality(D)
      BY DEF Place
    <2> HIDE DEF D
    <2> QED BY <1>1, <2>2, <2>3, <2>4
  <1>3. ASSUME NEW v \in W, NEW w \in W, v # w, Before(v, w, order)
        PROVE  Place(v, W, order) < Place(w, W, order)
    <2>1. PICK C, D : /\ C = {u \in W : Before(u, v, order)}
                      /\ D = {u \in W : Before(u, w, order)}
      OBVIOUS
    <2>2. C \subseteq D
      BY <1>3, <2>1, BeforeIsOrder
    <2>3. w \in D /\ w \notin C
      BY <1>3, <2>1, BeforeIsOrder
    <2>4. IsFiniteSet(D)
      BY <2>1, FS_Subset
    <2>5. IsFiniteSet(C) /\ Cardinality(C) <= Cardinality(D) /\ Cardinality(C) # Cardinality(D)
      BY <2>2, <2>3, <2>4, FS_Subset
    <2>6. Cardinality(C) \in Nat /\ Cardinality(D) \in Nat
      BY <2>4, <2>5, FS_CardinalityType
    <2> QED BY <2>1, <2>5, <2>6 DEF Place
  <1>4. \A v, w \in W : Place(v, W, order) = Place(w, W, order) => v = w
    <2> SUFFICES ASSUME NEW v \in W, NEW w \in W, v # w
                 PROVE  Place(v, W, order) # Place(w, W, order)
      OBVIOUS
    <2>1. Before(v, w, order) \/ Before(w, v, order)
      BY BeforeIsOrder
    <2> QED BY <1>2, <1>3, <2>1
  <1>5. \A i \in 1 .. n : \E w \in W : Place(w, W, order) = i
    <2> DEFINE f == [w \in W |-> Place(w, W, order)]
    <2>1. f \in Injection(W, 1 .. n)
      <3>1. f \in [W -> 1 .. n]
        BY <1>2
      <3>2. \A v, w \in W : f[v] = f[w] => v = w
        BY <1>4
      <3> HIDE DEF f
      <3>3. DOMAIN f = W
        BY <3>1
      <3>4. IsInjective(f)
        BY <3>2, <3>3 DEF IsInjective
      <3> QED BY <3>1, <3>4 DEF Injection
    <2>2. IsFiniteSet(1 .. n) /\ Cardinality(1 .. n) = n
      BY UpTo
    <2>3. f \in Surjection(W, 1 .. n)
      <3> HIDE DEF f
      <3> QED BY <1>1, <2>1, <2>2, FS_Injection
    <2>4. \A i \in 1 .. n : \E w \in W : f[w] = i
      <3> HIDE DEF f
      <3> QED BY <2>3 DEF Surjection
    <2> QED BY <2>4
  <1>6. PICK s : s = Ascending(W, order)
    OBVIOUS
  <1>7. s = [i \in 1 .. n |-> CHOOSE w \in W : Place(w, W, order) = i]
    BY <1>1, <1>6 DEF Ascending
  <1>8. \A i \in 1 .. n : s[i] \in W /\ Place(s[i], W, order) = i
    BY <1>5, <1>7
  <1>9. s \in Seq(W) /\ Len(s) = n
    BY <1>7, <1>8
  <1>10. \A w \in W : \E i \in 1 .. n : s[i] = w
    BY <1>2, <1>4, <1>8
  <1>11. ASSUME NEW i \in 1 .. n, NEW j \in 1 .. n, i < j
         PROVE  s[i] # s[j] /\ Before(s[i], s[j], order)
    <2>1. s[i] # s[j]
      BY <1>8, <1>11
    <2>2. Before(s[i], s[j], order) \/ Before(s[j], s[i], order)
      BY <1>8, BeforeIsOrder
    <2>3. CASE Before(s[j], s[i], order)
      <3>1. Place(s[j], W, order) < Place(s[i], W, order)
        BY <1>3, <1>8, <2>1, <2>3
      <3> QED BY <1>8, <1>11, <3>1
    <2> QED BY <2>1, <2>2, <2>3
  <1> QED BY <1>6, <1>9, <1>10, <1>11

(* Both orders name every resolution.                                       *)
LEMMA OrdersComplete ==
  /\ Len(Order) \in Nat /\ Len(RefireOrder) \in Nat
  /\ \A r \in Resolution : \E i \in 1 .. Len(Order) : Order[i] = r
  /\ \A r \in Resolution : \E i \in 1 .. Len(RefireOrder) : RefireOrder[i] = r
  BY GeometryOK DEF Resolution

-----------------------------------------------------------------------------
(* Invariants.                                                              *)

(* A window that has ended, with an event.                                  *)
Fired(w) == w \in Resolution \X Nat /\ w[2] <= watermark /\ Contents(w) # {}

(* A window that an event has marked, or that closes with the event's batch.*)
Marked(w) == /\ w \in Resolution \X Nat /\ Contents(w) # {}
             /\ w[2] <= watermark \/ w[2] <= base

Pending(w) == w \in dirty \/ \E i \in 1 .. Len(queue) : queue[i] = w

Written == [end : Nat, at : Nat, clicks : Nat, purchases : Nat]

Shape ==
  /\ IsFiniteSet(events)
  /\ queue \in Seq(Resolution \X Nat)
  /\ \A w : Pending(w) => Marked(w)
  /\ queue # <<>> => dirty = {}
  /\ hash \in [Resolution -> Written \cup {None}]
  /\ \A r \in Resolution : hash[r] # None => hash[r].end <= watermark

TypeInv == TypeOK /\ Shape

(* What a write does not show yet is still to be written: the events that   *)
(* came after it have marked its window, or missed it.                      *)
Counted(r) ==
  hash[r] # None =>
    \/ /\ hash[r].clicks = CountOf("click", <<r, hash[r].end>>)
       /\ hash[r].purchases = CountOf("purchase", <<r, hash[r].end>>)
    \/ Pending(<<r, hash[r].end>>)
    \/ <<r, hash[r].end>> \in missed

(* A late event marks its newest window with the others, unless its mark    *)
(* was outrun.                                                              *)
DirtyUp ==
  \A w \in dirty : \A x \in Closed(w[1]) :
    x > w[2] => <<w[1], x>> \in dirty \/ x <= outrun

(* At least once, an emission writes a window before every newer one.       *)
QueueUp ==
  \A i \in 1 .. Len(queue) : \A x \in Closed(queue[i][1]) :
    x > queue[i][2] => \/ \E j \in i + 1 .. Len(queue) : queue[j] = <<queue[i][1], x>>
                       \/ x <= outrun

Latest(r) ==
  hash[r] # None =>
    /\ hash[r].end \in Closed(r)
    /\ \A x \in Closed(r) : x > hash[r].end => Pending(<<r, x>>) \/ x <= outrun

Bought(x) == CountOf("purchase", <<Largest, x>>) > 0

Averaged == avg # None => avg \in Nat /\ Bought(avg)

LatestAverage ==
  avg # None =>
    \A x \in Closed(Largest) :
      x > avg /\ Bought(x) => Pending(<<Largest, x>>) \/ x <= outrun

FreshInv ==
  /\ DirtyUp
  /\ \A r \in Resolution : Counted(r)
  /\ Averaged
  /\ ~eos => /\ QueueUp
             /\ \A r \in Resolution : Latest(r)
             /\ LatestAverage

(* A write comes soon after an event of its window, and sets the deadline.  *)
Soon(r, e) == now < e[1] + Size[r] + MaxLag \/ now <= e[1] + MaxDelay

Stays(e) == \/ deadline < e[1] + Size[Largest] + Ttl(Largest) + MaxLag
            \/ deadline <= e[1] + MaxDelay + Ttl(Largest)

GoneInv ==
  /\ \A w \in dirty : \E e \in Contents(w) : now <= e[1] + MaxDelay
  /\ \A i \in 1 .. Len(queue) : \E e \in Contents(queue[i]) : Soon(queue[i][1], e)
  /\ deadline = 0 \/ \E e \in events : Stays(e)

(* A window is due that will be written before d.                           *)
Due(d) ==
  \E r \in Resolution, e \in events :
    \E x \in Ends(r, e[1]) : x > watermark /\ x + MaxLag <= d

Covered == \A r \in Resolution : hash[r] # None => hash[r].at + Ttl(r) <= deadline

KeepsInv ==
  /\ queue = <<>> => Covered \/ Due(deadline)
  /\ queue # <<>> => LET r == queue[Len(queue)][1]
                     IN  r = Largest \/ Due(now + Ttl(r))

-----------------------------------------------------------------------------
(* What the definitions say of a well-formed state.                         *)

LEMMA EventType ==
  ASSUME TypeOK, NEW e \in events
  PROVE  e \in Event /\ e[1] \in Nat /\ e[2] \in Kind
  <1>1. e \in Event /\ LastEvent \in Nat
    BY GeometryOK DEF TypeOK
  <1> QED BY <1>1 DEF Event

(* The events of a window come before its end, a window at most.            *)
LEMMA InWindow ==
  ASSUME TypeOK, NEW w, w[1] \in Resolution, NEW e \in Contents(w)
  PROVE  /\ e \in events /\ e[1] \in Nat /\ w[2] \in Ends(w[1], e[1])
         /\ w[2] \in Nat /\ w[2] % Slide[w[1]] = 0
         /\ e[1] < w[2] /\ w[2] <= e[1] + Size[w[1]]
  <1>1. e \in events /\ w[2] \in Ends(w[1], e[1])
    BY DEF Contents
  <1>2. e[1] \in Nat
    BY <1>1, EventType
  <1> QED BY <1>1, <1>2, EndsAre

LEMMA WatermarkType ==
  ASSUME TypeOK
  PROVE  /\ watermark \in Nat /\ now \in Nat /\ watermark <= now
         /\ now <= watermark + MaxLag /\ MaxLag \in Nat /\ Lateness \in Nat
         /\ now <= MaxNow /\ MaxNow \in Nat /\ MaxDelay \in Nat
         /\ base \in Nat /\ base <= now /\ outrun \in Nat /\ outrun <= watermark
  BY GeometryOK DEF TypeOK

(* Every event of a window is of one kind.                                  *)
LEMMA CountType ==
  ASSUME TypeOK, Shape, NEW w
  PROVE  /\ CountOf("click", w) \in Nat /\ CountOf("purchase", w) \in Nat
         /\ CountOf("click", w) + CountOf("purchase", w) <= Cardinality(events)
         /\ Contents(w) # {} => CountOf("click", w) + CountOf("purchase", w) >= 1
  <1>1. PICK C : C = Contents(w)
    OBVIOUS
  <1>2. PICK A, B : /\ A = {e \in C : e[2] = "click"}
                    /\ B = {e \in C : e[2] = "purchase"}
    OBVIOUS
  <1>3. C \in SUBSET events /\ \A e \in C : e[2] \in Kind
    BY <1>1, EventType DEF Contents
  <1>4. A \cup B = C /\ A \cap B = {} /\ A \in SUBSET C /\ B \in SUBSET C
    BY <1>2, <1>3 DEF Kind
  <1>5. IsFiniteSet(C) /\ Cardinality(C) <= Cardinality(events)
    BY <1>3, FS_Subset DEF Shape
  <1>6. IsFiniteSet(A) /\ IsFiniteSet(B)
    BY <1>4, <1>5, FS_Subset
  <1>7. /\ Cardinality(A) \in Nat /\ Cardinality(B) \in Nat /\ Cardinality(C) \in Nat
        /\ Cardinality(events) \in Nat
        /\ C # {} => Cardinality(C) # 0
    BY <1>5, <1>6, FS_CardinalityType, FS_EmptySet DEF Shape
  <1>8. Cardinality(A) + Cardinality(B) = Cardinality(C)
    <2>1. Cardinality(A \cup B)
            = Cardinality(A) + Cardinality(B) - Cardinality(A \cap B)
      BY <1>6, FS_Union
    <2>2. Cardinality(A \cap B) = 0 /\ A \cup B = C
      BY <1>4, FS_EmptySet
    <2> HIDE <1>4
    <2> QED BY <1>7, <2>1, <2>2
  <1>9. CountOf("click", w) = Cardinality(A) /\ CountOf("purchase", w) = Cardinality(B)
    BY <1>1, <1>2 DEF CountOf
  <1> HIDE <1>2
  <1> QED BY <1>1, <1>5, <1>7, <1>8, <1>9

LEMMA ResolutionFinite == IsFiniteSet(Resolution)
  <1> DEFINE f == [i \in 1 .. Len(Order) |-> Order[i]]
  <1>1. Len(Order) \in Nat
    BY GeometryOK
  <1>2. f \in Surjection(1 .. Len(Order), Resolution)
    BY DEF Surjection, Resolution
  <1>3. IsFiniteSet(1 .. Len(Order))
    BY <1>1, FS_Interval
  <1> HIDE DEF f
  <1> QED BY <1>2, <1>3, FS_Surjection

LEMMA WindowsFinite ==
  ASSUME NEW n \in Nat, NEW W \in SUBSET (Resolution \X Nat), \A w \in W : w[2] <= n
  PROVE  IsFiniteSet(W)
  <1>1. IsFiniteSet(0 .. n)
    BY FS_Interval
  <1>2. IsFiniteSet(Resolution \X (0 .. n))
    BY <1>1, ResolutionFinite, FS_Product
  <1>3. W \in SUBSET (Resolution \X (0 .. n))
    OBVIOUS
  <1> QED BY <1>2, <1>3, FS_Subset

(* emit_due_windows closes the windows with an event that end after the     *)
(* last watermark and not after the new one.                                *)
LEMMA ClosingAre ==
  ASSUME TypeOK, NEW new \in Nat
  PROVE  /\ \A w : w \in Closing(new) <=>
                     /\ w \in Resolution \X Nat /\ w[2] > watermark /\ w[2] <= new
                     /\ Contents(w) # {}
         /\ IsFiniteSet(Closing(new))
  <1>1. ASSUME NEW w \in Closing(new)
        PROVE  /\ w \in Resolution \X Nat /\ w[2] > watermark /\ w[2] <= new
               /\ Contents(w) # {}
    <2>1. PICK r \in Resolution : w \in {r} \X UNION {Ends(r, e[1]) : e \in events}
      BY DEF Closing
    <2>2. PICK e \in events : w[2] \in Ends(r, e[1])
      BY <2>1
    <2>3. w[2] \in Nat
      BY <2>2, EventType, EndsAre
    <2> QED BY <2>1, <2>3 DEF Closing
  <1>2. ASSUME NEW w \in Resolution \X Nat, w[2] > watermark, w[2] <= new,
               Contents(w) # {}
        PROVE  w \in Closing(new)
    <2>1. PICK e \in events : w[2] \in Ends(w[1], e[1])
      BY <1>2 DEF Contents
    <2>2. w \in {w[1]} \X UNION {Ends(w[1], d[1]) : d \in events}
      BY <2>1
    <2> QED BY <1>2, <2>2 DEF Closing
  <1>3. IsFiniteSet(Closing(new))
    <2>1. Closing(new) \in SUBSET (Resolution \X Nat) /\ \A w \in Closing(new) : w[2] <= new
      BY <1>1
    <2> QED BY <2>1, WindowsFinite
  <1> QED BY <1>1, <1>2, <1>3

(* Windows of one resolution come by their ends, in either order.           *)
LEMMA ByEnd ==
  ASSUME NEW v \in Resolution \X Nat, NEW w \in Resolution \X Nat,
         v # w, v[1] = w[1],
         Before(v, w, Order) \/ Before(v, w, RefireOrder)
  PROVE  v[2] < w[2]
  <1>1. /\ Rank(v[1], Order) \in Nat /\ Rank(v[1], RefireOrder) \in Nat
        /\ v[2] \in Nat /\ w[2] \in Nat
    BY RankIsPlace, OrdersComplete
  <1>2. v[2] <= w[2]
    BY <1>1 DEF Before
  <1>3. v[2] # w[2]
    OBVIOUS
  <1> QED BY <1>1, <1>2, <1>3

(* What an emission queues: the windows that close, by Order, then those    *)
(* that fire again, by RefireOrder.                                         *)
LEMMA EmitQueues ==
  ASSUME TypeOK, Shape, Emit
  PROVE  \E new \in Nat :
           /\ watermark <= new /\ base <= new /\ new <= now /\ watermark' = new
           /\ eos \/ dirty = {} \/ new = watermark
           /\ queue' \in Seq(Resolution \X Nat)
           /\ \A w : Pending(w)' <=> w \in Closing(new) \/ w \in dirty
           /\ eos \/ \A i, j \in 1 .. Len(queue') :
                i < j /\ queue'[i][1] = queue'[j][1] => queue'[i][2] < queue'[j][2]
           /\ queue' # <<>> =>
                LET last == queue'[Len(queue')]
                IN  \/ last \in dirty
                    \/ /\ last \in Closing(new) /\ dirty = {}
                       /\ \A v \in Closing(new) : Before(v, last, Order)
           /\ queue' = <<>> => dirty = {} /\ Closing(new) = {}
  <1>1. PICK new \in watermark .. now :
          /\ base <= new
          /\ eos \/ dirty = {} \/ new = watermark
          /\ watermark' = new /\ dirty' = {}
          /\ queue' = Ascending(Closing(new), Order) \o Refires
    BY WatermarkType DEF Emit
  <1>2. new \in Nat /\ watermark <= new /\ new <= now
    BY WatermarkType
  <1>3. PICK A, B : /\ A = Ascending(Closing(new), Order)
                    /\ B = Ascending(dirty, RefireOrder)
    OBVIOUS
  <1>4. PICK C : C = Closing(new)
    OBVIOUS
  <1>5. C \in SUBSET (Resolution \X Nat) /\ IsFiniteSet(C)
    BY <1>2, <1>4, ClosingAre
  <1>6. dirty \in SUBSET (Resolution \X Nat) /\ IsFiniteSet(dirty)
    <2>1. \A w \in dirty : w \in Resolution \X Nat /\ w[2] <= now
      BY WatermarkType DEF Shape, Pending, Marked
    <2> QED BY <2>1, WatermarkType, WindowsFinite
  <1>7. /\ A \in Seq(C)
        /\ \A w \in C : \E i \in 1 .. Len(A) : A[i] = w
        /\ \A i, j \in 1 .. Len(A) : i < j => A[i] # A[j] /\ Before(A[i], A[j], Order)
    <2>1. /\ Len(Order) \in Nat
          /\ \A r \in Resolution : \E i \in 1 .. Len(Order) : Order[i] = r
      BY OrdersComplete
    <2>2. /\ Ascending(C, Order) \in Seq(C)
          /\ \A w \in C : \E i \in 1 .. Len(Ascending(C, Order)) : Ascending(C, Order)[i] = w
          /\ \A i, j \in 1 .. Len(Ascending(C, Order)) :
               i < j => /\ Ascending(C, Order)[i] # Ascending(C, Order)[j]
                        /\ Before(Ascending(C, Order)[i], Ascending(C, Order)[j], Order)
      BY <1>5, <2>1, AscendingIsList
    <2> QED BY <1>3, <1>4, <2>2
  <1>8. /\ B \in Seq(dirty)
        /\ \A w \in dirty : \E i \in 1 .. Len(B) : B[i] = w
        /\ \A i, j \in 1 .. Len(B) : i < j => B[i] # B[j] /\ Before(B[i], B[j], RefireOrder)
    <2>1. /\ Len(RefireOrder) \in Nat
          /\ \A r \in Resolution : \E i \in 1 .. Len(RefireOrder) : RefireOrder[i] = r
      BY OrdersComplete
    <2>2. /\ Ascending(dirty, RefireOrder) \in Seq(dirty)
          /\ \A w \in dirty : \E i \in 1 .. Len(Ascending(dirty, RefireOrder)) :
               Ascending(dirty, RefireOrder)[i] = w
          /\ \A i, j \in 1 .. Len(Ascending(dirty, RefireOrder)) :
               i < j => /\ Ascending(dirty, RefireOrder)[i] # Ascending(dirty, RefireOrder)[j]
                        /\ Before(Ascending(dirty, RefireOrder)[i],
                                  Ascending(dirty, RefireOrder)[j], RefireOrder)
      BY <1>6, <2>1, AscendingIsList
    <2> QED BY <1>3, <2>2
  <1>9. queue' = A \o B
    BY <1>1, <1>3 DEF Refires
  <1>10. PICK a \in Nat, b \in Nat : a = Len(A) /\ b = Len(B)
    BY <1>7, <1>8
  <1>11. /\ queue' \in Seq(Resolution \X Nat)
         /\ Len(queue') = a + b
         /\ \A i \in 1 .. a : queue'[i] = A[i]
         /\ \A i \in a + 1 .. a + b : queue'[i] = B[i - a]
    <2>1. A \in Seq(Resolution \X Nat) /\ B \in Seq(Resolution \X Nat)
      BY <1>5, <1>6, <1>7, <1>8
    <2> QED BY <1>9, <1>10, <2>1
  <1>12. ASSUME NEW w PROVE Pending(w)' <=> w \in C \/ w \in dirty
    <2>1. Pending(w)' <=> \E i \in 1 .. a + b : queue'[i] = w
      BY <1>1, <1>11 DEF Pending
    <2>2. ASSUME NEW i \in 1 .. a + b PROVE queue'[i] \in C \/ queue'[i] \in dirty
      <3>1. CASE i \in 1 .. a
        BY <1>7, <1>10, <1>11, <3>1
      <3>2. CASE i \in a + 1 .. a + b
        <4>1. i - a \in 1 .. b
          BY <3>2
        <4>2. queue'[i] = B[i - a]
          BY <1>11, <3>2
        <4>3. \A k \in 1 .. b : B[k] \in dirty
          BY <1>8, <1>10
        <4> QED BY <4>1, <4>2, <4>3
      <3> QED BY <3>1, <3>2
    <2>3. ASSUME w \in C PROVE \E i \in 1 .. a + b : queue'[i] = w
      <3>1. PICK i \in 1 .. a : A[i] = w
        BY <1>7, <1>10, <2>3
      <3>2. queue'[i] = w
        BY <1>11, <3>1
      <3>3. i \in 1 .. a + b
        BY <3>1
      <3> QED BY <3>2, <3>3
    <2>4. ASSUME w \in dirty PROVE \E i \in 1 .. a + b : queue'[i] = w
      <3>1. PICK i \in 1 .. b : B[i] = w
        BY <1>8, <1>10, <2>4
      <3>2. a + i \in a + 1 .. a + b /\ (a + i) - a = i /\ a + i \in 1 .. a + b
        OBVIOUS
      <3> QED BY <1>11, <3>1, <3>2
    <2> QED BY <2>1, <2>2, <2>3, <2>4
  <1>14. ASSUME ~eos, NEW i \in 1 .. a + b, NEW j \in 1 .. a + b, i < j,
                queue'[i][1] = queue'[j][1]
         PROVE  queue'[i][2] < queue'[j][2]
    <2>1. CASE dirty = {}
      <3>1. b = 0
        BY <1>8, <1>10, <2>1
      <3>2. i \in 1 .. a /\ j \in 1 .. a
        BY <3>1
      <3>3. /\ A[i] \in Resolution \X Nat /\ A[j] \in Resolution \X Nat
            /\ A[i] # A[j] /\ Before(A[i], A[j], Order) /\ A[i][1] = A[j][1]
        <4>1. queue'[i] = A[i] /\ queue'[j] = A[j]
          BY <1>11, <3>2
        <4>2. A[i] \in C /\ A[j] \in C
          BY <1>7, <1>10, <3>2
        <4>3. A[i] # A[j] /\ Before(A[i], A[j], Order)
          BY <1>7, <1>10, <1>14, <3>2
        <4> QED BY <1>5, <1>14, <4>1, <4>2, <4>3
      <3>4. queue'[i] = A[i] /\ queue'[j] = A[j]
        BY <1>11, <3>2
      <3> QED BY <3>3, <3>4, ByEnd
    <2>2. CASE new = watermark
      <3>1. C = {}
        BY <1>2, <1>4, <2>2, ClosingAre
      <3>2. a = 0
        BY <1>7, <1>10, <3>1
      <3>3. i \in 1 .. b /\ j \in 1 .. b /\ queue'[i] = B[i] /\ queue'[j] = B[j]
        BY <1>11, <3>2
      <3>4. /\ B[i] \in Resolution \X Nat /\ B[j] \in Resolution \X Nat
            /\ B[i] # B[j] /\ Before(B[i], B[j], RefireOrder) /\ B[i][1] = B[j][1]
        BY <1>6, <1>8, <1>10, <1>14, <3>3
      <3> QED BY <3>3, <3>4, ByEnd
    <2> QED BY <1>1, <1>14, <2>1, <2>2
  <1>15. ASSUME queue' # <<>>
         PROVE  \/ queue'[a + b] \in dirty
                \/ /\ queue'[a + b] \in C /\ dirty = {}
                   /\ \A v \in C : Before(v, queue'[a + b], Order)
    <2>1. CASE b > 0
      <3>1. queue'[a + b] = B[b] /\ b \in 1 .. b
        BY <1>11, <2>1
      <3> QED BY <1>8, <1>10, <3>1
    <2>2. CASE b = 0
      <3>1. dirty = {}
        BY <1>8, <1>10, <2>2
      <3>2. a > 0
        BY <1>11, <1>15, <2>2
      <3>3. queue'[a + b] = A[a] /\ a \in 1 .. a /\ A[a] \in C
        BY <1>7, <1>10, <1>11, <2>2, <3>2
      <3>4. ASSUME NEW v \in C PROVE Before(v, A[a], Order)
        <4>1. PICK i \in 1 .. a : A[i] = v
          BY <1>7, <1>10
        <4>2. CASE i = a
          BY <1>5, <4>1, <4>2, OrdersComplete, BeforeIsOrder
        <4>3. CASE i < a
          BY <1>7, <1>10, <3>3, <4>1, <4>3
        <4> QED BY <4>2, <4>3
      <3> QED BY <3>1, <3>3, <3>4
    <2> QED BY <2>1, <2>2
  <1>16. ASSUME queue' = <<>> PROVE dirty = {} /\ C = {}
    <2>1. a = 0 /\ b = 0
      BY <1>11, <1>16
    <2> QED BY <1>7, <1>8, <1>10, <2>1
  <1> QED BY <1>1, <1>2, <1>4, <1>11, <1>12, <1>14, <1>15, <1>16

-----------------------------------------------------------------------------
(* What each step does to the windows.                                      *)

(* A late event is folded into all its windows.                             *)
LEMMA AddFolds ==
  ASSUME TypeOK, NEW e \in Event, Add(e)
  PROVE  /\ e[1] \in Nat /\ e[1] <= now /\ now <= e[1] + MaxDelay
         /\ queue = <<>> /\ events' = events \cup {e} /\ e \notin events
         /\ Cardinality(events) < MaxEvents
         /\ UNCHANGED <<eos, now, watermark, queue, hash, avg, deadline>>
         /\ dirty \subseteq dirty'
         /\ \A w : Pending(w)' <=> w \in dirty'
         /\ \A w : Pending(w) => Pending(w)'
         /\ \A w : Contents(w) \subseteq Contents(w)'
         /\ \A w : w[2] \in Ends(w[1], e[1]) => e \in Contents(w)'
         /\ \A w : w[2] \notin Ends(w[1], e[1]) => Contents(w)' = Contents(w)
  <1>1. e[1] \in Nat
    BY GeometryOK DEF Event
  <1>2. /\ e[1] <= now /\ now <= e[1] + MaxDelay
        /\ queue = <<>> /\ events' = events \cup {e} /\ e \notin events
        /\ Cardinality(events) < MaxEvents
        /\ UNCHANGED <<eos, now, watermark, queue, hash, avg, deadline>>
        /\ dirty \subseteq dirty'
    BY WatermarkType, <1>1 DEF Add
  <1>3. /\ \A w : Pending(w)' <=> w \in dirty'
        /\ \A w : Pending(w) => Pending(w)'
    BY <1>2 DEF Pending
  <1>4. /\ \A w : Contents(w) \subseteq Contents(w)'
        /\ \A w : w[2] \in Ends(w[1], e[1]) => e \in Contents(w)'
        /\ \A w : w[2] \notin Ends(w[1], e[1]) => Contents(w)' = Contents(w)
    BY <1>2 DEF Contents
  <1> QED BY <1>1, <1>2, <1>3, <1>4

LEMMA WindowsAre ==
  ASSUME NEW e \in Event, NEW w
  PROVE  w \in WindowsOf(e) <=> w \in Resolution \X Nat /\ w[2] \in Ends(w[1], e[1])
  <1>1. e[1] \in Nat
    BY GeometryOK DEF Event
  <1>2. ASSUME NEW r \in Resolution, w \in {r} \X Ends(r, e[1])
        PROVE  w \in Resolution \X Nat /\ w[2] \in Ends(w[1], e[1])
    <2>1. w[1] = r /\ w[2] \in Ends(r, e[1]) /\ w = <<w[1], w[2]>>
      BY <1>2
    <2>2. w[2] \in Nat
      BY <1>1, <2>1, EndsAre
    <2> QED BY <2>1, <2>2
  <1>3. ASSUME w \in Resolution \X Nat, w[2] \in Ends(w[1], e[1])
        PROVE  w \in {w[1]} \X Ends(w[1], e[1])
    BY <1>3
  <1> QED BY <1>2, <1>3 DEF WindowsOf

(* It marks those that end by the tracker's watermark, and misses those     *)
(* that the idle clock has fired beyond it.                                 *)
LEMMA AddMarks ==
  ASSUME TypeOK, NEW e \in Event, Add(e)
  PROVE  \E mark \in Nat :
           /\ base <= mark /\ mark <= now /\ base' = mark
           /\ mark - Lateness <= e[1]
           /\ \A w : w \in dirty' <=>
                \/ w \in dirty
                \/ w \in Resolution \X Nat /\ w[2] \in Ends(w[1], e[1]) /\ w[2] <= mark
           /\ \A w : w \in missed' <=>
                \/ w \in missed
                \/ /\ w \in Resolution \X Nat /\ w[2] \in Ends(w[1], e[1])
                   /\ w[2] > mark /\ w[2] <= watermark
           /\ outrun' = IF mark < watermark THEN watermark ELSE outrun
  <1>1. PICK mark \in base .. now :
          /\ e[1] >= mark - Lateness
          /\ base' = mark
          /\ dirty' = dirty \cup {w \in WindowsOf(e) : w[2] <= mark}
          /\ missed' = missed \cup {w \in WindowsOf(e) : w[2] > mark /\ w[2] <= watermark}
          /\ outrun' = IF mark < watermark THEN watermark ELSE outrun
    BY DEF Add
  <1>2. e[1] \in Nat
    BY GeometryOK DEF Event
  <1>3. mark \in Nat /\ base <= mark /\ mark <= now /\ mark - Lateness <= e[1]
    BY <1>1, <1>2, WatermarkType
  <1>4. /\ \A w : w \in dirty' <=>
             \/ w \in dirty
             \/ w \in Resolution \X Nat /\ w[2] \in Ends(w[1], e[1]) /\ w[2] <= mark
        /\ \A w : w \in missed' <=>
             \/ w \in missed
             \/ /\ w \in Resolution \X Nat /\ w[2] \in Ends(w[1], e[1])
                /\ w[2] > mark /\ w[2] <= watermark
    BY <1>1, WindowsAre
  <1> QED BY <1>1, <1>3, <1>4

LEMMA ResultType ==
  ASSUME TypeInv, NEW w, Fired(w)
  PROVE  /\ Result(w) \in Written
         /\ Result(w).end = w[2] /\ Result(w).at = now
         /\ Result(w).clicks = CountOf("click", w)
         /\ Result(w).purchases = CountOf("purchase", w)
  <1>1. w[2] \in Nat /\ now \in Nat
    BY WatermarkType DEF Fired, TypeInv
  <1> QED BY <1>1, CountType DEF TypeInv, Result, Written

(* RedisHashSink.write takes the first window of the emission.              *)
LEMMA WriteTakes ==
  ASSUME TypeInv, Write
  PROVE  \E w : /\ Len(queue) \in Nat \ {0} /\ w = queue[1] /\ Fired(w) /\ dirty = {}
                /\ queue' \in Seq(Resolution \X Nat) /\ Len(queue') = Len(queue) - 1
                /\ \A i \in 1 .. Len(queue') : queue'[i] = queue[i + 1]
                /\ \A v : Pending(v)' => Pending(v)
                /\ \A v : Pending(v) /\ v # w => Pending(v)'
                /\ hash' \in [Resolution -> Written \cup {None}]
                /\ hash'[w[1]] = Result(w)
                /\ \A r \in Resolution : r # w[1] => hash'[r] = hash[r] \/ hash'[r] = None
                /\ \/ avg' = w[2] /\ w[1] = Largest /\ CountOf("purchase", w) > 0
                   \/ /\ avg' = avg \/ avg' = None
                      /\ ~ (w[1] = Largest /\ CountOf("purchase", w) > 0)
                /\ deadline' = now + Ttl(w[1])
                /\ UNCHANGED <<eos, now, events, watermark, base, dirty, missed, outrun>>
  <1>1. PICK w : w = queue[1]
    OBVIOUS
  <1>2. queue \in Seq(Resolution \X Nat) /\ queue # <<>> /\ dirty = {} /\ dirty' = {}
    BY DEF Write, TypeInv, Shape
  <1>3. Len(queue) \in Nat \ {0} /\ Head(queue) = w
    BY <1>1, <1>2
  <1>4. queue' = Tail(queue)
    BY DEF Write
  <1>5. /\ queue' \in Seq(Resolution \X Nat) /\ Len(queue') = Len(queue) - 1
        /\ \A i \in 1 .. Len(queue') : queue'[i] = queue[i + 1]
    BY <1>2, <1>4
  <1>6. Pending(w) /\ Fired(w)
    <2>1. 1 \in 1 .. Len(queue)
      BY <1>3
    <2>2. Pending(w) /\ w[2] <= watermark
      BY <1>1, <2>1 DEF Pending, TypeInv, TypeOK
    <2> QED BY <2>2 DEF TypeInv, Shape, Marked, Fired
  <1>7. ASSUME NEW v, Pending(v)' PROVE Pending(v)
    <2>1. PICK i \in 1 .. Len(queue') : queue'[i] = v
      BY <1>2, <1>7 DEF Pending
    <2>2. i + 1 \in 1 .. Len(queue) /\ queue[i + 1] = v
      BY <1>3, <1>5, <2>1
    <2> QED BY <2>2 DEF Pending
  <1>8. ASSUME NEW v, Pending(v), v # w PROVE Pending(v)'
    <2>1. PICK i \in 1 .. Len(queue) : queue[i] = v
      BY <1>2, <1>8 DEF Pending
    <2>2. i # 1
      BY <1>1, <1>8, <2>1
    <2>3. i - 1 \in 1 .. Len(queue') /\ (i - 1) + 1 = i
      BY <1>3, <1>5, <2>1, <2>2
    <2>4. queue'[i - 1] = v
      BY <1>5, <2>1, <2>3
    <2> QED BY <2>3, <2>4 DEF Pending
  <1>9. PICK kept : /\ kept = IF Live THEN hash ELSE [x \in Resolution |-> None]
                    /\ hash' = [kept EXCEPT ![w[1]] = Result(w)]
    BY <1>3 DEF Write
  <1>10. /\ kept \in [Resolution -> Written \cup {None}]
         /\ \A r \in Resolution : kept[r] = hash[r] \/ kept[r] = None
    BY <1>9 DEF TypeInv, Shape
  <1>11. w[1] \in Resolution /\ Result(w) \in Written
         /\ Result(w).purchases = CountOf("purchase", w) /\ Result(w).end = w[2]
    BY <1>6, ResultType DEF Fired
  <1>12. /\ hash' \in [Resolution -> Written \cup {None}]
         /\ hash'[w[1]] = Result(w)
         /\ \A r \in Resolution : r # w[1] => hash'[r] = hash[r] \/ hash'[r] = None
    BY <1>9, <1>10, <1>11
  <1>13. /\ avg' = IF w[1] = Largest /\ Result(w).purchases > 0 THEN Result(w).end
                   ELSE IF Live THEN avg ELSE None
         /\ deadline' = now + Ttl(w[1])
         /\ UNCHANGED <<eos, now, events, watermark, base, dirty, missed, outrun>>
    BY <1>3 DEF Write, Expiry
  <1>14. \/ avg' = w[2] /\ w[1] = Largest /\ CountOf("purchase", w) > 0
         \/ /\ avg' = avg \/ avg' = None
            /\ ~ (w[1] = Largest /\ CountOf("purchase", w) > 0)
    BY <1>11, <1>13
  <1> QED BY <1>1, <1>2, <1>3, <1>5, <1>6, <1>7, <1>8, <1>12, <1>13, <1>14

-----------------------------------------------------------------------------
(* Types.                                                                   *)

LEMMA AddType ==
  ASSUME TypeInv, NEW e \in Event, Add(e)
  PROVE  TypeInv'
  <1>1. TypeOK /\ Shape
    BY DEF TypeInv
  <1>2. /\ queue = <<>> /\ events' = events \cup {e} /\ e \notin events
        /\ Cardinality(events) < MaxEvents
        /\ UNCHANGED <<eos, now, watermark, queue, hash, avg, deadline>>
        /\ \A w : Pending(w)' <=> w \in dirty'
        /\ \A w : Contents(w) \subseteq Contents(w)'
        /\ \A w : w[2] \in Ends(w[1], e[1]) => e \in Contents(w)'
    BY <1>1, AddFolds
  <1>3. PICK mark \in Nat :
          /\ base <= mark /\ mark <= now /\ base' = mark
          /\ \A w : w \in dirty' <=>
               \/ w \in dirty
               \/ w \in Resolution \X Nat /\ w[2] \in Ends(w[1], e[1]) /\ w[2] <= mark
          /\ \A w : w \in missed' <=>
               \/ w \in missed
               \/ /\ w \in Resolution \X Nat /\ w[2] \in Ends(w[1], e[1])
                  /\ w[2] > mark /\ w[2] <= watermark
          /\ outrun' = IF mark < watermark THEN watermark ELSE outrun
    BY <1>1, AddMarks
  <1>4. /\ events' \subseteq Event /\ IsFiniteSet(events')
        /\ Cardinality(events') <= MaxEvents
    <2>1. /\ IsFiniteSet(events') /\ Cardinality(events') = Cardinality(events) + 1
          /\ Cardinality(events) \in Nat
      BY <1>1, <1>2, FS_AddElement, FS_CardinalityType DEF Shape
    <2>2. Cardinality(events) < MaxEvents /\ MaxEvents \in Nat
      BY <1>2, GeometryOK
    <2> QED BY <1>1, <1>2, <2>1, <2>2 DEF TypeOK
  <1>5. ASSUME NEW w \in dirty' PROVE Marked(w)'
    <2>1. CASE w \in dirty
      <3>1. Marked(w)
        BY <1>1, <2>1 DEF Shape, Pending
      <3> QED BY <1>1, <1>2, <1>3, <3>1, WatermarkType DEF Marked
    <2>2. CASE w \in Resolution \X Nat /\ w[2] \in Ends(w[1], e[1]) /\ w[2] <= mark
      BY <1>2, <1>3, <2>2 DEF Marked
    <2> QED BY <1>3, <2>1, <2>2
  <1>6. \A w \in dirty' : w[1] \in Resolution /\ (w[2] <= watermark' \/ w[2] <= base')
    BY <1>5 DEF Marked
  <1>7. base' \in 0 .. now' /\ outrun' \in 0 .. watermark'
    BY <1>1, <1>2, <1>3, WatermarkType
  <1>8. ASSUME NEW w \in missed' PROVE w \in Resolution \X (0 .. outrun')
    <2>1. CASE w \in missed
      <3>1. w \in Resolution \X (0 .. outrun)
        BY <1>1, <2>1 DEF TypeOK
      <3>2. CASE mark < watermark
        <4>1. outrun' = watermark /\ outrun <= watermark
          BY <1>1, <1>3, <3>2, WatermarkType
        <4> QED BY <1>1, <3>1, <4>1, WatermarkType
      <3> QED BY <1>3, <3>1, <3>2
    <2>2. CASE w \in Resolution \X Nat /\ w[2] > mark /\ w[2] <= watermark
      BY <1>1, <1>3, <2>2, WatermarkType
    <2> QED BY <1>3, <2>1, <2>2
  <1>9. TypeOK'
    BY <1>1, <1>2, <1>4, <1>6, <1>7, <1>8 DEF TypeOK
  <1>10. Shape'
    BY <1>1, <1>2, <1>4, <1>5 DEF Shape
  <1> QED BY <1>9, <1>10 DEF TypeInv

LEMMA EmitType ==
  ASSUME TypeInv, Emit
  PROVE  TypeInv'
  <1>1. TypeOK /\ Shape
    BY DEF TypeInv
  <1>2. PICK new \in Nat :
          /\ watermark <= new /\ base <= new /\ new <= now /\ watermark' = new
          /\ queue' \in Seq(Resolution \X Nat)
          /\ \A w : Pending(w)' <=> w \in Closing(new) \/ w \in dirty
    BY <1>1, EmitQueues
  <1>3. /\ UNCHANGED <<eos, now, events, base, hash, avg, deadline, missed, outrun>>
        /\ dirty' = {}
    BY DEF Emit
  <1>4. \A w : Contents(w)' = Contents(w)
    BY <1>3 DEF Contents
  <1>5. \A w : Pending(w)' => Fired(w)'
    <2>1. ASSUME NEW w \in Closing(new) PROVE Fired(w)'
      BY <1>1, <1>2, <1>4, <2>1, ClosingAre DEF Fired
    <2>2. ASSUME NEW w \in dirty PROVE Fired(w)'
      <3>1. Marked(w)
        BY <1>1, <2>2 DEF Shape, Pending
      <3>2. w[2] \in Nat /\ w[2] <= new
        BY <1>1, <1>2, <3>1, WatermarkType DEF Marked
      <3> QED BY <1>2, <1>4, <3>1, <3>2 DEF Fired, Marked
    <2> QED BY <1>2, <2>1, <2>2
  <1>6. \A i \in 1 .. Len(queue') : queue'[i][1] \in Resolution /\ queue'[i][2] <= watermark'
    BY <1>5 DEF Pending, Fired
  <1>7. watermark' \in 0 .. now' /\ now' - watermark' <= MaxLag /\ outrun' \in 0 .. watermark'
    BY <1>1, <1>2, <1>3, WatermarkType
  <1>8. TypeOK'
    BY <1>1, <1>3, <1>6, <1>7 DEF TypeOK
  <1>9. \A r \in Resolution : hash'[r] # None => hash'[r].end <= watermark'
    <2> SUFFICES ASSUME NEW r \in Resolution, hash[r] # None
                 PROVE  hash[r].end <= new
      BY <1>2, <1>3
    <2>1. hash[r].end \in Nat /\ hash[r].end <= watermark
      BY <1>1 DEF Shape, Written
    <2> QED BY <1>1, <1>2, <2>1, WatermarkType
  <1>10. Shape'
    <2>1. \A w : Pending(w)' => Marked(w)'
      BY <1>5 DEF Fired, Marked
    <2> QED BY <1>1, <1>2, <1>3, <1>9, <2>1 DEF Shape
  <1> QED BY <1>8, <1>10 DEF TypeInv

LEMMA WriteType ==
  ASSUME TypeInv, Write
  PROVE  TypeInv'
  <1>1. TypeOK /\ Shape
    BY DEF TypeInv
  <1>2. PICK w :
          /\ Len(queue) \in Nat \ {0} /\ w = queue[1] /\ Fired(w) /\ dirty = {}
          /\ queue' \in Seq(Resolution \X Nat) /\ Len(queue') = Len(queue) - 1
          /\ \A i \in 1 .. Len(queue') : queue'[i] = queue[i + 1]
          /\ \A v : Pending(v)' => Pending(v)
          /\ hash' \in [Resolution -> Written \cup {None}]
          /\ hash'[w[1]] = Result(w)
          /\ \A r \in Resolution : r # w[1] => hash'[r] = hash[r] \/ hash'[r] = None
          /\ \/ avg' = w[2] /\ w[1] = Largest /\ CountOf("purchase", w) > 0
             \/ /\ avg' = avg \/ avg' = None
                /\ ~ (w[1] = Largest /\ CountOf("purchase", w) > 0)
          /\ deadline' = now + Ttl(w[1])
          /\ UNCHANGED <<eos, now, events, watermark, base, dirty, missed, outrun>>
    BY WriteTakes
  <1>3. w \in Resolution \X Nat /\ w[1] \in Resolution /\ w[2] \in Nat /\ w[2] <= watermark
    BY <1>2 DEF Fired
  <1>4. /\ Result(w).end = w[2] /\ Result(w).at = now
        /\ Result(w).clicks = CountOf("click", w)
        /\ Result(w).purchases = CountOf("purchase", w)
    BY <1>2, ResultType
  <1>5. w[2] % Slide[w[1]] = 0
    <2>1. PICK e : e \in Contents(w)
      BY <1>2 DEF Fired
    <2> QED BY <1>1, <1>3, <2>1, InWindow
  <1>6. CountOf("click", w) + CountOf("purchase", w) \in 1 .. MaxEvents
    <2>1. /\ CountOf("click", w) \in Nat /\ CountOf("purchase", w) \in Nat
          /\ CountOf("click", w) + CountOf("purchase", w) <= Cardinality(events)
          /\ CountOf("click", w) + CountOf("purchase", w) >= 1
      BY <1>1, <1>2, CountType DEF Fired
    <2>2. Cardinality(events) <= MaxEvents /\ MaxEvents \in Nat /\ Cardinality(events) \in Nat
      BY <1>1, GeometryOK, FS_CardinalityType DEF TypeOK, Shape
    <2> QED BY <2>1, <2>2
  <1>7. watermark \in Nat /\ now \in Nat /\ watermark <= now
    BY <1>1, WatermarkType
  <1>8. ASSUME NEW r \in Resolution, hash'[r] # None
        PROVE  /\ hash'[r].end % Slide[r] = 0 /\ hash'[r].end <= hash'[r].at
               /\ hash'[r].at <= now
               /\ hash'[r].clicks + hash'[r].purchases \in 1 .. MaxEvents
               /\ hash'[r].end <= watermark
    <2>1. CASE r = w[1]
      BY <1>2, <1>3, <1>4, <1>5, <1>6, <1>7, <2>1
    <2>2. CASE r # w[1]
      <3>1. hash'[r] = hash[r]
        BY <1>2, <1>8, <2>2
      <3> QED BY <1>1, <1>8, <3>1 DEF TypeOK, Shape
    <2> QED BY <2>1, <2>2
  <1>9. avg' # None => avg' % Slide[Largest] = 0
    BY <1>1, <1>2, <1>5 DEF TypeOK
  <1>10. deadline' \in Nat
    BY <1>2, <1>3, <1>7, GeometryType
  <1>11. \A i \in 1 .. Len(queue') : queue'[i][1] \in Resolution /\ queue'[i][2] <= watermark
    <2> SUFFICES ASSUME NEW i \in 1 .. Len(queue')
                 PROVE  queue'[i][1] \in Resolution /\ queue'[i][2] <= watermark
      OBVIOUS
    <2>1. i + 1 \in 1 .. Len(queue) /\ queue'[i] = queue[i + 1]
      BY <1>2
    <2> QED BY <1>1, <2>1 DEF TypeOK
  <1>12. TypeOK'
    BY <1>1, <1>2, <1>8, <1>9, <1>10, <1>11 DEF TypeOK
  <1>13. \A v : Marked(v)' <=> Marked(v)
    BY <1>2 DEF Marked, Contents
  <1>14. Shape'
    BY <1>1, <1>2, <1>8, <1>13 DEF Shape
  <1> QED BY <1>12, <1>14 DEF TypeInv

LEMMA TickType ==
  ASSUME TypeInv, Tick
  PROVE  TypeInv'
  <1>1. TypeOK /\ Shape
    BY DEF TypeInv
  <1>2. /\ now < MaxNow /\ now - watermark < MaxLag /\ now' = now + 1
        /\ UNCHANGED <<eos, events, watermark, base, dirty, queue, hash, avg, deadline,
                       missed, outrun>>
    BY DEF Tick
  <1>3. /\ now' \in 0 .. MaxNow /\ base' \in 0 .. now' /\ outrun' \in 0 .. watermark'
        /\ watermark' \in 0 .. now' /\ now' - watermark' <= MaxLag
    BY <1>1, <1>2, WatermarkType
  <1>4. \A r \in Resolution : hash[r] # None => hash[r].at <= now'
    <2> SUFFICES ASSUME NEW r \in Resolution, hash[r] # None PROVE hash[r].at <= now + 1
      BY <1>2
    <2>1. hash[r].at \in Nat /\ hash[r].at <= now
      BY <1>1 DEF TypeOK, Shape, Written
    <2> QED BY <1>1, <2>1, WatermarkType
  <1>5. TypeOK'
    BY <1>1, <1>2, <1>3, <1>4 DEF TypeOK
  <1>6. \A v : (Marked(v)' <=> Marked(v)) /\ (Pending(v)' <=> Pending(v))
    BY <1>2 DEF Marked, Contents, Pending
  <1>7. Shape'
    BY <1>1, <1>2, <1>6 DEF Shape
  <1> QED BY <1>5, <1>7 DEF TypeInv

LEMMA TypeStep == TypeInv /\ [Next]_vars => TypeInv'
  <1> SUFFICES ASSUME TypeInv, [Next]_vars PROVE TypeInv'
    OBVIOUS
  <1>1. CASE UNCHANGED vars
    BY <1>1 DEF vars, TypeInv, TypeOK, Shape, Pending, Marked, Contents
  <1> QED BY <1>1, AddType, EmitType, WriteType, TickType DEF Next

LEMMA TypeInvariant == Spec => []TypeInv
  <1>1. Init => TypeInv
    <2> SUFFICES ASSUME Init PROVE TypeInv
      OBVIOUS
    <2>1. IsFiniteSet({}) /\ Cardinality({}) = 0
      BY FS_EmptySet
    <2>2. MaxLag \in Nat /\ MaxEvents \in Nat /\ MaxNow \in Nat
      BY GeometryOK
    <2>3. TypeOK
      BY <2>1, <2>2 DEF Init, TypeOK
    <2>4. Shape
      BY <2>1 DEF Init, Shape, Pending
    <2> QED BY <2>3, <2>4 DEF TypeInv
  <1> QED BY <1>1, TypeStep, PTL DEF Spec

(* The type invariant: what the hash holds are counts of windows that had   *)
(* ended when they were written, at slide boundaries, with an event.        *)
THEOREM TypeCorrect == Spec => []TypeOK
  <1>1. TypeInv => TypeOK
    BY DEF TypeInv
  <1> QED BY <1>1, TypeInvariant, PTL

-----------------------------------------------------------------------------
(* Freshness.                                                               *)

LEMMA ClosedAre ==
  ASSUME TypeOK, NEW r \in Resolution, NEW x
  PROVE  x \in Closed(r) <=>
           x \in Nat /\ x <= watermark /\ \E e \in events : x \in Ends(r, e[1])
  <1>1. x \in Closed(r) <=> x <= watermark /\ \E e \in events : x \in Ends(r, e[1])
    BY DEF Closed
  <1>2. \A e \in events : x \in Ends(r, e[1]) => x \in Nat
    BY EventType, EndsAre
  <1> QED BY <1>1, <1>2

LEMMA ClosedNext ==
  ASSUME TypeOK', NEW r \in Resolution, NEW x
  PROVE  x \in Closed(r)' <=>
           x \in Nat /\ x <= watermark' /\ \E e \in events' : x \in Ends(r, e[1])
  <1>1. x \in Closed(r)' <=> x <= watermark' /\ \E e \in events' : x \in Ends(r, e[1])
    BY DEF Closed
  <1>2. ASSUME NEW e \in events', x \in Ends(r, e[1]) PROVE x \in Nat
    <2>1. e \in Event /\ LastEvent \in Nat
      BY GeometryOK DEF TypeOK
    <2>2. e[1] \in Nat
      BY <2>1 DEF Event
    <2> QED BY <1>2, <2>2, EndsAre
  <1> QED BY <1>1, <1>2

LEMMA FiredClosed ==
  ASSUME TypeOK, NEW w, Fired(w)
  PROVE  w[1] \in Resolution /\ w[2] \in Closed(w[1])
  <1>1. w[1] \in Resolution /\ w[2] \in Nat /\ w[2] <= watermark
    BY DEF Fired
  <1>2. PICK e : e \in Contents(w)
    BY DEF Fired
  <1>3. e \in events /\ w[2] \in Ends(w[1], e[1])
    BY <1>2 DEF Contents
  <1> QED BY <1>1, <1>3, ClosedAre

LEMMA AddFresh ==
  ASSUME TypeInv, FreshInv, NEW e \in Event, Add(e)
  PROVE  FreshInv'
  <1>1. TypeOK /\ Shape
    BY DEF TypeInv
  <1>2. /\ e[1] \in Nat /\ queue = <<>> /\ events' = events \cup {e}
        /\ UNCHANGED <<eos, now, watermark, queue, hash, avg, deadline>>
    BY <1>1, AddFolds
  <1>3. PICK mark \in Nat :
          /\ mark - Lateness <= e[1]
          /\ \A w : w \in dirty' <=>
               \/ w \in dirty
               \/ w \in Resolution \X Nat /\ w[2] \in Ends(w[1], e[1]) /\ w[2] <= mark
          /\ \A w : w \in missed' <=>
               \/ w \in missed
               \/ /\ w \in Resolution \X Nat /\ w[2] \in Ends(w[1], e[1])
                  /\ w[2] > mark /\ w[2] <= watermark
          /\ outrun' = IF mark < watermark THEN watermark ELSE outrun
    BY <1>1, AddMarks
  <1>4. /\ \A w : Pending(w)' <=> w \in dirty'
        /\ \A w : Pending(w) => Pending(w)'
    BY <1>1, AddFolds
  <1>5. \A w : w[2] \notin Ends(w[1], e[1]) => Contents(w)' = Contents(w)
    BY <1>1, AddFolds
  <1>6. TypeOK' /\ Shape'
    BY AddType DEF TypeInv
  <1>7. ASSUME NEW r \in Resolution, NEW x \in Nat, x \in Ends(r, e[1]), x <= watermark
        PROVE  \/ <<r, x>> \in dirty'
               \/ <<r, x>> \in missed' /\ x <= outrun'
    <2>1. CASE x <= mark
      BY <1>3, <1>7, <2>1
    <2>2. CASE x > mark
      <3>1. mark < watermark
        BY <1>1, <1>7, <2>2, WatermarkType
      <3> QED BY <1>3, <1>7, <2>2, <3>1
    <2> QED BY <2>1, <2>2
  <1>16. ASSUME NEW x \in Nat, x <= outrun \/ (mark < x /\ x <= watermark)
         PROVE  x <= outrun'
    BY <1>1, <1>3, <1>16, WatermarkType
  <1>8. ASSUME NEW r \in Resolution, NEW x \in Closed(r)'
        PROVE  /\ x \in Nat /\ x <= watermark
               /\ \/ x \in Closed(r)
                  \/ <<r, x>> \in dirty' \/ x <= outrun'
    <2>1. /\ x \in Nat /\ x <= watermark
          /\ \E d \in events \cup {e} : x \in Ends(r, d[1])
      BY <1>2, <1>6, ClosedNext
    <2> QED BY <1>1, <1>7, <2>1, ClosedAre
  <1>9. ASSUME NEW r \in Resolution, NEW x \in Closed(r)
        PROVE  x \in Closed(r)'
    BY <1>2 DEF Closed
  <1>10. DirtyUp'
    <2> SUFFICES ASSUME NEW w \in dirty', NEW x \in Closed(w[1])', x > w[2]
                 PROVE  <<w[1], x>> \in dirty' \/ x <= outrun'
      BY DEF DirtyUp
    <2>1. w \in Resolution \X Nat
      BY <1>4, <1>6 DEF Shape, Marked
    <2>2. CASE x \notin Closed(w[1])
      BY <1>8, <2>1, <2>2
    <2>3. CASE w \in dirty /\ x \in Closed(w[1])
      <3>1. <<w[1], x>> \in dirty \/ x <= outrun
        BY <2>3 DEF FreshInv, DirtyUp
      <3>2. x \in Nat
        BY <1>8, <2>1
      <3> QED BY <1>3, <1>16, <3>1, <3>2
    <2>4. CASE w[2] \in Ends(w[1], e[1]) /\ x \in Closed(w[1])
      <3>1. /\ x \in Nat /\ x <= watermark /\ \E d \in events : x \in Ends(w[1], d[1])
        BY <1>1, <2>1, <2>4, ClosedAre
      <3>2. x % Slide[w[1]] = 0
        BY <1>1, <2>1, <3>1, EventType, EndsAre
      <3>3. e[1] < x
        BY <1>2, <2>1, <2>4, <3>1, EndsAre
      <3>4. CASE x > e[1] + Size[w[1]]
        <4>1. /\ Lateness \in Nat /\ Lateness < Size[Smallest]
              /\ Size[Smallest] \in Nat /\ Size[w[1]] \in Nat
              /\ Size[Smallest] <= Size[w[1]]
          BY <2>1, GeometryOK, Extremes, GeometryType
        <4>2. mark < x
          BY <1>2, <1>3, <3>1, <3>4, <4>1
        <4> QED BY <1>16, <3>1, <4>2
      <3>5. CASE x <= e[1] + Size[w[1]]
        <4>1. x \in Ends(w[1], e[1])
          BY <1>2, <2>1, <3>1, <3>2, <3>3, <3>5, EndsAre
        <4> QED BY <1>7, <2>1, <3>1, <4>1
      <3>6. Size[w[1]] \in Nat
        BY <2>1, GeometryType
      <3> QED BY <1>2, <3>1, <3>4, <3>5, <3>6
    <2> QED BY <1>3, <2>2, <2>3, <2>4
  <1>11. ASSUME NEW r \in Resolution, NEW x \in Nat, NEW kind, x <= watermark
         PROVE  \/ <<r, x>> \in dirty'
                \/ <<r, x>> \in missed' /\ x <= outrun'
                \/ CountOf(kind, <<r, x>>)' = CountOf(kind, <<r, x>>)
    <2>1. CASE x \in Ends(r, e[1])
      BY <1>7, <1>11, <2>1
    <2>2. CASE x \notin Ends(r, e[1])
      <3>1. Contents(<<r, x>>)' = Contents(<<r, x>>)
        BY <1>5, <2>2
      <3> QED BY <3>1 DEF CountOf
    <2> QED BY <2>1, <2>2
  <1>12. ASSUME NEW r \in Resolution PROVE Counted(r)'
    <2> SUFFICES ASSUME hash[r] # None PROVE Counted(r)'
      BY <1>2 DEF Counted
    <2>1. hash[r].end \in Nat /\ hash[r].end <= watermark
      BY <1>1 DEF Shape, Written
    <2>2. Counted(r)
      BY DEF FreshInv
    <2>3. CASE Pending(<<r, hash[r].end>>) \/ <<r, hash[r].end>> \in missed
      BY <1>2, <1>3, <1>4, <2>3 DEF Counted
    <2>4. CASE /\ hash[r].clicks = CountOf("click", <<r, hash[r].end>>)
               /\ hash[r].purchases = CountOf("purchase", <<r, hash[r].end>>)
      BY <1>2, <1>4, <1>11, <2>1, <2>4 DEF Counted
    <2> QED BY <2>2, <2>3, <2>4 DEF Counted
  <1>13. ASSUME NEW x \in Nat, Bought(x) PROVE Bought(x)'
    <2>1. PICK A, B : /\ A = {d \in Contents(<<Largest, x>>) : d[2] = "purchase"}
                      /\ B = {d \in Contents(<<Largest, x>>)' : d[2] = "purchase"}
      OBVIOUS
    <2>2. A \subseteq B /\ B \subseteq events'
      BY <1>1, <2>1, AddFolds DEF Contents
    <2>3. IsFiniteSet(B)
      BY <1>6, <2>2, FS_Subset DEF Shape
    <2>4. IsFiniteSet(A) /\ Cardinality(A) <= Cardinality(B)
      BY <2>2, <2>3, FS_Subset
    <2>5. Cardinality(A) \in Nat /\ Cardinality(B) \in Nat
      BY <2>3, <2>4, FS_CardinalityType
    <2>6. Cardinality(A) > 0
      BY <1>13, <2>1 DEF Bought, CountOf
    <2>7. Cardinality(B) > 0
      BY <2>4, <2>5, <2>6
    <2> QED BY <2>1, <2>7 DEF Bought, CountOf
  <1>14. Averaged'
    BY <1>2, <1>13 DEF FreshInv, Averaged
  <1>15. ASSUME ~eos PROVE QueueUp' /\ LatestAverage' /\ \A r \in Resolution : Latest(r)'
    <2>1. QueueUp'
      BY <1>2 DEF QueueUp
    <2>2. ASSUME NEW r \in Resolution PROVE Latest(r)'
      <3> SUFFICES ASSUME hash[r] # None PROVE Latest(r)'
        BY <1>2 DEF Latest
      <3>1. /\ hash[r].end \in Closed(r)
            /\ \A x \in Closed(r) :
                 x > hash[r].end => Pending(<<r, x>>) \/ x <= outrun
        BY <1>15 DEF FreshInv, Latest
      <3>2. hash[r].end \in Closed(r)'
        BY <1>9, <3>1
      <3>3. ASSUME NEW x \in Closed(r)', x > hash[r].end
            PROVE  Pending(<<r, x>>)' \/ x <= outrun'
        BY <1>4, <1>8, <1>16, <3>1, <3>3
      <3> QED BY <1>2, <3>2, <3>3 DEF Latest
    <2>3. LatestAverage'
      <3> SUFFICES ASSUME avg # None, NEW x \in Closed(Largest)', x > avg, Bought(x)'
                   PROVE  Pending(<<Largest, x>>)' \/ x <= outrun'
        BY <1>2 DEF LatestAverage
      <3>1. x \in Nat /\ x <= watermark /\ Largest \in Resolution
        BY <1>8, Extremes
      <3>2. CASE <<Largest, x>> \in dirty' \/ x <= outrun'
        BY <1>4, <3>2
      <3>3. CASE <<Largest, x>> \notin dirty' /\ ~ (x <= outrun')
        <4>1. x \in Closed(Largest)
          BY <1>8, <3>1, <3>3
        <4>2. Bought(x)
          BY <1>11, <3>1, <3>3 DEF Bought
        <4>3. Pending(<<Largest, x>>) \/ x <= outrun
          BY <1>15, <4>1, <4>2 DEF FreshInv, LatestAverage
        <4> QED BY <1>4, <1>16, <3>1, <4>3
      <3> QED BY <3>2, <3>3
    <2> QED BY <2>1, <2>2, <2>3
  <1> QED BY <1>2, <1>10, <1>12, <1>14, <1>15 DEF FreshInv

LEMMA EmitFresh ==
  ASSUME TypeInv, FreshInv, Emit
  PROVE  FreshInv'
  <1>1. TypeOK /\ Shape
    BY DEF TypeInv
  <1>2. PICK new \in Nat :
          /\ watermark <= new /\ new <= now /\ watermark' = new
          /\ eos \/ dirty = {} \/ new = watermark
          /\ queue' \in Seq(Resolution \X Nat)
          /\ \A w : Pending(w)' <=> w \in Closing(new) \/ w \in dirty
          /\ eos \/ \A i, j \in 1 .. Len(queue') :
               i < j /\ queue'[i][1] = queue'[j][1] => queue'[i][2] < queue'[j][2]
    BY <1>1, EmitQueues
  <1>3. /\ UNCHANGED <<eos, now, events, hash, avg, deadline, missed, outrun>>
        /\ dirty' = {} /\ queue = <<>>
    BY DEF Emit
  <1>4. /\ \A w : Contents(w)' = Contents(w)
        /\ \A w, kind : CountOf(kind, w)' = CountOf(kind, w)
    BY <1>3 DEF Contents, CountOf
  <1>5. TypeOK' /\ Shape'
    BY EmitType DEF TypeInv
  <1>6. \A w : Pending(w) => Pending(w)'
    BY <1>2, <1>3 DEF Pending
  <1>7. ASSUME NEW r \in Resolution, NEW x \in Closed(r)'
        PROVE  /\ x \in Nat
               /\ (x \in Closed(r) /\ x <= watermark) \/ (x > watermark /\ Pending(<<r, x>>)')
    <2>1. /\ x \in Nat /\ x <= new
          /\ \E d \in events : x \in Ends(r, d[1])
      BY <1>2, <1>3, <1>5, ClosedNext
    <2>2. watermark \in Nat
      BY <1>1, WatermarkType
    <2>3. CASE x <= watermark
      BY <1>1, <2>1, <2>3, ClosedAre
    <2>4. CASE x > watermark
      <3>1. Contents(<<r, x>>) # {} /\ <<r, x>> \in Resolution \X Nat
        BY <2>1 DEF Contents
      <3>2. <<r, x>> \in Closing(new)
        BY <1>1, <2>1, <2>4, <3>1, ClosingAre
      <3> QED BY <1>2, <2>1, <2>4, <3>2
    <2> QED BY <2>1, <2>2, <2>3, <2>4
  <1>8. ASSUME NEW r \in Resolution, NEW x \in Closed(r)
        PROVE  x \in Closed(r)'
    <2>1. x \in Nat /\ x <= watermark /\ \E d \in events : x \in Ends(r, d[1])
      BY <1>1, ClosedAre
    <2>2. x <= watermark'
      BY <1>1, <1>2, <2>1, WatermarkType
    <2> QED BY <1>3, <1>5, <2>1, <2>2, ClosedNext
  <1>9. DirtyUp'
    BY <1>3 DEF DirtyUp
  <1>10. \A r \in Resolution : Counted(r)'
    BY <1>3, <1>4, <1>6 DEF FreshInv, Counted
  <1>11. Averaged'
    BY <1>3, <1>4 DEF FreshInv, Averaged, Bought
  <1>12. ASSUME ~eos PROVE QueueUp'
    <2> SUFFICES ASSUME NEW i \in 1 .. Len(queue'), NEW x \in Closed(queue[i][1])',
                        x > queue'[i][2]
                 PROVE  \/ \E j \in i + 1 .. Len(queue') : queue'[j] = <<queue'[i][1], x>>
                        \/ x <= outrun
      BY <1>3 DEF QueueUp
    <2>1. PICK w : w = queue'[i] /\ x \in Closed(w[1])'
      OBVIOUS
    <2>2. Pending(w)' /\ w \in Resolution \X Nat /\ w[2] \in Nat
      BY <1>2, <2>1 DEF Pending
    <2>3. x \in Nat
      BY <1>7, <2>1, <2>2
    <2>4. Pending(<<w[1], x>>)' \/ x <= outrun
      <3>1. CASE x \notin Closed(w[1])
        BY <1>7, <2>1, <2>2, <3>1
      <3>2. CASE x \in Closed(w[1]) /\ w \in dirty
        BY <1>2, <2>1, <3>2 DEF FreshInv, DirtyUp
      <3>3. CASE x \in Closed(w[1]) /\ w \in Closing(new)
        <4>1. x <= watermark /\ w[2] > watermark /\ watermark \in Nat
          BY <1>1, <2>2, <3>3, ClosedAre, ClosingAre, WatermarkType
        <4> QED BY <2>1, <2>2, <2>3, <4>1
      <3> QED BY <1>2, <2>2, <3>1, <3>2, <3>3
    <2> SUFFICES ASSUME ~ (x <= outrun)
                 PROVE  \E j \in i + 1 .. Len(queue') : queue'[j] = <<queue'[i][1], x>>
      OBVIOUS
    <2>5. PICK j \in 1 .. Len(queue') : queue'[j] = <<w[1], x>>
      BY <1>3, <2>4 DEF Pending
    <2>6. queue'[i][1] = queue'[j][1] /\ queue'[j][2] = x /\ queue'[i][2] < x
      BY <2>1, <2>5
    <2>7. ~ (j < i)
      BY <1>2, <1>12, <2>1, <2>2, <2>3, <2>6
    <2>8. j # i
      BY <2>1, <2>2, <2>3, <2>6
    <2>9. j \in i + 1 .. Len(queue')
      BY <1>2, <2>7, <2>8
    <2> QED BY <2>1, <2>5, <2>9
  <1>13. ASSUME ~eos, NEW r \in Resolution PROVE Latest(r)'
    BY <1>3, <1>6, <1>7, <1>8, <1>13 DEF FreshInv, Latest
  <1>14. ASSUME ~eos PROVE LatestAverage'
    <2> SUFFICES ASSUME avg # None, NEW x \in Closed(Largest)', x > avg, Bought(x)'
                 PROVE  Pending(<<Largest, x>>)' \/ x <= outrun
      BY <1>3 DEF LatestAverage
    <2>1. Bought(x)
      BY <1>4 DEF Bought
    <2> QED BY <1>6, <1>7, <1>14, <2>1, Extremes DEF FreshInv, LatestAverage
  <1> QED BY <1>3, <1>9, <1>10, <1>11, <1>12, <1>13, <1>14 DEF FreshInv

LEMMA WriteFresh ==
  ASSUME TypeInv, FreshInv, Write
  PROVE  FreshInv'
  <1>1. TypeOK /\ Shape
    BY DEF TypeInv
  <1>2. PICK w :
          /\ Len(queue) \in Nat \ {0} /\ w = queue[1] /\ Fired(w) /\ dirty = {}
          /\ queue' \in Seq(Resolution \X Nat) /\ Len(queue') = Len(queue) - 1
          /\ \A i \in 1 .. Len(queue') : queue'[i] = queue[i + 1]
          /\ \A v : Pending(v) /\ v # w => Pending(v)'
          /\ hash' \in [Resolution -> Written \cup {None}]
          /\ hash'[w[1]] = Result(w)
          /\ \A r \in Resolution : r # w[1] => hash'[r] = hash[r] \/ hash'[r] = None
          /\ \/ avg' = w[2] /\ w[1] = Largest /\ CountOf("purchase", w) > 0
             \/ /\ avg' = avg \/ avg' = None
                /\ ~ (w[1] = Largest /\ CountOf("purchase", w) > 0)
          /\ UNCHANGED <<eos, now, events, watermark, dirty, missed, outrun>>
    BY WriteTakes
  <1>3. w \in Resolution \X Nat /\ w = <<w[1], w[2]>> /\ w[2] \in Nat
    BY <1>2 DEF Fired
  <1>4. /\ Result(w).end = w[2]
        /\ Result(w).clicks = CountOf("click", w)
        /\ Result(w).purchases = CountOf("purchase", w)
    BY <1>2, ResultType
  <1>5. /\ \A v, kind : CountOf(kind, v)' = CountOf(kind, v)
        /\ \A r : Closed(r)' = Closed(r)
    BY <1>2 DEF Contents, CountOf, Closed
  <1>6. DirtyUp'
    BY <1>2 DEF DirtyUp
  <1>7. ASSUME NEW r \in Resolution PROVE Counted(r)'
    <2>1. CASE r = w[1]
      BY <1>2, <1>3, <1>4, <1>5, <2>1 DEF Counted
    <2>2. CASE r # w[1]
      <3>1. CASE hash'[r] = None
        BY <3>1 DEF Counted
      <3>2. CASE hash'[r] = hash[r]
        <4>1. <<r, hash[r].end>> # w
          BY <1>3, <2>2
        <4> QED BY <1>2, <1>5, <3>2, <4>1 DEF FreshInv, Counted
      <3> QED BY <1>2, <2>2, <3>1, <3>2
    <2> QED BY <2>1, <2>2
  <1>8. Averaged'
    <2>1. CASE avg' = w[2] /\ w[1] = Largest /\ CountOf("purchase", w) > 0
      BY <1>3, <1>5, <2>1 DEF Averaged, Bought
    <2>2. CASE avg' = avg
      BY <1>5, <2>2 DEF FreshInv, Averaged, Bought
    <2>3. CASE avg' = None
      BY <2>3 DEF Averaged
    <2> QED BY <1>2, <2>1, <2>2, <2>3
  <1>9. ASSUME ~eos, NEW x \in Closed(w[1]), x > w[2], ~ (x <= outrun)
        PROVE  Pending(<<w[1], x>>)'
    <2>1. 1 \in 1 .. Len(queue)
      BY <1>2
    <2>2. PICK j \in 1 + 1 .. Len(queue) : queue[j] = <<w[1], x>>
      <3>1. QueueUp /\ x \in Closed(queue[1][1]) /\ x > queue[1][2]
        BY <1>2, <1>9 DEF FreshInv
      <3>2. \E j \in 1 + 1 .. Len(queue) : queue[j] = <<queue[1][1], x>>
        BY <1>9, <2>1, <3>1 DEF QueueUp
      <3> QED BY <1>2, <3>2
    <2>3. j - 1 \in 1 .. Len(queue') /\ (j - 1) + 1 = j
      <3>1. PICK L \in Nat, M \in Nat : L = Len(queue) /\ M = Len(queue') /\ M = L - 1
        BY <1>2
      <3>2. j - 1 \in 1 .. M /\ (j - 1) + 1 = j
        BY <2>2, <3>1
      <3> QED BY <3>1, <3>2
    <2>4. queue'[j - 1] = <<w[1], x>>
      <3>1. queue'[j - 1] = queue[(j - 1) + 1]
        BY <1>2, <2>3
      <3> QED BY <2>2, <2>3, <3>1
    <2> QED BY <2>3, <2>4 DEF Pending
  <1>10. ASSUME ~eos PROVE QueueUp'
    <2> SUFFICES ASSUME NEW i \in 1 .. Len(queue'), NEW x \in Closed(queue[i][1])',
                        x > queue'[i][2], ~ (x <= outrun)
                 PROVE  \E j \in i + 1 .. Len(queue') : queue'[j] = <<queue'[i][1], x>>
      BY <1>2 DEF QueueUp
    <2>1. i + 1 \in 1 .. Len(queue) /\ queue'[i] = queue[i + 1]
      BY <1>2
    <2>2. PICK j \in (i + 1) + 1 .. Len(queue) : queue[j] = <<queue[i + 1][1], x>>
      <3>1. QueueUp
        BY <1>10 DEF FreshInv
      <3>2. x \in Closed(queue[i + 1][1]) /\ x > queue[i + 1][2]
        <4>1. PICK r : r = queue'[i][1] /\ x \in Closed(r)'
          OBVIOUS
        <4>2. x \in Closed(r)
          BY <1>5, <4>1
        <4> QED BY <2>1, <4>1, <4>2
      <3>3. PICK k \in 1 .. Len(queue) : k = i + 1
        BY <2>1
      <3>4. PICK j \in k + 1 .. Len(queue) : queue[j] = <<queue[k][1], x>>
        BY <3>1, <3>2, <3>3 DEF QueueUp
      <3>5. j \in (i + 1) + 1 .. Len(queue)
        BY <3>3
      <3> QED BY <3>3, <3>4, <3>5
    <2>3. j - 1 \in i + 1 .. Len(queue') /\ j - 1 \in 1 .. Len(queue') /\ (j - 1) + 1 = j
      <3>1. PICK L \in Nat, M \in Nat : L = Len(queue) /\ M = Len(queue') /\ M = L - 1
        BY <1>2
      <3>2. i \in 1 .. M /\ j \in (i + 1) + 1 .. L
        BY <2>2, <3>1
      <3>3. j - 1 \in i + 1 .. M /\ j - 1 \in 1 .. M /\ (j - 1) + 1 = j
        BY <3>1, <3>2
      <3> QED BY <3>1, <3>3
    <2> QED BY <1>2, <2>1, <2>2, <2>3
  <1>11. ASSUME ~eos, NEW r \in Resolution PROVE Latest(r)'
    <2>1. CASE r = w[1]
      <3>1. w[2] \in Closed(w[1])
        BY <1>1, <1>2, FiredClosed
      <3>2. \A x \in Closed(w[1]) : x > w[2] => Pending(<<w[1], x>>)' \/ x <= outrun
        BY <1>9, <1>11
      <3> QED BY <1>2, <1>4, <1>5, <1>11, <2>1, <3>1, <3>2 DEF Latest
    <2>2. CASE r # w[1]
      <3>1. CASE hash'[r] = None
        BY <3>1 DEF Latest
      <3>2. CASE hash'[r] = hash[r]
        <4>1. \A x : <<r, x>> # w
          BY <1>3, <2>2
        <4> QED BY <1>2, <1>5, <1>11, <3>2, <4>1 DEF FreshInv, Latest
      <3> QED BY <1>2, <2>2, <3>1, <3>2
    <2> QED BY <2>1, <2>2
  <1>12. ASSUME ~eos PROVE LatestAverage'
    <2> SUFFICES ASSUME avg' # None, NEW x \in Closed(Largest), x > avg', Bought(x),
                        ~ (x <= outrun)
                 PROVE  Pending(<<Largest, x>>)'
      BY <1>2, <1>5 DEF LatestAverage, Bought
    <2>1. CASE avg' = w[2] /\ w[1] = Largest
      BY <1>9, <1>12, <2>1
    <2>2. CASE avg' = avg /\ ~ (w[1] = Largest /\ CountOf("purchase", w) > 0)
      <3>1. Pending(<<Largest, x>>)
        BY <1>12, <2>2 DEF FreshInv, LatestAverage
      <3>2. <<Largest, x>> # w
        BY <2>2 DEF Bought
      <3> QED BY <1>2, <3>1, <3>2
    <2> QED BY <1>2, <2>1, <2>2
  <1> QED BY <1>2, <1>6, <1>7, <1>8, <1>10, <1>11, <1>12 DEF FreshInv

LEMMA FreshStep == TypeInv /\ FreshInv /\ [Next]_vars => FreshInv'
  <1> SUFFICES ASSUME TypeInv, FreshInv, [Next]_vars PROVE FreshInv'
    OBVIOUS
  <1>1. CASE Tick \/ UNCHANGED vars
    <2>1. UNCHANGED <<eos, events, watermark, dirty, queue, hash, avg, missed, outrun>>
      BY <1>1 DEF Tick, vars
    <2>2. /\ \A r : Closed(r)' = Closed(r)
          /\ \A v, kind : CountOf(kind, v)' = CountOf(kind, v)
          /\ \A v : Pending(v)' <=> Pending(v)
      BY <2>1 DEF Closed, CountOf, Contents, Pending
    <2>3. DirtyUp' /\ (~eos => QueueUp')
      <3>1. DirtyUp'
        BY <2>1, <2>2 DEF FreshInv, DirtyUp
      <3>2. ASSUME ~eos PROVE QueueUp'
        <4> SUFFICES ASSUME NEW i \in 1 .. Len(queue), NEW x \in Closed(queue[i][1])',
                            x > queue[i][2]
                     PROVE  \/ \E j \in i + 1 .. Len(queue) : queue[j] = <<queue[i][1], x>>
                            \/ x <= outrun
          BY <2>1 DEF QueueUp
        <4>1. QueueUp
          BY <2>1, <3>2 DEF FreshInv
        <4>2. PICK r : r = queue[i][1] /\ x \in Closed(r)'
          BY <2>1
        <4>3. x \in Closed(queue[i][1])
          BY <2>2, <4>2
        <4> QED BY <4>1, <4>3 DEF QueueUp
      <3> QED BY <3>1, <3>2
    <2>4. \A r \in Resolution : Counted(r)' /\ (~eos => Latest(r)')
      BY <2>1, <2>2 DEF FreshInv, Counted, Latest
    <2>5. Averaged' /\ (~eos => LatestAverage')
      BY <2>1, <2>2 DEF FreshInv, Averaged, Bought, LatestAverage
    <2> QED BY <2>1, <2>3, <2>4, <2>5 DEF FreshInv
  <1> QED BY <1>1, AddFresh, EmitFresh, WriteFresh DEF Next

LEMMA FreshInvariant == Spec => []FreshInv
  <1>1. Init => FreshInv
    BY DEF Init, FreshInv, DirtyUp, Counted, Averaged, QueueUp, Latest, LatestAverage
  <1> QED BY <1>1, TypeInvariant, FreshStep, PTL DEF Spec

(* What the API serves between two emissions, of any history of events,     *)
(* late ones, bursts after a lag, idle spells and expiries: every count is  *)
(* that of all the events of its window, unless the idle clock had fired it *)
(* ahead of an event (_mark_late_refires misses no other); at least once    *)
(* the window is the newest with an event, and the average that of the      *)
(* newest window with a purchase (_emit_dirty's order, by resolution and    *)
(* then by end, whatever the order of the resolutions), unless that window  *)
(* had closed when an event was judged by a watermark that had fallen back. *)
THEOREM AlwaysFreshest == Spec => []FreshestServed
  <1>1. TypeInv /\ FreshInv => FreshestServed
    <2> SUFFICES ASSUME TypeInv, FreshInv, Quiet, Live PROVE
          /\ \A r \in Resolution :
               hash[r] # None =>
                 /\ \/ <<r, hash[r].end>> \in missed
                    \/ /\ Read.features.clicks[r] = CountOf("click", <<r, hash[r].end>>)
                       /\ Read.features.purchases[r] = CountOf("purchase", <<r, hash[r].end>>)
                 /\ eos \/ hash[r].end = Newest(r) \/ Newest(r) <= outrun
          /\ Read.features.average # None =>
               /\ CountOf("purchase", <<Largest, avg>>) > 0
               /\ eos \/ \A x \in Closed(Largest) :
                           x > avg /\ x > outrun => CountOf("purchase", <<Largest, x>>) = 0
      BY DEF FreshestServed
    <2>1. \A w : ~Pending(w)
      BY DEF Quiet, Pending
    <2>2. ASSUME NEW r \in Resolution, hash[r] # None
          PROVE  /\ Read.features.clicks[r] = hash[r].clicks
                 /\ Read.features.purchases[r] = hash[r].purchases
      BY <2>2 DEF Read, FeatureVector, Stored
    <2>3. Read.features.average = avg
      BY DEF Read, FeatureVector
    <2>4. ASSUME NEW r \in Resolution, hash[r] # None
          PROVE  \/ <<r, hash[r].end>> \in missed
                 \/ /\ hash[r].clicks = CountOf("click", <<r, hash[r].end>>)
                    /\ hash[r].purchases = CountOf("purchase", <<r, hash[r].end>>)
      BY <2>1, <2>4 DEF FreshInv, Counted
    <2>5. ASSUME NEW r \in Resolution, hash[r] # None, ~eos, ~ (Newest(r) <= outrun)
          PROVE  hash[r].end = Newest(r)
      <3>1. /\ hash[r].end \in Closed(r)
            /\ \A x \in Closed(r) : x > hash[r].end => x <= outrun
        BY <2>1, <2>5 DEF FreshInv, Latest
      <3>2. outrun \in Nat /\ \A x \in Closed(r) : x \in Nat
        BY ClosedAre, WatermarkType DEF TypeInv
      <3>3. PICK n \in Closed(r) : \A y \in Closed(r) : y <= n
        <4>1. CASE \A y \in Closed(r) : y <= hash[r].end
          BY <3>1, <4>1
        <4>2. CASE \E y \in Closed(r) : y > hash[r].end
          <5>1. PICK n \in Closed(r) : \A y \in Closed(r) : y <= n
            <6>1. \A y \in Closed(r) : y <= outrun \/ y <= hash[r].end
              BY <3>1, <3>2
            <6>2. PICK z \in Closed(r) : z > hash[r].end
              BY <4>2
            <6>3. \A y \in Closed(r) : y <= outrun
              BY <3>1, <3>2, <6>1, <6>2
            <6> QED BY <3>1, <3>2, <6>3, GreatestNat
          <5> QED BY <5>1
        <4> QED BY <3>1, <3>2, <4>1, <4>2
      <3>4. /\ Newest(r) \in Closed(r) /\ \A y \in Closed(r) : y <= Newest(r)
        BY <3>3 DEF Newest
      <3>5. ~ (Newest(r) > hash[r].end)
        BY <2>5, <3>1, <3>4
      <3> QED BY <3>1, <3>2, <3>4, <3>5
    <2>6. ASSUME avg # None PROVE CountOf("purchase", <<Largest, avg>>) > 0
      BY <2>6 DEF FreshInv, Averaged, Bought
    <2>7. ASSUME avg # None, ~eos, NEW x \in Closed(Largest), x > avg, x > outrun
          PROVE  CountOf("purchase", <<Largest, x>>) = 0
      <3>1. x \in Nat /\ outrun \in Nat
        BY ClosedAre, Extremes, WatermarkType DEF TypeInv
      <3>2. ~Bought(x)
        <4>1. ~ (x <= outrun)
          BY <2>7, <3>1
        <4>2. LatestAverage
          BY <2>7 DEF FreshInv
        <4> QED BY <2>1, <2>7, <4>1, <4>2 DEF LatestAverage
      <3>3. CountOf("purchase", <<Largest, x>>) \in Nat
        BY CountType DEF TypeInv
      <3> QED BY <3>2, <3>3 DEF Bought
    <2> QED BY <2>2, <2>3, <2>4, <2>5, <2>6, <2>7
  <1> QED BY <1>1, TypeInvariant, FreshInvariant, PTL

-----------------------------------------------------------------------------
(* Decay.                                                                   *)

(* A late event marks windows of its own: no later than its delay.          *)
LEMMA AddGone ==
  ASSUME TypeInv, GoneInv, NEW e \in Event, Add(e)
  PROVE  GoneInv'
  <1>1. TypeOK /\ Shape
    BY DEF TypeInv
  <1>2. /\ now <= e[1] + MaxDelay /\ queue = <<>> /\ events' = events \cup {e}
        /\ UNCHANGED <<now, watermark, queue, deadline>>
    BY <1>1, AddFolds
  <1>3. ASSUME NEW w \in dirty'
        PROVE  \E d \in Contents(w)' : now <= d[1] + MaxDelay
    <2>1. CASE w \in dirty
      <3>1. PICK d \in Contents(w) : now <= d[1] + MaxDelay
        BY <2>1 DEF GoneInv
      <3>2. d \in Contents(w)'
        BY <1>1, AddFolds
      <3> QED BY <3>1, <3>2
    <2>2. CASE w[2] \in Ends(w[1], e[1])
      <3>1. e \in Contents(w)'
        BY <1>1, <2>2, AddFolds
      <3> QED BY <1>2, <3>1
    <2> QED BY <1>1, <2>1, <2>2, AddMarks
  <1>4. deadline' = 0 \/ \E d \in events' : Stays(d)'
    BY <1>2 DEF GoneInv, Stays, Ttl
  <1>5. Len(queue') = 0
    BY <1>2
  <1> QED BY <1>2, <1>3, <1>4, <1>5 DEF GoneInv

(* What closes closes within the lag of its end, and what fires again does  *)
(* so with the event that marked it.                                        *)
LEMMA EmitGone ==
  ASSUME TypeInv, GoneInv, Emit
  PROVE  GoneInv'
  <1>1. TypeOK /\ Shape
    BY DEF TypeInv
  <1>2. PICK new \in Nat :
          /\ watermark <= new /\ new <= now /\ watermark' = new
          /\ queue' \in Seq(Resolution \X Nat)
          /\ \A w : Pending(w)' <=> w \in Closing(new) \/ w \in dirty
    BY <1>1, EmitQueues
  <1>3. UNCHANGED <<now, events, deadline>> /\ dirty' = {}
    BY DEF Emit
  <1>4. \A w : Contents(w)' = Contents(w)
    BY <1>3 DEF Contents
  <1>5. /\ watermark \in Nat /\ now \in Nat /\ now <= watermark + MaxLag
        /\ MaxLag \in Nat
    BY <1>1, WatermarkType
  <1>6. ASSUME NEW w \in Closing(new)
        PROVE  \E e \in Contents(w) : Soon(w[1], e)
    <2>1. w \in Resolution \X Nat /\ w[2] > watermark /\ Contents(w) # {}
      BY <1>1, ClosingAre
    <2>2. PICK e : e \in Contents(w)
      BY <2>1
    <2>3. e[1] \in Nat /\ w[2] \in Nat /\ w[2] <= e[1] + Size[w[1]]
      BY <1>1, <2>1, <2>2, InWindow
    <2>4. Size[w[1]] \in Nat
      BY <2>1, GeometryType
    <2>5. now < e[1] + Size[w[1]] + MaxLag
      BY <1>5, <2>1, <2>3, <2>4
    <2> QED BY <2>2, <2>5 DEF Soon
  <1>7. ASSUME NEW w \in dirty
        PROVE  \E e \in Contents(w) : Soon(w[1], e)
    BY DEF GoneInv, Soon
  <1>8. ASSUME NEW i \in 1 .. Len(queue')
        PROVE  \E e \in Contents(queue[i])' : Soon(queue[i][1], e)'
    <2>1. PICK w : w = queue'[i]
      OBVIOUS
    <2>2. Pending(w)'
      BY <2>1 DEF Pending
    <2>3. PICK e \in Contents(w) : Soon(w[1], e)
      BY <1>2, <1>6, <1>7, <2>2
    <2>4. Contents(queue[i])' = Contents(w)'
      BY <2>1 DEF Contents
    <2> QED BY <1>3, <1>4, <2>1, <2>3, <2>4 DEF Soon
  <1>9. deadline' = 0 \/ \E e \in events' : Stays(e)'
    BY <1>3 DEF GoneInv, Stays, Ttl
  <1> QED BY <1>3, <1>8, <1>9 DEF GoneInv

(* EXPIRE counts from a write of a window whose event was still near.       *)
LEMMA WriteGone ==
  ASSUME TypeInv, GoneInv, Write
  PROVE  GoneInv'
  <1>1. TypeOK /\ Shape
    BY DEF TypeInv
  <1>2. PICK w :
          /\ Len(queue) \in Nat \ {0} /\ w = queue[1] /\ Fired(w) /\ dirty = {}
          /\ Len(queue') = Len(queue) - 1
          /\ \A i \in 1 .. Len(queue') : queue'[i] = queue[i + 1]
          /\ deadline' = now + Ttl(w[1])
          /\ UNCHANGED <<now, events, watermark, dirty>>
    BY WriteTakes
  <1>3. \A v : Contents(v)' = Contents(v)
    BY <1>2 DEF Contents
  <1>4. ASSUME NEW i \in 1 .. Len(queue')
        PROVE  \E e \in Contents(queue[i])' : Soon(queue[i][1], e)'
    <2>1. i + 1 \in 1 .. Len(queue) /\ queue'[i] = queue[i + 1]
      BY <1>2
    <2>2. PICK v : v = queue[i + 1]
      OBVIOUS
    <2>3. PICK e \in Contents(v) : Soon(v[1], e)
      BY <2>1, <2>2 DEF GoneInv
    <2>4. Contents(queue[i])' = Contents(v)'
      BY <2>1, <2>2 DEF Contents
    <2> QED BY <1>2, <1>3, <2>1, <2>2, <2>3, <2>4 DEF Soon
  <1>5. \E e \in events : Stays(e)'
    <2>1. 1 \in 1 .. Len(queue)
      BY <1>2
    <2>2. PICK e \in Contents(w) : Soon(w[1], e)
      BY <1>2, <2>1 DEF GoneInv
    <2>3. w[1] \in Resolution
      BY <1>2 DEF Fired
    <2>4. e \in events /\ e[1] \in Nat
      BY <1>1, <2>3, InWindow
    <2>5. /\ Size[w[1]] \in Nat /\ Size[Largest] \in Nat /\ Size[w[1]] <= Size[Largest]
          /\ Ttl(w[1]) \in Nat /\ Ttl(Largest) \in Nat /\ Ttl(w[1]) <= Ttl(Largest)
      BY <2>3, GeometryType, Extremes
    <2>6. now \in Nat /\ MaxLag \in Nat /\ MaxDelay \in Nat
      BY <1>1, WatermarkType
    <2>7. PICK a \in Nat, b \in Nat, c \in Nat, d \in Nat :
            a = Size[w[1]] /\ b = Size[Largest] /\ c = Ttl(w[1]) /\ d = Ttl(Largest)
      BY <2>5
    <2>8. a <= b /\ c <= d /\ deadline' = now + c
      BY <1>2, <2>5, <2>7
    <2>9. CASE now < e[1] + a + MaxLag
      <3>1. now + c < e[1] + b + d + MaxLag
        BY <2>4, <2>6, <2>8, <2>9
      <3> QED BY <2>4, <2>7, <2>8, <3>1 DEF Stays, Ttl
    <2>10. CASE now <= e[1] + MaxDelay
      <3>1. now + c <= e[1] + MaxDelay + d
        BY <2>4, <2>6, <2>8, <2>10
      <3> QED BY <2>4, <2>7, <2>8, <3>1 DEF Stays, Ttl
    <2> QED BY <2>2, <2>7, <2>9, <2>10 DEF Soon
  <1> QED BY <1>2, <1>4, <1>5 DEF GoneInv

LEMMA GoneStep == TypeInv /\ GoneInv /\ [Next]_vars => GoneInv'
  <1> SUFFICES ASSUME TypeInv, GoneInv, [Next]_vars PROVE GoneInv'
    OBVIOUS
  <1>1. CASE Tick
    <2>1. UNCHANGED <<events, watermark, dirty, queue, deadline>> /\ queue = <<>> /\ dirty = {}
      BY <1>1 DEF Tick
    <2>2. Len(queue') = 0 /\ dirty' = {}
      BY <2>1
    <2> QED BY <2>1, <2>2 DEF GoneInv, Stays, Ttl
  <1>2. CASE UNCHANGED vars
    <2>1. UNCHANGED <<now, events, watermark, dirty, queue, deadline>>
      BY <1>2 DEF vars
    <2>2. \A w : Contents(w)' = Contents(w)
      BY <2>1 DEF Contents
    <2>3. \A w \in dirty' : \E e \in Contents(w)' : now' <= e[1] + MaxDelay
      BY <2>1, <2>2 DEF GoneInv
    <2>4. ASSUME NEW i \in 1 .. Len(queue')
          PROVE  \E e \in Contents(queue[i])' : Soon(queue[i][1], e)'
      <3>1. Contents(queue[i])' = Contents(queue[i])
        BY <2>1 DEF Contents
      <3> QED BY <2>1, <3>1 DEF GoneInv, Soon
    <2> QED BY <2>1, <2>3, <2>4 DEF GoneInv, Stays, Ttl
  <1> QED BY <1>1, <1>2, AddGone, EmitGone, WriteGone DEF Next

LEMMA GoneInvariant == Spec => []GoneInv
  <1>1. Init => GoneInv
    BY DEF Init, GoneInv
  <1> QED BY <1>1, TypeInvariant, GoneStep, PTL DEF Spec

(* Every write of RedisHashSink renews the key, refires of late events too; *)
(* yet nothing keeps it for good: a hash that is served has an event whose  *)
(* largest window, its TTL and the loop's lag have not all gone by, or the  *)
(* TTL and the delay with which it came.                                    *)
THEOREM NeverKeptForGood == Spec => []GoneInTime
  <1>1. TypeInv /\ GoneInv => GoneInTime
    <2> SUFFICES ASSUME TypeInv, GoneInv, now < deadline
                 PROVE  \E e \in events :
                          \/ now < e[1] + Size[Largest] + Ttl(Largest) + MaxLag
                          \/ now < e[1] + MaxDelay + Ttl(Largest)
      BY DEF GoneInTime, Read, Live
    <2>1. now \in Nat /\ deadline \in Nat /\ MaxLag \in Nat /\ MaxDelay \in Nat
      BY WatermarkType DEF TypeInv, TypeOK
    <2>2. PICK e \in events : Stays(e)
      BY <2>1 DEF GoneInv
    <2>3. e[1] \in Nat /\ Size[Largest] \in Nat /\ Ttl(Largest) \in Nat
      BY EventType, GeometryType, Extremes DEF TypeInv
    <2>4. \/ now < e[1] + Size[Largest] + Ttl(Largest) + MaxLag
          \/ now < e[1] + MaxDelay + Ttl(Largest)
      BY <2>1, <2>2, <2>3 DEF Stays
    <2> QED BY <2>4
  <1> QED BY <1>1, TypeInvariant, GoneInvariant, PTL

-----------------------------------------------------------------------------
(* The time to live.                                                        *)

(* The bounds under which the TTL is kept: a lag of half of the smallest    *)
(* window, and no event folded later than a smallest window after it.       *)
ShortLag == 2 * MaxLag <= Size[Smallest] /\ MaxDelay <= Size[Smallest]

(* An order lists a resolution at one place.                                *)
LEMMA RankOf ==
  ASSUME NEW k \in 1 .. Len(Order)
  PROVE  Rank(Order[k], Order) = k
  <1>1. /\ Rank(Order[k], Order) \in 1 .. Len(Order)
        /\ Order[Rank(Order[k], Order)] = Order[k]
    BY RankIsPlace
  <1> QED BY <1>1, GeometryOK

(* Every resolution but the largest is followed by one that slides by its   *)
(* size.                                                                    *)
LEMMA Successor ==
  ASSUME NEW r \in Resolution, r # Largest
  PROVE  \E s \in Resolution : Slide[s] = Size[r] /\ Rank(r, Order) < Rank(s, Order) /\ s # r
  <1>1. PICK k \in 1 .. Len(Order) : r = Order[k]
    BY DEF Resolution
  <1>2. Len(Order) \in Nat \ {0} /\ k # Len(Order)
    BY <1>1, GeometryOK DEF Largest
  <1>3. k \in 1 .. Len(Order) - 1 /\ k + 1 \in 1 .. Len(Order)
    BY <1>2
  <1>4. Slide[Order[k + 1]] = Size[r] /\ Order[k + 1] \in Resolution
    BY <1>1, <1>3, GeometryOK DEF Resolution
  <1>5. Rank(r, Order) = k /\ Rank(Order[k + 1], Order) = k + 1
    BY <1>1, <1>3, RankOf
  <1>6. k < k + 1 /\ Order[k + 1] # r
    BY <1>5
  <1> QED BY <1>4, <1>5, <1>6

(* A window of the next resolution is due before the TTL of r has gone by,  *)
(* unless one of its windows has just closed.                               *)
LEMMA SoonDue ==
  ASSUME TypeOK, ShortLag, NEW r \in Resolution, NEW s \in Resolution,
         Slide[s] = Size[r], NEW e \in events, NEW new \in Nat, e[1] <= new, new <= now
  PROVE  \/ \E y \in Ends(s, e[1]) : y > new /\ y + MaxLag <= now + Ttl(r)
         \/ \E z \in Ends(s, e[1]) : z \in Nat /\ z <= new /\ z > e[1] + Size[r]
  <1>1. e[1] \in Nat
    BY EventType
  <1>2. PICK x \in Nat : /\ new < x /\ x <= new + Slide[s]
                         /\ \/ x \in Ends(s, e[1])
                            \/ \E z \in Ends(s, e[1]) : /\ z <= new
                                                        /\ e[1] + Size[s] < z + Slide[s]
    BY <1>1, NextEnd
  <1>3. now \in Nat /\ MaxLag \in Nat
    BY WatermarkType
  <1>4. /\ Size[r] \in Nat /\ Ttl(r) \in Nat /\ 3 * Size[r] <= 2 * Ttl(r) + 1
        /\ Size[Smallest] \in Nat /\ Size[Smallest] <= Size[r] /\ 2 * MaxLag <= Size[Smallest]
    BY GeometryType, Extremes DEF ShortLag
  <1>5. CASE x \in Ends(s, e[1])
    <2>1. x + MaxLag <= now + Ttl(r)
      BY <1>2, <1>3, <1>4
    <2> QED BY <1>2, <1>5, <2>1
  <1>6. ASSUME NEW z \in Ends(s, e[1]), z <= new, e[1] + Size[s] < z + Slide[s]
        PROVE  z \in Nat /\ z > e[1] + Size[r]
    <2>1. z \in Nat
      BY <1>1, EndsAre
    <2>2. Size[s] >= 2 * Size[r] /\ Size[s] \in Nat
      <3>1. PICK n \in Nat : Size[s] = n * Slide[s] /\ n >= 2
        BY WholeSlides
      <3>2. 2 * Size[r] <= n * Size[r]
        BY <1>4, <3>1, Monotone
      <3> QED BY <3>1, <3>2, GeometryType
    <2> QED BY <1>1, <1>4, <1>6, <2>1, <2>2
  <1> QED BY <1>2, <1>5, <1>6

(* After an emission: the last record to write is of the largest resolution,*)
(* or a window of the next one is due before that record's TTL has gone by. *)
LEMMA EmitKeeps ==
  ASSUME ShortLag, TypeInv, GoneInv, KeepsInv, Emit
  PROVE  KeepsInv'
  <1>1. TypeOK /\ Shape
    BY DEF TypeInv
  <1>2. PICK new \in Nat :
          /\ watermark <= new /\ base <= new /\ new <= now /\ watermark' = new
          /\ queue' \in Seq(Resolution \X Nat)
          /\ \A w : Pending(w)' <=> w \in Closing(new) \/ w \in dirty
          /\ queue' # <<>> =>
               LET last == queue'[Len(queue')]
               IN  \/ last \in dirty
                   \/ /\ last \in Closing(new) /\ dirty = {}
                      /\ \A v \in Closing(new) : Before(v, last, Order)
          /\ queue' = <<>> => dirty = {} /\ Closing(new) = {}
    BY <1>1, EmitQueues
  <1>3. UNCHANGED <<now, events, hash, deadline>> /\ queue = <<>>
    BY DEF Emit
  <1>4. /\ watermark \in Nat /\ now \in Nat /\ now <= watermark + MaxLag
        /\ MaxLag \in Nat /\ MaxDelay \in Nat /\ base \in Nat
    BY <1>1, WatermarkType
  <1>5. ASSUME queue' = <<>> PROVE Covered' \/ Due(deadline)'
    <2>1. CASE Covered
      BY <1>3, <2>1 DEF Covered, Ttl
    <2>2. CASE Due(deadline)
      <3>1. PICK r \in Resolution, e \in events :
              \E x \in Ends(r, e[1]) : x > watermark /\ x + MaxLag <= deadline
        BY <2>2 DEF Due
      <3>2. PICK x \in Ends(r, e[1]) : x > watermark /\ x + MaxLag <= deadline
        BY <3>1
      <3>3. x \in Nat
        BY <1>1, <3>2, EventType, EndsAre
      <3>4. x > new
        <4>1. <<r, x>> \in Resolution \X Nat /\ Contents(<<r, x>>) # {}
          BY <3>2, <3>3 DEF Contents
        <4>2. x <= new => <<r, x>> \in Closing(new)
          BY <1>1, <3>2, <4>1, ClosingAre
        <4> QED BY <1>2, <1>5, <3>3, <4>2
      <3> QED BY <1>2, <1>3, <3>2, <3>4 DEF Due
    <2> QED BY <1>3, <2>1, <2>2 DEF KeepsInv
  <1>6. ASSUME queue' # <<>>, NEW w, w = queue'[Len(queue')], w[1] # Largest
        PROVE  \E r \in Resolution, e \in events :
                 \E x \in Ends(r, e[1]) : x > new /\ x + MaxLag <= now + Ttl(w[1])
    <2>1. w \in Resolution \X Nat /\ w[1] \in Resolution
      BY <1>2, <1>6
    <2>2. PICK s \in Resolution :
            Slide[s] = Size[w[1]] /\ Rank(w[1], Order) < Rank(s, Order) /\ s # w[1]
      BY <1>6, <2>1, Successor
    <2>3. /\ Size[w[1]] \in Nat /\ Size[Smallest] \in Nat /\ Size[Smallest] <= Size[w[1]]
          /\ MaxLag <= Size[Smallest] /\ MaxDelay <= Size[Smallest]
      BY <1>4, <2>1, GeometryType, Extremes DEF ShortLag
    <2>4. CASE w \in dirty
      <3>1. PICK e \in Contents(w) : now <= e[1] + MaxDelay
        BY <2>4 DEF GoneInv
      <3>2. e \in events /\ e[1] \in Nat /\ e[1] < w[2] /\ w[2] \in Nat
        BY <1>1, <2>1, InWindow
      <3>3. w[2] <= watermark \/ w[2] <= base
        BY <1>1, <2>4 DEF TypeOK
      <3>4. e[1] <= new
        BY <1>2, <1>4, <3>2, <3>3
      <3>5. new <= e[1] + Size[w[1]]
        BY <1>2, <1>4, <2>3, <3>1, <3>2
      <3>6. \E y \in Ends(s, e[1]) : y > new /\ y + MaxLag <= now + Ttl(w[1])
        BY <1>1, <1>2, <2>1, <2>2, <2>3, <3>2, <3>4, <3>5, SoonDue
      <3> QED BY <3>2, <3>6
    <2>5. CASE w \in Closing(new) /\ \A v \in Closing(new) : Before(v, w, Order)
      <3>1. w[2] > watermark /\ w[2] <= new /\ Contents(w) # {}
        BY <1>1, <2>5, ClosingAre
      <3>2. PICK e : e \in Contents(w)
        BY <3>1
      <3>3. /\ e \in events /\ e[1] \in Nat /\ e[1] < w[2] /\ w[2] \in Nat
            /\ w[2] <= e[1] + Size[w[1]]
        BY <1>1, <2>1, <3>2, InWindow
      <3>4. e[1] <= new
        BY <3>1, <3>3
      <3>5. ASSUME NEW z \in Ends(s, e[1]), z \in Nat, z <= new, z > e[1] + Size[w[1]]
            PROVE  FALSE
        <4>1. z > watermark
          BY <1>4, <2>3, <3>1, <3>3, <3>5
        <4>2. <<s, z>> \in Resolution \X Nat /\ Contents(<<s, z>>) # {}
          BY <3>3, <3>5 DEF Contents
        <4>3. <<s, z>> \in Closing(new)
          BY <1>1, <3>5, <4>1, <4>2, ClosingAre
        <4>4. Before(<<s, z>>, w, Order)
          BY <2>5, <4>3
        <4>5. Rank(s, Order) < Rank(w[1], Order)
          BY <2>2, <4>4 DEF Before
        <4>6. Rank(s, Order) \in Nat /\ Rank(w[1], Order) \in Nat
          BY <2>1, RankIsPlace, OrdersComplete
        <4> QED BY <2>2, <4>5, <4>6
      <3>6. \E y \in Ends(s, e[1]) : y > new /\ y + MaxLag <= now + Ttl(w[1])
        BY <1>1, <1>2, <2>1, <2>2, <3>3, <3>4, <3>5, SoonDue
      <3> QED BY <3>3, <3>6
    <2> QED BY <1>2, <1>6, <2>4, <2>5
  <1>7. ASSUME queue' # <<>>
        PROVE  LET r == queue[Len(queue)][1] IN (r = Largest \/ Due(now + Ttl(r)))'
    <2>1. PICK w : w = queue'[Len(queue')]
      OBVIOUS
    <2>2. CASE w[1] = Largest
      BY <2>1, <2>2
    <2>3. CASE w[1] # Largest
      <3>1. \E r \in Resolution, e \in events' :
              \E x \in Ends(r, e[1]) : x > watermark' /\ x + MaxLag <= now' + Ttl(w[1])
        BY <1>2, <1>3, <1>6, <1>7, <2>1, <2>3
      <3> QED BY <2>1, <3>1 DEF Due, Ttl
    <2> QED BY <2>2, <2>3
  <1> QED BY <1>5, <1>7 DEF KeepsInv

(* Plain EXPIRE: the last write of an emission sets the deadline.           *)
LEMMA WriteKeeps ==
  ASSUME TypeInv, KeepsInv, Write
  PROVE  KeepsInv'
  <1>1. TypeOK'
    BY WriteType DEF TypeInv
  <1>2. PICK w :
          /\ Len(queue) \in Nat \ {0} /\ w = queue[1] /\ Fired(w)
          /\ queue' \in Seq(Resolution \X Nat) /\ Len(queue') = Len(queue) - 1
          /\ \A i \in 1 .. Len(queue') : queue'[i] = queue[i + 1]
          /\ hash' \in [Resolution -> Written \cup {None}]
          /\ deadline' = now + Ttl(w[1])
          /\ UNCHANGED <<now, events, watermark>>
    BY WriteTakes
  <1>3. now \in Nat /\ w[1] \in Resolution
    BY <1>2, WatermarkType DEF TypeInv, Fired
  <1>4. PICK r : /\ r = queue[Len(queue)][1]
                 /\ r = Largest \/ Due(now + Ttl(r))
    BY <1>2 DEF KeepsInv
  <1>5. ASSUME queue' = <<>> PROVE Covered' \/ Due(deadline)'
    <2>1. Len(queue) = 1 /\ r = w[1]
      <3>1. Len(queue') = 0
        BY <1>5
      <3>2. Len(queue) = 1
        BY <1>2, <3>1
      <3> QED BY <1>2, <1>4, <3>2
    <2>2. CASE r = Largest
      <3>1. deadline' = now + Ttl(Largest)
        BY <1>2, <2>1, <2>2
      <3>2. ASSUME NEW q \in Resolution, hash'[q] # None
            PROVE  hash'[q].at + Ttl(q) <= deadline'
        <4>1. hash'[q].at <= now /\ hash'[q].at \in Nat
          BY <1>1, <1>2, <3>2 DEF TypeOK, Written
        <4>2. Ttl(q) \in Nat /\ Ttl(Largest) \in Nat /\ Ttl(q) <= Ttl(Largest)
          BY GeometryType, Extremes
        <4> QED BY <1>3, <3>1, <4>1, <4>2
      <3> QED BY <3>2 DEF Covered, Ttl
    <2>3. CASE Due(now + Ttl(r))
      <3>1. deadline' = now + Ttl(r)
        BY <1>2, <2>1
      <3> QED BY <1>2, <2>3, <3>1 DEF Due
    <2> QED BY <1>4, <2>2, <2>3
  <1>6. ASSUME queue' # <<>>
        PROVE  LET q == queue[Len(queue)][1] IN (q = Largest \/ Due(now + Ttl(q)))'
    <2>1. Len(queue') \in 1 .. Len(queue') /\ Len(queue') + 1 = Len(queue)
      BY <1>2, <1>6
    <2>2. queue'[Len(queue')] = queue[Len(queue)]
      BY <1>2, <2>1
    <2>3. queue'[Len(queue')][1] = r
      BY <1>4, <2>2
    <2>4. CASE r = Largest
      BY <2>3, <2>4
    <2>5. CASE Due(now + Ttl(r))
      <3>1. \E q \in Resolution, e \in events' :
              \E x \in Ends(q, e[1]) : x > watermark' /\ x + MaxLag <= now' + Ttl(r)
        BY <1>2, <2>5 DEF Due
      <3> QED BY <2>3, <3>1 DEF Due, Ttl
    <2> QED BY <1>4, <2>4, <2>5
  <1> QED BY <1>5, <1>6 DEF KeepsInv

LEMMA KeepsStep == ShortLag /\ TypeInv /\ GoneInv /\ KeepsInv /\ [Next]_vars => KeepsInv'
  <1> SUFFICES ASSUME ShortLag, TypeInv, GoneInv, KeepsInv, [Next]_vars PROVE KeepsInv'
    OBVIOUS
  <1>1. ASSUME NEW e \in Event, Add(e) PROVE KeepsInv'
    <2>1. /\ queue = <<>> /\ events' = events \cup {e}
          /\ UNCHANGED <<watermark, queue, hash, deadline>>
      BY <1>1, AddFolds DEF TypeInv
    <2>2. CASE Covered
      BY <2>1, <2>2 DEF KeepsInv, Covered, Ttl
    <2>3. CASE Due(deadline)
      BY <2>1, <2>3 DEF KeepsInv, Due
    <2> QED BY <2>1, <2>2, <2>3 DEF KeepsInv
  <1>2. CASE Tick
    <2>1. queue = <<>> /\ UNCHANGED <<events, watermark, queue, hash, deadline>>
      BY <1>2 DEF Tick
    <2>2. CASE Covered
      BY <2>1, <2>2 DEF KeepsInv, Covered, Ttl
    <2>3. CASE Due(deadline)
      BY <2>1, <2>3 DEF KeepsInv, Due
    <2> QED BY <2>1, <2>2, <2>3 DEF KeepsInv
  <1>3. CASE UNCHANGED vars
    BY <1>3 DEF vars, KeepsInv, Covered, Due, Ttl
  <1> QED BY <1>1, <1>2, <1>3, EmitKeeps, WriteKeeps DEF Next

LEMMA KeepsInvariant == ShortLag => (Spec => []KeepsInv)
  <1> SUFFICES ASSUME ShortLag PROVE Spec => []KeepsInv
    OBVIOUS
  <1>1. Init => KeepsInv
    BY DEF Init, KeepsInv, Covered
  <1>2. TypeInv /\ GoneInv /\ KeepsInv /\ [Next]_vars => KeepsInv'
    BY KeepsStep
  <1> QED BY <1>1, <1>2, TypeInvariant, GoneInvariant, PTL DEF Spec

(* ttl_seconds_for: one EXPIRE serves the fields of every resolution.  A    *)
(* write of a small resolution shortens the key's life, and yet no field is *)
(* lost within its own TTL: the window that follows it in a larger          *)
(* resolution closes first.  That takes a lag of half the smallest window   *)
(* at most and no event older than that window; beyond either a run finds a *)
(* field that expires early.                                                *)
THEOREM OwnTtlKept == ShortLag => (Spec => []KeepsOwnTtl)
  <1> SUFFICES ASSUME ShortLag PROVE Spec => []KeepsOwnTtl
    OBVIOUS
  <1>1. TypeInv /\ KeepsInv => KeepsOwnTtl
    <2> SUFFICES ASSUME TypeInv, KeepsInv, queue = <<>>, NEW r \in Resolution,
                        hash[r] # None, now < hash[r].at + Ttl(r)
                 PROVE  now < deadline
      BY DEF KeepsOwnTtl, Read, Live
    <2>1. /\ now \in Nat /\ deadline \in Nat /\ MaxLag \in Nat /\ watermark \in Nat
          /\ now <= watermark + MaxLag
      BY WatermarkType DEF TypeInv, TypeOK
    <2>2. CASE Covered
      <3>1. hash[r].at \in Nat /\ Ttl(r) \in Nat
        BY GeometryType DEF TypeInv, Shape, Written
      <3>2. hash[r].at + Ttl(r) <= deadline
        BY <2>2 DEF Covered
      <3> QED BY <2>1, <3>1, <3>2
    <2>3. CASE Due(deadline)
      <3>1. PICK s \in Resolution, e \in events :
              \E x \in Ends(s, e[1]) : x > watermark /\ x + MaxLag <= deadline
        BY <2>3 DEF Due
      <3>2. PICK x \in Ends(s, e[1]) : x > watermark /\ x + MaxLag <= deadline
        BY <3>1
      <3>3. x \in Nat
        BY <3>2, EventType, EndsAre DEF TypeInv
      <3> QED BY <2>1, <3>2, <3>3
    <2> QED BY <2>2, <2>3 DEF KeepsInv
  <1>2. ShortLag => (Spec => []KeepsInv)
    BY KeepsInvariant
  <1>3. Spec => []KeepsInv
    BY <1>2
  <1> QED BY <1>1, <1>3, TypeInvariant, PTL
=============================================================================
