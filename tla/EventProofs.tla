------------------------------ MODULE EventProofs ------------------------------
(***************************************************************************)
(* For every set of limits and every message, the pipeline accepts exactly *)
(* what the rules accept, and a verdict only changes by the passage of     *)
(* time (Validation). And whatever becomes of the subject the messages are *)
(* written under, the drills on it are accepted and what is in the topic   *)
(* can be decoded (SchemaEvolution, whose driver steps by DriverNext).     *)
(***************************************************************************)
EXTENDS Validation, SchemaEvolution, TLAPS

(* Among nine checks one of which finds a fault, there is a first.          *)
LEMMA FirstFault ==
  ASSUME NEW s, NEW sound, \E n \in 1 .. 9 : s[n] # sound
  PROVE  \E n \in 1 .. 9 : s[n] # sound /\ \A m \in 1 .. (n - 1) : s[m] = sound
<1> DEFINE Clear(n) == \A m \in 1 .. n : s[m] = sound
<1>1. SUFFICES ASSUME \A n \in 1 .. 9 : Clear(n - 1) => s[n] = sound
               PROVE  FALSE
  OBVIOUS
<1>2. Clear(0)
  OBVIOUS
<1>3. \A n \in 1 .. 9 : Clear(n - 1) => Clear(n)
  BY <1>1
<1>4. Clear(3)
  BY <1>2, <1>3
<1>5. Clear(6)
  BY <1>4, <1>3
<1>6. Clear(9)
  BY <1>5, <1>3
<1> QED
  BY <1>6

(* A fault is never filed as Valid.                                         *)
LEMMA FaultShows ==
  ASSUME NEW fault \in BOOLEAN, NEW class, NEW by, NEW path, class # "none"
  PROVE  /\ (Unless(fault, Invalid(class, by, path)) = Valid) <=> ~fault
         /\ fault => Unless(fault, Invalid(class, by, path)) = Invalid(class, by, path)
<1>1. Invalid(class, by, path).error_class # Valid.error_class
  BY DEF Invalid, Valid
<1> QED
  BY <1>1 DEF Unless

(* The outcome is the finding of the first stage with a fault.              *)
LEMMA OutcomeIsFirstFault ==
  ASSUME NEW e, NEW now
  PROVE  \/ /\ \A n \in 1 .. 9 : Stages(e, now)[n] = Valid
            /\ Outcome(e, now) = Valid
         \/ \E n \in 1 .. 9 :
              /\ Stages(e, now)[n] # Valid
              /\ \A m \in 1 .. (n - 1) : Stages(e, now)[m] = Valid
              /\ Outcome(e, now) = Stages(e, now)[n]
<1> DEFINE s == Stages(e, now)
<1>1. DOMAIN s = 1 .. 9
  BY DEF Stages
<1>2. CASE \A n \in 1 .. 9 : s[n] = Valid
  BY <1>1, <1>2 DEF Outcome
<1>3. CASE \E n \in 1 .. 9 : s[n] # Valid
  <2> DEFINE First(n) == s[n] # Valid /\ \A m \in 1 .. (n - 1) : s[m] = Valid
  <2>1. \E n \in 1 .. 9 : First(n)
    <3> HIDE DEF s
    <3> QED
      BY <1>3, FirstFault
  <2>2. Outcome(e, now) = s[CHOOSE n \in 1 .. 9 : First(n)]
    BY <1>1, <1>3 DEF Outcome
  <2> DEFINE k == CHOOSE n \in 1 .. 9 : First(n)
  <2>3. k \in 1 .. 9 /\ First(k)
    <3> HIDE DEF First
    <3> QED
      BY <2>1
  <2> QED
    BY <2>2, <2>3
<1> QED
  BY <1>2, <1>3

-----------------------------------------------------------------------------
(* What each stage finds.                                                   *)
LEMMA StageFindings ==
  ASSUME NEW e, NEW now
  PROVE  LET s == Stages(e, now) IN
    /\ s[1] \in {Valid, Invalid("DESERIALIZE_FAILURE", "AvroEventConsumer", "none")}
    /\ s[2] \in {Valid, Invalid("NULL_REQUIRED_FIELD", "PydanticAdapter", "payload")}
    /\ s[3] \in {Valid, Invalid("NULL_REQUIRED_FIELD", "PydanticAdapter", "event")}
    /\ s[4] \in {Valid, Invalid("NULL_REQUIRED_FIELD", "RequiredFieldsValidator", "event")}
    /\ s[5] \in {Valid, Invalid("UNKNOWN_EVENT_TYPE", "EventTypeAllowlistValidator",
                                "event_type")}
    /\ s[6] \in {Valid, Invalid("MALFORMED_RECORD", "UserIdShapeValidator", "user_id")}
    /\ s[7] \in {Valid, Invalid("OUT_OF_RANGE", "PriceRangeValidator",
                                "payload.price_cents")}
    /\ s[8] \in {Valid, Invalid("OUT_OF_RANGE", "QuantityRangeValidator",
                                "payload.quantity")}
    /\ s[9] \in {Valid, Invalid("OUT_OF_RANGE", "TimestampRangeValidator",
                                "event_timestamp")}
  BY DEF Stages, Coerce, PayloadModel, EventModel, RequiredFields, EventTypeAllowlist,
         UserIdShape, PriceRange, QuantityRange, TimestampRange, Unless

(* When each stage finds nothing.                                           *)
LEMMA StagesClear ==
  ASSUME NEW e \in Event, NEW now \in Int
  PROVE  LET s == Stages(e, now) IN
    /\ s[1] = Valid <=> e.event_id = "uuid" /\ e.event_type \in EventType
    /\ s[2] = Valid <=> ~(e.payload.blank \/ e.payload.quantity < 1 \/ e.payload.price < 0)
    /\ s[3] = Valid <=> "empty" \notin {e.user_id, e.session_id}
    /\ s[4] = Valid <=> "empty" \notin {e.user_id, e.session_id}
    /\ s[5] = Valid <=> e.event_type \in EventType
    /\ s[6] = Valid <=> e.user_id \notin {"long", "control"}
    /\ s[7] = Valid <=> ~(Purchase(e) /\ (e.payload.price <= 0 \/ e.payload.price > MaxPrice))
    /\ s[8] = Valid <=> ~(Purchase(e) /\ (e.payload.quantity < 1 \/ e.payload.quantity > MaxQuantity))
    /\ s[9] = Valid <=> ~(\/ e.event_timestamp > now + MaxFutureSkew
                          \/ now - e.event_timestamp > MaxAge)
<1> DEFINE s == Stages(e, now)
<1>1. \A class, by, path : class # "none" => Invalid(class, by, path) # Valid
  BY FaultShows DEF Unless
<1>a. s[1] = Valid <=> e.event_id = "uuid" /\ e.event_type \in EventType
  BY <1>1 DEF Stages, Coerce, Unless
<1>b. s[2] = Valid <=> ~(e.payload.blank \/ e.payload.quantity < 1 \/ e.payload.price < 0)
  BY <1>1 DEF Stages, PayloadModel, Unless
<1>c. s[3] = Valid <=> "empty" \notin {e.user_id, e.session_id}
  BY <1>1 DEF Stages, EventModel, Unless
<1>d. s[4] = Valid <=> "empty" \notin {e.user_id, e.session_id}
  BY <1>1 DEF Stages, RequiredFields, Unless
<1>e. s[5] = Valid <=> e.event_type \in EventType
  BY <1>1 DEF Stages, EventTypeAllowlist, Unless
<1>f. s[6] = Valid <=> e.user_id \notin {"long", "control"}
  BY <1>1 DEF Stages, UserIdShape, Unless
<1>g. s[7] = Valid <=> ~(Purchase(e) /\ (e.payload.price <= 0 \/ e.payload.price > MaxPrice))
  BY <1>1 DEF Stages, PriceRange, Unless
<1>h. s[8] = Valid <=> ~(Purchase(e) /\ (e.payload.quantity < 1 \/ e.payload.quantity > MaxQuantity))
  BY <1>1 DEF Stages, QuantityRange, Unless
<1>i. s[9] = Valid <=> ~(\/ e.event_timestamp > now + MaxFutureSkew
                         \/ now - e.event_timestamp > MaxAge)
  BY <1>1 DEF Stages, TimestampRange, Unless
<1> QED
  BY <1>a, <1>b, <1>c, <1>d, <1>e, <1>f, <1>g, <1>h, <1>i

(* A verdict depends on the clock in its last stage only.                   *)
LEMMA ClockFreeStages ==
  ASSUME NEW e, NEW now, NEW later
  PROVE  \A n \in 1 .. 8 : Stages(e, now)[n] = Stages(e, later)[n]
<1>1. SUFFICES ASSUME NEW n \in 1 .. 8
               PROVE  Stages(e, now)[n] = Stages(e, later)[n]
  OBVIOUS
<1>2. n \in {1, 2, 3, 4, 5, 6, 7, 8}
  OBVIOUS
<1> QED
  BY <1>2 DEF Stages

(* The numbers of an event are integers.                                    *)
LEMMA EventNumbers ==
  ASSUME NEW e \in Event
  PROVE  /\ e.event_timestamp \in Int
         /\ e.payload.quantity \in Int /\ e.payload.price \in Int
         /\ e.payload.blank \in BOOLEAN
         /\ e.user_id \in {"empty", "plain", "long", "control"}
         /\ e.session_id \in {"empty", "plain"}
<1>1. /\ e.payload \in Payload /\ e.event_timestamp \in Times
      /\ e.user_id \in {"empty", "plain", "long", "control"}
      /\ e.session_id \in {"empty", "plain"}
  BY DEF Event
<1>2. /\ e.payload.quantity \in {1} \cup Quantities
      /\ e.payload.price \in {1} \cup Prices
      /\ e.payload.blank \in BOOLEAN
  BY <1>1 DEF Payload
<1>3. Quantities \subseteq Int /\ Prices \subseteq Int /\ Times \subseteq Int /\ 1 \in Int
  BY LimitsOK
<1>4. e.event_timestamp \in Int
  BY <1>1, <1>3
<1>5. e.payload.quantity \in Int /\ e.payload.price \in Int
  BY <1>2, <1>3
<1> QED
  BY <1>1, <1>2, <1>4, <1>5

(* Nine clear stages are the rules.                                         *)
LEMMA ClearIsAcceptable ==
  ASSUME NEW e \in Event, NEW now \in Int
  PROVE  (\A n \in 1 .. 9 : Stages(e, now)[n] = Valid) <=> Acceptable(e, now)
<1> DEFINE s == Stages(e, now)
           Clear(n) == s[n] = Valid
<1>1. (\A n \in 1 .. 9 : Clear(n)) <=>
        /\ Clear(1) /\ Clear(2) /\ Clear(3) /\ Clear(4) /\ Clear(5)
        /\ Clear(6) /\ Clear(7) /\ Clear(8) /\ Clear(9)
  <2>1. \A n \in 1 .. 9 : n \in {1, 2, 3, 4, 5, 6, 7, 8, 9}
    OBVIOUS
  <2> HIDE DEF Clear
  <2> QED
    BY <2>1
<1>2. /\ Clear(1) <=> e.event_id = "uuid" /\ e.event_type \in EventType
      /\ Clear(2) <=> ~(e.payload.blank \/ e.payload.quantity < 1 \/ e.payload.price < 0)
      /\ Clear(3) <=> "empty" \notin {e.user_id, e.session_id}
      /\ Clear(4) <=> "empty" \notin {e.user_id, e.session_id}
      /\ Clear(5) <=> e.event_type \in EventType
      /\ Clear(6) <=> e.user_id \notin {"long", "control"}
      /\ Clear(7) <=> ~(Purchase(e) /\ (e.payload.price <= 0 \/ e.payload.price > MaxPrice))
      /\ Clear(8) <=> ~(Purchase(e)
                          /\ (e.payload.quantity < 1 \/ e.payload.quantity > MaxQuantity))
      /\ Clear(9) <=> ~(\/ e.event_timestamp > now + MaxFutureSkew
                        \/ now - e.event_timestamp > MaxAge)
  BY StagesClear
<1> HIDE DEF Clear
<1>3. /\ "empty" \notin {e.user_id, e.session_id} /\ e.user_id \notin {"long", "control"}
        <=> e.user_id = "plain" /\ e.session_id = "plain"
  BY EventNumbers
<1>4. e.event_timestamp \in (now - MaxAge) .. (now + MaxFutureSkew) <=>
        ~(\/ e.event_timestamp > now + MaxFutureSkew
          \/ now - e.event_timestamp > MaxAge)
  BY EventNumbers, LimitsOK
<1>5. e.payload.price \in 1 .. MaxPrice <=>
        ~(e.payload.price <= 0 \/ e.payload.price > MaxPrice)
  BY EventNumbers, LimitsOK
<1>6. /\ e.payload.quantity >= 1 <=> ~(e.payload.quantity < 1)
      /\ e.payload.price >= 0 <=> ~(e.payload.price < 0)
      /\ e.payload.quantity <= MaxQuantity <=> ~(e.payload.quantity > MaxQuantity)
  BY EventNumbers, LimitsOK
<1>7. (\A n \in 1 .. 9 : Clear(n)) <=> Acceptable(e, now)
  BY <1>1, <1>2, <1>3, <1>4, <1>5, <1>6 DEF Acceptable
<1> QED
  BY <1>7 DEF Clear

-----------------------------------------------------------------------------
(* What the pipeline decides of an event is right.                          *)
VerdictRight(e, now) ==
  LET o == Outcome(e, now) IN
  /\ o = Valid <=> Acceptable(e, now)
  /\ o.error_class = "OUT_OF_RANGE" =>
       /\ e.user_id = "plain" /\ e.session_id = "plain"
       /\ e.payload.quantity >= 1 /\ e.payload.price >= 0
       /\ ~e.payload.blank
  /\ o.error_class # "UNKNOWN_EVENT_TYPE"
  /\ o.validator # "RequiredFieldsValidator"

(* A stage that is reached and finds a fault.                               *)
LEMMA ReachedFault ==
  ASSUME NEW e \in Event, NEW now \in Int, NEW n \in 1 .. 9,
         Stages(e, now)[n] # Valid,
         \A m \in 1 .. (n - 1) : Stages(e, now)[m] = Valid
  PROVE  /\ n \notin {4, 5}
         /\ n \in {7, 8, 9} =>
              /\ e.user_id = "plain" /\ e.session_id = "plain"
              /\ e.payload.quantity >= 1 /\ e.payload.price >= 0
              /\ ~e.payload.blank
<1> DEFINE s == Stages(e, now)
           Clear(m) == s[m] = Valid
<1>1. /\ Clear(1) <=> e.event_id = "uuid" /\ e.event_type \in EventType
      /\ Clear(2) <=> ~(e.payload.blank \/ e.payload.quantity < 1 \/ e.payload.price < 0)
      /\ Clear(3) <=> "empty" \notin {e.user_id, e.session_id}
      /\ Clear(4) <=> "empty" \notin {e.user_id, e.session_id}
      /\ Clear(5) <=> e.event_type \in EventType
      /\ Clear(6) <=> e.user_id \notin {"long", "control"}
  BY StagesClear
<1>2. ~Clear(n) /\ \A m \in 1 .. (n - 1) : Clear(m)
  OBVIOUS
<1> HIDE DEF Clear
<1>3. n # 4
  BY <1>1, <1>2
<1>4. n # 5
  BY <1>1, <1>2
<1>5. ASSUME n \in {7, 8, 9}
      PROVE  /\ e.user_id = "plain" /\ e.session_id = "plain"
             /\ e.payload.quantity >= 1 /\ e.payload.price >= 0
             /\ ~e.payload.blank
  <2>1. Clear(2) /\ Clear(3) /\ Clear(6)
    BY <1>2, <1>5
  <2> QED
    BY <2>1, <1>1, EventNumbers
<1> QED
  BY <1>3, <1>4, <1>5

(* The first fault decides, so the verdict is right.                        *)
LEMMA OutcomeRight ==
  ASSUME NEW e \in Event, NEW now \in Int
  PROVE  VerdictRight(e, now)
<1> DEFINE s == Stages(e, now)
           o == Outcome(e, now)
<1>1. CASE (\A n \in 1 .. 9 : s[n] = Valid) /\ o = Valid
  <2>1. Acceptable(e, now)
    BY <1>1, ClearIsAcceptable
  <2>2. /\ Valid.error_class \notin {"OUT_OF_RANGE", "UNKNOWN_EVENT_TYPE"}
        /\ Valid.validator # "RequiredFieldsValidator"
    BY DEF Valid
  <2> QED
    BY <1>1, <2>1, <2>2 DEF VerdictRight
<1>2. CASE \E n \in 1 .. 9 :
             /\ s[n] # Valid
             /\ \A m \in 1 .. (n - 1) : s[m] = Valid
             /\ o = s[n]
  <2>1. PICK n \in 1 .. 9 : /\ s[n] # Valid
                            /\ \A m \in 1 .. (n - 1) : s[m] = Valid
                            /\ o = s[n]
    BY <1>2
  <2>2. ~Acceptable(e, now)
    BY <2>1, ClearIsAcceptable
  <2>3. /\ n \notin {4, 5}
        /\ n \in {7, 8, 9} =>
             /\ e.user_id = "plain" /\ e.session_id = "plain"
             /\ e.payload.quantity >= 1 /\ e.payload.price >= 0
             /\ ~e.payload.blank
    BY <2>1, ReachedFault
  <2>4. CASE n \in {7, 8, 9}
    <3>1. o \in {Invalid("OUT_OF_RANGE", "PriceRangeValidator", "payload.price_cents"),
                 Invalid("OUT_OF_RANGE", "QuantityRangeValidator", "payload.quantity"),
                 Invalid("OUT_OF_RANGE", "TimestampRangeValidator", "event_timestamp")}
      BY <2>1, <2>4, StageFindings
    <3>2. /\ o.error_class # "UNKNOWN_EVENT_TYPE"
          /\ o.validator # "RequiredFieldsValidator"
      BY <3>1 DEF Invalid
    <3> QED
      BY <2>1, <2>2, <2>3, <2>4, <3>2 DEF VerdictRight
  <2>5. CASE n \in {1, 2, 3, 6}
    <3>1. o \in {Invalid("DESERIALIZE_FAILURE", "AvroEventConsumer", "none"),
                 Invalid("NULL_REQUIRED_FIELD", "PydanticAdapter", "payload"),
                 Invalid("NULL_REQUIRED_FIELD", "PydanticAdapter", "event"),
                 Invalid("MALFORMED_RECORD", "UserIdShapeValidator", "user_id")}
      BY <2>1, <2>5, StageFindings
    <3>2. /\ o.error_class \notin {"OUT_OF_RANGE", "UNKNOWN_EVENT_TYPE"}
          /\ o.validator # "RequiredFieldsValidator"
      BY <3>1 DEF Invalid
    <3> QED
      BY <2>1, <2>2, <3>2 DEF VerdictRight
  <2> QED
    BY <2>3, <2>4, <2>5
<1> QED
  BY <1>1, <1>2, OutcomeIsFirstFault

(* A fault found only by the later of two validations, or only by the       *)
(* earlier, is a fault of the timestamp.                                    *)
LEMMA OutcomeOverTime ==
  ASSUME NEW e \in Event, NEW now \in Int, NEW later \in Int, now <= later,
         Outcome(e, later) # Outcome(e, now)
  PROVE  /\ Outcome(e, now) # Valid => e.event_timestamp > now + MaxFutureSkew
         /\ Outcome(e, now) = Valid =>
              /\ Outcome(e, later).validator = "TimestampRangeValidator"
              /\ later - e.event_timestamp > MaxAge
<1> DEFINE Late == Invalid("OUT_OF_RANGE", "TimestampRangeValidator", "event_timestamp")
           s == Stages(e, now)
           t == Stages(e, later)
           o == Outcome(e, now)
           p == Outcome(e, later)
<1>1. \A n \in 1 .. 8 : s[n] = t[n]
  BY ClockFreeStages
<1>2. s[9] \in {Valid, Late} /\ t[9] \in {Valid, Late}
  BY StageFindings
<1>3. \/ (\A n \in 1 .. 9 : s[n] = Valid) /\ o = Valid
      \/ \E n \in 1 .. 9 : /\ s[n] # Valid
                           /\ \A m \in 1 .. (n - 1) : s[m] = Valid
                           /\ o = s[n]
  BY OutcomeIsFirstFault
<1>4. \/ (\A n \in 1 .. 9 : t[n] = Valid) /\ p = Valid
      \/ \E n \in 1 .. 9 : /\ t[n] # Valid
                           /\ \A m \in 1 .. (n - 1) : t[m] = Valid
                           /\ p = t[n]
  BY OutcomeIsFirstFault
<1>5. /\ s[9] = Valid <=> ~(\/ e.event_timestamp > now + MaxFutureSkew
                            \/ now - e.event_timestamp > MaxAge)
      /\ t[9] = Valid <=> ~(\/ e.event_timestamp > later + MaxFutureSkew
                            \/ later - e.event_timestamp > MaxAge)
  BY StagesClear
<1>6. p # o /\ Late.validator = "TimestampRangeValidator"
  BY DEF Invalid
<1>7. /\ e.event_timestamp \in Int /\ MaxAge \in Int /\ MaxFutureSkew \in Int
  BY EventNumbers, LimitsOK
<1> HIDE DEF s, t, o, p, Late
<1>8. \/ s[9] # Valid /\ t[9] = Valid /\ o = Late /\ p = Valid
      \/ s[9] = Valid /\ t[9] # Valid /\ o = Valid /\ p = Late
  <2>1. CASE \E n \in 1 .. 8 : s[n] # Valid
    <3>1. PICK n \in 1 .. 9 : /\ s[n] # Valid
                              /\ \A m \in 1 .. (n - 1) : s[m] = Valid
                              /\ o = s[n]
      BY <2>1, <1>3
    <3>2. n \in 1 .. 8
      BY <2>1, <3>1
    <3>3. PICK k \in 1 .. 9 : /\ t[k] # Valid
                              /\ \A m \in 1 .. (k - 1) : t[m] = Valid
                              /\ p = t[k]
      BY <3>1, <3>2, <1>1, <1>4
    <3>4. ~(k < n) /\ ~(n < k)
      BY <3>1, <3>2, <3>3, <1>1
    <3>5. k = n
      BY <3>4
    <3> QED
      BY <3>1, <3>2, <3>3, <3>5, <1>1, <1>6
  <2>2. CASE \A n \in 1 .. 8 : s[n] = Valid
    <3>1. o = s[9] /\ p = t[9]
      BY <2>2, <1>1, <1>3, <1>4
    <3> QED
      BY <3>1, <1>2, <1>6
  <2> QED
    BY <2>1, <2>2
<1>9. CASE s[9] # Valid /\ t[9] = Valid /\ o = Late /\ p = Valid
  <2>1. e.event_timestamp > now + MaxFutureSkew /\ o # Valid
    BY <1>5, <1>6, <1>7, <1>9
  <2> QED
    BY <2>1 DEF o
<1>10. CASE s[9] = Valid /\ t[9] # Valid /\ o = Valid /\ p = Late
  <2>1. later - e.event_timestamp > MaxAge
    BY <1>5, <1>7, <1>10
  <2> QED
    BY <2>1, <1>6, <1>10 DEF o, p
<1> QED
  BY <1>8, <1>9, <1>10

-----------------------------------------------------------------------------
(* The outcome held is what the pipeline made of the message when it was    *)
(* last handled.                                                            *)
IInv ==
  /\ message \in Event
  /\ clock \in Times /\ decided \in Times /\ decided <= clock
  /\ outcome # Pending => outcome = Outcome(message, decided)

LEMMA InitIInv == Init => IInv
<1>1. \A t \in Times : t <= t
  BY LimitsOK
<1> QED
  BY <1>1 DEF Init, IInv

LEMMA StepIInv == IInv /\ [Next]_vars => IInv'
<1> SUFFICES ASSUME IInv, [Next]_vars
             PROVE  IInv'
  OBVIOUS
<1>1. \A t \in Times : t \in Int
  BY LimitsOK
<1>2. CASE HandleMsg
  BY <1>1, <1>2 DEF HandleMsg, IInv
<1>3. CASE Tick
  BY <1>1, <1>3 DEF Tick, IInv
<1>4. CASE UNCHANGED vars
  BY <1>4 DEF vars, IInv
<1> QED
  BY <1>2, <1>3, <1>4 DEF Next

LEMMA IInvAlways == Spec => []IInv
BY InitIInv, StepIInv, PTL DEF Spec

(* Whatever the limits and the message, the validator accepts exactly the   *)
(* acceptable messages, blames a range only of a sound event, and leaves    *)
(* nothing the adapter can see to the catalog.                              *)
THEOREM VerdictsAreRight == Spec => []VerdictMatchesRules
<1>1. IInv => VerdictMatchesRules
  <2> SUFFICES ASSUME IInv, outcome # Pending
               PROVE  VerdictMatchesRules
    BY DEF VerdictMatchesRules
  <2>1. message \in Event /\ decided \in Int /\ outcome = Outcome(message, decided)
    BY LimitsOK DEF IInv
  <2>2. VerdictRight(message, decided)
    BY <2>1, OutcomeRight
  <2> QED
    BY <2>1, <2>2 DEF VerdictRight, VerdictMatchesRules
<1> QED
  BY <1>1, IInvAlways, PTL

(* A message handled again by a later clock keeps its rejection unless it   *)
(* was ahead of the clock, and loses its acceptance only by growing old.    *)
THEOREM VerdictsStand == Spec => RejectionsStand
<1>1. IInv /\ [Next]_vars =>
        [outcome # Pending /\ outcome' # outcome => VerdictChanges]_vars
  <2> SUFFICES ASSUME IInv, Next, outcome # Pending, outcome' # outcome
               PROVE  VerdictChanges
    BY DEF vars
  <2>1. HandleMsg
    BY DEF Next, Tick
  <2>2. /\ outcome = Outcome(message, decided) /\ outcome' = Outcome(message, clock)
        /\ message \in Event /\ decided \in Int /\ clock \in Int /\ decided <= clock
    BY <2>1, LimitsOK DEF HandleMsg, IInv
  <2>3. Outcome(message, clock) # Outcome(message, decided)
    BY <2>2
  <2>4. /\ Outcome(message, decided) # Valid =>
             message.event_timestamp > decided + MaxFutureSkew
        /\ Outcome(message, decided) = Valid =>
             /\ Outcome(message, clock).validator = "TimestampRangeValidator"
             /\ clock - message.event_timestamp > MaxAge
    BY <2>2, <2>3, OutcomeOverTime
  <2> QED
    BY <2>2, <2>4 DEF VerdictChanges
<1> QED
  BY <1>1, IInvAlways, PTL DEF Spec, RejectionsStand

-----------------------------------------------------------------------------
(* The schemas the messages are written with.                               *)

Drill(n) == Drills[n]
Last == Drill(3)
Schemas == {Baseline, Drill(1), Drill(2), Last}

Device == <<"EcommerceEvent", "device_type">>
Referrer == <<"PageViewPayload", "referrer">>
Quantity == <<"PurchasePayload", "quantity">>

(* What the drills make of the baseline: one field more, one less, and one  *)
(* promoted (evolution.py, build_drill_specs).                              *)
LEMMA BaselineShape ==
  /\ DOMAIN Baseline = BaselineFields
  /\ Device \notin BaselineFields /\ {Referrer, Quantity} \subseteq BaselineFields
  /\ Baseline[Referrer].default = TRUE
  /\ Baseline[Quantity] = Plain("int")
  /\ Baseline[Referrer].type = "optional"
<1>1. DOMAIN Baseline = BaselineFields
  BY DEF Baseline
<1>2. Device \notin BaselineFields
  BY DEF BaselineFields, Device, Envelope
<1>3. Referrer \in BaselineFields /\ Quantity \in BaselineFields
  BY DEF BaselineFields, Referrer, Quantity, Envelope
<1>4. Baseline[Referrer] = [type |-> "optional", default |-> TRUE]
  BY <1>3 DEF Baseline, Referrer
<1>5. Baseline[Quantity] = Plain("int")
  BY <1>3 DEF Baseline, Quantity
<1> QED
  BY <1>1, <1>2, <1>3, <1>4, <1>5

LEMMA DrillShapes ==
  /\ Drill(1) = [f \in BaselineFields \cup {Device} |->
       IF f \in BaselineFields THEN Baseline[f] ELSE [type |-> "optional", default |-> TRUE]]
  /\ Drill(2) = [f \in BaselineFields \ {Referrer} |-> Baseline[f]]
  /\ Last = [Baseline EXCEPT ![Quantity].type = "long"]
<1>1. Drill(1) = add_optional_field(Baseline, "device_type")
  BY DEF Drill, Drills
<1>2. Drill(2) = remove_field(Baseline, "PageViewPayload", "referrer", FALSE)
  BY DEF Drill, Drills
<1>3. Last = promote_field_type(Baseline, "PurchasePayload", "quantity", "long")
  BY DEF Last, Drill, Drills
<1>4. add_optional_field(Baseline, "device_type") =
        [f \in BaselineFields \cup {Device} |->
           IF f \in BaselineFields THEN Baseline[f] ELSE [type |-> "optional", default |-> TRUE]]
  BY BaselineShape DEF add_optional_field, add_field, Device, Envelope
<1>5. remove_field(Baseline, "PageViewPayload", "referrer", FALSE) =
        [f \in BaselineFields \ {Referrer} |-> Baseline[f]]
  BY BaselineShape DEF remove_field, Referrer
<1>6. promote_field_type(Baseline, "PurchasePayload", "quantity", "long") =
        [Baseline EXCEPT ![Quantity].type = "long"]
  <2>1. Baseline[Quantity].type = "int" /\ Quantity \in DOMAIN Baseline
    BY BaselineShape DEF Plain
  <2>2. "long" \in Promotions("int")
    BY DEF Promotions, PROMOTION_LATTICE
  <2> QED
    BY <2>1, <2>2 DEF promote_field_type, Quantity
<1> QED
  BY <1>1, <1>2, <1>3, <1>4, <1>5, <1>6

(* The fields a drill leaves alone, and those it does not.                  *)
LEMMA Changed ==
  /\ DOMAIN Baseline = BaselineFields
  /\ DOMAIN Drill(1) = BaselineFields \cup {Device}
  /\ DOMAIN Drill(2) = BaselineFields \ {Referrer}
  /\ DOMAIN Last = BaselineFields
  /\ \A f \in BaselineFields : Drill(1)[f] = Baseline[f]
  /\ \A f \in BaselineFields \ {Referrer} : Drill(2)[f] = Baseline[f]
  /\ \A f \in BaselineFields \ {Quantity} : Last[f] = Baseline[f]
  /\ Drill(1)[Device].default = TRUE
  /\ Last[Quantity].type = "long" /\ Baseline[Quantity].type = "int"
  /\ Baseline[Referrer].default = TRUE
  /\ Referrer # Quantity /\ Device \notin BaselineFields
  /\ Referrer \in BaselineFields /\ Quantity \in BaselineFields
<1>1. Referrer # Quantity
  BY DEF Referrer, Quantity
<1>2. Last[Quantity].type = "long"
  <2>1. Baseline[Quantity] = [type |-> "int", default |-> FALSE] /\ Quantity \in DOMAIN Baseline
    BY BaselineShape DEF Plain
  <2> QED
    BY <2>1, DrillShapes
<1>3. Baseline[Quantity].type = "int"
  BY BaselineShape DEF Plain
<1> QED
  BY <1>1, <1>2, <1>3, BaselineShape, DrillShapes

(* The registry's BACKWARD rule accepts the baseline and every drill after  *)
(* any of them but the last, whose promoted field the others cannot read.   *)
LEMMA Backward ==
  ASSUME NEW new \in Schemas, NEW latest \in Schemas \ {Last}
  PROVE  Compatible(new, latest)
<1>1. SUFFICES ASSUME NEW f \in DOMAIN new
               PROVE  IF f \in DOMAIN latest
                      THEN new[f].type \in {latest[f].type} \cup Promotions(latest[f].type)
                      ELSE new[f].default
  BY Zenon DEF Compatible, CanRead
<1>2. "long" \in Promotions("int")
  BY DEF Promotions, PROMOTION_LATTICE
<1>3. \A g \in BaselineFields \cap DOMAIN latest : latest[g] = Baseline[g]
  BY Changed DEF Schemas
<1>4. \A g \in (BaselineFields \ {Quantity}) \cap DOMAIN new : new[g] = Baseline[g]
  BY Changed DEF Schemas
<1>5. BaselineFields \ {Referrer} \subseteq DOMAIN latest
  BY Changed DEF Schemas
<1>6. CASE f \in BaselineFields \ {Quantity}
  BY <1>3, <1>4, <1>5, <1>6, Changed
<1>7. CASE f = Quantity
  <2>1. Quantity \in DOMAIN latest /\ latest[Quantity].type = "int"
    BY <1>3, <1>5, Changed
  <2>2. new[Quantity].type \in {"int", "long"}
    BY <1>7, Changed DEF Schemas
  <2> QED
    BY <1>2, <1>7, <2>1, <2>2
<1>8. CASE f \notin BaselineFields
  <2>1. f = Device /\ new = Drill(1)
    BY <1>8, Changed DEF Schemas
  <2>2. CASE Device \in DOMAIN latest
    <3>1. latest = Drill(1)
      BY <2>2, Changed DEF Schemas
    <3> QED
      BY <2>1, <2>2, <3>1
  <2>3. CASE Device \notin DOMAIN latest
    BY <2>1, <2>3, Changed
  <2> QED
    BY <2>2, <2>3
<1> QED
  BY <1>6, <1>7, <1>8

(* avro_dict_to_event finds in a record of any of these schemas what the    *)
(* envelope needs and the payload's model declares, and nothing it forbids. *)
LEMMA Decodable ==
  ASSUME NEW schema \in Schemas, NEW kind \in Kind
  PROVE  DecodesEvent(schema, kind)
<1>1. BaselineFields \ {Referrer} \subseteq DOMAIN schema
  BY Changed DEF Schemas
<1>2. DOMAIN schema \subseteq BaselineFields \cup {Device}
  BY Changed DEF Schemas
<1>3. Referrer[1] # "EcommerceEvent" /\ Referrer[2] \in Optional /\ Device[1] \notin Kind
  BY DEF Referrer, Device, Optional, Kind
<1>4. Fields(Baseline, Envelope) \subseteq Fields(schema, Envelope)
  BY <1>1, <1>3, Changed DEF Fields, Envelope
<1>5. Fields(schema, kind) \subseteq Fields(Baseline, kind)
  BY <1>2, <1>3, Changed DEF Fields
<1>6. Fields(Baseline, kind) \ Optional \subseteq Fields(schema, kind)
  BY <1>1, <1>3, Changed DEF Fields
<1> QED
  BY <1>4, <1>5, <1>6 DEF DecodesEvent

Versions == {subject[i] : i \in DOMAIN subject}

(* What the registry serves, the topic holds and a producer caches are the  *)
(* four schemas, and nothing but the registry's is ever written.            *)
Served ==
  /\ subject \in Seq(Schemas) /\ known \subseteq Schemas
  /\ Versions \subseteq known /\ topic \subseteq known
  /\ cached # NoSchema => cached \in known

(* A run has drills left where it needs one.                                *)
Agenda ==
  /\ todo \in {<<>>, <<1, 2, 3>>, <<2, 3>>, <<3>>, <<1>>, <<2>>}
  /\ pc \in {"register", "produce", "consume"} => todo # <<>>

(* The last drill's version, the only one another drill could fail against, *)
(* is live only when no drill follows it, or the run says it cleaned        *)
(* nothing up.                                                              *)
LastIsLast ==
  /\ clean /\ pc \in {"idle", "register"} => Last \notin Versions
  /\ clean /\ pc \in {"produce", "consume"} /\ Last \in Versions => Tail(todo) = <<>>
  /\ clean /\ pc = "report" => keep \/ Last \notin Versions
  /\ pc = "restore" => Last \notin Versions

EvolutionInv == Served /\ Agenda /\ LastIsLast /\ DrillsAccepted

LEMMA Distinct == Baseline # Last /\ Drill(1) # Last /\ Drill(2) # Last
  BY Changed

LEMMA EvolutionInit == DriverInit => EvolutionInv
<1> SUFFICES ASSUME DriverInit PROVE EvolutionInv
  OBVIOUS
<1>1. subject \in Seq(Schemas) /\ Versions \subseteq {Baseline}
  <2>1. CASE subject = <<>>
    BY <2>1 DEF Versions
  <2>2. CASE subject = <<Baseline>>
    <3>1. DOMAIN subject = {1} /\ subject[1] = Baseline
      BY <2>2
    <3> QED
      BY <2>2, <3>1 DEF Schemas, Versions
  <2> QED
    BY <2>1, <2>2 DEF DriverInit
<1>2. known = Versions /\ topic = {} /\ cached = NoSchema
  BY DEF DriverInit, Versions
<1>3. Served
  BY <1>1, <1>2 DEF Served, Schemas
<1>4. Agenda
  BY DEF DriverInit, Agenda
<1>5. LastIsLast
  BY <1>1, Distinct DEF DriverInit, LastIsLast
<1>6. DrillsAccepted
  BY DEF DriverInit, DrillsAccepted
<1> QED
  BY <1>3, <1>4, <1>5, <1>6 DEF EvolutionInv

(* SchemaRegistry.register makes the schema a live version of the subject.  *)
LEMMA RegisteredVersions ==
  ASSUME Served, NEW new \in Schemas,
         subject' = Registered(new), known' = known \cup {new},
         UNCHANGED <<topic, cached>>
  PROVE  Served' /\ Versions' = Versions \cup {new}
<1>1. subject \in Seq(Schemas)
  BY DEF Served
<1>2. subject' \in Seq(Schemas) /\ Versions' = Versions \cup {new}
  <2>1. CASE new \in Versions
    BY <1>1, <2>1 DEF Registered, Versions
  <2>2. CASE new \notin Versions
    <3>1. subject' = Append(subject, new)
      BY <1>1, <2>2 DEF Registered, Versions
    <3>2. DOMAIN subject' = 1 .. Len(subject) + 1 /\ Len(subject) \in Nat
      BY <1>1, <3>1
    <3>3. \A i \in 1 .. Len(subject) : subject'[i] = subject[i]
      BY <1>1, <3>1
    <3>4. subject'[Len(subject) + 1] = new
      BY <1>1, <3>1
    <3>5. DOMAIN subject = 1 .. Len(subject)
      BY <1>1
    <3>6. Versions' = {subject'[i] : i \in 1 .. Len(subject) + 1}
      BY <3>2 DEF Versions
    <3>7. Versions = {subject[i] : i \in 1 .. Len(subject)}
      BY <3>5 DEF Versions
    <3>8. 1 .. Len(subject) + 1 = (1 .. Len(subject)) \cup {Len(subject) + 1}
      BY <3>2
    <3> QED
      BY <1>1, <3>1, <3>3, <3>4, <3>6, <3>7, <3>8
  <2> QED
    BY <2>1, <2>2
<1> QED
  BY <1>2 DEF Served

(* A run begun clean has each of its drills accepted.                       *)
LEMMA CleanAccepts ==
  ASSUME Served, Last \notin Versions, NEW new \in Schemas
  PROVE  Accepted(new)
<1> SUFFICES ASSUME subject # <<>> PROVE Compatible(new, Latest)
  BY DEF Accepted
<1>1. Latest \in Versions /\ Latest \in Schemas
  <2>1. subject \in Seq(Schemas) /\ Len(subject) \in 1 .. Len(subject)
    BY DEF Served
  <2> QED
    BY <2>1 DEF Latest, Versions
<1> QED
  BY <1>1, Backward

(* The drills of a run, in order: what follows one, and whether it is the   *)
(* last.                                                                    *)
LEMMA Following ==
  ASSUME Agenda, todo # <<>>
  PROVE  /\ Head(todo) \in 1 .. 3 /\ Drill(Head(todo)) \in Schemas
         /\ Tail(todo) \in {<<>>, <<2, 3>>, <<3>>}
         /\ Drill(Head(todo)) = Last => Tail(todo) = <<>>
<1>1. todo \in {<<1, 2, 3>>, <<2, 3>>, <<3>>, <<1>>, <<2>>}
  BY DEF Agenda
<1>2. /\ Head(todo) \in 1 .. 3 /\ Tail(todo) \in {<<>>, <<2, 3>>, <<3>>}
      /\ Head(todo) = 3 => Tail(todo) = <<>>
  <2>1. Tail(<<1, 2, 3>>) = <<2, 3>> /\ Tail(<<2, 3>>) = <<3>>
    OBVIOUS
  <2>2. Tail(<<1>>) = <<>> /\ Tail(<<2>>) = <<>> /\ Tail(<<3>>) = <<>>
    OBVIOUS
  <2>3. /\ Head(<<1, 2, 3>>) = 1 /\ Head(<<2, 3>>) = 2
        /\ Head(<<1>>) = 1 /\ Head(<<2>>) = 2 /\ Head(<<3>>) = 3
    OBVIOUS
  <2>4. CASE todo = <<1, 2, 3>>
    BY <2>1, <2>3, <2>4
  <2>5. CASE todo = <<2, 3>>
    BY <2>1, <2>3, <2>5
  <2>6. CASE todo = <<1>>
    BY <2>2, <2>3, <2>6
  <2>7. CASE todo = <<2>>
    BY <2>2, <2>3, <2>7
  <2>8. CASE todo = <<3>>
    BY <2>2, <2>3, <2>8
  <2> QED
    BY <1>1, <2>4, <2>5, <2>6, <2>7, <2>8
<1>3. Drill(1) \in Schemas /\ Drill(2) \in Schemas /\ Drill(3) \in Schemas
  BY DEF Schemas, Last
<1>4. Drill(Head(todo)) \in Schemas
  BY <1>2, <1>3
<1>5. Drill(Head(todo)) = Last => Head(todo) = 3
  BY <1>2, Distinct
<1> QED
  BY <1>2, <1>4, <1>5

LEMMA Steady ==
  ASSUME EvolutionInv, UNCHANGED <<subject, known, topic, cached>>
  PROVE  Served' /\ Versions' = Versions
  BY DEF EvolutionInv, Served, Versions

LEMMA EvolutionNext == EvolutionInv /\ [DriverNext]_driverVars => EvolutionInv'
<1> SUFFICES ASSUME EvolutionInv, [DriverNext]_driverVars PROVE EvolutionInv'
  OBVIOUS
<1>0. Served /\ Agenda /\ LastIsLast /\ DrillsAccepted
  BY DEF EvolutionInv
<1>1. CASE Begin
  <2>1. UNCHANGED <<subject, known, topic, cached, clean, verdicts>> /\ pc = "idle"
    BY <1>1 DEF Begin, registry
  <2>2. Served' /\ Versions' = Versions
    BY <2>1, Steady
  <2>3. Agenda'
    BY <1>1 DEF Begin, Agenda
  <2>4. LastIsLast'
    BY <1>0, <1>1, <2>1, <2>2 DEF Begin, LastIsLast
  <2>5. DrillsAccepted'
    BY <1>0, <2>1 DEF DrillsAccepted
  <2> QED
    BY <2>2, <2>3, <2>4, <2>5 DEF EvolutionInv
<1>2. CASE Register
  <2> DEFINE new == Drills[Head(todo)]
  <2>1. pc = "register" /\ todo # <<>> /\ UNCHANGED <<keep, topic, cached>>
    BY <1>0, <1>2 DEF Register, Agenda
  <2>2. /\ new \in Schemas /\ Tail(todo) \in {<<>>, <<2, 3>>, <<3>>}
        /\ new = Last => Tail(todo) = <<>>
    BY <1>0, <2>1, Following DEF Drill
  <2>3. clean => Last \notin Versions /\ Accepted(new)
    BY <1>0, <2>1, <2>2, CleanAccepts DEF LastIsLast
  <2>4. CASE Accepted(new) /\ subject' = Registered(new) /\ known' = known \cup {new}
             /\ pc' = "produce" /\ UNCHANGED <<todo, clean>>
             /\ verdicts' = IF clean THEN verdicts \cup {"accepted"} ELSE verdicts
    <3>1. Served' /\ Versions' = Versions \cup {new}
      BY <1>0, <2>1, <2>2, <2>4, RegisteredVersions
    <3>2. Agenda'
      BY <1>0, <2>1, <2>4 DEF Agenda
    <3>3. LastIsLast'
      BY <2>2, <2>3, <2>4, <3>1 DEF LastIsLast
    <3>4. DrillsAccepted'
      BY <1>0, <2>4 DEF DrillsAccepted
    <3> QED
      BY <3>1, <3>2, <3>3, <3>4 DEF EvolutionInv
  <2>5. CASE EndDrill /\ UNCHANGED <<subject, known>>
             /\ \/ ~Accepted(new) /\ UNCHANGED clean
                   /\ verdicts' = IF clean THEN verdicts \cup {"rejected"} ELSE verdicts
                \/ ~clean' /\ UNCHANGED verdicts
    <3>1. Served' /\ Versions' = Versions
      BY <2>1, <2>5, Steady
    <3>2. ~clean'
      BY <2>3, <2>5
    <3>3. Agenda'
      BY <2>2, <2>5 DEF EndDrill, Agenda
    <3>4. LastIsLast'
      BY <2>5, <3>2 DEF EndDrill, LastIsLast
    <3>5. DrillsAccepted'
      BY <1>0, <2>3, <2>5 DEF DrillsAccepted
    <3> QED
      BY <3>1, <3>3, <3>4, <3>5 DEF EvolutionInv
  <2> QED
    BY <1>2, <2>4, <2>5 DEF Register, NoFault, Fault, registry
<1>3. CASE Produce
  <2>1. /\ pc = "produce" /\ pc' = "consume" /\ (UNCHANGED clean \/ ~clean')
        /\ UNCHANGED <<subject, known, todo, keep, cached, verdicts>>
        /\ topic' = topic \/ (subject # <<>> /\ topic' = topic \cup {Latest})
    BY <1>3 DEF Produce, Fault, NoFault, registry
  <2>2. Versions' = Versions
    BY <2>1 DEF Versions
  <2>3. subject # <<>> => Latest \in Versions
    <3>1. subject # <<>> => Len(subject) \in DOMAIN subject
      BY <1>0 DEF Served
    <3> QED
      BY <3>1 DEF Latest, Versions
  <2>4. Served'
    BY <1>0, <2>1, <2>2, <2>3 DEF Served
  <2>5. Agenda' /\ DrillsAccepted'
    BY <1>0, <2>1 DEF Agenda, DrillsAccepted
  <2>6. LastIsLast'
    <3>1. pc' = "consume" /\ (clean' => clean)
      BY <2>1
    <3> QED
      BY <1>0, <2>1, <2>2, <3>1 DEF LastIsLast
  <2> QED
    BY <2>4, <2>5, <2>6 DEF EvolutionInv
<1>4. CASE Consume
  <2>1. pc = "consume" /\ UNCHANGED <<subject, known, topic, cached, keep, clean, verdicts>>
    BY <1>4 DEF Consume, registry, ghosts
  <2>2. Served' /\ Versions' = Versions
    BY <2>1, Steady
  <2>3. CASE pc' = "produce" /\ UNCHANGED todo
    BY <1>0, <2>1, <2>2, <2>3 DEF EvolutionInv, Agenda, LastIsLast, DrillsAccepted
  <2>4. CASE EndDrill
    <3>1. Tail(todo) \in {<<>>, <<2, 3>>, <<3>>}
      BY <1>0, <2>1, Following DEF Agenda
    <3>2. Agenda'
      BY <2>4, <3>1 DEF EndDrill, Agenda
    <3>3. LastIsLast'
      BY <1>0, <2>1, <2>2, <2>4 DEF EndDrill, LastIsLast
    <3> QED
      BY <1>0, <2>1, <2>2, <3>2, <3>3 DEF EvolutionInv, DrillsAccepted
  <2> QED
    BY <1>4, <2>3, <2>4 DEF Consume
<1>5. CASE Delete
  <2>1. pc = "delete" /\ UNCHANGED <<known, topic, todo, keep, cached, verdicts>>
    BY <1>5 DEF Delete
  <2>2. CASE subject' = <<>> /\ pc' = "restore"
    <3>1. subject' \in Seq(Schemas) /\ Versions' = {}
      BY <2>2 DEF Versions
    <3> QED
      BY <1>0, <2>1, <2>2, <3>1
         DEF EvolutionInv, Served, Agenda, LastIsLast, DrillsAccepted
  <2>3. CASE subject' = subject /\ pc' = "report" /\ ~clean'
    <3>1. Served' /\ Versions' = Versions
      BY <2>1, <2>3, Steady
    <3> QED
      BY <1>0, <2>1, <2>3, <3>1 DEF EvolutionInv, Agenda, LastIsLast, DrillsAccepted
  <2> QED
    BY <1>5, <2>2, <2>3 DEF Delete, Fault
<1>6. CASE Restore
  <2>1. /\ pc = "restore" /\ pc' = "report"
        /\ UNCHANGED <<topic, todo, keep, cached, verdicts>>
    BY <1>6 DEF Restore
  <2>2. CASE subject' = Registered(Baseline) /\ known' = known \cup {Baseline}
    <3>1. Served' /\ Versions' = Versions \cup {Baseline}
      BY <1>0, <2>1, <2>2, RegisteredVersions DEF Schemas
    <3>2. Last \notin Versions'
      BY <1>0, <2>1, <3>1, Distinct DEF LastIsLast
    <3> QED
      BY <1>0, <2>1, <3>1, <3>2 DEF EvolutionInv, Agenda, LastIsLast, DrillsAccepted
  <2>3. CASE UNCHANGED <<subject, known>>
    <3>1. Served' /\ Versions' = Versions
      BY <2>1, <2>3, Steady
    <3> QED
      BY <1>0, <2>1, <3>1 DEF EvolutionInv, Agenda, LastIsLast, DrillsAccepted
  <2> QED
    BY <1>6, <2>2, <2>3 DEF Restore, registry
<1>7. CASE Report
  <2>1. /\ pc = "report" /\ pc' = "idle" /\ clean' = (clean /\ ~keep)
        /\ UNCHANGED <<subject, known, topic, todo, keep, cached, verdicts>>
    BY <1>7 DEF Report, registry
  <2>2. Served' /\ Versions' = Versions
    BY <2>1, Steady
  <2> QED
    BY <1>0, <2>1, <2>2 DEF EvolutionInv, Agenda, LastIsLast, DrillsAccepted
<1>8. CASE Crash
  <2>1. /\ pc' = "idle" /\ todo' = <<>> /\ ~clean'
        /\ UNCHANGED <<subject, known, topic, keep, cached, verdicts>>
    BY <1>8 DEF Crash, Fault, registry
  <2>2. Served' /\ Versions' = Versions
    BY <2>1, Steady
  <2> QED
    BY <1>0, <2>1, <2>2 DEF EvolutionInv, Agenda, LastIsLast, DrillsAccepted
<1>9. CASE RegisterBaseline
  <2>1. /\ subject' = Registered(Baseline) /\ known' = known \cup {Baseline}
        /\ UNCHANGED <<topic, pc, todo, keep, cached, clean, verdicts>>
    BY <1>9 DEF RegisterBaseline, driver, ghosts
  <2>2. Served' /\ Versions' = Versions \cup {Baseline}
    BY <1>0, <2>1, RegisteredVersions DEF Schemas
  <2>3. Last \in Versions' <=> Last \in Versions
    BY <2>2, Distinct
  <2> QED
    BY <1>0, <2>1, <2>2, <2>3 DEF EvolutionInv, Agenda, LastIsLast, DrillsAccepted
<1>10. CASE LiveStart
  <2>1. /\ subject # <<>> /\ cached' = Latest
        /\ UNCHANGED <<subject, known, topic, pc, todo, keep, clean, verdicts>>
    BY <1>10 DEF LiveStart, registry, driver, ghosts
  <2>2. Versions' = Versions
    BY <2>1 DEF Versions
  <2>3. Latest \in Versions
    <3>1. Len(subject) \in DOMAIN subject
      BY <1>0, <2>1 DEF Served
    <3> QED
      BY <3>1 DEF Latest, Versions
  <2>4. Served'
    BY <1>0, <2>1, <2>2, <2>3 DEF Served
  <2> QED
    BY <1>0, <2>1, <2>2, <2>4 DEF EvolutionInv, Agenda, LastIsLast, DrillsAccepted
<1>11. CASE LiveProduce
  <2>1. /\ cached # NoSchema /\ topic' = topic \cup {cached}
        /\ UNCHANGED <<subject, known, pc, todo, keep, cached, clean, verdicts>>
    BY <1>11 DEF LiveProduce, registry, driver, ghosts
  <2>2. Versions' = Versions
    BY <2>1 DEF Versions
  <2>3. Served'
    BY <1>0, <2>1, <2>2 DEF Served
  <2> QED
    BY <1>0, <2>1, <2>2, <2>3 DEF EvolutionInv, Agenda, LastIsLast, DrillsAccepted
<1>12. CASE UNCHANGED driverVars
  <2>1. UNCHANGED <<subject, known, topic, pc, todo, keep, cached, clean, verdicts>>
    BY <1>12 DEF driverVars, registry, driver, ghosts
  <2>2. Served' /\ Versions' = Versions
    BY <2>1, Steady
  <2> QED
    BY <1>0, <2>1, <2>2 DEF EvolutionInv, Agenda, LastIsLast, DrillsAccepted
<1> QED
  BY <1>1, <1>2, <1>3, <1>4, <1>5, <1>6, <1>7, <1>8, <1>9, <1>10, <1>11, <1>12 DEF DriverNext

(* Every drill of a run that begins clean is registered, whatever runs,     *)
(* faults, crashes and other processes came before it: BACKWARD compares a  *)
(* candidate with the drill before it, and only the last drill's version    *)
(* could refuse another (run_drill, cleanup_experiment_versions).           *)
THEOREM DrillsAreAccepted == DriverSpec => []DrillsAccepted
<1>1. EvolutionInv => DrillsAccepted
  BY DEF EvolutionInv
<1> QED
  BY <1>1, EvolutionInit, EvolutionNext, PTL DEF DriverSpec

(* Every record any of the producers leaves in the topic was written with a *)
(* schema the registry still serves by its id, soft-deleted or not, and     *)
(* avro_dict_to_event makes an event of what it decodes to.                 *)
THEOREM TopicIsReadable == DriverSpec => []TopicStaysReadable
<1>1. EvolutionInv => TopicStaysReadable
  BY Decodable DEF EvolutionInv, Served, TopicStaysReadable
<1> QED
  BY <1>1, EvolutionInit, EvolutionNext, PTL DEF DriverSpec
================================================================================
