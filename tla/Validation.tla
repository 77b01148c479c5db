------------------------------ MODULE Validation ------------------------------
(***************************************************************************)
(* What the validator makes of one message (validate/runner.py _decode,    *)
(* validate/pipeline.py with default_validators): the Pydantic adapter     *)
(* builds the event, six validators look at it in order, and the first     *)
(* fault found is the reason the message goes to the dead-letter queue.    *)
(* The message is handled again whenever its batch is read again, after a  *)
(* crash, an aborted transaction or a rebalance, by a later clock.         *)
(*                                                                         *)
(* Messages whose bytes the Avro deserializer refuses never get here: see  *)
(* "undecodable" in ValidatorAlo.                                          *)
(***************************************************************************)
EXTENDS Integers, Sequences

CONSTANTS
  Quantities,     \* purchase quantities the log may hold
  Prices,         \* prices in cents the log may hold
  Times,          \* event times, and wall-clock times of a validation
  MaxQuantity,    \* QuantityRangeValidator max_quantity
  MaxPrice,       \* PriceRangeValidator max_price_cents (its minimum is 0)
  MaxAge,         \* TimestampRangeValidator max_age
  MaxFutureSkew   \* TimestampRangeValidator max_future_skew

ASSUME LimitsOK ==
  /\ Quantities \subseteq Int /\ Prices \subseteq Int /\ Times \subseteq Int
  /\ MaxQuantity \in Nat \ {0} /\ MaxPrice \in Nat \ {0}
  /\ MaxAge \in Nat \ {0} /\ MaxFutureSkew \in Nat \ {0}

EventType == {"CLICK", "PURCHASE", "PAGE_VIEW"}

(* A decoded payload. A blank one breaks a string constraint of its model   *)
(* (an empty product_id, element_id or page_url, a malformed currency).     *)
Payload ==
  [kind : {"click", "page_view"}, blank : BOOLEAN, quantity : {1}, price : {1}]
    \cup
  [kind : {"purchase"}, blank : BOOLEAN, quantity : Quantities, price : Prices]

(* A decoded message. The writer's schema may know event types this code    *)
(* does not, and nothing ties the payload's record to the event type.       *)
Event ==
  [event_id : {"uuid", "text"},
   event_type : EventType \cup {"REFUND"},
   user_id : {"empty", "plain", "long", "control"},
   session_id : {"empty", "plain"},
   event_timestamp : Times,
   payload : Payload]

Valid == [error_class |-> "none", validator |-> "none", field |-> "none"]
Invalid(class, by, path) ==
  [error_class |-> class, validator |-> by, field |-> path]

Unless(fault, outcome) == IF fault THEN outcome ELSE Valid

-----------------------------------------------------------------------------
(* avro_dict_to_event under _decode, in the order the adapter evaluates it:  *)
(* a value the code cannot coerce, then the payload model, then the event.   *)
Coerce(e) ==
  Unless(e.event_id # "uuid" \/ e.event_type \notin EventType,
         Invalid("DESERIALIZE_FAILURE", "AvroEventConsumer", "none"))

PayloadModel(e) ==
  Unless(e.payload.blank \/ e.payload.quantity < 1 \/ e.payload.price < 0,
         Invalid("NULL_REQUIRED_FIELD", "PydanticAdapter", "payload"))

EventModel(e) ==
  Unless("empty" \in {e.user_id, e.session_id},
         Invalid("NULL_REQUIRED_FIELD", "PydanticAdapter", "event"))

(* The catalog.                                                             *)
RequiredFields(e) ==
  Unless("empty" \in {e.user_id, e.session_id},
         Invalid("NULL_REQUIRED_FIELD", "RequiredFieldsValidator", "event"))

EventTypeAllowlist(e) ==
  Unless(e.event_type \notin EventType,
         Invalid("UNKNOWN_EVENT_TYPE", "EventTypeAllowlistValidator",
                 "event_type"))

UserIdShape(e) ==
  Unless(e.user_id \in {"long", "control"},
         Invalid("MALFORMED_RECORD", "UserIdShapeValidator", "user_id"))

(* A validator for purchases looks at events of that type with that payload *)
Purchase(e) == e.event_type = "PURCHASE" /\ e.payload.kind = "purchase"

(* Mutant: a price of 0 is accepted.                                       *)
PriceRangeInclusive(e) ==
  Unless(Purchase(e) /\ (e.payload.price < 0 \/ e.payload.price > MaxPrice),
         Invalid("OUT_OF_RANGE", "PriceRangeValidator", "payload.price_cents"))

PriceRange(e) ==
  Unless(Purchase(e) /\ (e.payload.price <= 0 \/ e.payload.price > MaxPrice),
         Invalid("OUT_OF_RANGE", "PriceRangeValidator", "payload.price_cents"))

QuantityRange(e) ==
  Unless(Purchase(e)
           /\ (e.payload.quantity < 1 \/ e.payload.quantity > MaxQuantity),
         Invalid("OUT_OF_RANGE", "QuantityRangeValidator", "payload.quantity"))

TimestampRange(e, now) ==
  Unless(\/ e.event_timestamp > now + MaxFutureSkew
         \/ now - e.event_timestamp > MaxAge,
         Invalid("OUT_OF_RANGE", "TimestampRangeValidator", "event_timestamp"))

(* Mutant: the catalog in another order.                                    *)
TimestampFirst(e, now) ==
  << Coerce(e), PayloadModel(e), EventModel(e), RequiredFields(e),
     EventTypeAllowlist(e), UserIdShape(e), TimestampRange(e, now),
     PriceRange(e), QuantityRange(e) >>

Stages(e, now) ==
  << Coerce(e), PayloadModel(e), EventModel(e), RequiredFields(e),
     EventTypeAllowlist(e), UserIdShape(e), PriceRange(e), QuantityRange(e),
     TimestampRange(e, now) >>

(* ValidationPipeline.validate: the first fault is the outcome.             *)
Outcome(e, now) ==
  LET stages == Stages(e, now) IN
  IF \A n \in DOMAIN stages : stages[n] = Valid
    THEN Valid
    ELSE stages[CHOOSE n \in DOMAIN stages :
                  /\ stages[n] # Valid
                  /\ \A m \in 1 .. (n - 1) : stages[m] = Valid]

-----------------------------------------------------------------------------
VARIABLES
  message,    \* the message
  clock,      \* the validator's wall clock
  outcome,    \* what it was last found to be
  decided     \* history: the clock at that time

vars == <<message, clock, outcome, decided>>

Pending == [error_class |-> "pending", validator |-> "none", field |-> "none"]

Init ==
  /\ message \in Event
  /\ clock \in Times
  /\ outcome = Pending
  /\ decided = clock

(* _decode and _route_valid or _route_invalid, the first time or again.     *)
HandleMsg ==
  /\ outcome' = Outcome(message, clock)
  /\ decided' = clock
  /\ UNCHANGED <<message, clock>>

Tick ==
  /\ clock' \in {t \in Times : t > clock}
  /\ UNCHANGED <<message, outcome, decided>>

Next == HandleMsg \/ Tick

Spec == Init /\ [][Next]_vars

-----------------------------------------------------------------------------
(* What a reader of validated-events may rely on.                           *)
Acceptable(e, now) ==
  /\ e.event_id = "uuid" /\ e.event_type \in EventType
  /\ e.user_id = "plain" /\ e.session_id = "plain"
  /\ ~e.payload.blank /\ e.payload.quantity >= 1 /\ e.payload.price >= 0
  /\ Purchase(e) => /\ e.payload.price \in 1 .. MaxPrice
                    /\ e.payload.quantity <= MaxQuantity
  /\ e.event_timestamp \in (now - MaxAge) .. (now + MaxFutureSkew)

(* The pipeline accepts the acceptable messages and no other. It blames a   *)
(* range only of an event that is otherwise sound, and leaves nothing the   *)
(* adapter can see to the catalog: neither UNKNOWN_EVENT_TYPE nor the       *)
(* RequiredFieldsValidator is ever reported.                                *)
VerdictMatchesRules ==
  outcome # Pending =>
    /\ outcome = Valid <=> Acceptable(message, decided)
    /\ outcome.error_class = "OUT_OF_RANGE" =>
         /\ message.user_id = "plain" /\ message.session_id = "plain"
         /\ message.payload.quantity >= 1 /\ message.payload.price >= 0
         /\ ~message.payload.blank
    /\ outcome.error_class # "UNKNOWN_EVENT_TYPE"
    /\ outcome.validator # "RequiredFieldsValidator"

(* A message validated again by a later clock: its rejection stands, with   *)
(* its reason, unless it was ahead of the clock then, and its acceptance is *)
(* only withdrawn because it has grown too old.                             *)
VerdictChanges ==
  /\ outcome # Valid => message.event_timestamp > decided + MaxFutureSkew
  /\ outcome = Valid =>
       /\ outcome'.validator = "TimestampRangeValidator"
       /\ clock - message.event_timestamp > MaxAge

RejectionsStand ==
  [][outcome # Pending /\ outcome' # outcome => VerdictChanges]_vars
=============================================================================
