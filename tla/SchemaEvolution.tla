----------------------------- MODULE SchemaEvolution ---------------------------
(***************************************************************************)
(* The schema-evolution driver (scripts/run_schema_evolution.py) and the   *)
(* mutations it drills (schemas/evolution.py), against a Schema Registry   *)
(* pinned to BACKWARD (schemas/registry.py, external behind it) and the    *)
(* topic it produces to and reads from.  Other processes use the subject   *)
(* meanwhile: register_schemas.py registers the baseline, and a producer   *)
(* writes with the schema that was the latest when it started.             *)
(*                                                                         *)
(* A composite schema is a function from <<record, field>> to the field's  *)
(* type and whether it has a default.  The registry gives one id to equal  *)
(* schemas, so a schema stands for its id.                                 *)
(***************************************************************************)
EXTENDS Integers, Sequences

CONSTANTS
  MaxRuns,          \* bound: runs of the driver
  MaxFaults         \* bound: registry failures, crashes, short deliveries

ASSUME BoundsOK == {MaxRuns, MaxFaults} \subseteq Nat

Kind == {"ClickPayload", "PurchasePayload", "PageViewPayload"}
Envelope == "EcommerceEvent"

Plain(type) == [type |-> type, default |-> FALSE]

(* The files of schemas/ecommerce/v1; the types no drill looks at count as  *)
(* strings.                                                                 *)
BaselineFields ==
  ({Envelope} \X {"event_id", "event_type", "user_id", "session_id", "event_timestamp", "payload"})
    \cup ({"ClickPayload"} \X {"page_url", "element_id"})
    \cup ({"PurchasePayload"} \X {"product_id", "quantity", "price_cents", "currency"})
    \cup ({"PageViewPayload"} \X {"page_url", "referrer"})

Baseline ==
  [f \in BaselineFields |->
     CASE f[2] = "quantity" -> Plain("int")
       [] f[2] = "price_cents" -> Plain("long")
       [] f[2] = "currency" -> [type |-> "string", default |-> TRUE]
       [] f[2] = "referrer" -> [type |-> "optional", default |-> TRUE]
       [] OTHER -> Plain("string")]

-----------------------------------------------------------------------------
(* The mutations; NoSchema where the code raises SchemaMutationError.       *)

NoSchema == <<>>

PROMOTION_LATTICE == [int |-> {"long", "float", "double"}, long |-> {"float", "double"},
                      float |-> {"double"}]

Promotions(type) ==
  IF type \in DOMAIN PROMOTION_LATTICE THEN PROMOTION_LATTICE[type] ELSE {}

add_field(base, name, field) ==
  IF <<Envelope, name>> \in DOMAIN base THEN NoSchema
  ELSE [f \in DOMAIN base \cup {<<Envelope, name>>} |-> IF f \in DOMAIN base THEN base[f] ELSE field]

(* Mutant: the new field has no default.                                    *)
add_required_field(base, name) == add_field(base, name, [type |-> "optional", default |-> FALSE])

add_optional_field(base, name) == add_field(base, name, [type |-> "optional", default |-> TRUE])

remove_field(base, record, field, force) ==
  IF <<record, field>> \notin DOMAIN base \/ ~(force \/ base[record, field].default)
  THEN NoSchema
  ELSE [f \in DOMAIN base \ {<<record, field>>} |-> base[f]]

promote_field_type(base, record, field, new) ==
  IF \/ <<record, field>> \notin DOMAIN base
     \/ base[record, field].type = "optional"
     \/ new \notin Promotions(base[record, field].type) \cup {base[record, field].type}
  THEN NoSchema
  ELSE [base EXCEPT ![<<record, field>>].type = new]

Drills ==
  << add_optional_field(Baseline, "device_type"),
     remove_field(Baseline, "PageViewPayload", "referrer", FALSE),
     promote_field_type(Baseline, "PurchasePayload", "quantity", "long") >>

-----------------------------------------------------------------------------
(* Avro (external): a reader resolves the fields of the records a datum     *)
(* holds; the registry applies it to every record under BACKWARD.           *)

CanRead(reader, writer, records) ==
  \A f \in DOMAIN reader : f[1] \in records =>
    IF f \in DOMAIN writer
    THEN reader[f].type \in {writer[f].type} \cup Promotions(writer[f].type)
    ELSE reader[f].default

Compatible(new, latest) == CanRead(new, latest, {Envelope} \cup Kind)

(* avro_dict_to_event: the envelope's fields by name, others ignored; the   *)
(* payload models forbid what they do not declare.                          *)
Fields(schema, record) == {f[2] : f \in {g \in DOMAIN schema : g[1] = record}}

Optional == {"currency", "referrer"}

DecodesEvent(schema, kind) ==
  /\ Fields(Baseline, Envelope) \subseteq Fields(schema, Envelope)
  /\ Fields(schema, kind) \subseteq Fields(Baseline, kind)
  /\ Fields(Baseline, kind) \ Optional \subseteq Fields(schema, kind)

-----------------------------------------------------------------------------
VARIABLES
  subject,       \* schemas of the subject's versions, oldest first
  known,         \* schemas the registry still serves by id
  topic,         \* schemas of the topic's records, of every kind of event
  pc,            \* the driver's next step
  todo, keep,    \* drills left of the run, and --keep-subject
  cell,          \* the serde cell being run
  cached,        \* the other producer's schema, NoSchema before it has one
  runs, faults,
  clean,         \* history: has the last run cleaned up?
  verdicts       \* history: verdicts on the drills of runs begun clean

registry == <<subject, known>>
driver   == <<pc, todo, keep, cell>>
ghosts   == <<runs, faults, clean, verdicts>>
driverVars == <<registry, topic, driver, cached, ghosts>>

Latest == subject[Len(subject)]

DriverInit ==
  /\ subject \in {<<>>, <<Baseline>>} /\ known = {subject[i] : i \in DOMAIN subject}
  /\ topic = {}
  /\ pc = "idle" /\ todo = <<>> /\ keep = FALSE /\ cell = 1
  /\ cached = NoSchema
  /\ runs = 0 /\ faults = 0 /\ clean = TRUE /\ verdicts = {}

(* register_schema: an equal live version is found before compatibility is  *)
(* checked, and makes no new one.                                           *)
Accepted(schema) ==
  (schema \notin {subject[i] : i \in DOMAIN subject} /\ subject # <<>>)
    => Compatible(schema, Latest)

Registered(schema) ==
  IF schema \in {subject[i] : i \in DOMAIN subject} THEN subject
  ELSE subject \o <<schema>>

Fault == faults < MaxFaults /\ faults' = faults + 1 /\ clean' = FALSE
NoFault == UNCHANGED <<faults, clean>>

-----------------------------------------------------------------------------
(* The driver.  Each run pins the subject to BACKWARD, runs its drills from *)
(* the baseline and, unless told to keep them, cleans up.                   *)

Begin ==
  /\ pc = "idle" /\ runs < MaxRuns /\ runs' = runs + 1
  /\ todo' \in {<<1, 2, 3>>, <<1>>, <<2>>, <<3>>}
  /\ keep' \in BOOLEAN
  /\ pc' = "register" /\ cell' = 1
  /\ UNCHANGED <<registry, topic, cached, faults, clean, verdicts>>

EndDrill ==
  /\ todo' = Tail(todo)
  /\ pc' = IF Tail(todo) # <<>> THEN "register" ELSE IF keep THEN "report" ELSE "delete"

Register ==
  /\ pc = "register"
  /\ LET candidate == Drills[Head(todo)] IN
       \/ /\ Accepted(candidate) /\ NoFault
          /\ subject' = Registered(candidate) /\ known' = known \cup {candidate}
          /\ verdicts' = IF clean THEN verdicts \cup {"accepted"} ELSE verdicts
          /\ pc' = "produce" /\ UNCHANGED todo
       \/ /\ ~Accepted(candidate) /\ NoFault
          /\ verdicts' = IF clean THEN verdicts \cup {"rejected"} ELSE verdicts
          /\ EndDrill /\ UNCHANGED registry
       \/ Fault /\ EndDrill /\ UNCHANGED <<registry, verdicts>>
  /\ cell' = 1
  /\ UNCHANGED <<keep, topic, cached, runs>>

(* A serde cell: both produce with the latest version, whichever that is by *)
(* now, and read back as many messages from the beginning of the topic.     *)
(* What a cell finds, an exception included, only goes into the report.     *)
Produce ==
  /\ pc = "produce"
  /\ \/ /\ subject # <<>> /\ NoFault
        /\ topic' = topic \cup {Latest}
     \/ Fault /\ UNCHANGED topic               \* nothing is delivered in time
     \/ subject = <<>> /\ NoFault /\ UNCHANGED topic
  /\ pc' = "consume"
  /\ UNCHANGED <<registry, todo, keep, cell, cached, runs, verdicts>>

Consume ==
  /\ pc = "consume"
  /\ IF cell = 1 THEN cell' = 2 /\ pc' = "produce" /\ UNCHANGED todo
     ELSE EndDrill /\ UNCHANGED cell
  /\ UNCHANGED <<registry, topic, keep, cached, ghosts>>

(* Mutant: the cleanup deletes for good.                                    *)
DeletePermanently ==
  /\ pc = "delete"
  /\ \/ NoFault /\ subject' = <<>> /\ known' = {} /\ pc' = "restore"
     \/ Fault /\ pc' = "report" /\ UNCHANGED registry
  /\ UNCHANGED <<topic, todo, keep, cell, cached, runs, verdicts>>

(* cleanup_experiment_versions: soft-delete, then register the baseline.    *)
Delete ==
  /\ pc = "delete"
  /\ \/ NoFault /\ subject' = <<>> /\ pc' = "restore"
     \/ Fault /\ pc' = "report" /\ UNCHANGED subject
  /\ UNCHANGED <<known, topic, todo, keep, cell, cached, runs, verdicts>>

Restore ==
  /\ pc = "restore"
  /\ \/ /\ Accepted(Baseline) /\ clean' = TRUE /\ UNCHANGED faults
        /\ subject' = Registered(Baseline) /\ known' = known \cup {Baseline}
     \/ Fault /\ UNCHANGED registry
  /\ pc' = "report"
  /\ UNCHANGED <<topic, todo, keep, cell, cached, runs, verdicts>>

Report ==
  /\ pc = "report"
  /\ pc' = "idle" /\ clean' = (clean /\ ~keep)
  /\ UNCHANGED <<registry, topic, todo, keep, cell, cached, runs, faults, verdicts>>

Crash ==
  /\ pc # "idle" /\ Fault
  /\ pc' = "idle" /\ todo' = <<>>
  /\ UNCHANGED <<registry, topic, keep, cell, cached, runs, verdicts>>

-----------------------------------------------------------------------------
(* Other processes on the same subject and topic: register_schemas, and a   *)
(* producer that caches the latest schema of its start.                     *)

RegisterBaseline ==
  /\ Accepted(Baseline)
  /\ subject' = Registered(Baseline) /\ known' = known \cup {Baseline}
  /\ UNCHANGED <<topic, driver, cached, ghosts>>

LiveStart ==
  /\ subject # <<>>
  /\ cached' = Latest
  /\ UNCHANGED <<registry, topic, driver, ghosts>>

LiveProduce ==
  /\ cached # NoSchema
  /\ topic' = topic \cup {cached}
  /\ UNCHANGED <<registry, driver, cached, ghosts>>

DriverNext ==
  \/ Begin \/ Register \/ Produce \/ Consume \/ Delete \/ Restore \/ Report \/ Crash
  \/ RegisterBaseline \/ LiveStart \/ LiveProduce

DriverSpec == DriverInit /\ [][DriverNext]_driverVars

-----------------------------------------------------------------------------
(* BACKWARD accepts every drill, in any run after one that cleaned up,      *)
(* whatever came before that, although each candidate is derived from the *)
(* baseline and checked against the drill before it.                        *)
DrillsAccepted == "rejected" \notin verdicts

(* Whatever the drills register and the cleanup deletes, a consumer that    *)
(* reads with the writer's schema, as every service does, can decode every  *)
(* record of the topic into an event.                                       *)
TopicStaysReadable ==
  \A schema \in topic : schema \in known /\ \A kind \in Kind : DecodesEvent(schema, kind)
=============================================================================
