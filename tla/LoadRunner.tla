------------------------------- MODULE LoadRunner ------------------------------
(***************************************************************************)
(* A process that produces synthetic events: the worker threads of         *)
(* LoadRunner (load/load_runner.py), or the single loop of FeederRunner    *)
(* (feeder/feeder_runner.py), around a shared TokenBucketPacer             *)
(* (load/pacer.py), DeliveryAccountant (load/accountant.py) and            *)
(* AvroEventProducer (producer/avro_producer.py).                          *)
(*                                                                         *)
(* The client library keeps a record in its queue until some thread serves *)
(* its delivery report; a produce into a full queue raises BufferError.    *)
(* Nothing is assumed of the brokers: a record may stay in transit for     *)
(* ever, and every wait of the code is a timed one.                        *)
(***************************************************************************)
EXTENDS Integers, FiniteSets

CONSTANTS
  Worker, Feeder,   \* the threads; the one that stands for the feeder's loop
  Batch,            \* batch_size
  MaxInFlight,      \* max_in_flight
  QueueMax,         \* queue.buffering.max.messages
  Attempts,         \* attempts of _produce_with_retry
  Burst, Rate,      \* the pacer's bucket, in tokens and tokens per tick
  MaxBatches,       \* bound: batches begun
  MaxFailures       \* bound: records the brokers refuse

ASSUME ConstantsOK ==
  /\ IsFiniteSet(Worker) /\ Feeder \in Worker
  /\ Batch \in Nat \ {0} /\ MaxInFlight \in Nat \ {0}
  /\ QueueMax \in Nat \ {0} /\ Attempts \in Nat \ {0}
  /\ Rate \in Nat \ {0} /\ MaxBatches \in Nat /\ MaxFailures \in Nat
  /\ Burst \in Nat /\ Batch <= Burst    \* acquire refuses a larger batch

VARIABLES
  kind, paced,      \* load run or feeder; is there a target_rate?
  outcome,          \* of run()
  pc,               \* where each thread is
  left,             \* events of its batch still to be produced
  tries,            \* BufferErrors of the current event
  batches,          \* counter for MaxBatches
  stop,             \* deadline, stop_event or _shutdown
  error,            \* is there an exception in error_box, or on its way?
  tokens, idle,     \* the bucket, and the time since it was refilled
  now, taken,       \* history: ticks that mattered, tokens taken
  transit, reports, \* the producer's queue: undelivered, and unserved reports
  produced, acked, failed   \* the accountant's counters

Reports   == [good : Nat, bad : Nat]
NoReports == [good |-> 0, bad |-> 0]

(* Ticks that fill an empty bucket; time beyond them changes nothing.       *)
Full   == (Burst + Rate - 1) \div Rate
MaxNow == Full * (MaxBatches + 1)

pacer    == <<tokens, idle, now, taken>>
queue    == <<transit, reports>>
counters == <<produced, acked, failed>>
runVars  == <<kind, paced, outcome, pc, left, tries, batches, stop, error, pacer,
              queue, counters>>

RunTypeOK ==
  /\ kind \in {"load", "feeder"} /\ paced \in BOOLEAN
  /\ outcome \in {"starting", "running", "flushed", "reported", "raised"}
  /\ pc \in [Worker -> {"top", "acquire", "wait", "produce", "poll", "count",
                        "retry", "done"}]
  /\ left \in [Worker -> 0 .. Batch]
  /\ tries \in [Worker -> 0 .. Attempts]
  /\ \A t \in Worker : pc[t] \in {"produce", "poll", "count", "retry"} => left[t] > 0
  /\ batches \in 0 .. MaxBatches
  /\ stop \in BOOLEAN /\ error \in BOOLEAN
  /\ tokens \in 0 .. Burst /\ idle \in 0 .. Full
  /\ now \in Nat /\ taken \in Nat
  /\ transit \in Nat /\ reports \in Reports
  /\ produced \in Nat /\ acked \in Nat /\ failed \in Nat

Threads == IF kind = "load" THEN Worker ELSE {Feeder}

RunInit ==
  /\ kind \in {"load", "feeder"}
  /\ paced \in (IF kind = "load" THEN BOOLEAN ELSE {TRUE})
  /\ outcome = "starting"
  /\ pc = [t \in Worker |-> "top"]
  /\ left = [t \in Worker |-> 0]
  /\ tries = [t \in Worker |-> 0]
  /\ batches = 0
  /\ stop = FALSE /\ error = FALSE
  /\ tokens = Burst /\ idle = 0 /\ now = 0 /\ taken = 0
  /\ transit = 0 /\ reports = NoReports
  /\ produced = 0 /\ acked = 0 /\ failed = 0

-----------------------------------------------------------------------------
(* run(): the load run asserts that its subject is registered, and starts   *)
(* its threads.                                                             *)
StartRun ==
  /\ outcome = "starting"
  /\ \/ outcome' = "running"
     \/ kind = "load" /\ outcome' = "raised"
  /\ UNCHANGED <<kind, paced, pc, left, tries, batches, stop, error, pacer, queue,
                 counters>>

(* The deadline passes, or a signal asks the feeder to stop.                *)
Stop ==
  /\ outcome = "running" /\ ~stop
  /\ stop' = TRUE
  /\ UNCHANGED <<kind, paced, outcome, pc, left, tries, batches, error, pacer, queue,
                 counters>>

(* The top of the loop: another batch ...                                   *)
Begin(t) ==
  /\ outcome = "running" /\ pc[t] = "top" /\ ~stop
  /\ batches < MaxBatches
  /\ batches' = batches + 1
  /\ pc' = [pc EXCEPT ![t] = "acquire"]
  /\ UNCHANGED <<kind, paced, outcome, left, tries, stop, error, pacer, queue,
                 counters>>

(* ... or the end of the loop.                                              *)
LeaveLoop(t) ==
  /\ outcome = "running" /\ pc[t] = "top" /\ stop
  /\ pc' = [pc EXCEPT ![t] = "done"]
  /\ UNCHANGED <<kind, paced, outcome, left, tries, batches, stop, error, pacer,
                 queue, counters>>

-----------------------------------------------------------------------------
(* Time passes for the bucket.                                              *)
Tick ==
  /\ outcome = "running" /\ paced
  /\ idle < Full
  /\ idle' = idle + 1
  /\ now' = now + 1
  /\ UNCHANGED <<kind, paced, outcome, pc, left, tries, batches, stop, error, tokens,
                 taken, queue, counters>>

(* _refill_locked: what has dripped in since the last refill.               *)
Refilled == IF tokens + idle * Rate < Burst THEN tokens + idle * Rate ELSE Burst

(* Mutant of SinceRefill: the time of the refill is not remembered.         *)
NeverRemembered == idle

(* _last_refill_ts becomes the time of the refill.                          *)
SinceRefill == 0

(* acquire: a batch's worth of tokens, when they are there; a thread that   *)
(* wakes too early refills, which loses nothing, and waits again.  A load   *)
(* run goes on to wait for its records in flight.                           *)
Acquire(t) ==
  /\ pc[t] = "acquire"
  /\ \/ ~paced /\ UNCHANGED pacer
     \/ /\ paced
        /\ Refilled >= Batch
        /\ tokens' = Refilled - Batch
        /\ idle' = SinceRefill
        /\ taken' = taken + Batch
        /\ UNCHANGED now
  /\ pc' = [pc EXCEPT ![t] = IF kind = "load" THEN "wait" ELSE "produce"]
  /\ left' = [left EXCEPT ![t] = Batch]
  /\ UNCHANGED <<kind, paced, outcome, tries, batches, stop, error, queue, counters>>

InFlight == produced - acked - failed

(* What in_flight has to fall below: max_in_flight before a batch, half of  *)
(* it before a retry.                                                       *)
Threshold(t) ==
  IF pc[t] = "wait" THEN MaxInFlight
  ELSE IF MaxInFlight \div 2 = 0 THEN 1 ELSE MaxInFlight \div 2

(* Mutant of Waited: the wait has no timeout.                               *)
WaitedForever(t, timedOut) == InFlight < Threshold(t)

(* wait_for_in_flight_below returns when in_flight is low enough, or after  *)
(* timeout_s all the same.                                                  *)
Waited(t, timedOut) == InFlight < Threshold(t) \/ timedOut

(* On to the batch, or to the next attempt; after the last attempt the      *)
(* BufferError ends the thread, and tells the others to stop.               *)
EndWait(t) ==
  /\ pc[t] \in {"wait", "retry"}
  /\ \E timedOut \in BOOLEAN : Waited(t, timedOut)
  /\ \/ /\ pc[t] = "wait" \/ tries[t] < Attempts
        /\ pc' = [pc EXCEPT ![t] = "produce"]
        /\ UNCHANGED <<stop, error>>
     \/ /\ pc[t] = "retry" /\ tries[t] = Attempts
        /\ pc' = [pc EXCEPT ![t] = "done"]
        /\ stop' = TRUE /\ error' = TRUE
  /\ UNCHANGED <<kind, paced, outcome, left, tries, batches, pacer, queue, counters>>

-----------------------------------------------------------------------------
Queued == transit + reports.good + reports.bad

(* producer.produce: the record enters the queue.                           *)
Enqueue(t) ==
  /\ pc[t] = "produce"
  /\ Queued < QueueMax
  /\ transit' = transit + 1
  /\ pc' = [pc EXCEPT ![t] = "poll"]
  /\ UNCHANGED <<kind, paced, outcome, left, tries, batches, stop, error, pacer,
                 reports, counters>>

(* The queue is full, BufferError: a load thread waits before its next      *)
(* attempt, and the feeder's run() ends.                                    *)
Refuse(t) ==
  /\ pc[t] = "produce"
  /\ Queued >= QueueMax
  /\ \/ /\ kind = "load"
        /\ tries' = [tries EXCEPT ![t] = @ + 1]
        /\ pc' = [pc EXCEPT ![t] = "retry"]
        /\ UNCHANGED <<stop, error>>
     \/ /\ kind = "feeder"
        /\ pc' = [pc EXCEPT ![t] = "done"]
        /\ stop' = TRUE /\ error' = TRUE
        /\ UNCHANGED tries
  /\ UNCHANGED <<kind, paced, outcome, left, batches, pacer, queue, counters>>

(* Mutant of Served: the delivery reports are served again.                 *)
ServedAndKept ==
  /\ acked' = acked + reports.good
  /\ failed' = failed + reports.bad
  /\ UNCHANGED reports

(* DeliveryAccountant.record, for every report there is.                    *)
Served ==
  /\ acked' = acked + reports.good
  /\ failed' = failed + reports.bad
  /\ reports' = NoReports

(* The poll(0) after produce: callbacks of any thread's records, before the *)
(* record just produced is counted.                                         *)
Poll(t) ==
  /\ pc[t] = "poll"
  /\ Served
  /\ pc' = [pc EXCEPT ![t] = "count"]
  /\ UNCHANGED <<kind, paced, outcome, left, tries, batches, stop, error, pacer,
                 transit, produced>>

(* record_produced, and on to the next event; the feeder polls once more    *)
(* after its batch.                                                         *)
Count(t) ==
  /\ pc[t] = "count"
  /\ produced' = produced + 1
  /\ left' = [left EXCEPT ![t] = @ - 1]
  /\ tries' = [tries EXCEPT ![t] = 0]
  /\ pc' = [pc EXCEPT ![t] = IF left[t] > 1 THEN "produce" ELSE "top"]
  /\ \/ kind = "feeder" /\ left[t] = 1 /\ Served
     \/ (kind = "load" \/ left[t] > 1) /\ UNCHANGED <<acked, failed, reports>>
  /\ UNCHANGED <<kind, paced, outcome, batches, stop, error, pacer, transit>>

(* The client library, in the background: a record is acknowledged, or      *)
(* given up.                                                                *)
Deliver ==
  /\ outcome = "running" /\ transit > 0
  /\ transit' = transit - 1
  /\ \/ reports' = [good |-> reports.good + 1, bad |-> reports.bad]
     \/ /\ failed + reports.bad < MaxFailures
        /\ reports' = [good |-> reports.good, bad |-> reports.bad + 1]
  /\ UNCHANGED <<kind, paced, outcome, pc, left, tries, batches, stop, error, pacer,
                 counters>>

-----------------------------------------------------------------------------
(* The threads have ended.  flush serves every report, until the queue is   *)
(* empty or its time runs out.                                              *)
Flush ==
  /\ outcome = "running"
  /\ \A t \in Threads : pc[t] = "done"
  /\ Served
  /\ outcome' = "flushed"
  /\ UNCHANGED <<kind, paced, pc, left, tries, batches, stop, error, pacer, transit,
                 produced>>

(* The first exception is raised; without one there is a report.            *)
Report ==
  /\ outcome = "flushed"
  /\ outcome' = IF error THEN "raised" ELSE "reported"
  /\ UNCHANGED <<kind, paced, pc, left, tries, batches, stop, error, pacer, queue,
                 counters>>

Thread(t) ==
  Begin(t) \/ LeaveLoop(t) \/ Acquire(t) \/ EndWait(t) \/ Enqueue(t) \/ Refuse(t)
  \/ Poll(t) \/ Count(t)

RunNext == StartRun \/ Stop \/ Tick \/ Deliver \/ Flush \/ Report
        \/ \E t \in Threads : Thread(t)

RunSpec == RunInit /\ [][RunNext]_runVars

(* Threads are scheduled and time passes; brokers need not answer, and      *)
(* nobody need ask a feeder to stop.                                        *)
FairRunSpec ==
  /\ RunSpec
  /\ WF_runVars(Tick) /\ WF_runVars(Flush) /\ WF_runVars(Report)
  /\ \A t \in Worker : WF_runVars(t \in Threads /\ Thread(t))

-----------------------------------------------------------------------------
(* Records the producer has taken and the accountant does not count yet.    *)
Uncounted == {t \in Worker : pc[t] \in {"poll", "count"}}

(* in_flight is the producer's queue but for the records just being         *)
(* produced: callbacks that overtake record_produced make it too small, by  *)
(* one for each thread and never for longer, and none is counted twice.     *)
InFlightIsQueue == InFlight = Queued - Cardinality(Uncounted)

(* "The rate is a system-wide knob, not per-worker": whatever the threads   *)
(* do, the run takes no more than the burst and the rate's worth.           *)
RateKept == paced => taken <= Burst + now * Rate

Ledger == INSTANCE DeliveryLedger
            WITH accepted <- produced + Cardinality(Uncounted),
                 closed   <- outcome \in {"reported", "raised"}

(* The accountant keeps the ledger of the deliveries, however the reports   *)
(* interleave with the threads and wherever the run breaks off.             *)
LedgerKept == Ledger!Spec

(* The run ends once it is to stop, with a report or an error: waiting for  *)
(* deliveries that nobody polls for is not a deadlock.                      *)
RunEnds == stop ~> outcome \in {"reported", "raised"}
=============================================================================
