---------------------------- MODULE EventDispatch ----------------------------
(***************************************************************************)
(* Event dispatch with retries and a dead-letter queue                     *)
(* (internal/events/events.go, its sinks, and "fieldctl events retry").    *)
(*                                                                         *)
(* A handler emits an event and answers its request.  Dispatch starts one  *)
(* goroutine per sink, which works with the context of that request: once  *)
(* the handler has returned, the context is cancelled.  The webhook and    *)
(* redis sinks (Direct) answer for the event they send; the Kafka sink     *)
(* hands it to an asynchronous producer and reports the failures of other  *)
(* events.  Delays between attempts are left out.                          *)
(***************************************************************************)
EXTENDS Naturals, FiniteSets

CONSTANTS Events, Direct, Kafka,  \* sinks
          RetrySink,              \* the redis sink "events retry" sends to
          MaxAttempts

ASSUME DispatchAssumption ==
    /\ MaxAttempts \in Nat \ {0}
    /\ Direct \cap Kafka = {}
    /\ RetrySink \in Direct

Sinks == Direct \cup Kafka
Jobs == Events \X Sinks

VARIABLES ctx,       \* event -> "none" (not emitted), "live" or "cancelled"
          job,       \* event, sink -> where its goroutine is and its failed attempts
          received,  \* event, sink pairs the sink has received
          queue,     \* Kafka sink -> events inside its producer
          errs,      \* Kafka sink -> events on its Errors channel
          dlq,       \* rows of events_failed, with the sink that failed (history)
          refused,   \* history: pairs the DLQ refused although the context was live
          resent     \* history: rows "events retry" has sent and deleted

dispatchVars == <<ctx, job, received, queue, errs, dlq, refused, resent>>

DispatchInit ==
    /\ ctx = [e \in Events |-> "none"]
    /\ job = [j \in Jobs |-> [pc |-> "none", failed |-> 0]]
    /\ received = {}
    /\ queue = [k \in Kafka |-> {}]
    /\ errs = [k \in Kafka |-> {}]
    /\ dlq = {}
    /\ refused = {}
    /\ resent = {}

\* The handler calls Emit: one goroutine per sink.
Dispatch(e) ==
    /\ ctx[e] = "none"
    /\ ctx' = [ctx EXCEPT ![e] = "live"]
    /\ job' = [j \in Jobs |-> IF j[1] = e THEN [pc |-> "send", failed |-> 0] ELSE job[j]]
    /\ UNCHANGED <<received, queue, errs, dlq, refused, resent>>

\* The handler returns, or its client goes away.
Respond(e) ==
    /\ ctx[e] = "live"
    /\ ctx' = [ctx EXCEPT ![e] = "cancelled"]
    /\ UNCHANGED <<job, received, queue, errs, dlq, refused, resent>>

-----------------------------------------------------------------------------
\* One iteration of retrySend.
Sending(j) == job[j].pc = "send"
Sent(j) == job' = [job EXCEPT ![j].pc = "done"]

\* Mutants: the event is dropped after its last attempt; attempts do not count.
Failed_Forgets(j) ==
    job' = [job EXCEPT ![j] = [pc |-> IF job[j].failed + 1 >= MaxAttempts THEN "done" ELSE "send",
                               failed |-> job[j].failed + 1]]
Failed_Forever(j) == UNCHANGED job

Failed(j) ==
    LET n == job[j].failed + 1
    IN  job' = [job EXCEPT ![j] = [pc |-> IF n >= MaxAttempts THEN "dlq" ELSE "send",
                                   failed |-> n]]

DirectOK(j) ==
    /\ Sending(j) /\ j[2] \in Direct
    /\ ctx[j[1]] = "live"
    /\ received' = received \cup {j}
    /\ Sent(j)
    /\ UNCHANGED <<ctx, queue, errs, dlq, refused, resent>>

\* An error, a bad status or a cancelled context; the sink may have received
\* the event all the same.
DirectFails(j, arrived) ==
    /\ Sending(j) /\ j[2] \in Direct
    /\ arrived => ctx[j[1]] = "live"
    /\ received' = IF arrived THEN received \cup {j} ELSE received
    /\ Failed(j)
    /\ UNCHANGED <<ctx, queue, errs, dlq, refused, resent>>

\* KafkaSink.Emit is a select: the producer takes the event, ...
KafkaInput(j) ==
    /\ Sending(j) /\ j[2] \in Kafka
    /\ queue' = [queue EXCEPT ![j[2]] = @ \cup {j[1]}]
    /\ Sent(j)
    /\ UNCHANGED <<ctx, received, errs, dlq, refused, resent>>

\* ... or the failure of some event is on the Errors channel and is returned
\* for this one, ...
KafkaError(j, e) ==
    /\ Sending(j) /\ j[2] \in Kafka
    /\ e \in errs[j[2]]
    /\ errs' = [errs EXCEPT ![j[2]] = @ \ {e}]
    /\ Failed(j)
    /\ UNCHANGED <<ctx, received, queue, dlq, refused, resent>>

\* ... or the context is cancelled.
KafkaCancelled(j) ==
    /\ Sending(j) /\ j[2] \in Kafka
    /\ ctx[j[1]] = "cancelled"
    /\ Failed(j)
    /\ UNCHANGED <<ctx, received, queue, errs, dlq, refused, resent>>

\* The producer publishes an event or gives up on it.
Produce(k, e, ok) ==
    /\ e \in queue[k]
    /\ queue' = [queue EXCEPT ![k] = @ \ {e}]
    /\ received' = IF ok THEN received \cup {<<e, k>>} ELSE received
    /\ errs' = IF ok THEN errs ELSE [errs EXCEPT ![k] = @ \cup {e}]
    /\ UNCHANGED <<ctx, job, dlq, refused, resent>>

\* SQLDLQ.Store uses the same context: it can only succeed while it is live.
Store(j) ==
    /\ job[j].pc = "dlq"
    /\ ctx[j[1]] = "live"
    /\ dlq' = dlq \cup {j}
    /\ Sent(j)
    /\ UNCHANGED <<ctx, received, queue, errs, refused, resent>>

StoreFails(j) ==
    /\ job[j].pc = "dlq"
    /\ refused' = IF ctx[j[1]] = "live" THEN refused \cup {j} ELSE refused
    /\ Sent(j)
    /\ UNCHANGED <<ctx, received, queue, errs, dlq, resent>>

\* "fieldctl events retry": send the row to redis, then delete it.  A failure in
\* between leaves the row.
Retry(j, deleted) ==
    /\ j \in dlq
    /\ received' = received \cup {<<j[1], RetrySink>>}
    /\ dlq' = IF deleted THEN dlq \ {j} ELSE dlq
    /\ resent' = IF deleted THEN resent \cup {j} ELSE resent
    /\ UNCHANGED <<ctx, job, queue, errs, refused>>

Deliver(j) ==
    \/ DirectOK(j) \/ \E arrived \in BOOLEAN : DirectFails(j, arrived)
    \/ KafkaInput(j) \/ KafkaCancelled(j) \/ \E e \in Events : KafkaError(j, e)
    \/ Store(j) \/ StoreFails(j)

DispatchNext ==
    \/ \E e \in Events : Dispatch(e) \/ Respond(e)
    \/ \E j \in Jobs : Deliver(j) \/ \E deleted \in BOOLEAN : Retry(j, deleted)
    \/ \E k \in Kafka, e \in Events, ok \in BOOLEAN : Produce(k, e, ok)

DispatchSpec == DispatchInit /\ [][DispatchNext]_dispatchVars

\* A goroutine keeps running: sends, sleeps and inserts end.
FairDispatchSpec == DispatchSpec /\ \A j \in Jobs : WF_dispatchVars(Deliver(j))

-----------------------------------------------------------------------------
Done(j) == job[j].pc = "done"
Kept(j) == j \in received \cup dlq \cup resent

\* An event that neither reached a webhook or redis nor the DLQ was lost to the
\* cancelled context of its request or to a DLQ insert that failed: retries,
\* late failures and interleavings with other events lose nothing.
LossExplained ==
    \A j \in Jobs :
        j[2] \in Direct /\ Done(j) /\ ~Kept(j) => ctx[j[1]] = "cancelled" \/ j \in refused

\* Every delivery goroutine ends: retrySend gives up after maxAttempts, whatever
\* the sinks, the context and the DLQ do.
DeliveriesEnd == \A j \in Jobs : job[j].pc # "none" ~> Done(j)
=============================================================================
