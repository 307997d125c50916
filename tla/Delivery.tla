------------------------------ MODULE Delivery ------------------------------
(* The bounded queue, the retrying worker and the shutdown they share: what   *)
(* carries webhooks and mail out of the server (internal/httpapi              *)
(* delivery_queue.go, delivery_worker.go, webhook_dispatcher.go,              *)
(* webhook_worker.go, mail_worker.go and Server.Close).                       *)
(*                                                                            *)
(* A published event is handed to a goroutine of its own (OnEvent never       *)
(* blocks the fanout), which appends a delivery to the queue and then wakes   *)
(* the worker.  The worker drains the queue into a batch and sends each       *)
(* delivery up to MaxAttempts times.  Close seals the queue, ties the         *)
(* worker's retry context to the deadline of the shutdown, cancels its run    *)
(* context and waits.                                                         *)
EXTENDS Naturals, FiniteSets, Sequences, SequencesExt

CONSTANTS
  Items,        \* the deliveries the events of a behaviour give rise to
  Capacity,     \* capacity of the queue
  MaxAttempts,  \* length of deliveryBackoff
  None

ASSUME DeliveryAssumption ==
  /\ IsFiniteSet(Items)
  /\ None \notin Items
  /\ Capacity \in Nat \ {0}
  /\ MaxAttempts \in Nat \ {0}

VARIABLES
  queue,      \* deliveryQueue.items and .sealed
  notify,     \* the one slot of deliveryQueue.notify
  producer,   \* where the goroutine that enqueues a delivery is
  worker,     \* where the worker is, its batch, its item and the attempts made
  outcome,    \* what has become of a delivery
  received,   \* how often the endpoint has received a delivery
  targets,    \* deliveries whose subscription, access or preference still stands
  closer,     \* progress of Server.Close, and whether its deadline has passed
  contexts,   \* which of the worker's contexts are cancelled
  history     \* ghost: order of acceptance and of first attempts, attempts begun
              \* after retryCtx was cancelled, receipts a withdrawal still allows

vars == <<queue, notify, producer, worker, outcome, received, targets, closer,
          contexts, history>>

Init ==
  /\ queue = [items |-> <<>>, sealed |-> FALSE]
  /\ notify = FALSE
  /\ producer = [d \in Items |-> "idle"]
  /\ worker = [pc |-> "select", batch |-> <<>>, item |-> None,
               attempts |-> 0, final |-> FALSE]
  /\ outcome = [d \in Items |-> "none"]
  /\ received = [d \in Items |-> 0]
  /\ targets = Items
  /\ closer = [pc |-> "open", expired |-> FALSE]
  /\ contexts = {}
  /\ history = [accepted |-> <<>>, started |-> <<>>, late |-> 0,
                allowed |-> [d \in Items |-> MaxAttempts]]

-----------------------------------------------------------------------------
(* Producers.                                                                 *)

(* The fanout reaches OnEvent, which starts a goroutine and returns.  Before  *)
(* Close seals the queue the HTTP server is drained and the reminder          *)
(* scheduler stopped, but only up to a deadline: a request that outlasts it   *)
(* publishes while Close runs.                                                *)
Publish(d) ==
  /\ closer.pc # "returned"
  /\ producer[d] = "idle"
  /\ producer' = [producer EXCEPT ![d] = "spawned"]
  /\ UNCHANGED <<queue, notify, worker, outcome, received, targets, closer, contexts, history>>

(* deliveryQueue.Enqueue up to the unlock. *)
Enqueue(d) ==
  /\ producer[d] = "spawned"
  /\ LET accepted == ~queue.sealed /\ Len(queue.items) < Capacity
     IN  /\ queue' = [queue EXCEPT !.items = IF accepted THEN Append(@, d) ELSE @]
         /\ history' = [history EXCEPT !.accepted = IF accepted THEN Append(@, d) ELSE @]
         /\ producer' = [producer EXCEPT ![d] = IF accepted THEN "signal" ELSE "done"]
         /\ outcome' = [outcome EXCEPT ![d] = IF accepted THEN "queued"
                                              ELSE IF queue.sealed THEN "sealed"
                                              ELSE "full"]
  /\ UNCHANGED <<notify, worker, received, targets, closer, contexts>>

MutSignalOnlyWhenEmpty(d) ==
  /\ producer[d] = "signal"
  /\ notify' = (notify \/ Len(queue.items) = 1)
  /\ producer' = [producer EXCEPT ![d] = "done"]
  /\ UNCHANGED <<queue, worker, outcome, received, targets, closer, contexts, history>>

(* deliveryQueue.Enqueue after the unlock: a nonblocking send on notify.  The *)
(* worker may have drained the delivery, and even settled it, before.         *)
Signal(d) ==
  /\ producer[d] = "signal"
  /\ notify' = TRUE
  /\ producer' = [producer EXCEPT ![d] = "done"]
  /\ UNCHANGED <<queue, worker, outcome, received, targets, closer, contexts, history>>

(* A webhook is deleted or its owner loses the project; a recipient loses     *)
(* access, switches the category off or has no address any more.  A request   *)
(* that is on the wire already cannot be called back.                         *)
Withdraw(d) ==
  /\ d \in targets
  /\ targets' = targets \ {d}
  /\ history' = [history EXCEPT !.allowed[d] =
                   received[d] + (IF worker.pc = "wire" /\ worker.item = d THEN 1 ELSE 0)]
  /\ UNCHANGED <<queue, notify, producer, worker, outcome, received, closer, contexts>>

-----------------------------------------------------------------------------
(* The worker.                                                                *)

MutFlushesForever ==
  /\ worker.pc = "select"
  /\ notify \/ "run" \in contexts
  /\ worker' = [worker EXCEPT !.pc = "flush", !.final = FALSE]
  /\ notify' \in (IF "run" \in contexts THEN {notify, FALSE} ELSE {FALSE})
  /\ UNCHANGED <<queue, producer, outcome, received, targets, closer, contexts, history>>

(* retryWorker.Run, its select on runCtx and on the wake-up channel.  With    *)
(* both ready either may be taken; a flush entered with runCtx cancelled is   *)
(* the last one.                                                              *)
Run ==
  /\ worker.pc = "select"
  /\ notify \/ "run" \in contexts
  /\ worker' = [worker EXCEPT !.pc = "flush", !.final = "run" \in contexts]
  /\ notify' \in (IF "run" \in contexts THEN {notify, FALSE} ELSE {FALSE})
  /\ UNCHANGED <<queue, producer, outcome, received, targets, closer, contexts, history>>

(* flush returns, giving up the deliveries in lost: Run goes back to its      *)
(* select, or ends and cancels retryCtx, and then the queue is lost too.      *)
Return(lost) ==
  LET gone == lost \cup (IF worker.final THEN ToSet(queue.items) ELSE {})
  IN  /\ worker' = [worker EXCEPT !.pc = IF worker.final THEN "done" ELSE "select",
                                  !.batch = <<>>, !.item = None, !.attempts = 0]
      /\ outcome' = [d \in Items |-> IF d \in gone THEN "abandoned" ELSE outcome[d]]
      /\ contexts' = IF worker.final THEN contexts \cup {"retry"} ELSE contexts
      /\ UNCHANGED queue

(* retryWorker.flush, top of its loop, with deliveryQueue.Drain.              *)
Flush ==
  /\ worker.pc = "flush"
  /\ LET stop == "retry" \in contexts \/ queue.items = <<>>
     IN  IF stop THEN Return({})
         ELSE /\ worker' = [worker EXCEPT !.pc = "batch", !.batch = queue.items]
              /\ queue' = [queue EXCEPT !.items = <<>>]
              /\ UNCHANGED <<outcome, contexts>>
  /\ UNCHANGED <<notify, producer, received, targets, closer, history>>

(* retryWorker.flush, the loop over the batch.                                *)
NextOfBatch ==
  /\ worker.pc = "batch"
  /\ IF worker.batch # <<>> /\ "retry" \in contexts
     THEN Return(ToSet(worker.batch))
     ELSE /\ worker' = IF worker.batch = <<>>
                       THEN [worker EXCEPT !.pc = "flush"]
                       ELSE [worker EXCEPT !.pc = "attempt",
                                           !.attempts = 0,
                                           !.item = Head(worker.batch),
                                           !.batch = Tail(worker.batch)]
          /\ UNCHANGED <<queue, outcome, contexts>>
  /\ UNCHANGED <<notify, producer, received, targets, closer, history>>

settle(o) ==
  /\ outcome' = [outcome EXCEPT ![worker.item] = o]
  /\ worker' = [worker EXCEPT !.pc = "batch", !.item = None, !.attempts = 0]

MutCheckedOnce ==
  /\ worker.pc = "attempt"
  /\ IF worker.attempts = MaxAttempts
     THEN settle("failed")
     ELSE IF worker.attempts = 0 /\ "retry" \in contexts
     THEN settle("abandoned")
     ELSE /\ worker' = [worker EXCEPT !.pc = "send"]
          /\ UNCHANGED outcome
  /\ UNCHANGED <<queue, notify, producer, received, targets, closer, contexts, history>>

(* retryWorker.deliver, top of its loop: the tests of retryCtx before and     *)
(* after the backoff, whose timer may fire at any time.                       *)
Attempt ==
  /\ worker.pc = "attempt"
  /\ IF worker.attempts = MaxAttempts
     THEN settle("failed")
     ELSE IF "retry" \in contexts
     THEN settle(IF worker.attempts = 0 THEN "abandoned" ELSE "failed")
     ELSE /\ worker' = [worker EXCEPT !.pc = "send"]
          /\ UNCHANGED outcome
  /\ UNCHANGED <<queue, notify, producer, received, targets, closer, contexts, history>>

begun(h) ==
  [h EXCEPT !.started = IF worker.attempts = 0 THEN Append(@, worker.item) ELSE @,
            !.late = IF "retry" \in contexts THEN @ + 1 ELSE @]

MutAuthorizedOnce ==
  /\ worker.pc = "send"
  /\ history' = begun(history)
  /\ IF worker.item \in targets \/ worker.attempts > 0
     THEN worker' = [worker EXCEPT !.pc = "wire"] /\ UNCHANGED outcome
     ELSE settle("failed") \/ settle("skipped")
  /\ UNCHANGED <<queue, notify, producer, received, targets, closer, contexts>>

(* send, up to the request: GetWebhookDeliveryTarget or mailDelivery.Prepare  *)
(* looks at the subscription, the access and the preferences as they are now. *)
(* A target that no longer stands ends the delivery: a webhook with a         *)
(* permanent error, a mail as if it had been sent.  An error of the lookup is *)
(* an attempt that failed.                                                    *)
Send ==
  /\ worker.pc = "send"
  /\ history' = begun(history)
  /\ IF worker.item \in targets
     THEN worker' = [worker EXCEPT !.pc = "wire"] /\ UNCHANGED outcome
     ELSE settle("failed") \/ settle("skipped")
  /\ UNCHANGED <<queue, notify, producer, received, targets, closer, contexts>>

LookupFails ==
  /\ worker.pc = "send"
  /\ history' = begun(history)
  /\ worker' = [worker EXCEPT !.pc = "attempt", !.attempts = @ + 1]
  /\ UNCHANGED <<queue, notify, producer, outcome, received, targets, closer, contexts>>

MutRetriedAfterSuccess ==
  /\ worker.pc = "wire"
  /\ \E arrives \in BOOLEAN, answer \in {"ok", "transient", "permanent"} :
       /\ answer = "ok" => arrives
       /\ received' = [received EXCEPT ![worker.item] = IF arrives THEN @ + 1 ELSE @]
       /\ IF answer = "ok"
          THEN /\ outcome' = [outcome EXCEPT ![worker.item] = "delivered"]
               /\ worker' = [worker EXCEPT !.pc = "attempt", !.attempts = @ + 1]
          ELSE IF answer = "permanent" THEN settle("failed")
          ELSE /\ worker' = [worker EXCEPT !.pc = "attempt", !.attempts = @ + 1]
               /\ UNCHANGED outcome
  /\ UNCHANGED <<queue, notify, producer, targets, closer, contexts, history>>

(* The request and its answer.  The endpoint may receive a request whose      *)
(* answer is lost or is an error; such an attempt is made again.              *)
Answer ==
  /\ worker.pc = "wire"
  /\ \E arrives \in BOOLEAN, answer \in {"ok", "transient", "permanent"} :
       /\ answer = "ok" => arrives
       /\ received' = [received EXCEPT ![worker.item] = IF arrives THEN @ + 1 ELSE @]
       /\ IF answer = "ok" THEN settle("delivered")
          ELSE IF answer = "permanent" THEN settle("failed")
          ELSE /\ worker' = [worker EXCEPT !.pc = "attempt", !.attempts = @ + 1]
               /\ UNCHANGED outcome
  /\ UNCHANGED <<queue, notify, producer, targets, closer, contexts, history>>

-----------------------------------------------------------------------------
(* Server.Close.                                                              *)

MutCancelBeforeSeal ==
  /\ closer.pc = "open"
  /\ contexts' = contexts \cup {"run"}
  /\ closer' = [closer EXCEPT !.pc = "sealed"]
  /\ UNCHANGED <<queue, notify, producer, worker, outcome, received, targets, history>>

Seal ==
  /\ closer.pc = "open"
  /\ queue' = [queue EXCEPT !.sealed = TRUE]
  /\ closer' = [closer EXCEPT !.pc = "sealed"]
  /\ UNCHANGED <<notify, producer, worker, outcome, received, targets, contexts, history>>

(* retryWorker.beginShutdown: a deadline that has passed cancels retryCtx     *)
(* here and now.                                                              *)
BeginShutdown ==
  /\ closer.pc = "sealed"
  /\ contexts' = IF closer.expired THEN contexts \cup {"retry"} ELSE contexts
  /\ closer' = [closer EXCEPT !.pc = "linked"]
  /\ UNCHANGED <<queue, notify, producer, worker, outcome, received, targets, history>>

CancelRun ==
  /\ closer.pc = "linked"
  /\ contexts' = contexts \cup {"run"}
  /\ closer' = [closer EXCEPT !.pc = "waiting"]
  /\ UNCHANGED <<queue, notify, producer, worker, outcome, received, targets, history>>

CloseReturns ==
  /\ closer.pc = "waiting"
  /\ worker.pc = "done" \/ closer.expired
  /\ closer' = [closer EXCEPT !.pc = "returned"]
  /\ UNCHANGED <<queue, notify, producer, worker, outcome, received, targets, contexts, history>>

(* The context given to Close reaches its deadline...                         *)
Expire ==
  /\ ~closer.expired
  /\ closer.pc \notin {"open", "returned"}
  /\ closer' = [closer EXCEPT !.expired = TRUE]
  /\ UNCHANGED <<queue, notify, producer, worker, outcome, received, targets, contexts, history>>

(* ... and the function registered with context.AfterFunc runs.               *)
AfterFunc ==
  /\ closer.expired
  /\ closer.pc \in {"linked", "waiting", "returned"}
  /\ "retry" \notin contexts
  /\ contexts' = contexts \cup {"retry"}
  /\ UNCHANGED <<queue, notify, producer, worker, outcome, received, targets, closer, history>>

Terminated ==
  /\ closer.pc = "returned"
  /\ worker.pc = "done"
  /\ \A d \in Items : producer[d] \in {"idle", "done"}
  /\ UNCHANGED vars

-----------------------------------------------------------------------------
workerStep == Run \/ Flush \/ NextOfBatch \/ Attempt \/ Send \/ LookupFails \/ Answer

Next ==
  \/ \E d \in Items : Publish(d) \/ Enqueue(d) \/ Signal(d) \/ Withdraw(d)
  \/ Run \/ Flush \/ NextOfBatch \/ Attempt \/ Send \/ LookupFails \/ Answer
  \/ Seal \/ BeginShutdown \/ CancelRun \/ CloseReturns \/ Expire \/ AfterFunc
  \/ Terminated

Spec == Init /\ [][Next]_vars

(* Goroutines that can run do run: the worker, whose sends and backoffs are   *)
(* bounded by timeouts, the producers once started, and Close once called.    *)
Fairness ==
  /\ WF_vars(workerStep)
  /\ \A d \in Items : WF_vars(Enqueue(d)) /\ WF_vars(Signal(d))
  /\ WF_vars(BeginShutdown \/ CancelRun \/ CloseReturns)

FairSpec == Spec /\ Fairness

-----------------------------------------------------------------------------
(* Properties.                                                                *)

(* The variables of queue, worker, producers and Close have their types.      *)
TypeOK ==
  /\ queue.items \in SeqOf(Items, Capacity) /\ queue.sealed \in BOOLEAN
  /\ notify \in BOOLEAN
  /\ producer \in [Items -> {"idle", "spawned", "signal", "done"}]
  /\ worker.pc \in {"select", "flush", "batch", "attempt", "send", "wire", "done"}
  /\ worker.batch \in SeqOf(Items, Capacity)
  /\ worker.item \in Items \cup {None}
  /\ worker.attempts \in 0..MaxAttempts
  /\ worker.final \in BOOLEAN
  /\ outcome \in [Items -> {"none", "full", "sealed", "queued", "delivered",
                            "failed", "skipped", "abandoned"}]
  /\ received \in [Items -> 0..MaxAttempts]
  /\ targets \subseteq Items
  /\ closer.pc \in {"open", "sealed", "linked", "waiting", "returned"}
  /\ closer.expired \in BOOLEAN
  /\ contexts \subseteq {"run", "retry"}

(* A worker that ends before the deadline of Close leaves nothing behind:     *)
(* every delivery the queue accepted has been attempted and settled           *)
(* (Server.Close seals before it cancels, the last flush drains the rest).    *)
AcceptedAreSettled ==
  worker.pc = "done" /\ ~closer.expired =>
    \A d \in ToSet(history.accepted) : outcome[d] \in {"delivered", "failed", "skipped"}

(* Once retryCtx is cancelled the worker begins at most the one attempt whose *)
(* test of the context it has already passed (retryWorker.deliver).           *)
OneLateAttempt == history.late <= 1

(* First attempts are made in the order in which the queue accepted the       *)
(* deliveries, whatever the retries and the batches (deliveryQueue.Drain,     *)
(* retryWorker.flush).                                                        *)
InOrder == IsPrefix(history.started, history.accepted)

(* What queue and worker keep up to and through the shutdown: the capacity,   *)
(* the number of attempts, the order, and the one late attempt.               *)
DeliveryInv == TypeOK /\ InOrder /\ OneLateAttempt

(* A delivery is sent only while its target stands: after a withdrawal the    *)
(* endpoint receives at most the request that was on the wire at that moment  *)
(* (GetWebhookDeliveryTarget and Prepare are asked on every attempt).         *)
WithdrawnNotSent == \A d \in Items : received[d] <= history.allowed[d]

(* A settled delivery stays settled and is never received again: success and  *)
(* permanent failure end retryWorker.deliver.                                 *)
SettledForGood ==
  [][ \A d \in Items :
        outcome[d] \in {"delivered", "failed", "skipped", "abandoned", "full", "sealed"} =>
          outcome'[d] = outcome[d] /\ received'[d] = received[d] ]_vars

(* No wake-up is lost: a delivery the queue has accepted is settled in the    *)
(* end, although the append and the signal are two steps and the worker may   *)
(* drain in between (deliveryQueue.Enqueue, retryWorker.Run).                 *)
AcceptedGetSettled ==
  \A d \in Items : outcome[d] = "queued" ~> outcome[d] # "queued"

(* Close comes to an end, and so does the worker (Server.Close).              *)
CloseEnds == closer.pc # "open" ~> closer.pc = "returned" /\ worker.pc = "done"

(* "Drain in-flight HTTP requests first so any final todo.assigned events are *)
(* published and enqueued before the webhook worker is stopped"               *)
(* (cmd/scrumboy/main.go): no delivery of a published event meets a sealed    *)
(* queue.  The code does not satisfy this: the goroutine of an event already  *)
(* published may enqueue later, and so may a request that outlasts the drain. *)
PublishedAreEnqueued == \A d \in Items : outcome[d] # "sealed"
=============================================================================
