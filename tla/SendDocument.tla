---------------------------- MODULE SendDocument ----------------------------
(***************************************************************************)
(* The send pipeline: the API requests that create, retry and replay a     *)
(* delivery (presentation/api/v1/documents.py, dlq.py), the Celery queue   *)
(* edo.send, the worker processes that run send_document_task.py, the      *)
(* provider, and the PostgreSQL rows they share.                           *)
(*                                                                         *)
(* A step is one transaction, one message or one call.  Between two steps  *)
(* a request or a worker holds copies of rows that may have become stale;  *)
(* SQLDeliveryRepository.update then writes back every column of the copy. *)
(*                                                                         *)
(* The breaker's answers are left open here (circuit_admits and            *)
(* circuit_refuses may both happen at any time): module CircuitBreaker     *)
(* says when it gives which.  All deliveries belong to one account.        *)
(***************************************************************************)
EXTENDS DocumentDelivery, FiniteSets, Sequences

CONSTANTS
    Deliveries,      \* one for each request to POST /documents/send
    Workers,         \* Celery worker processes on queue edo.send
    Requests,        \* API requests that may be in progress together
    Nil,             \* no message, no DLQ entry
    MaxDispatches,   \* bound: messages the API enqueues for one delivery
    MaxCrashes,      \* bound: worker processes killed per behaviour
    MaxFaults        \* bound: calls to Redis, the database or the provider
                     \*        factory that raise per behaviour

ASSUME SendAssumption ==
    /\ IsFiniteSet(Workers)
    /\ MaxDispatches \in Nat
    /\ MaxCrashes \in Nat
    /\ MaxFaults \in Nat

VARIABLES
    stored,      \* deliveries whose INSERT is committed
    delivery,    \* table document_deliveries
    dlq,         \* table dlq_entries, the rows of each delivery in order
    audit,       \* table audit_events: the statuses recorded for a delivery
    is_active,   \* provider_accounts.is_active
    queue,       \* messages on edo.send that no worker has taken
    inbox,       \* provider: the file each acceptance of a delivery carried
    pc,          \* where each worker is in _send_document_async
    job,         \* the message a worker has taken and not acknowledged
    entity,      \* the worker's copy of the delivery
    entry,       \* the DLQ row the worker has added to its open session
    apc,         \* where each API request is
    target,      \* the delivery the request is about
    copy,        \* the copy of the delivery the retry request holds
    index,       \* the DLQ row the replay request is about
    crashes,     \* worker processes killed so far
    faults,      \* raised calls so far
    dispatched,  \* history: messages the API enqueued for a delivery
    raised,      \* history: deliveries one of whose tasks ended by an exception
    dropped,     \* history: deliveries one of whose tasks found no row
    scheduled    \* history: committed schedule_retry calls of a delivery

tables == <<stored, delivery, dlq, audit, is_active>>
worker == <<pc, job, entity, entry>>
request == <<apc, target, copy, index>>
history == <<raised, dropped, scheduled>>
vars == <<tables, queue, inbox, worker, request, crashes, faults, dispatched,
          history>>

Message == [delivery: Deliveries, bytes: {"file", "empty"}]

DlqEntry == [reason_code: ErrorCode, retryable: BOOLEAN, replayed: BOOLEAN]

\* Nil stands for a session without a DLQ row.
ASSUME NilAssumption == Nil \notin DlqEntry

WorkerLocation ==
    {"idle", "loaded", "inactive", "guarding", "refused", "admitted",
     "sending", "accepted", "closing", "committed"}

RequestLocation == {"idle", "sent", "retrying", "retried", "replayed"}

TablesTyped ==
    /\ stored \subseteq Deliveries
    /\ delivery \in [Deliveries -> Delivery]
    /\ dlq \in [Deliveries -> Seq(DlqEntry)]
    /\ audit \in [Deliveries -> SUBSET UnifiedDocumentStatus]
    /\ is_active \in BOOLEAN

ServicesTyped ==
    /\ queue \in [Message -> Nat]
    /\ inbox \in [Deliveries -> Seq({"file", "empty"})]

WorkersTyped ==
    /\ pc \in [Workers -> WorkerLocation]
    /\ job \in [Workers -> Message \cup {Nil}]
    /\ \A w \in Workers : pc[w] # "idle" => job[w] \in Message
    /\ entity \in [Workers -> Delivery]
    /\ entry \in [Workers -> DlqEntry \cup {Nil}]

RequestsTyped ==
    /\ apc \in [Requests -> RequestLocation]
    /\ target \in [Requests -> Deliveries \cup {Nil}]
    /\ \A r \in Requests : apc[r] # "idle" => target[r] \in Deliveries
    /\ copy \in [Requests -> Delivery]
    /\ index \in [Requests -> Nat]
    /\ \A r \in Requests :
           apc[r] = "replayed" => index[r] \in DOMAIN dlq[target[r]]

CountsTyped ==
    /\ crashes \in Nat
    /\ faults \in Nat
    /\ dispatched \in [Deliveries -> Nat]
    /\ raised \subseteq Deliveries
    /\ dropped \subseteq Deliveries
    /\ scheduled \in [Deliveries -> Nat]

TypeOK ==
    /\ TablesTyped
    /\ ServicesTyped
    /\ WorkersTyped
    /\ RequestsTyped
    /\ CountsTyped

\* Before its INSERT is committed a delivery has no row: delivery[d] then
\* holds what create would give and is read by nobody.
Init ==
    /\ stored = {}
    /\ delivery = [d \in Deliveries |-> create]
    /\ dlq = [d \in Deliveries |-> <<>>]
    /\ audit = [d \in Deliveries |-> {}]
    /\ is_active = TRUE
    /\ queue = [m \in Message |-> 0]
    /\ inbox = [d \in Deliveries |-> <<>>]
    /\ pc = [w \in Workers |-> "idle"]
    /\ job = [w \in Workers |-> Nil]
    /\ entity = [w \in Workers |-> create]
    /\ entry = [w \in Workers |-> Nil]
    /\ apc = [r \in Requests |-> "idle"]
    /\ target = [r \in Requests |-> Nil]
    /\ copy = [r \in Requests |-> create]
    /\ index = [r \in Requests |-> 0]
    /\ crashes = 0
    /\ faults = 0
    /\ dispatched = [d \in Deliveries |-> 0]
    /\ raised = {}
    /\ dropped = {}
    /\ scheduled = [d \in Deliveries |-> 0]

-----------------------------------------------------------------------------
(* Helpers.  A definition named Mutant... is the one after it with a bug a   *)
(* change to the code could bring; it is used to test the properties only.   *)

Goto(w, location) == pc' = [pc EXCEPT ![w] = location]

\* The delivery a busy worker's task is about.
subject(w) == job[w].delivery

\* UPDATE without COMMIT: the retry endpoint holds the row's lock until its
\* request ends, and every other UPDATE of the row waits.  (Mutant: the UPDATE
\* is left to the commit's flush, as save leaves its INSERT.)
MutantLocked(d) == FALSE
Locked(d) == \E r \in Requests : apc[r] = "retried" /\ target[r] = d

\* A task for d is queued, or a worker has not yet acknowledged it.
HasTask(d) ==
    \/ \E m \in Message : m.delivery = d /\ queue[m] > 0
    \/ \E w \in Workers : pc[w] # "idle" /\ subject(w) = d

\* The task's message leaves the worker, which is free for the next one.
Release(w) ==
    /\ Goto(w, "idle")
    /\ job' = [job EXCEPT ![w] = Nil]
    /\ entity' = [entity EXCEPT ![w] = create]
    /\ entry' = [entry EXCEPT ![w] = Nil]

\* send_document.apply_async: the broker has the message at once, whatever
\* becomes of the caller's transaction.
apply_async(d, bytes) ==
    LET m == [delivery |-> d, bytes |-> bytes] IN
    /\ dispatched[d] < MaxDispatches
    /\ dispatched' = [dispatched EXCEPT ![d] = @ + 1]
    /\ queue' = [queue EXCEPT ![m] = @ + 1]

\* SQLDeliveryRepository.update and commit.
update(d, row) ==
    /\ ~Locked(d)
    /\ delivery' = [delivery EXCEPT ![d] = row]

\* A killed worker's message goes back to the queue (task_acks_late,
\* task_reject_on_worker_lost).
MutantRequeue(m) == UNCHANGED queue
requeue(m) == queue' = [queue EXCEPT ![m] = @ + 1]

\* DLQEntry.mark_replayed
mark_replayed(row) == [row EXCEPT !.replayed = TRUE]

\* _write_dlq: the row is only added to the session.
MutantWriteDlq(w, code, retryable) == UNCHANGED entry
write_dlq(w, code, retryable) ==
    entry' = [entry EXCEPT ![w] =
        [reason_code |-> code, retryable |-> retryable, replayed |-> FALSE]]

-----------------------------------------------------------------------------
(* The worker: _send_document_async(delivery_id, file_bytes_hex) *)

\* The message arrives and the row is read.  No row: the task returns
\* "not_found" and its message is acknowledged.
take_not_found(w, m) ==
    /\ pc[w] = "idle"
    /\ queue[m] > 0
    /\ m.delivery \notin stored
    /\ queue' = [queue EXCEPT ![m] = @ - 1]
    /\ dropped' = dropped \cup {m.delivery}
    /\ UNCHANGED <<tables, inbox, worker, request, crashes, faults, dispatched,
                   raised, scheduled>>

MutantTake(w, m) ==
    /\ pc[w] = "idle"
    /\ queue[m] > 0
    /\ queue' = [queue EXCEPT ![m] = @ - 1]
    /\ job' = [job EXCEPT ![w] = m]
    /\ entity' = [entity EXCEPT ![w] = delivery[m.delivery]]
    /\ Goto(w, "loaded")
    /\ UNCHANGED <<tables, inbox, entry, request, crashes, faults, dispatched,
                   history>>
take(w, m) ==
    /\ pc[w] = "idle"
    /\ queue[m] > 0
    /\ m.delivery \in stored
    /\ queue' = [queue EXCEPT ![m] = @ - 1]
    /\ job' = [job EXCEPT ![w] = m]
    /\ entity' = [entity EXCEPT ![w] = delivery[m.delivery]]
    /\ Goto(w, "loaded")
    /\ UNCHANGED <<tables, inbox, entry, request, crashes, faults, dispatched,
                   history>>

load_account(w) ==
    /\ pc[w] = "loaded"
    /\ Goto(w, IF is_active THEN "guarding" ELSE "inactive")
    /\ UNCHANGED <<tables, queue, inbox, job, entity, entry, request, crashes,
                   faults, dispatched, history>>

\* The account is not active: FAILED, with neither an audit event nor a DLQ row.
fail_inactive(w) ==
    /\ pc[w] = "inactive"
    /\ update(subject(w), mark_failed(entity[w], "PROVIDER_ACCOUNT_INACTIVE"))
    /\ Goto(w, "committed")
    /\ UNCHANGED <<stored, dlq, audit, is_active, queue, inbox, job, entity,
                   entry, request, crashes, faults, dispatched, history>>

\* circuit.guard lets the call through ...
circuit_admits(w) ==
    /\ pc[w] = "guarding"
    /\ Goto(w, "admitted")
    /\ UNCHANGED <<tables, queue, inbox, job, entity, entry, request, crashes,
                   faults, dispatched, history>>

\* ... or raises CircuitOpenError.
circuit_refuses(w) ==
    /\ pc[w] = "guarding"
    /\ Goto(w, "refused")
    /\ UNCHANGED <<tables, queue, inbox, job, entity, entry, request, crashes,
                   faults, dispatched, history>>

\* The retry is scheduled without asking should_retry.
postpone(w) ==
    LET failed == mark_failed(entity[w], "CIRCUIT_OPEN") IN
    /\ pc[w] = "refused"
    /\ update(subject(w), schedule_retry(failed))
    /\ scheduled' = [scheduled EXCEPT ![subject(w)] = @ + 1]
    /\ Goto(w, "committed")
    /\ UNCHANGED <<stored, dlq, audit, is_active, queue, inbox, job, entity,
                   entry, request, crashes, faults, dispatched, raised, dropped>>

start_sending(w) ==
    /\ pc[w] = "admitted"
    /\ update(subject(w), mark_sending(entity[w]))
    /\ entity' = [entity EXCEPT ![w] = mark_sending(@)]
    /\ Goto(w, "sending")
    /\ UNCHANGED <<stored, dlq, audit, is_active, queue, inbox, job, entry,
                   request, crashes, faults, dispatched, history>>

-----------------------------------------------------------------------------
(* provider.send_document, and what the task makes of its outcome *)

\* The provider takes the document in.
Accept(w) ==
    inbox' = [inbox EXCEPT ![subject(w)] = Append(@, job[w].bytes)]

\* What follows mark_failed in an except clause is the finally clause.
Fail(w, code, retryable) ==
    /\ entity' = [entity EXCEPT ![w] = mark_failed(@, code)]
    /\ write_dlq(w, code, retryable)
    /\ Goto(w, "closing")

\* A 2xx answer, with the id that the provider has issued or without one: the
\* task asks for no id and marks the delivery SENT with whatever the adapter
\* returns.  (That a second delivery with the same non-id cannot be committed
\* is an error of close's commit: task_raises.  Module ProviderExchange says
\* which answers have no id, and when.)
provider_accepts(w) ==
    /\ pc[w] = "sending"
    /\ Accept(w)
    /\ \E id \in {0, Len(inbox[subject(w)]) + 1} :
           entity' = [entity EXCEPT ![w] = mark_sent(@, id)]
    /\ Goto(w, "accepted")
    /\ UNCHANGED <<tables, queue, job, entry, request, crashes, faults,
                   dispatched, history>>

\* Taken in, but the answer times out or cannot be read: except Exception.
MutantAnswerLost(w) ==
    /\ pc[w] = "sending"
    /\ Accept(w)
    /\ UNCHANGED <<tables, queue, worker, request, crashes, faults, dispatched,
                   history>>
provider_answer_lost(w) ==
    /\ pc[w] = "sending"
    /\ Accept(w)
    /\ Fail(w, "UNKNOWN_ERROR", FALSE)
    /\ UNCHANGED <<tables, queue, job, request, crashes, faults, dispatched,
                   history>>

\* Not taken in: no connection, or ProviderPermanentError.
provider_refuses(w) ==
    /\ pc[w] = "sending"
    /\ \E code \in {"UNKNOWN_ERROR", "PERMANENT"} : Fail(w, code, FALSE)
    /\ UNCHANGED <<tables, queue, inbox, job, request, crashes, faults,
                   dispatched, history>>

\* ProviderTransientError, and circuit.record_failure has returned.
provider_busy(w) ==
    /\ pc[w] = "sending"
    /\ IF should_retry(entity[w].retry_count)
       THEN /\ entity' = [entity EXCEPT ![w] = schedule_retry(@)]
            /\ Goto(w, "closing")
            /\ UNCHANGED entry
       ELSE Fail(w, "TRANSIENT", TRUE)
    /\ UNCHANGED <<tables, queue, inbox, job, request, crashes, faults,
                   dispatched, history>>

\* record_failure raises inside the except clause: the finally clause still
\* writes the entity, which is still SENDING.
record_failure_raises(w) ==
    /\ pc[w] = "sending"
    /\ faults < MaxFaults
    /\ faults' = faults + 1
    /\ Goto(w, "closing")
    /\ UNCHANGED <<tables, queue, inbox, job, entity, entry, request, crashes,
                   dispatched, history>>

record_success(w) ==
    /\ pc[w] = "accepted"
    /\ Goto(w, "closing")
    /\ UNCHANGED <<tables, queue, inbox, job, entity, entry, request, crashes,
                   faults, dispatched, history>>

\* record_success raises inside the try: except Exception fails a delivery
\* that the provider has accepted.
record_success_raises(w) ==
    /\ pc[w] = "accepted"
    /\ faults < MaxFaults
    /\ faults' = faults + 1
    /\ Fail(w, "UNKNOWN_ERROR", FALSE)
    /\ UNCHANGED <<tables, queue, inbox, job, request, crashes, dispatched,
                   history>>

-----------------------------------------------------------------------------
(* The end of a task *)

\* The finally clause: audit event, DLQ row and delivery in one commit.  A
\* delivery still SENDING here comes from record_failure_raises, whose
\* exception then ends the task.
close(w) ==
    LET d == subject(w)
        status == entity[w].unified_status
    IN  /\ pc[w] = "closing"
        /\ update(d, entity[w])
        /\ audit' = [audit EXCEPT ![d] = @ \cup {status}]
        /\ dlq' = IF entry[w] = Nil THEN dlq
                  ELSE [dlq EXCEPT ![d] = Append(@, entry[w])]
        /\ scheduled' = IF status = "PENDING"
                        THEN [scheduled EXCEPT ![d] = @ + 1] ELSE scheduled
        /\ raised' = IF status = "SENDING" THEN raised \cup {d} ELSE raised
        /\ Goto(w, "committed")
        /\ UNCHANGED <<stored, is_active, queue, inbox, job, entity, entry,
                       request, crashes, faults, dispatched, dropped>>

\* acks_late: the message is acknowledged when the task has ended.
MutantAck(w) ==
    /\ pc[w] = "committed"
    /\ Release(w)
    /\ queue' = [queue EXCEPT ![job[w]] = @ - 1]
    /\ UNCHANGED <<tables, inbox, request, crashes, faults, dispatched, history>>
ack(w) ==
    /\ pc[w] = "committed"
    /\ Release(w)
    /\ UNCHANGED <<tables, queue, inbox, request, crashes, faults, dispatched,
                   history>>

\* A call outside the try raises: a query or a commit, guard's round trip to
\* Redis, ProviderFactory.create.  The transaction is rolled back and the
\* message acknowledged all the same (max_retries=0).
task_raises(w) ==
    /\ pc[w] \notin {"idle", "accepted", "committed"}
    /\ faults < MaxFaults
    /\ faults' = faults + 1
    /\ raised' = raised \cup {subject(w)}
    /\ Release(w)
    /\ UNCHANGED <<tables, queue, inbox, request, crashes, dispatched, dropped,
                   scheduled>>

\* The worker process is killed, and restarted.
crash(w) ==
    /\ pc[w] # "idle"
    /\ crashes < MaxCrashes
    /\ crashes' = crashes + 1
    /\ requeue(job[w])
    /\ Release(w)
    /\ UNCHANGED <<tables, inbox, request, faults, dispatched, history>>

-----------------------------------------------------------------------------
(* POST /documents/send: the handler, then get_session's commit *)

\* The message leaves before the rows are committed.
send_document_endpoint(r, d) ==
    /\ apc[r] = "idle"
    /\ dispatched[d] = 0
    /\ is_active
    /\ apply_async(d, "file")
    /\ apc' = [apc EXCEPT ![r] = "sent"]
    /\ target' = [target EXCEPT ![r] = d]
    /\ UNCHANGED <<tables, inbox, worker, copy, index, crashes, faults, history>>

\* The request ends.
Finish(r) ==
    /\ apc' = [apc EXCEPT ![r] = "idle"]
    /\ target' = [target EXCEPT ![r] = Nil]
    /\ copy' = [copy EXCEPT ![r] = create]
    /\ index' = [index EXCEPT ![r] = 0]

send_commit(r) ==
    /\ apc[r] = "sent"
    /\ stored' = stored \cup {target[r]}
    /\ delivery' = [delivery EXCEPT ![target[r]] = create]
    /\ Finish(r)
    /\ UNCHANGED <<dlq, audit, is_active, queue, inbox, worker, crashes, faults,
                   dispatched, history>>

-----------------------------------------------------------------------------
(* POST /documents/{document_id}/retry.  FAILED is terminal, so without      *)
(* force=true the handler skips every delivery it has listed.                *)

retry_read(r, d) ==
    /\ apc[r] = "idle"
    /\ d \in stored
    /\ delivery[d].unified_status = "FAILED"
    /\ apc' = [apc EXCEPT ![r] = "retrying"]
    /\ target' = [target EXCEPT ![r] = d]
    /\ copy' = [copy EXCEPT ![r] = delivery[d]]
    /\ UNCHANGED <<tables, queue, inbox, worker, index, crashes, faults,
                   dispatched, history>>

\* UPDATE locks the row; the message, with an empty file, leaves before COMMIT.
retry_update(r) ==
    /\ apc[r] = "retrying"
    /\ ~Locked(target[r])
    /\ copy' = [copy EXCEPT ![r] = force_pending(@)]
    /\ apply_async(target[r], "empty")
    /\ apc' = [apc EXCEPT ![r] = "retried"]
    /\ UNCHANGED <<tables, inbox, worker, target, index, crashes, faults,
                   history>>

retry_commit(r) ==
    /\ apc[r] = "retried"
    /\ delivery' = [delivery EXCEPT ![target[r]] = copy[r]]
    /\ Finish(r)
    /\ UNCHANGED <<stored, dlq, audit, is_active, queue, inbox, worker, crashes,
                   faults, dispatched, history>>

-----------------------------------------------------------------------------
(* POST /dlq/{entry_id}/replay: any row with force=true, the retryable ones  *)
(* without; replayed_at is written and never asked for.                      *)

replay_dlq_entry(r, d, i) ==
    /\ apc[r] = "idle"
    /\ i \in DOMAIN dlq[d]
    /\ apply_async(d, "empty")
    /\ apc' = [apc EXCEPT ![r] = "replayed"]
    /\ target' = [target EXCEPT ![r] = d]
    /\ index' = [index EXCEPT ![r] = i]
    /\ UNCHANGED <<tables, inbox, worker, copy, crashes, faults, history>>

replay_commit(r) ==
    LET d == target[r]
        i == index[r]
    IN  /\ apc[r] = "replayed"
        /\ dlq' = [dlq EXCEPT ![d] =
                       [dlq[d] EXCEPT ![i] = mark_replayed(dlq[d][i])]]
        /\ Finish(r)
        /\ UNCHANGED <<stored, delivery, audit, is_active, queue, inbox, worker,
                       crashes, faults, dispatched, history>>

\* The commit fails (a duplicate internal_document_id, a lost connection) or
\* the API process dies: what the request enqueued stays enqueued.
rollback(r) ==
    /\ apc[r] # "idle"
    /\ Finish(r)
    /\ UNCHANGED <<tables, queue, inbox, worker, crashes, faults, dispatched,
                   history>>

-----------------------------------------------------------------------------
(* POST /provider-accounts/{account_id}/activate and /deactivate *)

activate_account ==
    /\ is_active' = TRUE
    /\ UNCHANGED <<stored, delivery, dlq, audit, queue, inbox, worker, request,
                   crashes, faults, dispatched, history>>

deactivate_account ==
    /\ is_active' = FALSE
    /\ UNCHANGED <<stored, delivery, dlq, audit, queue, inbox, worker, request,
                   crashes, faults, dispatched, history>>

-----------------------------------------------------------------------------

\* What a worker that is neither killed nor let down by a service does next.
WorkerStep(w) ==
    \/ \E m \in Message : take_not_found(w, m) \/ take(w, m)
    \/ load_account(w) \/ fail_inactive(w)
    \/ circuit_admits(w) \/ circuit_refuses(w) \/ postpone(w)
    \/ start_sending(w) \/ provider_accepts(w) \/ provider_answer_lost(w)
    \/ provider_refuses(w) \/ provider_busy(w) \/ record_success(w)
    \/ close(w) \/ ack(w)

WorkerFault(w) ==
    \/ record_failure_raises(w) \/ record_success_raises(w)
    \/ task_raises(w) \/ crash(w)

\* A request that has begun goes on to its end.
RequestStep(r) ==
    \/ send_commit(r) \/ retry_update(r) \/ retry_commit(r) \/ replay_commit(r)
    \/ rollback(r)

RequestBegins(r) ==
    \E d \in Deliveries :
        \/ send_document_endpoint(r, d)
        \/ retry_read(r, d)
        \/ \E i \in DOMAIN dlq[d] : replay_dlq_entry(r, d, i)

Next ==
    \/ \E w \in Workers : WorkerStep(w) \/ WorkerFault(w)
    \/ \E r \in Requests : RequestStep(r) \/ RequestBegins(r)
    \/ activate_account
    \/ deactivate_account

Spec == Init /\ [][Next]_vars

\* Workers run, provider calls time out and requests end.  Nothing makes a
\* client send, retry or replay, an administrator act, or a fault happen.
Fairness ==
    /\ \A w \in Workers : WF_vars(WorkerStep(w))
    /\ \A r \in Requests : WF_vars(RequestStep(r))

FairSpec == Spec /\ Fairness

-----------------------------------------------------------------------------
(* Properties *)

\* The ways a delivery is known to be left for a human to find.
Stranded(d) ==
    \/ d \in raised                  \* a task ended by an exception
    \/ d \in dropped                 \* a task ran before send's commit
    \/ delivery[d].next_retry_at     \* waits for a retry that nothing starts

\* A delivery that is not settled has a task queued or running, or is stranded
\* in a known way: kills of workers at any point, stale copies written over
\* newer rows, rolled-back requests and locked rows leave none behind unnoticed
\* (task_acks_late; the commits of send_document_task.py and of get_session).
NothingLostSilently ==
    \A d \in stored :
        delivery[d].unified_status \in {"PENDING", "SENDING"} =>
            HasTask(d) \/ Stranded(d)

\* A FAILED or SENT row is accounted for: its audit event, and for a failure
\* the DLQ row with the same reason, are in the database with it, whichever of
\* several concurrent tasks wrote last.  An inactive account is the exception
\* (send_document_task.py 61-66 writes neither).
OutcomeOnRecord ==
    \A d \in stored :
        LET row == delivery[d] IN
        /\ row.unified_status = "SENT" => "SENT" \in audit[d]
        /\ /\ row.unified_status = "FAILED"
           /\ row.last_error_code # "PROVIDER_ACCOUNT_INACTIVE"
           => /\ "FAILED" \in audit[d]
              /\ \E i \in DOMAIN dlq[d] :
                     dlq[d][i].reason_code = row.last_error_code

\* The dead-letter queue offers a delivery for replay as retryable only after
\* its whole retry budget was really scheduled: stale copies may make
\* retry_count forget retries but never invent them (99-111, schedule_retry).
RetryableAfterFullBudget ==
    \A d \in Deliveries :
        (\E i \in DOMAIN dlq[d] : dlq[d][i].retryable) =>
            scheduled[d] >= MaxAttempts

\* A row says SENT only after the provider has answered a send of it with 2xx,
\* and a provider_document_id that it shows is none, or one that the provider
\* issued for this delivery (mark_sent, 96; update and the stale copies it
\* writes).  A SENT row without an id is possible (section 6 of the README here).
SentIsAccepted ==
    \A d \in Deliveries :
        /\ delivery[d].provider_document_id \in 0..Len(inbox[d])
        /\ delivery[d].unified_status = "SENT" => inbox[d] # <<>>

\* One message makes at most one send each time it is delivered: with no
\* retry, replay or killed worker the provider sees the document once.
SendsWithinDispatches ==
    \A d \in Deliveries : Len(inbox[d]) <= dispatched[d] + crashes

\* SENDING is a passing state: unless one of its tasks ended by an exception,
\* a delivery leaves it, worker kills and lock waits notwithstanding.
SendingSettles ==
    \A d \in Deliveries :
        delivery[d].unified_status = "SENDING" ~>
            delivery[d].unified_status # "SENDING" \/ d \in raised

\* What the pipeline promises: the contract's row is the committed one, and its
\* open deliveries are those that have a task.
Contract ==
    INSTANCE DeliveryContract WITH
        status <- [d \in Deliveries |->
                       IF d \in stored THEN delivery[d].unified_status
                       ELSE "absent"],
        accepted <- [d \in Deliveries |-> Len(inbox[d])],
        open <- {d \in Deliveries : HasTask(d)}

\* Whatever tasks, requests, kills and faults overlap: only a task of the
\* delivery sends it or moves its row on, nothing is sent that the database
\* does not hold, a row says SENT only after an acceptance, and none vanishes.
ImplementsContract == Contract!Spec

-----------------------------------------------------------------------------
(* What README.md says and the code does not do *)

\* "Idempotent sends - (document_id, provider_account_id) pair ensures duplicate
\* requests produce the same result without double-sending": the provider
\* accepts a delivery at most once.
NoDoubleSend == \A d \in Deliveries : Len(inbox[d]) <= 1

\* "Patterns used: ... Outbox": a committed delivery that nobody has tried to
\* send has its task on the queue.
CommittedSendHasTask ==
    \A d \in stored : delivery[d] = create => HasTask(d)

\* "Send a document once - the adapter handles routing, retries, ...": a retry
\* that was scheduled takes place.
ScheduledRetryHappens ==
    \A d \in Deliveries :
        (d \in stored /\ delivery[d].next_retry_at) ~> HasTask(d)

=============================================================================
