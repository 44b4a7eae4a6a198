-------------------------- MODULE BackgroundTasks --------------------------
(***************************************************************************)
(* The Celery tasks besides send_document: the webhooks that the API       *)
(* accepts and queues (presentation/api/v1/webhooks.py), and the periodic  *)
(* tasks that beat or POST /incoming/poll queues, run by the same worker   *)
(* processes under late acknowledgement (infrastructure/queue).            *)
(*                                                                         *)
(* A task's body is the sequence of its statements and calls.  A statement *)
(* fits when the ORM model has the attributes it uses, a call when what it *)
(* passes is what the callee takes; one that does not fit raises, and what *)
(* the body has done in its open session is then lost.                     *)
(***************************************************************************)
EXTENDS OrmModels, Naturals

CONSTANTS
    Workers,        \* Celery worker processes; each serves every queue
    Webhooks,       \* requests to POST /webhooks/{provider}/{account_id}
    Known,          \* those whose account_id is the account's
    MaxTicks,       \* bound: periodic tasks queued, all of them together
    MaxKills,       \* bound: worker processes killed
    Nil             \* no message

Periodic ==
    {"sync_statuses", "poll_incoming", "provider_health",
     "cleanup_idempotency", "process_dlq"}

ASSUME TasksAssumption ==
    /\ Webhooks \cap Periodic = {}
    /\ Known \subseteq Webhooks
    /\ MaxTicks \in Nat
    /\ MaxKills \in Nat

Tasks == Webhooks \cup Periodic

\* The task decorators.
max_retries(t) == IF t \in Webhooks THEN 3 ELSE 0

Message == {m \in [task : Tasks, retries : 0..3] :
                m.retries <= max_retries(m.task)}

ASSUME NilAssumption == Nil \notin Message

VARIABLES
    is_active,     \* provider_accounts.is_active
    queued,        \* messages the workers have not taken
    pc,            \* what each worker is doing
    job,           \* the message it has taken and not acknowledged
    accepted,      \* webhooks answered with 202
    ticks,         \* periodic tasks queued so far
    kills,         \* worker processes killed so far
    runs,          \* history: how often each webhook's task was started
    returned,      \* history: webhooks a run of which returned
    recorded       \* history: those whose run committed what it had read

worker == <<pc, job>>
history == <<runs, returned, recorded>>
vars == <<is_active, queued, worker, accepted, ticks, kills, history>>

-----------------------------------------------------------------------------
(* Bodies.  A statement in a loop over the active accounts, or after an      *)
(* early return for want of the account, runs only when there is one.        *)

Always(fits) == [needs_account |-> FALSE, fits |-> fits]
OnAccount(fits) == [needs_account |-> TRUE, fits |-> fits]

Uses(table, attributes) == Builds(Query(table, attributes))

\* A call passes what the callee takes; a metric is used with its own labels.
Passes(arguments, parameters) == arguments = parameters

breaker_init == {"redis_client"}
webhook_received_labels == {"provider_type", "signature_status"}
transitions_labels == {"from_status", "to_status", "provider_type"}
dlq_gauge_labels == {"tenant_id"}
circuit_state_labels == {"provider_account_id"}
response_time_labels == {"provider_type"}
health_labels == {"provider_account_id", "provider_type"}

process_webhook ==
    <<Always(Uses("provider_accounts", {"id"})),
      OnAccount(Builds(connected_account)),
      OnAccount(Passes({"headers", "payload"}, {"payload"})),
      OnAccount(Uses("webhook_events",
                     {"provider_event_id", "provider_account_id"})),
      OnAccount(Builds(webhook_row)),
      OnAccount(Passes({"provider", "event_type"}, webhook_received_labels)),
      OnAccount(Uses("document_deliveries",
                     {"provider_document_id", "provider_account_id",
                      "status"})),
      OnAccount(Passes({"provider", "from_status", "to_status"},
                       transitions_labels))>>

sync_statuses ==
    <<Always(Uses("document_deliveries",
                  {"provider_account_id", "status", "provider_document_id"})),
      OnAccount(Passes({"redis_client", "account_id"}, breaker_init)),
      OnAccount(Builds(connected_account)),
      OnAccount(Builds(synced_delivery)),
      OnAccount(Passes({"provider", "from_status", "to_status"},
                       transitions_labels))>>

poll_incoming ==
    <<Always(Uses("provider_accounts", {"is_active"})),
      OnAccount(Passes({"redis_client", "account_id"}, breaker_init)),
      OnAccount(Builds(connected_account)),
      OnAccount(Passes({"tenant_id"}, {})),
      OnAccount(Uses("incoming_documents",
                     {"provider_document_id", "provider_account_id"})),
      OnAccount(Builds(incoming_row))>>

provider_health ==
    <<Always(Uses("provider_accounts", {"is_active"})),
      OnAccount(Passes({"redis_client", "account_id"}, breaker_init)),
      OnAccount(Passes({"provider", "account_id"}, circuit_state_labels)),
      OnAccount(Builds(connected_account)),
      OnAccount(Passes({"provider", "account_id"}, health_labels)),
      OnAccount(Passes({"provider", "account_id"}, response_time_labels)),
      OnAccount(Builds(health_snapshot))>>

process_dlq ==
    <<Always(Uses("dlq_entries", {"replayed_at", "retryable"})),
      Always(Passes({}, dlq_gauge_labels))>>

\* It scans Redis and touches no row.
cleanup_idempotency == <<>>

body(t) ==
    CASE t \in Webhooks -> process_webhook
      [] t = "sync_statuses" -> sync_statuses
      [] t = "poll_incoming" -> poll_incoming
      [] t = "provider_health" -> provider_health
      [] t = "cleanup_idempotency" -> cleanup_idempotency
      [] t = "process_dlq" -> process_dlq

\* A webhook needs its account to exist, a periodic task an active one.
HasAccount(t) == IF t \in Webhooks THEN t \in Known ELSE is_active

\* One of the statements the body reaches does not fit.
Raises(t) ==
    \E i \in DOMAIN body(t) :
        /\ ~body(t)[i].fits
        /\ body(t)[i].needs_account => HasAccount(t)

-----------------------------------------------------------------------------

Init ==
    /\ is_active = FALSE
    /\ queued = [m \in Message |-> 0]
    /\ pc = [w \in Workers |-> "idle"]
    /\ job = [w \in Workers |-> Nil]
    /\ accepted = {}
    /\ ticks = 0
    /\ kills = 0
    /\ runs = [t \in Webhooks |-> 0]
    /\ returned = {}
    /\ recorded = {}

apply_async(t, retries) ==
    queued' = [queued EXCEPT ![[task |-> t, retries |-> retries]] = @ + 1]

MutantRelease(w) ==
    /\ pc' = [pc EXCEPT ![w] = "idle"]
    /\ UNCHANGED job
Release(w) ==
    /\ pc' = [pc EXCEPT ![w] = "idle"]
    /\ job' = [job EXCEPT ![w] = Nil]

\* The webhook is answered 202 whatever it is about.
dispatch_webhook(t) ==
    /\ t \in Webhooks \ accepted
    /\ accepted' = accepted \cup {t}
    /\ apply_async(t, 0)
    /\ UNCHANGED <<is_active, worker, ticks, kills, history>>

\* Beat queues every periodic task, POST /incoming/poll one of them.
beat(t) ==
    /\ ticks < MaxTicks
    /\ ticks' = ticks + 1
    /\ apply_async(t, 0)
    /\ UNCHANGED <<is_active, worker, accepted, kills, history>>

take(w, m) ==
    /\ pc[w] = "idle"
    /\ queued[m] > 0
    /\ queued' = [queued EXCEPT ![m] = @ - 1]
    /\ job' = [job EXCEPT ![w] = m]
    /\ pc' = [pc EXCEPT ![w] = "running"]
    /\ runs' = [t \in Webhooks |-> runs[t] + IF t = m.task THEN 1 ELSE 0]
    /\ UNCHANGED <<is_active, accepted, ticks, kills, returned, recorded>>

\* The body reaches its end: it commits, or returns before for want of an
\* account.
task_returns(w) ==
    LET t == job[w].task IN
    /\ pc[w] = "running"
    /\ ~Raises(t)
    /\ returned' = returned \cup ({t} \cap Webhooks)
    /\ recorded' = recorded \cup ({t} \cap Known)
    /\ pc' = [pc EXCEPT ![w] = "ended"]
    /\ UNCHANGED <<is_active, queued, job, accepted, ticks, kills, runs>>

\* self.retry publishes the next attempt and raises; without retries left, and
\* in the tasks that have none, the exception is the task's result.
MutantTaskRaises(w) ==
    LET m == job[w] IN
    /\ pc[w] = "running"
    /\ Raises(m.task)
    /\ apply_async(m.task, m.retries)
    /\ pc' = [pc EXCEPT ![w] = "ended"]
    /\ UNCHANGED <<is_active, job, accepted, ticks, kills, history>>
task_raises(w) ==
    LET m == job[w] IN
    /\ pc[w] = "running"
    /\ Raises(m.task)
    /\ IF m.retries < max_retries(m.task)
       THEN apply_async(m.task, m.retries + 1) ELSE UNCHANGED queued
    /\ pc' = [pc EXCEPT ![w] = "ended"]
    /\ UNCHANGED <<is_active, job, accepted, ticks, kills, history>>

\* task_acks_late: the message is acknowledged when the task has ended.
ack(w) ==
    /\ pc[w] = "ended"
    /\ Release(w)
    /\ UNCHANGED <<is_active, queued, accepted, ticks, kills, history>>

\* task_reject_on_worker_lost: a killed worker's message is delivered again,
\* also when its next attempt is already published.
MutantKill(w) ==
    /\ pc[w] # "idle"
    /\ kills < MaxKills
    /\ kills' = kills + 1
    /\ Release(w)
    /\ UNCHANGED <<is_active, queued, accepted, ticks, history>>
kill(w) ==
    /\ pc[w] # "idle"
    /\ kills < MaxKills
    /\ kills' = kills + 1
    /\ apply_async(job[w].task, job[w].retries)
    /\ Release(w)
    /\ UNCHANGED <<is_active, accepted, ticks, history>>

set_active ==
    /\ is_active' = ~is_active
    /\ UNCHANGED <<queued, worker, accepted, ticks, kills, history>>

WorkerStep(w) ==
    \/ \E m \in Message : take(w, m)
    \/ task_returns(w) \/ task_raises(w) \/ ack(w)

Next ==
    \/ \E t \in Webhooks : dispatch_webhook(t)
    \/ \E t \in Periodic : beat(t)
    \/ \E w \in Workers : WorkerStep(w) \/ kill(w)
    \/ set_active

Spec == Init /\ [][Next]_vars

\* Workers run.  Nothing makes a provider call a webhook, or beat tick.
Fairness == \A w \in Workers : WF_vars(WorkerStep(w))

FairSpec == Spec /\ Fairness

-----------------------------------------------------------------------------
(* Properties *)

TypeOK ==
    /\ is_active \in BOOLEAN
    /\ queued \in [Message -> Nat]
    /\ pc \in [Workers -> {"idle", "running", "ended"}]
    /\ job \in [Workers -> Message \cup {Nil}]
    /\ \A w \in Workers : (pc[w] = "idle") <=> (job[w] = Nil)
    /\ accepted \subseteq Webhooks
    /\ ticks \in 0..MaxTicks
    /\ kills \in 0..MaxKills
    /\ runs \in [Webhooks -> Nat]
    /\ returned \subseteq accepted
    /\ recorded \subseteq returned

HasMessage(t) ==
    \/ \E m \in Message : m.task = t /\ queued[m] > 0
    \/ \E w \in Workers : pc[w] # "idle" /\ job[w].task = t

\* A webhook that was answered 202 is not lost to a killed worker: it has a
\* message, or it was run to a return, or its whole retry budget was spent
\* (process_webhook_task, acks_late, max_retries=3).
WebhookKeptUntilSpent ==
    \A t \in accepted :
        HasMessage(t) \/ t \in returned \/ runs[t] > max_retries(t)

\* Retries end: a webhook is run at most four times, and a killed worker gives
\* back at most one message with the retries it had left, even when it is
\* killed after self.retry has published the next attempt.
RunsWithinBudget ==
    \A t \in Webhooks : runs[t] <= (1 + max_retries(t)) * (1 + kills)

\* Every accepted webhook is done with in the end, and so is every run of a
\* periodic task: nothing circulates in the queues for ever.
QueuesDrain == \A t \in Tasks : HasMessage(t) ~> ~HasMessage(t)

-----------------------------------------------------------------------------
(* What README.md says and the code does not do *)

\* "the adapter handles routing, retries, queuing, webhook validation, status
\* normalisation, and audit trail": a webhook for a known account that was
\* answered 202 is validated and recorded in the end.
AcceptedWebhookRecorded ==
    \A t \in Known : t \in accepted ~> t \in recorded

=============================================================================
