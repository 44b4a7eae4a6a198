-------------------------- MODULE ProviderExchange --------------------------
(***************************************************************************)
(* The provider adapters (infrastructure/providers), from the factory to   *)
(* the commit in which the send task records what came of the call, for    *)
(* the deliveries of one account.                                          *)
(*                                                                         *)
(* An adapter is built for each task, so that DIADOC and SBIS authenticate *)
(* before each send.  The providers are external: an HTTP request gets one *)
(* of the answers below at any time, the breaker may refuse any task, and  *)
(* its records in Redis may raise.  The account is active, a delivery has  *)
(* one task at a time, and nobody replays it: module SendDocument has the  *)
(* other cases.                                                            *)
(***************************************************************************)
EXTENDS DocumentDelivery, Integers

CONSTANTS
    Deliveries,    \* deliveries of the account
    MaxTasks       \* bound: tasks run for one delivery

ASSUME ExchangeAssumption == MaxTasks \in Nat

ProviderType == {"DIADOC", "SBIS", "KONTUR_EDO", "STUB"}

\* The keys that the constructors of the adapters take from credentials_json.
diadoc_init == {"client_id", "login", "password"}
sbis_init == {"login", "password"}
kontur_init == {"api_key", "box_id"}
stub_init == {}

required ==
    [DIADOC |-> diadoc_init, SBIS |-> sbis_init, KONTUR_EDO |-> kontur_init,
     STUB |-> stub_init]

\* What becomes of a request: a status of 400 and more; or 2xx with a body that
\* has the id, has none, has null for it, is a JSON-RPC error, or is no JSON; or
\* no response at all.
Answer ==
    {"429", "5xx", "4xx", "id", "no_id", "null_id", "rpc_error", "not_json",
     "no_response"}

\* provider_document_id: NULL, the empty string, the string "None", or an id
\* that the provider has issued for this document only.
Null == 0
Empty == 1
NoneText == 2
Issued == 3

VARIABLES
    provider_type,  \* of the account
    credentials,    \* the keys of provider_accounts.credentials_json
    row,            \* table document_deliveries
    dlq,            \* table dlq_entries: how many rows of each kind
    pc,             \* where the delivery's task is
    entity,         \* the task's copy of the delivery
    raised,         \* what the call has raised, or "nothing"
    tasks,          \* tasks run so far
    failures,       \* history: failures of the delivery the breaker has counted
    refused,        \* history: retries that the breaker's refusals scheduled
    mishaps,        \* history: late answers to record_failure, and tasks lost
    last,           \* history: the last call of the last task, and its answer
    fault           \* history: what failed in the last task, or "none"

account == <<provider_type, credentials>>
counts == <<failures, refused, mishaps>>
history == <<counts, last, fault>>
vars == <<account, row, dlq, pc, entity, raised, tasks, history>>

-----------------------------------------------------------------------------
(* The adapters *)

\* _handle_errors of DIADOC and KONTUR_EDO, for a request that has a response.
MutantHandleErrors(answer) ==
    CASE answer = "5xx" -> "transient"
      [] answer \in {"429", "4xx"} -> "permanent"
      [] answer = "no_response" -> "unexpected"
      [] OTHER -> "nothing"
handle_errors(answer) ==
    CASE answer \in {"429", "5xx"} -> "transient"
      [] answer = "4xx" -> "permanent"
      [] answer = "no_response" -> "unexpected"
      [] OTHER -> "nothing"

\* SBIS looks into every body for a JSON-RPC error.
sbis_handle_errors(answer) ==
    CASE answer = "rpc_error" -> "permanent"
      [] answer = "not_json" -> "unexpected"
      [] OTHER -> handle_errors(answer)

\* The token is the text of the response, whatever it is.
diadoc_ensure_token(answer) == handle_errors(answer)

\* ["result"] must be there, and null is no value for the header it goes into.
sbis_ensure_session(answer) ==
    IF answer \in {"no_id", "null_id"} THEN "unexpected"
    ELSE sbis_handle_errors(answer)

Raises(error) == [error |-> error, id |-> Null]
Returns(id) == [error |-> "nothing", id |-> id]

\* The id in the JSON body of a response that _handle_errors lets pass.
Read(error, answer, id) ==
    IF error # "nothing" THEN Raises(error)
    ELSE IF answer = "not_json" THEN Raises("unexpected")
    ELSE Returns(id)

\* .get(key, "")
get_id(answer) ==
    CASE answer = "id" -> Issued [] answer = "null_id" -> Null [] OTHER -> Empty

diadoc_send_document(answer) ==
    Read(handle_errors(answer), answer, get_id(answer))

kontur_send_document(answer) ==
    Read(handle_errors(answer), answer, get_id(answer))

\* str(...)
sbis_send_document(answer) ==
    Read(sbis_handle_errors(answer), answer,
         IF answer = "null_id" THEN NoneText ELSE get_id(answer))

\* The stub makes no request and issues an id.
stub_send_document == Returns(Issued)

\* What the authentication that the adapter makes first raises.
Authentication(answer) ==
    IF provider_type = "DIADOC" THEN diadoc_ensure_token(answer)
    ELSE sbis_ensure_session(answer)

Authenticates == provider_type \in {"DIADOC", "SBIS"}

SendResult(answer) ==
    CASE provider_type = "DIADOC" -> diadoc_send_document(answer)
      [] provider_type = "SBIS" -> sbis_send_document(answer)
      [] provider_type = "KONTUR_EDO" -> kontur_send_document(answer)
      [] provider_type = "STUB" -> stub_send_document

Answers == IF provider_type = "STUB" THEN {"id"} ELSE Answer

-----------------------------------------------------------------------------

\* Registration stores whatever credentials_json it is given.
Init ==
    /\ provider_type \in ProviderType
    /\ credentials \in SUBSET required[provider_type]
    /\ row = [d \in Deliveries |-> create]
    /\ dlq = [d \in Deliveries |-> [retryable |-> 0, final |-> 0]]
    /\ pc = [d \in Deliveries |-> "idle"]
    /\ entity = [d \in Deliveries |-> create]
    /\ raised = [d \in Deliveries |-> "nothing"]
    /\ tasks = [d \in Deliveries |-> 0]
    /\ failures = [d \in Deliveries |-> 0]
    /\ refused = [d \in Deliveries |-> 0]
    /\ mishaps = [d \in Deliveries |-> 0]
    /\ last = [d \in Deliveries |-> <<"none", "none">>]
    /\ fault = [d \in Deliveries |-> "none"]

Goto(d, label) == pc' = [pc EXCEPT ![d] = label]

Begin(d) ==
    /\ pc[d] = "idle"
    /\ tasks[d] < MaxTasks
    /\ tasks' = [tasks EXCEPT ![d] = @ + 1]
    /\ last' = [last EXCEPT ![d] = <<"none", "none">>]
    /\ fault' = [fault EXCEPT ![d] = "none"]

\* A task is over: its copy of the delivery and its exception are gone.
End(d) ==
    /\ entity' = [entity EXCEPT ![d] = create]
    /\ raised' = [raised EXCEPT ![d] = "nothing"]
    /\ Goto(d, "idle")

\* guard raises CircuitOpenError: a retry is scheduled whatever the budget, no
\* failure is counted and no request is made.
circuit_open(d) ==
    /\ Begin(d)
    /\ row' = [row EXCEPT ![d] = schedule_retry(mark_failed(@, "CIRCUIT_OPEN"))]
    /\ refused' = [refused EXCEPT ![d] = @ + 1]
    /\ UNCHANGED <<account, dlq, pc, entity, raised, failures, mishaps>>

\* guard admits the task: SENDING is committed.
MutantStartSending(d) ==
    /\ Begin(d)
    /\ row' = [row EXCEPT ![d] = mark_sending(@)]
    /\ entity' = [entity EXCEPT ![d] = row[d]]
    /\ Goto(d, "creating")
    /\ UNCHANGED <<account, dlq, raised, counts>>
start_sending(d) ==
    /\ Begin(d)
    /\ row' = [row EXCEPT ![d] = mark_sending(@)]
    /\ entity' = [entity EXCEPT ![d] = mark_sending(row[d])]
    /\ Goto(d, "creating")
    /\ UNCHANGED <<account, dlq, raised, counts>>

\* ProviderFactory.create stands before the try: a missing key ends the task.
create_provider(d) ==
    /\ pc[d] = "creating"
    /\ IF required[provider_type] \subseteq credentials
       THEN /\ Goto(d, IF Authenticates THEN "auth" ELSE "send")
            /\ UNCHANGED <<entity, raised>>
       ELSE End(d)
    /\ UNCHANGED <<account, row, dlq, tasks, history>>

\* _ensure_token, _ensure_session.
authenticate(d, answer) ==
    LET error == Authentication(answer) IN
    /\ pc[d] = "auth"
    /\ raised' = [raised EXCEPT ![d] = error]
    /\ last' = [last EXCEPT ![d] = <<"auth", answer>>]
    /\ Goto(d, IF error = "nothing" THEN "send" ELSE "except")
    /\ UNCHANGED <<account, row, dlq, entity, tasks, counts, fault>>

\* The call, and mark_sent when it returns.
send_document(d, answer) ==
    LET result == SendResult(answer) IN
    /\ pc[d] = "send"
    /\ raised' = [raised EXCEPT ![d] = result.error]
    /\ last' = [last EXCEPT ![d] = <<"send", answer>>]
    /\ IF result.error = "nothing"
       THEN /\ entity' = [entity EXCEPT ![d] = mark_sent(@, result.id)]
            /\ Goto(d, "recording")
       ELSE UNCHANGED entity /\ Goto(d, "except")
    /\ UNCHANGED <<account, row, dlq, tasks, counts, fault>>

record_success(d) ==
    /\ pc[d] = "recording"
    /\ Goto(d, "finally")
    /\ UNCHANGED <<account, row, dlq, entity, raised, tasks, history>>

\* record_success stands in the try: its error is one of the send.
record_success_raises(d) ==
    /\ pc[d] = "recording"
    /\ raised' = [raised EXCEPT ![d] = "unexpected"]
    /\ fault' = [fault EXCEPT ![d] = "record_success"]
    /\ Goto(d, "except")
    /\ UNCHANGED <<account, row, dlq, entity, tasks, counts, last>>

\* except ProviderTransientError: counted by the breaker, twice when Redis
\* answers only the resent MULTI in time, and retried while the budget lasts.
MutantExceptTransient(d, n) ==
    /\ pc[d] = "except" /\ raised[d] = "transient"
    /\ IF should_retry(entity[d].retry_count)
       THEN /\ failures' = [failures EXCEPT ![d] = @ + n]
            /\ entity' = [entity EXCEPT ![d] = schedule_retry(@)]
       ELSE /\ entity' = [entity EXCEPT ![d] = mark_failed(@, "TRANSIENT")]
            /\ UNCHANGED failures
    /\ mishaps' = [mishaps EXCEPT ![d] = @ + n - 1]
    /\ Goto(d, "finally")
    /\ UNCHANGED <<account, row, dlq, raised, tasks, refused, last, fault>>
except_transient(d, n) ==
    /\ pc[d] = "except" /\ raised[d] = "transient"
    /\ failures' = [failures EXCEPT ![d] = @ + n]
    /\ mishaps' = [mishaps EXCEPT ![d] = @ + n - 1]
    /\ entity' = [entity EXCEPT ![d] =
                      IF should_retry(@.retry_count) THEN schedule_retry(@)
                      ELSE mark_failed(@, "TRANSIENT")]
    /\ Goto(d, "finally")
    /\ UNCHANGED <<account, row, dlq, raised, tasks, refused, last, fault>>

\* record_failure raises, whether or not its MULTI was applied: finally finds
\* the delivery SENDING.
record_failure_raises(d, n) ==
    /\ pc[d] = "except" /\ raised[d] = "transient"
    /\ failures' = [failures EXCEPT ![d] = @ + n]
    /\ mishaps' = [mishaps EXCEPT ![d] = @ + n]
    /\ fault' = [fault EXCEPT ![d] = "record_failure"]
    /\ Goto(d, "finally")
    /\ UNCHANGED <<account, row, dlq, entity, raised, tasks, refused, last>>

\* except ProviderPermanentError, except Exception: no retry, not counted.
MutantExceptOther(d) ==
    /\ pc[d] = "except" /\ raised[d] \in {"permanent", "unexpected"}
    /\ entity' = IF raised[d] = "permanent"
                 THEN [entity EXCEPT ![d] = mark_failed(@, "PERMANENT")]
                 ELSE entity
    /\ Goto(d, "finally")
    /\ UNCHANGED <<account, row, dlq, raised, tasks, history>>
except_other(d) ==
    /\ pc[d] = "except" /\ raised[d] \in {"permanent", "unexpected"}
    /\ entity' = [entity EXCEPT ![d] =
                      mark_failed(@, IF raised[d] = "permanent"
                                     THEN "PERMANENT" ELSE "UNKNOWN_ERROR")]
    /\ Goto(d, "finally")
    /\ UNCHANGED <<account, row, dlq, raised, tasks, history>>

\* Another delivery of the account has the provider_document_id already.
Taken(d) ==
    /\ entity[d].provider_document_id \in {Empty, NoneText}
    /\ \E e \in Deliveries \ {d} :
           row[e].provider_document_id = entity[d].provider_document_id

\* finally: the DLQ row and the delivery, in one commit.
commit(d) ==
    /\ pc[d] = "finally"
    /\ ~Taken(d)
    /\ row' = [row EXCEPT ![d] = entity[d]]
    /\ dlq' = IF entity[d].unified_status # "FAILED" THEN dlq
              ELSE IF raised[d] = "transient"
                   THEN [dlq EXCEPT ![d].retryable = @ + 1]
                   ELSE [dlq EXCEPT ![d].final = @ + 1]
    /\ End(d)
    /\ UNCHANGED <<account, tasks, history>>

\* uq_delivery_provider_doc: IntegrityError, nothing is written.
integrity_error(d) ==
    /\ pc[d] = "finally"
    /\ Taken(d)
    /\ End(d)
    /\ UNCHANGED <<account, row, dlq, tasks, history>>

\* The worker is killed (its message is delivered again: the next task), or the
\* database raises: nothing more is written.
task_lost(d) ==
    /\ pc[d] # "idle"
    /\ mishaps' = [mishaps EXCEPT ![d] = @ + 1]
    /\ fault' = [fault EXCEPT ![d] = "lost"]
    /\ End(d)
    /\ UNCHANGED <<account, row, dlq, tasks, failures, refused, last>>

Step(d) ==
    \/ circuit_open(d) \/ start_sending(d) \/ create_provider(d)
    \/ \E answer \in Answers : authenticate(d, answer) \/ send_document(d, answer)
    \/ record_success(d) \/ record_success_raises(d)
    \/ \E n \in 1..2 : except_transient(d, n)
    \/ \E n \in 0..2 : record_failure_raises(d, n)
    \/ except_other(d) \/ commit(d) \/ integrity_error(d) \/ task_lost(d)

Next == \E d \in Deliveries : Step(d)

Spec == Init /\ [][Next]_vars

-----------------------------------------------------------------------------
(* Properties *)

TypeOK ==
    /\ provider_type \in ProviderType
    /\ credentials \in SUBSET required[provider_type]
    /\ row \in [Deliveries -> Delivery]
    /\ dlq \in [Deliveries -> [retryable : Nat, final : Nat]]
    /\ pc \in [Deliveries -> {"idle", "creating", "auth", "send", "recording",
                              "except", "finally"}]
    /\ entity \in [Deliveries -> Delivery]
    /\ raised \in [Deliveries -> {"nothing", "transient", "permanent",
                                  "unexpected"}]
    /\ tasks \in [Deliveries -> 0..MaxTasks]
    /\ failures \in [Deliveries -> Nat]
    /\ refused \in [Deliveries -> Nat]
    /\ mishaps \in [Deliveries -> Nat]
    /\ last \in [Deliveries -> {"none", "auth", "send"} \X
                               (Answer \cup {"none"})]
    /\ fault \in [Deliveries -> {"none", "record_success", "record_failure",
                                 "lost"}]
    /\ \A d \in Deliveries :
           /\ pc[d] \in {"creating", "auth", "send"} =>
                  entity[d].unified_status = "SENDING"
           /\ pc[d] = "recording" => entity[d].unified_status = "SENT"
           /\ pc[d] = "except" =>
                  entity[d].unified_status \in {"SENDING", "SENT"}

\* A task that has committed SENDING leaves its delivery so for these reasons
\* only: it was lost, record_failure raised, the account lacks a key that the
\* adapter needs, or the provider answered without a usable id and another
\* delivery of the account has that non-id already.
StuckSendingHasCause ==
    [][\A d \in Deliveries :
           pc[d] # "idle" /\ pc'[d] = "idle"
           /\ row'[d].unified_status = "SENDING" =>
               \/ fault'[d] \in {"lost", "record_failure"}
               \/ ~(required[provider_type] \subseteq credentials)
               \/ /\ last[d] \in {"send"} \X {"no_id", "null_id", "rpc_error"}
                  /\ \E e \in Deliveries \ {d} :
                         row[e].provider_document_id \in {Empty, NoneText}]_vars

\* The outcome that a task commits follows from the last answer of the provider,
\* in whichever of the send's two requests: a busy or broken provider is retried
\* while the budget lasts, a refusal, a lost answer and an unreadable one are
\* final.  Only an answer without an id depends on the adapter: SBIS fails what
\* the others take for sent with an empty id.  A send that returned is SENT,
\* and FAILED only when the breaker's record of it raised.
AnswerDecidesOutcome ==
    \A d \in Deliveries :
        LET r == row[d]
            Failed(code) ==
                r.unified_status = "FAILED" /\ r.last_error_code = code
            Accepted(id) ==
                /\ r.provider_document_id = id
                /\ IF fault[d] = "record_success" THEN Failed("UNKNOWN_ERROR")
                   ELSE r.unified_status = "SENT"
        IN  pc[d] = "idle" /\ r.unified_status # "SENDING" =>
                /\ last[d][2] \in {"429", "5xx"} =>
                       \/ r.unified_status = "PENDING" /\ r.next_retry_at
                       \/ Failed("TRANSIENT") /\ ~should_retry(r.retry_count)
                /\ last[d][2] = "4xx" => Failed("PERMANENT")
                /\ last[d][2] \in {"no_response", "not_json"} =>
                       Failed("UNKNOWN_ERROR")
                /\ last[d][2] = "rpc_error" =>
                       IF provider_type = "SBIS" THEN Failed("PERMANENT")
                       ELSE Accepted(Empty)
                /\ last[d] = <<"send", "no_id">> => Accepted(Empty)
                /\ last[d] = <<"send", "null_id">> =>
                       Accepted(IF provider_type = "SBIS" THEN NoneText ELSE Null)
                /\ last[d] = <<"send", "id">> => Accepted(Issued)

\* No retry of a fault and no retryable DLQ row without a failure that the
\* breaker counted; and the breaker is ahead of them by no more than late
\* answers of Redis and lost tasks explain.  The retries scheduled by its own
\* refusals feed it nothing.
BreakerCountsRetries ==
    \A d \in Deliveries :
        LET Scheduled == (row[d].retry_count - refused[d]) + dlq[d].retryable
        IN  pc[d] = "idle" =>
                /\ Scheduled <= failures[d]
                /\ failures[d] <= Scheduled + mishaps[d]

=============================================================================
