----------------------- MODULE ProviderExchangeProofs -----------------------
(***************************************************************************)
(* Theorems about ProviderExchange, for every set of deliveries, retry     *)
(* budget and number of tasks.                                             *)
(***************************************************************************)
EXTENDS ProviderExchange, DocumentDeliveryProofs

Errors == {"transient", "permanent", "unexpected"}

\* The answers that are a fault of the provider or of the connection.
Faults == {"429", "5xx", "4xx", "no_response"}

\* The answers to a send that the adapter returns from.
Accepting ==
    {"id", "no_id", "null_id"} \cup
        (IF provider_type = "SBIS" THEN {} ELSE {"rpc_error"})

\* The id that it returns.
AcceptedId(answer) ==
    CASE answer = "id" -> Issued
      [] answer = "null_id" -> IF provider_type = "SBIS" THEN NoneText ELSE Null
      [] OTHER -> Empty

NoIds == {"no_id", "null_id", "rpc_error"}

\* What an error says of the request and the answer that raised it.
Explains(error, call, answer) ==
    /\ error \in Errors
    /\ answer \in {"429", "5xx"} => error = "transient"
    /\ answer = "4xx" => error = "permanent"
    /\ answer \in {"no_response", "not_json"} => error = "unexpected"
    /\ answer = "rpc_error" => provider_type = "SBIS" /\ error = "permanent"
    /\ answer \in {"no_id", "null_id"} => call = "auth"
    /\ answer # "id"

-----------------------------------------------------------------------------
(* What the adapters make of an answer *)

LEMMA AuthenticationResult ==
    ASSUME provider_type \in {"DIADOC", "SBIS"}, NEW answer \in Answer
    PROVE  /\ Authentication(answer) \in Errors \cup {"nothing"}
           /\ Authentication(answer) # "nothing" =>
                  Explains(Authentication(answer), "auth", answer)
           /\ Authentication(answer) = "nothing" => answer \notin Faults
BY DEF Authentication, diadoc_ensure_token, sbis_ensure_session,
       sbis_handle_errors, handle_errors, Answer, Errors, Explains, Faults

LEMMA SendResultFields ==
    ASSUME provider_type \in ProviderType, NEW answer \in Answers
    PROVE  /\ answer \in Answer
           /\ SendResult(answer).error \in Errors \cup {"nothing"}
           /\ SendResult(answer).id \in Nat
           /\ SendResult(answer).error # "nothing" =>
                  Explains(SendResult(answer).error, "send", answer)
           /\ SendResult(answer).error = "nothing" =>
                  /\ answer \in Accepting
                  /\ SendResult(answer).id = AcceptedId(answer)
<1> USE DEF Errors, Explains, Accepting, AcceptedId, Null, Empty, NoneText,
            Issued
<1>1. CASE provider_type = "STUB"
    BY <1>1 DEF Answers, Answer, SendResult, stub_send_document, Returns
<1>2. CASE provider_type # "STUB"
    <2>1. answer \in Answer
        BY <1>2 DEF Answers
    <2> USE DEF SendResult, Read, Raises, Returns, get_id, handle_errors, Answer
    <2>2. CASE provider_type = "DIADOC"
        BY <2>1, <2>2 DEF diadoc_send_document
    <2>3. CASE provider_type = "SBIS"
        BY <2>1, <2>3 DEF sbis_send_document, sbis_handle_errors
    <2>4. CASE provider_type = "KONTUR_EDO"
        BY <2>1, <2>4 DEF kontur_send_document
    <2>5. QED
        BY <1>2, <2>2, <2>3, <2>4 DEF ProviderType
<1>3. QED
    BY <1>1, <1>2

-----------------------------------------------------------------------------
(* Types *)

\* The status of the task's copy, in TypeOK.
Status(d) ==
    /\ pc[d] \in {"creating", "auth", "send"} =>
           entity[d].unified_status = "SENDING"
    /\ pc[d] = "recording" => entity[d].unified_status = "SENT"
    /\ pc[d] = "except" => entity[d].unified_status \in {"SENDING", "SENT"}

LEMMA InitTypes ==
    ASSUME Init
    PROVE  TypeOK
<1>1. row \in [Deliveries -> Delivery] /\ entity \in [Deliveries -> Delivery]
    BY CreateType DEF Init
<1>2. dlq \in [Deliveries -> [retryable : Nat, final : Nat]]
    BY DEF Init
<1>3. tasks \in [Deliveries -> 0..MaxTasks]
    BY ExchangeAssumption DEF Init
<1>4. /\ failures \in [Deliveries -> Nat] /\ refused \in [Deliveries -> Nat]
      /\ mishaps \in [Deliveries -> Nat]
    BY DEF Init
<1>5. last \in [Deliveries -> {"none", "auth", "send"} \X (Answer \cup {"none"})]
    BY DEF Init
<1>6. /\ pc \in [Deliveries -> {"idle", "creating", "auth", "send", "recording",
                               "except", "finally"}]
      /\ raised \in [Deliveries -> {"nothing", "transient", "permanent",
                                   "unexpected"}]
      /\ fault \in [Deliveries -> {"none", "record_success", "record_failure",
                                  "lost"}]
      /\ \A d \in Deliveries : pc[d] = "idle"
    BY DEF Init
<1>7. QED
    BY <1>1, <1>2, <1>3, <1>4, <1>5, <1>6 DEF Init, TypeOK

\* What the first steps of a task write.
LEMMA BeginTypes ==
    ASSUME TypeOK, NEW d \in Deliveries, Begin(d)
    PROVE  /\ tasks' \in [Deliveries -> 0..MaxTasks]
           /\ last' \in [Deliveries -> {"none", "auth", "send"} \X
                                       (Answer \cup {"none"})]
           /\ fault' \in [Deliveries -> {"none", "record_success",
                                        "record_failure", "lost"}]
           /\ fault'[d] = "none"
           /\ \A e \in Deliveries \ {d} : fault'[e] = fault[e]
<1>1. tasks' \in [Deliveries -> 0..MaxTasks]
    BY ExchangeAssumption DEF Begin, TypeOK
<1>2. QED
    BY <1>1 DEF Begin, TypeOK

LEMMA EndTypes ==
    ASSUME TypeOK, NEW d \in Deliveries, End(d)
    PROVE  /\ entity' \in [Deliveries -> Delivery]
           /\ raised' \in [Deliveries -> {"nothing", "transient", "permanent",
                                         "unexpected"}]
           /\ pc' \in [Deliveries -> {"idle", "creating", "auth", "send",
                                     "recording", "except", "finally"}]
           /\ pc'[d] = "idle"
           /\ \A e \in Deliveries : Status(e)'
<1>1. /\ pc'[d] = "idle"
      /\ \A e \in Deliveries \ {d} : pc'[e] = pc[e] /\ entity'[e] = entity[e]
    BY DEF End, Goto, TypeOK
<1>2. \A e \in Deliveries : Status(e)
    BY DEF TypeOK, Status
<1>3. \A e \in Deliveries : Status(e)'
    BY <1>1, <1>2 DEF Status
<1>4. QED
    BY <1>1, <1>3, CreateType DEF End, Goto, TypeOK

LEMMA TypeStep ==
    ASSUME TypeOK, [Next]_vars
    PROVE  TypeOK'
<1> USE DEF TypeOK, Goto, account, counts, history
<1>1. ASSUME NEW d \in Deliveries, circuit_open(d)
      PROVE  TypeOK'
    <2>1. schedule_retry(mark_failed(row[d], "CIRCUIT_OPEN")) \in Delivery
        <3>1. mark_failed(row[d], "CIRCUIT_OPEN") \in Delivery
            BY EntityTypes DEF ErrorCode
        <3>2. QED
            BY <3>1, EntityTypes
    <2>2. Begin(d) /\ pc[d] = "idle"
        BY <1>1 DEF circuit_open, Begin
    <2>3. row' \in [Deliveries -> Delivery] /\ refused' \in [Deliveries -> Nat]
        BY <1>1, <2>1 DEF circuit_open
    <2>4. \A e \in Deliveries : Status(e)'
        BY <1>1, <2>2, BeginTypes DEF circuit_open, Status
    <2>5. QED
        BY <1>1, <2>2, <2>3, <2>4, BeginTypes DEF circuit_open, Status
<1>2. ASSUME NEW d \in Deliveries, start_sending(d)
      PROVE  TypeOK'
    <2>1. row[d] \in Delivery /\ mark_sending(row[d]) \in Delivery
        BY EntityTypes
    <2>2. row' \in [Deliveries -> Delivery] /\ entity' \in [Deliveries -> Delivery]
        BY <1>2, <2>1 DEF start_sending
    <2>3. mark_sending(row[d]).unified_status = "SENDING"
        BY <2>1, SendingFields
    <2>4. Begin(d)
        BY <1>2 DEF start_sending
    <2>5. \A e \in Deliveries : Status(e)'
        BY <1>2, <2>3, <2>4, BeginTypes DEF start_sending, Status
    <2>6. QED
        BY <1>2, <2>2, <2>4, <2>5, BeginTypes DEF start_sending, Status
<1>3. ASSUME NEW d \in Deliveries, create_provider(d)
      PROVE  TypeOK'
    <2>1. CASE End(d)
        <3>1. \A e \in Deliveries : Status(e)'
            BY <2>1, EndTypes
        <3>2. QED
            BY <1>3, <2>1, <3>1, EndTypes DEF create_provider, Status
    <2>2. CASE ~End(d)
        <3>1. \A e \in Deliveries : Status(e)'
            BY <1>3, <2>2 DEF create_provider, Status
        <3>2. QED
            BY <1>3, <2>2, <3>1 DEF create_provider, Status
    <2>3. QED
        BY <2>1, <2>2
<1>4. ASSUME NEW d \in Deliveries, NEW answer \in Answers,
             authenticate(d, answer)
      PROVE  TypeOK'
    <2>1. answer \in Answer
        BY DEF Answers, Answer
    <2>2. Authentication(answer) \in {"nothing", "transient", "permanent",
                                     "unexpected"}
        BY <2>1 DEF Authentication, diadoc_ensure_token, sbis_ensure_session,
                    sbis_handle_errors, handle_errors
    <2>3. /\ raised' \in [Deliveries -> {"nothing", "transient", "permanent",
                                        "unexpected"}]
          /\ last' \in [Deliveries -> {"none", "auth", "send"} \X
                                      (Answer \cup {"none"})]
        BY <1>4, <2>1, <2>2 DEF authenticate
    <2>4. QED
        BY <1>4, <2>3 DEF authenticate
<1>5. ASSUME NEW d \in Deliveries, NEW answer \in Answers,
             send_document(d, answer)
      PROVE  TypeOK'
    <2> DEFINE result == SendResult(answer)
    <2>1. /\ answer \in Answer
          /\ result.id \in Nat
          /\ result.error \in {"nothing", "transient", "permanent",
                               "unexpected"}
        BY SendResultFields DEF Errors
    <2>2. /\ raised' \in [Deliveries -> {"nothing", "transient", "permanent",
                                        "unexpected"}]
          /\ last' \in [Deliveries -> {"none", "auth", "send"} \X
                                      (Answer \cup {"none"})]
        BY <1>5, <2>1 DEF send_document
    <2>4. \/ /\ entity' = [entity EXCEPT ![d] = mark_sent(entity[d], result.id)]
             /\ pc' = [pc EXCEPT ![d] = "recording"]
          \/ entity' = entity /\ pc' = [pc EXCEPT ![d] = "except"]
        BY <1>5, Zenon DEF send_document
    <2> HIDE DEF result
    <2>3. /\ mark_sent(entity[d], result.id) \in Delivery
          /\ mark_sent(entity[d], result.id).unified_status = "SENT"
        <3>1. entity[d] \in Delivery /\ result.id \in Nat
            BY <2>1
        <3>2. QED
            BY <3>1, EntityTypes, SentFields
    <2>5. /\ entity' \in [Deliveries -> Delivery]
          /\ pc' \in [Deliveries -> {"idle", "creating", "auth", "send",
                                    "recording", "except", "finally"}]
        <3>1. CASE entity' = [entity EXCEPT ![d] = mark_sent(entity[d], result.id)]
                   /\ pc' = [pc EXCEPT ![d] = "recording"]
            BY <2>3, <3>1
        <3>2. CASE entity' = entity /\ pc' = [pc EXCEPT ![d] = "except"]
            BY <3>2
        <3>3. QED
            BY <2>4, <3>1, <3>2
    <2>6. \A e \in Deliveries : Status(e)'
        <3>1. pc[d] = "send"
            BY <1>5 DEF send_document
        <3>2. entity[d].unified_status = "SENDING"
            BY <3>1
        <3>3. QED
            BY <2>3, <2>4, <3>2 DEF Status
    <2>7. QED
        BY <1>5, <2>2, <2>5, <2>6 DEF send_document, Status
<1>6. ASSUME NEW d \in Deliveries,
             record_success(d) \/ record_success_raises(d)
      PROVE  TypeOK'
    <2>1. CASE record_success(d)
        BY <2>1 DEF record_success
    <2>2. CASE record_success_raises(d)
        BY <2>2 DEF record_success_raises
    <2>3. QED
        BY <1>6, <2>1, <2>2
<1>7. ASSUME NEW d \in Deliveries, NEW n \in 1..2, except_transient(d, n)
      PROVE  TypeOK'
    <2>1. entity' \in [Deliveries -> Delivery]
        BY <1>7, EntityTypes DEF except_transient, ErrorCode
    <2>2. /\ failures' \in [Deliveries -> Nat] /\ mishaps' \in [Deliveries -> Nat]
          /\ pc' \in [Deliveries -> {"idle", "creating", "auth", "send",
                                    "recording", "except", "finally"}]
        BY <1>7 DEF except_transient
    <2>3. \A e \in Deliveries : Status(e)'
        BY <1>7 DEF except_transient, Status
    <2>4. QED
        BY <1>7, <2>1, <2>2, <2>3 DEF except_transient, Status
<1>8. ASSUME NEW d \in Deliveries, NEW n \in 0..2, record_failure_raises(d, n)
      PROVE  TypeOK'
    BY <1>8 DEF record_failure_raises
<1>9. ASSUME NEW d \in Deliveries, except_other(d)
      PROVE  TypeOK'
    <2>1. entity' \in [Deliveries -> Delivery]
        BY <1>9, EntityTypes DEF except_other, ErrorCode
    <2>2. \A e \in Deliveries : Status(e)'
        BY <1>9 DEF except_other, Status
    <2>3. QED
        BY <1>9, <2>1, <2>2 DEF except_other, Status
<1>10. ASSUME NEW d \in Deliveries, commit(d)
       PROVE  TypeOK'
    <2>1. row' \in [Deliveries -> Delivery] /\ End(d)
        BY <1>10 DEF commit
    <2>2. dlq' \in [Deliveries -> [retryable : Nat, final : Nat]]
        <3>1. dlq[d] \in [retryable : Nat, final : Nat]
            OBVIOUS
        <3>2. /\ [dlq[d] EXCEPT !.retryable = @ + 1]
                     \in [retryable : Nat, final : Nat]
              /\ [dlq[d] EXCEPT !.final = @ + 1]
                     \in [retryable : Nat, final : Nat]
            BY <3>1
        <3>3. QED
            BY <1>10, <3>2 DEF commit
    <2>3. \A e \in Deliveries : Status(e)'
        BY <2>1, EndTypes
    <2>4. QED
        BY <1>10, <2>1, <2>2, <2>3, EndTypes DEF commit, Status
<1>11. ASSUME NEW d \in Deliveries, integrity_error(d) \/ task_lost(d)
       PROVE  TypeOK'
    <2>1. End(d)
        BY <1>11 DEF integrity_error, task_lost
    <2>2. /\ mishaps' \in [Deliveries -> Nat]
          /\ fault' \in [Deliveries -> {"none", "record_success",
                                       "record_failure", "lost"}]
          /\ UNCHANGED <<account, row, dlq, tasks, failures, refused, last>>
        <3>1. CASE integrity_error(d)
            BY <3>1 DEF integrity_error
        <3>2. CASE task_lost(d)
            BY <3>2 DEF task_lost
        <3>3. QED
            BY <1>11, <3>1, <3>2
    <2>3. \A e \in Deliveries : Status(e)'
        BY <2>1, EndTypes
    <2>4. QED
        BY <2>1, <2>2, <2>3, EndTypes DEF Status
<1>12. CASE UNCHANGED vars
    BY <1>12 DEF vars
<1>13. QED
    BY <1>1, <1>2, <1>3, <1>4, <1>5, <1>6, <1>7, <1>8, <1>9, <1>10, <1>11,
       <1>12 DEF Next, Step

\* The types hold for any number of deliveries and tasks and any budget.
THEOREM TypeCorrect == Spec => []TypeOK
BY InitTypes, TypeStep, PTL DEF Spec

-----------------------------------------------------------------------------
(* The inductive invariant *)

\* No two rows have the same non-id: the commit would have violated
\* uq_delivery_provider_doc.
Unique ==
    \A d, e \in Deliveries :
        d # e /\ row[d].provider_document_id \in {Empty, NoneText} =>
            row[e].provider_document_id # row[d].provider_document_id

\* The provider has taken the document: the call returned.
Returned(d) ==
    \/ pc[d] = "recording"
    \/ pc[d] \in {"except", "finally"}
       /\ (raised[d] = "nothing" \/ fault[d] = "record_success")

\* The call raised.
Refused(d) ==
    /\ pc[d] \in {"except", "finally"}
    /\ raised[d] # "nothing" /\ fault[d] # "record_success"

\* The retries and retryable DLQ rows that come of faults ...
Scheduled(d) == (row[d].retry_count - refused[d]) + dlq[d].retryable

\* ... and what the commit is going to add to them.
Owed(d) ==
    IF pc[d] = "finally" /\ raised[d] = "transient" /\ fault[d] # "record_failure"
    THEN 1 ELSE 0

Retried(d) ==
    IF Owed(d) = 1 /\ entity[d].unified_status = "PENDING" THEN 1 ELSE 0

\* Between the except clause and the commit the breaker's count is ahead of the
\* tables by what the commit owes them.
Counted(d) ==
    /\ Scheduled(d) + Owed(d) <= failures[d]
    /\ failures[d] <= Scheduled(d) + Owed(d) + mishaps[d]
    /\ pc[d] # "idle" => entity[d].retry_count = row[d].retry_count + Retried(d)

\* The task's copy gets an id from a call that returned only.
Identified(d) ==
    /\ pc[d] \in {"creating", "auth", "send"} \/ Refused(d) =>
           entity[d].provider_document_id = row[d].provider_document_id
    /\ Returned(d) =>
           /\ last[d][1] = "send" /\ last[d][2] \in Accepting
           /\ entity[d].provider_document_id = AcceptedId(last[d][2])

\* What the except clauses have made of the task's copy of the delivery.
Concluded(d) ==
    LET e == entity[d]
        Failed(code) == e.unified_status = "FAILED" /\ e.last_error_code = code
    IN  /\ raised[d] = "nothing" => e.unified_status = "SENT"
        /\ raised[d] = "transient" =>
               \/ e.unified_status = "SENDING" /\ fault[d] = "record_failure"
               \/ e.unified_status = "PENDING" /\ e.next_retry_at
               \/ Failed("TRANSIENT") /\ ~should_retry(e.retry_count)
        /\ raised[d] = "permanent" => Failed("PERMANENT")
        /\ raised[d] = "unexpected" => Failed("UNKNOWN_ERROR")

\* While a task runs its row is SENDING, and the error on record is that of the
\* last answer, or of record_success.
Explained(d) ==
    /\ pc[d] # "idle" => row[d].unified_status = "SENDING"
    /\ pc[d] \in {"creating", "auth", "send", "recording"} => fault[d] = "none"
    /\ pc[d] = "recording" => raised[d] = "nothing"
    /\ pc[d] \in {"creating", "auth"} => last[d] = <<"none", "none">>
    /\ pc[d] = "auth" => provider_type \in {"DIADOC", "SBIS"}
    /\ pc[d] \in {"except", "finally"} =>
           /\ fault[d] = "record_success" => raised[d] = "unexpected"
           /\ fault[d] = "record_failure" =>
                  raised[d] = "transient" /\ entity[d].unified_status = "SENDING"
    /\ pc[d] = "except" =>
           /\ raised[d] # "nothing" /\ fault[d] # "record_failure"
           /\ fault[d] # "record_success" => entity[d].unified_status = "SENDING"
    /\ Refused(d) => Explains(raised[d], last[d][1], last[d][2])
    /\ pc[d] = "finally" => Concluded(d)

\* AnswerDecidesOutcome for one delivery.
Decided(d) ==
    LET r == row[d]
        Failed(code) ==
            r.unified_status = "FAILED" /\ r.last_error_code = code
        Accepted(id) ==
            /\ r.provider_document_id = id
            /\ IF fault[d] = "record_success" THEN Failed("UNKNOWN_ERROR")
               ELSE r.unified_status = "SENT"
    IN  pc[d] = "idle" /\ r.unified_status # "SENDING" =>
            /\ last[d][2] \in {"429", "5xx"} =>
                   \/ r.unified_status = "PENDING" /\ r.next_retry_at
                   \/ Failed("TRANSIENT") /\ ~should_retry(r.retry_count)
            /\ last[d][2] = "4xx" => Failed("PERMANENT")
            /\ last[d][2] \in {"no_response", "not_json"} =>
                   Failed("UNKNOWN_ERROR")
            /\ last[d][2] = "rpc_error" =>
                   IF provider_type = "SBIS" THEN Failed("PERMANENT")
                   ELSE Accepted(Empty)
            /\ last[d] = <<"send", "no_id">> => Accepted(Empty)
            /\ last[d] = <<"send", "null_id">> =>
                   Accepted(IF provider_type = "SBIS" THEN NoneText ELSE Null)
            /\ last[d] = <<"send", "id">> => Accepted(Issued)

Local(d) == Counted(d) /\ Identified(d) /\ Explained(d) /\ Decided(d)

IInv == TypeOK /\ Unique /\ \A d \in Deliveries : Local(d)

\* The part of the state that Local(d) speaks of.
state(d) ==
    <<provider_type, row[d], dlq[d], pc[d], entity[d], raised[d], failures[d],
      refused[d], mishaps[d], last[d], fault[d]>>

\* A step of another delivery's task leaves it alone.
LEMMA Frame ==
    ASSUME NEW d, Local(d), state(d)' = state(d)
    PROVE  Local(d)'
<1> /\ provider_type' = provider_type
    /\ row'[d] = row[d] /\ dlq'[d] = dlq[d] /\ pc'[d] = pc[d]
    /\ entity'[d] = entity[d] /\ raised'[d] = raised[d]
    /\ failures'[d] = failures[d] /\ refused'[d] = refused[d]
    /\ mishaps'[d] = mishaps[d] /\ last'[d] = last[d] /\ fault'[d] = fault[d]
    BY DEF state
<1>1. Counted(d)'
    BY DEF Local, Counted, Scheduled, Owed, Retried
<1>2. Identified(d)'
    BY DEF Local, Identified, Returned, Refused, Accepting, AcceptedId
<1>3. Explained(d)'
    BY DEF Local, Explained, Explains, Refused, Concluded
<1>4. Decided(d)'
    BY DEF Local, Decided
<1>5. QED
    BY <1>1, <1>2, <1>3, <1>4 DEF Local

\* Every action is the step of one task.
LEMMA OneTask ==
    ASSUME TypeOK, NEW d \in Deliveries, Step(d)
    PROVE  \A e \in Deliveries \ {d} : state(e)' = state(e)
<1> USE DEF TypeOK, state, account, counts, history, Goto, Begin, End
<1>1. ASSUME circuit_open(d) \/ start_sending(d)
      PROVE  \A e \in Deliveries \ {d} : state(e)' = state(e)
    BY <1>1 DEF circuit_open, start_sending
<1>2. ASSUME create_provider(d)
      PROVE  \A e \in Deliveries \ {d} : state(e)' = state(e)
    BY <1>2 DEF create_provider
<1>3. ASSUME NEW answer \in Answers, authenticate(d, answer)
      PROVE  \A e \in Deliveries \ {d} : state(e)' = state(e)
    BY <1>3 DEF authenticate
<1>4. ASSUME NEW answer \in Answers, send_document(d, answer)
      PROVE  \A e \in Deliveries \ {d} : state(e)' = state(e)
    BY <1>4 DEF send_document
<1>5. ASSUME record_success(d) \/ record_success_raises(d)
      PROVE  \A e \in Deliveries \ {d} : state(e)' = state(e)
    BY <1>5 DEF record_success, record_success_raises
<1>6. ASSUME NEW n \in 1..2, except_transient(d, n)
      PROVE  \A e \in Deliveries \ {d} : state(e)' = state(e)
    BY <1>6 DEF except_transient
<1>7. ASSUME NEW n \in 0..2, record_failure_raises(d, n)
      PROVE  \A e \in Deliveries \ {d} : state(e)' = state(e)
    BY <1>7 DEF record_failure_raises
<1>8. ASSUME except_other(d)
      PROVE  \A e \in Deliveries \ {d} : state(e)' = state(e)
    BY <1>8 DEF except_other
<1>9. ASSUME commit(d)
      PROVE  \A e \in Deliveries \ {d} : state(e)' = state(e)
    BY <1>9 DEF commit
<1>10. ASSUME integrity_error(d)
       PROVE  \A e \in Deliveries \ {d} : state(e)' = state(e)
    BY <1>10 DEF integrity_error
<1>11. ASSUME task_lost(d)
       PROVE  \A e \in Deliveries \ {d} : state(e)' = state(e)
    BY <1>11 DEF task_lost
<1>12. QED
    BY <1>1, <1>2, <1>3, <1>4, <1>5, <1>6, <1>7, <1>8, <1>9, <1>10, <1>11,
       Zenon DEF Step

\* The numbers that Counted adds up.
LEMMA Numbers ==
    ASSUME TypeOK, NEW d \in Deliveries
    PROVE  /\ row[d].retry_count \in Nat /\ dlq[d].retryable \in Nat
           /\ entity[d].retry_count \in Nat
           /\ failures[d] \in Nat /\ refused[d] \in Nat /\ mishaps[d] \in Nat
           /\ Scheduled(d) \in Int
BY DEF TypeOK, Delivery, Scheduled

-----------------------------------------------------------------------------
(* One lemma for each action: the task it steps *)

LEMMA CircuitOpenStep ==
    ASSUME TypeOK, NEW d \in Deliveries, Local(d), circuit_open(d)
    PROVE  Local(d)'
<1> DEFINE failed == mark_failed(row[d], "CIRCUIT_OPEN")
<1>1. /\ row[d] \in Delivery /\ "CIRCUIT_OPEN" \in ErrorCode
      /\ failed \in Delivery
    BY EntityTypes DEF TypeOK, ErrorCode
<1>2. /\ row'[d] = schedule_retry(failed) /\ dlq'[d] = dlq[d]
      /\ pc[d] = "idle" /\ pc'[d] = "idle" /\ last'[d] = <<"none", "none">>
      /\ failures'[d] = failures[d] /\ refused'[d] = refused[d] + 1
      /\ mishaps'[d] = mishaps[d]
    BY DEF circuit_open, Begin, TypeOK
<1>3. row'[d].retry_count = row[d].retry_count + 1
    BY <1>1, <1>2, FailedFields, ScheduledFields
<1> HIDE DEF failed
<1>4. Counted(d)'
    <2>1. Scheduled(d)' = Scheduled(d)
        BY <1>2, <1>3, Numbers DEF Scheduled
    <2>2. Owed(d) = 0 /\ Owed(d)' = 0
        BY <1>2 DEF Owed
    <2>3. QED
        BY <1>2, <2>1, <2>2 DEF Local, Counted
<1>5. Identified(d)' /\ Explained(d)' /\ Decided(d)'
    BY <1>2 DEF Identified, Explained, Decided, Returned, Refused
<1>6. QED
    BY <1>4, <1>5 DEF Local

LEMMA StartStep ==
    ASSUME TypeOK, NEW d \in Deliveries, Local(d), start_sending(d)
    PROVE  Local(d)'
<1>1. row[d] \in Delivery
    BY DEF TypeOK
<1>2. /\ row'[d] = mark_sending(row[d]) /\ entity'[d] = mark_sending(row[d])
      /\ pc[d] = "idle" /\ pc'[d] = "creating"
      /\ last'[d] = <<"none", "none">> /\ fault'[d] = "none"
      /\ dlq'[d] = dlq[d] /\ failures'[d] = failures[d]
      /\ refused'[d] = refused[d] /\ mishaps'[d] = mishaps[d]
    BY DEF start_sending, Begin, Goto, TypeOK, counts
<1>3. /\ row'[d].unified_status = "SENDING"
      /\ row'[d].retry_count = row[d].retry_count
      /\ entity'[d].retry_count = row[d].retry_count
      /\ entity'[d].provider_document_id = row'[d].provider_document_id
    BY <1>1, <1>2, SendingFields
<1>4. Counted(d)'
    <2>1. Scheduled(d)' = Scheduled(d)
        BY <1>2, <1>3 DEF Scheduled
    <2>2. Owed(d) = 0 /\ Owed(d)' = 0 /\ Retried(d)' = 0
        BY <1>2 DEF Owed, Retried
    <2>3. QED
        BY <1>2, <1>3, <2>1, <2>2, Numbers DEF Local, Counted
<1>5. Identified(d)' /\ Explained(d)' /\ Decided(d)'
    BY <1>2, <1>3 DEF Identified, Explained, Decided, Returned, Refused
<1>6. QED
    BY <1>4, <1>5 DEF Local

\* A task that ends without a commit leaves its row SENDING, and the breaker
\* ahead by what the commit would have added.
LEMMA Ended ==
    ASSUME TypeOK, NEW d \in Deliveries, Local(d), pc[d] # "idle",
           pc'[d] = "idle", row'[d] = row[d], dlq'[d] = dlq[d],
           failures'[d] = failures[d], refused'[d] = refused[d],
           \/ mishaps'[d] = mishaps[d] /\ Owed(d) = 0
           \/ mishaps'[d] = mishaps[d] + 1
    PROVE  Local(d)'
<1>1. Counted(d)'
    <2>1. Scheduled(d)' = Scheduled(d) /\ Owed(d)' = 0 /\ Owed(d) \in {0, 1}
        BY DEF Scheduled, Owed
    <2>2. QED
        BY <2>1, Numbers DEF Local, Counted
<1>2. Identified(d)' /\ Explained(d)'
    BY DEF Identified, Explained, Returned, Refused
<1>3. Decided(d)'
    BY DEF Local, Explained, Decided
<1>4. QED
    BY <1>1, <1>2, <1>3 DEF Local

LEMMA CreateStep ==
    ASSUME TypeOK, NEW d \in Deliveries, Local(d), create_provider(d)
    PROVE  Local(d)'
<1>1. /\ row'[d] = row[d] /\ dlq'[d] = dlq[d] /\ pc[d] = "creating"
      /\ failures'[d] = failures[d] /\ refused'[d] = refused[d]
      /\ mishaps'[d] = mishaps[d] /\ last'[d] = last[d] /\ fault'[d] = fault[d]
      /\ provider_type' = provider_type
    BY DEF create_provider, history, counts, account
<1>2. CASE ~(required[provider_type] \subseteq credentials)
    <2>1. pc'[d] = "idle"
        BY <1>2 DEF create_provider, End, Goto, TypeOK
    <2>2. Owed(d) = 0
        BY <1>1 DEF Owed
    <2>3. QED
        BY <1>1, <2>1, <2>2, Ended
<1>3. CASE required[provider_type] \subseteq credentials
    <2>1. /\ entity'[d] = entity[d]
          /\ pc'[d] = IF Authenticates THEN "auth" ELSE "send"
        BY <1>3 DEF create_provider, Goto, TypeOK
    <2>2. pc'[d] = "auth" => provider_type' \in {"DIADOC", "SBIS"}
        BY <1>1, <2>1 DEF Authenticates
    <2>3. pc'[d] \in {"auth", "send"}
        BY <2>1
    <2>4. Counted(d)'
        BY <1>1, <2>1, <2>3 DEF Local, Counted, Scheduled, Owed, Retried
    <2>5. Identified(d)' /\ Explained(d)' /\ Decided(d)'
        BY <1>1, <2>1, <2>2, <2>3 DEF Local, Identified, Explained, Decided,
                                      Returned, Refused
    <2>6. QED
        BY <2>4, <2>5 DEF Local
<1>4. QED
    BY <1>2, <1>3

LEMMA AuthenticateStep ==
    ASSUME TypeOK, NEW d \in Deliveries, Local(d), NEW answer \in Answers,
           authenticate(d, answer)
    PROVE  Local(d)'
<1>1. /\ row'[d] = row[d] /\ entity'[d] = entity[d] /\ dlq'[d] = dlq[d]
      /\ failures'[d] = failures[d] /\ refused'[d] = refused[d]
      /\ mishaps'[d] = mishaps[d] /\ fault'[d] = fault[d]
      /\ last'[d] = <<"auth", answer>> /\ raised'[d] = Authentication(answer)
      /\ pc[d] = "auth" /\ provider_type' = provider_type
      /\ pc'[d] = IF raised'[d] = "nothing" THEN "send" ELSE "except"
    BY DEF authenticate, Goto, TypeOK, counts, account
<1>2. answer \in Answer
    BY DEF Answers, Answer
<1>3. raised'[d] # "nothing" => Explains(raised'[d], "auth", answer)
    <2>1. provider_type \in {"DIADOC", "SBIS"}
        BY <1>1 DEF Local, Explained
    <2>2. QED
        BY <1>1, <1>2, <2>1, AuthenticationResult
<1>4. pc'[d] \in {"send", "except"}
    BY <1>1
<1>5. /\ fault[d] = "none" /\ entity[d].unified_status = "SENDING"
      /\ row[d].unified_status = "SENDING"
      /\ entity[d].provider_document_id = row[d].provider_document_id
    BY <1>1 DEF Local, Explained, Identified, TypeOK
<1>6. Counted(d)'
    BY <1>1, <1>4 DEF Local, Counted, Scheduled, Owed, Retried
<1>7. Identified(d)' /\ Decided(d)'
    BY <1>1, <1>4, <1>5 DEF Identified, Decided, Returned
<1>8. Explained(d)'
    BY <1>1, <1>3, <1>4, <1>5 DEF Explained, Explains, Refused
<1>9. QED
    BY <1>6, <1>7, <1>8 DEF Local

LEMMA SendStep ==
    ASSUME TypeOK, NEW d \in Deliveries, Local(d), NEW answer \in Answers,
           send_document(d, answer)
    PROVE  Local(d)'
<1> DEFINE result == SendResult(answer)
<1>1. /\ result.id \in Nat
      /\ result.error # "nothing" => Explains(result.error, "send", answer)
      /\ result.error = "nothing" =>
             answer \in Accepting /\ result.id = AcceptedId(answer)
    BY SendResultFields DEF TypeOK
<1>2. entity[d] \in Delivery
    BY DEF TypeOK
<1>3. /\ row'[d] = row[d] /\ dlq'[d] = dlq[d]
      /\ failures'[d] = failures[d] /\ refused'[d] = refused[d]
      /\ mishaps'[d] = mishaps[d] /\ fault'[d] = fault[d]
      /\ last'[d] = <<"send", answer>> /\ raised'[d] = result.error
      /\ pc[d] = "send" /\ provider_type' = provider_type
    BY DEF send_document, TypeOK, counts, account
<1>4. /\ fault[d] = "none" /\ entity[d].unified_status = "SENDING"
      /\ row[d].unified_status = "SENDING"
      /\ entity[d].provider_document_id = row[d].provider_document_id
    BY <1>3 DEF Local, Explained, Identified, TypeOK
<1>5. \/ /\ result.error = "nothing" /\ pc'[d] = "recording"
         /\ entity'[d] = mark_sent(entity[d], result.id)
      \/ result.error # "nothing" /\ pc'[d] = "except" /\ entity'[d] = entity[d]
    BY DEF send_document, Goto, TypeOK
<1> HIDE DEF result
<1>6. pc'[d] \in {"recording", "except"}
    BY <1>5
<1>7. entity'[d].retry_count = entity[d].retry_count
    BY <1>1, <1>2, <1>5, SentFields
<1>8. Counted(d)'
    BY <1>3, <1>6, <1>7 DEF Local, Counted, Scheduled, Owed, Retried
<1>9. CASE result.error = "nothing"
    <2>1. /\ pc'[d] = "recording"
          /\ entity'[d].provider_document_id = AcceptedId(answer)
        BY <1>1, <1>2, <1>5, <1>9, SentFields
    <2>2. Identified(d)' /\ Explained(d)' /\ Decided(d)'
        BY <1>1, <1>3, <1>4, <1>9, <2>1
           DEF Identified, Explained, Decided, Returned, Refused, Accepting,
               AcceptedId
    <2>3. QED
        BY <1>8, <2>2 DEF Local
<1>10. CASE result.error # "nothing"
    <2>1. pc'[d] = "except" /\ entity'[d] = entity[d]
        BY <1>5, <1>10
    <2>2. Identified(d)' /\ Decided(d)'
        BY <1>3, <1>4, <1>10, <2>1 DEF Identified, Decided, Returned
    <2>3. Explained(d)'
        BY <1>1, <1>3, <1>4, <1>10, <2>1 DEF Explained, Explains, Refused
    <2>4. QED
        BY <1>8, <2>2, <2>3 DEF Local
<1>11. QED
    BY <1>9, <1>10

LEMMA SuccessStep ==
    ASSUME TypeOK, NEW d \in Deliveries, Local(d),
           record_success(d) \/ record_success_raises(d)
    PROVE  Local(d)'
<1>1. /\ row'[d] = row[d] /\ entity'[d] = entity[d] /\ dlq'[d] = dlq[d]
      /\ failures'[d] = failures[d] /\ refused'[d] = refused[d]
      /\ mishaps'[d] = mishaps[d] /\ last'[d] = last[d]
      /\ pc[d] = "recording" /\ provider_type' = provider_type
    BY DEF record_success, record_success_raises, counts, history, account
<1>2. \/ pc'[d] = "finally" /\ raised'[d] = raised[d] /\ fault'[d] = fault[d]
      \/ /\ pc'[d] = "except" /\ raised'[d] = "unexpected"
         /\ fault'[d] = "record_success"
    BY DEF record_success, record_success_raises, history, Goto, TypeOK
<1>3. /\ fault[d] = "none" /\ raised[d] = "nothing"
      /\ entity[d].unified_status = "SENT" /\ row[d].unified_status = "SENDING"
    BY <1>1 DEF Local, Explained, TypeOK
<1>4. Counted(d)'
    BY <1>1, <1>2, <1>3 DEF Local, Counted, Scheduled, Owed, Retried
<1>5. Identified(d)'
    BY <1>1, <1>2, <1>3 DEF Local, Identified, Returned, Refused, Accepting,
                            AcceptedId
<1>6. Explained(d)' /\ Decided(d)'
    BY <1>1, <1>2, <1>3 DEF Explained, Decided, Refused, Concluded
<1>7. QED
    BY <1>4, <1>5, <1>6 DEF Local


LEMMA TransientStep ==
    ASSUME TypeOK, NEW d \in Deliveries, Local(d), NEW n \in 1..2,
           except_transient(d, n)
    PROVE  Local(d)'
<1>1. entity[d] \in Delivery /\ "TRANSIENT" \in ErrorCode
    BY DEF TypeOK, ErrorCode
<1>2. /\ row'[d] = row[d] /\ dlq'[d] = dlq[d] /\ last'[d] = last[d]
      /\ raised'[d] = raised[d] /\ raised[d] = "transient"
      /\ failures'[d] = failures[d] + n /\ mishaps'[d] = mishaps[d] + n - 1
      /\ refused'[d] = refused[d] /\ fault'[d] = fault[d]
      /\ pc[d] = "except" /\ pc'[d] = "finally" /\ provider_type' = provider_type
    BY DEF except_transient, Goto, TypeOK, account
<1>3. entity'[d] = IF should_retry(entity[d].retry_count)
                   THEN schedule_retry(entity[d])
                   ELSE mark_failed(entity[d], "TRANSIENT")
    BY DEF except_transient, TypeOK
<1>4. /\ fault[d] \notin {"record_success", "record_failure"}
      /\ row[d].unified_status = "SENDING"
      /\ entity[d].provider_document_id = row[d].provider_document_id
      /\ Explains("transient", last[d][1], last[d][2])
    BY <1>2 DEF Local, Explained, Identified, Refused
<1>5. /\ entity'[d].provider_document_id = entity[d].provider_document_id
      /\ \/ /\ entity'[d].unified_status = "PENDING"
            /\ entity'[d].next_retry_at
            /\ entity'[d].retry_count = entity[d].retry_count + 1
         \/ /\ entity'[d].unified_status = "FAILED"
            /\ entity'[d].last_error_code = "TRANSIENT"
            /\ entity'[d].retry_count = entity[d].retry_count
            /\ ~should_retry(entity'[d].retry_count)
    <2>1. CASE should_retry(entity[d].retry_count)
        BY <1>1, <1>3, <2>1, ScheduledFields
    <2>2. CASE ~should_retry(entity[d].retry_count)
        BY <1>1, <1>3, <2>2, FailedFields
    <2>3. QED
        BY <2>1, <2>2
<1>6. Counted(d)'
    <2>1. Scheduled(d)' = Scheduled(d)
        BY <1>2 DEF Scheduled
    <2>2. Owed(d) = 0 /\ Owed(d)' = 1 /\ Retried(d) = 0
        BY <1>2, <1>4 DEF Owed, Retried
    <2>3. entity'[d].retry_count = row[d].retry_count + Retried(d)'
        BY <1>2, <1>5, <2>2, Numbers DEF Local, Counted, Retried
    <2>4. QED
        BY <1>2, <2>1, <2>2, <2>3, Numbers DEF Local, Counted
<1>7. Identified(d)' /\ Decided(d)'
    BY <1>2, <1>4, <1>5 DEF Identified, Decided, Returned
<1>8. Explained(d)'
    BY <1>2, <1>4, <1>5 DEF Explained, Explains, Refused, Concluded
<1>9. QED
    BY <1>6, <1>7, <1>8 DEF Local

LEMMA FailureRaisesStep ==
    ASSUME TypeOK, NEW d \in Deliveries, Local(d), NEW n \in 0..2,
           record_failure_raises(d, n)
    PROVE  Local(d)'
<1>1. /\ row'[d] = row[d] /\ dlq'[d] = dlq[d] /\ last'[d] = last[d]
      /\ entity'[d] = entity[d]
      /\ raised'[d] = raised[d] /\ raised[d] = "transient"
      /\ failures'[d] = failures[d] + n /\ mishaps'[d] = mishaps[d] + n
      /\ refused'[d] = refused[d] /\ fault'[d] = "record_failure"
      /\ pc[d] = "except" /\ pc'[d] = "finally" /\ provider_type' = provider_type
    BY DEF record_failure_raises, Goto, TypeOK, account
<1>2. /\ fault[d] # "record_success" /\ entity[d].unified_status = "SENDING"
      /\ row[d].unified_status = "SENDING"
      /\ entity[d].provider_document_id = row[d].provider_document_id
      /\ Explains("transient", last[d][1], last[d][2])
    BY <1>1 DEF Local, Explained, Identified, Refused
<1>3. Counted(d)'
    <2>1. Scheduled(d)' = Scheduled(d) /\ Owed(d) = 0 /\ Owed(d)' = 0
          /\ Retried(d) = 0 /\ Retried(d)' = 0
        BY <1>1 DEF Scheduled, Owed, Retried
    <2>2. QED
        BY <1>1, <2>1, Numbers DEF Local, Counted
<1>4. Identified(d)' /\ Decided(d)'
    BY <1>1, <1>2 DEF Identified, Decided, Returned
<1>5. Explained(d)'
    BY <1>1, <1>2 DEF Explained, Explains, Refused, Concluded
<1>6. QED
    BY <1>3, <1>4, <1>5 DEF Local

LEMMA OtherStep ==
    ASSUME TypeOK, NEW d \in Deliveries, Local(d), except_other(d)
    PROVE  Local(d)'
<1> DEFINE code == IF raised[d] = "permanent" THEN "PERMANENT"
                   ELSE "UNKNOWN_ERROR"
<1>1. entity[d] \in Delivery /\ code \in ErrorCode
    BY DEF TypeOK, ErrorCode
<1>2. /\ row'[d] = row[d] /\ dlq'[d] = dlq[d] /\ last'[d] = last[d]
      /\ raised'[d] = raised[d] /\ raised[d] \in {"permanent", "unexpected"}
      /\ failures'[d] = failures[d] /\ mishaps'[d] = mishaps[d]
      /\ refused'[d] = refused[d] /\ fault'[d] = fault[d]
      /\ pc[d] = "except" /\ pc'[d] = "finally" /\ provider_type' = provider_type
      /\ entity'[d] = mark_failed(entity[d], code)
    BY DEF except_other, Goto, TypeOK, history, counts, account
<1>3. /\ entity'[d].unified_status = "FAILED"
      /\ entity'[d].last_error_code = code
      /\ entity'[d].retry_count = entity[d].retry_count
      /\ entity'[d].provider_document_id = entity[d].provider_document_id
    BY <1>1, <1>2, FailedFields
<1>4. Counted(d)'
    BY <1>2, <1>3 DEF Local, Counted, Scheduled, Owed, Retried
<1>5. Identified(d)'
    BY <1>2, <1>3 DEF Local, Identified, Returned, Refused, Accepting, AcceptedId
<1>6. Explained(d)' /\ Decided(d)'
    BY <1>2, <1>3 DEF Local, Explained, Explains, Decided, Refused, Concluded
<1>7. QED
    BY <1>4, <1>5, <1>6 DEF Local

LEMMA CommitStep ==
    ASSUME TypeOK, NEW d \in Deliveries, Local(d), commit(d)
    PROVE  Local(d)'
<1>1. /\ row'[d] = entity[d] /\ last'[d] = last[d] /\ fault'[d] = fault[d]
      /\ failures'[d] = failures[d] /\ mishaps'[d] = mishaps[d]
      /\ refused'[d] = refused[d]
      /\ pc[d] = "finally" /\ pc'[d] = "idle" /\ provider_type' = provider_type
    BY DEF commit, End, Goto, TypeOK, history, counts, account
<1>2. /\ Concluded(d)
      /\ fault[d] = "record_success" => raised[d] = "unexpected"
      /\ fault[d] = "record_failure" => entity[d].unified_status = "SENDING"
      /\ entity[d].retry_count = row[d].retry_count + Retried(d)
    BY <1>1 DEF Local, Explained, Counted
<1>3. /\ dlq[d] \in [retryable : Nat, final : Nat]
      /\ raised[d] \in Errors \cup {"nothing"}
    BY DEF TypeOK, Errors
<1>4. dlq'[d].retryable =
          IF entity[d].unified_status = "FAILED" /\ raised[d] = "transient"
          THEN dlq[d].retryable + 1 ELSE dlq[d].retryable
    <2>1. dlq'[d] =
              IF entity[d].unified_status # "FAILED" THEN dlq[d]
              ELSE IF raised[d] = "transient"
                   THEN [dlq[d] EXCEPT !.retryable = @ + 1]
                   ELSE [dlq[d] EXCEPT !.final = @ + 1]
        BY DEF commit, TypeOK
    <2>2. CASE entity[d].unified_status # "FAILED"
        BY <2>1, <2>2
    <2>3. CASE entity[d].unified_status = "FAILED" /\ raised[d] = "transient"
        BY <1>3, <2>1, <2>3
    <2>4. CASE entity[d].unified_status = "FAILED" /\ raised[d] # "transient"
        BY <1>3, <2>1, <2>4
    <2>5. QED
        BY <2>2, <2>3, <2>4
<1>5. Counted(d)'
    <2>1. Scheduled(d)' = Scheduled(d) + Owed(d)
        <3>1. CASE raised[d] # "transient" \/ fault[d] = "record_failure"
            <4>1. Owed(d) = 0 /\ Retried(d) = 0
                  /\ dlq'[d].retryable = dlq[d].retryable
                BY <1>2, <1>4, <3>1 DEF Owed, Retried
            <4>2. QED
                BY <1>1, <1>2, <4>1, Numbers DEF Scheduled
        <3>2. CASE raised[d] = "transient" /\ fault[d] # "record_failure"
            <4>1. Owed(d) = 1
                BY <1>1, <3>2 DEF Owed
            <4>2. \/ entity[d].unified_status = "PENDING"
                  \/ entity[d].unified_status = "FAILED"
                BY <1>2, <3>2 DEF Concluded
            <4>3. \/ Retried(d) = 1 /\ dlq'[d].retryable = dlq[d].retryable
                  \/ Retried(d) = 0 /\ dlq'[d].retryable = dlq[d].retryable + 1
                BY <1>4, <3>2, <4>1, <4>2 DEF Retried
            <4>4. QED
                BY <1>1, <1>2, <4>1, <4>3, Numbers DEF Scheduled
        <3>3. QED
            BY <3>1, <3>2
    <2>2. Owed(d)' = 0 /\ Owed(d) \in {0, 1}
        BY <1>1 DEF Owed
    <2>3. QED
        BY <1>1, <2>1, <2>2, Numbers DEF Local, Counted
<1>6. Identified(d)' /\ Explained(d)'
    BY <1>1 DEF Identified, Explained, Returned, Refused
<1>7. Decided(d)'
    <2>1. CASE Returned(d)
        <3>1. /\ last[d][1] = "send" /\ last[d][2] \in Accepting
              /\ entity[d].provider_document_id = AcceptedId(last[d][2])
            BY <2>1 DEF Local, Identified
        <3>2. IF fault[d] = "record_success"
              THEN entity[d].unified_status = "FAILED"
                   /\ entity[d].last_error_code = "UNKNOWN_ERROR"
              ELSE entity[d].unified_status = "SENT"
            BY <1>1, <1>2, <2>1 DEF Returned, Concluded
        <3>3. QED
            BY <1>1, <3>1, <3>2 DEF Decided, Accepting, AcceptedId
    <2>2. CASE ~Returned(d)
        <3>1. Explains(raised[d], last[d][1], last[d][2])
            BY <1>1, <2>2 DEF Local, Explained, Returned, Refused
        <3>2. entity[d].unified_status # "SENDING" => fault[d] # "record_failure"
            BY <1>2
        <3>3. QED
            BY <1>1, <1>2, <3>1, <3>2 DEF Decided, Explains, Concluded, Errors
    <2>3. QED
        BY <2>1, <2>2
<1>8. QED
    BY <1>5, <1>6, <1>7 DEF Local

\* Only a non-id of the provider can be taken: after an error of the call the
\* row keeps the id it had, which no other row has.
LEMMA TakenHasCause ==
    ASSUME Unique, NEW d \in Deliveries, Local(d), pc[d] = "finally", Taken(d)
    PROVE  /\ Returned(d)
           /\ last[d][1] = "send" /\ last[d][2] \in NoIds
<1>1. Returned(d)
    <2>1. SUFFICES ASSUME ~Returned(d)
                   PROVE  FALSE
        OBVIOUS
    <2>2. entity[d].provider_document_id = row[d].provider_document_id
        BY <2>1 DEF Local, Identified, Returned, Refused
    <2>3. QED
        BY <2>2 DEF Taken, Unique
<1>2. /\ last[d][1] = "send" /\ last[d][2] \in Accepting
      /\ AcceptedId(last[d][2]) \in {Empty, NoneText}
    BY <1>1 DEF Local, Identified, Taken
<1>3. QED
    BY <1>1, <1>2 DEF Accepting, AcceptedId, NoIds, Null, Empty, NoneText, Issued

LEMMA IntegrityStep ==
    ASSUME TypeOK, Unique, NEW d \in Deliveries, Local(d), integrity_error(d)
    PROVE  Local(d)'
<1>1. /\ row'[d] = row[d] /\ dlq'[d] = dlq[d]
      /\ failures'[d] = failures[d] /\ refused'[d] = refused[d]
      /\ mishaps'[d] = mishaps[d]
      /\ pc[d] = "finally" /\ pc'[d] = "idle" /\ Taken(d)
    BY DEF integrity_error, End, Goto, TypeOK, history, counts
<1>2. Returned(d)
    BY <1>1, TakenHasCause
<1>3. Owed(d) = 0
    BY <1>1, <1>2 DEF Returned, Local, Explained, Owed
<1>4. QED
    BY <1>1, <1>3, Ended

LEMMA LostStep ==
    ASSUME TypeOK, NEW d \in Deliveries, Local(d), task_lost(d)
    PROVE  Local(d)'
<1>1. /\ row'[d] = row[d] /\ dlq'[d] = dlq[d]
      /\ failures'[d] = failures[d] /\ refused'[d] = refused[d]
      /\ mishaps'[d] = mishaps[d] + 1
      /\ pc[d] # "idle" /\ pc'[d] = "idle"
    BY DEF task_lost, End, Goto, TypeOK
<1>2. QED
    BY <1>1, Ended

-----------------------------------------------------------------------------
(* The invariant *)

LEMMA InitInvariant ==
    ASSUME Init
    PROVE  IInv
<1>1. TypeOK
    BY InitTypes
<1>2. \A d \in Deliveries :
          /\ row[d] = create /\ dlq[d] = [retryable |-> 0, final |-> 0]
          /\ pc[d] = "idle" /\ last[d] = <<"none", "none">>
          /\ failures[d] = 0 /\ refused[d] = 0 /\ mishaps[d] = 0
    BY DEF Init
<1>3. create.retry_count = 0 /\ create.provider_document_id = 0
    BY DEF create
<1>4. Unique
    BY <1>2, <1>3 DEF Unique, Empty, NoneText
<1>5. ASSUME NEW d \in Deliveries
      PROVE  Local(d)
    <2>1. Scheduled(d) = 0 /\ Owed(d) = 0
        BY <1>2, <1>3 DEF Scheduled, Owed
    <2>2. Counted(d)
        BY <1>2, <2>1 DEF Counted
    <2>3. Identified(d) /\ Explained(d) /\ Decided(d)
        BY <1>2 DEF Identified, Explained, Decided, Returned, Refused
    <2>4. QED
        BY <2>2, <2>3 DEF Local
<1>6. QED
    BY <1>1, <1>4, <1>5 DEF IInv

LEMMA UniqueStep ==
    ASSUME TypeOK, Unique, [Next]_vars
    PROVE  Unique'
<1>1. ASSUME NEW d \in Deliveries, circuit_open(d) \/ start_sending(d)
      PROVE  Unique'
    <2>1. row[d] \in Delivery /\ "CIRCUIT_OPEN" \in ErrorCode
        BY DEF TypeOK, ErrorCode
    <2>2. mark_failed(row[d], "CIRCUIT_OPEN") \in Delivery
        BY <2>1, EntityTypes
    <2>5. mark_failed(row[d], "CIRCUIT_OPEN").provider_document_id
              = row[d].provider_document_id
        BY <2>1, FailedFields
    <2>6. \A x \in Delivery :
              schedule_retry(x).provider_document_id = x.provider_document_id
        BY ScheduledFields
    <2>3. \A e \in Deliveries :
              row'[e].provider_document_id = row[e].provider_document_id
        <3>1. CASE circuit_open(d)
            <4>1. schedule_retry(mark_failed(row[d], "CIRCUIT_OPEN"))
                      .provider_document_id = row[d].provider_document_id
                BY <2>2, <2>5, <2>6
            <4>2. row' = [row EXCEPT ![d] =
                              schedule_retry(mark_failed(row[d], "CIRCUIT_OPEN"))]
                BY <3>1 DEF circuit_open
            <4>3. row \in [Deliveries -> Delivery]
                BY DEF TypeOK
            <4> HIDE DEF TypeOK
            <4>4. QED
                BY <4>1, <4>2, <4>3
        <3>2. CASE start_sending(d)
            BY <2>1, <3>2, SendingFields DEF start_sending, TypeOK
        <3>3. QED
            BY <1>1, <3>1, <3>2
    <2>4. QED
        BY <2>3 DEF Unique
<1>2. ASSUME NEW d \in Deliveries, commit(d)
      PROVE  Unique'
    <2>1. /\ row'[d] = entity[d]
          /\ \A e \in Deliveries \ {d} : row'[e] = row[e]
          /\ ~Taken(d)
        BY <1>2 DEF commit, TypeOK
    <2>2. QED
        BY <2>1 DEF Unique, Taken
<1>3. CASE UNCHANGED row
    BY <1>3 DEF Unique
<1>4. ASSUME NEW d \in Deliveries,
             \/ create_provider(d)
             \/ \E answer \in Answers :
                    authenticate(d, answer) \/ send_document(d, answer)
             \/ record_success(d) \/ record_success_raises(d)
             \/ \E n \in 1..2 : except_transient(d, n)
             \/ \E n \in 0..2 : record_failure_raises(d, n)
             \/ except_other(d) \/ integrity_error(d) \/ task_lost(d)
      PROVE  UNCHANGED row
    BY <1>4 DEF create_provider, authenticate, send_document, record_success,
                record_success_raises, except_transient, record_failure_raises,
                except_other, integrity_error, task_lost
<1>5. CASE UNCHANGED vars
    BY <1>3, <1>5 DEF vars
<1>6. QED
    BY <1>1, <1>2, <1>3, <1>4, <1>5 DEF Next, Step

LEMMA LocalStep ==
    ASSUME IInv, [Next]_vars, NEW e \in Deliveries
    PROVE  Local(e)'
<1> USE DEF IInv
<1>1. CASE UNCHANGED vars
    <2>1. state(e)' = state(e)
        BY <1>1 DEF vars, state, history, counts, account
    <2>2. QED
        BY <2>1, Frame
<1>2. ASSUME NEW d \in Deliveries, Step(d)
      PROVE  Local(e)'
    <2>1. CASE e # d
        <3>1. state(e)' = state(e)
            BY <1>2, <2>1, OneTask
        <3>2. QED
            BY <3>1, Frame
    <2>2. CASE e = d
        <3>1. Local(d)'
            BY <1>2, CircuitOpenStep, StartStep, CreateStep, AuthenticateStep,
               SendStep, SuccessStep, TransientStep, FailureRaisesStep,
               OtherStep, CommitStep, IntegrityStep, LostStep DEF Step
        <3>2. QED
            BY <2>2, <3>1
    <2>3. QED
        BY <2>1, <2>2
<1>3. QED
    BY <1>1, <1>2 DEF Next

LEMMA Invariance == Spec => []IInv
<1>1. Init => IInv
    BY InitInvariant
<1>2. IInv /\ [Next]_vars => IInv'
    BY TypeStep, UniqueStep, LocalStep DEF IInv
<1>3. QED
    BY <1>1, <1>2, PTL DEF Spec

-----------------------------------------------------------------------------
(* The theorems *)

\* For any budget and any number of tasks: no retry of a fault and no retryable
\* DLQ row without a failure that the breaker counted, through refusals, records
\* that raise after they were applied and tasks lost before their commit.
THEOREM CountsHold == Spec => []BreakerCountsRetries
<1>1. ASSUME IInv, NEW d \in Deliveries, pc[d] = "idle"
      PROVE  /\ Scheduled(d) <= failures[d]
             /\ failures[d] <= Scheduled(d) + mishaps[d]
    <2>1. TypeOK /\ Counted(d) /\ Owed(d) = 0
        BY <1>1 DEF IInv, Local, Owed
    <2>2. QED
        BY <2>1, Numbers DEF Counted
<1>2. IInv => BreakerCountsRetries
    BY <1>1 DEF BreakerCountsRetries, Scheduled
<1>3. QED
    BY <1>2, Invariance, PTL

\* What a task commits is the outcome of the provider's last answer, for every
\* adapter: however many tasks ran before, whatever they left in the row, and
\* whatever the other deliveries of the account met.
THEOREM OutcomesHold == Spec => []AnswerDecidesOutcome
<1>1. IInv => AnswerDecidesOutcome
    BY DEF IInv, Local, Decided, AnswerDecidesOutcome
<1>2. QED
    BY <1>1, Invariance, PTL

\* A task that ends with its delivery SENDING was lost, could not record the
\* failure, had no key for the adapter, or got a non-id that another row has.
THEOREM StuckHasCause == Spec => StuckSendingHasCause
<1>1. ASSUME IInv, Next, NEW d \in Deliveries,
             pc[d] # "idle" /\ pc'[d] = "idle"
             /\ row'[d].unified_status = "SENDING"
      PROVE  \/ fault'[d] \in {"lost", "record_failure"}
             \/ ~(required[provider_type] \subseteq credentials)
             \/ /\ last[d] \in {"send"} \X {"no_id", "null_id", "rpc_error"}
                /\ \E e \in Deliveries \ {d} :
                       row[e].provider_document_id \in {Empty, NoneText}
    <2>1. TypeOK /\ Unique /\ Local(d)
        BY <1>1 DEF IInv
    <2>2. PICK e \in Deliveries : Step(e)
        BY <1>1 DEF Next
    <2>3. Step(d)
        <3>1. e # d => state(d)' = state(d)
            BY <2>1, <2>2, OneTask
        <3>2. e = d
            BY <1>1, <3>1 DEF state
        <3>3. QED
            BY <2>2, <3>2
    <2>4. \/ create_provider(d) \/ commit(d) \/ integrity_error(d)
          \/ task_lost(d)
        BY <1>1, <2>1, <2>3
           DEF Step, circuit_open, Begin, start_sending, authenticate,
               send_document, record_success, record_success_raises,
               except_transient, record_failure_raises, except_other, Goto,
               TypeOK
    <2>5. CASE create_provider(d)
        BY <1>1, <2>1, <2>5 DEF create_provider, Goto, TypeOK
    <2>6. CASE commit(d)
        <3>1. /\ pc[d] = "finally" /\ row'[d] = entity[d]
              /\ fault'[d] = fault[d]
            BY <2>1, <2>6 DEF commit, TypeOK, history
        <3>2. /\ Concluded(d) /\ entity[d].unified_status = "SENDING"
              /\ raised[d] \in Errors \cup {"nothing"}
            BY <1>1, <2>1, <3>1 DEF Local, Explained, TypeOK, Errors
        <3>3. fault[d] = "record_failure"
            BY <3>2 DEF Concluded, Errors
        <3>4. QED
            BY <3>1, <3>3
    <2>7. CASE integrity_error(d)
        <3>1. pc[d] = "finally" /\ Taken(d)
            BY <2>7 DEF integrity_error
        <3>2. last[d][1] = "send" /\ last[d][2] \in NoIds
            BY <2>1, <3>1, TakenHasCause
        <3>3. last[d] = <<last[d][1], last[d][2]>>
            BY <2>1 DEF TypeOK
        <3>4. last[d] \in {"send"} \X {"no_id", "null_id", "rpc_error"}
            BY <3>2, <3>3 DEF NoIds
        <3>5. PICK f \in Deliveries \ {d} :
                  row[f].provider_document_id \in {Empty, NoneText}
            BY <3>1 DEF Taken
        <3>6. QED
            BY <3>4, <3>5
    <2>8. CASE task_lost(d)
        BY <2>1, <2>8 DEF task_lost, TypeOK
    <2>9. QED
        BY <2>4, <2>5, <2>6, <2>7, <2>8
<1>2. IInv /\ [Next]_vars =>
          [\A d \in Deliveries :
               pc[d] # "idle" /\ pc'[d] = "idle"
               /\ row'[d].unified_status = "SENDING" =>
                   \/ fault'[d] \in {"lost", "record_failure"}
                   \/ ~(required[provider_type] \subseteq credentials)
                   \/ /\ last[d] \in {"send"} \X {"no_id", "null_id", "rpc_error"}
                      /\ \E e \in Deliveries \ {d} :
                             row[e].provider_document_id \in {Empty, NoneText}]_vars
    BY <1>1
<1>3. QED
    BY <1>2, Invariance, PTL DEF Spec, StuckSendingHasCause

=============================================================================
