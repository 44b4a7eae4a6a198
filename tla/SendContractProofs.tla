-------------------------- MODULE SendContractProofs --------------------------
(***************************************************************************)
(* What the send pipeline promises, for every number of deliveries,        *)
(* workers and requests and every retry budget.  First it implements its   *)
(* contract: what a row and the copies of it say is backed by what the     *)
(* provider has accepted.  Then what it leaves on record: the outcomes,    *)
(* the retries that were scheduled, and how often the provider may have    *)
(* been asked.                                                             *)
(***************************************************************************)
EXTENDS SendDocumentProofs, FiniteSetTheorems

Outcomes == {"PENDING", "SENDING", "SENT", "FAILED"}

\* The id of a delivery is none or one of the n that the provider may have
\* issued for it, and a SENT delivery has been accepted.
Backed(x, n) ==
    /\ x.unified_status \in Outcomes
    /\ x.provider_document_id \in 0..n
    /\ x.unified_status = "SENT" => n # 0

Accepted(d) == Len(inbox[d])

RowsBacked == \A d \in Deliveries : Backed(delivery[d], Accepted(d))

WorkersBacked ==
    \A w \in Workers :
        pc[w] # "idle" =>
            /\ subject(w) \in stored
            /\ Backed(entity[w], Accepted(subject(w)))

RequestsBacked ==
    \A r \in Requests :
        /\ apc[r] \in {"retrying", "retried"} =>
               /\ target[r] \in stored
               /\ Backed(copy[r], Accepted(target[r]))
        /\ apc[r] = "retried" => copy[r].unified_status = "PENDING"

BackedInv == RowsBacked /\ WorkersBacked /\ RequestsBacked

-----------------------------------------------------------------------------
(* What the entity's operations do to a backed delivery *)

LEMMA BackedCreate ==
    ASSUME NEW n \in Nat
    PROVE  Backed(create, n)
BY DEF Backed, create, Outcomes

LEMMA BackedMore ==
    ASSUME NEW x \in Delivery, NEW n \in Nat, NEW k \in Nat, n <= k,
           Backed(x, n)
    PROVE  Backed(x, k)
BY DEF Backed, Delivery

LEMMA BackedSending ==
    ASSUME NEW x \in Delivery, NEW n \in Nat, Backed(x, n)
    PROVE  Backed(mark_sending(x), n)
BY SendingFields DEF Backed, Outcomes

LEMMA BackedSent ==
    ASSUME NEW x \in Delivery, NEW n \in Nat
    PROVE  \A id \in {0, n + 1} : Backed(mark_sent(x, id), n + 1)
<1> TAKE id \in {0, n + 1}
<1>1. id \in Nat /\ id \in 0..(n + 1) /\ n + 1 # 0
    OBVIOUS
<1>2. /\ mark_sent(x, id).unified_status = "SENT"
      /\ mark_sent(x, id).provider_document_id = id
    BY <1>1, SentFields
<1>3. QED
    BY <1>1, <1>2 DEF Backed, Outcomes

LEMMA BackedFailed ==
    ASSUME NEW x \in Delivery, NEW n \in Nat, NEW code \in ErrorCode,
           Backed(x, n)
    PROVE  Backed(mark_failed(x, code), n)
BY FailedFields DEF Backed, Outcomes

LEMMA BackedScheduled ==
    ASSUME NEW x \in Delivery, NEW n \in Nat, Backed(x, n)
    PROVE  Backed(schedule_retry(x), n)
BY ScheduledFields DEF Backed, Outcomes

LEMMA BackedReset ==
    ASSUME NEW x \in Delivery, NEW n \in Nat, Backed(x, n)
    PROVE  /\ Backed(force_pending(x), n)
           /\ force_pending(x).unified_status = "PENDING"
BY ResetFields DEF Backed, Outcomes

-----------------------------------------------------------------------------
(* What a step leaves alone *)

\* The provider forgets nothing, and no row is deleted.
LEMMA Grows ==
    ASSUME TypeOK, [Next]_vars
    PROVE  /\ stored \subseteq stored'
           /\ \A d \in Deliveries :
                  /\ Accepted(d) \in Nat /\ Accepted(d)' \in Nat
                  /\ Accepted(d) <= Accepted(d)'
<1>1. inbox \in [Deliveries -> Seq({"file", "empty"})]
    BY DEF TypeOK, ServicesTyped
<1>2. ASSUME NEW w \in Workers, provider_accepts(w) \/ provider_answer_lost(w)
      PROVE  \A d \in Deliveries : Len(inbox[d]) <= Len(inbox'[d])
    <2>1. subject(w) \in Deliveries /\ job[w].bytes \in {"file", "empty"}
        BY <1>2, SubjectType DEF TypeOK, provider_accepts,
           provider_answer_lost, Message
    <2>2. inbox' = [inbox EXCEPT ![subject(w)] = Append(@, job[w].bytes)]
        BY <1>2 DEF provider_accepts, provider_answer_lost, Accept
    <2>3. Len(Append(inbox[subject(w)], job[w].bytes))
              = Len(inbox[subject(w)]) + 1
        BY <1>1, <2>1
    <2>4. QED
        BY <1>1, <2>1, <2>2, <2>3
<1>3. ASSUME \A w \in Workers :
                 ~provider_accepts(w) /\ ~provider_answer_lost(w)
      PROVE  \A d \in Deliveries : Len(inbox[d]) <= Len(inbox'[d])
    <2>1. UNCHANGED inbox
        BY <1>3 DEF Next, WorkerStep, WorkerFault, RequestStep, RequestBegins,
           take_not_found, take, load_account, fail_inactive, circuit_admits,
           circuit_refuses, postpone, start_sending, provider_refuses,
           provider_busy, record_failure_raises, record_success,
           record_success_raises, close, ack, task_raises, crash,
           send_document_endpoint, send_commit, retry_read, retry_update,
           retry_commit, replay_dlq_entry, replay_commit, rollback,
           activate_account, deactivate_account, vars
    <2>2. \A d \in Deliveries : Len(inbox[d]) \in Nat
        BY <1>1
    <2>3. QED
        BY <2>1, <2>2
<1>4. \A d \in Deliveries : Len(inbox[d]) <= Len(inbox'[d])
    BY <1>2, <1>3
<1>5. stored \subseteq stored'
    <2>1. ASSUME NEW r \in Requests, RequestStep(r) \/ RequestBegins(r)
          PROVE  stored \subseteq stored'
        BY <2>1 DEF RequestStep, RequestBegins, send_document_endpoint,
           send_commit, retry_read, retry_update, retry_commit,
           replay_dlq_entry, replay_commit, rollback, tables
    <2>2. ASSUME NEW w \in Workers, WorkerStep(w) \/ WorkerFault(w)
          PROVE  stored' = stored
        BY <2>2 DEF WorkerStep, WorkerFault, take_not_found, take,
           load_account, fail_inactive, circuit_admits, circuit_refuses,
           postpone, start_sending, provider_accepts, provider_answer_lost,
           provider_refuses, provider_busy, record_failure_raises,
           record_success, record_success_raises, close, ack, task_raises,
           crash, tables
    <2>3. CASE activate_account \/ deactivate_account \/ UNCHANGED vars
        BY <2>3 DEF activate_account, deactivate_account, tables, vars
    <2>4. QED
        BY <2>1, <2>2, <2>3 DEF Next
<1>6. TypeOK'
    BY TypeStep
<1>7. QED
    BY <1>1, <1>4, <1>5, <1>6 DEF Accepted, TypeOK, ServicesTyped

\* A worker's step leaves the other workers alone, and the requests' copies.
LEMMA OneWorker ==
    ASSUME TypeOK, NEW v \in Workers, WorkerStep(v) \/ WorkerFault(v)
    PROVE  /\ \A w \in Workers \ {v} :
                  /\ pc'[w] = pc[w] /\ job'[w] = job[w]
                  /\ entity'[w] = entity[w] /\ entry'[w] = entry[w]
           /\ UNCHANGED <<apc, target, copy>>
<1> USE DEF TypeOK, WorkersTyped, request
<1>1. ASSUME NEW m \in Message, take_not_found(v, m) \/ take(v, m)
      PROVE  /\ \A w \in Workers \ {v} :
                    /\ pc'[w] = pc[w] /\ job'[w] = job[w]
                    /\ entity'[w] = entity[w] /\ entry'[w] = entry[w]
             /\ UNCHANGED <<apc, target, copy>>
    BY <1>1 DEF take_not_found, take, Goto, worker
<1>2. CASE \/ load_account(v) \/ circuit_admits(v) \/ circuit_refuses(v)
           \/ record_failure_raises(v) \/ record_success(v)
    BY <1>2 DEF load_account, circuit_admits, circuit_refuses,
       record_failure_raises, record_success, Goto
<1>3. CASE fail_inactive(v) \/ postpone(v) \/ start_sending(v) \/ close(v)
    BY <1>3 DEF fail_inactive, postpone, start_sending, close, Goto
<1>4. CASE \/ provider_accepts(v) \/ provider_answer_lost(v)
           \/ provider_refuses(v) \/ provider_busy(v)
           \/ record_success_raises(v)
    BY <1>4 DEF provider_accepts, provider_answer_lost, provider_refuses,
       provider_busy, record_success_raises, Fail,
       write_dlq, Goto
<1>5. CASE ack(v) \/ task_raises(v) \/ crash(v)
    BY <1>5 DEF ack, task_raises, crash, Release, Goto
<1>6. QED
    BY <1>1, <1>2, <1>3, <1>4, <1>5 DEF WorkerStep, WorkerFault

\* A request's step leaves the other requests alone, and the workers.
LEMMA OneRequest ==
    ASSUME TypeOK, NEW q \in Requests, RequestStep(q) \/ RequestBegins(q)
    PROVE  /\ \A r \in Requests \ {q} :
                  /\ apc'[r] = apc[r] /\ target'[r] = target[r]
                  /\ copy'[r] = copy[r]
           /\ UNCHANGED <<pc, job, entity, entry>>
<1> USE DEF TypeOK, RequestsTyped, worker
<1>1. CASE RequestStep(q)
    BY <1>1 DEF RequestStep, send_commit, retry_update, retry_commit,
       replay_commit, rollback, Finish
<1>2. CASE RequestBegins(q)
    BY <1>2 DEF RequestBegins, send_document_endpoint, retry_read,
       replay_dlq_entry
<1>3. QED
    BY <1>1, <1>2

-----------------------------------------------------------------------------
(* The invariant is kept *)

\* The values of a delivery's copies have its type.
LEMMA CopyTypes ==
    ASSUME TypeOK
    PROVE  /\ \A d \in Deliveries :
                  delivery[d] \in Delivery /\ Accepted(d) \in Nat
           /\ \A w \in Workers : entity[w] \in Delivery
           /\ \A r \in Requests : copy[r] \in Delivery
BY DEF TypeOK, TablesTyped, ServicesTyped, WorkersTyped, RequestsTyped, Accepted

\* What is written to a row is backed when it is written.
LEMMA RowsBackedStep ==
    ASSUME TypeOK, BackedInv, [Next]_vars
    PROVE  RowsBacked'
<1>1. SUFFICES ASSUME NEW d \in Deliveries
               PROVE  Backed(delivery'[d], Accepted(d)')
    BY DEF RowsBacked
<1>2. /\ delivery[d] \in Delivery /\ delivery'[d] \in Delivery
      /\ Accepted(d) \in Nat /\ Accepted(d)' \in Nat
      /\ Accepted(d) <= Accepted(d)'
    BY TypeStep, CopyTypes, Grows DEF TypeOK, TablesTyped
<1>3. SUFFICES Backed(delivery'[d], Accepted(d))
    BY <1>2, BackedMore
<1>4. ASSUME NEW w \in Workers, WorkerWrites(w, d) \/ Starts(w, d)
      PROVE  Backed(delivery'[d], Accepted(d))
    <2>1. entity[w] \in Delivery
        BY CopyTypes
    <2>2. subject(w) = d /\ pc[w] # "idle"
        BY <1>4 DEF WorkerWrites, Starts, fail_inactive, postpone, close,
           start_sending
    <2>3. Backed(entity[w], Accepted(d))
        BY <2>2 DEF BackedInv, WorkersBacked
    <2> USE DEF update, TypeOK, TablesTyped
    <2>4. CASE fail_inactive(w)
        <3>1. delivery'[d] = mark_failed(entity[w], "PROVIDER_ACCOUNT_INACTIVE")
            BY <2>2, <2>4 DEF fail_inactive
        <3>2. QED
            BY <1>2, <2>1, <2>3, <3>1, BackedFailed DEF ErrorCode
    <2>5. CASE postpone(w)
        <3> DEFINE failed == mark_failed(entity[w], "CIRCUIT_OPEN")
        <3>1. delivery'[d] = schedule_retry(failed)
            BY <2>2, <2>5 DEF postpone
        <3>2. "CIRCUIT_OPEN" \in ErrorCode
            BY DEF ErrorCode
        <3>3. failed \in Delivery /\ Backed(failed, Accepted(d))
            BY <1>2, <2>1, <2>3, <3>2, BackedFailed, EntityTypes
        <3> HIDE DEF failed
        <3>4. QED
            BY <1>2, <3>1, <3>3, BackedScheduled
    <2>6. CASE close(w)
        <3>1. delivery'[d] = entity[w]
            BY <2>2, <2>6 DEF close
        <3>2. QED
            BY <2>3, <3>1
    <2>7. CASE start_sending(w)
        <3>1. delivery'[d] = mark_sending(entity[w])
            BY <2>2, <2>7 DEF start_sending
        <3>2. QED
            BY <1>2, <2>1, <2>3, <3>1, BackedSending
    <2>8. QED
        BY <1>4, <2>4, <2>5, <2>6, <2>7 DEF WorkerWrites, Starts
<1>5. ASSUME NEW r \in Requests, RequestWrites(r, d)
      PROVE  Backed(delivery'[d], Accepted(d))
    <2> USE DEF TypeOK, TablesTyped
    <2>1. CASE send_commit(r)
        <3>1. delivery'[d] = create
            BY <1>5, <2>1 DEF RequestWrites, send_commit
        <3>2. QED
            BY <1>2, <3>1, BackedCreate
    <2>2. CASE retry_commit(r)
        <3>1. delivery'[d] = copy[r] /\ apc[r] = "retried" /\ target[r] = d
            BY <1>5, <2>2 DEF RequestWrites, retry_commit
        <3>2. QED
            BY <3>1 DEF BackedInv, RequestsBacked
    <2>3. QED
        BY <1>5, <2>1, <2>2 DEF RequestWrites
<1>6. CASE /\ \A w \in Workers : ~WorkerWrites(w, d) /\ ~Starts(w, d)
           /\ \A r \in Requests : ~RequestWrites(r, d)
    <2>1. delivery'[d] = delivery[d]
        BY <1>6, RowKept
    <2>2. QED
        BY <2>1 DEF BackedInv, RowsBacked
<1>7. QED
    BY <1>4, <1>5, <1>6

\* A worker's copy comes from a backed row, and gets no id but from the
\* provider.
LEMMA WorkersBackedStep ==
    ASSUME TypeOK, BackedInv, [Next]_vars
    PROVE  WorkersBacked'
<1>1. SUFFICES ASSUME NEW w \in Workers, pc'[w] # "idle"
               PROVE  /\ subject(w)' \in stored'
                      /\ Backed(entity'[w], Len(inbox'[subject(w)']))
    BY DEF WorkersBacked, Accepted
<1> DEFINE Held(x) == \* a copy of the same delivery as before
        pc[w] # "idle" /\ job'[w] = job[w] /\ entity'[w] = x
        /\ x \in Delivery /\ Backed(x, Accepted(subject(w)))
<1>2. ASSUME NEW x, Held(x)
      PROVE  /\ subject(w)' \in stored'
             /\ Backed(entity'[w], Len(inbox'[subject(w)']))
    <2>1. subject(w)' = subject(w) /\ subject(w) \in Deliveries
        BY <1>2, SubjectType DEF subject, TypeOK
    <2>2. subject(w) \in stored
        BY <1>2 DEF BackedInv, WorkersBacked
    <2>3. Backed(x, Accepted(subject(w))')
        BY <1>2, <2>1, Grows, BackedMore
    <2>4. QED
        BY <1>2, <2>1, <2>2, <2>3, Grows DEF Accepted
<1>3. /\ entity[w] \in Delivery
      /\ pc[w] # "idle" =>
             /\ Backed(entity[w], Accepted(subject(w)))
             /\ subject(w) \in Deliveries /\ Accepted(subject(w)) \in Nat
    BY CopyTypes, SubjectType DEF BackedInv, WorkersBacked, TypeOK
<1> HIDE DEF Held
<1>4. CASE pc'[w] = pc[w] /\ job'[w] = job[w] /\ entity'[w] = entity[w]
    <2>1. Held(entity[w])
        BY <1>1, <1>3, <1>4 DEF Held
    <2>2. QED
        BY <1>2, <2>1
<1>5. ASSUME NEW m \in Message, take_not_found(w, m) \/ take(w, m)
      PROVE  /\ subject(w)' \in stored'
             /\ Backed(entity'[w], Len(inbox'[subject(w)']))
    <2>1. take(w, m)
        BY <1>1, <1>5 DEF take_not_found, worker
    <2>2. /\ job'[w] = m /\ m.delivery \in stored
          /\ entity'[w] = delivery[m.delivery]
          /\ UNCHANGED <<stored, inbox>>
        BY <2>1 DEF take, TypeOK, WorkersTyped, tables
    <2>3. m.delivery \in Deliveries
        BY DEF Message
    <2>4. QED
        BY <2>2, <2>3 DEF subject, BackedInv, RowsBacked, Accepted
<1>6. CASE \/ load_account(w) \/ circuit_admits(w) \/ circuit_refuses(w)
           \/ record_failure_raises(w) \/ record_success(w)
           \/ fail_inactive(w) \/ postpone(w) \/ close(w)
    <2>1. pc[w] # "idle" /\ job'[w] = job[w] /\ entity'[w] = entity[w]
        BY <1>6 DEF load_account, circuit_admits, circuit_refuses,
           record_failure_raises, record_success, fail_inactive, postpone,
           close
    <2>2. Held(entity[w])
        BY <1>3, <2>1 DEF Held
    <2>3. QED
        BY <1>2, <2>2
<1>7. CASE start_sending(w)
    <2>1. /\ pc[w] # "idle" /\ job'[w] = job[w]
          /\ entity'[w] = mark_sending(entity[w])
        BY <1>7 DEF start_sending, TypeOK, WorkersTyped
    <2>2. Held(mark_sending(entity[w]))
        BY <1>3, <2>1, EntityTypes, BackedSending DEF Held
    <2>3. QED
        BY <1>2, <2>2
<1>8. CASE provider_accepts(w)
    <2> DEFINE n == Accepted(subject(w))
    <2>1. /\ pc[w] # "idle" /\ job'[w] = job[w]
          /\ UNCHANGED stored
          /\ inbox' = [inbox EXCEPT ![subject(w)] = Append(@, job[w].bytes)]
        BY <1>8 DEF provider_accepts, Accept, tables
    <2>8. PICK id \in {0, n + 1} : entity'[w] = mark_sent(entity[w], id)
        BY <1>8 DEF provider_accepts, Accepted, TypeOK, WorkersTyped
    <2>2. subject(w)' = subject(w) /\ subject(w) \in stored
        BY <2>1 DEF subject, BackedInv, WorkersBacked
    <2>3. job[w].bytes \in {"file", "empty"} /\ subject(w) \in Deliveries
        BY <2>1, SubjectType DEF TypeOK, Message
    <2>4. Len(inbox'[subject(w)]) = n + 1
        BY <2>1, <2>3 DEF TypeOK, ServicesTyped, Accepted
    <2>5. n \in Nat
        BY <1>3, <2>1
    <2> HIDE DEF n
    <2>6. Backed(mark_sent(entity[w], id), n + 1)
        BY <1>3, <2>1, <2>5, <2>8, BackedSent
    <2>7. QED
        BY <2>1, <2>2, <2>4, <2>6, <2>8
<1>9. CASE \/ provider_answer_lost(w) \/ provider_refuses(w)
           \/ provider_busy(w) \/ record_success_raises(w)
    <2>1. pc[w] # "idle" /\ job'[w] = job[w]
        BY <1>9 DEF provider_answer_lost, provider_refuses, provider_busy,
           record_success_raises
    <2>2. \/ \E code \in ErrorCode : entity'[w] = mark_failed(entity[w], code)
          \/ entity'[w] = schedule_retry(entity[w])
        BY <1>9 DEF provider_answer_lost, provider_refuses, provider_busy,
           record_success_raises, Fail, ErrorCode, TypeOK, WorkersTyped
    <2>3. ASSUME NEW code \in ErrorCode,
                 entity'[w] = mark_failed(entity[w], code)
          PROVE  Held(mark_failed(entity[w], code))
        BY <1>3, <2>1, <2>3, EntityTypes, BackedFailed DEF Held
    <2>4. ASSUME entity'[w] = schedule_retry(entity[w])
          PROVE  Held(schedule_retry(entity[w]))
        BY <1>3, <2>1, <2>4, EntityTypes, BackedScheduled DEF Held
    <2>5. QED
        BY <1>2, <2>2, <2>3, <2>4
<1>10. CASE ack(w) \/ task_raises(w) \/ crash(w)
    BY <1>1, <1>10 DEF ack, task_raises, crash, Release, Goto, TypeOK,
       WorkersTyped
<1>11. ASSUME NEW v \in Workers, WorkerStep(v) \/ WorkerFault(v)
       PROVE  /\ subject(w)' \in stored'
              /\ Backed(entity'[w], Len(inbox'[subject(w)']))
    <2>1. CASE v # w
        BY <1>4, <1>11, <2>1, OneWorker
    <2>2. CASE v = w
        BY <1>5, <1>6, <1>7, <1>8, <1>9, <1>10, <1>11, <2>2
           DEF WorkerStep, WorkerFault
    <2>3. QED
        BY <2>1, <2>2
<1>12. ASSUME NEW r \in Requests, RequestStep(r) \/ RequestBegins(r)
       PROVE  /\ subject(w)' \in stored'
              /\ Backed(entity'[w], Len(inbox'[subject(w)']))
    BY <1>4, <1>12, OneRequest
<1>13. CASE activate_account \/ deactivate_account \/ UNCHANGED vars
    BY <1>4, <1>13 DEF activate_account, deactivate_account, vars, worker
<1>14. QED
    BY <1>11, <1>12, <1>13 DEF Next

\* A request's copy comes from a backed row, and is reset.
LEMMA RequestsBackedStep ==
    ASSUME TypeOK, BackedInv, [Next]_vars
    PROVE  RequestsBacked'
<1>1. SUFFICES ASSUME NEW r \in Requests, apc'[r] \in {"retrying", "retried"}
               PROVE  /\ target'[r] \in stored'
                      /\ Backed(copy'[r], Len(inbox'[target'[r]]))
                      /\ apc'[r] = "retried" =>
                             copy'[r].unified_status = "PENDING"
    BY DEF RequestsBacked, Accepted
<1>2. ASSUME apc[r] \in {"retrying", "retried"}, target'[r] = target[r],
             NEW x \in Delivery, copy'[r] = x,
             Backed(x, Accepted(target[r]))
      PROVE  /\ target'[r] \in stored'
             /\ Backed(copy'[r], Len(inbox'[target'[r]]))
    <2>1. target[r] \in stored /\ target[r] \in Deliveries
        BY <1>2 DEF BackedInv, RequestsBacked, TypeOK, TablesTyped
    <2>2. Backed(x, Accepted(target[r])')
        BY <1>2, <2>1, Grows, BackedMore
    <2>3. QED
        BY <1>2, <2>1, <2>2, Grows DEF Accepted
<1>3. /\ copy[r] \in Delivery
      /\ apc[r] \in {"retrying", "retried"} =>
             /\ Backed(copy[r], Accepted(target[r]))
             /\ target[r] \in Deliveries /\ Accepted(target[r]) \in Nat
      /\ apc[r] = "retried" => copy[r].unified_status = "PENDING"
    BY CopyTypes DEF BackedInv, RequestsBacked, TypeOK, RequestsTyped
<1>4. CASE apc'[r] = apc[r] /\ target'[r] = target[r] /\ copy'[r] = copy[r]
    BY <1>1, <1>2, <1>3, <1>4
<1>5. ASSUME NEW d \in Deliveries, retry_read(r, d)
      PROVE  /\ target'[r] \in stored'
             /\ Backed(copy'[r], Len(inbox'[target'[r]]))
             /\ apc'[r] = "retried" => copy'[r].unified_status = "PENDING"
    <2>1. /\ target'[r] = d /\ d \in stored /\ copy'[r] = delivery[d]
          /\ apc'[r] = "retrying" /\ UNCHANGED <<stored, inbox>>
        BY <1>5 DEF retry_read, TypeOK, RequestsTyped, tables
    <2>2. QED
        BY <2>1 DEF BackedInv, RowsBacked, Accepted
<1>6. CASE retry_update(r)
    <2>1. /\ apc[r] = "retrying" /\ target'[r] = target[r]
          /\ copy'[r] = force_pending(copy[r])
        BY <1>6 DEF retry_update, TypeOK, RequestsTyped
    <2>2. /\ force_pending(copy[r]) \in Delivery
          /\ Backed(force_pending(copy[r]), Accepted(target[r]))
          /\ force_pending(copy[r]).unified_status = "PENDING"
        BY <1>3, <2>1, EntityTypes, BackedReset
    <2>3. QED
        BY <1>2, <2>1, <2>2
<1>7. CASE \/ send_commit(r) \/ retry_commit(r) \/ replay_commit(r)
           \/ rollback(r)
    BY <1>1, <1>7 DEF send_commit, retry_commit, replay_commit, rollback,
       Finish, TypeOK, RequestsTyped
<1>8. ASSUME NEW d \in Deliveries,
             \/ send_document_endpoint(r, d)
             \/ \E i \in DOMAIN dlq[d] : replay_dlq_entry(r, d, i)
      PROVE  FALSE
    BY <1>1, <1>8 DEF send_document_endpoint, replay_dlq_entry, TypeOK,
       RequestsTyped
<1>9. ASSUME NEW q \in Requests, RequestStep(q) \/ RequestBegins(q)
      PROVE  /\ target'[r] \in stored'
             /\ Backed(copy'[r], Len(inbox'[target'[r]]))
             /\ apc'[r] = "retried" => copy'[r].unified_status = "PENDING"
    <2>1. CASE q # r
        BY <1>4, <1>9, <2>1, OneRequest
    <2>2. CASE q = r
        BY <1>5, <1>6, <1>7, <1>8, <1>9, <2>2 DEF RequestStep, RequestBegins
    <2>3. QED
        BY <2>1, <2>2
<1>10. ASSUME NEW w \in Workers, WorkerStep(w) \/ WorkerFault(w)
       PROVE  /\ target'[r] \in stored'
              /\ Backed(copy'[r], Len(inbox'[target'[r]]))
              /\ apc'[r] = "retried" => copy'[r].unified_status = "PENDING"
    BY <1>4, <1>10, OneWorker
<1>11. CASE activate_account \/ deactivate_account \/ UNCHANGED vars
    BY <1>4, <1>11 DEF activate_account, deactivate_account, vars, request
<1>12. QED
    BY <1>9, <1>10, <1>11 DEF Next

LEMMA BackedInvariant == Spec => []BackedInv
<1>1. Init => BackedInv
    <2> SUFFICES ASSUME Init PROVE BackedInv
        OBVIOUS
    <2>1. \A d \in Deliveries : delivery[d] = create /\ Accepted(d) = 0
        BY DEF Init, Accepted
    <2>2. RowsBacked
        BY <2>1, BackedCreate DEF RowsBacked
    <2>3. WorkersBacked /\ RequestsBacked
        BY DEF Init, WorkersBacked, RequestsBacked
    <2>4. QED
        BY <2>2, <2>3 DEF BackedInv
<1>2. TypeOK /\ BackedInv /\ [Next]_vars => BackedInv'
    BY RowsBackedStep, WorkersBackedStep, RequestsBackedStep DEF BackedInv
<1>3. QED
    BY <1>1, <1>2, TypeCorrect, PTL DEF Spec

\* No row ever shows an id that the provider has not issued for the delivery,
\* nor SENT before a 2xx answer, whatever stale copies are written over it.
THEOREM SentAccepted == Spec => []SentIsAccepted
<1>1. BackedInv => SentIsAccepted
    <2> SUFFICES ASSUME BackedInv, NEW d \in Deliveries
                 PROVE  /\ delivery[d].provider_document_id \in 0..Len(inbox[d])
                        /\ delivery[d].unified_status = "SENT" =>
                               inbox[d] # <<>>
        BY DEF SentIsAccepted
    <2>1. Backed(delivery[d], Len(inbox[d]))
        BY DEF BackedInv, RowsBacked, Accepted
    <2>2. inbox[d] = <<>> => Len(inbox[d]) = 0
        OBVIOUS
    <2>3. QED
        BY <2>1, <2>2 DEF Backed
<1>2. QED
    BY <1>1, BackedInvariant, PTL

-----------------------------------------------------------------------------
(* The refinement: what the contract's actions are about *)

Status == [d \in Deliveries |-> IF d \in stored THEN delivery[d].unified_status
                                ELSE "absent"]

AcceptedAll == [d \in Deliveries |-> Len(inbox[d])]

Open == {d \in Deliveries : HasTask(d)}

LEMMA ContractVars ==
    ASSUME UNCHANGED <<Status, AcceptedAll, Open>>
    PROVE  UNCHANGED Contract!vars
BY DEF Contract!vars, Status, AcceptedAll, Open

LEMMA ContractSubmit ==
    ASSUME NEW d \in Deliveries, UNCHANGED <<Status, AcceptedAll>>,
           Open' = Open \cup {d}
    PROVE  Contract!Submit(d)
BY DEF Contract!Submit, Status, AcceptedAll, Open

LEMMA ContractInsert ==
    ASSUME NEW d \in Deliveries, UNCHANGED <<AcceptedAll, Open>>,
           Status[d] = "absent", Status' = [Status EXCEPT ![d] = "PENDING"]
    PROVE  Contract!Insert(d)
BY DEF Contract!Insert, Status, AcceptedAll, Open

LEMMA ContractAccept ==
    ASSUME NEW d \in Deliveries, UNCHANGED <<Status, Open>>,
           d \in Open, Status[d] # "absent",
           AcceptedAll' = [AcceptedAll EXCEPT ![d] = @ + 1]
    PROVE  Contract!Accept(d)
BY DEF Contract!Accept, Status, AcceptedAll, Open

LEMMA ContractRecord ==
    ASSUME NEW d \in Deliveries, UNCHANGED <<AcceptedAll, Open>>,
           d \in Open, Status[d] # "absent",
           NEW s \in Outcomes, s = "SENT" => AcceptedAll[d] > 0,
           Status' = [Status EXCEPT ![d] = s]
    PROVE  Contract!Record(d)
BY DEF Contract!Record, Status, AcceptedAll, Open, Outcomes

LEMMA ContractReset ==
    ASSUME NEW d \in Deliveries, UNCHANGED <<AcceptedAll, Open>>,
           Status[d] # "absent", Status' = [Status EXCEPT ![d] = "PENDING"]
    PROVE  Contract!Reset(d)
BY DEF Contract!Reset, Status, AcceptedAll, Open

LEMMA ContractEnd ==
    ASSUME NEW d \in Deliveries, UNCHANGED <<Status, AcceptedAll>>,
           d \in Open, Open' = Open \ {d}
    PROVE  Contract!End(d)
BY DEF Contract!End, Status, AcceptedAll, Open

-----------------------------------------------------------------------------
(* The refinement: which deliveries have a task after a step *)

LEMMA SameTasks ==
    ASSUME UNCHANGED <<queue, job>>,
           \A w \in Workers : pc'[w] = "idle" <=> pc[w] = "idle"
    PROVE  Open' = Open
BY DEF Open, HasTask, subject

LEMMA TakenTask ==
    ASSUME TypeOK, NEW w \in Workers, NEW m \in Message, take(w, m)
    PROVE  Open' = Open
<1>1. /\ pc' = [pc EXCEPT ![w] = "loaded"] /\ job' = [job EXCEPT ![w] = m]
      /\ queue' = [queue EXCEPT ![m] = @ - 1] /\ queue[m] > 0
      /\ pc[w] = "idle" /\ queue[m] \in Nat
    BY DEF take, Goto, TypeOK, ServicesTyped
<1>2. ASSUME NEW d \in Deliveries
      PROVE  HasTask(d)' <=> HasTask(d)
    <2>1. CASE m.delivery = d
        <3>1. HasTask(d)
            BY <1>1, <2>1 DEF HasTask
        <3>2. HasTask(d)'
            BY <1>1, <2>1 DEF HasTask, subject, TypeOK, WorkersTyped
        <3>3. QED
            BY <3>1, <3>2
    <2>2. CASE m.delivery # d
        BY <1>1, <2>2 DEF HasTask, subject, TypeOK, WorkersTyped, ServicesTyped
    <2>3. QED
        BY <2>1, <2>2
<1>3. QED
    BY <1>2 DEF Open

LEMMA DroppedTask ==
    ASSUME TypeOK, NEW w \in Workers, NEW m \in Message, take_not_found(w, m)
    PROVE  /\ m.delivery \in Open
           /\ Open' = Open \/ Open' = Open \ {m.delivery}
<1>1. /\ UNCHANGED worker /\ queue' = [queue EXCEPT ![m] = @ - 1]
      /\ queue[m] > 0 /\ m.delivery \in Deliveries
    BY DEF take_not_found, Message
<1>2. ASSUME NEW d \in Deliveries, d # m.delivery
      PROVE  HasTask(d)' <=> HasTask(d)
    BY <1>1, <1>2 DEF HasTask, subject, worker, TypeOK, ServicesTyped
<1>3. HasTask(m.delivery)
    BY <1>1 DEF HasTask
<1>4. QED
    BY <1>1, <1>2, <1>3 DEF Open

LEMMA ReleasedTask ==
    ASSUME TypeOK, NEW w \in Workers, pc[w] # "idle", Release(w),
           UNCHANGED queue
    PROVE  /\ subject(w) \in Open
           /\ Open' = Open \/ Open' = Open \ {subject(w)}
<1>1. subject(w) \in Deliveries
    BY SubjectType DEF TypeOK
<1>2. ASSUME NEW d \in Deliveries, d # subject(w)
      PROVE  HasTask(d)' <=> HasTask(d)
    BY <1>2 DEF HasTask, subject, Release, Goto, TypeOK, WorkersTyped
<1>3. HasTask(subject(w))
    BY DEF HasTask
<1>4. QED
    BY <1>1, <1>2, <1>3 DEF Open

LEMMA RequeuedTask ==
    ASSUME TypeOK, NEW w \in Workers, crash(w)
    PROVE  Open' = Open
<1>1. /\ pc[w] # "idle" /\ Release(w)
      /\ queue' = [queue EXCEPT ![job[w]] = @ + 1]
      /\ job[w] \in Message /\ queue[job[w]] \in Nat
    BY SubjectType DEF crash, requeue, TypeOK, ServicesTyped
<1>2. ASSUME NEW d \in Deliveries
      PROVE  HasTask(d)' <=> HasTask(d)
    <2>1. CASE subject(w) = d
        <3>1. HasTask(d)
            BY <1>1, <2>1 DEF HasTask
        <3>2. HasTask(d)'
            BY <1>1, <2>1 DEF HasTask, subject, TypeOK, ServicesTyped
        <3>3. QED
            BY <3>1, <3>2
    <2>2. CASE subject(w) # d
        BY <1>1, <2>2 DEF HasTask, subject, Release, Goto, TypeOK,
           WorkersTyped, ServicesTyped
    <2>3. QED
        BY <2>1, <2>2
<1>3. QED
    BY <1>2 DEF Open

LEMMA EnqueuedTask ==
    ASSUME TypeOK, NEW d \in Deliveries, NEW bytes \in {"file", "empty"},
           apply_async(d, bytes), UNCHANGED worker
    PROVE  Open' = Open \cup {d}
<1> DEFINE m == [delivery |-> d, bytes |-> bytes]
<1>1. m \in Message /\ m.delivery = d
    BY DEF Message
<1>2. queue' = [queue EXCEPT ![m] = @ + 1] /\ queue[m] \in Nat
    BY <1>1 DEF apply_async, TypeOK, ServicesTyped
<1> HIDE DEF m
<1>3. ASSUME NEW e \in Deliveries, e # d
      PROVE  HasTask(e)' <=> HasTask(e)
    BY <1>1, <1>2, <1>3 DEF HasTask, subject, worker, TypeOK, ServicesTyped
<1>4. HasTask(d)'
    BY <1>1, <1>2 DEF HasTask, TypeOK, ServicesTyped
<1>5. QED
    BY <1>3, <1>4 DEF Open

-----------------------------------------------------------------------------
(* The refinement: every step is one of the contract, or none *)

LEMMA WorkerRefines ==
    ASSUME TypeOK, BackedInv, BackedInv', NEW w \in Workers,
           WorkerStep(w) \/ WorkerFault(w)
    PROVE  [Contract!Next]_(Contract!vars)
<1>1. ASSUME NEW m \in Message, take(w, m)
      PROVE  [Contract!Next]_(Contract!vars)
    <2>1. UNCHANGED <<Status, AcceptedAll, Open>>
        BY <1>1, TakenTask DEF take, tables, Status, AcceptedAll
    <2>2. QED
        BY <2>1, ContractVars
<1>2. ASSUME NEW m \in Message, take_not_found(w, m)
      PROVE  [Contract!Next]_(Contract!vars)
    <2>1. UNCHANGED <<Status, AcceptedAll>> /\ m.delivery \in Deliveries
        BY <1>2 DEF take_not_found, tables, Status, AcceptedAll, Message
    <2>2. CASE Open' = Open
        BY <2>1, <2>2, ContractVars
    <2>3. CASE Open' = Open \ {m.delivery}
        BY <1>2, <2>1, <2>3, DroppedTask, ContractEnd DEF Contract!Next
    <2>4. QED
        BY <1>2, <2>2, <2>3, DroppedTask
<1>3. CASE ack(w) \/ task_raises(w)
    <2>1. /\ UNCHANGED <<Status, AcceptedAll>> /\ pc[w] # "idle"
          /\ Release(w) /\ UNCHANGED queue
        BY <1>3 DEF ack, task_raises, tables, Status, AcceptedAll
    <2>2. subject(w) \in Deliveries
        BY <2>1, SubjectType DEF TypeOK
    <2>3. CASE Open' = Open
        BY <2>1, <2>3, ContractVars
    <2>4. CASE Open' = Open \ {subject(w)}
        BY <2>1, <2>2, <2>4, ReleasedTask, ContractEnd DEF Contract!Next
    <2>5. QED
        BY <2>1, <2>3, <2>4, ReleasedTask
<1>4. CASE crash(w)
    <2>1. UNCHANGED <<Status, AcceptedAll, Open>>
        BY <1>4, RequeuedTask DEF crash, tables, Status, AcceptedAll
    <2>2. QED
        BY <2>1, ContractVars
\* The other steps are those of a task, which is open.
<1>5. ASSUME pc[w] # "idle"
      PROVE  /\ subject(w) \in Deliveries /\ subject(w) \in Open
             /\ Status[subject(w)] # "absent"
             /\ Status[subject(w)] = delivery[subject(w)].unified_status
    <2>1. subject(w) \in Deliveries /\ subject(w) \in stored
        BY <1>5, SubjectType DEF TypeOK, BackedInv, WorkersBacked
    <2>2. HasTask(subject(w))
        BY <1>5 DEF HasTask
    <2>3. delivery[subject(w)].unified_status \in Outcomes
        BY <2>1 DEF BackedInv, RowsBacked, Backed
    <2>4. QED
        BY <2>1, <2>2, <2>3 DEF Open, Status, Outcomes
<1>6. ASSUME pc[w] # "idle", NEW to \in WorkerLocation \ {"idle"},
             Goto(w, to), UNCHANGED <<queue, job>>
      PROVE  Open' = Open
    BY <1>6, SameTasks DEF Goto, TypeOK, WorkersTyped
<1>7. CASE \/ load_account(w) \/ circuit_admits(w) \/ circuit_refuses(w)
           \/ provider_refuses(w) \/ provider_busy(w)
           \/ record_failure_raises(w) \/ record_success(w)
           \/ record_success_raises(w)
    <2>1. UNCHANGED <<Status, AcceptedAll>>
        BY <1>7 DEF load_account, circuit_admits, circuit_refuses,
           provider_refuses, provider_busy, record_failure_raises,
           record_success, record_success_raises, tables, Status, AcceptedAll
    <2>2. /\ pc[w] # "idle" /\ UNCHANGED <<queue, job>>
          /\ \E to \in WorkerLocation \ {"idle"} : Goto(w, to)
        BY <1>7 DEF load_account, circuit_admits, circuit_refuses,
           provider_refuses, provider_busy, record_failure_raises,
           record_success, record_success_raises, Fail, WorkerLocation
    <2>3. Open' = Open
        BY <1>6, <2>2
    <2>4. QED
        BY <2>1, <2>3, ContractVars
<1>8. CASE provider_accepts(w) \/ provider_answer_lost(w)
    <2>1. /\ UNCHANGED Status /\ pc[w] # "idle" /\ UNCHANGED <<queue, job>>
          /\ \E to \in WorkerLocation \ {"idle"} : Goto(w, to)
          /\ inbox' = [inbox EXCEPT ![subject(w)] = Append(@, job[w].bytes)]
        BY <1>8 DEF provider_accepts, provider_answer_lost, Accept, Fail,
           tables, Status, WorkerLocation
    <2>2. Open' = Open
        BY <1>6, <2>1
    <2>3. PICK d \in Deliveries : d = subject(w)
        BY <1>5, <2>1
    <2>4. job[w].bytes \in {"file", "empty"}
        BY <2>1, SubjectType DEF TypeOK, Message
    <2>5. Len(Append(inbox[d], job[w].bytes)) = Len(inbox[d]) + 1
        BY <2>4 DEF TypeOK, ServicesTyped
    <2>6. AcceptedAll' = [AcceptedAll EXCEPT ![d] = @ + 1]
        BY <2>1, <2>3, <2>5 DEF AcceptedAll, TypeOK, ServicesTyped
    <2>7. Contract!Accept(d)
        BY <1>5, <2>1, <2>2, <2>3, <2>6, ContractAccept
    <2>8. QED
        BY <2>7 DEF Contract!Next
<1>9. CASE \/ fail_inactive(w) \/ postpone(w) \/ start_sending(w) \/ close(w)
    <2>1. /\ pc[w] # "idle" /\ UNCHANGED <<queue, job, stored, inbox>>
          /\ \E to \in WorkerLocation \ {"idle"} : Goto(w, to)
          /\ \E row : update(subject(w), row)
        BY <1>9 DEF fail_inactive, postpone, start_sending, close,
           WorkerLocation
    <2>2. Open' = Open /\ UNCHANGED AcceptedAll
        BY <1>6, <2>1 DEF AcceptedAll
    <2>3. PICK d \in Deliveries : d = subject(w)
        BY <1>5, <2>1
    <2>4. d \in stored
        BY <2>1, <2>3 DEF BackedInv, WorkersBacked
    <2>5. Backed(delivery'[d], Accepted(d))
        BY <2>1 DEF BackedInv, RowsBacked, Accepted
    <2>6. PICK s \in Outcomes : s = delivery'[d].unified_status
        BY <2>5 DEF Backed
    <2>7. Status' = [Status EXCEPT ![d] = s]
        BY <2>1, <2>3, <2>4, <2>6 DEF update, Status, TypeOK, TablesTyped
    <2>8. s = "SENT" => AcceptedAll[d] > 0
        <3>1. Accepted(d) \in Nat
            BY CopyTypes
        <3>2. AcceptedAll[d] = Accepted(d)
            BY DEF AcceptedAll, Accepted
        <3>3. QED
            BY <2>5, <2>6, <3>1, <3>2 DEF Backed
    <2>9. Contract!Record(d)
        BY <1>5, <2>1, <2>2, <2>3, <2>7, <2>8, ContractRecord
    <2>10. QED
        BY <2>9 DEF Contract!Next
<1>10. QED
    BY <1>1, <1>2, <1>3, <1>4, <1>7, <1>8, <1>9 DEF WorkerStep, WorkerFault

LEMMA RequestRefines ==
    ASSUME TypeOK, BackedInv, SendCovered, NEW r \in Requests,
           RequestStep(r) \/ RequestBegins(r)
    PROVE  [Contract!Next]_(Contract!vars)
<1>1. ASSUME UNCHANGED worker, UNCHANGED queue
      PROVE  Open' = Open
    BY <1>1, SameTasks DEF worker
<1>2. CASE replay_commit(r) \/ rollback(r)
    <2>1. UNCHANGED <<Status, AcceptedAll, Open>>
        BY <1>1, <1>2 DEF replay_commit, rollback, tables, Status, AcceptedAll
    <2>2. QED
        BY <2>1, ContractVars
<1>3. ASSUME NEW d \in Deliveries, retry_read(r, d)
      PROVE  [Contract!Next]_(Contract!vars)
    <2>1. UNCHANGED <<Status, AcceptedAll, Open>>
        BY <1>1, <1>3 DEF retry_read, tables, Status, AcceptedAll
    <2>2. QED
        BY <2>1, ContractVars
<1>4. ASSUME NEW d \in Deliveries, NEW bytes \in {"file", "empty"},
             apply_async(d, bytes), UNCHANGED <<tables, inbox, worker>>
      PROVE  [Contract!Next]_(Contract!vars)
    <2>1. UNCHANGED <<Status, AcceptedAll>>
        BY <1>4 DEF tables, Status, AcceptedAll
    <2>2. Contract!Submit(d)
        BY <1>4, <2>1, EnqueuedTask, ContractSubmit
    <2>3. QED
        BY <2>2 DEF Contract!Next
<1>5. CASE retry_update(r)
    <2>1. target[r] \in Deliveries
        BY <1>5 DEF retry_update, TypeOK, RequestsTyped
    <2>2. QED
        BY <1>4, <1>5, <2>1 DEF retry_update
<1>6. CASE send_commit(r)
    <2>1. PICK d \in Deliveries : d = target[r] /\ d \notin stored
        BY <1>6 DEF send_commit, TypeOK, RequestsTyped, SendCovered
    <2>2. /\ stored' = stored \cup {d}
          /\ delivery' = [delivery EXCEPT ![d] = create]
          /\ UNCHANGED <<inbox, queue, worker>>
        BY <1>6, <2>1 DEF send_commit
    <2>3. UNCHANGED <<AcceptedAll, Open>>
        BY <1>1, <2>2 DEF AcceptedAll
    <2>4. create.unified_status = "PENDING"
        BY DEF create
    <2>5. /\ Status[d] = "absent"
          /\ Status' = [Status EXCEPT ![d] = "PENDING"]
        BY <2>1, <2>2, <2>4 DEF Status, TypeOK, TablesTyped
    <2>6. Contract!Insert(d)
        BY <2>3, <2>5, ContractInsert
    <2>7. QED
        BY <2>6 DEF Contract!Next
<1>7. CASE retry_commit(r)
    <2>1. PICK d \in Deliveries : d = target[r] /\ d \in stored
        BY <1>7 DEF retry_commit, TypeOK, TablesTyped, RequestsTyped, BackedInv,
           RequestsBacked
    <2>2. /\ delivery' = [delivery EXCEPT ![d] = copy[r]]
          /\ copy[r].unified_status = "PENDING"
          /\ UNCHANGED <<stored, inbox, queue, worker>>
        BY <1>7, <2>1 DEF retry_commit, BackedInv, RequestsBacked
    <2>3. UNCHANGED <<AcceptedAll, Open>>
        BY <1>1, <2>2 DEF AcceptedAll
    <2>4. delivery[d].unified_status \in Outcomes
        BY DEF BackedInv, RowsBacked, Backed
    <2>5. /\ Status[d] # "absent"
          /\ Status' = [Status EXCEPT ![d] = "PENDING"]
        BY <2>1, <2>2, <2>4 DEF Status, TypeOK, TablesTyped, Outcomes
    <2>6. Contract!Reset(d)
        BY <2>3, <2>5, ContractReset
    <2>7. QED
        BY <2>6 DEF Contract!Next
<1>8. ASSUME NEW d \in Deliveries,
             \/ send_document_endpoint(r, d)
             \/ \E i \in DOMAIN dlq[d] : replay_dlq_entry(r, d, i)
      PROVE  [Contract!Next]_(Contract!vars)
    BY <1>4, <1>8 DEF send_document_endpoint, replay_dlq_entry
<1>9. QED
    BY <1>2, <1>3, <1>5, <1>6, <1>7, <1>8 DEF RequestStep, RequestBegins

\* For any number of deliveries, workers and requests, any retry budget and any
\* kills and faults, the pipeline does nothing that its contract does not: only
\* a task of a stored delivery sends it or moves its row on, and to SENT only
\* what the provider has accepted.
THEOREM Implements == Spec => ImplementsContract
<1>1. Init => Contract!Init
    <2> SUFFICES ASSUME Init PROVE Contract!Init
        OBVIOUS
    <2>1. \A d \in Deliveries : ~HasTask(d)
        BY DEF Init, HasTask
    <2>2. QED
        BY <2>1 DEF Init, Contract!Init
<1>2. TypeOK /\ BackedInv /\ BackedInv' /\ LossInv /\ [Next]_vars
          => [Contract!Next]_(Contract!vars)
    <2> SUFFICES ASSUME TypeOK, BackedInv, BackedInv', LossInv, [Next]_vars
                 PROVE  [Contract!Next]_(Contract!vars)
        OBVIOUS
    <2>1. CASE activate_account \/ deactivate_account \/ UNCHANGED vars
        <3>1. UNCHANGED <<stored, delivery, inbox, queue, worker>>
            BY <2>1 DEF activate_account, deactivate_account, vars, tables
        <3>2. UNCHANGED <<Status, AcceptedAll, Open>>
            BY <3>1, SameTasks DEF Status, AcceptedAll, worker
        <3>3. QED
            BY <3>2, ContractVars
    <2>2. ASSUME NEW w \in Workers, WorkerStep(w) \/ WorkerFault(w)
          PROVE  [Contract!Next]_(Contract!vars)
        BY <2>2, WorkerRefines
    <2>3. ASSUME NEW r \in Requests, RequestStep(r) \/ RequestBegins(r)
          PROVE  [Contract!Next]_(Contract!vars)
        BY <2>3, RequestRefines DEF LossInv
    <2>4. QED
        BY <2>1, <2>2, <2>3 DEF Next
<1>3. QED
    BY <1>1, <1>2, TypeCorrect, BackedInvariant, LossInvariant, PTL
       DEF Spec, ImplementsContract, Contract!Spec

\* A delivery the database does not hold has not been accepted: of the contract,
\* and so of the pipeline.
UnstoredIsUnsent == \A d \in Deliveries : Status[d] = "absent" => AcceptedAll[d] = 0

LEMMA ContractKeepsUnsent ==
    ASSUME UnstoredIsUnsent, [Contract!Next]_(Contract!vars)
    PROVE  UnstoredIsUnsent'
<1>1. ASSUME NEW d \in Deliveries,
             Contract!Submit(d) \/ Contract!End(d) \/ UNCHANGED Contract!vars
      PROVE  UNCHANGED <<Status, AcceptedAll>>
    BY <1>1 DEF Contract!Submit, Contract!End, Contract!vars, Status, AcceptedAll
<1>2. ASSUME NEW d \in Deliveries,
             Contract!Insert(d) \/ Contract!Record(d) \/ Contract!Reset(d)
      PROVE  /\ AcceptedAll' = AcceptedAll
             /\ \E s \in {"PENDING", "SENDING", "SENT", "FAILED"} :
                    Status' = [Status EXCEPT ![d] = s]
    BY <1>2 DEF Contract!Insert, Contract!Record, Contract!Reset, Status,
       AcceptedAll
<1>3. ASSUME NEW d \in Deliveries, Contract!Accept(d)
      PROVE  /\ Status' = Status /\ Status[d] # "absent"
             /\ AcceptedAll' = [AcceptedAll EXCEPT ![d] = @ + 1]
    BY <1>3 DEF Contract!Accept, Status, AcceptedAll
<1>4. DOMAIN Status = Deliveries /\ DOMAIN AcceptedAll = Deliveries
    BY DEF Status, AcceptedAll
<1>5. CASE UNCHANGED Contract!vars
    <2>1. UNCHANGED <<Status, AcceptedAll>>
        BY <1>5 DEF Contract!vars, Status, AcceptedAll
    <2>2. QED
        BY <2>1 DEF UnstoredIsUnsent
<1>6. ASSUME NEW d \in Deliveries,
             \/ Contract!Submit(d) \/ Contract!Insert(d) \/ Contract!Accept(d)
             \/ Contract!Record(d) \/ Contract!Reset(d) \/ Contract!End(d)
      PROVE  UnstoredIsUnsent'
    BY <1>1, <1>2, <1>3, <1>4, <1>6 DEF UnstoredIsUnsent
<1>7. QED
    BY <1>5, <1>6 DEF Contract!Next

AcceptedIsStored == \A d \in Deliveries : inbox[d] # <<>> => d \in stored

\* What the provider has accepted is in the database, although messages leave
\* before their commit and requests are rolled back: a consequence of the
\* contract, through the refinement.
THEOREM NothingSentUnsaved == Spec => []AcceptedIsStored
<1>1. Contract!Init => UnstoredIsUnsent
    BY DEF Contract!Init, UnstoredIsUnsent, Status, AcceptedAll
<1>2. UnstoredIsUnsent /\ [Contract!Next]_(Contract!vars) => UnstoredIsUnsent'
    BY ContractKeepsUnsent
<1>3. TypeOK /\ UnstoredIsUnsent => AcceptedIsStored
    <2> SUFFICES ASSUME TypeOK, UnstoredIsUnsent, NEW d \in Deliveries,
                        d \notin stored
                 PROVE  inbox[d] = <<>>
        BY DEF AcceptedIsStored
    <2>1. Len(inbox[d]) = 0
        BY DEF UnstoredIsUnsent, Status, AcceptedAll
    <2>2. inbox[d] \in Seq({"file", "empty"})
        BY DEF TypeOK, ServicesTyped
    <2>3. QED
        BY <2>1, <2>2
<1>4. QED
    BY <1>1, <1>2, <1>3, TypeCorrect, Implements, PTL
       DEF ImplementsContract, Contract!Spec

-----------------------------------------------------------------------------
(* SENDING is a passing state *)

SendingHasTask ==
    \A d \in stored :
        delivery[d].unified_status = "SENDING" => OpenTask(d) \/ d \in raised

\* Of those that write a row, only the commit before the call leaves it SENDING
\* with its task under way; the finally clause does so by an exception.
LEMMA SendingStep ==
    ASSUME TypeOK, BackedInv, SendingHasTask, [Next]_vars
    PROVE  SendingHasTask'
<1> SUFFICES ASSUME NEW d \in Deliveries, d \in stored',
                    delivery'[d].unified_status = "SENDING"
             PROVE  OpenTask(d)' \/ d \in raised'
    BY TypeStep DEF SendingHasTask, TypeOK, TablesTyped
<1>1. d \in raised => d \in raised'
    BY TracesStay
<1>2. ASSUME NEW w \in Workers, WorkerWrites(w, d)
      PROVE  d \in raised'
    <2> USE <1>2 DEF WorkerWrites, update, TypeOK, TablesTyped, WorkersTyped
    <2>1. ASSUME fail_inactive(w)
          PROVE  FALSE
        <3> DEFINE row == mark_failed(entity[w], "PROVIDER_ACCOUNT_INACTIVE")
        <3>1. delivery'[d] = row
            BY <2>1 DEF fail_inactive
        <3>2. row.unified_status = "FAILED"
            BY DEF mark_failed, Delivery
        <3>3. QED
            BY <3>1, <3>2
    <2>2. ASSUME postpone(w)
          PROVE  FALSE
        <3> DEFINE failed == mark_failed(entity[w], "CIRCUIT_OPEN")
        <3>1. delivery'[d] = schedule_retry(failed)
            BY <2>2 DEF postpone
        <3>2. failed \in Delivery
            BY EntityTypes DEF ErrorCode
        <3>3. schedule_retry(failed).unified_status = "PENDING"
            BY <3>2 DEF schedule_retry, Delivery
        <3>4. QED
            BY <3>1, <3>3
    <2>3. ASSUME close(w)
          PROVE  d \in raised'
        <3>1. delivery'[d] = entity[w]
            BY <2>3 DEF close
        <3>2. QED
            BY <2>3, <3>1 DEF close
    <2>4. QED
        BY <2>1, <2>2, <2>3
<1>3. ASSUME NEW w \in Workers, Starts(w, d)
      PROVE  OpenTask(d)'
    BY <1>3 DEF Starts, start_sending, Goto, OpenTask, Working, subject,
       TypeOK, WorkersTyped
<1>4. ASSUME NEW r \in Requests, RequestWrites(r, d)
      PROVE  FALSE
    <2>1. CASE send_commit(r)
        <3>1. delivery'[d] = create
            BY <1>4, <2>1 DEF send_commit, RequestWrites, TypeOK, TablesTyped
        <3>2. QED
            BY <3>1 DEF create
    <2>2. CASE retry_commit(r)
        <3>1. delivery'[d] = copy[r] /\ apc[r] = "retried"
            BY <1>4, <2>2 DEF retry_commit, RequestWrites, TypeOK, TablesTyped
        <3>2. QED
            BY <3>1 DEF BackedInv, RequestsBacked
    <2>3. QED
        BY <1>4, <2>1, <2>2 DEF RequestWrites
<1>5. CASE /\ \A w \in Workers : ~WorkerWrites(w, d) /\ ~Starts(w, d)
           /\ \A r \in Requests : ~RequestWrites(r, d)
    <2>1. delivery'[d] = delivery[d] /\ d \in stored
        BY <1>5, RowKept
    <2>2. OpenTask(d) \/ d \in raised
        BY <2>1 DEF SendingHasTask
    <2>3. ASSUME OpenTask(d)
          PROVE  OpenTask(d)' \/ d \in raised'
        BY <1>5, <2>1, <2>3, OpenTaskKept DEF WorkerWrites
    <2>4. QED
        BY <1>1, <2>2, <2>3
<1>6. QED
    BY <1>2, <1>3, <1>4, <1>5

\* A row that says SENDING has a task that will commit, or one of its tasks was
\* seen to end by an exception, however workers are killed and whoever writes
\* the row over: the safety core of SendingSettles.
THEOREM SendingHeld == Spec => []SendingHasTask
<1>1. Init => SendingHasTask
    BY DEF Init, SendingHasTask
<1>2. TypeOK /\ BackedInv /\ SendingHasTask /\ [Next]_vars => SendingHasTask'
    BY SendingStep
<1>3. QED
    BY <1>1, <1>2, TypeCorrect, BackedInvariant, PTL DEF Spec

-----------------------------------------------------------------------------
(* The dead-letter queue and the audit trail only grow *)

\* One step adds the row of the task that commits, or marks one replayed.
LEMMA DlqStep ==
    ASSUME TypeOK, [Next]_vars, NEW d \in Deliveries
    PROVE  \/ dlq'[d] = dlq[d]
           \/ \E w \in Workers :
                  /\ close(w) /\ subject(w) = d /\ entry[w] # Nil
                  /\ dlq'[d] = Append(dlq[d], entry[w])
           \/ \E i \in DOMAIN dlq[d] :
                  dlq'[d] = [dlq[d] EXCEPT ![i] = mark_replayed(dlq[d][i])]
<1> USE DEF TypeOK, TablesTyped
<1>1. ASSUME NEW w \in Workers, close(w)
      PROVE  \/ dlq'[d] = dlq[d]
             \/ /\ subject(w) = d /\ entry[w] # Nil
                /\ dlq'[d] = Append(dlq[d], entry[w])
    <2>1. dlq' = IF entry[w] = Nil THEN dlq
                 ELSE [dlq EXCEPT ![subject(w)] = Append(@, entry[w])]
        BY <1>1 DEF close
    <2>2. QED
        BY <2>1
<1>2. ASSUME NEW r \in Requests, replay_commit(r)
      PROVE  \/ dlq'[d] = dlq[d]
             \/ \E i \in DOMAIN dlq[d] :
                    dlq'[d] = [dlq[d] EXCEPT ![i] = mark_replayed(dlq[d][i])]
    <2> DEFINE e == target[r]
               i == index[r]
    <2>1. /\ dlq' = [dlq EXCEPT ![e] =
                         [dlq[e] EXCEPT ![i] = mark_replayed(dlq[e][i])]]
          /\ e \in Deliveries /\ i \in DOMAIN dlq[e]
        BY <1>2 DEF replay_commit, RequestsTyped
    <2>2. CASE e # d
        BY <2>1, <2>2
    <2>3. CASE e = d
        BY <2>1, <2>3
    <2>4. QED
        BY <2>2, <2>3
<1>3. ASSUME ~ \E w \in Workers : close(w), ~ \E r \in Requests : replay_commit(r)
      PROVE  UNCHANGED dlq
    BY <1>3 DEF Next, WorkerStep, WorkerFault, RequestStep, RequestBegins,
       take_not_found, take, load_account, fail_inactive, circuit_admits,
       circuit_refuses, postpone, start_sending, provider_accepts,
       provider_answer_lost, provider_refuses, provider_busy,
       record_failure_raises, record_success, record_success_raises, ack,
       task_raises, crash, send_document_endpoint, send_commit, retry_read,
       retry_update, retry_commit, replay_dlq_entry, rollback,
       activate_account, deactivate_account, tables, vars
<1>4. QED
    BY <1>1, <1>2, <1>3

LEMMA AuditGrows ==
    ASSUME TypeOK, [Next]_vars, NEW d \in Deliveries
    PROVE  audit[d] \subseteq audit'[d]
<1> USE DEF TypeOK, TablesTyped
<1>1. ASSUME NEW w \in Workers, close(w)
      PROVE  audit[d] \subseteq audit'[d]
    <2>1. audit' = [audit EXCEPT ![subject(w)] =
                        @ \cup {entity[w].unified_status}]
        BY <1>1 DEF close
    <2>2. QED
        BY <2>1
<1>2. ASSUME ~ \E w \in Workers : close(w)
      PROVE  UNCHANGED audit
    BY <1>2 DEF Next, WorkerStep, WorkerFault, RequestStep, RequestBegins,
       take_not_found, take, load_account, fail_inactive, circuit_admits,
       circuit_refuses, postpone, start_sending, provider_accepts,
       provider_answer_lost, provider_refuses, provider_busy,
       record_failure_raises, record_success, record_success_raises, ack,
       task_raises, crash, send_document_endpoint, send_commit, retry_read,
       retry_update, retry_commit, replay_dlq_entry, replay_commit, rollback,
       activate_account, deactivate_account, tables, vars
<1>3. QED
    BY <1>1, <1>2

\* The DLQ has a row with this reason.
Logged(d, code) == \E i \in DOMAIN dlq[d] : dlq[d][i].reason_code = code

LEMMA LoggedKept ==
    ASSUME TypeOK, [Next]_vars, NEW d \in Deliveries, NEW code, Logged(d, code)
    PROVE  Logged(d, code)'
<1>1. dlq[d] \in Seq(DlqEntry)
    BY DEF TypeOK, TablesTyped
<1>2. PICK i \in DOMAIN dlq[d] : dlq[d][i].reason_code = code
    BY DEF Logged
<1>3. i \in 1..Len(dlq[d]) /\ dlq[d][i] \in DlqEntry
    BY <1>1, <1>2
<1>4. CASE dlq'[d] = dlq[d]
    BY <1>2, <1>4 DEF Logged
<1>5. ASSUME NEW w \in Workers, dlq'[d] = Append(dlq[d], entry[w]),
             entry[w] # Nil
      PROVE  Logged(d, code)'
    <2>1. entry[w] \in DlqEntry
        BY <1>5 DEF TypeOK, WorkersTyped
    <2>2. i \in DOMAIN dlq'[d] /\ dlq'[d][i] = dlq[d][i]
        BY <1>1, <1>3, <1>5, <2>1
    <2>3. QED
        BY <1>2, <2>2 DEF Logged
<1>6. ASSUME NEW j \in DOMAIN dlq[d],
             dlq'[d] = [dlq[d] EXCEPT ![j] = mark_replayed(dlq[d][j])]
      PROVE  Logged(d, code)'
    <2>1. mark_replayed(dlq[d][i]).reason_code = dlq[d][i].reason_code
        BY <1>3 DEF mark_replayed, DlqEntry
    <2>2. i \in DOMAIN dlq'[d] /\ dlq'[d][i].reason_code = dlq[d][i].reason_code
        BY <1>1, <1>2, <1>6, <2>1
    <2>3. QED
        BY <1>2, <2>2 DEF Logged
<1>7. QED
    BY <1>4, <1>5, <1>6, DlqStep

-----------------------------------------------------------------------------
(* Outcomes *)

RowsRecorded ==
    \A d \in Deliveries :
        LET row == delivery[d] IN
        /\ row.unified_status = "SENT" => "SENT" \in audit[d]
        /\ /\ row.unified_status = "FAILED"
           /\ row.last_error_code # "PROVIDER_ACCOUNT_INACTIVE"
           => "FAILED" \in audit[d] /\ Logged(d, row.last_error_code)

\* A worker that is about to commit a failure has its DLQ row.
EntriesReady ==
    \A w \in Workers :
        pc[w] = "closing" /\ entity[w].unified_status = "FAILED" =>
            /\ entry[w] # Nil
            /\ entry[w].reason_code = entity[w].last_error_code

\* What an except clause leaves for the finally clause to commit.
LEMMA FailReady ==
    ASSUME TypeOK, NEW w \in Workers,
           NEW code \in ErrorCode, NEW retryable \in BOOLEAN,
           Fail(w, code, retryable)
    PROVE  /\ entry'[w] # Nil /\ entry'[w].reason_code = code
           /\ entry'[w].retryable = retryable
           /\ entity'[w] = mark_failed(entity[w], code)
           /\ pc'[w] = "closing"
<1> DEFINE e == [reason_code |-> code, retryable |-> retryable,
                 replayed |-> FALSE]
<1>1. e \in DlqEntry /\ e.reason_code = code /\ e.retryable = retryable
    BY Zenon DEF DlqEntry
<1>2. entry'[w] = e
    BY DEF Fail, write_dlq, TypeOK, WorkersTyped
<1>3. /\ entity'[w] = mark_failed(entity[w], code) /\ pc'[w] = "closing"
    BY DEF Fail, Goto, TypeOK, WorkersTyped
<1> HIDE DEF e
<1>4. QED
    BY <1>1, <1>2, <1>3, NilAssumption

LEMMA EntriesReadyStep ==
    ASSUME TypeOK, OutcomeDecided, EntriesReady, [Next]_vars
    PROVE  EntriesReady'
<1>1. SUFFICES ASSUME NEW w \in Workers, pc'[w] = "closing",
                      entity'[w].unified_status = "FAILED"
               PROVE  /\ entry'[w] # Nil
                      /\ entry'[w].reason_code = entity'[w].last_error_code
    BY DEF EntriesReady
<1> USE DEF TypeOK, WorkersTyped
<1>2. entity[w] \in Delivery
    OBVIOUS
<1>3. CASE pc'[w] = pc[w] /\ entity'[w] = entity[w] /\ entry'[w] = entry[w]
    BY <1>1, <1>3 DEF EntriesReady
<1>4. ASSUME NEW code \in ErrorCode, NEW retryable \in BOOLEAN,
             Fail(w, code, retryable)
      PROVE  /\ entry'[w] # Nil
             /\ entry'[w].reason_code = entity'[w].last_error_code
    BY <1>2, <1>4, FailReady, FailedFields
<1>5. /\ "UNKNOWN_ERROR" \in ErrorCode /\ "PERMANENT" \in ErrorCode
      /\ "TRANSIENT" \in ErrorCode
    BY DEF ErrorCode
<1>6. CASE provider_answer_lost(w) \/ record_success_raises(w)
    BY <1>4, <1>5, <1>6 DEF provider_answer_lost, record_success_raises
<1>7. CASE provider_refuses(w)
    BY <1>4, <1>5, <1>7 DEF provider_refuses
<1>8. CASE provider_busy(w)
    <2>1. CASE should_retry(entity[w].retry_count)
        <3>1. entity'[w] = schedule_retry(entity[w])
            BY <1>8, <2>1 DEF provider_busy
        <3>2. QED
            BY <1>1, <1>2, <3>1, ScheduledFields
    <2>2. CASE ~should_retry(entity[w].retry_count)
        BY <1>4, <1>5, <1>8, <2>2 DEF provider_busy
    <2>3. QED
        BY <2>1, <2>2
\* Every other step of w leads elsewhere, or with the delivery not FAILED.
<1>9. ASSUME NEW m \in Message, take_not_found(w, m) \/ take(w, m)
      PROVE  FALSE
    BY <1>1, <1>3, <1>9 DEF take_not_found, take, Goto, worker
<1>10. CASE \/ load_account(w) \/ fail_inactive(w) \/ circuit_admits(w)
            \/ circuit_refuses(w) \/ postpone(w) \/ start_sending(w)
            \/ provider_accepts(w) \/ close(w)
    BY <1>1, <1>10 DEF load_account, fail_inactive, circuit_admits,
       circuit_refuses, postpone, start_sending, provider_accepts, close, Goto
<1>11. CASE record_failure_raises(w) \/ record_success(w)
    BY <1>1, <1>11 DEF record_failure_raises, record_success, OutcomeDecided
<1>12. CASE ack(w) \/ task_raises(w) \/ crash(w)
    BY <1>1, <1>12 DEF ack, task_raises, crash, Release, Goto
<1>13. ASSUME NEW v \in Workers, v # w, WorkerStep(v) \/ WorkerFault(v)
       PROVE  pc'[w] = pc[w] /\ entity'[w] = entity[w] /\ entry'[w] = entry[w]
    BY <1>13, OneWorker
<1>14. ASSUME NEW r \in Requests, RequestStep(r) \/ RequestBegins(r)
       PROVE  pc'[w] = pc[w] /\ entity'[w] = entity[w] /\ entry'[w] = entry[w]
    BY <1>14, OneRequest
<1>15. CASE activate_account \/ deactivate_account \/ UNCHANGED vars
    BY <1>3, <1>15 DEF activate_account, deactivate_account, vars, worker
<1>16. CASE WorkerStep(w) \/ WorkerFault(w)
    BY <1>6, <1>7, <1>8, <1>9, <1>10, <1>11, <1>12, <1>16
       DEF WorkerStep, WorkerFault
<1>17. QED
    BY <1>3, <1>13, <1>14, <1>15, <1>16 DEF Next

\* A row that a task writes has its records in the same commit; one that a
\* request writes is PENDING.
LEMMA RowsRecordedStep ==
    ASSUME TypeOK, BackedInv, EntriesReady, RowsRecorded, [Next]_vars
    PROVE  RowsRecorded'
<1>1. SUFFICES ASSUME NEW d \in Deliveries
               PROVE  LET row == delivery'[d] IN
                      /\ row.unified_status = "SENT" => "SENT" \in audit'[d]
                      /\ /\ row.unified_status = "FAILED"
                         /\ row.last_error_code # "PROVIDER_ACCOUNT_INACTIVE"
                         => /\ "FAILED" \in audit'[d]
                            /\ \E i \in DOMAIN dlq'[d] :
                                   dlq'[d][i].reason_code = row.last_error_code
    BY DEF RowsRecorded, Logged
<1> DEFINE row == delivery'[d]
           Goal == /\ row.unified_status = "SENT" => "SENT" \in audit'[d]
                   /\ /\ row.unified_status = "FAILED"
                      /\ row.last_error_code # "PROVIDER_ACCOUNT_INACTIVE"
                      => /\ "FAILED" \in audit'[d]
                         /\ \E i \in DOMAIN dlq'[d] :
                                dlq'[d][i].reason_code = row.last_error_code
<1> USE DEF update, TypeOK, TablesTyped
<1>2. ASSUME NEW w \in Workers, WorkerWrites(w, d) \/ Starts(w, d)
      PROVE  Goal
    <2>1. entity[w] \in Delivery
        BY CopyTypes
    <2>2. subject(w) = d /\ pc[w] # "idle"
        BY <1>2 DEF WorkerWrites, Starts, fail_inactive, postpone, close,
           start_sending
    <2>3. CASE fail_inactive(w)
        <3>1. row = mark_failed(entity[w], "PROVIDER_ACCOUNT_INACTIVE")
            BY <2>2, <2>3 DEF fail_inactive
        <3>2. "PROVIDER_ACCOUNT_INACTIVE" \in ErrorCode
            BY DEF ErrorCode
        <3>3. QED
            BY <2>1, <3>1, <3>2, FailedFields
    <2>4. CASE postpone(w)
        <3> DEFINE failed == mark_failed(entity[w], "CIRCUIT_OPEN")
        <3>1. row = schedule_retry(failed)
            BY <2>2, <2>4 DEF postpone
        <3>2. "CIRCUIT_OPEN" \in ErrorCode
            BY DEF ErrorCode
        <3>3. failed \in Delivery
            BY <2>1, <3>2, EntityTypes
        <3> HIDE DEF failed
        <3>4. QED
            BY <3>1, <3>3, ScheduledFields
    <2>5. CASE start_sending(w)
        <3>1. row = mark_sending(entity[w])
            BY <2>2, <2>5 DEF start_sending
        <3>2. QED
            BY <2>1, <3>1, SendingFields
    <2>6. CASE close(w)
        <3>1. /\ row = entity[w] /\ pc[w] = "closing"
              /\ row.unified_status \in audit'[d]
            BY <2>2, <2>6 DEF close
        <3>2. ASSUME row.unified_status = "FAILED"
              PROVE  \E i \in DOMAIN dlq'[d] :
                          dlq'[d][i].reason_code = row.last_error_code
            <4>1. /\ entry[w] # Nil /\ entry[w] \in DlqEntry
                  /\ entry[w].reason_code = row.last_error_code
                BY <3>1, <3>2 DEF EntriesReady, WorkersTyped
            <4>2. dlq'[d] = Append(dlq[d], entry[w])
                BY <2>2, <2>6, <4>1 DEF close
            <4> DEFINE n == Len(dlq[d]) + 1
            <4>3. dlq[d] \in Seq(DlqEntry)
                OBVIOUS
            <4>4. n \in DOMAIN dlq'[d] /\ dlq'[d][n] = entry[w]
                BY <4>1, <4>2, <4>3
            <4>5. QED
                BY <4>1, <4>4
        <3>3. QED
            BY <3>1, <3>2
    <2>7. QED
        BY <1>2, <2>3, <2>4, <2>5, <2>6 DEF WorkerWrites, Starts
<1>3. ASSUME NEW r \in Requests, RequestWrites(r, d)
      PROVE  Goal
    <2>1. row.unified_status = "PENDING"
        <3>1. CASE send_commit(r)
            <4>1. row = create
                BY <1>3, <3>1 DEF RequestWrites, send_commit
            <4>2. QED
                BY <4>1 DEF create
        <3>2. CASE retry_commit(r)
            BY <1>3, <3>2 DEF RequestWrites, retry_commit, BackedInv,
               RequestsBacked
        <3>3. QED
            BY <1>3, <3>1, <3>2 DEF RequestWrites
    <2>2. QED
        BY <2>1
<1>4. CASE /\ \A w \in Workers : ~WorkerWrites(w, d) /\ ~Starts(w, d)
           /\ \A r \in Requests : ~RequestWrites(r, d)
    <2>1. row = delivery[d]
        BY <1>4, RowKept
    <2>2. audit[d] \subseteq audit'[d]
        BY AuditGrows
    <2>3. Logged(d, delivery[d].last_error_code) =>
              \E i \in DOMAIN dlq'[d] :
                  dlq'[d][i].reason_code = delivery[d].last_error_code
        <3>1. PICK code : code = delivery[d].last_error_code
            OBVIOUS
        <3>2. Logged(d, code) => Logged(d, code)'
            BY LoggedKept
        <3>3. QED
            BY <3>1, <3>2 DEF Logged
    <2>4. QED
        BY <2>1, <2>2, <2>3 DEF RowsRecorded, Logged
<1>5. QED
    BY <1>2, <1>3, <1>4

LEMMA RecordInvariant == Spec => [](EntriesReady /\ RowsRecorded)
<1>1. Init => EntriesReady /\ RowsRecorded
    <2> SUFFICES ASSUME Init PROVE EntriesReady /\ RowsRecorded
        OBVIOUS
    <2>1. \A d \in Deliveries : delivery[d].unified_status = "PENDING"
        BY DEF Init, create
    <2>2. QED
        BY <2>1 DEF Init, EntriesReady, RowsRecorded
<1>2. TypeOK /\ BackedInv /\ LossInv /\ EntriesReady /\ RowsRecorded
          /\ [Next]_vars => (EntriesReady /\ RowsRecorded)'
    BY EntriesReadyStep, RowsRecordedStep DEF LossInv
<1>3. QED
    BY <1>1, <1>2, TypeCorrect, BackedInvariant, LossInvariant, PTL DEF Spec

\* However many tasks and requests write a row over each other: a SENT or
\* FAILED row has its audit event, and its DLQ row with the same reason.
THEOREM OutcomeRecorded == Spec => []OutcomeOnRecord
<1>1. TypeOK /\ RowsRecorded => OutcomeOnRecord
    BY DEF TypeOK, TablesTyped, RowsRecorded, Logged, OutcomeOnRecord
<1>2. QED
    BY <1>1, TypeCorrect, RecordInvariant, PTL

-----------------------------------------------------------------------------
(* The retry budget *)

\* A retry that the worker has decided on and not yet committed.
Due(w) ==
    IF pc[w] = "closing" /\ entity[w].unified_status = "PENDING" THEN 1 ELSE 0

\* Neither the rows nor the copies of them count a retry that was not scheduled.
RowsCounted == \A d \in Deliveries : delivery[d].retry_count <= scheduled[d]

WorkersCounted ==
    \A w \in Workers :
        pc[w] # "idle" =>
            entity[w].retry_count <= scheduled[subject(w)] + Due(w)

RequestsCounted ==
    \A r \in Requests :
        apc[r] \in {"retrying", "retried"} =>
            copy[r].retry_count <= scheduled[target[r]]

\* A retryable DLQ row waits for its commit only when the budget is spent.
EntriesCounted ==
    \A w \in Workers :
        entry[w] # Nil /\ entry[w].retryable =>
            pc[w] # "idle" /\ scheduled[subject(w)] >= MaxAttempts

BudgetInv ==
    /\ RowsCounted
    /\ WorkersCounted
    /\ RequestsCounted
    /\ EntriesCounted
    /\ RetryableAfterFullBudget

\* The retries that were scheduled are never forgotten.
LEMMA ScheduledGrows ==
    ASSUME TypeOK, [Next]_vars
    PROVE  /\ scheduled \in [Deliveries -> Nat] /\ scheduled' \in [Deliveries -> Nat]
           /\ \A d \in Deliveries : scheduled[d] <= scheduled'[d]
<1>1. scheduled \in [Deliveries -> Nat] /\ scheduled' \in [Deliveries -> Nat]
    BY TypeStep DEF TypeOK, CountsTyped
<1>2. ASSUME NEW w \in Workers, close(w) \/ postpone(w)
      PROVE  \A d \in Deliveries : scheduled[d] <= scheduled'[d]
    <2>1. \/ scheduled' = scheduled
          \/ scheduled' = [scheduled EXCEPT ![subject(w)] = @ + 1]
        BY <1>2 DEF close, postpone
    <2>2. QED
        BY <1>1, <2>1
<1>3. ASSUME ~ \E w \in Workers : close(w) \/ postpone(w)
      PROVE  UNCHANGED scheduled
    BY <1>3 DEF Next, WorkerStep, WorkerFault, RequestStep, RequestBegins,
       take_not_found, take, load_account, fail_inactive, circuit_admits,
       circuit_refuses, start_sending, provider_accepts,
       provider_answer_lost, provider_refuses, provider_busy,
       record_failure_raises, record_success, record_success_raises, ack,
       task_raises, crash, send_document_endpoint, send_commit, retry_read,
       retry_update, retry_commit, replay_dlq_entry, replay_commit, rollback,
       activate_account, deactivate_account, history, vars
<1>4. QED
    BY <1>1, <1>2, <1>3

\* The counts that the invariant compares are numbers.
LEMMA CountTypes ==
    ASSUME TypeOK
    PROVE  /\ MaxAttempts \in Nat
           /\ \A d \in Deliveries :
                  delivery[d].retry_count \in Nat /\ scheduled[d] \in Nat
           /\ \A w \in Workers :
                  /\ entity[w].retry_count \in Nat /\ Due(w) \in {0, 1}
                  /\ pc[w] # "closing" => Due(w) = 0
           /\ \A r \in Requests : copy[r].retry_count \in Nat
<1>1. \A x \in Delivery : x.retry_count \in Nat
    BY DEF Delivery
<1>2. QED
    BY <1>1, RetryAssumption, CopyTypes DEF TypeOK, CountsTyped, Due

\* A row gets its count from a copy, and one more with a scheduled retry only.
LEMMA RowsCountedStep ==
    ASSUME TypeOK, BudgetInv, [Next]_vars
    PROVE  RowsCounted'
<1>1. SUFFICES ASSUME NEW d \in Deliveries
               PROVE  delivery'[d].retry_count <= scheduled'[d]
    BY DEF RowsCounted
<1>2. /\ scheduled[d] \in Nat /\ scheduled'[d] \in Nat
      /\ scheduled[d] <= scheduled'[d]
    BY ScheduledGrows
<1> USE DEF update, TypeOK, TablesTyped
<1>3. ASSUME NEW w \in Workers, WorkerWrites(w, d) \/ Starts(w, d)
      PROVE  delivery'[d].retry_count <= scheduled'[d]
    <2>1. /\ entity[w] \in Delivery /\ entity[w].retry_count \in Nat
          /\ pc[w] # "closing" => Due(w) = 0
        BY CopyTypes, CountTypes
    <2>2. subject(w) = d /\ pc[w] # "idle"
        BY <1>3 DEF WorkerWrites, Starts, fail_inactive, postpone, close,
           start_sending
    <2>3. entity[w].retry_count <= scheduled[d] + Due(w)
        BY <2>2 DEF BudgetInv, WorkersCounted
    <2>4. CASE fail_inactive(w)
        <3>1. /\ delivery'[d] = mark_failed(entity[w], "PROVIDER_ACCOUNT_INACTIVE")
              /\ pc[w] = "inactive"
            BY <2>2, <2>4 DEF fail_inactive
        <3>2. "PROVIDER_ACCOUNT_INACTIVE" \in ErrorCode
            BY DEF ErrorCode
        <3>3. delivery'[d].retry_count = entity[w].retry_count
            BY <2>1, <3>1, <3>2, FailedFields
        <3>4. QED
            BY <1>2, <2>1, <2>3, <3>1, <3>3
    <2>5. CASE postpone(w)
        <3> DEFINE failed == mark_failed(entity[w], "CIRCUIT_OPEN")
        <3>1. /\ delivery'[d] = schedule_retry(failed) /\ pc[w] = "refused"
              /\ scheduled' = [scheduled EXCEPT ![d] = @ + 1]
            BY <2>2, <2>5 DEF postpone
        <3>2. scheduled'[d] = scheduled[d] + 1
            BY <3>1, ScheduledGrows
        <3>3. "CIRCUIT_OPEN" \in ErrorCode
            BY DEF ErrorCode
        <3>4. failed \in Delivery /\ failed.retry_count = entity[w].retry_count
            BY <2>1, <3>3, EntityTypes, FailedFields
        <3> HIDE DEF failed
        <3>5. delivery'[d].retry_count = entity[w].retry_count + 1
            BY <3>1, <3>4, ScheduledFields
        <3>6. QED
            BY <1>2, <2>1, <2>3, <3>1, <3>2, <3>5
    <2>6. CASE start_sending(w)
        <3>1. delivery'[d] = mark_sending(entity[w]) /\ pc[w] = "admitted"
            BY <2>2, <2>6 DEF start_sending
        <3>2. delivery'[d].retry_count = entity[w].retry_count
            BY <2>1, <3>1, SendingFields
        <3>3. QED
            BY <1>2, <2>1, <2>3, <3>1, <3>2
    <2>7. CASE close(w)
        <3>1. delivery'[d] = entity[w]
            BY <2>2, <2>7 DEF close
        <3>2. scheduled'[d] = scheduled[d] + Due(w)
            BY <1>2, <2>2, <2>7, ScheduledGrows DEF close, Due
        <3>3. QED
            BY <2>3, <3>1, <3>2
    <2>8. QED
        BY <1>3, <2>4, <2>5, <2>6, <2>7 DEF WorkerWrites, Starts
<1>4. ASSUME NEW r \in Requests, RequestWrites(r, d)
      PROVE  delivery'[d].retry_count <= scheduled'[d]
    <2>1. CASE send_commit(r)
        <3>1. delivery'[d] = create
            BY <1>4, <2>1 DEF RequestWrites, send_commit
        <3>2. QED
            BY <1>2, <3>1 DEF create
    <2>2. CASE retry_commit(r)
        <3>1. delivery'[d] = copy[r] /\ copy[r].retry_count <= scheduled[d]
            BY <1>4, <2>2 DEF RequestWrites, retry_commit, BudgetInv,
               RequestsCounted
        <3>2. copy[r].retry_count \in Nat
            BY CountTypes
        <3>3. QED
            BY <1>2, <3>1, <3>2
    <2>3. QED
        BY <1>4, <2>1, <2>2 DEF RequestWrites
<1>5. CASE /\ \A w \in Workers : ~WorkerWrites(w, d) /\ ~Starts(w, d)
           /\ \A r \in Requests : ~RequestWrites(r, d)
    <2>1. delivery'[d] = delivery[d]
        BY <1>5, RowKept
    <2>2. delivery[d].retry_count \in Nat /\ delivery[d].retry_count <= scheduled[d]
        BY CountTypes DEF BudgetInv, RowsCounted
    <2>3. QED
        BY <1>2, <2>1, <2>2
<1>6. QED
    BY <1>3, <1>4, <1>5

\* What an except clause leaves, but for the DLQ row.
LEMMA FailKeepsCount ==
    ASSUME TypeOK, NEW w \in Workers, NEW code \in ErrorCode,
           NEW retryable \in BOOLEAN, Fail(w, code, retryable)
    PROVE  entity'[w].retry_count = entity[w].retry_count
BY FailReady, FailedFields, CopyTypes

\* A copy counts a retry more than it did only while that retry is due.
LEMMA WorkersCountedStep ==
    ASSUME TypeOK, BudgetInv, [Next]_vars
    PROVE  WorkersCounted'
<1>1. SUFFICES ASSUME NEW w \in Workers, pc'[w] # "idle"
               PROVE  entity'[w].retry_count <= scheduled'[job'[w].delivery] + Due(w)'
    BY DEF WorkersCounted, subject
<1>2. /\ entity[w] \in Delivery /\ entity[w].retry_count \in Nat
      /\ Due(w) \in {0, 1} /\ Due(w)' \in {0, 1}
      /\ pc[w] # "closing" => Due(w) = 0
    BY CopyTypes, CountTypes, TypeStep DEF Due
<1>3. pc[w] # "idle" => entity[w].retry_count <= scheduled[subject(w)] + Due(w)
    BY DEF BudgetInv, WorkersCounted
<1> USE DEF TypeOK, WorkersTyped
<1> DEFINE Held ==
        /\ pc[w] # "idle" /\ job'[w] = job[w]
        /\ entity'[w].retry_count + Due(w) = entity[w].retry_count + Due(w)'
<1>4. ASSUME Held
      PROVE  entity'[w].retry_count <= scheduled'[job'[w].delivery] + Due(w)'
    <2>1. PICK d \in Deliveries : d = subject(w)
        BY <1>4, SubjectType
    <2>2. /\ scheduled[d] \in Nat /\ scheduled'[d] \in Nat
          /\ scheduled[d] <= scheduled'[d]
        BY ScheduledGrows
    <2>3. entity'[w].retry_count \in Nat
        BY TypeStep DEF Delivery
    <2>4. job'[w].delivery = d
        BY <1>4, <2>1 DEF subject
    <2>5. entity[w].retry_count <= scheduled[d] + Due(w)
        BY <1>3, <1>4, <2>1
    <2>6. entity'[w].retry_count <= scheduled'[d] + Due(w)'
        BY <1>2, <1>4, <2>2, <2>3, <2>5
    <2>7. QED
        BY <2>4, <2>6
<1>5. CASE /\ pc'[w] = pc[w] /\ job'[w] = job[w] /\ entity'[w] = entity[w]
    BY <1>1, <1>2, <1>4, <1>5 DEF Due
<1>6. ASSUME NEW m \in Message, take_not_found(w, m) \/ take(w, m)
      PROVE  entity'[w].retry_count <= scheduled'[job'[w].delivery] + Due(w)'
    <2>1. take(w, m)
        BY <1>1, <1>6 DEF take_not_found, worker
    <2>2. PICK d \in Deliveries : d = m.delivery
        BY DEF Message
    <2>3. job'[w].delivery = d /\ entity'[w] = delivery[d] /\ UNCHANGED scheduled
        BY <2>1, <2>2 DEF take, history
    <2>4. /\ delivery[d].retry_count <= scheduled[d]
          /\ delivery[d].retry_count \in Nat /\ scheduled[d] \in Nat
        BY CountTypes DEF BudgetInv, RowsCounted
    <2>5. QED
        BY <1>2, <2>3, <2>4
<1>7. CASE \/ load_account(w) \/ fail_inactive(w) \/ circuit_admits(w)
           \/ circuit_refuses(w) \/ postpone(w)
    <2>1. /\ pc[w] \notin {"idle", "closing"} /\ pc'[w] # "closing"
          /\ job'[w] = job[w] /\ entity'[w] = entity[w]
        BY <1>7 DEF load_account, fail_inactive, circuit_admits,
           circuit_refuses, postpone, Goto
    <2>2. QED
        BY <1>2, <1>4, <2>1 DEF Due
<1>8. CASE start_sending(w)
    <2>1. /\ pc[w] = "admitted" /\ pc'[w] = "sending"
          /\ job'[w] = job[w] /\ entity'[w] = mark_sending(entity[w])
        BY <1>8 DEF start_sending, Goto
    <2>2. QED
        BY <1>2, <1>4, <2>1, SendingFields DEF Due
<1>9. CASE provider_accepts(w)
    <2>1. /\ pc[w] = "sending" /\ pc'[w] = "accepted" /\ job'[w] = job[w]
          /\ \E id \in {0, Accepted(subject(w)) + 1} :
                 entity'[w] = mark_sent(entity[w], id)
        BY <1>9 DEF provider_accepts, Goto, Accepted
    <2>2. PICK id \in Nat : entity'[w] = mark_sent(entity[w], id)
        BY <2>1, SubjectType, CopyTypes
    <2>3. entity'[w].retry_count = entity[w].retry_count
        BY <1>2, <2>1, <2>2, SentFields
    <2>4. QED
        BY <1>2, <1>4, <2>1, <2>3 DEF Due
<1>10. ASSUME NEW code \in ErrorCode, NEW retryable \in BOOLEAN,
              Fail(w, code, retryable), pc[w] \notin {"idle", "closing"},
              job'[w] = job[w]
       PROVE  entity'[w].retry_count <= scheduled'[job'[w].delivery] + Due(w)'
    <2>1. /\ entity'[w].retry_count = entity[w].retry_count
          /\ entity'[w].unified_status = "FAILED"
        BY <1>2, <1>10, FailKeepsCount, FailReady, FailedFields
    <2>2. QED
        BY <1>2, <1>4, <1>10, <2>1 DEF Due
<1>11. /\ "UNKNOWN_ERROR" \in ErrorCode /\ "PERMANENT" \in ErrorCode
       /\ "TRANSIENT" \in ErrorCode
    BY DEF ErrorCode
<1>12. CASE \/ provider_answer_lost(w) \/ provider_refuses(w)
            \/ record_success_raises(w)
    BY <1>10, <1>11, <1>12 DEF provider_answer_lost, provider_refuses,
       record_success_raises
<1>13. CASE provider_busy(w)
    <2>1. CASE should_retry(entity[w].retry_count)
        <3>1. /\ entity'[w] = schedule_retry(entity[w])
              /\ pc[w] = "sending" /\ pc'[w] = "closing" /\ job'[w] = job[w]
            BY <1>13, <2>1 DEF provider_busy, Goto
        <3>2. /\ entity'[w].retry_count = entity[w].retry_count + 1
              /\ entity'[w].unified_status = "PENDING"
            BY <1>2, <3>1, ScheduledFields
        <3>3. Due(w)' = 1
            BY <3>1, <3>2 DEF Due
        <3>4. QED
            BY <1>2, <1>4, <3>1, <3>2, <3>3
    <2>2. CASE ~should_retry(entity[w].retry_count)
        BY <1>10, <1>11, <1>13, <2>2 DEF provider_busy
    <2>3. QED
        BY <2>1, <2>2
<1>14. CASE close(w)
    <2>1. PICK d \in Deliveries : d = subject(w)
        BY <1>14, SubjectType DEF close
    <2>2. /\ job'[w].delivery = d /\ entity'[w] = entity[w]
          /\ pc[w] = "closing"
          /\ entity[w].retry_count <= scheduled[d] + Due(w)
        BY <1>3, <1>14, <2>1 DEF close, subject
    <2>3. scheduled'[d] = scheduled[d] + Due(w)
        BY <1>14, <2>1, ScheduledGrows DEF close, Due
    <2>4. scheduled'[d] \in Nat
        BY ScheduledGrows
    <2>5. QED
        BY <1>2, <2>2, <2>3, <2>4
<1>15. CASE ack(w) \/ task_raises(w) \/ crash(w)
    BY <1>1, <1>15 DEF ack, task_raises, crash, Release, Goto
<1>16. CASE record_failure_raises(w) \/ record_success(w)
    <2>1. /\ pc[w] \notin {"idle", "closing"}
          /\ job'[w] = job[w] /\ entity'[w] = entity[w]
        BY <1>16 DEF record_failure_raises, record_success, Goto
    <2>2. PICK d \in Deliveries : d = subject(w)
        BY <2>1, SubjectType
    <2>3. job'[w].delivery = d /\ entity[w].retry_count <= scheduled[d] + 0
        BY <1>2, <1>3, <2>1, <2>2 DEF subject
    <2>4. /\ scheduled[d] \in Nat /\ scheduled'[d] \in Nat
          /\ scheduled[d] <= scheduled'[d]
        BY ScheduledGrows
    <2>5. QED
        BY <1>2, <2>1, <2>3, <2>4
<1>17. ASSUME NEW v \in Workers, v # w, WorkerStep(v) \/ WorkerFault(v)
       PROVE  pc'[w] = pc[w] /\ job'[w] = job[w] /\ entity'[w] = entity[w]
    BY <1>17, OneWorker
<1>18. ASSUME NEW r \in Requests, RequestStep(r) \/ RequestBegins(r)
       PROVE  pc'[w] = pc[w] /\ job'[w] = job[w] /\ entity'[w] = entity[w]
    BY <1>18, OneRequest
<1>19. CASE activate_account \/ deactivate_account \/ UNCHANGED vars
    BY <1>5, <1>19 DEF activate_account, deactivate_account, vars, worker
<1>20. CASE WorkerStep(w) \/ WorkerFault(w)
    BY <1>6, <1>7, <1>8, <1>9, <1>12, <1>13, <1>14, <1>15, <1>16, <1>20
       DEF WorkerStep, WorkerFault
<1>21. QED
    BY <1>5, <1>17, <1>18, <1>19, <1>20 DEF Next

LEMMA RequestsCountedStep ==
    ASSUME TypeOK, BudgetInv, [Next]_vars
    PROVE  RequestsCounted'
<1>1. SUFFICES ASSUME NEW r \in Requests, apc'[r] \in {"retrying", "retried"}
               PROVE  copy'[r].retry_count <= scheduled'[target'[r]]
    BY DEF RequestsCounted
<1>2. copy[r] \in Delivery /\ copy[r].retry_count \in Nat
    BY CopyTypes, CountTypes
<1> USE DEF TypeOK, RequestsTyped
<1>3. ASSUME apc[r] \in {"retrying", "retried"}, target'[r] = target[r],
             copy'[r].retry_count = copy[r].retry_count
      PROVE  copy'[r].retry_count <= scheduled'[target'[r]]
    <2>1. PICK d \in Deliveries : d = target[r]
        BY <1>3
    <2>2. copy[r].retry_count <= scheduled[d]
        BY <1>3, <2>1 DEF BudgetInv, RequestsCounted
    <2>3. /\ scheduled[d] \in Nat /\ scheduled'[d] \in Nat
          /\ scheduled[d] <= scheduled'[d]
        BY ScheduledGrows
    <2>4. copy[r].retry_count <= scheduled'[d]
        BY <1>2, <2>2, <2>3
    <2>5. QED
        BY <1>3, <2>1, <2>4
<1>4. CASE apc'[r] = apc[r] /\ target'[r] = target[r] /\ copy'[r] = copy[r]
    BY <1>1, <1>3, <1>4
<1>5. ASSUME NEW d \in Deliveries, retry_read(r, d)
      PROVE  copy'[r].retry_count <= scheduled'[target'[r]]
    <2>1. target'[r] = d /\ copy'[r] = delivery[d] /\ UNCHANGED scheduled
        BY <1>5 DEF retry_read, history
    <2>2. QED
        BY <2>1 DEF BudgetInv, RowsCounted
<1>6. CASE retry_update(r)
    <2>1. /\ apc[r] = "retrying" /\ target'[r] = target[r]
          /\ copy'[r] = force_pending(copy[r])
        BY <1>6 DEF retry_update
    <2>2. QED
        BY <1>2, <1>3, <2>1, ResetFields
<1>7. ASSUME NEW d \in Deliveries,
             \/ send_document_endpoint(r, d)
             \/ \E i \in DOMAIN dlq[d] : replay_dlq_entry(r, d, i)
      PROVE  FALSE
    BY <1>1, <1>7 DEF send_document_endpoint, replay_dlq_entry
<1>8. CASE \/ send_commit(r) \/ retry_commit(r) \/ replay_commit(r)
           \/ rollback(r)
    BY <1>1, <1>8 DEF send_commit, retry_commit, replay_commit, rollback, Finish
<1>9. ASSUME NEW q \in Requests, q # r, RequestStep(q) \/ RequestBegins(q)
      PROVE  apc'[r] = apc[r] /\ target'[r] = target[r] /\ copy'[r] = copy[r]
    BY <1>9, OneRequest
<1>10. ASSUME NEW w \in Workers, WorkerStep(w) \/ WorkerFault(w)
       PROVE  apc'[r] = apc[r] /\ target'[r] = target[r] /\ copy'[r] = copy[r]
    BY <1>10, OneWorker
<1>11. CASE activate_account \/ deactivate_account \/ UNCHANGED vars
    BY <1>4, <1>11 DEF activate_account, deactivate_account, vars, request
<1>12. CASE RequestStep(r) \/ RequestBegins(r)
    BY <1>5, <1>6, <1>7, <1>8, <1>12 DEF RequestStep, RequestBegins
<1>13. QED
    BY <1>4, <1>9, <1>10, <1>11, <1>12 DEF Next

\* A retryable row is prepared only where should_retry has said no.
LEMMA EntriesCountedStep ==
    ASSUME TypeOK, BudgetInv, [Next]_vars
    PROVE  EntriesCounted'
<1>1. SUFFICES ASSUME NEW w \in Workers, entry'[w] # Nil, entry'[w].retryable
               PROVE  /\ pc'[w] # "idle"
                      /\ scheduled'[job'[w].delivery] >= MaxAttempts
    BY DEF EntriesCounted, subject
<1> USE DEF TypeOK, WorkersTyped
<1>2. ASSUME pc[w] # "idle", pc'[w] # "idle", job'[w] = job[w],
             scheduled[subject(w)] >= MaxAttempts
      PROVE  /\ pc'[w] # "idle"
             /\ scheduled'[job'[w].delivery] >= MaxAttempts
    <2>1. PICK d \in Deliveries : d = subject(w)
        BY <1>2, SubjectType
    <2>2. /\ scheduled[d] \in Nat /\ scheduled'[d] \in Nat
          /\ scheduled[d] <= scheduled'[d] /\ MaxAttempts \in Nat
        BY ScheduledGrows, RetryAssumption
    <2>3. job'[w].delivery = d
        BY <1>2, <2>1 DEF subject
    <2>4. scheduled'[d] >= MaxAttempts
        BY <1>2, <2>1, <2>2
    <2>5. QED
        BY <1>2, <2>3, <2>4
<1>3. entry[w] # Nil /\ entry[w].retryable =>
          pc[w] # "idle" /\ scheduled[subject(w)] >= MaxAttempts
    BY DEF BudgetInv, EntriesCounted
<1>4. CASE /\ entry'[w] = entry[w]
           /\ pc[w] # "idle" => pc'[w] # "idle" /\ job'[w] = job[w]
    BY <1>1, <1>2, <1>3, <1>4
<1>5. ASSUME NEW code \in ErrorCode, Fail(w, code, FALSE)
      PROVE  FALSE
    <2>1. FALSE \in BOOLEAN
        OBVIOUS
    <2>2. entry'[w].retryable = FALSE
        BY <1>5, <2>1, FailReady
    <2>3. QED
        BY <1>1, <2>2
<1>6. /\ "UNKNOWN_ERROR" \in ErrorCode /\ "PERMANENT" \in ErrorCode
      /\ "TRANSIENT" \in ErrorCode
    BY DEF ErrorCode
<1>7. CASE \/ provider_answer_lost(w) \/ provider_refuses(w)
           \/ record_success_raises(w)
    BY <1>5, <1>6, <1>7 DEF provider_answer_lost, provider_refuses,
       record_success_raises
<1>8. CASE provider_busy(w)
    <2>1. CASE should_retry(entity[w].retry_count)
        BY <1>4, <1>8, <2>1 DEF provider_busy, Goto
    <2>2. CASE ~should_retry(entity[w].retry_count)
        <3>1. pc[w] = "sending" /\ pc'[w] = "closing" /\ job'[w] = job[w]
            BY <1>8, <2>2 DEF provider_busy, Fail, Goto
        <3>2. PICK d \in Deliveries : d = subject(w)
            BY <3>1, SubjectType
        <3>3. /\ entity[w].retry_count \in Nat /\ Due(w) = 0
              /\ MaxAttempts \in Nat /\ scheduled[d] \in Nat
            BY <3>1, CountTypes
        <3>4. entity[w].retry_count <= scheduled[d] + Due(w)
            BY <3>1, <3>2 DEF BudgetInv, WorkersCounted
        <3>5. scheduled[d] >= MaxAttempts
            BY <2>2, <3>3, <3>4 DEF should_retry
        <3>6. QED
            BY <1>2, <3>1, <3>2, <3>5
    <2>3. QED
        BY <2>1, <2>2
<1>9. ASSUME NEW m \in Message, take_not_found(w, m) \/ take(w, m)
      PROVE  /\ pc'[w] # "idle"
             /\ scheduled'[job'[w].delivery] >= MaxAttempts
    BY <1>4, <1>9 DEF take_not_found, take, worker
<1>10. CASE \/ load_account(w) \/ fail_inactive(w) \/ circuit_admits(w)
            \/ circuit_refuses(w) \/ postpone(w) \/ start_sending(w)
            \/ provider_accepts(w) \/ record_failure_raises(w)
            \/ record_success(w) \/ close(w)
    BY <1>4, <1>10 DEF load_account, fail_inactive, circuit_admits,
       circuit_refuses, postpone, start_sending, provider_accepts,
       record_failure_raises, record_success, close, Goto
<1>11. CASE ack(w) \/ task_raises(w) \/ crash(w)
    BY <1>1, <1>11 DEF ack, task_raises, crash, Release
<1>12. ASSUME NEW v \in Workers, v # w, WorkerStep(v) \/ WorkerFault(v)
       PROVE  pc'[w] = pc[w] /\ job'[w] = job[w] /\ entry'[w] = entry[w]
    BY <1>12, OneWorker
<1>13. ASSUME NEW r \in Requests, RequestStep(r) \/ RequestBegins(r)
       PROVE  pc'[w] = pc[w] /\ job'[w] = job[w] /\ entry'[w] = entry[w]
    BY <1>13, OneRequest
<1>14. CASE activate_account \/ deactivate_account \/ UNCHANGED vars
    BY <1>4, <1>14 DEF activate_account, deactivate_account, vars, worker
<1>15. CASE WorkerStep(w) \/ WorkerFault(w)
    BY <1>7, <1>8, <1>9, <1>10, <1>11, <1>15 DEF WorkerStep, WorkerFault
<1>16. QED
    BY <1>4, <1>12, <1>13, <1>14, <1>15 DEF Next

\* What the queue of dead letters offers as retryable came from such a row.
LEMMA RetryableStep ==
    ASSUME TypeOK, BudgetInv, [Next]_vars
    PROVE  RetryableAfterFullBudget'
<1>1. SUFFICES ASSUME NEW d \in Deliveries, NEW i \in DOMAIN dlq'[d],
                      dlq'[d][i].retryable
               PROVE  scheduled'[d] >= MaxAttempts
    BY DEF RetryableAfterFullBudget
<1>2. /\ dlq[d] \in Seq(DlqEntry) /\ scheduled[d] \in Nat
      /\ scheduled'[d] \in Nat /\ scheduled[d] <= scheduled'[d]
      /\ MaxAttempts \in Nat
    BY ScheduledGrows, RetryAssumption DEF TypeOK, TablesTyped
<1>3. SUFFICES scheduled[d] >= MaxAttempts
    BY <1>2
<1>4. SUFFICES \/ \E j \in DOMAIN dlq[d] : dlq[d][j].retryable
               \/ scheduled[d] >= MaxAttempts
    BY DEF BudgetInv, RetryableAfterFullBudget
<1>5. CASE dlq'[d] = dlq[d]
    BY <1>1, <1>5
<1>6. ASSUME NEW w \in Workers, subject(w) = d, entry[w] # Nil,
             dlq'[d] = Append(dlq[d], entry[w])
      PROVE  \/ \E j \in DOMAIN dlq[d] : dlq[d][j].retryable
             \/ scheduled[d] >= MaxAttempts
    <2>1. entry[w] \in DlqEntry
        BY <1>6 DEF TypeOK, WorkersTyped
    <2>2. CASE i \in DOMAIN dlq[d]
        <3>1. i \in 1..Len(dlq[d])
            BY <1>2, <2>2
        <3>2. dlq'[d][i] = dlq[d][i]
            BY <1>2, <1>6, <2>1, <3>1
        <3>3. QED
            BY <1>1, <2>2, <3>2
    <2>3. CASE i \notin DOMAIN dlq[d]
        <3>1. i \in 1..(Len(dlq[d]) + 1) /\ i \notin 1..Len(dlq[d])
            BY <1>1, <1>2, <1>6, <2>1, <2>3
        <3>2. i = Len(dlq[d]) + 1
            BY <1>2, <3>1
        <3>3. dlq'[d][i] = entry[w]
            BY <1>2, <1>6, <2>1, <3>2
        <3>4. QED
            BY <1>1, <1>6, <3>3 DEF BudgetInv, EntriesCounted
    <2>4. QED
        BY <2>2, <2>3
<1>7. ASSUME NEW j \in DOMAIN dlq[d],
             dlq'[d] = [dlq[d] EXCEPT ![j] = mark_replayed(dlq[d][j])]
      PROVE  \E k \in DOMAIN dlq[d] : dlq[d][k].retryable
    <2>1. j \in 1..Len(dlq[d]) /\ dlq[d][j] \in DlqEntry
        BY <1>2
    <2>2. mark_replayed(dlq[d][j]).retryable = dlq[d][j].retryable
        BY <2>1 DEF mark_replayed, DlqEntry
    <2>3. i \in DOMAIN dlq[d] /\ dlq[d][i].retryable
        BY <1>1, <1>2, <1>7, <2>2
    <2>4. QED
        BY <2>3
<1>8. QED
    BY <1>5, <1>6, <1>7, DlqStep

\* However stale the copies that tasks and requests write back: the dead-letter
\* queue calls a delivery retryable only after its whole budget was scheduled.
THEOREM BudgetSpent == Spec => []RetryableAfterFullBudget
<1>1. Init => BudgetInv
    <2> SUFFICES ASSUME Init PROVE BudgetInv
        OBVIOUS
    <2>1. create.retry_count = 0
        BY DEF create
    <2>2. QED
        BY <2>1 DEF Init, BudgetInv, RowsCounted, WorkersCounted,
           RequestsCounted, EntriesCounted, RetryableAfterFullBudget
<1>2. TypeOK /\ BudgetInv /\ [Next]_vars => BudgetInv'
    BY RowsCountedStep, WorkersCountedStep, RequestsCountedStep,
       EntriesCountedStep, RetryableStep DEF BudgetInv
<1>3. BudgetInv => RetryableAfterFullBudget
    BY DEF BudgetInv
<1>4. QED
    BY <1>1, <1>2, <1>3, TypeCorrect, PTL DEF Spec

-----------------------------------------------------------------------------
(* How often the provider accepts a delivery *)

\* The messages about d on the queue.
Waiting(d) ==
    queue[[delivery |-> d, bytes |-> "file"]]
        + queue[[delivery |-> d, bytes |-> "empty"]]

\* w has a task of d that may still make its one send.
MaySend(w, d) ==
    /\ pc[w] \in {"loaded", "inactive", "guarding", "refused", "admitted",
                  "sending"}
    /\ subject(w) = d

Senders(d) == {w \in Workers : MaySend(w, d)}

\* The sends that were made and those that can still be.
Sends(d) == Accepted(d) + Waiting(d) + Cardinality(Senders(d))

SendsBounded == \A d \in Deliveries : Sends(d) <= dispatched[d] + crashes

LEMMA SendTypes ==
    ASSUME TypeOK, NEW d \in Deliveries
    PROVE  /\ Accepted(d) \in Nat /\ Waiting(d) \in Nat
           /\ IsFiniteSet(Senders(d)) /\ Cardinality(Senders(d)) \in Nat
           /\ dispatched[d] \in Nat /\ crashes \in Nat
<1>1. /\ [delivery |-> d, bytes |-> "file"] \in Message
      /\ [delivery |-> d, bytes |-> "empty"] \in Message
    BY DEF Message
<1>2. Waiting(d) \in Nat
    BY <1>1 DEF Waiting, TypeOK, ServicesTyped
<1>3. Senders(d) \in SUBSET Workers
    BY DEF Senders
<1>4. IsFiniteSet(Senders(d))
    BY <1>3, SendAssumption, FS_Subset
<1>5. Cardinality(Senders(d)) \in Nat
    BY <1>4, FS_CardinalityType
<1>6. QED
    BY <1>2, <1>4, <1>5, CopyTypes DEF TypeOK, CountsTyped

\* A message comes or goes.
LEMMA WaitingChange ==
    ASSUME TypeOK, NEW m \in Message, NEW k \in Nat,
           queue' = [queue EXCEPT ![m] = k], NEW d \in Deliveries
    PROVE  Waiting(d)' = IF m.delivery = d THEN Waiting(d) - queue[m] + k
                         ELSE Waiting(d)
<1> DEFINE f == [delivery |-> d, bytes |-> "file"]
           e == [delivery |-> d, bytes |-> "empty"]
<1>1. f \in Message /\ e \in Message /\ f # e
    BY DEF Message
<1>2. queue[f] \in Nat /\ queue[e] \in Nat
    BY <1>1 DEF TypeOK, ServicesTyped
<1>3. /\ queue'[f] = IF m = f THEN k ELSE queue[f]
      /\ queue'[e] = IF m = e THEN k ELSE queue[e]
    BY <1>1 DEF TypeOK, ServicesTyped
<1>4. Waiting(d) = queue[f] + queue[e] /\ Waiting(d)' = queue'[f] + queue'[e]
    BY DEF Waiting
<1>5. m.delivery = d => m = f \/ m = e
    BY DEF Message
<1>6. m = f \/ m = e => m.delivery = d
    OBVIOUS
<1> HIDE DEF f, e
<1>7. QED
    BY <1>1, <1>2, <1>3, <1>4, <1>5, <1>6

\* One worker's step changes the senders of a delivery by that worker at most.
LEMMA SendersChange ==
    ASSUME TypeOK, NEW d \in Deliveries, NEW v \in Workers,
           \A w \in Workers \ {v} : pc'[w] = pc[w] /\ job'[w] = job[w]
    PROVE  /\ (MaySend(v, d)' <=> MaySend(v, d)) => Senders(d)' = Senders(d)
           /\ MaySend(v, d) /\ ~MaySend(v, d)' =>
                  Cardinality(Senders(d)') = Cardinality(Senders(d)) - 1
           /\ ~MaySend(v, d) /\ MaySend(v, d)' =>
                  Cardinality(Senders(d)') = Cardinality(Senders(d)) + 1
<1>1. \A w \in Workers \ {v} : MaySend(w, d)' <=> MaySend(w, d)
    BY DEF MaySend, subject
<1>2. IsFiniteSet(Senders(d))
    BY SendTypes
<1>3. ASSUME MaySend(v, d)' <=> MaySend(v, d)
      PROVE  Senders(d)' = Senders(d)
    BY <1>1, <1>3 DEF Senders
<1>4. ASSUME MaySend(v, d), ~MaySend(v, d)'
      PROVE  Cardinality(Senders(d)') = Cardinality(Senders(d)) - 1
    <2>1. v \in Senders(d) /\ Senders(d)' = Senders(d) \ {v}
        BY <1>1, <1>4 DEF Senders
    <2>2. QED
        BY <1>2, <2>1, FS_RemoveElement
<1>5. ASSUME ~MaySend(v, d), MaySend(v, d)'
      PROVE  Cardinality(Senders(d)') = Cardinality(Senders(d)) + 1
    <2>1. v \notin Senders(d) /\ Senders(d)' = Senders(d) \cup {v}
        BY <1>1, <1>5 DEF Senders
    <2>2. QED
        BY <1>2, <2>1, FS_AddElement
<1>6. QED
    BY <1>3, <1>4, <1>5

\* A worker's steps use up a send for each acceptance, and only a kill gives
\* one back.
LEMMA WorkerSends ==
    ASSUME TypeOK, SendsBounded, NEW d \in Deliveries, NEW v \in Workers,
           WorkerStep(v) \/ WorkerFault(v)
    PROVE  Sends(d)' <= dispatched'[d] + crashes'
<1>1. /\ Accepted(d) \in Nat /\ Waiting(d) \in Nat
      /\ Cardinality(Senders(d)) \in Nat
      /\ dispatched[d] \in Nat /\ crashes \in Nat
      /\ Accepted(d) + Waiting(d) + Cardinality(Senders(d))
             <= dispatched[d] + crashes
    BY SendTypes DEF SendsBounded, Sends
<1>2. \A w \in Workers \ {v} : pc'[w] = pc[w] /\ job'[w] = job[w]
    BY OneWorker
<1>3. Cardinality(Senders(d)') \in Nat
      /\ Cardinality(Senders(d)') =
             Cardinality(Senders(d))
                 + (IF MaySend(v, d)' THEN 1 ELSE 0)
                 - (IF MaySend(v, d) THEN 1 ELSE 0)
    <2>1. v \in Senders(d) <=> MaySend(v, d)
        BY DEF Senders
    <2>2. MaySend(v, d) => Cardinality(Senders(d)) # 0
        BY <2>1, SendTypes, FS_EmptySet
    <2>3. QED
        BY <1>1, <1>2, <2>2, SendersChange
<1>4. Sends(d)' = Accepted(d)' + Waiting(d)' + Cardinality(Senders(d)')
    BY DEF Sends
<1> USE DEF TypeOK, WorkersTyped
<1>5. ASSUME NEW m \in Message, take_not_found(v, m) \/ take(v, m)
      PROVE  Sends(d)' <= dispatched'[d] + crashes'
    <2>1. queue[m] \in Nat /\ queue[m] > 0
        BY <1>5 DEF take_not_found, take, ServicesTyped
    <2>2. /\ queue' = [queue EXCEPT ![m] = queue[m] - 1]
          /\ queue[m] - 1 \in Nat
          /\ UNCHANGED <<inbox, dispatched, crashes>>
        BY <1>5, <2>1 DEF take_not_found, take
    <2>3. /\ Waiting(d)' = IF m.delivery = d THEN Waiting(d) - 1 ELSE Waiting(d)
          /\ Accepted(d)' = Accepted(d)
        <3>1. PICK k \in Nat : k = queue[m] - 1
            BY <2>2
        <3>2. Waiting(d)' = IF m.delivery = d THEN Waiting(d) - queue[m] + k
                            ELSE Waiting(d)
            BY <2>2, <3>1, WaitingChange
        <3>3. QED
            BY <1>1, <2>1, <2>2, <3>1, <3>2 DEF Accepted
    <2>4. /\ ~MaySend(v, d)
          /\ MaySend(v, d)' => m.delivery = d
        BY <1>5 DEF take_not_found, take, MaySend, subject, worker
    <2>5. QED
        BY <1>1, <1>3, <1>4, <2>2, <2>3, <2>4
<1>6. ASSUME UNCHANGED <<queue, inbox, dispatched, crashes>>,
             MaySend(v, d)' => MaySend(v, d)
      PROVE  Sends(d)' <= dispatched'[d] + crashes'
    <2>1. Waiting(d)' = Waiting(d) /\ Accepted(d)' = Accepted(d)
        BY <1>6 DEF Waiting, Accepted
    <2>2. QED
        BY <1>1, <1>3, <1>4, <1>6, <2>1
<1>7. CASE \/ load_account(v) \/ circuit_admits(v) \/ circuit_refuses(v)
           \/ start_sending(v)
    BY <1>6, <1>7 DEF load_account, circuit_admits, circuit_refuses,
       start_sending, Goto, MaySend, subject
<1>8. CASE \/ fail_inactive(v) \/ postpone(v) \/ provider_refuses(v)
           \/ provider_busy(v) \/ record_failure_raises(v) \/ record_success(v)
           \/ record_success_raises(v) \/ close(v)
    <2>1. /\ UNCHANGED <<queue, inbox, dispatched, crashes>>
          /\ pc'[v] \in {"committed", "closing"}
        BY <1>8 DEF fail_inactive, postpone, provider_refuses, provider_busy,
           record_failure_raises, record_success, record_success_raises,
           close, Fail, Goto
    <2>2. QED
        BY <1>6, <2>1 DEF MaySend
<1>9. CASE ack(v) \/ task_raises(v)
    BY <1>6, <1>9 DEF ack, task_raises, Release, Goto, MaySend
<1>10. CASE provider_accepts(v) \/ provider_answer_lost(v)
    <2>1. /\ pc[v] = "sending" /\ pc'[v] \in {"accepted", "closing"}
          /\ UNCHANGED <<queue, dispatched, crashes>>
          /\ inbox' = [inbox EXCEPT ![subject(v)] = Append(@, job[v].bytes)]
        BY <1>10 DEF provider_accepts, provider_answer_lost, Accept, Fail, Goto
    <2>2. job[v].bytes \in {"file", "empty"}
        BY <2>1, SubjectType DEF Message
    <2>3. Accepted(d)' = IF subject(v) = d THEN Accepted(d) + 1 ELSE Accepted(d)
        BY <2>1, <2>2 DEF Accepted, ServicesTyped
    <2>4. ~MaySend(v, d)' /\ (subject(v) = d => MaySend(v, d))
        BY <2>1 DEF MaySend
    <2>5. Waiting(d)' = Waiting(d)
        BY <2>1 DEF Waiting
    <2>6. QED
        BY <1>1, <1>3, <1>4, <2>1, <2>3, <2>4, <2>5
<1>11. CASE crash(v)
    <2>1. /\ job[v] \in Message /\ queue[job[v]] \in Nat
          /\ queue' = [queue EXCEPT ![job[v]] = queue[job[v]] + 1]
          /\ crashes' = crashes + 1 /\ UNCHANGED <<inbox, dispatched>>
          /\ pc'[v] = "idle"
        BY <1>11, SubjectType DEF crash, requeue, Release, Goto, ServicesTyped
    <2>2. PICK m \in Message : m = job[v]
        BY <2>1
    <2>3. queue[m] \in Nat /\ queue' = [queue EXCEPT ![m] = queue[m] + 1]
        BY <2>1, <2>2
    <2>4. Waiting(d)' = IF m.delivery = d THEN Waiting(d) + 1 ELSE Waiting(d)
        <3>1. PICK k \in Nat : k = queue[m] + 1
            BY <2>3
        <3>2. Waiting(d)' = IF m.delivery = d THEN Waiting(d) - queue[m] + k
                            ELSE Waiting(d)
            BY <2>3, <3>1, WaitingChange
        <3>3. QED
            BY <1>1, <2>3, <3>1, <3>2
    <2>5. Accepted(d)' = Accepted(d) /\ ~MaySend(v, d)'
        BY <2>1 DEF Accepted, MaySend
    <2>6. QED
        BY <1>1, <1>3, <1>4, <2>1, <2>3, <2>4, <2>5
<1>12. QED
    BY <1>5, <1>7, <1>8, <1>9, <1>10, <1>11 DEF WorkerStep, WorkerFault

\* A request enqueues one message for each that it counts.
LEMMA RequestSends ==
    ASSUME TypeOK, SendsBounded, NEW d \in Deliveries, NEW r \in Requests,
           RequestStep(r) \/ RequestBegins(r)
    PROVE  Sends(d)' <= dispatched'[d] + crashes'
<1>1. /\ Accepted(d) \in Nat /\ Waiting(d) \in Nat
      /\ Cardinality(Senders(d)) \in Nat
      /\ dispatched[d] \in Nat /\ crashes \in Nat
      /\ Accepted(d) + Waiting(d) + Cardinality(Senders(d))
             <= dispatched[d] + crashes
    BY SendTypes DEF SendsBounded, Sends
<1>2. Sends(d)' = Accepted(d)' + Waiting(d)' + Cardinality(Senders(d)')
    BY DEF Sends
<1>3. UNCHANGED <<pc, job, inbox, crashes>>
    BY DEF RequestStep, RequestBegins, send_document_endpoint, send_commit,
       retry_read, retry_update, retry_commit, replay_dlq_entry,
       replay_commit, rollback, worker
<1>4. Senders(d)' = Senders(d) /\ Accepted(d)' = Accepted(d)
    BY <1>3 DEF Senders, MaySend, subject, Accepted
<1>5. ASSUME NEW x \in Deliveries, NEW bytes \in {"file", "empty"},
             apply_async(x, bytes)
      PROVE  Sends(d)' <= dispatched'[d] + crashes'
    <2>1. PICK m \in Message : m = [delivery |-> x, bytes |-> bytes]
        BY DEF Message
    <2>2. /\ m.delivery = x /\ queue[m] \in Nat
          /\ queue' = [queue EXCEPT ![m] = queue[m] + 1]
          /\ dispatched' = [dispatched EXCEPT ![x] = @ + 1]
        BY <1>5, <2>1 DEF apply_async, TypeOK, ServicesTyped
    <2>3. Waiting(d)' = IF m.delivery = d THEN Waiting(d) + 1 ELSE Waiting(d)
        <3>1. PICK k \in Nat : k = queue[m] + 1
            BY <2>2
        <3>2. Waiting(d)' = IF m.delivery = d THEN Waiting(d) - queue[m] + k
                            ELSE Waiting(d)
            BY <2>2, <3>1, WaitingChange
        <3>3. QED
            BY <1>1, <2>2, <3>1, <3>2
    <2>4. dispatched'[d] = IF x = d THEN dispatched[d] + 1 ELSE dispatched[d]
        BY <2>2 DEF TypeOK, CountsTyped
    <2>5. QED
        BY <1>1, <1>2, <1>3, <1>4, <2>2, <2>3, <2>4
<1>6. CASE UNCHANGED <<queue, dispatched>>
    <2>1. Waiting(d)' = Waiting(d)
        BY <1>6 DEF Waiting
    <2>2. QED
        BY <1>1, <1>2, <1>3, <1>4, <1>6, <2>1
<1>7. CASE retry_update(r)
    <2>1. target[r] \in Deliveries /\ apply_async(target[r], "empty")
        BY <1>7 DEF retry_update, TypeOK, RequestsTyped
    <2>2. QED
        BY <1>5, <2>1
<1>8. ASSUME NEW x \in Deliveries,
             \/ send_document_endpoint(r, x)
             \/ \E i \in DOMAIN dlq[x] : replay_dlq_entry(r, x, i)
      PROVE  Sends(d)' <= dispatched'[d] + crashes'
    BY <1>5, <1>8 DEF send_document_endpoint, replay_dlq_entry
<1>9. ASSUME NEW x \in Deliveries, retry_read(r, x)
      PROVE  UNCHANGED <<queue, dispatched>>
    BY <1>9 DEF retry_read
<1>10. CASE send_commit(r) \/ retry_commit(r) \/ replay_commit(r) \/ rollback(r)
    BY <1>6, <1>10 DEF send_commit, retry_commit, replay_commit, rollback
<1>11. QED
    BY <1>6, <1>7, <1>8, <1>9, <1>10 DEF RequestStep, RequestBegins

\* However many tasks of a delivery run at once, and wherever workers are
\* killed: the provider accepts it no more often than messages were enqueued
\* and workers killed.
THEOREM SendsAccountedFor == Spec => []SendsWithinDispatches
<1>1. Init => SendsBounded
    <2> SUFFICES ASSUME Init, NEW d \in Deliveries
                 PROVE  Sends(d) <= dispatched[d] + crashes
        BY DEF SendsBounded
    <2>1. /\ [delivery |-> d, bytes |-> "file"] \in Message
          /\ [delivery |-> d, bytes |-> "empty"] \in Message
        BY DEF Message
    <2>2. Waiting(d) = 0
        BY <2>1 DEF Init, Waiting
    <2>3. Accepted(d) = 0 /\ Senders(d) = {}
        BY DEF Init, Accepted, Senders, MaySend
    <2>4. dispatched[d] = 0 /\ crashes = 0
        BY DEF Init
    <2>5. QED
        BY <2>2, <2>3, <2>4, FS_EmptySet DEF Sends
<1>2. TypeOK /\ SendsBounded /\ [Next]_vars => SendsBounded'
    <2> SUFFICES ASSUME TypeOK, SendsBounded, [Next]_vars,
                        NEW d \in Deliveries
                 PROVE  Sends(d)' <= dispatched'[d] + crashes'
        BY DEF SendsBounded
    <2>1. CASE activate_account \/ deactivate_account \/ UNCHANGED vars
        <3>1. UNCHANGED <<queue, inbox, pc, job, dispatched, crashes>>
            BY <2>1 DEF activate_account, deactivate_account, vars, worker
        <3>2. Sends(d)' = Sends(d)
            BY <3>1 DEF Sends, Accepted, Waiting, Senders, MaySend, subject
        <3>3. QED
            BY <3>1, <3>2 DEF SendsBounded
    <2>2. QED
        BY <2>1, WorkerSends, RequestSends DEF Next
<1>3. TypeOK /\ SendsBounded => SendsWithinDispatches
    <2> SUFFICES ASSUME TypeOK, SendsBounded, NEW d \in Deliveries
                 PROVE  Len(inbox[d]) <= dispatched[d] + crashes
        BY DEF SendsWithinDispatches
    <2>1. QED
        BY SendTypes DEF SendsBounded, Sends, Accepted
<1>4. QED
    BY <1>1, <1>2, <1>3, TypeCorrect, PTL DEF Spec

=============================================================================
