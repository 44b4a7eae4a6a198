-------------------------- MODULE SendDocumentProofs --------------------------
(***************************************************************************)
(* What holds of the send pipeline for every number of deliveries,         *)
(* workers and requests and every retry budget.                            *)
(***************************************************************************)
EXTENDS SendDocument, DocumentDeliveryProofs, SequenceTheorems

-----------------------------------------------------------------------------
(* A step that leaves a group of variables alone leaves their types alone.   *)

LEMMA FrameTables ==
    ASSUME TablesTyped, UNCHANGED tables
    PROVE  TablesTyped'
BY DEF TablesTyped, tables

LEMMA FrameServices ==
    ASSUME ServicesTyped, UNCHANGED <<queue, inbox>>
    PROVE  ServicesTyped'
BY DEF ServicesTyped

LEMMA FrameWorkers ==
    ASSUME WorkersTyped, UNCHANGED worker
    PROVE  WorkersTyped'
BY DEF WorkersTyped, worker

LEMMA FrameRequests ==
    ASSUME RequestsTyped, UNCHANGED <<request, dlq>>
    PROVE  RequestsTyped'
BY DEF RequestsTyped, request

LEMMA FrameCounts ==
    ASSUME CountsTyped, UNCHANGED <<crashes, faults, dispatched, history>>
    PROVE  CountsTyped'
BY DEF CountsTyped, history

\* A busy worker works on a delivery.
LEMMA SubjectType ==
    ASSUME WorkersTyped, NEW w \in Workers, pc[w] # "idle"
    PROVE  subject(w) \in Deliveries /\ job[w] \in Message
BY DEF WorkersTyped, subject, Message

LEMMA ReleaseTypes ==
    ASSUME WorkersTyped, NEW w \in Workers, Release(w)
    PROVE  WorkersTyped'
BY CreateType DEF WorkersTyped, Release, Goto, WorkerLocation

LEMMA FailTypes ==
    ASSUME WorkersTyped, NEW w \in Workers, NEW code \in ErrorCode,
           NEW retryable \in BOOLEAN, Fail(w, code, retryable), UNCHANGED job
    PROVE  pc[w] # "idle" => WorkersTyped'
<1> DEFINE row == [reason_code |-> code, retryable |-> retryable,
                   replayed |-> FALSE]
<1>1. row \in DlqEntry
    BY Zenon DEF DlqEntry
<1>2. entry' \in [Workers -> DlqEntry \cup {Nil}]
    BY <1>1, Zenon DEF WorkersTyped, Fail, write_dlq
<1>3. mark_failed(entity[w], code) \in Delivery
    BY EntityTypes DEF WorkersTyped
<1>4. QED
    BY <1>2, <1>3 DEF WorkersTyped, Fail, Goto, WorkerLocation

LEMMA FinishTypes ==
    ASSUME RequestsTyped, NEW r \in Requests, Finish(r), UNCHANGED dlq
    PROVE  RequestsTyped'
BY CreateType DEF RequestsTyped, Finish, RequestLocation

\* The messages the API enqueues, and those a worker takes or gives back.
LEMMA QueueTypes ==
    ASSUME ServicesTyped, CountsTyped, NEW d \in Deliveries,
           NEW bytes \in {"file", "empty"}, apply_async(d, bytes)
    PROVE  /\ queue' \in [Message -> Nat]
           /\ dispatched' \in [Deliveries -> Nat]
<1> DEFINE m == [delivery |-> d, bytes |-> bytes]
<1>1. m \in Message
    BY DEF Message
<1>2. queue[m] + 1 \in Nat /\ dispatched[d] + 1 \in Nat
    BY <1>1 DEF ServicesTyped, CountsTyped
<1>3. QED
    BY <1>1, <1>2 DEF ServicesTyped, CountsTyped, apply_async

\* UPDATE keeps the table's type.
LEMMA UpdateTypes ==
    ASSUME TablesTyped, NEW d \in Deliveries, NEW row \in Delivery,
           update(d, row)
    PROVE  delivery' \in [Deliveries -> Delivery]
BY DEF TablesTyped, update

-----------------------------------------------------------------------------

\* One step keeps the types.
LEMMA TypeStep ==
    ASSUME TypeOK, [Next]_vars
    PROVE  TypeOK'
<1> USE DEF TypeOK
<1>1. ASSUME NEW w \in Workers, NEW m \in Message, take_not_found(w, m)
      PROVE  TypeOK'
    <2>1. TablesTyped' /\ WorkersTyped' /\ RequestsTyped'
        BY <1>1, FrameTables, FrameWorkers, FrameRequests DEF
           take_not_found, tables, worker, request
    <2>2. ServicesTyped'
        BY <1>1 DEF take_not_found, ServicesTyped
    <2>3. CountsTyped'
        BY <1>1 DEF take_not_found, CountsTyped, Message
    <2>4. QED
        BY <2>1, <2>2, <2>3
<1>2. ASSUME NEW w \in Workers, NEW m \in Message, take(w, m)
      PROVE  TypeOK'
    <2>1. TablesTyped' /\ RequestsTyped' /\ CountsTyped'
        BY <1>2, FrameTables, FrameRequests, FrameCounts DEF take, tables,
           request, history
    <2>2. ServicesTyped'
        BY <1>2 DEF take, ServicesTyped
    <2>3. WorkersTyped'
        BY <1>2 DEF take, WorkersTyped, TablesTyped, Goto, WorkerLocation,
           Message
    <2>4. QED
        BY <2>1, <2>2, <2>3
<1>3. ASSUME NEW w \in Workers, load_account(w)
      PROVE  TypeOK'
    <2>1. TablesTyped' /\ ServicesTyped' /\ RequestsTyped' /\ CountsTyped'
        BY <1>3, FrameTables, FrameServices, FrameRequests, FrameCounts DEF
           load_account, tables, request, history
    <2>2. WorkersTyped'
        BY <1>3 DEF load_account, WorkersTyped, Goto, WorkerLocation
    <2>3. QED
        BY <2>1, <2>2
<1>4. ASSUME NEW w \in Workers, fail_inactive(w)
      PROVE  TypeOK'
    <2>1. ServicesTyped' /\ RequestsTyped' /\ CountsTyped'
        BY <1>4, FrameServices, FrameRequests, FrameCounts DEF
           fail_inactive, tables, request, history
    <2>2. TablesTyped'
        BY <1>4, SubjectType, EntityTypes, UpdateTypes DEF fail_inactive,
           TablesTyped, WorkersTyped, ErrorCode
    <2>3. WorkersTyped'
        BY <1>4 DEF fail_inactive, WorkersTyped, Goto, WorkerLocation
    <2>4. QED
        BY <2>1, <2>2, <2>3
<1>5. ASSUME NEW w \in Workers, circuit_admits(w)
      PROVE  TypeOK'
    <2>1. TablesTyped' /\ ServicesTyped' /\ RequestsTyped' /\ CountsTyped'
        BY <1>5, FrameTables, FrameServices, FrameRequests, FrameCounts DEF
           circuit_admits, tables, request, history
    <2>2. WorkersTyped'
        BY <1>5 DEF circuit_admits, WorkersTyped, Goto, WorkerLocation
    <2>3. QED
        BY <2>1, <2>2
<1>6. ASSUME NEW w \in Workers, circuit_refuses(w)
      PROVE  TypeOK'
    <2>1. TablesTyped' /\ ServicesTyped' /\ RequestsTyped' /\ CountsTyped'
        BY <1>6, FrameTables, FrameServices, FrameRequests, FrameCounts DEF
           circuit_refuses, tables, request, history
    <2>2. WorkersTyped'
        BY <1>6 DEF circuit_refuses, WorkersTyped, Goto, WorkerLocation
    <2>3. QED
        BY <2>1, <2>2
<1>7. ASSUME NEW w \in Workers, postpone(w)
      PROVE  TypeOK'
    <2>1. ServicesTyped' /\ RequestsTyped'
        BY <1>7, FrameServices, FrameRequests DEF postpone, tables, request
    <2>2. TablesTyped'
        BY <1>7, SubjectType, EntityTypes, UpdateTypes DEF postpone,
           TablesTyped, WorkersTyped, ErrorCode
    <2>3. WorkersTyped'
        BY <1>7 DEF postpone, WorkersTyped, Goto, WorkerLocation
    <2>4. CountsTyped'
        BY <1>7, SubjectType DEF postpone, CountsTyped, history,
           WorkersTyped
    <2>5. QED
        BY <2>1, <2>2, <2>3, <2>4
<1>8. ASSUME NEW w \in Workers, start_sending(w)
      PROVE  TypeOK'
    <2>1. ServicesTyped' /\ RequestsTyped' /\ CountsTyped'
        BY <1>8, FrameServices, FrameRequests, FrameCounts DEF
           start_sending, tables, request, history
    <2>2. TablesTyped'
        BY <1>8, SubjectType, EntityTypes, UpdateTypes DEF start_sending,
           TablesTyped, WorkersTyped
    <2>3. WorkersTyped'
        BY <1>8, EntityTypes DEF start_sending, WorkersTyped, Goto,
           WorkerLocation
    <2>4. QED
        BY <2>1, <2>2, <2>3
<1>9. ASSUME NEW w \in Workers, provider_accepts(w)
      PROVE  TypeOK'
    <2>1. TablesTyped' /\ RequestsTyped' /\ CountsTyped'
        BY <1>9, FrameTables, FrameRequests, FrameCounts DEF
           provider_accepts, tables, request, history
    <2>2. ServicesTyped'
        BY <1>9, SubjectType DEF provider_accepts, Accept, ServicesTyped,
           Message
    <2>3. WorkersTyped'
        <3>1. PICK id \in {0, Len(inbox[subject(w)]) + 1} :
                  entity' = [entity EXCEPT ![w] = mark_sent(entity[w], id)]
            BY <1>9 DEF provider_accepts
        <3>2. mark_sent(entity[w], id) \in Delivery
            <4>1. id \in Nat
                BY <1>9, SubjectType DEF provider_accepts, ServicesTyped
            <4>2. QED
                BY <4>1, EntityTypes DEF WorkersTyped
        <3>3. QED
            BY <1>9, <3>1, <3>2 DEF provider_accepts, WorkersTyped, Goto,
               WorkerLocation
    <2>4. QED
        BY <2>1, <2>2, <2>3
<1>10. ASSUME NEW w \in Workers, provider_answer_lost(w)
      PROVE  TypeOK'
    <2>1. TablesTyped' /\ RequestsTyped' /\ CountsTyped'
        BY <1>10, FrameTables, FrameRequests, FrameCounts DEF
           provider_answer_lost, tables, request, history
    <2>2. ServicesTyped'
        BY <1>10, SubjectType DEF provider_answer_lost, Accept,
           ServicesTyped, Message
    <2>3. WorkersTyped'
        BY <1>10, FailTypes DEF provider_answer_lost, ErrorCode
    <2>4. QED
        BY <2>1, <2>2, <2>3
<1>11. ASSUME NEW w \in Workers, provider_refuses(w)
      PROVE  TypeOK'
    <2>1. TablesTyped' /\ ServicesTyped' /\ RequestsTyped' /\ CountsTyped'
        BY <1>11, FrameTables, FrameServices, FrameRequests, FrameCounts
           DEF provider_refuses, tables, request, history
    <2>2. WorkersTyped'
        BY <1>11, FailTypes DEF provider_refuses, ErrorCode
    <2>3. QED
        BY <2>1, <2>2
<1>12. ASSUME NEW w \in Workers, provider_busy(w)
      PROVE  TypeOK'
    <2>1. TablesTyped' /\ ServicesTyped' /\ RequestsTyped' /\ CountsTyped'
        BY <1>12, FrameTables, FrameServices, FrameRequests, FrameCounts
           DEF provider_busy, tables, request, history
    <2>2. WorkersTyped'
        <3> USE DEF provider_busy, WorkersTyped, Goto, WorkerLocation
        <3>1. CASE should_retry(entity[w].retry_count)
            BY <1>12, <3>1, EntityTypes
        <3>2. CASE ~should_retry(entity[w].retry_count)
            BY <1>12, <3>2, FailTypes DEF ErrorCode
        <3>3. QED
            BY <3>1, <3>2
    <2>3. QED
        BY <2>1, <2>2
<1>13. ASSUME NEW w \in Workers, record_failure_raises(w)
      PROVE  TypeOK'
    <2>1. TablesTyped' /\ ServicesTyped' /\ RequestsTyped'
        BY <1>13, FrameTables, FrameServices, FrameRequests DEF
           record_failure_raises, tables, request
    <2>2. WorkersTyped'
        BY <1>13 DEF record_failure_raises, WorkersTyped, Goto,
           WorkerLocation
    <2>3. CountsTyped'
        BY <1>13, SubjectType DEF record_failure_raises, CountsTyped,
           history, WorkersTyped
    <2>4. QED
        BY <2>1, <2>2, <2>3
<1>14. ASSUME NEW w \in Workers, record_success(w)
      PROVE  TypeOK'
    <2>1. TablesTyped' /\ ServicesTyped' /\ RequestsTyped' /\ CountsTyped'
        BY <1>14, FrameTables, FrameServices, FrameRequests, FrameCounts
           DEF record_success, tables, request, history
    <2>2. WorkersTyped'
        BY <1>14 DEF record_success, WorkersTyped, Goto, WorkerLocation
    <2>3. QED
        BY <2>1, <2>2
<1>15. ASSUME NEW w \in Workers, record_success_raises(w)
      PROVE  TypeOK'
    <2>1. TablesTyped' /\ ServicesTyped' /\ RequestsTyped'
        BY <1>15, FrameTables, FrameServices, FrameRequests DEF
           record_success_raises, tables, request
    <2>2. WorkersTyped'
        BY <1>15, FailTypes DEF record_success_raises, ErrorCode
    <2>3. CountsTyped'
        BY <1>15, SubjectType DEF record_success_raises, CountsTyped,
           history, WorkersTyped
    <2>4. QED
        BY <2>1, <2>2, <2>3
<1>16. ASSUME NEW w \in Workers, close(w)
      PROVE  TypeOK'
    <2>1. ServicesTyped'
        BY <1>16, FrameServices DEF close
    <2>2. TablesTyped'
        <3>1. subject(w) \in Deliveries /\ entity[w] \in Delivery
            BY <1>16, SubjectType DEF close, WorkersTyped
        <3>2. delivery' \in [Deliveries -> Delivery]
            BY <1>16, <3>1, UpdateTypes DEF close
        <3>3. dlq' \in [Deliveries -> Seq(DlqEntry)]
            <4>1. CASE entry[w] = Nil
                BY <1>16, <4>1 DEF close, TablesTyped
            <4>2. CASE entry[w] # Nil
                <5>1. entry[w] \in DlqEntry
                    BY <4>2 DEF WorkersTyped
                <5>2. Append(dlq[subject(w)], entry[w]) \in Seq(DlqEntry)
                    BY <3>1, <5>1 DEF TablesTyped
                <5>3. QED
                    BY <1>16, <4>2, <5>2 DEF close, TablesTyped
            <4>3. QED
                BY <4>1, <4>2
        <3>4. entity[w].unified_status \in UnifiedDocumentStatus
            BY <3>1 DEF Delivery
        <3>5. audit' \in [Deliveries -> SUBSET UnifiedDocumentStatus]
            BY <1>16, <3>1, <3>4 DEF close, TablesTyped
        <3>6. QED
            BY <1>16, <3>2, <3>3, <3>5 DEF close, TablesTyped
    <2>3. WorkersTyped'
        BY <1>16 DEF close, WorkersTyped, Goto, WorkerLocation
    <2>4. RequestsTyped'
        BY <1>16, SubjectType DEF close, RequestsTyped, TablesTyped,
           request
    <2>5. CountsTyped'
        BY <1>16, SubjectType DEF close, CountsTyped, history, WorkersTyped
    <2>6. QED
        BY <2>1, <2>2, <2>3, <2>4, <2>5
<1>17. ASSUME NEW w \in Workers, ack(w)
      PROVE  TypeOK'
    <2>1. TablesTyped' /\ ServicesTyped' /\ RequestsTyped' /\ CountsTyped'
        BY <1>17, FrameTables, FrameServices, FrameRequests, FrameCounts
           DEF ack, tables, request, history
    <2>2. WorkersTyped'
        BY <1>17, ReleaseTypes DEF ack
    <2>3. QED
        BY <2>1, <2>2
<1>18. ASSUME NEW w \in Workers, task_raises(w)
      PROVE  TypeOK'
    <2>1. TablesTyped' /\ ServicesTyped' /\ RequestsTyped'
        BY <1>18, FrameTables, FrameServices, FrameRequests DEF
           task_raises, tables, request
    <2>2. WorkersTyped'
        BY <1>18, ReleaseTypes DEF task_raises
    <2>3. CountsTyped'
        BY <1>18, SubjectType DEF task_raises, CountsTyped, history,
           WorkersTyped
    <2>4. QED
        BY <2>1, <2>2, <2>3
<1>19. ASSUME NEW w \in Workers, crash(w)
      PROVE  TypeOK'
    <2>1. TablesTyped' /\ RequestsTyped'
        BY <1>19, FrameTables, FrameRequests DEF crash, tables, request
    <2>2. ServicesTyped'
        BY <1>19, SubjectType DEF crash, requeue, ServicesTyped
    <2>3. WorkersTyped'
        BY <1>19, ReleaseTypes DEF crash
    <2>4. CountsTyped'
        BY <1>19 DEF crash, CountsTyped, history
    <2>5. QED
        BY <2>1, <2>2, <2>3, <2>4
<1>20. ASSUME NEW r \in Requests, NEW d \in Deliveries,
              send_document_endpoint(r, d)
      PROVE  TypeOK'
    <2>1. TablesTyped' /\ WorkersTyped'
        BY <1>20, FrameTables, FrameWorkers DEF send_document_endpoint,
           tables, worker
    <2>2. ServicesTyped'
        BY <1>20, QueueTypes DEF send_document_endpoint, ServicesTyped
    <2>3. RequestsTyped'
        BY <1>20 DEF send_document_endpoint, RequestsTyped,
           RequestLocation, tables
    <2>4. CountsTyped'
        BY <1>20, QueueTypes DEF send_document_endpoint, CountsTyped,
           history
    <2>5. QED
        BY <2>1, <2>2, <2>3, <2>4
<1>21. ASSUME NEW r \in Requests, send_commit(r)
      PROVE  TypeOK'
    <2>1. ServicesTyped' /\ WorkersTyped' /\ CountsTyped'
        BY <1>21, FrameServices, FrameWorkers, FrameCounts DEF send_commit,
           worker, history
    <2>2. TablesTyped'
        BY <1>21, CreateType DEF send_commit, TablesTyped, RequestsTyped
    <2>3. RequestsTyped'
        BY <1>21, FinishTypes DEF send_commit
    <2>4. QED
        BY <2>1, <2>2, <2>3
<1>22. ASSUME NEW r \in Requests, NEW d \in Deliveries, retry_read(r, d)
      PROVE  TypeOK'
    <2>1. TablesTyped' /\ ServicesTyped' /\ WorkersTyped' /\ CountsTyped'
        BY <1>22, FrameTables, FrameServices, FrameWorkers, FrameCounts DEF
           retry_read, tables, worker, history
    <2>2. RequestsTyped'
        BY <1>22 DEF retry_read, RequestsTyped, RequestLocation, tables,
           TablesTyped
    <2>3. QED
        BY <2>1, <2>2
<1>23. ASSUME NEW r \in Requests, retry_update(r)
      PROVE  TypeOK'
    <2>1. TablesTyped' /\ WorkersTyped'
        BY <1>23, FrameTables, FrameWorkers DEF retry_update, tables,
           worker
    <2>2. ServicesTyped'
        BY <1>23, QueueTypes DEF retry_update, ServicesTyped, RequestsTyped
    <2>3. RequestsTyped'
        BY <1>23, EntityTypes DEF retry_update, RequestsTyped,
           RequestLocation, tables
    <2>4. CountsTyped'
        BY <1>23, QueueTypes DEF retry_update, CountsTyped, history,
           RequestsTyped
    <2>5. QED
        BY <2>1, <2>2, <2>3, <2>4
<1>24. ASSUME NEW r \in Requests, retry_commit(r)
      PROVE  TypeOK'
    <2>1. ServicesTyped' /\ WorkersTyped' /\ CountsTyped'
        BY <1>24, FrameServices, FrameWorkers, FrameCounts DEF
           retry_commit, worker, history
    <2>2. TablesTyped'
        BY <1>24 DEF retry_commit, TablesTyped, RequestsTyped
    <2>3. RequestsTyped'
        BY <1>24, FinishTypes DEF retry_commit
    <2>4. QED
        BY <2>1, <2>2, <2>3
<1>25. ASSUME NEW r \in Requests, NEW d \in Deliveries, NEW i \in DOMAIN dlq[d],
              replay_dlq_entry(r, d, i)
      PROVE  TypeOK'
    <2>1. TablesTyped' /\ WorkersTyped'
        BY <1>25, FrameTables, FrameWorkers DEF replay_dlq_entry, tables,
           worker
    <2>2. ServicesTyped'
        BY <1>25, QueueTypes DEF replay_dlq_entry, ServicesTyped
    <2>3. RequestsTyped'
        BY <1>25 DEF replay_dlq_entry, RequestsTyped, RequestLocation,
           tables, TablesTyped
    <2>4. CountsTyped'
        BY <1>25, QueueTypes DEF replay_dlq_entry, CountsTyped, history
    <2>5. QED
        BY <2>1, <2>2, <2>3, <2>4
<1>26. ASSUME NEW r \in Requests, replay_commit(r)
      PROVE  TypeOK'
    <2>1. ServicesTyped' /\ WorkersTyped' /\ CountsTyped'
        BY <1>26, FrameServices, FrameWorkers, FrameCounts DEF
           replay_commit, worker, history
    <2>2. TablesTyped'
        <3> DEFINE rows == dlq[target[r]]
        <3> DEFINE row == mark_replayed(rows[index[r]])
        <3>1. target[r] \in Deliveries /\ index[r] \in DOMAIN rows
            BY <1>26 DEF replay_commit, RequestsTyped
        <3>2. rows \in Seq(DlqEntry) /\ index[r] \in 1..Len(rows)
            BY <3>1 DEF TablesTyped
        <3>3. row \in DlqEntry
            <4>1. rows[index[r]] \in DlqEntry
                BY <3>2, ElementOfSeq
            <4>2. QED
                BY <4>1 DEF DlqEntry, mark_replayed
        <3>4. [rows EXCEPT ![index[r]] = row] \in Seq(DlqEntry)
            BY <3>2, <3>3, ExceptSeq
        <3>5. QED
            BY <1>26, <3>1, <3>4 DEF replay_commit, TablesTyped
    <2>3. RequestsTyped'
        BY <1>26, CreateType DEF replay_commit, Finish, RequestsTyped,
           RequestLocation, TablesTyped
    <2>4. QED
        BY <2>1, <2>2, <2>3
<1>27. ASSUME NEW r \in Requests, rollback(r)
      PROVE  TypeOK'
    <2>1. TablesTyped' /\ ServicesTyped' /\ WorkersTyped' /\ CountsTyped'
        BY <1>27, FrameTables, FrameServices, FrameWorkers, FrameCounts DEF
           rollback, tables, worker, history
    <2>2. RequestsTyped'
        BY <1>27, FinishTypes DEF rollback, tables
    <2>3. QED
        BY <2>1, <2>2
<1>28. CASE activate_account
    <2>1. ServicesTyped' /\ WorkersTyped' /\ RequestsTyped' /\ CountsTyped'
        BY <1>28, FrameServices, FrameWorkers, FrameRequests, FrameCounts
           DEF activate_account, tables, worker, request, history
    <2>2. TablesTyped'
        BY <1>28 DEF activate_account, TablesTyped
    <2>3. QED
        BY <2>1, <2>2
<1>29. CASE deactivate_account
    <2>1. ServicesTyped' /\ WorkersTyped' /\ RequestsTyped' /\ CountsTyped'
        BY <1>29, FrameServices, FrameWorkers, FrameRequests, FrameCounts
           DEF deactivate_account, tables, worker, request, history
    <2>2. TablesTyped'
        BY <1>29 DEF deactivate_account, TablesTyped
    <2>3. QED
        BY <2>1, <2>2
<1>30. CASE UNCHANGED vars
    BY <1>30, FrameTables, FrameServices, FrameWorkers, FrameRequests,
       FrameCounts DEF vars, tables, worker, request, history
<1>31. QED
    BY <1>1, <1>2, <1>3, <1>4, <1>5, <1>6, <1>7, <1>8, <1>9, <1>10, <1>11,
       <1>12, <1>13, <1>14, <1>15, <1>16, <1>17, <1>18, <1>19, <1>20,
       <1>21, <1>22, <1>23, <1>24, <1>25, <1>26, <1>27, <1>28, <1>29, <1>30
       DEF Next, WorkerStep, WorkerFault, RequestStep, RequestBegins

\* The state keeps its types; a busy worker holds a message, a request that is
\* in progress has its delivery, and one that replays a DLQ row has that row.
THEOREM TypeCorrect == Spec => []TypeOK
<1>1. Init => TypeOK
    <2> SUFFICES ASSUME Init PROVE TypeOK
        OBVIOUS
    <2> USE DEF Init
    <2>1. TablesTyped
        BY CreateType DEF TablesTyped
    <2>2. ServicesTyped
        BY DEF ServicesTyped
    <2>3. WorkersTyped
        BY CreateType DEF WorkersTyped, WorkerLocation
    <2>4. RequestsTyped
        BY CreateType DEF RequestsTyped, RequestLocation
    <2>5. CountsTyped
        BY DEF CountsTyped
    <2>6. QED
        BY <2>1, <2>2, <2>3, <2>4, <2>5 DEF TypeOK
<1>2. QED
    BY <1>1, TypeStep, PTL DEF Spec

-----------------------------------------------------------------------------
(* No delivery is lost silently.  NothingLostSilently is not inductive: a    *)
(* task that has committed still counts as a task until it is acknowledged.  *)
(* The invariant below counts only the tasks that have yet to commit, and    *)
(* says what the requests that have enqueued but not committed rely on.      *)

Queued(d) == \E m \in Message : m.delivery = d /\ queue[m] > 0

Working(d) ==
    \E w \in Workers : pc[w] \notin {"idle", "committed"} /\ subject(w) = d

OpenTask(d) == Queued(d) \/ Working(d)

Noticed(d) == d \in raised \/ d \in dropped

Unsettled(row) == row.unified_status \in {"PENDING", "SENDING"}

\* NothingLostSilently with the tasks that have yet to commit.
RowsCovered ==
    \A d \in stored : Unsettled(delivery[d]) => OpenTask(d) \/ Stranded(d)

\* The message a retry has enqueued waits for its commit: the row is locked.
RetryCovered ==
    \A r \in Requests :
        apc[r] = "retried" => OpenTask(target[r]) \/ Noticed(target[r])

\* The message a send has enqueued cannot be worked on before its commit.
SendCovered ==
    /\ \A r \in Requests :
           apc[r] = "sent" =>
               /\ target[r] \notin stored
               /\ dispatched[target[r]] > 0
               /\ Queued(target[r]) \/ Noticed(target[r])
    /\ \A r, q \in Requests :
           apc[r] = "sent" /\ apc[q] = "sent" /\ target[r] = target[q] => r = q
    /\ \A d \in stored : dispatched[d] > 0

\* What a worker is about to write.
OutcomeDecided ==
    \A w \in Workers :
        /\ pc[w] = "sending" => entity[w].unified_status = "SENDING"
        /\ pc[w] = "accepted" => entity[w].unified_status = "SENT"
        /\ pc[w] = "closing" /\ entity[w].unified_status = "PENDING" =>
               entity[w].next_retry_at

LossInv ==
    /\ RowsCovered
    /\ RetryCovered
    /\ SendCovered
    /\ OutcomeDecided

\* A task that has yet to commit goes on, commits, or is noticed.
LEMMA OpenTaskKept ==
    ASSUME TypeOK, [Next]_vars, NEW d \in Deliveries, OpenTask(d)
    PROVE  \/ OpenTask(d)'
           \/ d \in raised'
           \/ d \notin stored /\ d \in dropped'
           \/ \E w \in Workers :
                  /\ subject(w) = d
                  /\ fail_inactive(w) \/ postpone(w) \/ close(w)
<1> USE DEF TypeOK, OpenTask, Queued, Working, subject
<1>1. ASSUME NEW w \in Workers, NEW m \in Message,
             take_not_found(w, m) \/ take(w, m)
      PROVE  OpenTask(d)' \/ (d \notin stored /\ d \in dropped')
    <2>1. CASE m.delivery # d
        BY <1>1, <2>1 DEF take_not_found, take, ServicesTyped, WorkersTyped,
           Goto, worker
    <2>2. CASE m.delivery = d /\ take_not_found(w, m)
        BY <2>2 DEF take_not_found
    <2>3. CASE m.delivery = d /\ take(w, m)
        BY <2>3 DEF take, WorkersTyped, Goto
    <2>4. QED
        BY <1>1, <2>1, <2>2, <2>3
<1>2. ASSUME NEW w \in Workers,
             \/ load_account(w) \/ circuit_admits(w) \/ circuit_refuses(w)
             \/ start_sending(w) \/ record_failure_raises(w)
             \/ record_success(w)
      PROVE  OpenTask(d)'
    BY <1>2 DEF load_account, circuit_admits, circuit_refuses, start_sending,
       record_failure_raises, record_success, WorkersTyped, Goto
<1>3. ASSUME NEW w \in Workers,
             \/ provider_accepts(w) \/ provider_answer_lost(w)
             \/ provider_refuses(w) \/ provider_busy(w)
             \/ record_success_raises(w)
      PROVE  OpenTask(d)'
    <2>1. /\ pc[w] \notin {"idle", "committed"}
          /\ UNCHANGED <<queue, job>>
          /\ pc' = [pc EXCEPT ![w] = "accepted"] \/ pc' = [pc EXCEPT ![w] = "closing"]
        BY <1>3 DEF provider_accepts, provider_answer_lost, provider_refuses,
           provider_busy, record_success_raises, Fail, Goto
    <2>2. QED
        BY <2>1 DEF WorkersTyped
<1>4. ASSUME NEW w \in Workers, fail_inactive(w) \/ postpone(w) \/ close(w),
             subject(w) # d
      PROVE  OpenTask(d)'
    BY <1>4 DEF fail_inactive, postpone, close, WorkersTyped, Goto
<1>5. ASSUME NEW w \in Workers, ack(w)
      PROVE  OpenTask(d)'
    BY <1>5 DEF ack, Release, Goto, WorkersTyped
<1>6. ASSUME NEW w \in Workers, task_raises(w)
      PROVE  OpenTask(d)' \/ d \in raised'
    BY <1>6 DEF task_raises, Release, Goto, WorkersTyped
<1>7. ASSUME NEW w \in Workers, crash(w)
      PROVE  OpenTask(d)'
    <2>1. job[w] \in Message
        BY <1>7, SubjectType DEF crash
    <2>2. CASE subject(w) = d
        BY <1>7, <2>1, <2>2 DEF crash, requeue, ServicesTyped
    <2>3. CASE subject(w) # d
        BY <1>7, <2>1, <2>3 DEF crash, requeue, Release, Goto, ServicesTyped,
           WorkersTyped
    <2>4. QED
        BY <2>2, <2>3
<1>8. ASSUME NEW e \in Deliveries, NEW bytes \in {"file", "empty"},
             apply_async(e, bytes), UNCHANGED worker
      PROVE  OpenTask(d)'
    <2> DEFINE m == [delivery |-> e, bytes |-> bytes]
    <2>1. m \in Message
        BY DEF Message
    <2>2. queue' = [queue EXCEPT ![m] = @ + 1]
        BY <1>8 DEF apply_async
    <2>3. QED
        BY <1>8, <2>1, <2>2 DEF worker, ServicesTyped
<1>9. ASSUME UNCHANGED <<queue, worker>>
      PROVE  OpenTask(d)'
    BY <1>9 DEF worker
<1>10. ASSUME NEW r \in Requests, RequestStep(r)
       PROVE  OpenTask(d)'
    <2>1. CASE retry_update(r)
        BY <1>8, <2>1 DEF retry_update, RequestsTyped
    <2>2. CASE send_commit(r) \/ retry_commit(r) \/ replay_commit(r) \/ rollback(r)
        BY <1>9, <2>2 DEF send_commit, retry_commit, replay_commit, rollback
    <2>3. QED
        BY <1>10, <2>1, <2>2 DEF RequestStep
<1>11. ASSUME NEW r \in Requests, RequestBegins(r)
       PROVE  OpenTask(d)'
    <2>1. ASSUME NEW e \in Deliveries, send_document_endpoint(r, e)
          PROVE  OpenTask(d)'
        BY <1>8, <2>1 DEF send_document_endpoint
    <2>2. ASSUME NEW e \in Deliveries, retry_read(r, e)
          PROVE  OpenTask(d)'
        BY <1>9, <2>2 DEF retry_read
    <2>3. ASSUME NEW e \in Deliveries, NEW i \in DOMAIN dlq[e],
                 replay_dlq_entry(r, e, i)
          PROVE  OpenTask(d)'
        BY <1>8, <2>3 DEF replay_dlq_entry
    <2>4. QED
        BY <1>11, <2>1, <2>2, <2>3 DEF RequestBegins
<1>12. CASE activate_account \/ deactivate_account \/ UNCHANGED vars
    BY <1>9, <1>12 DEF activate_account, deactivate_account, vars
<1>13. QED
    BY <1>1, <1>2, <1>3, <1>4, <1>5, <1>6, <1>7, <1>10, <1>11, <1>12
       DEF Next, WorkerStep, WorkerFault

\* Tasks that ended by an exception or found no row stay noticed.
LEMMA TracesStay ==
    ASSUME [Next]_vars
    PROVE  raised \subseteq raised' /\ dropped \subseteq dropped'
BY DEF Next, WorkerStep, WorkerFault, RequestStep, RequestBegins,
   take_not_found, take, load_account, fail_inactive, circuit_admits,
   circuit_refuses, postpone, start_sending, provider_accepts,
   provider_answer_lost, provider_refuses, provider_busy,
   record_failure_raises, record_success, record_success_raises, close,
   ack, task_raises, crash, send_document_endpoint, send_commit,
   retry_read, retry_update, retry_commit, replay_dlq_entry,
   replay_commit, rollback, activate_account, deactivate_account,
   history, vars

LEMMA NoticedKept ==
    ASSUME [Next]_vars, NEW d, Noticed(d)
    PROVE  Noticed(d)'
BY TracesStay DEF Noticed

\* What a worker is about to write stays decided until it is written.
LEMMA OutcomeDecidedStep ==
    ASSUME TypeOK, OutcomeDecided, [Next]_vars
    PROVE  OutcomeDecided'
<1> USE DEF OutcomeDecided, TypeOK, WorkersTyped, Goto
<1>1. ASSUME NEW w \in Workers, NEW m \in Message,
             take_not_found(w, m) \/ take(w, m)
      PROVE  OutcomeDecided'
    BY <1>1 DEF take_not_found, take, worker
<1>2. ASSUME NEW w \in Workers,
             \/ load_account(w) \/ fail_inactive(w) \/ circuit_admits(w)
             \/ circuit_refuses(w) \/ postpone(w) \/ close(w)
      PROVE  OutcomeDecided'
    BY <1>2 DEF load_account, fail_inactive, circuit_admits, circuit_refuses,
       postpone, close
<1>3. ASSUME NEW w \in Workers, start_sending(w)
      PROVE  OutcomeDecided'
    BY <1>3 DEF start_sending, mark_sending, Delivery
<1>4. ASSUME NEW w \in Workers, record_failure_raises(w)
      PROVE  OutcomeDecided'
    BY <1>4 DEF record_failure_raises
<1>5. ASSUME NEW w \in Workers, NEW code, NEW retryable, Fail(w, code, retryable)
      PROVE  OutcomeDecided'
    BY <1>5 DEF Fail, mark_failed, Delivery
<1>6. ASSUME NEW w \in Workers,
             \/ provider_answer_lost(w) \/ provider_refuses(w)
             \/ record_success_raises(w)
      PROVE  OutcomeDecided'
    BY <1>5, <1>6 DEF provider_answer_lost, provider_refuses,
       record_success_raises
<1>7. ASSUME NEW w \in Workers, provider_busy(w)
      PROVE  OutcomeDecided'
    <2>1. CASE should_retry(entity[w].retry_count)
        <3>1. /\ entity' = [entity EXCEPT ![w] = schedule_retry(entity[w])]
              /\ pc' = [pc EXCEPT ![w] = "closing"]
            BY <1>7, <2>1 DEF provider_busy
        <3>2. schedule_retry(entity[w]).next_retry_at
            BY DEF schedule_retry, Delivery
        <3>3. QED
            BY <3>1, <3>2
    <2>2. CASE ~should_retry(entity[w].retry_count)
        BY <1>5, <1>7, <2>2 DEF provider_busy
    <2>3. QED
        BY <2>1, <2>2
<1>8. ASSUME NEW w \in Workers, provider_accepts(w) \/ record_success(w)
      PROVE  OutcomeDecided'
    <2>1. CASE provider_accepts(w)
        <3>1. PICK id \in {0, Len(inbox[subject(w)]) + 1} :
                  /\ entity' = [entity EXCEPT ![w] = mark_sent(entity[w], id)]
                  /\ pc' = [pc EXCEPT ![w] = "accepted"]
            BY <2>1 DEF provider_accepts
        <3>2. mark_sent(entity[w], id).unified_status = "SENT"
            BY DEF mark_sent, Delivery
        <3>3. QED
            BY <3>1, <3>2
    <2>2. CASE record_success(w)
        BY <2>2 DEF record_success
    <2>3. QED
        BY <1>8, <2>1, <2>2
<1>9. ASSUME NEW w \in Workers, ack(w) \/ task_raises(w) \/ crash(w)
      PROVE  OutcomeDecided'
    BY <1>9 DEF ack, task_raises, crash, Release
<1>10. CASE UNCHANGED worker
    BY <1>10 DEF worker
<1>11. ASSUME NEW r \in Requests, RequestStep(r) \/ RequestBegins(r)
       PROVE  UNCHANGED worker
    BY <1>11 DEF RequestStep, RequestBegins, send_document_endpoint,
       send_commit, retry_read, retry_update, retry_commit, replay_dlq_entry,
       replay_commit, rollback
<1>12. CASE activate_account \/ deactivate_account \/ UNCHANGED vars
    BY <1>10, <1>12 DEF activate_account, deactivate_account, vars
<1>13. QED
    BY <1>1, <1>2, <1>3, <1>4, <1>6, <1>7, <1>8, <1>9, <1>10, <1>11, <1>12
       DEF Next, WorkerStep, WorkerFault

\* A send that has enqueued its message: its delivery has no row, so that no
\* worker can take the message away unnoticed, and no other send commits it.
LEMMA SendCoveredStep ==
    ASSUME TypeOK, SendCovered, [Next]_vars
    PROVE  SendCovered'
<1> USE DEF SendCovered, TypeOK, Queued
<1>1. ASSUME NEW w \in Workers, NEW m \in Message, take_not_found(w, m)
      PROVE  SendCovered'
    BY <1>1 DEF take_not_found, tables, request, ServicesTyped, RequestsTyped,
       Noticed
<1>2. ASSUME NEW w \in Workers, NEW m \in Message, take(w, m)
      PROVE  SendCovered'
    BY <1>2 DEF take, tables, request, history, ServicesTyped, RequestsTyped,
       Noticed
<1>3. ASSUME UNCHANGED <<stored, queue, request, dispatched>>
      PROVE  SendCovered'
    BY <1>3, NoticedKept DEF request
<1>4. ASSUME NEW w \in Workers,
             \/ load_account(w) \/ fail_inactive(w) \/ circuit_admits(w)
             \/ circuit_refuses(w) \/ postpone(w) \/ start_sending(w)
             \/ provider_accepts(w) \/ provider_answer_lost(w)
             \/ provider_refuses(w) \/ provider_busy(w)
             \/ record_failure_raises(w) \/ record_success(w)
             \/ record_success_raises(w) \/ close(w) \/ ack(w)
             \/ task_raises(w)
      PROVE  UNCHANGED <<stored, queue, request, dispatched>>
    BY <1>4 DEF load_account, fail_inactive, circuit_admits, circuit_refuses,
       postpone, start_sending, provider_accepts, provider_answer_lost,
       provider_refuses, provider_busy, record_failure_raises, record_success,
       record_success_raises, close, ack, task_raises, tables
<1>5. ASSUME NEW w \in Workers, crash(w)
      PROVE  SendCovered'
    <2>1. job[w] \in Message
        BY <1>5, SubjectType DEF crash
    <2>2. /\ UNCHANGED <<stored, request, dispatched>>
          /\ queue' = [queue EXCEPT ![job[w]] = @ + 1]
        BY <1>5 DEF crash, requeue, tables
    <2>3. \A d : Queued(d) => Queued(d)'
        BY <2>1, <2>2 DEF ServicesTyped
    <2>4. QED
        BY <2>2, <2>3, NoticedKept DEF request
<1>6. ASSUME NEW r \in Requests, NEW d \in Deliveries,
             NEW bytes \in {"file", "empty"}, apply_async(d, bytes)
      PROVE  /\ \A e : Queued(e) => Queued(e)'
             /\ Queued(d)'
             /\ \A e \in Deliveries : dispatched[e] > 0 => dispatched'[e] > 0
             /\ dispatched'[d] > 0
    <2> DEFINE m == [delivery |-> d, bytes |-> bytes]
    <2>1. m \in Message /\ m.delivery = d
        BY DEF Message
    <2>2. /\ queue' = [queue EXCEPT ![m] = @ + 1]
          /\ dispatched' = [dispatched EXCEPT ![d] = @ + 1]
        BY <1>6 DEF apply_async
    <2>3. \A e : Queued(e) => Queued(e)'
        BY <2>1, <2>2 DEF ServicesTyped
    <2>4. Queued(d)'
        BY <2>1, <2>2 DEF ServicesTyped
    <2>5. QED
        BY <2>2, <2>3, <2>4 DEF CountsTyped
<1>7. ASSUME NEW r \in Requests, NEW d \in Deliveries,
             send_document_endpoint(r, d)
      PROVE  SendCovered'
    <2>1. /\ \A e : Queued(e) => Queued(e)'
          /\ Queued(d)'
          /\ \A e \in Deliveries : dispatched[e] > 0 => dispatched'[e] > 0
          /\ dispatched'[d] > 0
        BY <1>6, <1>7 DEF send_document_endpoint
    <2>2. /\ apc[r] = "idle"
          /\ apc' = [apc EXCEPT ![r] = "sent"]
          /\ target' = [target EXCEPT ![r] = d]
          /\ dispatched[d] = 0
          /\ UNCHANGED stored
        BY <1>7 DEF send_document_endpoint, tables
    <2>3. d \notin stored
        BY <2>2
    <2>4. \A q \in Requests : apc[q] = "sent" => target[q] # d
        BY <2>2
    <2>5. ASSUME NEW q \in Requests, apc'[q] = "sent"
          PROVE  q = r \/ (apc[q] = "sent" /\ target'[q] = target[q])
        BY <2>2, <2>5 DEF RequestsTyped
    <2>6. ASSUME NEW q \in Requests, apc'[q] = "sent"
          PROVE  /\ target'[q] \notin stored'
                 /\ dispatched'[target'[q]] > 0
                 /\ Queued(target[q])' \/ Noticed(target[q])'
        <3>1. CASE q = r
            BY <2>1, <2>2, <2>3, <3>1 DEF RequestsTyped
        <3>2. CASE q # r
            BY <2>1, <2>2, <2>5, <2>6, <3>2, NoticedKept DEF RequestsTyped
        <3>3. QED
            BY <3>1, <3>2
    <2>7. \A e \in stored' : dispatched'[e] > 0
        BY <2>1, <2>2 DEF TablesTyped
    <2>8. ASSUME NEW q \in Requests, NEW p \in Requests, apc'[q] = "sent",
                 apc'[p] = "sent", target'[q] = target'[p]
          PROVE  q = p
        BY <2>2, <2>4, <2>5, <2>8 DEF RequestsTyped
    <2>9. QED
        BY <2>6, <2>7, <2>8
<1>8. ASSUME NEW r \in Requests, retry_update(r)
      PROVE  SendCovered'
    <2>1. /\ \A e : Queued(e) => Queued(e)'
          /\ \A e \in Deliveries : dispatched[e] > 0 => dispatched'[e] > 0
        BY <1>6, <1>8 DEF retry_update, RequestsTyped
    <2>2. /\ apc' = [apc EXCEPT ![r] = "retried"]
          /\ UNCHANGED <<stored, target>>
        BY <1>8 DEF retry_update, tables
    <2>3. ASSUME NEW q \in Requests, apc'[q] = "sent"
          PROVE  apc[q] = "sent" /\ target'[q] = target[q]
        BY <2>2, <2>3 DEF RequestsTyped
    <2>4. ASSUME NEW q \in Requests, apc'[q] = "sent"
          PROVE  /\ target'[q] \notin stored'
                 /\ dispatched'[target'[q]] > 0
                 /\ Queued(target[q])' \/ Noticed(target[q])'
        <3>1. target[q] \in Deliveries
            BY <2>3, <2>4 DEF RequestsTyped
        <3>2. /\ target[q] \notin stored
              /\ dispatched[target[q]] > 0
              /\ Queued(target[q]) \/ Noticed(target[q])
            BY <2>3, <2>4
        <3>3. Noticed(target[q]) => Noticed(target[q])'
            BY <2>3, <2>4, <3>1, NoticedKept
        <3>4. target[q] \notin stored' /\ dispatched'[target[q]] > 0
            BY <2>1, <2>2, <3>1, <3>2
        <3>5. QED
            BY <2>1, <2>3, <2>4, <3>2, <3>3, <3>4
    <2>5. \A d \in stored' : dispatched'[d] > 0
        BY <2>1, <2>2 DEF TablesTyped
    <2>6. QED
        BY <2>2, <2>3, <2>4, <2>5
<1>9. ASSUME NEW r \in Requests, NEW d \in Deliveries, NEW i \in DOMAIN dlq[d],
             replay_dlq_entry(r, d, i)
      PROVE  SendCovered'
    <2>1. /\ \A e : Queued(e) => Queued(e)'
          /\ \A e \in Deliveries : dispatched[e] > 0 => dispatched'[e] > 0
        BY <1>6, <1>9 DEF replay_dlq_entry
    <2>2. /\ apc' = [apc EXCEPT ![r] = "replayed"]
          /\ target' = [target EXCEPT ![r] = d]
          /\ UNCHANGED stored
        BY <1>9 DEF replay_dlq_entry, tables
    <2>3. ASSUME NEW q \in Requests, apc'[q] = "sent"
          PROVE  apc[q] = "sent" /\ target'[q] = target[q]
        BY <2>2, <2>3 DEF RequestsTyped
    <2>4. ASSUME NEW q \in Requests, apc'[q] = "sent"
          PROVE  /\ target'[q] \notin stored'
                 /\ dispatched'[target'[q]] > 0
                 /\ Queued(target[q])' \/ Noticed(target[q])'
        <3>1. target[q] \in Deliveries
            BY <2>3, <2>4 DEF RequestsTyped
        <3>2. /\ target[q] \notin stored
              /\ dispatched[target[q]] > 0
              /\ Queued(target[q]) \/ Noticed(target[q])
            BY <2>3, <2>4
        <3>3. Noticed(target[q]) => Noticed(target[q])'
            BY <2>3, <2>4, <3>1, NoticedKept
        <3>4. target[q] \notin stored' /\ dispatched'[target[q]] > 0
            BY <2>1, <2>2, <3>1, <3>2
        <3>5. QED
            BY <2>1, <2>3, <2>4, <3>2, <3>3, <3>4
    <2>5. \A e \in stored' : dispatched'[e] > 0
        BY <2>1, <2>2 DEF TablesTyped
    <2>6. QED
        BY <2>2, <2>3, <2>4, <2>5
<1>10. ASSUME NEW r \in Requests, NEW d \in Deliveries, retry_read(r, d)
       PROVE  SendCovered'
    <2>1. /\ \A e : Queued(e) => Queued(e)'
          /\ UNCHANGED dispatched
        BY <1>10 DEF retry_read, Queued
    <2>2. /\ apc' = [apc EXCEPT ![r] = "retrying"]
          /\ target' = [target EXCEPT ![r] = d]
          /\ UNCHANGED stored
        BY <1>10 DEF retry_read, tables
    <2>3. ASSUME NEW q \in Requests, apc'[q] = "sent"
          PROVE  apc[q] = "sent" /\ target'[q] = target[q]
        BY <2>2, <2>3 DEF RequestsTyped
    <2>4. ASSUME NEW q \in Requests, apc'[q] = "sent"
          PROVE  /\ target'[q] \notin stored'
                 /\ dispatched'[target'[q]] > 0
                 /\ Queued(target[q])' \/ Noticed(target[q])'
        <3>1. target[q] \in Deliveries
            BY <2>3, <2>4 DEF RequestsTyped
        <3>2. /\ target[q] \notin stored
              /\ dispatched[target[q]] > 0
              /\ Queued(target[q]) \/ Noticed(target[q])
            BY <2>3, <2>4
        <3>3. Noticed(target[q]) => Noticed(target[q])'
            BY <2>3, <2>4, <3>1, NoticedKept
        <3>4. target[q] \notin stored' /\ dispatched'[target[q]] > 0
            BY <2>1, <2>2, <3>1, <3>2
        <3>5. QED
            BY <2>1, <2>3, <2>4, <3>2, <3>3, <3>4
    <2>5. \A e \in stored' : dispatched'[e] > 0
        BY <2>1, <2>2 DEF TablesTyped
    <2>6. QED
        BY <2>2, <2>3, <2>4, <2>5
<1>11. ASSUME NEW r \in Requests, send_commit(r)
       PROVE  SendCovered'
    <2>1. /\ \A e : Queued(e) => Queued(e)'
          /\ UNCHANGED dispatched
        BY <1>11 DEF send_commit, Queued
    <2>2. /\ apc[r] = "sent"
          /\ apc' = [apc EXCEPT ![r] = "idle"]
          /\ target' = [target EXCEPT ![r] = Nil]
          /\ stored' = stored \cup {target[r]}
        BY <1>11 DEF send_commit, Finish
    <2>3. ASSUME NEW q \in Requests, apc'[q] = "sent"
          PROVE  q # r /\ apc[q] = "sent" /\ target'[q] = target[q]
        BY <2>2, <2>3 DEF RequestsTyped
    <2>4. ASSUME NEW q \in Requests, apc'[q] = "sent"
          PROVE  /\ target'[q] \notin stored'
                 /\ dispatched'[target'[q]] > 0
                 /\ Queued(target[q])' \/ Noticed(target[q])'
        <3>1. target[q] # target[r]
            BY <2>2, <2>3, <2>4
        <3>2. QED
            BY <2>1, <2>2, <2>3, <2>4, <3>1, NoticedKept
    <2>5. \A e \in stored' : dispatched'[e] > 0
        BY <2>1, <2>2 DEF TablesTyped
    <2>6. QED
        BY <2>2, <2>3, <2>4, <2>5
<1>12. ASSUME NEW r \in Requests,
              retry_commit(r) \/ replay_commit(r) \/ rollback(r)
       PROVE  SendCovered'
    <2>1. Finish(r) /\ UNCHANGED <<stored, queue, dispatched>>
        BY <1>12 DEF retry_commit, replay_commit, rollback, tables
    <2>2. /\ \A e : Queued(e) => Queued(e)'
          /\ apc' = [apc EXCEPT ![r] = "idle"]
          /\ target' = [target EXCEPT ![r] = Nil]
        BY <2>1 DEF Finish, Queued
    <2>3. ASSUME NEW q \in Requests, apc'[q] = "sent"
          PROVE  apc[q] = "sent" /\ target'[q] = target[q]
        BY <2>2, <2>3 DEF RequestsTyped
    <2>4. ASSUME NEW q \in Requests, apc'[q] = "sent"
          PROVE  /\ target'[q] \notin stored'
                 /\ dispatched'[target'[q]] > 0
                 /\ Queued(target[q])' \/ Noticed(target[q])'
        BY <2>1, <2>2, <2>3, <2>4, NoticedKept
    <2>5. \A e \in stored' : dispatched'[e] > 0
        BY <2>1
    <2>6. QED
        BY <2>2, <2>3, <2>4, <2>5
<1>13. CASE activate_account \/ deactivate_account \/ UNCHANGED vars
    BY <1>3, <1>13 DEF activate_account, deactivate_account, vars, tables
<1>14. QED
    BY <1>1, <1>2, <1>3, <1>4, <1>5, <1>7, <1>8, <1>9, <1>10, <1>11, <1>12,
       <1>13 DEF Next, WorkerStep, WorkerFault, RequestStep, RequestBegins

\* A retry that has enqueued its message holds the row's lock: no task for the
\* delivery can commit before it.
LEMMA RetryCoveredStep ==
    ASSUME TypeOK, RetryCovered, [Next]_vars
    PROVE  RetryCovered'
<1> USE DEF RetryCovered
<1>1. ASSUME NEW r \in Requests, apc[r] = "retried", apc'[r] = "retried",
             target'[r] = target[r]
      PROVE  OpenTask(target[r])' \/ Noticed(target[r])'
    <2>1. target[r] \in Deliveries
        BY <1>1 DEF TypeOK, RequestsTyped
    <2>2. Locked(target[r])
        BY <1>1 DEF Locked
    <2>3. ~ \E w \in Workers : /\ subject(w) = target[r]
                               /\ fail_inactive(w) \/ postpone(w) \/ close(w)
        BY <2>2 DEF fail_inactive, postpone, close, update
    <2>4. QED
        BY <1>1, <2>1, <2>3, OpenTaskKept, NoticedKept DEF Noticed
<1>2. ASSUME NEW r \in Requests, retry_update(r)
      PROVE  OpenTask(target[r])'
    <2> DEFINE m == [delivery |-> target[r], bytes |-> "empty"]
    <2>1. m \in Message
        BY <1>2 DEF retry_update, TypeOK, RequestsTyped, Message
    <2>2. queue' = [queue EXCEPT ![m] = @ + 1] /\ UNCHANGED target
        BY <1>2 DEF retry_update, apply_async
    <2>3. QED
        BY <2>1, <2>2 DEF OpenTask, Queued, TypeOK, ServicesTyped
<1>3. ASSUME NEW r \in Requests, apc'[r] = "retried"
      PROVE  /\ target'[r] = target[r]
             /\ apc[r] = "retried" \/ retry_update(r)
    <2> USE <1>3 DEF TypeOK, RequestsTyped
    <2>1. ASSUME NEW q \in Requests, RequestStep(q)
          PROVE  target'[r] = target[r] /\ (apc[r] = "retried" \/ retry_update(r))
        BY <2>1 DEF RequestStep, send_commit, retry_update, retry_commit,
           replay_commit, rollback, Finish
    <2>2. ASSUME NEW q \in Requests, RequestBegins(q)
          PROVE  target'[r] = target[r] /\ apc[r] = "retried"
        BY <2>2 DEF RequestBegins, send_document_endpoint, retry_read,
           replay_dlq_entry
    <2>3. CASE UNCHANGED request
        BY <2>3 DEF request
    <2>4. ASSUME NEW w \in Workers, WorkerStep(w) \/ WorkerFault(w)
          PROVE  UNCHANGED request
        BY <2>4 DEF WorkerStep, WorkerFault, take_not_found, take,
           load_account, fail_inactive, circuit_admits, circuit_refuses,
           postpone, start_sending, provider_accepts, provider_answer_lost,
           provider_refuses, provider_busy, record_failure_raises,
           record_success, record_success_raises, close, ack, task_raises,
           crash
    <2>5. CASE activate_account \/ deactivate_account \/ UNCHANGED vars
        BY <2>5 DEF activate_account, deactivate_account, vars, request
    <2>6. QED
        BY <2>1, <2>2, <2>3, <2>4, <2>5 DEF Next
<1>4. QED
    BY <1>1, <1>2, <1>3 DEF OpenTask, Queued, Working, Noticed, subject

\* The steps that write the row of d.
WorkerWrites(w, d) ==
    /\ subject(w) = d
    /\ fail_inactive(w) \/ postpone(w) \/ close(w)

Starts(w, d) == subject(w) = d /\ start_sending(w)

RequestWrites(r, d) == target[r] = d /\ (send_commit(r) \/ retry_commit(r))

\* No other step writes it.
LEMMA RowKept ==
    ASSUME TypeOK, [Next]_vars, NEW d \in Deliveries,
           \A w \in Workers : ~WorkerWrites(w, d) /\ ~Starts(w, d),
           \A r \in Requests : ~RequestWrites(r, d)
    PROVE  delivery'[d] = delivery[d] /\ (d \in stored' => d \in stored)
<1> USE DEF TypeOK, TablesTyped
<1>1. ASSUME NEW w \in Workers,
             \/ fail_inactive(w) \/ postpone(w) \/ start_sending(w) \/ close(w)
      PROVE  delivery'[d] = delivery[d] /\ UNCHANGED stored
    <2>1. subject(w) # d
        BY <1>1 DEF WorkerWrites, Starts
    <2>2. UNCHANGED stored /\ \E row : update(subject(w), row)
        BY <1>1 DEF fail_inactive, postpone, start_sending, close
    <2>3. QED
        BY <2>1, <2>2 DEF update
<1>2. ASSUME NEW r \in Requests, send_commit(r) \/ retry_commit(r)
      PROVE  delivery'[d] = delivery[d] /\ (d \in stored' => d \in stored)
    <2>1. target[r] # d
        BY <1>2 DEF RequestWrites
    <2>2. QED
        BY <1>2, <2>1 DEF send_commit, retry_commit
<1>3. ASSUME ~ \E w \in Workers : \/ fail_inactive(w) \/ postpone(w)
                                  \/ start_sending(w) \/ close(w),
             ~ \E r \in Requests : send_commit(r) \/ retry_commit(r)
      PROVE  UNCHANGED <<stored, delivery>>
    BY <1>3 DEF Next, WorkerStep, WorkerFault, RequestStep, RequestBegins,
       take_not_found, take, load_account, circuit_admits, circuit_refuses,
       provider_accepts, provider_answer_lost, provider_refuses,
       provider_busy, record_failure_raises, record_success,
       record_success_raises, ack, task_raises, crash,
       send_document_endpoint, retry_read, retry_update, replay_dlq_entry,
       replay_commit, rollback, activate_account, deactivate_account, tables,
       vars
<1>4. QED
    BY <1>1, <1>2, <1>3

\* Whoever writes a row leaves it settled, noticed, waiting for a retry, or
\* with a task; whoever leaves it alone keeps its tasks, or is noticed.
LEMMA RowsCoveredStep ==
    ASSUME TypeOK, LossInv, [Next]_vars
    PROVE  RowsCovered'
<1>1. SUFFICES ASSUME NEW d \in Deliveries, d \in stored',
                      Unsettled(delivery[d])'
               PROVE  OpenTask(d)' \/ Stranded(d)'
    BY TypeStep DEF RowsCovered, TypeOK, TablesTyped
<1>2. Noticed(d) => Stranded(d)'
    BY NoticedKept DEF Noticed, Stranded
<1>3. ASSUME NEW w \in Workers, WorkerWrites(w, d)
      PROVE  Stranded(d)'
    <2> USE <1>1, <1>3 DEF WorkerWrites, Unsettled, Stranded, update, TypeOK,
                           TablesTyped, WorkersTyped
    <2>1. ASSUME fail_inactive(w)
          PROVE  FALSE
        <3> DEFINE row == mark_failed(entity[w], "PROVIDER_ACCOUNT_INACTIVE")
        <3>1. delivery'[d] = row
            BY <2>1 DEF fail_inactive
        <3>2. row.unified_status = "FAILED"
            BY DEF mark_failed, Delivery
        <3>3. QED
            BY <3>1, <3>2
    <2>2. ASSUME postpone(w)
          PROVE  delivery'[d].next_retry_at
        <3> DEFINE failed == mark_failed(entity[w], "CIRCUIT_OPEN")
        <3>1. delivery'[d] = schedule_retry(failed)
            BY <2>2 DEF postpone
        <3>2. failed \in Delivery
            BY EntityTypes DEF ErrorCode
        <3>3. schedule_retry(failed).next_retry_at
            BY <3>2 DEF schedule_retry, Delivery
        <3>4. QED
            BY <3>1, <3>3
    <2>3. ASSUME close(w)
          PROVE  delivery'[d].next_retry_at \/ d \in raised'
        <3>1. delivery'[d] = entity[w] /\ pc[w] = "closing"
            BY <2>3 DEF close
        <3>2. CASE entity[w].unified_status = "PENDING"
            BY <3>1, <3>2 DEF LossInv, OutcomeDecided
        <3>3. CASE entity[w].unified_status = "SENDING"
            BY <2>3, <3>3 DEF close
        <3>4. QED
            BY <3>1, <3>2, <3>3
    <2>4. QED
        BY <2>1, <2>2, <2>3
<1>4. ASSUME NEW w \in Workers, Starts(w, d)
      PROVE  OpenTask(d)'
    BY <1>4 DEF Starts, start_sending, Goto, OpenTask, Working, subject,
       TypeOK, WorkersTyped
<1>5. ASSUME NEW r \in Requests, RequestWrites(r, d)
      PROVE  OpenTask(d)' \/ Stranded(d)'
    <2>1. OpenTask(d) \/ Noticed(d)
        BY <1>5 DEF RequestWrites, send_commit, retry_commit, LossInv,
           SendCovered, RetryCovered, OpenTask
    <2>2. UNCHANGED <<queue, worker>>
        BY <1>5 DEF RequestWrites, send_commit, retry_commit
    <2>3. OpenTask(d) => OpenTask(d)'
        BY <2>2 DEF OpenTask, Queued, Working, subject, worker
    <2>4. QED
        BY <1>2, <2>1, <2>3
<1>6. CASE /\ \A w \in Workers : ~WorkerWrites(w, d) /\ ~Starts(w, d)
           /\ \A r \in Requests : ~RequestWrites(r, d)
    <2>1. delivery'[d] = delivery[d] /\ d \in stored
        BY <1>1, <1>6, RowKept
    <2>2. OpenTask(d) \/ Stranded(d)
        BY <1>1, <2>1 DEF LossInv, RowsCovered, Unsettled
    <2>3. ASSUME OpenTask(d)
          PROVE  OpenTask(d)' \/ Noticed(d)'
        BY <1>6, <2>3, OpenTaskKept DEF WorkerWrites, Noticed
    <2>4. QED
        BY <1>2, <2>1, <2>2, <2>3 DEF Stranded, Noticed
<1>7. QED
    BY <1>3, <1>4, <1>5, <1>6

\* The strengthening is inductive.
LEMMA LossInvariant == Spec => []LossInv
<1>1. Init => LossInv
    BY DEF Init, LossInv, RowsCovered, RetryCovered, SendCovered,
       OutcomeDecided
<1>2. TypeOK /\ LossInv /\ [Next]_vars => LossInv'
    BY RowsCoveredStep, RetryCoveredStep, SendCoveredStep, OutcomeDecidedStep
       DEF LossInv
<1>3. QED
    BY <1>1, <1>2, TypeCorrect, PTL DEF Spec

\* However many workers, requests and deliveries there are, however often
\* workers are killed and rows are written over from stale copies: an unsettled
\* delivery has a task, or is stranded in a way that left a trace.
THEOREM NothingLost == Spec => []NothingLostSilently
<1>1. TypeOK /\ LossInv => NothingLostSilently
    BY DEF LossInv, RowsCovered, Unsettled, OpenTask, Queued, Working, HasTask,
       NothingLostSilently
<1>2. QED
    BY <1>1, TypeCorrect, LossInvariant, PTL

=============================================================================
