----------------------- MODULE DocumentDeliveryProofs -----------------------
(***************************************************************************)
(* What the operations of the delivery entity return, for the proofs about *)
(* the modules that use it.                                                *)
(***************************************************************************)
EXTENDS DocumentDelivery, TLAPS

\* A new delivery, and what every operation of the entity returns.
LEMMA CreateType == create \in Delivery
BY DEF create, Delivery, ErrorCode, UnifiedDocumentStatus

LEMMA EntityTypes ==
    ASSUME NEW x \in Delivery
    PROVE  /\ mark_sending(x) \in Delivery
           /\ \A id \in Nat : mark_sent(x, id) \in Delivery
           /\ \A code \in ErrorCode : mark_failed(x, code) \in Delivery
           /\ schedule_retry(x) \in Delivery
           /\ force_pending(x) \in Delivery
<1> USE DEF Delivery, ErrorCode, UnifiedDocumentStatus
<1>1. mark_sending(x) \in Delivery
    BY DEF mark_sending
<1>2. ASSUME NEW id \in Nat
      PROVE  mark_sent(x, id) \in Delivery
    BY DEF mark_sent
<1>3. ASSUME NEW code \in ErrorCode
      PROVE  mark_failed(x, code) \in Delivery
    BY DEF mark_failed
<1>4. schedule_retry(x) \in Delivery
    <2>1. x.retry_count + 1 \in Nat
        OBVIOUS
    <2>2. QED
        BY <2>1, Zenon DEF schedule_retry
<1>5. force_pending(x) \in Delivery
    BY DEF force_pending
<1>6. QED
    BY <1>1, <1>2, <1>3, <1>4, <1>5

\* The fields that the operations assign, and those they keep: only mark_sent
\* touches the id, only schedule_retry the count.
LEMMA SendingFields ==
    ASSUME NEW x \in Delivery
    PROVE  /\ mark_sending(x).unified_status = "SENDING"
           /\ mark_sending(x).retry_count = x.retry_count
           /\ mark_sending(x).provider_document_id = x.provider_document_id
BY DEF mark_sending, Delivery

LEMMA SentFields ==
    ASSUME NEW x \in Delivery, NEW id \in Nat
    PROVE  /\ mark_sent(x, id).unified_status = "SENT"
           /\ mark_sent(x, id).retry_count = x.retry_count
           /\ mark_sent(x, id).provider_document_id = id
BY DEF mark_sent, Delivery

LEMMA FailedFields ==
    ASSUME NEW x \in Delivery, NEW code \in ErrorCode
    PROVE  /\ mark_failed(x, code).unified_status = "FAILED"
           /\ mark_failed(x, code).last_error_code = code
           /\ mark_failed(x, code).retry_count = x.retry_count
           /\ mark_failed(x, code).provider_document_id = x.provider_document_id
BY DEF mark_failed, Delivery

LEMMA ScheduledFields ==
    ASSUME NEW x \in Delivery
    PROVE  /\ schedule_retry(x).unified_status = "PENDING"
           /\ schedule_retry(x).next_retry_at = TRUE
           /\ schedule_retry(x).retry_count = x.retry_count + 1
           /\ schedule_retry(x).provider_document_id = x.provider_document_id
BY DEF schedule_retry, Delivery

LEMMA ResetFields ==
    ASSUME NEW x \in Delivery
    PROVE  /\ force_pending(x).unified_status = "PENDING"
           /\ force_pending(x).retry_count = x.retry_count
           /\ force_pending(x).provider_document_id = x.provider_document_id
BY DEF force_pending, Delivery

=============================================================================
