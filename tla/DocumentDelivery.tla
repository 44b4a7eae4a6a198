-------------------------- MODULE DocumentDelivery --------------------------
(***************************************************************************)
(* The delivery entity (domain/entities/document_delivery.py), its status  *)
(* (domain/value_objects/unified_document_status.py) and the retry budget  *)
(* (infrastructure/reliability/retry_backoff.py).                          *)
(*                                                                         *)
(* An entity is a record of the columns that SQLDeliveryRepository.update  *)
(* writes and that some property can tell apart.  next_retry_at and        *)
(* final_at are kept as "is it set"; provider_document_id is the number of *)
(* the acceptance that issued it, 0 for what no provider issued (NULL, "", *)
(* "None").  The other timestamps, the messages and provider_raw_status    *)
(* (never assigned) are left out.                                          *)
(***************************************************************************)
EXTENDS Naturals

CONSTANT MaxAttempts   \* default_retry_max_attempts

ASSUME RetryAssumption == MaxAttempts \in Nat

UnifiedDocumentStatus ==
    {"PENDING", "SENDING", "SENT", "DELIVERED", "SIGNED", "REJECTED",
     "CANCELLED", "FAILED", "UNKNOWN"}

\* last_error_code, one value for each way the code sets it.
ErrorCode ==
    {"NONE", "PROVIDER_ACCOUNT_INACTIVE", "CIRCUIT_OPEN", "TRANSIENT",
     "PERMANENT", "UNKNOWN_ERROR"}

Delivery ==
    [unified_status: UnifiedDocumentStatus,
     provider_document_id: Nat,
     retry_count: Nat,
     next_retry_at: BOOLEAN,
     last_error_code: ErrorCode,
     final_at: BOOLEAN]

create ==
    [unified_status |-> "PENDING",
     provider_document_id |-> 0,
     retry_count |-> 0,
     next_retry_at |-> FALSE,
     last_error_code |-> "NONE",
     final_at |-> FALSE]

\* A definition named Mutant... is the one after it with a bug a change to the
\* code could bring; it is used to test the properties only.
MutantMarkSending(d) == [d EXCEPT !.unified_status = "SENT"]
mark_sending(d) == [d EXCEPT !.unified_status = "SENDING"]

mark_sent(d, id) ==
    [d EXCEPT !.unified_status = "SENT", !.provider_document_id = id]

MutantMarkFailed(d, code) ==
    [d EXCEPT !.unified_status = "FAILED", !.final_at = TRUE]
mark_failed(d, code) ==
    [d EXCEPT !.unified_status = "FAILED",
              !.last_error_code = code,
              !.final_at = TRUE]

\* final_at keeps the value an earlier mark_failed gave it.
schedule_retry(d) ==
    [d EXCEPT !.unified_status = "PENDING",
              !.retry_count = @ + 1,
              !.next_retry_at = TRUE]

\* What the retry endpoint assigns to a FAILED delivery (documents.py).
force_pending(d) ==
    [d EXCEPT !.unified_status = "PENDING", !.next_retry_at = FALSE]

MutantShouldRetry(count) == count < MaxAttempts - 1
should_retry(count) == count < MaxAttempts

=============================================================================
