------------------------------- MODULE Schema -------------------------------
(***************************************************************************)
(* The tables of the adapter as the two Alembic revisions create them, as  *)
(* the ORM models describe them, and as the statements of the repositories *)
(* and scripts use them (infrastructure/database).                         *)
(*                                                                         *)
(* Of a table the model keeps what decides whether a statement or a DDL    *)
(* operation succeeds: the columns a row must supply (NOT NULL without a   *)
(* server default), those it may leave out, the unique keys besides the    *)
(* primary key, and the tables its foreign keys refer to.  Column types,   *)
(* lengths and plain indexes are left out.                                 *)
(***************************************************************************)
EXTENDS FiniteSets, Sequences

Table(mandatory, optional, unique, references) ==
    [mandatory |-> mandatory, columns |-> mandatory \cup optional,
     unique |-> unique, references |-> references]

TableNames ==
    {"tenants", "api_users", "provider_accounts", "edo_documents",
     "document_deliveries", "incoming_documents", "webhook_events",
     "dlq_entries", "provider_health_snapshots", "audit_events"}

-----------------------------------------------------------------------------
(* Revision 0001_initial_schema *)

tenants_0001 ==
    Table({"id", "inn", "name"}, {"is_active", "created_at", "updated_at"},
          {{"inn"}}, {})

api_users_0001 ==
    Table({"id", "tenant_id", "email", "password_hash"},
          {"role", "is_active", "created_at", "updated_at"},
          {{"tenant_id", "email"}}, {"tenants"})

provider_accounts_0001 ==
    Table({"id", "tenant_id", "provider_type", "display_name"},
          {"credentials", "is_active", "created_at", "updated_at"},
          {}, {"tenants"})

edo_documents_0001 ==
    Table({"id", "internal_id", "tenant_id", "document_type", "sender_inn",
           "receiver_inn"},
          {"filename", "content_type", "file_size_bytes", "sha256_checksum",
           "extra_meta", "created_at"},
          {{"tenant_id", "internal_id"}}, {"tenants"})

document_deliveries_0001 ==
    Table({"id", "document_id", "provider_account_id", "tenant_id"},
          {"status", "provider_document_id", "provider_status", "retry_count",
           "next_retry_at", "last_error", "raw_response", "created_at",
           "updated_at"},
          {{"document_id", "provider_account_id"}},
          {"edo_documents", "provider_accounts", "tenants"})

incoming_documents_0001 ==
    Table({"id", "tenant_id", "provider_account_id", "provider_document_id",
           "received_at"},
          {"sender_inn", "sender_name", "document_type", "document_date",
           "raw_payload"},
          {{"provider_document_id", "provider_account_id"}},
          {"tenants", "provider_accounts"})

webhook_events_0001 ==
    Table({"id", "tenant_id", "provider_account_id", "received_at"},
          {"provider_event_id", "event_type", "raw_payload", "processed",
           "processed_at"},
          {}, {"tenants", "provider_accounts"})

dlq_entries_0001 ==
    Table({"id", "tenant_id", "delivery_id"},
          {"error_code", "error_detail", "is_retryable", "retry_count",
           "next_retry_at", "payload_snapshot", "replayed_at", "replayed_by",
           "created_at"},
          {}, {"tenants", "document_deliveries"})

provider_health_snapshots_0001 ==
    Table({"id", "provider_account_id", "is_healthy", "checked_at"},
          {"response_time_ms", "circuit_state", "error_detail"},
          {}, {"provider_accounts"})

audit_events_0001 ==
    Table({"id", "tenant_id", "resource_type", "resource_id", "event_type"},
          {"actor_user_id", "trace_id", "payload", "created_at"},
          {}, {"tenants", "api_users"})

-----------------------------------------------------------------------------
(* Revision 0002_align_orm_schema *)

tenants_0002 ==
    Table({"id", "name", "slug"}, {"is_active", "created_at"}, {{"slug"}}, {})

api_users_0002 ==
    Table({"id", "tenant_id", "email", "hashed_password", "role"},
          {"is_active", "created_at", "updated_at"}, {}, {"tenants"})

provider_accounts_0002 ==
    Table({"id", "tenant_id", "provider_type", "account_name",
           "credentials_json"},
          {"is_active", "priority", "webhook_secret", "rate_limit_per_minute",
           "created_at", "updated_at"},
          {{"tenant_id", "provider_type", "account_name"}}, {"tenants"})

\* A definition named Mutant... is the one after it with a bug a change to the
\* code could bring; it is used to test the properties only.
MutantEdoDocuments0002 ==
    Table({"id", "tenant_id", "internal_document_id", "document_type",
           "sender_inn", "recipient_inn", "title", "file_name", "mime_type",
           "file_checksum", "created_by"},
          {"sender_kpp", "recipient_kpp", "metadata", "created_at"},
          {}, {"tenants", "api_users"})
edo_documents_0002 ==
    Table({"id", "tenant_id", "internal_document_id", "document_type",
           "sender_inn", "recipient_inn", "title", "file_name", "mime_type",
           "file_checksum", "created_by"},
          {"sender_kpp", "recipient_kpp", "metadata", "created_at"},
          {{"tenant_id", "internal_document_id"}}, {"tenants", "api_users"})

document_deliveries_0002 ==
    Table({"id", "tenant_id", "document_id", "provider_account_id",
           "unified_status", "idempotency_key"},
          {"provider_document_id", "provider_raw_status", "retry_count",
           "next_retry_at", "last_error_code", "last_error_message", "sent_at",
           "delivered_at", "signed_at", "rejected_at", "final_at",
           "created_at", "updated_at"},
          {{"provider_account_id", "idempotency_key"},
           {"provider_account_id", "provider_document_id"}},
          {"tenants", "edo_documents", "provider_accounts"})

incoming_documents_0002 ==
    Table({"id", "tenant_id", "provider_account_id", "provider_document_id",
           "document_type", "sender_inn", "file_name", "mime_type",
           "unified_status", "received_at"},
          {"sender_name", "metadata", "created_at"},
          {{"provider_account_id", "provider_document_id"}},
          {"tenants", "provider_accounts"})

webhook_events_0002 ==
    Table({"id", "tenant_id", "provider_account_id", "provider_type",
           "signature_status", "payload"},
          {"external_event_id", "headers", "processed", "processed_at",
           "error_message", "created_at"},
          {}, {"tenants", "provider_accounts"})

dlq_entries_0002 ==
    Table({"id", "tenant_id", "task_name", "payload", "reason_code",
           "reason_message"},
          {"delivery_id", "provider_account_id", "retryable", "replayed_at",
           "created_at"},
          {}, {"tenants", "document_deliveries", "provider_accounts"})

provider_health_snapshots_0002 ==
    Table({"id", "provider_account_id", "health_status", "circuit_state"},
          {"response_time_ms", "error_rate", "checked_at"},
          {}, {"provider_accounts"})

audit_events_0002 ==
    Table({"id", "tenant_id", "resource_type", "resource_id", "event_type"},
          {"actor_user_id", "trace_id", "payload", "created_at"},
          {}, {"tenants", "api_users"})

\* What a revision's create_table gives a name to.
Definition ==
  [r0001 |->
    [tenants |-> tenants_0001, api_users |-> api_users_0001,
     provider_accounts |-> provider_accounts_0001,
     edo_documents |-> edo_documents_0001,
     document_deliveries |-> document_deliveries_0001,
     incoming_documents |-> incoming_documents_0001,
     webhook_events |-> webhook_events_0001, dlq_entries |-> dlq_entries_0001,
     provider_health_snapshots |-> provider_health_snapshots_0001,
     audit_events |-> audit_events_0001],
   r0002 |->
    [tenants |-> tenants_0002, api_users |-> api_users_0002,
     provider_accounts |-> provider_accounts_0002,
     edo_documents |-> edo_documents_0002,
     document_deliveries |-> document_deliveries_0002,
     incoming_documents |-> incoming_documents_0002,
     webhook_events |-> webhook_events_0002, dlq_entries |-> dlq_entries_0002,
     provider_health_snapshots |-> provider_health_snapshots_0002,
     audit_events |-> audit_events_0002]]

=============================================================================
