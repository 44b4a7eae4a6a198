----------------------------- MODULE OrmModels -----------------------------
(***************************************************************************)
(* The SQLAlchemy models of infrastructure/database/models, and the        *)
(* statements the repositories, the scripts, the endpoints and the Celery  *)
(* tasks build from them.                                                  *)
(*                                                                         *)
(* A model has columns an INSERT must be given, columns that SQLAlchemy    *)
(* fills with a Python default, and columns that may be left out           *)
(* (nullable, or server_default in the model).  A statement names the      *)
(* attributes it uses; metadata_ is written as its column, metadata.       *)
(***************************************************************************)
EXTENDS Schema

Model(given, filled, left) ==
    [columns |-> given \cup filled \cup left, filled |-> filled]

UUIDPKMixin == {"id"}
TimestampMixin == {"created_at", "updated_at"}

TenantModel ==
    Model({"name", "slug"}, {"is_active"}, {"created_at"} \cup UUIDPKMixin)

ApiUserModel ==
    Model({"tenant_id", "email", "hashed_password", "role"}, {"is_active"},
          UUIDPKMixin \cup TimestampMixin)

ProviderAccountModel ==
    Model({"tenant_id", "provider_type", "account_name", "credentials_json"},
          {"is_active", "priority"},
          {"webhook_secret", "rate_limit_per_minute"}
              \cup UUIDPKMixin \cup TimestampMixin)

EdoDocumentModel ==
    Model({"tenant_id", "internal_document_id", "document_type", "sender_inn",
           "recipient_inn", "title", "file_name", "mime_type",
           "file_checksum", "created_by"},
          {"metadata"},
          {"sender_kpp", "recipient_kpp", "created_at"} \cup UUIDPKMixin)

DocumentDeliveryModel ==
    Model({"tenant_id", "document_id", "provider_account_id", "unified_status",
           "idempotency_key"},
          {"retry_count"},
          {"provider_document_id", "provider_raw_status", "next_retry_at",
           "last_error_code", "last_error_message", "sent_at", "delivered_at",
           "signed_at", "rejected_at", "final_at"}
              \cup UUIDPKMixin \cup TimestampMixin)

IncomingDocumentModel ==
    Model({"tenant_id", "provider_account_id", "provider_document_id",
           "document_type", "sender_inn", "file_name", "mime_type",
           "unified_status", "received_at"},
          {"metadata"}, {"sender_name", "created_at"} \cup UUIDPKMixin)

WebhookEventModel ==
    Model({"tenant_id", "provider_account_id", "provider_type",
           "signature_status", "payload"},
          {"headers", "processed"},
          {"external_event_id", "processed_at", "error_message", "created_at"}
              \cup UUIDPKMixin)

DLQEntryModel ==
    Model({"tenant_id", "task_name", "payload", "reason_code",
           "reason_message"},
          {"retryable"},
          {"delivery_id", "provider_account_id", "replayed_at", "created_at"}
              \cup UUIDPKMixin)

ProviderHealthSnapshotModel ==
    Model({"provider_account_id", "health_status", "circuit_state"}, {},
          {"response_time_ms", "error_rate", "checked_at"} \cup UUIDPKMixin)

AuditEventModel ==
    Model({"tenant_id", "resource_type", "resource_id", "event_type"},
          {"payload"},
          {"actor_user_id", "trace_id", "created_at"} \cup UUIDPKMixin)

Orm ==
    [tenants |-> TenantModel, api_users |-> ApiUserModel,
     provider_accounts |-> ProviderAccountModel,
     edo_documents |-> EdoDocumentModel,
     document_deliveries |-> DocumentDeliveryModel,
     incoming_documents |-> IncomingDocumentModel,
     webhook_events |-> WebhookEventModel, dlq_entries |-> DLQEntryModel,
     provider_health_snapshots |-> ProviderHealthSnapshotModel,
     audit_events |-> AuditEventModel]

-----------------------------------------------------------------------------
(* Statements.  A SELECT lists every column of its model. *)

Insert(table, supplied) ==
    [table |-> table, uses |-> supplied, inserts |-> TRUE]

Query(table, uses) == [table |-> table, uses |-> uses, inserts |-> FALSE]

\* An attribute the model does not have raises in Python, before any SQL.
Builds(s) == s.uses \subseteq Orm[s.table].columns

\* The database, holding the given definition of the table, runs it.
Accepts(table, s) ==
    LET model == Orm[s.table]
        sent == IF s.inserts THEN s.uses \cup model.filled ELSE model.columns
    IN  /\ sent \subseteq table.columns
        /\ s.inserts => table.mandatory \subseteq sent

\* The repositories: rows built from entities, rows read into entities.
save_document ==
    Insert("edo_documents",
           {"id", "tenant_id", "internal_document_id", "document_type",
            "sender_inn", "sender_kpp", "recipient_inn", "recipient_kpp",
            "title", "file_name", "mime_type", "file_checksum", "metadata",
            "created_by", "created_at"})

document_to_entity == Query("edo_documents", save_document.uses)

save_delivery ==
    Insert("document_deliveries",
           {"id", "tenant_id", "document_id", "provider_account_id",
            "idempotency_key", "unified_status", "provider_document_id",
            "provider_raw_status", "retry_count", "next_retry_at",
            "last_error_code", "last_error_message", "sent_at", "delivered_at",
            "signed_at", "rejected_at", "final_at", "created_at",
            "updated_at"})

delivery_to_entity == Query("document_deliveries", save_delivery.uses)

update_delivery ==
    Query("document_deliveries",
          save_delivery.uses \ {"tenant_id", "document_id", "created_at",
                                "provider_account_id", "idempotency_key"})

save_account ==
    Insert("provider_accounts",
           {"id", "tenant_id", "provider_type", "account_name",
            "credentials_json", "is_active", "priority", "webhook_secret",
            "rate_limit_per_minute", "created_at", "updated_at"})

provider_to_entity == Query("provider_accounts", save_account.uses)

update_account ==
    Query("provider_accounts",
          save_account.uses \ {"tenant_id", "provider_type", "account_name",
                               "created_at"})

save_dlq ==
    Insert("dlq_entries",
           {"id", "tenant_id", "delivery_id", "provider_account_id",
            "task_name", "payload", "reason_code", "reason_message",
            "retryable", "replayed_at", "created_at"})

dlq_to_entity == Query("dlq_entries", save_dlq.uses)

update_dlq == Query("dlq_entries", {"id", "replayed_at"})

MutantWriteDlq ==
    Insert("dlq_entries", save_dlq.uses \ {"id", "replayed_at", "created_at"})
write_dlq ==
    Insert("dlq_entries", save_dlq.uses \ {"replayed_at", "created_at"})

save_audit ==
    Insert("audit_events",
           {"id", "tenant_id", "actor_user_id", "resource_type", "resource_id",
            "event_type", "trace_id", "payload", "created_at"})

audit_to_entity == Query("audit_events", save_audit.uses)

\* The endpoints of /incoming read document_date from every row.
list_incoming ==
    Query("incoming_documents",
          {"id", "tenant_id", "provider_account_id", "provider_document_id",
           "sender_inn", "sender_name", "document_type", "document_date",
           "received_at"})

\* The background tasks: the account they connect with, the rows they write.
connected_account ==
    Query("provider_accounts", {"id", "tenant_id", "provider_type",
                                "is_active", "credentials"})

webhook_row ==
    Insert("webhook_events",
           {"id", "tenant_id", "provider_account_id", "provider_event_id",
            "event_type", "raw_payload", "received_at", "processed",
            "processed_at"})

synced_delivery ==
    Query("document_deliveries",
          {"id", "provider_account_id", "provider_document_id", "status",
           "provider_status"})

incoming_row ==
    Insert("incoming_documents",
           {"id", "tenant_id", "provider_account_id", "provider_document_id",
            "sender_inn", "sender_name", "document_type", "document_date",
            "raw_payload", "received_at"})

health_snapshot ==
    Insert("provider_health_snapshots",
           {"id", "provider_account_id", "is_healthy", "response_time_ms",
            "circuit_state", "error_detail", "checked_at"})

\* seed_demo_users.py, and the lookups of auth.py.
seed_tenant == Insert("tenants", {"id", "name", "slug", "is_active"})

seed_user ==
    Insert("api_users", {"id", "tenant_id", "email", "hashed_password", "role",
                         "is_active"})

login_user == Query("api_users", seed_user.uses)

\* What the API, the tasks and the scripts run.
Statements ==
    {save_document, document_to_entity, save_delivery, delivery_to_entity,
     update_delivery, save_account, provider_to_entity, update_account,
     save_dlq, dlq_to_entity, update_dlq, write_dlq, save_audit,
     audit_to_entity, list_incoming, connected_account, webhook_row,
     synced_delivery, incoming_row, health_snapshot, seed_tenant, seed_user,
     login_user}

\* Those that use an attribute their model has not.
Unserved ==
    {list_incoming, connected_account, webhook_row, synced_delivery,
     incoming_row, health_snapshot}

=============================================================================
