---------------------------- MODULE ApiSessions ----------------------------
(***************************************************************************)
(* Database sessions that run at the same time: POST /documents/send,      *)
(* POST /provider-accounts and POST /dlq/replay-batch, each in the one     *)
(* transaction that get_session opens and commits, and runs of the script  *)
(* seed_demo_users.                                                        *)
(*                                                                         *)
(* PostgreSQL is external: an INSERT waits for another transaction's row   *)
(* with the same unique key and fails once that row is committed, an       *)
(* UPDATE waits for the row's lock, and of transactions that wait for each *)
(* other one is aborted.  The unique keys are those of revision 0002.  The *)
(* sessions of the API do not autoflush: their INSERTs are sent by commit, *)
(* after the task has been published.                                      *)
(***************************************************************************)
EXTENDS Schema, SequencesExt

CONSTANTS
    Sessions,     \* sessions, each of which runs one operation
    Documents,    \* values of internal_document_id
    Names,        \* values of (provider_type, account_name)
    Entries,      \* rows of dlq_entries, about deliveries of the tenant
    Retryable,    \* those with retryable = TRUE
    Lists,        \* values of entry_ids in the batch requests
    None          \* no key

ASSUME SessionsAssumption ==
    /\ IsFiniteSet(Sessions) /\ IsFiniteSet(Entries)
    /\ Retryable \subseteq Entries
    /\ Lists \subseteq Seq(Entries)

Row(table, keys) == [table : {table}, key : keys]

TheTenant == [table |-> "tenants", key |-> "demo-corp"]
User(email) == [table |-> "api_users", key |-> email]
Emails == {"admin@demo.corp", "viewer@demo.corp"}

Rows ==
    {TheTenant} \cup Row("api_users", Emails)
    \cup Row("edo_documents", Documents) \cup Row("provider_accounts", Names)
    \cup Row("dlq_entries", Entries)

ASSUME NoneAssumption == None \notin Rows

\* The columns that a row's key stands for, tenant_id included.
KeyColumns ==
    [tenants |-> {"slug"}, api_users |-> {"email"},
     edo_documents |-> {"tenant_id", "internal_document_id"},
     provider_accounts |-> {"tenant_id", "provider_type", "account_name"}]

Enforced(table) == KeyColumns[table] \in Definition.r0002[table].unique

VARIABLES
    committed,   \* how many committed rows there are of each key
    replayed,    \* committed: the entries each session gave a replayed_at
    pc,          \* what each session is doing
    row,         \* the row a session is to insert, or None
    todo,        \* the entries a batch has still to replay
    inserted,    \* rows a session has inserted, uncommitted
    locked,      \* rows it has updated, uncommitted
    outcome,     \* how it ended
    batch,       \* history: the entries a batch was to replay, in its order
    published    \* history: what a session has published tasks about

database == <<committed, replayed>>
work == <<pc, row, todo, inserted, locked, outcome>>
history == <<batch, published>>
vars == <<database, work, history>>

Exists(r) == committed[r] > 0

-----------------------------------------------------------------------------
(* What a session's next statement inserts or updates, and what it waits for *)

Inserts(s) ==
    IF \/ pc[s] = "flush"
       \/ pc[s] \in Emails /\ ~Exists(User(pc[s]))
    THEN (IF row[s] = None THEN {} ELSE {row[s]}) ELSE {}

Updates(s) ==
    CASE pc[s] = "update" -> {[table |-> "dlq_entries", key |-> Head(todo[s])]}
      [] pc[s] \in Emails /\ Exists(User(pc[s])) -> {User(pc[s])}
      [] OTHER -> {}

WaitsFor(s, q) ==
    /\ q # s
    /\ \/ \E r \in Inserts(s) : Enforced(r.table) /\ r \in inserted[q]
       \/ Updates(s) \cap locked[q] # {}

Waits(s) == \E q \in Sessions : WaitsFor(s, q)

\* The unique key is taken: IntegrityError.
Collides(s) == \E r \in Inserts(s) : Enforced(r.table) /\ Exists(r)

\* It waits for itself, through others.
Deadlocked(s) ==
    \E C \in SUBSET Sessions :
        /\ s \in C
        /\ \A q \in C : /\ \E p \in C : WaitsFor(q, p)
                        /\ \E p \in C : WaitsFor(p, q)

-----------------------------------------------------------------------------

Init ==
    /\ committed = [r \in Rows |-> IF r.table = "dlq_entries" THEN 1 ELSE 0]
    /\ replayed = [s \in Sessions |-> {}]
    /\ pc = [s \in Sessions |-> "idle"]
    /\ row = [s \in Sessions |-> None]
    /\ todo = [s \in Sessions |-> <<>>]
    /\ inserted = [s \in Sessions |-> {}]
    /\ locked = [s \in Sessions |-> {}]
    /\ outcome = [s \in Sessions |-> "none"]
    /\ batch = [s \in Sessions |-> <<>>]
    /\ published = [s \in Sessions |-> {}]

Goto(s, label) == pc' = [pc EXCEPT ![s] = label]

\* The session is closed: nothing of it is waited for any more.
MutantClose(s, how) ==
    /\ Goto(s, "ended")
    /\ outcome' = [outcome EXCEPT ![s] = how]
    /\ UNCHANGED <<row, todo, inserted, locked>>
Close(s, how) ==
    /\ Goto(s, "ended")
    /\ outcome' = [outcome EXCEPT ![s] = how]
    /\ inserted' = [inserted EXCEPT ![s] = {}]
    /\ locked' = [locked EXCEPT ![s] = {}]
    /\ row' = [row EXCEPT ![s] = None]
    /\ todo' = [todo EXCEPT ![s] = <<>>]

-----------------------------------------------------------------------------
(* seed_demo_users: one transaction, flushed statement by statement *)

\* SELECT the tenant; without one, add it.
select_tenant(s) ==
    /\ pc[s] = "idle"
    /\ row' = [row EXCEPT ![s] = IF Exists(TheTenant) THEN None ELSE TheTenant]
    /\ Goto(s, "flush")
    /\ UNCHANGED <<database, todo, inserted, locked, outcome, history>>

\* The INSERT of the tenant; a tenant that exists is left as it is.
MutantFlushTenant(s) ==
    /\ pc[s] = "flush" /\ (row[s] = None \/ row[s] = TheTenant)
    /\ ~Waits(s) /\ ~Collides(s)
    /\ committed' = [r \in Rows |->
                         committed[r] + IF r = row[s] THEN 1 ELSE 0]
    /\ Goto(s, "admin@demo.corp")
    /\ row' = [row EXCEPT ![s] = User("admin@demo.corp")]
    /\ UNCHANGED <<replayed, todo, inserted, locked, outcome, history>>
flush_tenant(s) ==
    /\ pc[s] = "flush" /\ (row[s] = None \/ row[s] = TheTenant)
    /\ ~Waits(s) /\ ~Collides(s)
    /\ inserted' = [inserted EXCEPT ![s] = Inserts(s)]
    /\ Goto(s, "admin@demo.corp")
    /\ row' = [row EXCEPT ![s] = User("admin@demo.corp")]
    /\ UNCHANGED <<database, todo, locked, outcome, history>>

\* _ensure_user: INSERT the user, or UPDATE the one there is.  A user that
\* exists stays, so that the SELECT is as good as at the time of the UPDATE.
ensure_user(s) ==
    /\ pc[s] \in Emails
    /\ ~Waits(s)
    /\ inserted' = [inserted EXCEPT ![s] = @ \cup Inserts(s)]
    /\ locked' = [locked EXCEPT ![s] = @ \cup Updates(s)]
    /\ IF pc[s] = "admin@demo.corp"
       THEN /\ Goto(s, "viewer@demo.corp")
            /\ row' = [row EXCEPT ![s] = User("viewer@demo.corp")]
       ELSE Goto(s, "commit") /\ row' = [row EXCEPT ![s] = None]
    /\ UNCHANGED <<database, todo, outcome, history>>

-----------------------------------------------------------------------------
(* POST /documents/send (the account is the tenant's and active), and        *)
(* POST /provider-accounts                                                   *)

Document(k) == [table |-> "edo_documents", key |-> k]

\* get_by_internal_id finds the document: 409.
send_document_endpoint(s, k) ==
    /\ pc[s] = "idle"
    /\ IF Exists(Document(k))
       THEN Close(s, "refused")
       ELSE /\ row' = [row EXCEPT ![s] = Document(k)]
            /\ Goto(s, "publish")
            /\ UNCHANGED <<todo, inserted, locked, outcome>>
    /\ UNCHANGED <<database, history>>

\* The document and the delivery are added to the session, the task leaves.
publish_document(s) ==
    /\ pc[s] = "publish"
    /\ published' = [published EXCEPT ![s] = {row[s].key}]
    /\ Goto(s, "flush")
    /\ UNCHANGED <<database, row, todo, inserted, locked, outcome, batch>>

register_provider_account(s, n) ==
    /\ pc[s] = "idle"
    /\ row' = [row EXCEPT ![s] = [table |-> "provider_accounts", key |-> n]]
    /\ Goto(s, "flush")
    /\ UNCHANGED <<database, todo, inserted, locked, outcome, history>>

\* session.commit sends the INSERTs.
flush(s) ==
    /\ pc[s] = "flush" /\ row[s] # None /\ row[s] # TheTenant
    /\ ~Waits(s) /\ ~Collides(s)
    /\ inserted' = [inserted EXCEPT ![s] = Inserts(s)]
    /\ Goto(s, "commit")
    /\ UNCHANGED <<database, row, todo, locked, outcome, history>>

-----------------------------------------------------------------------------
(* POST /dlq/replay-batch *)

\* The entries that the loop does not pass over, in its order: those that are
\* not retryable are passed over unless the request forces them, and so are ids
\* of no entry and of another tenant's.
Chosen(entry_ids, force) ==
    LET upto[i \in 0..Len(entry_ids)] ==
            IF i = 0 THEN <<>>
            ELSE IF force \/ entry_ids[i] \in Retryable
            THEN Append(upto[i - 1], entry_ids[i])
            ELSE upto[i - 1]
    IN  upto[Len(entry_ids)]

MutantReplayBatch(s, entry_ids, force) ==
    LET chosen == Chosen(entry_ids, force) IN
    /\ pc[s] = "idle"
    /\ \E l \in SetToSeqs(ToSet(chosen)) : todo' = [todo EXCEPT ![s] = l]
    /\ batch' = [batch EXCEPT ![s] = chosen]
    /\ Goto(s, IF chosen = <<>> THEN "commit" ELSE "replay")
    /\ UNCHANGED <<database, row, inserted, locked, outcome, published>>
replay_batch(s, entry_ids, force) ==
    LET chosen == Chosen(entry_ids, force) IN
    /\ pc[s] = "idle"
    /\ todo' = [todo EXCEPT ![s] = chosen]
    /\ batch' = [batch EXCEPT ![s] = chosen]
    /\ Goto(s, IF chosen = <<>> THEN "commit" ELSE "replay")
    /\ UNCHANGED <<database, row, inserted, locked, outcome, published>>

publish_entry(s) ==
    /\ pc[s] = "replay"
    /\ published' = [published EXCEPT ![s] = @ \cup {Head(todo[s])}]
    /\ Goto(s, "update")
    /\ UNCHANGED <<database, row, todo, inserted, locked, outcome, batch>>

\* mark_replayed, and the UPDATE of the entry.
MutantUpdateEntry(s) ==
    /\ pc[s] = "update"
    /\ ~Waits(s)
    /\ replayed' = [replayed EXCEPT ![s] = @ \cup {Head(todo[s])}]
    /\ todo' = [todo EXCEPT ![s] = Tail(@)]
    /\ Goto(s, IF Len(todo[s]) = 1 THEN "commit" ELSE "replay")
    /\ UNCHANGED <<committed, row, inserted, locked, outcome, history>>
update_entry(s) ==
    /\ pc[s] = "update"
    /\ ~Waits(s)
    /\ locked' = [locked EXCEPT ![s] = @ \cup Updates(s)]
    /\ todo' = [todo EXCEPT ![s] = Tail(@)]
    /\ Goto(s, IF Len(todo[s]) = 1 THEN "commit" ELSE "replay")
    /\ UNCHANGED <<database, row, inserted, outcome, history>>

-----------------------------------------------------------------------------
(* How a session ends *)

commit(s) ==
    /\ pc[s] = "commit"
    /\ committed' = [r \in Rows |->
                         committed[r] + IF r \in inserted[s] THEN 1 ELSE 0]
    /\ replayed' = [replayed EXCEPT ![s] =
                        {e \in Entries :
                            [table |-> "dlq_entries", key |-> e] \in locked[s]}]
    /\ Close(s, "committed")
    /\ UNCHANGED history

integrity_error(s) ==
    /\ ~Waits(s) /\ Collides(s)
    /\ Close(s, "conflict")
    /\ UNCHANGED <<database, history>>

deadlock_detected(s) ==
    /\ Deadlocked(s)
    /\ Close(s, "victim")
    /\ UNCHANGED <<database, history>>

\* The broker refuses a task, the connection breaks or the process dies.
session_fails(s) ==
    /\ pc[s] \notin {"idle", "ended"}
    /\ Close(s, "failed")
    /\ UNCHANGED <<database, history>>

Begins(s) ==
    \/ select_tenant(s)
    \/ \E k \in Documents : send_document_endpoint(s, k)
    \/ \E n \in Names : register_provider_account(s, n)
    \/ \E l \in Lists, force \in BOOLEAN : replay_batch(s, l, force)

Step(s) ==
    \/ flush_tenant(s) \/ ensure_user(s)
    \/ publish_document(s) \/ flush(s)
    \/ publish_entry(s) \/ update_entry(s)
    \/ commit(s) \/ integrity_error(s) \/ deadlock_detected(s)

Next == \E s \in Sessions : Begins(s) \/ Step(s) \/ session_fails(s)

Spec == Init /\ [][Next]_vars

\* A session that has begun goes on, and PostgreSQL looks for deadlocks.
Fairness == \A s \in Sessions : WF_vars(Step(s))

FairSpec == Spec /\ Fairness

-----------------------------------------------------------------------------
(* Properties *)

TypeOK ==
    /\ committed \in [Rows -> Nat]
    /\ replayed \in [Sessions -> SUBSET Entries]
    /\ pc \in [Sessions -> {"idle", "publish", "flush", "replay", "update",
                            "commit", "ended"} \cup Emails]
    /\ row \in [Sessions -> Rows \cup {None}]
    /\ todo \in [Sessions -> Seq(Entries)]
    /\ \A s \in Sessions : /\ pc[s] \in {"replay", "update"} => todo[s] # <<>>
                           /\ pc[s] = "ended" => inserted[s] \cup locked[s] = {}
    /\ inserted \in [Sessions -> SUBSET Rows]
    /\ locked \in [Sessions -> SUBSET Rows]
    /\ outcome \in [Sessions -> {"none", "committed", "refused", "conflict",
                                 "victim", "failed"}]
    /\ batch \in [Sessions -> Seq(Entries)]
    /\ published \in [Sessions -> SUBSET (Entries \cup Documents)]

\* POST /auth/login and _ensure_user ask for the one user with an email
\* (scalar_one_or_none) though no constraint makes it one: no runs of the seed
\* script, however they overlap or fail, commit two, since the later one waits
\* on the tenant's slug; and once there is a tenant both its users exist.
LoginUnambiguous ==
    \A e \in Emails : committed[User(e)] = IF Exists(TheTenant) THEN 1 ELSE 0

\* A batch marks every entry it was to replay or, when it ends any other way,
\* none; an entry it marks is one whose task it has published.
BatchAllOrNothing ==
    \A s \in Sessions :
        IF outcome[s] = "committed"
        THEN /\ replayed[s] = ToSet(batch[s])
             /\ replayed[s] \subseteq published[s]
        ELSE replayed[s] = {}

\* s has published the task of a send of k: it is no batch.
Sent(s, k) == batch[s] = <<>> /\ published[s] = {k}

\* Sends of one document that overlap pass the check for a duplicate together
\* and publish a task each (documents.py 62, 105).  At most one of them is
\* committed, by the unique key and its wait alone, and none of them ends in an
\* IntegrityError, its task left without a document, but for another one that
\* was committed.
OneSendWins ==
    \A k \in Documents :
        LET winners == {s \in Sessions : Sent(s, k) /\ outcome[s] = "committed"}
        IN  /\ \A s, q \in winners : s = q
            /\ \A s \in Sessions :
                   Sent(s, k) /\ outcome[s] = "conflict" => winners # {}

InOrder(l, rank) ==
    \A i, j \in DOMAIN l : i < j /\ l[i] # l[j] => rank[l[i]] < rank[l[j]]

\* PostgreSQL aborts nothing but batches, and those only when no one order of
\* the entries agrees with all the requests: replay_batch locks them as listed.
VictimsCrossed ==
    \A s \in Sessions : outcome[s] = "victim" =>
        /\ batch[s] # <<>>
        /\ ~\E rank \in [Entries -> 1..Cardinality(Entries)] :
               \A q \in Sessions : InOrder(batch[q], rank)

\* Sessions never hang: while any is under way, there is one that waits for no
\* other or is in a circle that PostgreSQL finds, as locks end with their
\* session and no operation waits for anything but rows.
NobodyHangs ==
    LET busy == {s \in Sessions : pc[s] \notin {"idle", "ended"}} IN
    busy # {} => \E s \in busy : ~Waits(s) \/ Deadlocked(s)

\* Every session ends: what waits for a row gets it, or is told why not.
SessionsEnd ==
    \A s \in Sessions : pc[s] \notin {"idle", "ended"} ~> pc[s] = "ended"

=============================================================================
