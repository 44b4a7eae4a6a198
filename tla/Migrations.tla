----------------------------- MODULE Migrations -----------------------------
(***************************************************************************)
(* Alembic commands run against the database by several people or hosts at *)
(* once: "make setup" and "make migrate" run upgrade head on each of them, *)
(* and the revisions define downgrades.                                    *)
(*                                                                         *)
(* env.py opens one transaction for a whole command.  Alembic reads        *)
(* alembic_version first, creates it when there is none, applies the steps *)
(* it has chosen, and after each step changes the version row, which must  *)
(* exist as it was read.  DDL is transactional in PostgreSQL: a command's  *)
(* tables and version row are its own until it commits, a second           *)
(* transaction that needs one of them waits, and a failing or killed       *)
(* command leaves nothing.                                                 *)
(***************************************************************************)
EXTENDS OrmModels, Naturals

CONSTANT Runners    \* processes that run alembic

Absent == "absent"
Base == "base"
Revisions == {"r0001", "r0002"}
Commands == {"upgrade head", "downgrade -1", "downgrade base"}

VARIABLES
    tables,      \* committed: the revision whose definition each table has
    version,     \* committed: the row of alembic_version, or Base
    ensured,     \* committed: alembic_version exists
    pc,          \* what each runner is doing
    command,     \* the command it runs
    heads,       \* the version it has read
    plan,        \* the operations it has still to run
    overlay,     \* the tables it has created or dropped, uncommitted
    row,         \* the version row it has written, or "unset"
    ensure,      \* alembic_version was there, is due, or created by it
    undone       \* history: a downgrade of revision 0002 was committed

runner == <<pc, command, heads, plan, overlay, row, ensure>>
vars == <<tables, version, ensured, runner, undone>>

-----------------------------------------------------------------------------
(* The revisions as sequences of operations *)

create(t, revision) == [op |-> "create", table |-> t, to |-> revision]
drop(t) == [op |-> "drop", table |-> t, to |-> Absent]
stamp(from, to) == [op |-> "stamp", from |-> from, to |-> to]

drop_all ==
    <<drop("audit_events"), drop("provider_health_snapshots"),
      drop("dlq_entries"), drop("webhook_events"), drop("incoming_documents"),
      drop("document_deliveries"), drop("edo_documents"),
      drop("provider_accounts"), drop("api_users"), drop("tenants")>>

create_all(revision) ==
    <<create("tenants", revision), create("api_users", revision),
      create("provider_accounts", revision), create("edo_documents", revision),
      create("document_deliveries", revision),
      create("incoming_documents", revision),
      create("webhook_events", revision), create("dlq_entries", revision),
      create("provider_health_snapshots", revision),
      create("audit_events", revision)>>

upgrade_0001 == create_all("r0001")
MutantDowngrade0001 ==
    <<drop("provider_health_snapshots"), drop("audit_events")>>
        \o SubSeq(drop_all, 3, 10)
downgrade_0001 == drop_all

\* Revision 0002 builds every table anew, and its downgrade puts none back.
MutantUpgrade0002 ==
    <<drop("tenants")>> \o SubSeq(drop_all, 1, 9) \o create_all("r0002")
upgrade_0002 == drop_all \o create_all("r0002")
downgrade_0002 == drop_all

\* The steps alembic chooses for a command, from the version it has read.
steps(c, v) ==
    LET up1 == Append(upgrade_0001, stamp(Base, "r0001"))
        up2 == Append(upgrade_0002, stamp("r0001", "r0002"))
        down2 == Append(downgrade_0002, stamp("r0002", "r0001"))
        down1 == Append(downgrade_0001, stamp("r0001", Base))
        from == [base  |-> [up |-> up1 \o up2, one |-> <<>>, all |-> <<>>],
                 r0001 |-> [up |-> up2, one |-> down1, all |-> down1],
                 r0002 |-> [up |-> <<>>, one |-> down2,
                            all |-> down2 \o down1]]
    IN  CASE c = "upgrade head" -> from[v].up
          [] c = "downgrade -1" -> from[v].one
          [] c = "downgrade base" -> from[v].all

-----------------------------------------------------------------------------
(* What a runner's transaction sees, and what it waits for *)

Seen(r, t) == IF t \in DOMAIN overlay[r] THEN overlay[r][t] ELSE tables[t]

SeenVersion(r) == IF row[r] = "unset" THEN version ELSE row[r]

\* Another transaction holds the table, or has created one of that name: a
\* DROP that can see the table waits, and so does a CREATE that sees none.
MustWait(r) ==
    LET o == Head(plan[r]) IN
    IF o.op = "stamp"
    THEN row[r] = "unset" /\ \E q \in Runners \ {r} : row[q] # "unset"
    ELSE /\ o.table \notin DOMAIN overlay[r]
         /\ \E q \in Runners \ {r} : o.table \in DOMAIN overlay[q]
         /\ (o.op = "drop") = (tables[o.table] # Absent)

\* A table can be dropped when it is there and no other refers to it, and
\* created when it is not and those it refers to are.  The UPDATE or DELETE of
\* the version row must match one row, its INSERT must not find the key.
Succeeds(r) ==
    LET o == Head(plan[r])
        refers(t) == Definition[Seen(r, t)][t].references
    IN  CASE o.op = "drop" ->
                 /\ Seen(r, o.table) # Absent
                 /\ \A t \in TableNames \ {o.table} :
                        Seen(r, t) # Absent => o.table \notin refers(t)
          [] o.op = "create" ->
                 /\ Seen(r, o.table) = Absent
                 /\ \A t \in Definition[o.to][o.table].references :
                        Seen(r, t) # Absent
          [] o.op = "stamp" -> SeenVersion(r) = o.from

-----------------------------------------------------------------------------
(* A fresh database, or one deployed before revision 0002 was written *)

Init ==
    /\ \/ tables = [t \in TableNames |-> Absent] /\ version = Base
       \/ tables = [t \in TableNames |-> "r0001"] /\ version = "r0001"
    /\ pc = [r \in Runners |-> "idle"]
    /\ command = [r \in Runners |-> "upgrade head"]
    /\ heads = [r \in Runners |-> Base]
    /\ plan = [r \in Runners |-> <<>>]
    /\ overlay = [r \in Runners |-> <<>>]
    /\ row = [r \in Runners |-> "unset"]
    /\ ensured = (version # Base)
    /\ ensure = [r \in Runners |-> "there"]
    /\ undone = FALSE

\* The transaction is over, and its locks are released.
MutantEnd(r, outcome) ==
    /\ pc' = [pc EXCEPT ![r] = outcome]
    /\ plan' = [plan EXCEPT ![r] = <<>>]
    /\ overlay' = [overlay EXCEPT ![r] = <<>>]
    /\ ensure' = [ensure EXCEPT ![r] = "there"]
    /\ UNCHANGED <<command, heads, row>>
End(r, outcome) ==
    /\ pc' = [pc EXCEPT ![r] = outcome]
    /\ plan' = [plan EXCEPT ![r] = <<>>]
    /\ overlay' = [overlay EXCEPT ![r] = <<>>]
    /\ row' = [row EXCEPT ![r] = "unset"]
    /\ ensure' = [ensure EXCEPT ![r] = "there"]
    /\ UNCHANGED <<command, heads>>

\* One transaction opens, and alembic reads the version.  One revision below
\* base is an error, and rolls back what it may have created.
begin_transaction(r, c) ==
    /\ pc[r] # "running"
    /\ ~(c = "downgrade -1" /\ version = Base)
    /\ pc' = [pc EXCEPT ![r] = "running"]
    /\ command' = [command EXCEPT ![r] = c]
    /\ heads' = [heads EXCEPT ![r] = version]
    /\ plan' = [plan EXCEPT ![r] = steps(c, version)]
    /\ ensure' = [ensure EXCEPT ![r] = IF ensured THEN "there" ELSE "due"]
    /\ UNCHANGED <<tables, version, ensured, overlay, row, undone>>

\* Alembic creates alembic_version unless it finds it there by now; a second
\* CREATE of the name waits for the transaction of the first.
ensure_version_table(r) ==
    /\ pc[r] = "running" /\ ensure[r] = "due"
    /\ \A q \in Runners : ensure[q] # "created"
    /\ ensure' = [ensure EXCEPT ![r] = IF ensured THEN "there" ELSE "created"]
    /\ UNCHANGED <<tables, version, ensured, pc, command, heads, plan, overlay,
                   row, undone>>

\* The CREATE that waited raises when the first has been committed.
version_table_exists(r) ==
    /\ pc[r] = "running" /\ ensure[r] = "due" /\ ensured
    /\ End(r, "failed")
    /\ UNCHANGED <<tables, version, ensured, undone>>

run_operation(r) ==
    /\ pc[r] = "running" /\ ensure[r] # "due" /\ plan[r] # <<>>
    /\ ~MustWait(r) /\ Succeeds(r)
    /\ LET o == Head(plan[r]) IN
       IF o.op = "stamp"
       THEN /\ row' = [row EXCEPT ![r] = o.to]
            /\ UNCHANGED overlay
       ELSE /\ overlay' = [overlay EXCEPT ![r] =
                  [t \in DOMAIN @ \cup {o.table} |->
                       IF t = o.table THEN o.to ELSE @[t]]]
            /\ UNCHANGED row
    /\ plan' = [plan EXCEPT ![r] = Tail(@)]
    /\ UNCHANGED <<tables, version, ensured, pc, command, heads, ensure,
                   undone>>

\* An operation raises: the transaction is rolled back.
MutantOperationFails(r) ==
    /\ pc[r] = "running" /\ ensure[r] # "due" /\ plan[r] # <<>>
    /\ ~MustWait(r) /\ ~Succeeds(r)
    /\ tables' = [t \in TableNames |-> Seen(r, t)]
    /\ End(r, "failed")
    /\ UNCHANGED <<version, ensured, undone>>
operation_fails(r) ==
    /\ pc[r] = "running" /\ ensure[r] # "due" /\ plan[r] # <<>>
    /\ ~MustWait(r) /\ ~Succeeds(r)
    /\ End(r, "failed")
    /\ UNCHANGED <<tables, version, ensured, undone>>

commit(r) ==
    /\ pc[r] = "running" /\ ensure[r] # "due" /\ plan[r] = <<>>
    /\ tables' = [t \in TableNames |-> Seen(r, t)]
    /\ version' = SeenVersion(r)
    /\ ensured' = (ensured \/ ensure[r] = "created")
    /\ undone' = (undone \/ (heads[r] = "r0002" /\ row[r] # "unset"))
    /\ End(r, "done")

\* The process or its connection dies: PostgreSQL rolls the transaction back.
killed(r) ==
    /\ pc[r] = "running"
    /\ End(r, "killed")
    /\ UNCHANGED <<tables, version, ensured, undone>>

Step(r) ==
    \/ ensure_version_table(r) \/ version_table_exists(r)
    \/ run_operation(r) \/ operation_fails(r) \/ commit(r)

Next ==
    \E r \in Runners :
        Step(r) \/ killed(r) \/ \E c \in Commands : begin_transaction(r, c)

Spec == Init /\ [][Next]_vars

\* A command that has begun goes on, and PostgreSQL grants a lock in the order
\* of the requests: one that waits gets it though others come, fail or die.
Fairness == \A r \in Runners : SF_vars(Step(r))

FairSpec == Spec /\ Fairness

-----------------------------------------------------------------------------
(* Properties *)

TypeOK ==
    /\ tables \in [TableNames -> Revisions \cup {Absent}]
    /\ version \in Revisions \cup {Base}
    /\ pc \in [Runners -> {"idle", "running", "done", "failed", "killed"}]
    /\ command \in [Runners -> Commands]
    /\ heads \in [Runners -> Revisions \cup {Base}]
    /\ row \in [Runners -> Revisions \cup {Base, "unset"}]
    /\ \A r \in Runners : /\ DOMAIN overlay[r] \subseteq TableNames
                          /\ Len(plan[r]) \in 0..32
                          /\ pc[r] # "running" =>
                                 DOMAIN overlay[r] = {} /\ row[r] = "unset"
    /\ ensured \in BOOLEAN
    /\ ensure \in [Runners -> {"there", "due", "created"}]
    /\ undone \in BOOLEAN

Deployed(s) == tables = [t \in TableNames |-> s]

\* The version row tells the schema, whatever commands overlap, fail half-way
\* or are killed: no mixture of revisions is ever committed, and only the
\* downgrade of 0002 leaves the database without the tables of its revision.
VersionTellsSchema ==
    /\ version = Base => Deployed(Absent)
    /\ version = "r0001" => Deployed(IF undone THEN Absent ELSE "r0001")
    /\ version = "r0002" => Deployed("r0002") /\ ~undone
    /\ ~ensured => version = Base

\* At head the statements that build from the ORM models and that the tables
\* accept are all but the six of Unserved: whatever revisions were run, undone
\* and run again, the repositories, the other endpoints, the send task and the
\* seed script are served, and GET /incoming (document_date, incoming.py:72),
\* the credentials, rows and statuses of the background tasks are not.
HeadServesStatements ==
    version = "r0002" =>
        \A s \in Statements :
            s \notin Unserved <=>
                /\ Builds(s)
                /\ tables[s.table] # Absent
                /\ Accepts(Definition[tables[s.table]][s.table], s)

\* A command fails only when another one was committed after it had read the
\* version (with other steps, or with the alembic_version it was to create),
\* when 0002 has been downgraded, or when it is a downgrade from head to base,
\* whose second step finds nothing to drop.
FailureHasCause ==
    [][\A r \in Runners :
           pc[r] = "running" /\ pc'[r] = "failed" =>
               \/ version # heads[r]
               \/ ensured /\ ensure[r] = "due"
               \/ undone
               \/ command[r] = "downgrade base" /\ heads[r] = "r0002"]_vars

Waits(r) ==
    /\ pc[r] = "running"
    /\ \/ ensure[r] = "due"
       \/ plan[r] # <<>> /\ MustWait(r)

\* Commands never wait in a circle, though they lock eleven tables one by one
\* (alembic_version, op.create_table, op.drop_table): those that one version
\* allows all begin with the same table, so that one that has to wait, be it
\* for alembic_version, holds nothing yet.
WaitersHoldNothing ==
    \A r \in Runners :
        Waits(r) => /\ DOMAIN overlay[r] = {}
                    /\ row[r] = "unset"
                    /\ ensure[r] # "created"

\* Every command ends: no two of them wait for each other's tables.
CommandEnds ==
    \A r \in Runners : pc[r] = "running" ~> pc[r] # "running"

=============================================================================
