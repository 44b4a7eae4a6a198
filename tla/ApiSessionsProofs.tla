-------------------------- MODULE ApiSessionsProofs --------------------------
(***************************************************************************)
(* Theorems about ApiSessions, for any number of sessions that overlap,    *)
(* fail or are aborted at any point.                                       *)
(***************************************************************************)
EXTENDS ApiSessions, WellFoundedInduction, SequenceTheorems,
        FiniteSetTheorems, TLAPS

Admin == "admin@demo.corp"
Viewer == "viewer@demo.corp"

\* The variables that the proofs speak of.
Typed ==
    /\ committed \in [Rows -> Nat]
    /\ pc \in [Sessions -> {"idle", "publish", "flush", "replay", "update",
                            "commit", "ended"} \cup Emails]
    /\ row \in [Sessions -> Rows \cup {None}]
    /\ inserted \in [Sessions -> SUBSET Rows]

\* A session that has inserted the tenant is alone with it, and its commit is
\* the first.
TenantAlone ==
    /\ \A s \in Sessions : TheTenant \in inserted[s] => ~Exists(TheTenant)
    /\ \A s, q \in Sessions :
           TheTenant \in inserted[s] /\ TheTenant \in inserted[q] => s = q

\* What a session has in hand: a run of the seed script inserts users only with
\* their tenant, and commits both of them with it.
InHand(s) ==
    /\ \A e \in Emails :
           User(e) \in inserted[s] => TheTenant \in inserted[s]
    /\ pc[s] \notin Emails \cup {"commit"} => inserted[s] = {}
    /\ pc[s] = "publish" => row[s] # TheTenant /\ row[s] # None
    /\ pc[s] \in {"publish", "flush"} => \A e \in Emails : row[s] # User(e)
    /\ pc[s] = "flush" /\ row[s] = None => Exists(TheTenant)
    /\ pc[s] \in Emails =>
           /\ row[s] = User(pc[s])
           /\ TheTenant \in inserted[s] \/ Exists(TheTenant)
    /\ pc[s] \in {Viewer, "commit"} /\ TheTenant \in inserted[s] =>
           User(Admin) \in inserted[s]
    /\ pc[s] = "commit" /\ TheTenant \in inserted[s] =>
           User(Viewer) \in inserted[s]

SeedInv ==
    /\ Typed
    /\ LoginUnambiguous
    /\ TenantAlone
    /\ \A s \in Sessions : InHand(s)

-----------------------------------------------------------------------------
(* The rows *)

\* A login key and the tenant's are rows of different tables.
LEMMA SeedRows ==
    /\ TheTenant \in Rows /\ TheTenant # None /\ TheTenant.table = "tenants"
    /\ \A e \in Emails :
           /\ User(e) \in Rows /\ User(e) # TheTenant /\ User(e) # None
           /\ User(e).table = "api_users"
    /\ Admin \in Emails /\ Viewer \in Emails /\ User(Admin) # User(Viewer)
    /\ Emails = {Admin, Viewer} /\ Admin # Viewer
    /\ Emails \cap {"idle", "publish", "flush", "replay", "update", "commit",
                    "ended"} = {}
<1>1. TheTenant \in Rows /\ \A e \in Emails : User(e) \in Rows
    BY DEF Rows, Row, TheTenant, User
<1>2. None \notin Rows
    BY NoneAssumption
<1>3. QED
    BY <1>1, <1>2 DEF TheTenant, User, Emails, Admin, Viewer

\* The rows of the other operations are none of these.
LEMMA OtherRows ==
    /\ \A k \in Documents :
           /\ Document(k) \in Rows /\ Document(k) # TheTenant
           /\ \A e \in Emails : Document(k) # User(e)
    /\ \A n \in Names :
           LET account == [table |-> "provider_accounts", key |-> n] IN
           /\ account \in Rows /\ account # TheTenant
           /\ \A e \in Emails : account # User(e)
BY DEF Rows, Row, Document, TheTenant, User

\* The seed script waits for a tenant that another session has inserted, since
\* revision 0002 made its slug unique.
LEMMA SlugEnforced == Enforced("tenants")
<1>1. KeyColumns["tenants"] = {"slug"}
    BY DEF KeyColumns
<1>2. {"slug"} \in Definition.r0002["tenants"].unique
    BY DEF Definition, tenants_0002, Table
<1>3. QED
    BY <1>1, <1>2 DEF Enforced

\* What a session inserts is the row it has in hand.
LEMMA InsertsRow ==
    ASSUME Typed, NEW s \in Sessions
    PROVE  /\ Inserts(s) \subseteq {row[s]} /\ Inserts(s) \subseteq Rows
           /\ pc[s] = "flush" /\ row[s] # None => Inserts(s) = {row[s]}
           /\ pc[s] \in Emails /\ row[s] # None /\ ~Exists(User(pc[s])) =>
                  Inserts(s) = {row[s]}
           /\ pc[s] \in Emails /\ Exists(User(pc[s])) => Inserts(s) = {}
<1>1. pc[s] \in Emails => pc[s] # "flush"
    BY SeedRows
<1>2. QED
    BY <1>1 DEF Inserts, Typed

-----------------------------------------------------------------------------
(* The invariant is kept *)

\* A session whose variables stay as they are keeps what it has in hand: a
\* tenant once committed stays.
LEMMA InHandKept ==
    ASSUME NEW s \in Sessions, InHand(s),
           pc'[s] = pc[s], row'[s] = row[s], inserted'[s] = inserted[s],
           Exists(TheTenant) => Exists(TheTenant)'
    PROVE  InHand(s)'
BY DEF InHand

\* A session that closes has nothing in hand, and nobody else changes.
LEMMA CloseKeeps ==
    ASSUME SeedInv, NEW s \in Sessions, NEW how, Close(s, how),
           UNCHANGED committed
    PROVE  SeedInv'
<1>1. Typed'
    BY DEF SeedInv, Typed, Close, Goto
<1>2. LoginUnambiguous'
    BY DEF SeedInv, LoginUnambiguous, Exists
<1>3. /\ inserted'[s] = {} /\ pc'[s] = "ended"
      /\ \A q \in Sessions \ {s} : /\ pc'[q] = pc[q] /\ row'[q] = row[q]
                                   /\ inserted'[q] = inserted[q]
    BY DEF SeedInv, Typed, Close, Goto
<1>4. TenantAlone'
    BY <1>3 DEF SeedInv, TenantAlone, Exists
<1>5. ASSUME NEW q \in Sessions
      PROVE  InHand(q)'
    <2>1. CASE q = s
        BY <1>3, <2>1, SeedRows DEF InHand, Viewer
    <2>2. CASE q # s
        BY <1>3, <2>2, InHandKept DEF SeedInv, Exists
    <2>3. QED
        BY <2>1, <2>2
<1>6. QED
    BY <1>1, <1>2, <1>4, <1>5 DEF SeedInv

\* The same for a session that goes on, without a commit.
LEMMA StepKeeps ==
    ASSUME SeedInv, Typed', UNCHANGED committed, NEW s \in Sessions,
           \A q \in Sessions \ {s} : /\ pc'[q] = pc[q] /\ row'[q] = row[q]
                                     /\ inserted'[q] = inserted[q],
           InHand(s)',
           TheTenant \in inserted'[s] =>
               \/ TheTenant \in inserted[s]
               \/ /\ ~Exists(TheTenant)
                  /\ \A q \in Sessions \ {s} : TheTenant \notin inserted[q]
    PROVE  SeedInv'
<1>1. LoginUnambiguous'
    BY DEF SeedInv, LoginUnambiguous, Exists
<1>2. TenantAlone'
    BY DEF SeedInv, TenantAlone, Exists
<1>3. ASSUME NEW q \in Sessions, q # s
      PROVE  InHand(q)'
    BY <1>3, InHandKept DEF SeedInv, Exists
<1>4. QED
    BY <1>1, <1>2, <1>3 DEF SeedInv

LEMMA SelectTenantStep ==
    ASSUME SeedInv, NEW s \in Sessions, select_tenant(s)
    PROVE  SeedInv'
<1>1. /\ pc[s] = "idle" /\ pc'[s] = "flush" /\ inserted'[s] = inserted[s]
      /\ row'[s] = IF Exists(TheTenant) THEN None ELSE TheTenant
      /\ UNCHANGED committed
      /\ \A q \in Sessions \ {s} : /\ pc'[q] = pc[q] /\ row'[q] = row[q]
                                   /\ inserted'[q] = inserted[q]
    BY DEF select_tenant, Goto, SeedInv, Typed, database
<1>2. Typed'
    BY SeedRows DEF select_tenant, Goto, SeedInv, Typed, database
<1>3. InHand(s)'
    BY <1>1, SeedRows DEF SeedInv, InHand, Viewer, Exists
<1>4. QED
    BY <1>1, <1>2, <1>3, StepKeeps

LEMMA FlushTenantStep ==
    ASSUME SeedInv, NEW s \in Sessions, flush_tenant(s)
    PROVE  SeedInv'
<1>1. /\ pc[s] = "flush" /\ pc'[s] = Admin /\ inserted'[s] = Inserts(s)
      /\ row'[s] = User(Admin)
      /\ row[s] = None \/ row[s] = TheTenant
      /\ UNCHANGED committed
      /\ \A q \in Sessions \ {s} : /\ pc'[q] = pc[q] /\ row'[q] = row[q]
                                   /\ inserted'[q] = inserted[q]
    BY DEF flush_tenant, Goto, SeedInv, Typed, database, Admin
<1>2. Inserts(s) = IF row[s] = None THEN {} ELSE {TheTenant}
    BY <1>1 DEF Inserts
<1>3. Typed'
    BY <1>2, SeedRows, InsertsRow DEF flush_tenant, Goto, SeedInv, Typed,
       database, Admin
<1>4. row[s] = None => Exists(TheTenant)
    BY <1>1 DEF SeedInv, InHand
<1>5. InHand(s)'
    BY <1>1, <1>2, <1>4, SeedRows DEF InHand, Viewer, Exists
<1>6. row[s] # None =>
          /\ ~Exists(TheTenant)
          /\ \A q \in Sessions \ {s} : TheTenant \notin inserted[q]
    <2>1. SUFFICES ASSUME row[s] # None
                   PROVE  /\ ~Exists(TheTenant)
                          /\ \A q \in Sessions \ {s} : TheTenant \notin inserted[q]
        OBVIOUS
    <2>2. TheTenant \in Inserts(s) /\ Enforced(TheTenant.table)
        BY <1>2, <2>1, SlugEnforced, SeedRows
    <2>3. QED
        BY <2>2 DEF flush_tenant, Collides, Waits, WaitsFor
<1>7. QED
    BY <1>1, <1>2, <1>3, <1>5, <1>6, StepKeeps

LEMMA EnsureUserStep ==
    ASSUME SeedInv, NEW s \in Sessions, ensure_user(s)
    PROVE  SeedInv'
<1>1. /\ pc[s] \in Emails /\ inserted'[s] = inserted[s] \cup Inserts(s)
      /\ UNCHANGED committed
      /\ \A q \in Sessions \ {s} : /\ pc'[q] = pc[q] /\ row'[q] = row[q]
                                   /\ inserted'[q] = inserted[q]
      /\ pc[s] = Admin => pc'[s] = Viewer /\ row'[s] = User(Viewer)
      /\ pc[s] # Admin => pc'[s] = "commit" /\ row'[s] = None
    BY DEF ensure_user, Goto, SeedInv, Typed, database, Admin, Viewer
<1>2. Typed'
    BY SeedRows, InsertsRow DEF ensure_user, Goto, SeedInv, Typed, database,
       Admin, Viewer
<1>3. row[s] = User(pc[s]) /\ (TheTenant \in inserted[s] \/ Exists(TheTenant))
    BY <1>1 DEF SeedInv, InHand
<1>4. CASE TheTenant \in inserted[s]
    <2>1. ~Exists(User(pc[s]))
        BY <1>1, <1>4 DEF SeedInv, TenantAlone, LoginUnambiguous, Exists
    <2>2. Inserts(s) = {User(pc[s])}
        BY <1>1, <1>3, <2>1, InsertsRow, SeedRows DEF SeedInv
    <2>3. pc[s] = Viewer => User(Admin) \in inserted[s]
        BY <1>4 DEF SeedInv, InHand
    <2>4. InHand(s)'
        BY <1>1, <1>3, <1>4, <2>2, <2>3, SeedRows DEF InHand, Exists
    <2>5. QED
        BY <1>1, <1>2, <1>4, <2>4, StepKeeps
<1>5. CASE TheTenant \notin inserted[s]
    <2>1. Exists(TheTenant)
        BY <1>3, <1>5
    <2>2. Exists(User(pc[s]))
        BY <1>1, <2>1 DEF SeedInv, LoginUnambiguous, Exists
    <2>3. Inserts(s) = {}
        BY <1>1, <2>2, InsertsRow DEF SeedInv
    <2>4. InHand(s)'
        BY <1>1, <1>5, <2>1, <2>3, SeedRows DEF SeedInv, InHand, Exists
    <2>5. QED
        BY <1>1, <1>2, <1>5, <2>3, <2>4, StepKeeps
<1>6. QED
    BY <1>4, <1>5

\* The operations of the API touch no tenant and no user.
LEMMA ApiStep ==
    ASSUME SeedInv, NEW s \in Sessions,
           \/ publish_document(s) \/ publish_entry(s) \/ update_entry(s)
           \/ flush(s)
           \/ \E k \in Documents : send_document_endpoint(s, k)
           \/ \E n \in Names : register_provider_account(s, n)
           \/ \E l \in Lists, force \in BOOLEAN : replay_batch(s, l, force)
    PROVE  SeedInv'
<1>1. CASE publish_document(s)
    <2>1. /\ pc[s] = "publish" /\ pc'[s] = "flush"
          /\ UNCHANGED <<committed, row, inserted>>
          /\ \A q \in Sessions \ {s} : pc'[q] = pc[q]
        BY <1>1 DEF publish_document, Goto, SeedInv, Typed, database
    <2>2. Typed'
        BY <1>1 DEF publish_document, Goto, SeedInv, Typed, database
    <2>3. InHand(s)'
        BY <2>1, SeedRows DEF SeedInv, InHand, Viewer, Exists
    <2>4. QED
        BY <2>1, <2>2, <2>3, StepKeeps
<1>2. CASE publish_entry(s) \/ update_entry(s)
    <2>1. /\ pc[s] \in {"replay", "update"}
          /\ pc'[s] \in {"replay", "update", "commit"}
          /\ UNCHANGED <<committed, row, inserted>>
          /\ \A q \in Sessions \ {s} : pc'[q] = pc[q]
        BY <1>2 DEF publish_entry, update_entry, Goto, SeedInv, Typed, database
    <2>2. Typed'
        BY <1>2 DEF publish_entry, update_entry, Goto, SeedInv, Typed, database
    <2>3. InHand(s)'
        BY <2>1, SeedRows DEF SeedInv, InHand, Viewer
    <2>4. QED
        BY <2>1, <2>2, <2>3, StepKeeps
<1>3. CASE flush(s)
    <2>1. /\ pc[s] = "flush" /\ pc'[s] = "commit" /\ inserted'[s] = Inserts(s)
          /\ row[s] # TheTenant /\ UNCHANGED <<committed, row>>
          /\ \A q \in Sessions \ {s} :
                 pc'[q] = pc[q] /\ inserted'[q] = inserted[q]
        BY <1>3 DEF flush, Goto, SeedInv, Typed, database
    <2>2. Typed'
        BY <1>3, InsertsRow DEF flush, Goto, SeedInv, Typed, database
    <2>3. /\ TheTenant \notin Inserts(s)
          /\ \A e \in Emails : User(e) \notin Inserts(s)
        BY <2>1, InsertsRow DEF SeedInv, InHand
    <2>4. InHand(s)'
        BY <2>1, <2>3, SeedRows DEF InHand
    <2>5. QED
        BY <2>1, <2>2, <2>3, <2>4, StepKeeps
<1>4. ASSUME NEW k \in Documents, send_document_endpoint(s, k)
      PROVE  SeedInv'
    <2>1. CASE Exists(Document(k))
        BY <1>4, <2>1, CloseKeeps DEF send_document_endpoint, database
    <2>2. CASE ~Exists(Document(k))
        <3>1. /\ pc[s] = "idle" /\ pc'[s] = "publish" /\ row'[s] = Document(k)
              /\ UNCHANGED <<committed, inserted>>
              /\ \A q \in Sessions \ {s} : pc'[q] = pc[q] /\ row'[q] = row[q]
            BY <1>4, <2>2 DEF send_document_endpoint, Goto, SeedInv, Typed,
               database
        <3>2. Typed'
            BY <1>4, <2>2, OtherRows DEF send_document_endpoint, Goto, SeedInv,
               Typed, database
        <3>3. row'[s] # None
            BY <3>1, OtherRows, NoneAssumption
        <3>4. InHand(s)'
            BY <3>1, <3>3, SeedRows, OtherRows DEF SeedInv, InHand, Viewer
        <3>5. QED
            BY <3>1, <3>2, <3>4, StepKeeps
    <2>3. QED
        BY <2>1, <2>2
<1>5. ASSUME NEW n \in Names, register_provider_account(s, n)
      PROVE  SeedInv'
    <2> DEFINE account == [table |-> "provider_accounts", key |-> n]
    <2>1. /\ account \in Rows /\ account # None /\ account # TheTenant
          /\ \A e \in Emails : account # User(e)
        BY OtherRows, NoneAssumption
    <2>2. /\ pc[s] = "idle" /\ pc'[s] = "flush" /\ row'[s] = account
          /\ UNCHANGED <<committed, inserted>>
          /\ \A q \in Sessions \ {s} : pc'[q] = pc[q] /\ row'[q] = row[q]
        BY <1>5 DEF register_provider_account, Goto, SeedInv, Typed, database
    <2>3. Typed'
        BY <1>5, <2>1 DEF register_provider_account, Goto, SeedInv, Typed,
           database
    <2> HIDE DEF account
    <2>4. InHand(s)'
        BY <2>1, <2>2, SeedRows DEF SeedInv, InHand, Viewer
    <2>5. QED
        BY <2>2, <2>3, <2>4, StepKeeps
<1>6. ASSUME NEW l \in Lists, NEW force \in BOOLEAN, replay_batch(s, l, force)
      PROVE  SeedInv'
    <2>1. /\ pc[s] = "idle" /\ pc'[s] \in {"replay", "commit"}
          /\ UNCHANGED <<committed, row, inserted>>
          /\ \A q \in Sessions \ {s} : pc'[q] = pc[q]
          /\ pc' = [pc EXCEPT ![s] = pc'[s]]
        BY <1>6 DEF replay_batch, Goto, SeedInv, Typed, database
    <2>2. Typed'
        BY <2>1 DEF SeedInv, Typed
    <2>3. InHand(s)'
        BY <2>1, SeedRows DEF SeedInv, InHand, Viewer
    <2>4. QED
        BY <2>1, <2>2, <2>3, StepKeeps
<1>7. QED
    BY <1>1, <1>2, <1>3, <1>4, <1>5, <1>6

\* The commit of a tenant brings both its users, and no other commit brings
\* any.
LEMMA CommitStep ==
    ASSUME SeedInv, NEW s \in Sessions, commit(s)
    PROVE  SeedInv'
<1>1. /\ pc[s] = "commit" /\ pc'[s] = "ended" /\ inserted'[s] = {}
      /\ \A r \in Rows :
             committed'[r] = committed[r] + IF r \in inserted[s] THEN 1 ELSE 0
      /\ \A q \in Sessions \ {s} : /\ pc'[q] = pc[q] /\ row'[q] = row[q]
                                   /\ inserted'[q] = inserted[q]
    BY DEF commit, Close, Goto, SeedInv, Typed
<1>2. \A r \in Rows : committed[r] \in Nat
    BY DEF SeedInv, Typed
<1>3. Typed'
    BY <1>2 DEF commit, Close, Goto, SeedInv, Typed
<1>4. Exists(TheTenant)' <=> Exists(TheTenant) \/ TheTenant \in inserted[s]
    BY <1>1, <1>2, SeedRows DEF Exists
<1>5. LoginUnambiguous'
    <2>1. CASE TheTenant \in inserted[s]
        <3>1. ~Exists(TheTenant) /\ \A e \in Emails : User(e) \in inserted[s]
            BY <1>1, <2>1, SeedRows DEF SeedInv, TenantAlone, InHand
        <3>2. \A e \in Emails : committed'[User(e)] = 1
            BY <1>1, <3>1, SeedRows DEF SeedInv, LoginUnambiguous
        <3>3. QED
            BY <1>4, <2>1, <3>2 DEF LoginUnambiguous
    <2>2. CASE TheTenant \notin inserted[s]
        <3>1. \A e \in Emails : User(e) \notin inserted[s]
            BY <2>2 DEF SeedInv, InHand
        <3>2. \A e \in Emails : committed'[User(e)] = committed[User(e)]
            BY <1>1, <1>2, <3>1, SeedRows
        <3>3. QED
            BY <1>4, <2>2, <3>2 DEF SeedInv, LoginUnambiguous
    <2>3. QED
        BY <2>1, <2>2
<1>6. TenantAlone'
    BY <1>1, <1>4 DEF SeedInv, TenantAlone
<1>7. ASSUME NEW q \in Sessions
      PROVE  InHand(q)'
    <2>1. CASE q = s
        BY <1>1, <2>1, SeedRows DEF InHand
    <2>2. CASE q # s
        BY <1>1, <1>4, <2>2, InHandKept DEF SeedInv
    <2>3. QED
        BY <2>1, <2>2
<1>8. QED
    BY <1>3, <1>5, <1>6, <1>7 DEF SeedInv

LEMMA SeedInvariant == Spec => []SeedInv
<1>1. Init => SeedInv
    <2> SUFFICES ASSUME Init PROVE SeedInv
        OBVIOUS
    <2>1. Typed
        BY DEF Init, Typed
    <2>2. /\ committed[TheTenant] = 0
          /\ \A e \in Emails : committed[User(e)] = 0
        BY SeedRows DEF Init
    <2>3. LoginUnambiguous /\ TenantAlone
        <3>1. ~Exists(TheTenant)
            BY <2>2 DEF Exists
        <3>2. \A s \in Sessions : inserted[s] = {}
            BY DEF Init
        <3>3. QED
            BY <2>2, <3>1, <3>2 DEF LoginUnambiguous, TenantAlone
    <2>4. \A s \in Sessions : InHand(s)
        BY SeedRows DEF Init, InHand
    <2>5. QED
        BY <2>1, <2>3, <2>4 DEF SeedInv
<1>2. SeedInv /\ [Next]_vars => SeedInv'
    <2> SUFFICES ASSUME SeedInv, [Next]_vars PROVE SeedInv'
        OBVIOUS
    <2>1. ASSUME NEW s \in Sessions, Begins(s)
          PROVE  SeedInv'
        BY <2>1, SelectTenantStep, ApiStep DEF Begins
    <2>2. ASSUME NEW s \in Sessions, Step(s)
          PROVE  SeedInv'
        <3>1. CASE integrity_error(s) \/ deadlock_detected(s)
            BY <3>1, CloseKeeps DEF integrity_error, deadlock_detected, database
        <3>2. QED
            BY <2>2, <3>1, FlushTenantStep, EnsureUserStep, ApiStep, CommitStep
               DEF Step
    <2>3. ASSUME NEW s \in Sessions, session_fails(s)
          PROVE  SeedInv'
        BY <2>3, CloseKeeps DEF session_fails, database
    <2>4. CASE UNCHANGED vars
        <3>1. UNCHANGED <<committed, pc, row, inserted>>
            BY <2>4 DEF vars, database, work
        <3>2. Typed' /\ LoginUnambiguous' /\ TenantAlone'
            BY <3>1 DEF SeedInv, Typed, LoginUnambiguous, TenantAlone, Exists
        <3>3. \A s \in Sessions : InHand(s)'
            BY <3>1, InHandKept DEF SeedInv, Exists
        <3>4. QED
            BY <3>2, <3>3 DEF SeedInv
    <2>5. QED
        BY <2>1, <2>2, <2>3, <2>4 DEF Next
<1>3. QED
    BY <1>1, <1>2, PTL DEF Spec

\* However many runs of the seed script overlap with each other and with the
\* API, and wherever they fail: there is one user for each of its two e-mails
\* once there is a tenant, and none before.
THEOREM LoginSound == Spec => []LoginUnambiguous
BY SeedInvariant, PTL DEF SeedInv

-----------------------------------------------------------------------------
(* Sends of one document *)

\* A document that is inserted is of a send that has published its task and has
\* nothing left but the commit; a send that was committed, or lost to the unique
\* key, leaves the document committed.
SendLocal(s) ==
    /\ pc[s] # "ended" => outcome[s] = "none"
    /\ pc[s] = "idle" => published[s] = {} /\ batch[s] = <<>>
    /\ pc[s] = "publish" =>
           /\ published[s] = {} /\ batch[s] = <<>>
           /\ \E k \in Documents : row[s] = Document(k)
    /\ pc[s] \in {"replay", "update"} => batch[s] # <<>>
    /\ \A k \in Documents :
           /\ pc[s] = "flush" => (row[s] = Document(k) <=> Sent(s, k))
           /\ Document(k) \in inserted[s] => pc[s] = "commit" /\ Sent(s, k)
           /\ Sent(s, k) => pc[s] \in {"flush", "commit", "ended"}
           /\ Sent(s, k) /\ pc[s] = "commit" => Document(k) \in inserted[s]
           /\ Sent(s, k) /\ outcome[s] \in {"committed", "conflict"} =>
                  Exists(Document(k))

\* One session at a time holds a document that nobody has committed, and one
\* has committed each that is.
SendAlone(k) ==
    /\ \A s \in Sessions :
           Document(k) \in inserted[s] => ~Exists(Document(k))
    /\ \A s, q \in Sessions :
           Document(k) \in inserted[s] /\ Document(k) \in inserted[q] => s = q
    /\ Exists(Document(k)) =>
           \E s \in Sessions : Sent(s, k) /\ outcome[s] = "committed"
    /\ \A s, q \in Sessions :
           /\ Sent(s, k) /\ outcome[s] = "committed"
           /\ Sent(q, k) /\ outcome[q] = "committed"
           => s = q

SendTypes ==
    /\ outcome = [s \in Sessions |-> outcome[s]]
    /\ batch = [s \in Sessions |-> batch[s]]
    /\ published = [s \in Sessions |-> published[s]]

SendInv ==
    /\ SendTypes
    /\ \A s \in Sessions : SendLocal(s)
    /\ \A k \in Documents : SendAlone(k)

\* The variables of a session that SendInv speaks of.
Still(q) ==
    /\ pc'[q] = pc[q] /\ row'[q] = row[q] /\ inserted'[q] = inserted[q]
    /\ outcome'[q] = outcome[q] /\ batch'[q] = batch[q]
    /\ published'[q] = published[q]

LEMMA StillKeeps ==
    ASSUME NEW q \in Sessions, SendLocal(q), Still(q),
           \A k \in Documents : Exists(Document(k)) => Exists(Document(k))'
    PROVE  SendLocal(q)'
<1>1. \A k \in Documents : Sent(q, k)' <=> Sent(q, k)
    BY DEF Still, Sent
<1>2. QED
    BY <1>1 DEF Still, SendLocal

\* A step that commits nothing: a document is inserted when nobody else holds
\* it, and no session becomes a committed one.
LEMMA QuietStep ==
    ASSUME SendInv, SendTypes', UNCHANGED committed, NEW s \in Sessions,
           \A q \in Sessions \ {s} : Still(q),
           SendLocal(s)',
           outcome'[s] = "committed" => outcome[s] = "committed",
           \A k \in Documents :
               Sent(s, k) /\ outcome[s] = "committed" =>
                   Sent(s, k)' /\ outcome'[s] = "committed",
           \A k \in Documents :
               Sent(s, k)' /\ outcome'[s] = "committed" => Sent(s, k),
           \A k \in Documents :
               Document(k) \in inserted'[s] =>
                   \/ Document(k) \in inserted[s]
                   \/ /\ ~Exists(Document(k))
                      /\ \A q \in Sessions \ {s} :
                             Document(k) \notin inserted[q]
    PROVE  SendInv'
<1>1. \A k \in Documents : Exists(Document(k))' <=> Exists(Document(k))
    BY DEF Exists
<1>2. ASSUME NEW q \in Sessions
      PROVE  SendLocal(q)'
    <2>1. CASE q = s
        BY <2>1
    <2>2. CASE q # s
        BY <1>1, <2>2, StillKeeps DEF SendInv
    <2>3. QED
        BY <2>1, <2>2
<1>3. ASSUME NEW k \in Documents
      PROVE  SendAlone(k)'
    <2>1. SendAlone(k)
        BY DEF SendInv
    <2>2. \A q \in Sessions \ {s} :
              /\ Sent(q, k)' <=> Sent(q, k)
              /\ outcome'[q] = outcome[q] /\ inserted'[q] = inserted[q]
        BY DEF Still, Sent
    <2>3. \A q \in Sessions :
              (Sent(q, k) /\ outcome[q] = "committed")' <=>
                  Sent(q, k) /\ outcome[q] = "committed"
        BY <2>2
    <2>4. /\ \A q \in Sessions :
                 Document(k) \in inserted'[q] => ~Exists(Document(k))'
          /\ \A p, q \in Sessions :
                 Document(k) \in inserted'[p] /\ Document(k) \in inserted'[q]
                     => p = q
        BY <1>1, <2>1, <2>2 DEF SendAlone
    <2>5. QED
        BY <1>1, <2>1, <2>3, <2>4 DEF SendAlone
<1>4. QED
    BY <1>2, <1>3 DEF SendInv

\* The commit of a send is the first that commits its document.
LEMMA CommitSends ==
    ASSUME SendInv, SeedInv, NEW s \in Sessions, commit(s)
    PROVE  SendInv'
<1>1. /\ pc[s] = "commit" /\ pc'[s] = "ended" /\ outcome'[s] = "committed"
      /\ inserted'[s] = {} /\ UNCHANGED <<batch, published>>
      /\ \A r \in Rows :
             committed'[r] = committed[r] + IF r \in inserted[s] THEN 1 ELSE 0
    BY DEF commit, Close, Goto, SeedInv, Typed, SendInv, SendTypes, history
<1>2. \A q \in Sessions \ {s} : Still(q)
    BY DEF commit, Close, Goto, SeedInv, Typed, SendInv, SendTypes, history, Still
<1>3. SendTypes'
    BY DEF commit, Close, Goto, SendInv, SendTypes, history
<1>4. \A k \in Documents :
          Exists(Document(k))' <=>
              Exists(Document(k)) \/ Document(k) \in inserted[s]
    <2>1. \A k \in Documents : /\ Document(k) \in Rows
                               /\ committed[Document(k)] \in Nat
        BY OtherRows DEF SeedInv, Typed
    <2>2. QED
        BY <1>1, <2>1 DEF Exists
<1>5. \A q \in Sessions, k \in Documents : Sent(q, k)' <=> Sent(q, k)
    BY <1>1 DEF Sent
<1>6. \A k \in Documents : Sent(s, k) <=> Document(k) \in inserted[s]
    BY <1>1 DEF SendInv, SendLocal
<1>7. ASSUME NEW q \in Sessions
      PROVE  SendLocal(q)'
    <2>1. CASE q = s
        BY <1>1, <1>4, <1>5, <1>6, <2>1 DEF SendLocal
    <2>2. CASE q # s
        BY <1>2, <1>4, <2>2, StillKeeps DEF SendInv
    <2>3. QED
        BY <2>1, <2>2
<1>8. ASSUME NEW k \in Documents
      PROVE  SendAlone(k)'
    <2>1. SendAlone(k)
        BY DEF SendInv
    <2>2. \A q \in Sessions \ {s} :
              outcome'[q] = outcome[q] /\ inserted'[q] = inserted[q]
        BY <1>2 DEF Still
    <2>3. outcome[s] = "none"
        BY <1>1 DEF SendInv, SendLocal
    <2>4. CASE Document(k) \in inserted[s]
        <3>1. /\ ~Exists(Document(k)) /\ Sent(s, k)
              /\ \A q \in Sessions \ {s} : Document(k) \notin inserted[q]
            BY <1>6, <2>1, <2>4 DEF SendAlone
        <3>2. \A q \in Sessions : ~(Sent(q, k) /\ outcome[q] = "committed")
            BY <3>1 DEF SendInv, SendLocal
        <3>3. QED
            BY <1>1, <1>5, <2>2, <3>1, <3>2 DEF SendAlone
    <2>5. CASE Document(k) \notin inserted[s]
        <3>1. Exists(Document(k))' <=> Exists(Document(k))
            BY <1>4, <2>5
        <3>2. ~Sent(s, k)
            BY <1>6, <2>5
        <3>3. \A q \in Sessions :
                  (Sent(q, k) /\ outcome[q] = "committed")' <=>
                      Sent(q, k) /\ outcome[q] = "committed"
            BY <1>5, <2>2, <3>2
        <3>4. /\ \A q \in Sessions :
                     Document(k) \in inserted'[q] => Document(k) \in inserted[q]
            BY <1>1, <2>2
        <3>5. QED
            BY <2>1, <3>1, <3>3, <3>4 DEF SendAlone
    <2>6. QED
        BY <2>4, <2>5
<1>9. QED
    BY <1>3, <1>7, <1>8 DEF SendInv

\* A session that closes without a commit.
LEMMA CloseSends ==
    ASSUME SendInv, SeedInv, NEW s \in Sessions, pc[s] # "ended",
           NEW how \in {"refused", "conflict", "victim", "failed"},
           Close(s, how), UNCHANGED <<committed, batch, published>>,
           \A k \in Documents :
               Sent(s, k) /\ how = "conflict" => Exists(Document(k))
    PROVE  SendInv'
<1>1. /\ pc'[s] = "ended" /\ outcome'[s] = how /\ inserted'[s] = {}
    BY DEF Close, Goto, SeedInv, Typed, SendInv, SendTypes
<1>2. \A q \in Sessions \ {s} : Still(q)
    BY DEF Close, Goto, SeedInv, Typed, SendInv, SendTypes, Still
<1>3. SendTypes'
    BY DEF Close, SendInv, SendTypes
<1>4. \A k \in Documents : Sent(s, k)' <=> Sent(s, k)
    BY DEF Sent
<1>5. SendLocal(s)'
    BY <1>1, <1>4 DEF SendLocal, Exists
<1>6. outcome[s] = "none"
    BY DEF SendInv, SendLocal
<1>7. QED
    BY <1>1, <1>2, <1>3, <1>4, <1>5, <1>6, QuietStep

\* A document is inserted only when nobody holds it or has committed it.
LEMMA DocumentFree ==
    ASSUME NEW s \in Sessions, NEW k \in Documents, ~Waits(s), ~Collides(s),
           Document(k) \in Inserts(s)
    PROVE  /\ ~Exists(Document(k))
           /\ \A q \in Sessions \ {s} : Document(k) \notin inserted[q]
<1>1. Enforced("edo_documents")
    <2>1. KeyColumns["edo_documents"] = {"tenant_id", "internal_document_id"}
        BY DEF KeyColumns
    <2>2. {"tenant_id", "internal_document_id"}
              \in Definition.r0002["edo_documents"].unique
        BY DEF Definition, edo_documents_0002, Table
    <2>3. QED
        BY <2>1, <2>2 DEF Enforced
<1>2. Enforced(Document(k).table)
    BY <1>1 DEF Document
<1>3. QED
    BY <1>2 DEF Collides, Waits, WaitsFor

LEMMA DocumentKeys ==
    /\ \A j, k \in Documents : Document(j) = Document(k) => j = k
    /\ \A k \in Documents :
           /\ Document(k) # TheTenant /\ Document(k) # None
           /\ \A n \in Names :
                  Document(k) # [table |-> "provider_accounts", key |-> n]
<1>1. \A j, k \in Documents : Document(j) = Document(k) => j = k
    BY DEF Document
<1>2. \A k \in Documents, n \in Names :
          Document(k) # [table |-> "provider_accounts", key |-> n]
    BY DEF Document
<1>3. QED
    BY <1>1, <1>2, OtherRows, NoneAssumption

\* A step that goes on and leaves the session's history alone.
LEMMA PlainSends ==
    ASSUME SendInv, SeedInv, NEW s \in Sessions,
           \/ select_tenant(s) \/ flush_tenant(s) \/ ensure_user(s)
           \/ \E n \in Names : register_provider_account(s, n)
           \/ update_entry(s)
    PROVE  SendInv'
<1>1. /\ UNCHANGED <<committed, outcome, batch, published>>
      /\ pc[s] \notin {"publish", "commit", "ended"}
    BY SeedRows DEF select_tenant, flush_tenant, ensure_user, update_entry,
       register_provider_account, database, history
<1>2. \A q \in Sessions \ {s} : Still(q)
    <2>1. \A q \in Sessions \ {s} : /\ pc'[q] = pc[q] /\ row'[q] = row[q]
                                    /\ inserted'[q] = inserted[q]
        BY DEF select_tenant, flush_tenant, ensure_user, update_entry,
           register_provider_account, Goto, SeedInv, Typed
    <2>2. QED
        BY <1>1, <2>1 DEF Still
<1>3. \A q \in Sessions, k \in Documents : Sent(q, k)' <=> Sent(q, k)
    BY <1>1 DEF Sent
<1>4. \A k \in Documents : ~Sent(s, k)
    <2> SUFFICES ASSUME NEW k \in Documents PROVE ~Sent(s, k)
        OBVIOUS
    <2>1. CASE pc[s] = "flush"
        <3>1. row[s] = None \/ row[s] = TheTenant
            BY <2>1, SeedRows DEF select_tenant, flush_tenant, ensure_user,
               update_entry, register_provider_account
        <3>2. row[s] # Document(k)
            BY <3>1, DocumentKeys
        <3>3. QED
            BY <2>1, <3>2 DEF SendInv, SendLocal
    <2>2. CASE pc[s] # "flush"
        BY <1>1, <2>2 DEF SendInv, SendLocal
    <2>3. QED
        BY <2>1, <2>2
<1>5. \A k \in Documents : Document(k) \notin inserted'[s]
    <2>1. \A k \in Documents : Document(k) \notin inserted[s]
        BY <1>4 DEF SendInv, SendLocal
    <2>2. inserted'[s] = inserted[s] \/ inserted'[s] = Inserts(s)
          \/ inserted'[s] = inserted[s] \cup Inserts(s)
        BY DEF select_tenant, flush_tenant, ensure_user, update_entry,
           register_provider_account, SeedInv, Typed
    <2>3. \A k \in Documents : pc[s] \in Emails \cup {"flush"} =>
              Document(k) \notin Inserts(s)
        <3>1. pc[s] = "flush" => \A k \in Documents : row[s] # Document(k)
            BY <1>4 DEF SendInv, SendLocal
        <3>2. pc[s] \in Emails => \A k \in Documents : row[s] # Document(k)
            BY OtherRows DEF SeedInv, InHand
        <3>3. QED
            BY <3>1, <3>2, InsertsRow DEF SeedInv
    <2>4. pc[s] \notin Emails \cup {"flush"} => inserted'[s] = inserted[s]
        BY DEF select_tenant, flush_tenant, ensure_user, update_entry,
           register_provider_account
    <2>5. QED
        BY <2>1, <2>2, <2>3, <2>4
<1>6. SendLocal(s)'
    <2>1. \A k \in Documents : pc'[s] = "flush" => row'[s] # Document(k)
        <3>1. CASE select_tenant(s)
            <4>1. row'[s] \in {None, TheTenant}
                BY <3>1 DEF select_tenant, SeedInv, Typed
            <4>2. QED
                BY <4>1, DocumentKeys
        <3>2. ASSUME NEW n \in Names, register_provider_account(s, n)
              PROVE  \A k \in Documents : row'[s] # Document(k)
            <4>1. row'[s] = [table |-> "provider_accounts", key |-> n]
                BY <3>2 DEF register_provider_account, SeedInv, Typed
            <4>2. QED
                BY <4>1, DocumentKeys
        <3>3. CASE flush_tenant(s) \/ ensure_user(s) \/ update_entry(s)
            <4>1. pc'[s] \in Emails \cup {"commit", "replay"}
                BY <3>3 DEF flush_tenant, ensure_user, update_entry, Goto,
                   SeedInv, Typed, Emails
            <4>2. QED
                BY <4>1, SeedRows
        <3>4. QED
            BY <3>1, <3>2, <3>3
    <2>2. /\ pc'[s] \notin {"idle", "publish", "ended"}
          /\ pc'[s] \in {"replay", "update"} => pc[s] = "update"
        <3>1. pc'[s] \in Emails \cup {"flush", "commit", "replay"}
            BY DEF select_tenant, flush_tenant, ensure_user, update_entry,
               register_provider_account, Goto, SeedInv, Typed, Emails
        <3>2. update_entry(s) => pc[s] = "update"
            BY DEF update_entry
        <3>3. ~update_entry(s) => pc'[s] \in Emails \cup {"flush", "commit"}
            BY DEF select_tenant, flush_tenant, ensure_user,
               register_provider_account, Goto, SeedInv, Typed, Emails
        <3>4. QED
            BY <3>1, <3>2, <3>3, SeedRows
    <2>3. outcome'[s] = "none" /\ (pc[s] = "update" => batch'[s] # <<>>)
        BY <1>1 DEF SendInv, SendLocal
    <2>4. QED
        BY <1>3, <1>4, <1>5, <2>1, <2>2, <2>3 DEF SendLocal
<1>7. SendTypes'
    BY <1>1 DEF SendInv, SendTypes
<1>8. outcome'[s] = outcome[s]
    BY <1>1
<1>9. QED
    BY <1>1, <1>2, <1>3, <1>5, <1>6, <1>7, <1>8, QuietStep

\* A batch publishes, but is no send.
LEMMA BatchSends ==
    ASSUME SendInv, SeedInv, NEW s \in Sessions,
           \/ publish_entry(s)
           \/ \E l \in Lists, force \in BOOLEAN : replay_batch(s, l, force)
    PROVE  SendInv'
<1>1. /\ UNCHANGED <<committed, row, inserted, outcome>>
      /\ pc[s] \in {"idle", "replay"}
      /\ pc'[s] \in {"commit", "replay", "update"}
    BY DEF publish_entry, replay_batch, database, Goto, SeedInv, Typed
<1>2. \A q \in Sessions \ {s} : Still(q)
    BY DEF publish_entry, replay_batch, database, Goto, SeedInv, Typed,
       SendInv, SendTypes, Still
<1>3. SendTypes'
    BY DEF publish_entry, replay_batch, SendInv, SendTypes
<1>4. \A k \in Documents : ~Sent(s, k)
    BY <1>1 DEF SendInv, SendLocal
<1>5. /\ pc'[s] # "commit" => batch'[s] # <<>>
      /\ pc'[s] = "commit" => published'[s] = {}
    <2>1. CASE publish_entry(s)
        BY <2>1 DEF publish_entry, Goto, SeedInv, Typed, SendInv, SendLocal
    <2>2. ASSUME NEW l \in Lists, NEW force \in BOOLEAN,
                 replay_batch(s, l, force)
          PROVE  /\ pc'[s] # "commit" => batch'[s] # <<>>
                 /\ pc'[s] = "commit" => published'[s] = {}
        <3> DEFINE chosen == Chosen(l, force)
        <3>1. /\ pc[s] = "idle" /\ UNCHANGED published
              /\ batch' = [batch EXCEPT ![s] = chosen]
              /\ pc' = [pc EXCEPT ![s] =
                            IF chosen = <<>> THEN "commit" ELSE "replay"]
            BY <2>2 DEF replay_batch, Goto
        <3> HIDE DEF chosen
        <3>2. batch'[s] = chosen
              /\ pc'[s] = IF chosen = <<>> THEN "commit" ELSE "replay"
            BY <3>1 DEF SeedInv, Typed, SendInv, SendTypes
        <3>3. published[s] = {}
            BY <3>1 DEF SendInv, SendLocal
        <3>4. QED
            BY <3>1, <3>2, <3>3
    <2>3. QED
        BY <2>1, <2>2
<1>6. \A k \in Documents : ~Sent(s, k)'
    BY <1>5 DEF Sent
<1>7. \A k \in Documents : Document(k) \notin inserted[s]
    BY <1>4 DEF SendInv, SendLocal
<1>8. outcome[s] = "none"
    BY <1>1 DEF SendInv, SendLocal
<1>9. SendLocal(s)'
    BY <1>1, <1>5, <1>6, <1>7, <1>8 DEF SendLocal
<1>10. QED
    BY <1>1, <1>2, <1>3, <1>4, <1>6, <1>8, <1>9, QuietStep

\* A send looks for its document, publishes its task and inserts its rows.
LEMMA SendSends ==
    ASSUME SendInv, SeedInv, NEW s \in Sessions,
           \/ \E k \in Documents : send_document_endpoint(s, k)
           \/ publish_document(s) \/ flush(s)
    PROVE  SendInv'
<1>1. ASSUME NEW k \in Documents, send_document_endpoint(s, k)
      PROVE  SendInv'
    <2>1. pc[s] = "idle" /\ UNCHANGED <<committed, batch, published>>
        BY <1>1 DEF send_document_endpoint, database, history
    <2>2. \A j \in Documents : ~Sent(s, j)
        BY <2>1 DEF SendInv, SendLocal
    <2>3. CASE Exists(Document(k))
        <3>1. Close(s, "refused")
            BY <1>1, <2>3 DEF send_document_endpoint
        <3>2. QED
            BY <2>1, <2>2, <3>1, CloseSends
    <2>4. CASE ~Exists(Document(k))
        <3>1. /\ pc'[s] = "publish" /\ row'[s] = Document(k)
              /\ UNCHANGED <<inserted, outcome>>
              /\ \A q \in Sessions \ {s} : pc'[q] = pc[q] /\ row'[q] = row[q]
            BY <1>1, <2>4 DEF send_document_endpoint, Goto, SeedInv, Typed
        <3>2. \A q \in Sessions \ {s} : Still(q)
            BY <2>1, <3>1 DEF Still
        <3>3. \A j \in Documents : ~Sent(s, j)'
            BY <2>1, <2>2 DEF Sent
        <3>4. /\ published[s] = {} /\ batch[s] = <<>> /\ outcome[s] = "none"
              /\ \A j \in Documents : Document(j) \notin inserted[s]
            BY <2>1, <2>2 DEF SendInv, SendLocal
        <3>5. SendLocal(s)'
            BY <2>1, <3>1, <3>3, <3>4 DEF SendLocal
        <3>6. SendTypes'
            BY <2>1, <3>1 DEF SendInv, SendTypes
        <3>7. QED
            BY <2>1, <2>2, <3>1, <3>2, <3>3, <3>4, <3>5, <3>6, QuietStep
    <2>5. QED
        BY <2>3, <2>4
<1>2. CASE publish_document(s)
    <2>1. /\ pc[s] = "publish" /\ pc'[s] = "flush"
          /\ UNCHANGED <<committed, row, inserted, outcome, batch>>
          /\ published'[s] = {row[s].key}
          /\ \A q \in Sessions \ {s} : pc'[q] = pc[q] /\ published'[q] = published[q]
        BY <1>2 DEF publish_document, Goto, database, SeedInv, Typed, SendInv,
           SendTypes
    <2>2. PICK k \in Documents : row[s] = Document(k)
        BY <2>1 DEF SendInv, SendLocal
    <2>3. batch[s] = <<>> /\ outcome[s] = "none" /\ published[s] = {}
        BY <2>1 DEF SendInv, SendLocal
    <2>4. row[s].key = k
        BY <2>2 DEF Document
    <2>5. \A j \in Documents : Sent(s, j)' <=> j = k
        BY <2>1, <2>3, <2>4 DEF Sent
    <2>6. \A j \in Documents : row'[s] = Document(j) <=> j = k
        BY <2>1, <2>2, DocumentKeys
    <2>7. \A j \in Documents : Document(j) \notin inserted[s]
        BY <2>1 DEF SendInv, SendLocal
    <2>8. SendLocal(s)'
        BY <2>1, <2>3, <2>5, <2>6, <2>7 DEF SendLocal
    <2>9. \A q \in Sessions \ {s} : Still(q)
        BY <2>1 DEF Still
    <2>10. SendTypes'
        BY <1>2, <2>1 DEF publish_document, SendInv, SendTypes
    <2>11. QED
        BY <2>1, <2>3, <2>7, <2>8, <2>9, <2>10, QuietStep
<1>3. CASE flush(s)
    <2>1. /\ pc[s] = "flush" /\ pc'[s] = "commit" /\ row[s] # None
          /\ UNCHANGED <<committed, row, outcome, batch, published>>
          /\ ~Waits(s) /\ ~Collides(s) /\ inserted'[s] = Inserts(s)
          /\ \A q \in Sessions \ {s} :
                 pc'[q] = pc[q] /\ inserted'[q] = inserted[q]
        BY <1>3 DEF flush, Goto, database, history, SeedInv, Typed
    <2>2. inserted'[s] = {row[s]}
        BY <2>1, InsertsRow DEF SeedInv
    <2>3. \A k \in Documents : Sent(s, k)' <=> Sent(s, k)
        BY <2>1 DEF Sent
    <2>4. \A k \in Documents : Sent(s, k) <=> Document(k) \in inserted'[s]
        BY <2>1, <2>2 DEF SendInv, SendLocal
    <2>5. outcome[s] = "none"
        BY <2>1 DEF SendInv, SendLocal
    <2>6. SendLocal(s)'
        BY <2>1, <2>3, <2>4, <2>5 DEF SendLocal
    <2>7. \A q \in Sessions \ {s} : Still(q)
        BY <2>1 DEF Still
    <2>8. \A k \in Documents : Document(k) \in inserted'[s] =>
              /\ ~Exists(Document(k))
              /\ \A q \in Sessions \ {s} : Document(k) \notin inserted[q]
        BY <2>1, DocumentFree
    <2>9. SendTypes'
        BY <2>1 DEF SendInv, SendTypes
    <2>10. QED
        BY <2>1, <2>3, <2>5, <2>6, <2>7, <2>8, <2>9, QuietStep
<1>4. QED
    BY <1>1, <1>2, <1>3

\* A send that collides has another one's document before it.
LEMMA EndSends ==
    ASSUME SendInv, SeedInv, NEW s \in Sessions,
           \/ integrity_error(s) \/ deadlock_detected(s) \/ session_fails(s)
    PROVE  SendInv'
<1>1. PICK how \in {"conflict", "victim", "failed"} :
          /\ Close(s, how)
          /\ how = "conflict" => Collides(s)
    BY DEF integrity_error, deadlock_detected, session_fails
<1>2. UNCHANGED <<committed, batch, published>>
    BY DEF integrity_error, deadlock_detected, session_fails, database, history
<1>3. pc[s] # "ended"
    <2>1. Collides(s) => pc[s] # "ended"
        BY SeedRows DEF Collides, Inserts
    <2>2. ASSUME NEW p \in Sessions, WaitsFor(s, p)
          PROVE  pc[s] # "ended"
        BY <2>2, SeedRows DEF WaitsFor, Inserts, Updates
    <2>3. QED
        BY <2>1, <2>2 DEF integrity_error, deadlock_detected, Deadlocked,
           session_fails
<1>4. ASSUME NEW k \in Documents, Sent(s, k), how = "conflict"
      PROVE  Exists(Document(k))
    <2>1. PICK r \in Inserts(s) : Exists(r)
        BY <1>1, <1>4 DEF Collides
    <2>2. pc[s] = "flush"
        <3>1. pc[s] \in {"flush", "commit", "ended"}
            BY <1>4 DEF SendInv, SendLocal
        <3>2. QED
            BY <2>1, <3>1, SeedRows DEF Inserts
    <2>3. row[s] = Document(k)
        BY <1>4, <2>2 DEF SendInv, SendLocal
    <2>4. QED
        BY <2>1, <2>3, InsertsRow DEF SeedInv
<1>5. QED
    BY <1>1, <1>2, <1>3, <1>4, CloseSends

LEMMA SendInvariant == Spec => []SendInv
<1>1. Init => SendInv
    <2> SUFFICES ASSUME Init PROVE SendInv
        OBVIOUS
    <2>1. \A k \in Documents : ~Exists(Document(k))
        <3>1. \A k \in Documents :
                  Document(k) \in Rows /\ Document(k).table # "dlq_entries"
            BY OtherRows DEF Document
        <3>2. QED
            BY <3>1 DEF Init, Exists
    <2>2. \A s \in Sessions :
              /\ pc[s] = "idle" /\ outcome[s] = "none" /\ published[s] = {}
              /\ batch[s] = <<>> /\ inserted[s] = {}
        BY DEF Init
    <2>3. \A s \in Sessions, k \in Documents : ~Sent(s, k)
        BY <2>2 DEF Sent
    <2>4. SendTypes
        BY DEF Init, SendTypes
    <2>5. \A s \in Sessions : SendLocal(s)
        BY <2>2, <2>3 DEF SendLocal
    <2>6. \A k \in Documents : SendAlone(k)
        BY <2>1, <2>2, <2>3 DEF SendAlone
    <2>7. QED
        BY <2>4, <2>5, <2>6 DEF SendInv
<1>2. SendInv /\ SeedInv /\ [Next]_vars => SendInv'
    <2> SUFFICES ASSUME SendInv, SeedInv, [Next]_vars PROVE SendInv'
        OBVIOUS
    <2>1. ASSUME NEW s \in Sessions, Begins(s)
          PROVE  SendInv'
        BY <2>1, PlainSends, BatchSends, SendSends DEF Begins
    <2>2. ASSUME NEW s \in Sessions, Step(s)
          PROVE  SendInv'
        BY <2>2, PlainSends, BatchSends, SendSends, CommitSends, EndSends
           DEF Step
    <2>3. CASE UNCHANGED vars
        <3>1. UNCHANGED <<committed, pc, row, inserted, outcome, batch,
                          published>>
            BY <2>3 DEF vars, database, work, history
        <3>2. \A s \in Sessions : Still(s)
            BY <3>1 DEF Still
        <3>3. \A s \in Sessions : SendLocal(s)'
            BY <3>1, <3>2, StillKeeps DEF SendInv, Exists
        <3>4. SendTypes'
            BY <3>1 DEF SendInv, SendTypes
        <3>5. ASSUME NEW k \in Documents
              PROVE  SendAlone(k)'
            <4>1. /\ Exists(Document(k))' <=> Exists(Document(k))
                  /\ \A s \in Sessions : Sent(s, k)' <=> Sent(s, k)
                BY <3>1 DEF Exists, Sent
            <4>2. SendAlone(k)
                BY DEF SendInv
            <4>3. QED
                BY <3>1, <4>1, <4>2, Zenon DEF SendAlone
        <3>6. QED
            BY <3>3, <3>4, <3>5 DEF SendInv
    <2>4. QED
        BY <2>1, <2>2, <2>3, EndSends DEF Next
<1>3. QED
    BY <1>1, <1>2, SeedInvariant, PTL DEF Spec

\* Of the sends of one document that have published their tasks, for any number
\* of them and of other sessions, at most one is ever committed, and one loses to
\* the unique key only when another was committed.
THEOREM SendsDecided == Spec => []OneSendWins
<1>1. SendInv => OneSendWins
    <2> SUFFICES ASSUME SendInv, NEW k \in Documents
                 PROVE  LET winners == {s \in Sessions :
                                Sent(s, k) /\ outcome[s] = "committed"}
                        IN  /\ \A s, q \in winners : s = q
                            /\ \A s \in Sessions :
                                   Sent(s, k) /\ outcome[s] = "conflict" =>
                                       winners # {}
        BY DEF OneSendWins
    <2>1. SendAlone(k)
        BY DEF SendInv
    <2>2. \A s \in Sessions :
              Sent(s, k) /\ outcome[s] = "conflict" => Exists(Document(k))
        BY DEF SendInv, SendLocal
    <2>3. QED
        BY <2>1, <2>2 DEF SendAlone
<1>2. QED
    BY <1>1, SendInvariant, PTL

-----------------------------------------------------------------------------
(* What a batch has done *)

Entry(e) == [table |-> "dlq_entries", key |-> e]

\* How many of its entries a batch has updated.
Updated(s) == Len(batch[s]) - Len(todo[s])

LockTypes ==
    /\ replayed \in [Sessions -> SUBSET Entries]
    /\ todo \in [Sessions -> Seq(Entries)]
    /\ locked \in [Sessions -> SUBSET Rows]
    /\ outcome \in [Sessions -> {"none", "committed", "refused", "conflict",
                                 "victim", "failed"}]
    /\ batch \in [Sessions -> Seq(Entries)]
    /\ published \in [Sessions -> SUBSET (Entries \cup Documents)]

\* A session that goes on: it has locked the entries it has updated, all of
\* them published, and has the others left, in the order of the request.
Ongoing(s) ==
    /\ outcome[s] = "none"
    /\ Len(todo[s]) <= Len(batch[s])
    /\ \A i \in 1..Len(todo[s]) : todo[s][i] = batch[s][i + Updated(s)]
    /\ pc[s] \in {"replay", "update"} <=> todo[s] # <<>>
    /\ \A e \in Entries :
           Entry(e) \in locked[s] <=> \E i \in 1..Updated(s) : batch[s][i] = e
    /\ \A e \in Entries : Entry(e) \in locked[s] => e \in published[s]
    /\ pc[s] = "update" => todo[s][1] \in published[s]

\* The rows it holds tell how far it is: it holds a document or an account, or
\* both users, only when it has nothing left but the commit.
Holding(s) ==
    /\ \A r \in inserted[s] :
           \/ r = TheTenant \/ \E e \in Emails : r = User(e)
           \/ pc[s] = "commit"
    /\ \A r \in locked[s] :
           (\E e \in Emails : r = User(e)) \/ \E e \in Entries : r = Entry(e)
    /\ User(Admin) \in locked[s] => pc[s] \in {Viewer, "commit"}
    /\ User(Viewer) \in locked[s] => pc[s] = "commit"
    /\ pc[s] = "publish" => \E k \in Documents : row[s] = Document(k)
    /\ pc[s] \in {"idle", "publish"} => published[s] = {}

Marked(s) ==
    IF outcome[s] = "committed"
    THEN /\ replayed[s] = ToSet(batch[s])
         /\ replayed[s] \subseteq published[s]
    ELSE replayed[s] = {}

SessionInv(s) ==
    /\ Holding(s)
    /\ Marked(s)
    /\ pc[s] = "idle" => batch[s] = <<>>
    /\ pc[s] = "ended" => inserted[s] = {} /\ locked[s] = {} /\ todo[s] = <<>>
    /\ pc[s] # "ended" => Ongoing(s)

Exclusive ==
    \A s, q \in Sessions : s # q => locked[s] \cap locked[q] = {}

LocksInv ==
    /\ LockTypes
    /\ Exclusive
    /\ \A s \in Sessions : SessionInv(s)

-----------------------------------------------------------------------------
(* The entries a batch chooses *)

LEMMA Least ==
    ASSUME NEW T \in SUBSET Nat, T # {}
    PROVE  \E n \in T : \A m \in T : n <= m
<1>1. \E x \in T : \A y \in T : ~(<<y, x>> \in OpToRel(<, Nat))
    BY NatLessThanWellFounded, WFMin
<1>2. PICK x \in T : \A y \in T : ~(<<y, x>> \in OpToRel(<, Nat))
    BY <1>1
<1>3. \A y \in T : ~(y < x)
    BY <1>2 DEF OpToRel
<1>4. QED
    BY <1>3

\* f[i] is what the loop has chosen from the first i of n entries.
Loop(f, n, l, force) ==
    f = [i \in 0..n |->
            IF i = 0 THEN <<>>
            ELSE IF force \/ l[i] \in Retryable
            THEN Append(f[i - 1], l[i]) ELSE f[i - 1]]

\* The loop is defined for lists of every length, since there is no least one
\* for which it is not.
LEMMA LoopExists ==
    ASSUME NEW l, NEW force
    PROVE  \A n \in Nat : \E f : Loop(f, n, l, force)
<1> DEFINE T == {n \in Nat : ~\E f : Loop(f, n, l, force)}
<1>1. SUFFICES ASSUME T # {} PROVE FALSE
    OBVIOUS
<1>2. PICK n \in T : \A m \in T : n <= m
    BY <1>1, Least
<1>3. CASE n = 0
    <2> DEFINE f == [i \in 0..0 |-> <<>>]
    <2>1. Loop(f, 0, l, force)
        BY DEF Loop
    <2>2. QED
        BY <1>3, <2>1
<1>4. CASE n # 0
    <2>1. n \in Nat /\ n - 1 \in Nat /\ n - 1 \notin T
        BY <1>2, <1>4
    <2>2. PICK f : Loop(f, n - 1, l, force)
        BY <2>1
    <2> DEFINE g == [i \in 0..n |->
                        IF i # n THEN f[i]
                        ELSE IF force \/ l[n] \in Retryable
                        THEN Append(f[n - 1], l[n]) ELSE f[n - 1]]
    <2>3. ASSUME NEW i \in 0..n
          PROVE  g[i] = IF i = 0 THEN <<>>
                        ELSE IF force \/ l[i] \in Retryable
                        THEN Append(g[i - 1], l[i]) ELSE g[i - 1]
        <3>1. CASE i = n
            <4>1. g[i] = IF force \/ l[i] \in Retryable
                         THEN Append(f[i - 1], l[i]) ELSE f[i - 1]
                BY <3>1, <2>1
            <4>2. g[i - 1] = f[i - 1]
                BY <3>1, <2>1
            <4>3. QED
                BY <3>1, <1>4, <4>1, <4>2
        <3>2. CASE i # n
            <4>1. i \in 0..(n - 1) /\ g[i] = f[i]
                BY <3>2, <2>1
            <4>2. f[i] = IF i = 0 THEN <<>>
                         ELSE IF force \/ l[i] \in Retryable
                         THEN Append(f[i - 1], l[i]) ELSE f[i - 1]
                BY <2>2, <4>1 DEF Loop
            <4>3. i # 0 => g[i - 1] = f[i - 1]
                BY <4>1, <2>1
            <4>4. QED
                BY <4>1, <4>2, <4>3
        <3>3. QED
            BY <3>1, <3>2
    <2>4. Loop(g, n, l, force)
        <3>1. g = [i \in 0..n |-> g[i]]
            OBVIOUS
        <3> HIDE DEF g
        <3>2. QED
            BY <2>3, <3>1 DEF Loop
    <2>5. QED
        BY <2>4
<1>5. QED
    BY <1>3, <1>4

\* What it chooses is a list of entries.
LEMMA LoopChooses ==
    ASSUME NEW l \in Seq(Entries), NEW force, NEW n \in Nat, n <= Len(l),
           NEW f, Loop(f, n, l, force)
    PROVE  \A i \in 0..n : f[i] \in Seq(Entries)
<1> DEFINE T == {i \in 0..n : f[i] \notin Seq(Entries)}
<1>1. SUFFICES ASSUME T # {} PROVE FALSE
    OBVIOUS
<1>2. T \in SUBSET Nat
    OBVIOUS
<1>3. PICK i \in T : \A j \in T : i <= j
    BY <1>1, <1>2, Least
<1>4. i \in 0..n /\ f[i] \notin Seq(Entries)
    BY <1>3
<1>5. f[i] = IF i = 0 THEN <<>>
             ELSE IF force \/ l[i] \in Retryable
             THEN Append(f[i - 1], l[i]) ELSE f[i - 1]
    BY <1>4 DEF Loop
<1>6. i # 0
    BY <1>4, <1>5
<1>7. i - 1 \in 0..n /\ i - 1 \notin T
    BY <1>3, <1>4, <1>6
<1>8. f[i - 1] \in Seq(Entries) /\ l[i] \in Entries
    BY <1>4, <1>6, <1>7
<1>9. QED
    BY <1>4, <1>5, <1>6, <1>8, AppendProperties

LEMMA ChosenEntries ==
    ASSUME NEW l \in Lists, NEW force
    PROVE  Chosen(l, force) \in Seq(Entries)
<1>1. l \in Seq(Entries) /\ Len(l) \in Nat
    BY SessionsAssumption
<1> DEFINE f == CHOOSE g : Loop(g, Len(l), l, force)
<1>2. Loop(f, Len(l), l, force)
    BY <1>1, LoopExists
<1>3. Chosen(l, force) = f[Len(l)]
    BY DEF Chosen, Loop
<1>4. QED
    BY <1>1, <1>2, <1>3, LoopChooses

-----------------------------------------------------------------------------
(* The steps keep what the sessions hold *)

\* Nothing of the session changes.
Same(q) ==
    /\ pc'[q] = pc[q] /\ row'[q] = row[q] /\ todo'[q] = todo[q]
    /\ inserted'[q] = inserted[q] /\ locked'[q] = locked[q]
    /\ outcome'[q] = outcome[q] /\ batch'[q] = batch[q]
    /\ published'[q] = published[q] /\ replayed'[q] = replayed[q]

LEMMA SameKeeps ==
    ASSUME NEW q \in Sessions, SessionInv(q), Same(q)
    PROVE  SessionInv(q)'
<1>1. Holding(q)'
    BY DEF Same, SessionInv, Holding
<1>2. Marked(q)'
    BY DEF Same, SessionInv, Marked
<1>3. pc[q] # "ended" => Ongoing(q)'
    <2>1. Updated(q)' = Updated(q)
        BY DEF Same, Updated
    <2>2. pc[q] # "ended" => Ongoing(q)
        BY DEF SessionInv
    <2>3. QED
        BY <2>1, <2>2 DEF Same, Ongoing
<1>4. QED
    BY <1>1, <1>2, <1>3 DEF Same, SessionInv

\* A step of one session, which locks no row that another has locked.
LEMMA OneStep ==
    ASSUME LocksInv, LockTypes', NEW s \in Sessions,
           \A q \in Sessions \ {s} : Same(q),
           \A q \in Sessions \ {s} :
               (locked'[s] \ locked[s]) \cap locked[q] = {},
           SessionInv(s)'
    PROVE  LocksInv'
<1>1. ASSUME NEW q \in Sessions
      PROVE  SessionInv(q)'
    <2>1. CASE q = s
        BY <2>1
    <2>2. CASE q # s
        BY <2>2, SameKeeps DEF LocksInv
    <2>3. QED
        BY <2>1, <2>2
<1>2. Exclusive'
    <2> SUFFICES ASSUME NEW p \in Sessions, NEW q \in Sessions, p # q
                 PROVE  locked'[p] \cap locked'[q] = {}
        BY DEF Exclusive
    <2>1. locked[p] \cap locked[q] = {}
        BY DEF LocksInv, Exclusive
    <2>2. \A z \in Sessions \ {s} : locked'[z] = locked[z]
        BY DEF Same
    <2>3. CASE p = s
        BY <2>1, <2>2, <2>3
    <2>4. CASE q = s
        BY <2>1, <2>2, <2>4
    <2>5. CASE p # s /\ q # s
        BY <2>1, <2>2, <2>5
    <2>6. QED
        BY <2>3, <2>4, <2>5
<1>3. QED
    BY <1>1, <1>2 DEF LocksInv

\* A session that closes without a commit holds nothing and has marked nothing.
LEMMA CloseHolds ==
    ASSUME LocksInv, SeedInv, NEW s \in Sessions, pc[s] # "ended",
           NEW how \in {"refused", "conflict", "victim", "failed"},
           Close(s, how), UNCHANGED <<replayed, batch, published>>
    PROVE  LocksInv'
<1>1. LockTypes'
    <2>1. todo' \in [Sessions -> Seq(Entries)]
        BY DEF LocksInv, LockTypes, Close
    <2>2. QED
        BY <2>1 DEF LocksInv, LockTypes, Close
<1>2. \A q \in Sessions \ {s} : Same(q)
    BY DEF LocksInv, LockTypes, SeedInv, Typed, Close, Goto, Same
<1>3. /\ pc'[s] = "ended" /\ outcome'[s] = how /\ todo'[s] = <<>>
      /\ inserted'[s] = {} /\ locked'[s] = {}
      /\ UNCHANGED <<replayed[s], batch[s]>>
    BY DEF LocksInv, LockTypes, SeedInv, Typed, Close, Goto
<1>4. replayed[s] = {}
    <2>1. outcome[s] = "none"
        BY DEF LocksInv, SessionInv, Ongoing
    <2>2. QED
        BY <2>1 DEF LocksInv, SessionInv, Marked
<1>5. SessionInv(s)'
    BY <1>3, <1>4, SeedRows DEF SessionInv, Holding, Marked
<1>6. QED
    BY <1>1, <1>2, <1>3, <1>5, OneStep

\* A step of a session that is no batch, or of one that has ended its loop.
LEMMA PlainStep ==
    ASSUME LocksInv, SeedInv, Typed', LockTypes', NEW s \in Sessions,
           pc[s] # "ended", pc[s] \notin {"replay", "update"},
           pc'[s] \notin {"idle", "ended", "replay", "update"},
           UNCHANGED <<replayed, todo, outcome, batch>>,
           published[s] \subseteq published'[s],
           \A q \in Sessions \ {s} :
               /\ pc'[q] = pc[q] /\ row'[q] = row[q]
               /\ inserted'[q] = inserted[q] /\ locked'[q] = locked[q]
               /\ published'[q] = published[q],
           \A q \in Sessions \ {s} :
               (locked'[s] \ locked[s]) \cap locked[q] = {},
           locked[s] \subseteq locked'[s],
           \A r \in locked'[s] \ locked[s] : \E e \in Emails : r = User(e),
           Holding(s)'
    PROVE  LocksInv'
<1>1. \A q \in Sessions \ {s} : Same(q)
    BY DEF Same
<1>2. \A e \in Entries : Entry(e) \in locked'[s] <=> Entry(e) \in locked[s]
    BY DEF Entry, User
<1>3. SessionInv(s)'
    <2>1. Ongoing(s) /\ Marked(s)
        BY DEF LocksInv, SessionInv
    <2>2. todo[s] = <<>> /\ todo'[s] = <<>> /\ batch'[s] = batch[s]
        BY <2>1 DEF Ongoing
    <2>3. Updated(s)' = Updated(s)
        BY <2>2 DEF Updated
    <2>4. Ongoing(s)'
        BY <1>2, <2>1, <2>2, <2>3 DEF Ongoing
    <2>5. Marked(s)'
        BY <2>1 DEF Marked, Ongoing
    <2>6. QED
        BY <2>4, <2>5 DEF SessionInv
<1>4. QED
    BY <1>1, <1>3, OneStep

LEMMA SelectTenantHolds ==
    ASSUME LocksInv, SeedInv, SeedInv', NEW s \in Sessions, select_tenant(s)
    PROVE  LocksInv'
<1>1. /\ pc[s] = "idle" /\ pc'[s] = "flush" /\ inserted'[s] = inserted[s]
      /\ UNCHANGED <<replayed, todo, outcome, batch, published, locked>>
      /\ \A q \in Sessions \ {s} : /\ pc'[q] = pc[q] /\ row'[q] = row[q]
                                   /\ inserted'[q] = inserted[q]
    BY DEF select_tenant, Goto, SeedInv, Typed, database, history
<1>2. LockTypes'
    BY <1>1 DEF LocksInv, LockTypes
<1>3. Holding(s)
    BY DEF LocksInv, SessionInv
<1>4. Holding(s)'
    BY <1>1, <1>3, SeedRows DEF Holding, Viewer
<1>5. QED
    BY <1>1, <1>2, <1>4, PlainStep DEF SeedInv

LEMMA FlushTenantHolds ==
    ASSUME LocksInv, SeedInv, SeedInv', NEW s \in Sessions, flush_tenant(s)
    PROVE  LocksInv'
<1>1. /\ pc[s] = "flush" /\ pc'[s] = Admin /\ inserted'[s] = Inserts(s)
      /\ row[s] = None \/ row[s] = TheTenant
      /\ UNCHANGED <<replayed, todo, outcome, batch, published, locked>>
      /\ \A q \in Sessions \ {s} : /\ pc'[q] = pc[q] /\ row'[q] = row[q]
                                   /\ inserted'[q] = inserted[q]
    BY DEF flush_tenant, Goto, SeedInv, Typed, database, history, Admin
<1>2. LockTypes'
    BY <1>1 DEF LocksInv, LockTypes
<1>3. Holding(s) /\ \A r \in Inserts(s) : r = TheTenant
    BY <1>1 DEF LocksInv, SessionInv, Inserts
<1>4. Holding(s)'
    BY <1>1, <1>3, SeedRows DEF Holding, Viewer, Admin
<1>5. pc'[s] \notin {"idle", "ended", "replay", "update"}
    BY <1>1 DEF Admin
<1>6. QED
    BY <1>1, <1>2, <1>4, <1>5, PlainStep DEF SeedInv

LEMMA FlushHolds ==
    ASSUME LocksInv, SeedInv, SeedInv', NEW s \in Sessions, flush(s)
    PROVE  LocksInv'
<1>1. /\ pc[s] = "flush" /\ pc'[s] = "commit"
      /\ UNCHANGED <<replayed, todo, outcome, batch, published, locked>>
      /\ \A q \in Sessions \ {s} : /\ pc'[q] = pc[q] /\ row'[q] = row[q]
                                   /\ inserted'[q] = inserted[q]
    BY DEF flush, Goto, SeedInv, Typed, database, history
<1>2. LockTypes'
    BY <1>1 DEF LocksInv, LockTypes
<1>3. Holding(s)
    BY DEF LocksInv, SessionInv
<1>4. Holding(s)'
    BY <1>1, <1>3, SeedRows DEF Holding
<1>5. QED
    BY <1>1, <1>2, <1>4, PlainStep DEF SeedInv

\* A run of the seed script that updates a user has waited for its lock.
LEMMA EnsureUserHolds ==
    ASSUME LocksInv, SeedInv, SeedInv', NEW s \in Sessions, ensure_user(s)
    PROVE  LocksInv'
<1>1. /\ pc[s] \in Emails /\ inserted'[s] = inserted[s] \cup Inserts(s)
      /\ UNCHANGED <<replayed, todo, outcome, batch, published>>
      /\ \A q \in Sessions \ {s} : /\ pc'[q] = pc[q] /\ row'[q] = row[q]
                                   /\ inserted'[q] = inserted[q]
      /\ pc[s] = Admin => pc'[s] = Viewer
      /\ pc[s] # Admin => pc'[s] = "commit"
    BY DEF ensure_user, Goto, SeedInv, Typed, database, history, Admin, Viewer
<1>2. /\ locked'[s] = locked[s] \cup Updates(s)
      /\ \A q \in Sessions \ {s} : locked'[q] = locked[q]
    BY DEF ensure_user, LocksInv, LockTypes
<1>3. Updates(s) \subseteq {User(pc[s])} /\ User(pc[s]) \in Rows
    BY <1>1, SeedRows DEF Updates
<1>4. \A q \in Sessions \ {s} : Updates(s) \cap locked[q] = {}
    BY DEF ensure_user, Waits, WaitsFor
<1>5. LockTypes'
    <2>1. locked' \in [Sessions -> SUBSET Rows]
        BY <1>3 DEF ensure_user, LocksInv, LockTypes
    <2>2. QED
        BY <1>1, <2>1 DEF LocksInv, LockTypes
<1>6. Inserts(s) \subseteq {User(pc[s])}
    BY <1>1, InsertsRow DEF SeedInv, InHand
<1>7. Holding(s)
    BY DEF LocksInv, SessionInv
<1>8. Holding(s)'
    <2>1. \A r \in inserted'[s] :
              r = TheTenant \/ \E e \in Emails : r = User(e)
        BY <1>1, <1>6, <1>7, SeedRows DEF Holding
    <2>2. \A r \in locked'[s] :
              (\E e \in Emails : r = User(e)) \/ \E e \in Entries : r = Entry(e)
        BY <1>1, <1>2, <1>3, <1>7 DEF Holding
    <2>3. CASE pc[s] = Admin
        <3>1. pc'[s] = Viewer /\ pc'[s] \notin {"idle", "publish"}
            BY <1>1, <2>3, SeedRows DEF Viewer
        <3>2. User(Viewer) \notin locked'[s]
            BY <1>2, <1>3, <1>7, <2>3, SeedRows DEF Holding
        <3>3. QED
            BY <2>1, <2>2, <3>1, <3>2 DEF Holding
    <2>4. CASE pc[s] # Admin
        <3>1. pc'[s] = "commit"
            BY <1>1, <2>4
        <3>2. QED
            BY <2>1, <2>2, <3>1 DEF Holding
    <2>5. QED
        BY <2>3, <2>4
<1>9. /\ pc'[s] \notin {"idle", "ended", "replay", "update"}
      /\ pc[s] \notin {"ended", "replay", "update"}
    BY <1>1, SeedRows DEF Viewer
<1>10. QED
    BY <1>1, <1>2, <1>3, <1>4, <1>5, <1>8, <1>9, PlainStep DEF SeedInv

LEMMA PublishDocumentHolds ==
    ASSUME LocksInv, SeedInv, SeedInv', NEW s \in Sessions, publish_document(s)
    PROVE  LocksInv'
<1>1. /\ pc[s] = "publish" /\ pc'[s] = "flush" /\ inserted'[s] = inserted[s]
      /\ UNCHANGED <<replayed, todo, outcome, batch, locked>>
      /\ \A q \in Sessions \ {s} : /\ pc'[q] = pc[q] /\ row'[q] = row[q]
                                   /\ inserted'[q] = inserted[q]
    BY DEF publish_document, Goto, SeedInv, Typed, database
<1>2. Holding(s) /\ inserted[s] = {}
    <2>1. "publish" \notin Emails \cup {"commit"}
        BY SeedRows
    <2>2. QED
        BY <1>1, <2>1 DEF LocksInv, SessionInv, SeedInv, InHand
<1>3. PICK k \in Documents : row[s] = Document(k)
    BY <1>1, <1>2 DEF Holding
<1>4. published' = [published EXCEPT ![s] = {k}]
    BY <1>3 DEF publish_document, Document
<1>5. LockTypes'
    BY <1>1, <1>4 DEF LocksInv, LockTypes
<1>6. Holding(s)'
    BY <1>1, <1>2, SeedRows DEF Holding, Viewer
<1>7. published[s] \subseteq published'[s]
    BY <1>1, <1>2 DEF Holding
<1>8. QED
    BY <1>1, <1>4, <1>5, <1>6, <1>7, PlainStep DEF SeedInv

LEMMA RegisterHolds ==
    ASSUME LocksInv, SeedInv, SeedInv', NEW s \in Sessions, NEW n \in Names,
           register_provider_account(s, n)
    PROVE  LocksInv'
<1>1. /\ pc[s] = "idle" /\ pc'[s] = "flush" /\ inserted'[s] = inserted[s]
      /\ UNCHANGED <<replayed, todo, outcome, batch, published, locked>>
      /\ \A q \in Sessions \ {s} : /\ pc'[q] = pc[q] /\ row'[q] = row[q]
                                   /\ inserted'[q] = inserted[q]
    BY DEF register_provider_account, Goto, SeedInv, Typed, database, history
<1>2. LockTypes'
    BY <1>1 DEF LocksInv, LockTypes
<1>3. Holding(s)
    BY DEF LocksInv, SessionInv
<1>4. Holding(s)'
    BY <1>1, <1>3, SeedRows DEF Holding, Viewer
<1>5. QED
    BY <1>1, <1>2, <1>4, PlainStep DEF SeedInv

LEMMA SendHolds ==
    ASSUME LocksInv, SeedInv, SeedInv', NEW s \in Sessions,
           NEW k \in Documents, send_document_endpoint(s, k)
    PROVE  LocksInv'
<1>2. CASE Exists(Document(k))
    <2>1. /\ Close(s, "refused") /\ UNCHANGED <<replayed, batch, published>>
          /\ pc[s] # "ended"
        BY <1>2 DEF send_document_endpoint, database, history
    <2>2. QED
        BY <2>1, CloseHolds
<1>3. CASE ~Exists(Document(k))
    <2>1. /\ pc[s] = "idle" /\ pc'[s] = "publish" /\ row'[s] = Document(k)
          /\ inserted'[s] = inserted[s]
          /\ UNCHANGED <<replayed, todo, outcome, batch, published, locked>>
          /\ \A q \in Sessions \ {s} : /\ pc'[q] = pc[q] /\ row'[q] = row[q]
                                       /\ inserted'[q] = inserted[q]
        BY <1>3 DEF send_document_endpoint, Goto, SeedInv, Typed, database,
           history
    <2>2. LockTypes'
        BY <2>1 DEF LocksInv, LockTypes
    <2>3. Holding(s) /\ inserted[s] = {}
        <3>1. "idle" \notin Emails \cup {"commit"}
            BY SeedRows
        <3>2. QED
            BY <2>1, <3>1 DEF LocksInv, SessionInv, SeedInv, InHand
    <2>4. Holding(s)'
        BY <2>1, <2>3, SeedRows DEF Holding, Viewer
    <2>5. QED
        BY <2>1, <2>2, <2>4, PlainStep DEF SeedInv
<1>4. QED
    BY <1>2, <1>3

-----------------------------------------------------------------------------
(* The loop of a batch *)

LEMMA ReplayBatchHolds ==
    ASSUME LocksInv, SeedInv, SeedInv', NEW s \in Sessions, NEW l \in Lists,
           NEW force \in BOOLEAN, replay_batch(s, l, force)
    PROVE  LocksInv'
<1> DEFINE chosen == Chosen(l, force)
<1>1. chosen \in Seq(Entries)
    BY ChosenEntries
<1>2. /\ pc[s] = "idle"
      /\ todo' = [todo EXCEPT ![s] = chosen]
      /\ batch' = [batch EXCEPT ![s] = chosen]
      /\ pc' = [pc EXCEPT ![s] = IF chosen = <<>> THEN "commit" ELSE "replay"]
      /\ UNCHANGED <<database, row, inserted, locked, outcome, published>>
    BY DEF replay_batch, Goto
<1> HIDE DEF chosen
<1>3. LockTypes'
    BY <1>1, <1>2 DEF LocksInv, LockTypes, database
<1>4. \A q \in Sessions \ {s} : Same(q)
    BY <1>2 DEF Same, LocksInv, LockTypes, SeedInv, Typed, database
<1>5. /\ todo'[s] = chosen /\ batch'[s] = chosen
      /\ pc'[s] = IF chosen = <<>> THEN "commit" ELSE "replay"
      /\ UNCHANGED <<replayed, row, inserted, locked, outcome, published>>
    BY <1>2 DEF LocksInv, LockTypes, SeedInv, Typed, database
<1>6. /\ Holding(s) /\ Marked(s) /\ Ongoing(s)
      /\ batch[s] = <<>> /\ todo[s] = <<>>
    BY <1>2 DEF LocksInv, SessionInv, Ongoing
<1>7. \A e \in Entries : Entry(e) \notin locked[s]
    <2>1. Updated(s) = 0
        BY <1>6 DEF Updated
    <2>2. QED
        BY <1>6, <2>1 DEF Ongoing
<1>8. Updated(s)' = 0
    BY <1>1, <1>5 DEF Updated
<1>9. Ongoing(s)'
    <2>1. Len(chosen) \in Nat
        BY <1>1
    <2>2. QED
        BY <1>5, <1>6, <1>7, <1>8, <2>1 DEF Ongoing
<1>10. Holding(s)'
    BY <1>2, <1>5, <1>6, SeedRows DEF Holding, Viewer
<1>11. Marked(s)'
    BY <1>5, <1>6 DEF Marked, Ongoing
<1>12. QED
    BY <1>3, <1>4, <1>5, <1>9, <1>10, <1>11, OneStep DEF SessionInv

\* The first entry left, and what is left after it.
LEMMA Rest ==
    ASSUME LocksInv, NEW s \in Sessions, pc[s] \in {"replay", "update"}
    PROVE  /\ todo[s] \in Seq(Entries) /\ batch[s] \in Seq(Entries)
           /\ Len(todo[s]) \in Nat \ {0} /\ Len(batch[s]) \in Nat
           /\ Updated(s) \in Nat /\ Updated(s) = Len(batch[s]) - Len(todo[s])
           /\ Head(todo[s]) = todo[s][1] /\ Head(todo[s]) \in Entries
           /\ Head(todo[s]) = batch[s][Updated(s) + 1]
           /\ Tail(todo[s]) \in Seq(Entries)
           /\ Len(Tail(todo[s])) = Len(todo[s]) - 1
           /\ \A i \in 1..Len(Tail(todo[s])) : Tail(todo[s])[i] = todo[s][i + 1]
<1>1. todo[s] \in Seq(Entries) /\ batch[s] \in Seq(Entries)
    BY DEF LocksInv, LockTypes
<1>2. Ongoing(s)
    BY DEF LocksInv, SessionInv
<1>3. todo[s] # <<>>
    BY <1>2 DEF Ongoing
<1>4. Len(todo[s]) \in Nat \ {0} /\ Len(batch[s]) \in Nat
    BY <1>1, <1>3, EmptySeq, LenProperties
<1>5. Updated(s) \in Nat /\ Updated(s) = Len(batch[s]) - Len(todo[s])
    BY <1>2, <1>4 DEF Ongoing, Updated
<1>6. /\ Head(todo[s]) \in Entries /\ Tail(todo[s]) \in Seq(Entries)
      /\ Len(Tail(todo[s])) = Len(todo[s]) - 1
      /\ \A i \in 1..Len(Tail(todo[s])) : Tail(todo[s])[i] = todo[s][i + 1]
    BY <1>1, <1>3, HeadTailProperties
<1>7. Head(todo[s]) = todo[s][1]
    BY <1>1
<1>8. todo[s][1] = batch[s][Updated(s) + 1]
    <2>1. \A i \in 1..Len(todo[s]) : todo[s][i] = batch[s][i + Updated(s)]
        BY <1>2 DEF Ongoing
    <2>2. 1 \in 1..Len(todo[s]) /\ 1 + Updated(s) = Updated(s) + 1
        BY <1>4, <1>5
    <2>3. QED
        BY <2>1, <2>2
<1>9. QED
    BY <1>1, <1>4, <1>5, <1>6, <1>7, <1>8

LEMMA PublishEntryHolds ==
    ASSUME LocksInv, SeedInv, SeedInv', NEW s \in Sessions, publish_entry(s)
    PROVE  LocksInv'
<1>1. pc[s] = "replay"
    BY DEF publish_entry
<1>2. Head(todo[s]) = todo[s][1] /\ todo[s][1] \in Entries
    BY <1>1, Rest
<1>3. /\ published' = [published EXCEPT ![s] = @ \cup {todo[s][1]}]
      /\ pc' = [pc EXCEPT ![s] = "update"]
      /\ UNCHANGED <<replayed, row, todo, inserted, locked, outcome, batch>>
    BY <1>2 DEF publish_entry, Goto, database
<1>4. LockTypes'
    BY <1>2, <1>3 DEF LocksInv, LockTypes
<1>5. \A q \in Sessions \ {s} : Same(q)
    BY <1>3 DEF Same, LocksInv, LockTypes, SeedInv, Typed
<1>6. pc'[s] = "update" /\ published'[s] = published[s] \cup {todo[s][1]}
    BY <1>3 DEF LocksInv, LockTypes, SeedInv, Typed
<1>7. Holding(s) /\ Marked(s) /\ Ongoing(s)
    BY <1>1 DEF LocksInv, SessionInv
<1>8. Updated(s)' = Updated(s)
    BY <1>3 DEF Updated
<1>9. Ongoing(s)'
    BY <1>1, <1>3, <1>6, <1>7, <1>8 DEF Ongoing
<1>10. Holding(s)'
    BY <1>1, <1>3, <1>6, <1>7, SeedRows DEF Holding, Viewer
<1>11. Marked(s)'
    BY <1>3, <1>7 DEF Marked, Ongoing
<1>12. QED
    BY <1>3, <1>4, <1>5, <1>6, <1>9, <1>10, <1>11, OneStep DEF SessionInv

\* What is updated next.
LEMMA UpdatesRow ==
    ASSUME NEW s
    PROVE  /\ pc[s] = "update" => Updates(s) = {Entry(Head(todo[s]))}
           /\ pc[s] \in Emails =>
                  Updates(s) = IF Exists(User(pc[s])) THEN {User(pc[s])} ELSE {}
           /\ pc[s] # "update" /\ pc[s] \notin Emails => Updates(s) = {}
<1>1. "update" \notin Emails
    BY SeedRows
<1>2. pc[s] = "update" => Updates(s) = {Entry(Head(todo[s]))}
    BY <1>1 DEF Updates, Entry
<1>3. pc[s] \in Emails =>
          Updates(s) = IF Exists(User(pc[s])) THEN {User(pc[s])} ELSE {}
    BY <1>1 DEF Updates
<1>4. pc[s] # "update" /\ pc[s] \notin Emails => Updates(s) = {}
    BY DEF Updates
<1>5. QED
    BY <1>2, <1>3, <1>4

LEMMA EntryRows ==
    ASSUME NEW e \in Entries
    PROVE  /\ Entry(e) \in Rows /\ Entry(e).key = e /\ Entry(e) # TheTenant
           /\ \A email \in Emails : Entry(e) # User(email)
BY DEF Entry, Rows, Row, TheTenant, User

LEMMA UpdateEntryHolds ==
    ASSUME LocksInv, SeedInv, SeedInv', NEW s \in Sessions, update_entry(s)
    PROVE  LocksInv'
<1> DEFINE first == Head(todo[s])
           rest == Tail(todo[s])
           k == Updated(s)
           n == Len(todo[s])
           m == Len(batch[s])
<1>1. pc[s] = "update"
    BY DEF update_entry
<1>2. first \in Entries /\ first = todo[s][1] /\ first = batch[s][k + 1]
    BY <1>1, Rest
<1>3. n \in Nat \ {0} /\ m \in Nat /\ k \in Nat /\ k = m - n
    BY <1>1, Rest
<1>4. /\ rest \in Seq(Entries) /\ Len(rest) = n - 1
       /\ \A i \in 1..Len(rest) : rest[i] = todo[s][i + 1]
    BY <1>1, Rest
<1>5. rest = <<>> <=> n = 1
    <2>1. rest = <<>> <=> Len(rest) = 0
        BY <1>4, EmptySeq
    <2> HIDE DEF rest, n, m, k
    <2>2. QED
        BY <1>3, <1>4, <2>1
<1>6. Updates(s) = {Entry(first)} /\ Entry(first) \in Rows
    BY <1>1, <1>2, UpdatesRow, EntryRows
<1>7. /\ locked' = [locked EXCEPT ![s] = @ \cup {Entry(first)}]
      /\ todo' = [todo EXCEPT ![s] = rest]
      /\ pc' = [pc EXCEPT ![s] = IF n = 1 THEN "commit" ELSE "replay"]
      /\ UNCHANGED <<replayed, row, inserted, outcome, batch, published>>
    BY <1>6 DEF update_entry, Goto, database, history
<1>8. \A q \in Sessions \ {s} : Entry(first) \notin locked[q]
    BY <1>6 DEF update_entry, Waits, WaitsFor
<1> HIDE DEF first, rest
<1>9. LockTypes'
    BY <1>4, <1>6, <1>7 DEF LocksInv, LockTypes
<1>10. \A q \in Sessions \ {s} : Same(q)
    BY <1>7 DEF Same, LocksInv, LockTypes, SeedInv, Typed
<1>11. /\ locked'[s] = locked[s] \cup {Entry(first)}
      /\ todo'[s] = rest
      /\ pc'[s] = IF n = 1 THEN "commit" ELSE "replay"
    BY <1>7 DEF LocksInv, LockTypes, SeedInv, Typed
<1>12. Holding(s) /\ Marked(s) /\ Ongoing(s)
    BY <1>1 DEF LocksInv, SessionInv
<1>13. Updated(s)' = k + 1
    <2>1. Updated(s)' = m - Len(rest)
        BY <1>7, <1>11 DEF Updated
    <2> HIDE DEF k, m, n
    <2>2. QED
        BY <1>3, <1>4, <2>1
<1> HIDE DEF k, n, m
<1>14. Ongoing(s)'
    <2>1. Len(todo[s])' <= Len(batch[s])'
        <3>1. Len(rest) <= m
            BY <1>3, <1>4
        <3>2. QED
            BY <1>7, <1>11, <3>1 DEF m
    <2>2. ASSUME NEW i \in 1..Len(todo'[s])
          PROVE  todo'[s][i] = batch'[s][i + (k + 1)]
        <3>1. i \in 1..Len(rest)
            BY <1>11
        <3>2. i \in Nat /\ i + 1 \in 1..n /\ (i + 1) + k = i + (k + 1)
            BY <1>3, <1>4, <3>1
        <3>3. todo[s][i + 1] = batch[s][(i + 1) + k]
            BY <1>12, <3>2 DEF Ongoing, k, n
        <3>4. rest[i] = todo[s][i + 1]
            BY <1>4, <3>1
        <3>5. QED
            BY <1>7, <1>11, <3>2, <3>3, <3>4
    <2>3. pc'[s] \in {"replay", "update"} <=> todo'[s] # <<>>
        BY <1>11, <1>5
    <2>4. ASSUME NEW e \in Entries
          PROVE  Entry(e) \in locked'[s]
                     <=> \E i \in 1..(k + 1) : batch'[s][i] = e
        <3>1. Entry(e) = Entry(first) <=> e = first
            BY <1>2, EntryRows
        <3>2. Entry(e) \in locked[s] <=> \E i \in 1..k : batch[s][i] = e
            BY <1>12 DEF Ongoing, k
        <3>3. 1..(k + 1) = (1..k) \cup {k + 1}
            BY <1>3
        <3>4. batch' = batch /\ batch[s][k + 1] = first
            BY <1>2, <1>7
        <3>5. QED
            BY <1>11, <3>1, <3>2, <3>3, <3>4
    <2>5. ASSUME NEW e \in Entries, Entry(e) \in locked'[s]
          PROVE  e \in published'[s]
        <3>1. Entry(e) = Entry(first) <=> e = first
            BY <1>2, EntryRows
        <3>2. first \in published[s]
            BY <1>1, <1>2, <1>12 DEF Ongoing
        <3>3. QED
            BY <1>7, <1>11, <1>12, <2>5, <3>1, <3>2 DEF Ongoing
    <2>6. outcome'[s] = "none" /\ pc'[s] # "update"
        BY <1>7, <1>11, <1>12 DEF Ongoing
    <2>7. QED
        BY <1>13, <2>1, <2>2, <2>3, <2>4, <2>5, <2>6 DEF Ongoing
<1>15. Holding(s)'
    <2>1. \A r \in locked'[s] :
              (\E e \in Emails : r = User(e)) \/ \E e \in Entries : r = Entry(e)
        BY <1>2, <1>11, <1>12 DEF Holding
    <2>2. User(Admin) \notin locked'[s] /\ User(Viewer) \notin locked'[s]
        BY <1>1, <1>2, <1>11, <1>12, SeedRows, EntryRows DEF Holding
    <2>3. inserted'[s] = inserted[s] /\ pc'[s] \notin {"idle", "publish"}
        BY <1>7, <1>11
    <2>4. QED
        BY <1>1, <1>12, <2>1, <2>2, <2>3 DEF Holding
<1>16. Marked(s)'
    BY <1>7, <1>12 DEF Marked, Ongoing
<1>17. SessionInv(s)'
    BY <1>11, <1>14, <1>15, <1>16 DEF SessionInv
<1>18. QED
    BY <1>8, <1>9, <1>10, <1>11, <1>17, OneStep

\* A batch that commits has updated all of its entries.
LEMMA CommitHolds ==
    ASSUME LocksInv, SeedInv, SeedInv', NEW s \in Sessions, commit(s)
    PROVE  LocksInv'
<1> DEFINE marked == {e \in Entries : Entry(e) \in locked[s]}
<1>1. /\ pc[s] = "commit" /\ Close(s, "committed")
      /\ replayed' = [replayed EXCEPT ![s] = marked]
      /\ UNCHANGED <<batch, published>>
    BY DEF commit, history, Entry
<1>2. LockTypes'
    <2>1. todo' \in [Sessions -> Seq(Entries)]
        BY <1>1 DEF LocksInv, LockTypes, Close
    <2>2. QED
        BY <1>1, <2>1 DEF LocksInv, LockTypes, Close
<1>3. \A q \in Sessions \ {s} : Same(q)
    BY <1>1 DEF LocksInv, LockTypes, SeedInv, Typed, Close, Goto, Same
<1>4. /\ pc'[s] = "ended" /\ outcome'[s] = "committed" /\ todo'[s] = <<>>
      /\ inserted'[s] = {} /\ locked'[s] = {} /\ replayed'[s] = marked
    BY <1>1 DEF LocksInv, LockTypes, SeedInv, Typed, Close, Goto
<1>5. Ongoing(s) /\ todo[s] = <<>> /\ batch[s] \in Seq(Entries)
    BY <1>1 DEF LocksInv, LockTypes, SessionInv, Ongoing
<1>6. marked \subseteq published[s]
    BY <1>5 DEF Ongoing
<1>7. marked = ToSet(batch[s])
    <2>1. Len(batch[s]) \in Nat /\ DOMAIN batch[s] = 1..Len(batch[s])
        BY <1>5
    <2>2. Updated(s) = Len(batch[s])
        BY <1>5, <2>1 DEF Updated
    <2>3. \A i \in DOMAIN batch[s] : batch[s][i] \in Entries
        BY <1>5, ElementOfSeq
    <2>4. \A e \in Entries :
              Entry(e) \in locked[s] <=> \E i \in DOMAIN batch[s] : batch[s][i] = e
        BY <1>5, <2>1, <2>2 DEF Ongoing
    <2>5. QED
        BY <2>3, <2>4 DEF ToSet
<1>8. SessionInv(s)'
    <2>1. Holding(s)'
        BY <1>4, SeedRows DEF Holding
    <2>2. Marked(s)'
        BY <1>1, <1>4, <1>6, <1>7 DEF Marked
    <2>3. QED
        BY <1>4, <2>1, <2>2 DEF SessionInv
<1>9. QED
    BY <1>2, <1>3, <1>4, <1>8, OneStep

-----------------------------------------------------------------------------
(* The locks, at every step *)

\* Only a session at an INSERT or an UPDATE waits or collides.
LEMMA AtStatement ==
    ASSUME NEW s \in Sessions,
           Collides(s) \/ \E q \in Sessions : WaitsFor(s, q)
    PROVE  pc[s] \in Emails \cup {"flush", "update"}
<1>1. Inserts(s) # {} => pc[s] \in Emails \cup {"flush"}
    BY DEF Inserts
<1>2. Updates(s) # {} => pc[s] \in Emails \cup {"update"}
    BY UpdatesRow
<1>3. Inserts(s) # {} \/ Updates(s) # {}
    BY DEF Collides, WaitsFor
<1>4. QED
    BY <1>1, <1>2, <1>3

LEMMA LocksStep ==
    ASSUME LocksInv, SeedInv, SeedInv', [Next]_vars
    PROVE  LocksInv'
<1>1. ASSUME NEW s \in Sessions, Begins(s)
      PROVE  LocksInv'
    BY <1>1, SelectTenantHolds, SendHolds, RegisterHolds, ReplayBatchHolds
       DEF Begins
<1>2. ASSUME NEW s \in Sessions,
             integrity_error(s) \/ deadlock_detected(s) \/ session_fails(s)
      PROVE  LocksInv'
    <2>1. pc[s] # "ended"
        <3>1. CASE session_fails(s)
            BY <3>1 DEF session_fails
        <3>2. CASE integrity_error(s) \/ deadlock_detected(s)
            <4>1. Collides(s) \/ \E q \in Sessions : WaitsFor(s, q)
                BY <3>2 DEF integrity_error, deadlock_detected, Deadlocked
            <4>2. QED
                BY <4>1, AtStatement, SeedRows
        <3>3. QED
            BY <1>2, <3>1, <3>2
    <2>2. PICK how \in {"refused", "conflict", "victim", "failed"} :
              Close(s, how) /\ UNCHANGED <<database, history>>
        BY <1>2 DEF integrity_error, deadlock_detected, session_fails
    <2>3. UNCHANGED <<replayed, batch, published>>
        BY <2>2 DEF database, history
    <2>4. QED
        BY <2>1, <2>2, <2>3, CloseHolds DEF LocksInv, LockTypes
<1>3. ASSUME NEW s \in Sessions, Step(s)
      PROVE  LocksInv'
    BY <1>2, <1>3, FlushTenantHolds, EnsureUserHolds, PublishDocumentHolds,
       FlushHolds, PublishEntryHolds, UpdateEntryHolds, CommitHolds DEF Step
<1>4. CASE UNCHANGED vars
    <2>1. \A q \in Sessions : Same(q)
        BY <1>4 DEF vars, database, work, history, Same
    <2>2. LockTypes' /\ Exclusive'
        BY <1>4 DEF vars, database, work, history, LocksInv, LockTypes, Exclusive
    <2>3. QED
        BY <2>1, <2>2, SameKeeps DEF LocksInv
<1>5. QED
    BY <1>1, <1>2, <1>3, <1>4 DEF Next

LEMMA LocksInit == Init => LocksInv
<1> SUFFICES ASSUME Init PROVE LocksInv
    OBVIOUS
<1>1. <<>> \in Seq(Entries) /\ Len(<<>>) = 0
    BY EmptySeq
<1>2. LockTypes
    <2>1. todo \in [Sessions -> Seq(Entries)] /\ batch \in [Sessions -> Seq(Entries)]
        BY <1>1 DEF Init
    <2>2. QED
        BY <2>1 DEF Init, LockTypes
<1>3. Exclusive
    BY DEF Init, Exclusive
<1>4. ASSUME NEW s \in Sessions
      PROVE  SessionInv(s)
    <2>1. /\ pc[s] = "idle" /\ todo[s] = <<>> /\ batch[s] = <<>>
          /\ inserted[s] = {} /\ locked[s] = {} /\ outcome[s] = "none"
          /\ published[s] = {} /\ replayed[s] = {}
        BY DEF Init
    <2>2. Updated(s) = 0
        BY <1>1, <2>1 DEF Updated
    <2>3. Ongoing(s)
        BY <1>1, <2>1, <2>2 DEF Ongoing
    <2>4. Holding(s) /\ Marked(s)
        BY <2>1, SeedRows DEF Holding, Marked
    <2>5. QED
        BY <2>1, <2>3, <2>4 DEF SessionInv
<1>5. QED
    BY <1>2, <1>3, <1>4 DEF LocksInv

LEMMA LocksInvariant == Spec => []LocksInv
<1>1. SeedInv /\ SeedInv' /\ LocksInv /\ [Next]_vars => LocksInv'
    BY LocksStep
<1>2. QED
    BY <1>1, LocksInit, SeedInvariant, PTL DEF Spec

\* The variables have their types: a batch at an entry has one, and a session
\* that has ended holds no row.
THEOREM TypeCorrect == Spec => []TypeOK
<1>1. SeedInv /\ LocksInv => TypeOK
    <2> SUFFICES ASSUME SeedInv, LocksInv PROVE TypeOK
        OBVIOUS
    <2>1. ASSUME NEW s \in Sessions
          PROVE  /\ pc[s] \in {"replay", "update"} => todo[s] # <<>>
                 /\ pc[s] = "ended" => inserted[s] \cup locked[s] = {}
        BY DEF LocksInv, SessionInv, Ongoing
    <2>2. QED
        BY <2>1 DEF SeedInv, Typed, LocksInv, LockTypes, TypeOK
<1>2. QED
    BY <1>1, SeedInvariant, LocksInvariant, PTL

\* However batches overlap, and wherever they fail or are aborted: a batch that
\* commits has marked all its entries, each after its task, and any other none.
THEOREM BatchesWhole == Spec => []BatchAllOrNothing
<1>1. LocksInv => BatchAllOrNothing
    BY DEF LocksInv, SessionInv, Marked, BatchAllOrNothing
<1>2. QED
    BY <1>1, LocksInvariant, PTL

-----------------------------------------------------------------------------
(* Circles of waiting sessions *)

NeverWaits(p) == \A z \in Sessions : ~WaitsFor(p, z)

\* A run of the seed script that is to insert a user has inserted its tenant,
\* and nobody else has: it waits for nobody.
LEMMA SeederAlone ==
    ASSUME SeedInv, LocksInv, NEW p \in Sessions, pc[p] \in Emails,
           ~Exists(User(pc[p]))
    PROVE  NeverWaits(p)
<1>1. ~Exists(TheTenant)
    BY SeedRows DEF SeedInv, LoginUnambiguous, Exists
<1>2. TheTenant \in inserted[p] /\ row[p] = User(pc[p])
    BY <1>1 DEF SeedInv, InHand
<1>3. Updates(p) = {} /\ Inserts(p) \subseteq {User(pc[p])}
    BY <1>2, UpdatesRow, InsertsRow DEF SeedInv
<1>4. SUFFICES ASSUME NEW z \in Sessions, WaitsFor(p, z) PROVE FALSE
    BY DEF NeverWaits
<1>5. z # p /\ User(pc[p]) \in inserted[z]
    BY <1>3, <1>4 DEF WaitsFor
<1>6. TheTenant \in inserted[z]
    BY <1>5 DEF SeedInv, InHand
<1>7. QED
    BY <1>2, <1>5, <1>6 DEF SeedInv, TenantAlone

\* Nor does one that has inserted the tenant, or a session at its commit.
LEMMA HolderGoesOn ==
    ASSUME SeedInv, LocksInv, NEW p \in Sessions,
           pc[p] = "commit" \/ TheTenant \in inserted[p]
    PROVE  NeverWaits(p)
<1>1. CASE pc[p] \in Emails /\ TheTenant \in inserted[p]
    <2>1. ~Exists(User(pc[p]))
        BY <1>1, SeedRows DEF SeedInv, TenantAlone, LoginUnambiguous, Exists
    <2>2. QED
        BY <1>1, <2>1, SeederAlone
<1>2. CASE pc[p] = "commit"
    BY <1>2, AtStatement, SeedRows DEF NeverWaits
<1>3. pc[p] \in Emails \cup {"commit"}
    BY DEF SeedInv, InHand
<1>4. QED
    BY <1>1, <1>2, <1>3, SeedRows

\* What an INSERT or the update of a user waits for goes on, or waits for
\* something that does.
LEMMA WaitsEnd ==
    ASSUME SeedInv, LocksInv, NEW q \in Sessions, NEW p \in Sessions,
           WaitsFor(q, p)
    PROVE  /\ pc[q] \in {"flush", Viewer} => NeverWaits(p)
           /\ pc[q] = Admin => pc[p] = Viewer \/ NeverWaits(p)
<1>1. CASE pc[q] = "flush"
    <2>1. Updates(q) = {}
        BY <1>1, UpdatesRow, SeedRows
    <2>2. PICK r \in Inserts(q) : r \in inserted[p]
        BY <2>1 DEF WaitsFor
    <2>3. \A e \in Emails : r # User(e)
        BY <1>1, <2>2, InsertsRow DEF SeedInv, InHand
    <2>4. r = TheTenant \/ pc[p] = "commit"
        BY <2>2, <2>3 DEF LocksInv, SessionInv, Holding
    <2>5. NeverWaits(p)
        BY <2>2, <2>4, HolderGoesOn
    <2>6. QED
        BY <1>1, <2>5, SeedRows
<1>2. CASE pc[q] \in Emails
    <2>1. Exists(User(pc[q]))
        BY <1>2, SeederAlone DEF NeverWaits
    <2>2. Inserts(q) = {} /\ Updates(q) = {User(pc[q])}
        BY <1>2, <2>1, InsertsRow, UpdatesRow DEF SeedInv
    <2>3. User(pc[q]) \in locked[p]
        BY <2>2 DEF WaitsFor
    <2>4. CASE pc[q] = Viewer
        <3>1. pc[p] = "commit"
            BY <2>3, <2>4 DEF LocksInv, SessionInv, Holding
        <3>2. QED
            BY <2>4, <3>1, HolderGoesOn, SeedRows
    <2>5. CASE pc[q] = Admin
        <3>1. pc[p] \in {Viewer, "commit"}
            BY <2>3, <2>5 DEF LocksInv, SessionInv, Holding
        <3>2. QED
            BY <2>5, <3>1, HolderGoesOn, SeedRows
    <2>6. QED
        BY <1>2, <2>4, <2>5, SeedRows
<1>3. QED
    BY <1>1, <1>2, SeedRows

\* So in a circle there are only batches, each at the update of an entry.
LEMMA CircleOfBatches ==
    ASSUME SeedInv, LocksInv, NEW C \in SUBSET Sessions,
           \A q \in C : \E p \in C : WaitsFor(q, p)
    PROVE  \A q \in C : pc[q] = "update"
<1>1. \A p \in C : ~NeverWaits(p)
    BY DEF NeverWaits
<1>2. \A q \in C : pc[q] \notin {"flush", Viewer}
    BY <1>1, WaitsEnd
<1>3. \A q \in C : pc[q] # Admin
    BY <1>1, <1>2, WaitsEnd
<1>4. \A q \in C : pc[q] \in Emails \cup {"flush", "update"}
    BY AtStatement
<1>5. QED
    BY <1>2, <1>3, <1>4, SeedRows

\* A batch that waits for another is at an entry that the other one has passed.
LEMMA RankRises ==
    ASSUME LocksInv, NEW q \in Sessions, NEW p \in Sessions,
           NEW z \in Sessions, pc[q] = "update", pc[p] = "update",
           WaitsFor(q, p), WaitsFor(p, z), NEW rank, InOrder(batch[p], rank)
    PROVE  rank[Head(todo[q])] < rank[Head(todo[p])]
<1> DEFINE mine == Head(todo[q])
           next == Head(todo[p])
           k == Updated(p)
           m == Len(batch[p])
<1>1. mine \in Entries /\ next \in Entries /\ next = batch[p][k + 1]
    BY Rest
<1>2. k \in Nat /\ m \in Nat /\ k + 1 <= m
    <2>1. Len(todo[p]) \in Nat \ {0} /\ m \in Nat /\ k \in Nat
          /\ k = m - Len(todo[p])
        BY Rest
    <2> HIDE DEF k, m
    <2>2. QED
        BY <2>1
<1>3. Entry(mine) \in locked[p] /\ Entry(next) \in locked[z] /\ p # z
    <2>1. Inserts(q) = {} /\ Inserts(p) = {}
        BY SeedRows DEF Inserts
    <2>2. Updates(q) = {Entry(mine)} /\ Updates(p) = {Entry(next)}
        BY UpdatesRow
    <2>3. QED
        BY <2>1, <2>2 DEF WaitsFor
<1> HIDE DEF mine, next
<1>4. PICK i \in 1..k : batch[p][i] = mine
    BY <1>1, <1>3 DEF LocksInv, SessionInv, Ongoing
<1>5. mine # next
    BY <1>3 DEF LocksInv, Exclusive
<1>6. DOMAIN batch[p] = 1..m
    BY DEF LocksInv, LockTypes
<1> HIDE DEF k, m
<1>7. i \in 1..m /\ k + 1 \in 1..m /\ i < k + 1
    BY <1>2
<1>8. QED
    BY <1>1, <1>4, <1>5, <1>6, <1>7 DEF InOrder, mine, next

\* No order of the entries agrees with the requests of a circle.
LEMMA CircleCrosses ==
    ASSUME SeedInv, LocksInv, NEW s \in Sessions, Deadlocked(s)
    PROVE  /\ batch[s] # <<>>
           /\ ~\E rank \in [Entries -> 1..Cardinality(Entries)] :
                  \A q \in Sessions : InOrder(batch[q], rank)
<1>1. PICK C \in SUBSET Sessions :
          s \in C /\ \A q \in C : \E p \in C : WaitsFor(q, p)
    BY DEF Deadlocked
<1>2. \A q \in C : pc[q] = "update"
    BY <1>1, CircleOfBatches
<1>3. batch[s] # <<>>
    <2>1. Len(todo[s]) \in Nat \ {0} /\ Len(batch[s]) \in Nat
          /\ Updated(s) \in Nat /\ Updated(s) = Len(batch[s]) - Len(todo[s])
        BY <1>1, <1>2, Rest
    <2>2. Len(batch[s]) # 0
        BY <2>1
    <2>3. QED
        BY <2>2, EmptySeq
<1>4. ASSUME NEW rank \in [Entries -> 1..Cardinality(Entries)],
             \A q \in Sessions : InOrder(batch[q], rank)
      PROVE  FALSE
    <2> DEFINE N == Cardinality(Entries)
               at(q) == rank[Head(todo[q])]
               T == {n \in Nat : \E q \in C : n = N - at(q)}
    <2>1. N \in Nat
        BY SessionsAssumption, FS_CardinalityType
    <2>2. \A q \in C : at(q) \in 1..N
        BY <1>2, Rest
    <2>3. ASSUME NEW q \in C
          PROVE  \E p \in C : at(q) < at(p)
        <3>1. PICK p \in C : WaitsFor(q, p)
            BY <1>1
        <3>2. PICK z \in C : WaitsFor(p, z)
            BY <1>1
        <3>3. at(q) < at(p)
            BY <1>2, <1>4, <3>1, <3>2, RankRises
        <3>4. QED
            BY <3>3
    <2> HIDE DEF N, at
    <2>4. T # {}
        <3>1. N - at(s) \in Nat
            BY <1>1, <2>1, <2>2
        <3>2. QED
            BY <1>1, <3>1
    <2>5. PICK n \in T : \A m \in T : n <= m
        BY <2>4, Least
    <2>6. PICK q \in C : n = N - at(q)
        BY <2>5
    <2>7. PICK p \in C : at(q) < at(p)
        BY <2>3
    <2>8. N - at(p) \in T /\ N - at(p) < n
        BY <2>1, <2>2, <2>6, <2>7
    <2>9. QED
        BY <2>5, <2>8
<1>5. QED
    BY <1>3, <1>4

\* A batch is chosen once.
LEMMA BatchChosenOnce ==
    ASSUME LocksInv, [Next]_vars, NEW q \in Sessions
    PROVE  batch'[q] = batch[q] \/ batch[q] = <<>>
<1>1. ASSUME NEW s \in Sessions, NEW l \in Lists, NEW force \in BOOLEAN,
             replay_batch(s, l, force)
      PROVE  batch'[q] = batch[q] \/ batch[q] = <<>>
    <2>1. batch[s] = <<>>
        BY <1>1 DEF replay_batch, LocksInv, SessionInv
    <2>2. q # s => batch'[q] = batch[q]
        BY <1>1 DEF replay_batch, LocksInv, LockTypes
    <2>3. QED
        BY <2>1, <2>2
<1>2. ASSUME NEW s \in Sessions,
             \/ Step(s) \/ session_fails(s) \/ select_tenant(s)
             \/ \E k \in Documents : send_document_endpoint(s, k)
             \/ \E n \in Names : register_provider_account(s, n)
      PROVE  batch' = batch
    BY <1>2 DEF Step, session_fails, select_tenant, send_document_endpoint,
       register_provider_account, flush_tenant, ensure_user, publish_document,
       flush, publish_entry, update_entry, commit, integrity_error,
       deadlock_detected, history
<1>3. CASE UNCHANGED vars
    BY <1>3 DEF vars, history
<1>4. QED
    BY <1>1, <1>2, <1>3 DEF Next, Begins

\* Only the detector of deadlocks makes a victim.
LEMMA VictimIsDeadlocked ==
    ASSUME LocksInv, [Next]_vars, NEW s \in Sessions,
           outcome'[s] = "victim", outcome[s] # "victim"
    PROVE  Deadlocked(s) /\ batch' = batch
<1>1. PICK q \in Sessions : Begins(q) \/ Step(q) \/ session_fails(q)
    <2>1. ~UNCHANGED vars
        BY DEF vars, work
    <2>2. QED
        BY <2>1 DEF Next
<1>2. ASSUME NEW how \in {"refused", "conflict", "failed", "committed"},
             Close(q, how)
      PROVE  FALSE
    BY <1>2 DEF Close, LocksInv, LockTypes
<1>3. ~UNCHANGED outcome
    OBVIOUS
<1>4. ~Begins(q)
    BY <1>2, <1>3 DEF Begins, select_tenant, send_document_endpoint,
       register_provider_account, replay_batch
<1>5. ~session_fails(q)
    BY <1>2 DEF session_fails
<1>6. deadlock_detected(q)
    BY <1>1, <1>2, <1>3, <1>4, <1>5 DEF Step, flush_tenant, ensure_user,
       publish_document, flush, publish_entry, update_entry, commit,
       integrity_error
<1>7. q = s
    BY <1>6 DEF deadlock_detected, Close, LocksInv, LockTypes
<1>8. QED
    BY <1>6, <1>7 DEF deadlock_detected, history

LEMMA VictimsStep ==
    ASSUME LocksInv, SeedInv, VictimsCrossed, [Next]_vars
    PROVE  VictimsCrossed'
<1> DEFINE Ranks == [Entries -> 1..Cardinality(Entries)]
<1>1. SUFFICES ASSUME NEW s \in Sessions, outcome'[s] = "victim"
               PROVE  /\ batch'[s] # <<>>
                      /\ ~\E rank \in Ranks :
                             \A q \in Sessions : InOrder(batch'[q], rank)
    BY DEF VictimsCrossed, InOrder
<1>2. /\ batch[s] # <<>>
      /\ ~\E rank \in Ranks : \A q \in Sessions : InOrder(batch[q], rank)
    <2>1. CASE outcome[s] = "victim"
        BY <2>1 DEF VictimsCrossed
    <2>2. CASE outcome[s] # "victim"
        BY <1>1, <2>2, VictimIsDeadlocked, CircleCrosses
    <2>3. QED
        BY <2>1, <2>2
<1> HIDE DEF Ranks
<1>3. ASSUME NEW rank \in Ranks, NEW q \in Sessions, InOrder(batch'[q], rank)
      PROVE  InOrder(batch[q], rank)
    <2>1. CASE batch'[q] = batch[q]
        BY <1>3, <2>1
    <2>2. CASE batch[q] = <<>>
        BY <2>2 DEF InOrder
    <2>3. QED
        BY <2>1, <2>2, BatchChosenOnce
<1>4. batch'[s] = batch[s]
    BY <1>2, BatchChosenOnce
<1>5. QED
    BY <1>2, <1>3, <1>4

\* However many sessions wait for each other: what PostgreSQL aborts is a
\* batch, and no one order of the entries agrees with all the batches; were
\* each request to list its entries in such an order, none would be aborted.
THEOREM DeadlocksExplained == Spec => []VictimsCrossed
<1>1. Init => VictimsCrossed
    BY DEF Init, VictimsCrossed
<1>2. LocksInv /\ SeedInv /\ VictimsCrossed /\ [Next]_vars => VictimsCrossed'
    BY VictimsStep
<1>3. QED
    BY <1>1, <1>2, SeedInvariant, LocksInvariant, PTL DEF Spec

-----------------------------------------------------------------------------
(* Requests in one order *)

\* What the loop has chosen from the first i ids stands among them, in their
\* order.
Among(g, i, l) == \A a \in DOMAIN g : \E j \in 1..i : g[a] = l[j]

LEMMA LoopKeepsOrder ==
    ASSUME NEW l \in Seq(Entries), NEW force, NEW n \in Nat, n <= Len(l),
           NEW f, Loop(f, n, l, force), NEW rank, InOrder(l, rank)
    PROVE  \A i \in 0..n : InOrder(f[i], rank)
<1> DEFINE Good(i) == InOrder(f[i], rank) /\ Among(f[i], i, l)
           T == {i \in 0..n : ~Good(i)}
<1>1. SUFFICES ASSUME T # {} PROVE FALSE
    OBVIOUS
<1>2. T \in SUBSET Nat
    OBVIOUS
<1>3. PICK i \in T : \A j \in T : i <= j
    BY <1>1, <1>2, Least
<1>4. i \in 0..n /\ ~Good(i)
    BY <1>3
<1>5. f[i] = IF i = 0 THEN <<>>
             ELSE IF force \/ l[i] \in Retryable
             THEN Append(f[i - 1], l[i]) ELSE f[i - 1]
    BY <1>4 DEF Loop
<1>6. i # 0
    <2>1. Good(0)
        <3>1. f[0] = <<>>
            BY DEF Loop
        <3>2. QED
            BY <3>1 DEF InOrder, Among
    <2>2. QED
        BY <1>4, <2>1
<1>7. i - 1 \in 0..n /\ Good(i - 1)
    BY <1>3, <1>4, <1>6
<1>8. f[i - 1] \in Seq(Entries)
    BY <1>7, LoopChooses
<1> DEFINE g == f[i - 1]
           k == Len(g)
<1>9. k \in Nat /\ DOMAIN g = 1..k
    BY <1>8
<1>10. i \in DOMAIN l /\ \A j \in 1..i : j \in DOMAIN l
    BY <1>4, <1>6
<1>11. l[i] \in Entries
    BY <1>10
<1>12. /\ DOMAIN Append(g, l[i]) = 1..(k + 1)
       /\ Append(g, l[i])[k + 1] = l[i]
       /\ \A a \in 1..k : Append(g, l[i])[a] = g[a]
    BY <1>8, <1>11, AppendProperties
<1>13. CASE f[i] = g
    <2>1. Among(g, i, l)
        <3>1. \A j \in 1..(i - 1) : j \in 1..i
            BY <1>4, <1>6
        <3>2. QED
            BY <1>7, <3>1 DEF Among
    <2>2. QED
        BY <1>4, <1>7, <1>13, <2>1
<1> DEFINE h == Append(g, l[i])
<1>14. CASE f[i] = h
    <2> HIDE DEF g, h, k
    <2>1. ASSUME NEW a \in DOMAIN h
          PROVE  (a \in 1..k /\ h[a] = g[a]) \/ (a = k + 1 /\ h[a] = l[i])
        BY <1>9, <1>12 DEF h
    <2>2. Among(h, i, l)
        <3> SUFFICES ASSUME NEW a \in DOMAIN h
                     PROVE  \E j \in 1..i : h[a] = l[j]
            BY DEF Among
        <3>1. CASE h[a] = l[i]
            BY <1>4, <1>6, <3>1
        <3>2. CASE a \in 1..k /\ h[a] = g[a]
            <4>1. PICK j \in 1..(i - 1) : g[a] = l[j]
                BY <1>7, <1>9, <3>2 DEF Among, g
            <4>2. j \in 1..i
                BY <1>4
            <4>3. QED
                BY <3>2, <4>1, <4>2
        <3>3. QED
            BY <2>1, <3>1, <3>2
    <2>3. InOrder(h, rank)
        <3> SUFFICES ASSUME NEW a \in DOMAIN h, NEW b \in DOMAIN h,
                            a < b, h[a] # h[b]
                     PROVE  rank[h[a]] < rank[h[b]]
            BY DEF InOrder
        <3>1. a \in 1..k /\ h[a] = g[a]
            <4>1. a \in 1..(k + 1) /\ b \in 1..(k + 1)
                BY <1>12 DEF h
            <4>2. a # k + 1
                BY <1>9, <4>1
            <4>3. QED
                BY <2>1, <4>2
        <3>2. CASE b \in 1..k /\ h[b] = g[b]
            BY <1>7, <1>9, <3>1, <3>2 DEF InOrder, g
        <3>3. CASE h[b] = l[i]
            <4>1. PICK j \in 1..(i - 1) : g[a] = l[j]
                BY <1>7, <1>9, <3>1 DEF Among, g
            <4>2. j < i /\ j \in DOMAIN l
                BY <1>4, <1>10
            <4>3. QED
                BY <1>10, <3>1, <3>3, <4>1, <4>2 DEF InOrder
        <3>4. QED
            BY <2>1, <3>2, <3>3
    <2>4. QED
        BY <1>4, <1>14, <2>2, <2>3
<1>15. QED
    BY <1>5, <1>6, <1>13, <1>14

LEMMA ChosenOrdered ==
    ASSUME NEW l \in Lists, NEW force, NEW rank, InOrder(l, rank)
    PROVE  InOrder(Chosen(l, force), rank)
<1>1. l \in Seq(Entries) /\ Len(l) \in Nat
    BY SessionsAssumption
<1> DEFINE f == CHOOSE g : Loop(g, Len(l), l, force)
<1>2. Loop(f, Len(l), l, force)
    BY <1>1, LoopExists
<1>3. Chosen(l, force) = f[Len(l)]
    BY DEF Chosen, Loop
<1> HIDE DEF f
<1>4. \A i \in 0..Len(l) : InOrder(f[i], rank)
    BY <1>1, <1>2, LoopKeepsOrder
<1>5. QED
    BY <1>1, <1>3, <1>4

LEMMA BatchFromList ==
    ASSUME LocksInv, [Next]_vars, NEW q \in Sessions
    PROVE  \/ batch'[q] = batch[q]
           \/ \E l \in Lists, force \in BOOLEAN : batch'[q] = Chosen(l, force)
<1>1. ASSUME NEW s \in Sessions, NEW l \in Lists, NEW force \in BOOLEAN,
             replay_batch(s, l, force)
      PROVE  batch'[q] = batch[q] \/ batch'[q] = Chosen(l, force)
    BY <1>1 DEF replay_batch, LocksInv, LockTypes
<1>2. ASSUME NEW s \in Sessions,
             \/ Step(s) \/ session_fails(s) \/ select_tenant(s)
             \/ \E k \in Documents : send_document_endpoint(s, k)
             \/ \E n \in Names : register_provider_account(s, n)
      PROVE  batch' = batch
    BY <1>2 DEF Step, session_fails, select_tenant, send_document_endpoint,
       register_provider_account, flush_tenant, ensure_user, publish_document,
       flush, publish_entry, update_entry, commit, integrity_error,
       deadlock_detected, history
<1>3. CASE UNCHANGED vars
    BY <1>3 DEF vars, history
<1>4. QED
    BY <1>1, <1>2, <1>3 DEF Next, Begins

NoVictim == \A s \in Sessions : outcome[s] # "victim"

\* If every request lists its entries in one and the same order, PostgreSQL
\* never aborts a session: passing entries over keeps the order, and replay_batch
\* locks them as listed.
THEOREM OrderedRequestsNotAborted ==
    ASSUME NEW rank \in [Entries -> 1..Cardinality(Entries)],
           \A l \in Lists : InOrder(l, rank)
    PROVE  Spec => []NoVictim
<1> DEFINE Ordered == \A q \in Sessions : InOrder(batch[q], rank)
<1>1. Init => Ordered
    BY DEF Init, InOrder
<1>2. LocksInv /\ Ordered /\ [Next]_vars => Ordered'
    <2> SUFFICES ASSUME LocksInv, Ordered, [Next]_vars, NEW q \in Sessions
                 PROVE  InOrder(batch'[q], rank)
        BY DEF InOrder
    <2>1. CASE batch'[q] = batch[q]
        BY <2>1
    <2>2. ASSUME NEW l \in Lists, NEW force, batch'[q] = Chosen(l, force)
          PROVE  InOrder(batch'[q], rank)
        BY <2>2, ChosenOrdered
    <2>3. QED
        BY <2>1, <2>2, BatchFromList
<1>3. Ordered /\ VictimsCrossed => NoVictim
    BY DEF VictimsCrossed, NoVictim
<1> HIDE DEF Ordered
<1>4. QED
    BY <1>1, <1>2, <1>3, LocksInvariant, DeadlocksExplained, PTL DEF Spec

-----------------------------------------------------------------------------
(* Sessions never hang *)

\* The sessions of C wait for each other.
Closed(C) == C # {} /\ \A q \in C : \E p \in C : WaitsFor(q, p)

\* What is waited for is under way.
LEMMA AwaitedIsBusy ==
    ASSUME SeedInv, LocksInv, NEW q \in Sessions, NEW p \in Sessions,
           WaitsFor(q, p)
    PROVE  pc[p] \notin {"idle", "ended"}
<1>1. inserted[p] # {} \/ locked[p] # {}
    BY DEF WaitsFor
<1>2. pc[p] # "ended"
    BY <1>1 DEF LocksInv, SessionInv
<1>3. ASSUME pc[p] = "idle"
      PROVE  FALSE
    <2>1. inserted[p] = {}
        BY <1>3, SeedRows DEF SeedInv, InHand
    <2>2. Ongoing(p) /\ Holding(p) /\ batch[p] = <<>>
        BY <1>3 DEF LocksInv, SessionInv
    <2>3. todo[p] = <<>>
        BY <1>3, <2>2 DEF Ongoing
    <2>4. Updated(p) = 0
        BY <2>2, <2>3 DEF Updated
    <2>5. \A e \in Entries : Entry(e) \notin locked[p]
        BY <2>2, <2>4 DEF Ongoing
    <2>6. User(Admin) \notin locked[p] /\ User(Viewer) \notin locked[p]
        BY <1>3, <2>2 DEF Holding, Viewer
    <2>7. locked[p] = {}
        BY <2>2, <2>5, <2>6, SeedRows DEF Holding
    <2>8. QED
        BY <1>1, <2>1, <2>7
<1>4. QED
    BY <1>2, <1>3

\* Finitely many sessions that all wait for each other have a circle among them:
\* a smallest such set, of which none can be taken away.
LEMMA CircleAmong ==
    ASSUME NEW B \in SUBSET Sessions, Closed(B)
    PROVE  \E s \in B : Deadlocked(s)
<1> DEFINE T == {n \in Nat : \E C \in SUBSET B : Closed(C) /\ n = Cardinality(C)}
<1>1. \A C \in SUBSET B : IsFiniteSet(C) /\ Cardinality(C) \in Nat
    BY SessionsAssumption, FS_Subset, FS_CardinalityType
<1>2. Cardinality(B) \in T
    BY <1>1
<1>3. PICK n \in T : \A m \in T : n <= m
    BY <1>2, Least
<1>4. PICK C \in SUBSET B : Closed(C) /\ n = Cardinality(C)
    BY <1>3
<1>5. ASSUME NEW p \in C
      PROVE  \E q \in C : WaitsFor(q, p)
    <2>1. SUFFICES ASSUME \A q \in C : ~WaitsFor(q, p) PROVE FALSE
        OBVIOUS
    <2>2. C \ {p} \in SUBSET B /\ Cardinality(C \ {p}) = n - 1
        BY <1>1, <1>4, FS_RemoveElement
    <2>3. Closed(C \ {p})
        <3>1. \A q \in C : \E z \in C \ {p} : WaitsFor(q, z)
            BY <1>4, <2>1 DEF Closed
        <3>2. QED
            BY <3>1 DEF Closed
    <2>4. Cardinality(C \ {p}) \in T
        BY <1>1, <2>2, <2>3
    <2>5. n <= n - 1 /\ n \in Nat
        BY <1>3, <2>2, <2>4
    <2>6. QED
        BY <2>5
<1>6. PICK s \in C : TRUE
    BY <1>4 DEF Closed
<1>7. Deadlocked(s)
    BY <1>4, <1>5, <1>6 DEF Deadlocked, Closed
<1>8. QED
    BY <1>6, <1>7

\* For any number of sessions: while one is under way, some session can take its
\* next step, or waits in a circle that PostgreSQL finds.
THEOREM SessionsGoOn == Spec => []NobodyHangs
<1>1. SeedInv /\ LocksInv => NobodyHangs
    <2> SUFFICES ASSUME SeedInv, LocksInv PROVE NobodyHangs
        OBVIOUS
    <2> DEFINE busy == {s \in Sessions : pc[s] \notin {"idle", "ended"}}
    <2>1. ASSUME busy # {}, \A s \in busy : Waits(s)
          PROVE  \E s \in busy : Deadlocked(s)
        <3>1. Closed(busy)
            BY <2>1, AwaitedIsBusy DEF Waits, Closed
        <3>2. QED
            BY <3>1, CircleAmong
    <2>2. QED
        BY <2>1 DEF NobodyHangs
<1>2. QED
    BY <1>1, SeedInvariant, LocksInvariant, PTL

=============================================================================
