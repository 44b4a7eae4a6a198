--------------------------- MODULE MigrationsProofs ---------------------------
(***************************************************************************)
(* Theorems about Migrations, for any number of runners whose commands     *)
(* overlap, fail or are killed at any operation.                           *)
(*                                                                         *)
(* The two revisions go through the tables in one order, so that what a    *)
(* command has done to each of them is a function of how many of its       *)
(* operations it has run.                                                  *)
(***************************************************************************)
EXTENDS Migrations, SequenceTheorems, TLAPS

Versions == Revisions \cup {Base}

\* The order in which tables are created; they are dropped in the reverse one.
order ==
    <<"tenants", "api_users", "provider_accounts", "edo_documents",
      "document_deliveries", "incoming_documents", "webhook_events",
      "dlq_entries", "provider_health_snapshots", "audit_events">>

\* The operations of a command, by their number: UpFromBase creates the tables
\* of 0001, drops them and creates those of 0002; UpFrom0001 does the last two;
\* a downgrade drops once for each revision it goes back.
UpFromBase(i) ==
    IF i <= 10 THEN create(order[i], "r0001")
    ELSE IF i = 11 THEN stamp(Base, "r0001")
    ELSE IF i <= 21 THEN drop(order[22 - i])
    ELSE IF i <= 31 THEN create(order[i - 21], "r0002")
    ELSE stamp("r0001", "r0002")

UpFrom0001(i) ==
    IF i <= 10 THEN drop(order[11 - i])
    ELSE IF i <= 20 THEN create(order[i - 10], "r0002")
    ELSE stamp("r0001", "r0002")

Down(from, to, i) ==
    IF i <= 10 THEN drop(order[11 - i]) ELSE stamp(from, to)

DownToBase(i) ==
    IF i <= 11 THEN Down("r0002", "r0001", i) ELSE Down("r0001", Base, i - 11)

\* What a command has made of the n-th table, in its first k operations.
Made(c, v, k, n) ==
    IF c = "upgrade head" /\ v = Base
    THEN IF k >= 21 + n THEN "r0002"
         ELSE IF k >= 22 - n THEN Absent
         ELSE IF k >= n THEN "r0001" ELSE "nothing"
    ELSE IF c = "upgrade head" /\ v = "r0001"
    THEN IF k >= 10 + n THEN "r0002"
         ELSE IF k >= 11 - n THEN Absent ELSE "nothing"
    ELSE IF k >= 11 - n THEN Absent ELSE "nothing"

\* And of the version row.
Stamped(c, v, k) ==
    IF c = "upgrade head" /\ v = Base
    THEN IF k >= 32 THEN "r0002" ELSE IF k >= 11 THEN "r0001" ELSE "unset"
    ELSE IF c = "upgrade head" /\ v = "r0001"
    THEN IF k >= 21 THEN "r0002" ELSE "unset"
    ELSE IF k < 11 THEN "unset"
    ELSE IF v = "r0001" THEN Base ELSE "r0001"

\* The operations of a command and their number.
Operation(c, v, i) ==
    IF c = "upgrade head"
    THEN IF v = Base THEN UpFromBase(i) ELSE UpFrom0001(i)
    ELSE IF v = "r0001" THEN Down("r0001", Base, i)
    ELSE IF c = "downgrade -1" THEN Down("r0002", "r0001", i)
    ELSE DownToBase(i)

Size(c, v) ==
    IF c = "upgrade head"
    THEN IF v = Base THEN 32 ELSE IF v = "r0001" THEN 21 ELSE 0
    ELSE IF v = Base THEN 0
    ELSE IF v = "r0002" /\ c = "downgrade base" THEN 22 ELSE 11

\* The downgrade that cannot succeed.
Hopeless(c, v) == c = "downgrade base" /\ v = "r0002"

\* Runner r has run the first k operations of its command.
At(r, k) ==
    LET c == command[r]
        v == heads[r]
    IN  /\ Len(plan[r]) = Size(c, v) - k
        /\ \A i \in 1..Len(plan[r]) : plan[r][i] = Operation(c, v, k + i)
        /\ \A n \in 1..10 :
               /\ Made(c, v, k, n) = "nothing" =>
                      order[n] \notin DOMAIN overlay[r]
               /\ Made(c, v, k, n) # "nothing" =>
                      /\ order[n] \in DOMAIN overlay[r]
                      /\ overlay[r][order[n]] = Made(c, v, k, n)
        /\ row[r] = Stamped(c, v, k)
        /\ Hopeless(c, v) => k <= 11

\* The row and the tables that a command has touched are its own, and are
\* committed as it found them: the first table it touches tells that the
\* tables are there, or that they are not.
Locked(r) ==
    /\ row[r] # "unset" => version = heads[r]
    /\ DOMAIN overlay[r] # {} =>
           IF heads[r] = Base THEN tables["tenants"] = Absent
           ELSE tables["audit_events"] # Absent
    /\ \A q \in Runners \ {r} :
           /\ DOMAIN overlay[q] \cap DOMAIN overlay[r] = {}
           /\ row[q] = "unset" \/ row[r] = "unset"

RunnersInv ==
    /\ \A r \in Runners :
           pc[r] = "running" =>
               \E k \in 0..Size(command[r], heads[r]) : At(r, k)
    /\ \A r \in Runners : Locked(r)

\* Until alembic_version is committed every command has to create it, and only
\* one at a time has; one that has still to create it has touched nothing.
EnsureInv ==
    /\ \A r \in Runners :
           /\ pc[r] # "running" => ensure[r] = "there"
           /\ pc[r] = "running" /\ ensure[r] = "there" => ensured
           /\ ensure[r] = "due" => DOMAIN overlay[r] = {} /\ row[r] = "unset"
           /\ ensure[r] = "created" => ~ensured
    /\ \A r, q \in Runners :
           ensure[r] = "created" /\ ensure[q] = "created" => r = q

\* No command leads out of a downgraded 0002.
SchemaInv ==
    /\ VersionTellsSchema
    /\ undone => version = "r0001"

Overlays == UNION {[d -> Revisions \cup {Absent}] : d \in SUBSET TableNames}

Operations ==
    [op : {"create"}, table : TableNames, to : Revisions]
        \cup [op : {"drop"}, table : TableNames, to : {Absent}]
        \cup [op : {"stamp"}, from : Versions, to : Versions]

MigrationInv ==
    /\ TypeOK
    /\ overlay \in [Runners -> Overlays]
    /\ plan \in [Runners -> Seq(Operations)]
    /\ RunnersInv
    /\ EnsureInv
    /\ SchemaInv

-----------------------------------------------------------------------------
(* The tables and their order *)

\* order numbers the tables.
LEMMA Ordered ==
    /\ \A n \in 1..10 : order[n] \in TableNames
    /\ \A t \in TableNames : \E n \in 1..10 : order[n] = t
    /\ \A m, n \in 1..10 : order[m] = order[n] => m = n
<1>1. \A n \in 1..10 : n = 1 \/ n = 2 \/ n = 3 \/ n = 4 \/ n = 5 \/ n = 6
                       \/ n = 7 \/ n = 8 \/ n = 9 \/ n = 10
  OBVIOUS
<1>2. \A n \in 1..10 : order[n] \in TableNames
  BY <1>1 DEF order, TableNames
<1>3. \A t \in TableNames : \E n \in 1..10 : order[n] = t
  BY DEF order, TableNames
<1>4. \A m, n \in 1..10 : order[m] = order[n] => m = n
  BY <1>1 DEF order
<1> QED BY <1>2, <1>3, <1>4

\* A table refers to earlier ones only.
LEMMA Referred ==
    ASSUME NEW revision \in Revisions, NEW n \in 1..10
    PROVE  /\ Definition[revision][order[n]].references \subseteq TableNames
           /\ \A m \in 1..10 :
                  order[m] \in Definition[revision][order[n]].references
                      => m < n
<1> DEFINE refs(k) == Definition[revision][order[k]].references
<1>1. n = 1 \/ n = 2 \/ n = 3 \/ n = 4 \/ n = 5 \/ n = 6
      \/ n = 7 \/ n = 8 \/ n = 9 \/ n = 10
  OBVIOUS
<1>2. CASE revision = "r0001"
  <2>1. /\ n = 1 => refs(n) = {}
        /\ n \in {2, 3, 4} => refs(n) = {"tenants"}
        /\ n = 5 => refs(n) = {"edo_documents", "provider_accounts", "tenants"}
        /\ n \in {6, 7} => refs(n) = {"tenants", "provider_accounts"}
        /\ n = 8 => refs(n) = {"tenants", "document_deliveries"}
        /\ n = 9 => refs(n) = {"provider_accounts"}
        /\ n = 10 => refs(n) = {"tenants", "api_users"}
    BY <1>2 DEF order, Definition, Table, tenants_0001, api_users_0001,
       provider_accounts_0001, edo_documents_0001, document_deliveries_0001,
       incoming_documents_0001, webhook_events_0001, dlq_entries_0001,
       provider_health_snapshots_0001, audit_events_0001
  <2> QED BY <1>1, <2>1 DEF TableNames, order
<1>3. CASE revision = "r0002"
  <2>1. /\ n = 1 => refs(n) = {}
        /\ n \in {2, 3} => refs(n) = {"tenants"}
        /\ n \in {4, 10} => refs(n) = {"tenants", "api_users"}
        /\ n = 5 => refs(n) = {"tenants", "edo_documents", "provider_accounts"}
        /\ n \in {6, 7} => refs(n) = {"tenants", "provider_accounts"}
        /\ n = 8 => refs(n) = {"tenants", "document_deliveries",
                               "provider_accounts"}
        /\ n = 9 => refs(n) = {"provider_accounts"}
    BY <1>3 DEF order, Definition, Table, tenants_0002, api_users_0002,
       provider_accounts_0002, edo_documents_0002, document_deliveries_0002,
       incoming_documents_0002, webhook_events_0002, dlq_entries_0002,
       provider_health_snapshots_0002, audit_events_0002
  <2> QED BY <1>1, <2>1 DEF TableNames, order
<1> QED BY <1>2, <1>3 DEF Revisions

-----------------------------------------------------------------------------
(* The operations of each command *)

LEMMA Creating ==
    ASSUME NEW revision \in Revisions
    PROVE  /\ create_all(revision) \in Seq(Operations)
           /\ Len(create_all(revision)) = 10
           /\ \A i \in 1..10 :
                  create_all(revision)[i] = create(order[i], revision)
<1>1. \A t \in TableNames : create(t, revision) \in Operations
  BY DEF create, Operations
<1>2. create_all(revision) \in Seq(Operations)
      /\ Len(create_all(revision)) = 10
  BY <1>1 DEF create_all, TableNames
<1>3. ASSUME NEW i \in 1..10
      PROVE  create_all(revision)[i] = create(order[i], revision)
  <2>1. i = 1 \/ i = 2 \/ i = 3 \/ i = 4 \/ i = 5 \/ i = 6
        \/ i = 7 \/ i = 8 \/ i = 9 \/ i = 10
    OBVIOUS
  <2> QED BY <2>1 DEF create_all, order
<1> QED BY <1>2, <1>3

LEMMA Dropping ==
    /\ drop_all \in Seq(Operations)
    /\ Len(drop_all) = 10
    /\ \A i \in 1..10 : drop_all[i] = drop(order[11 - i])
<1>1. \A t \in TableNames : drop(t) \in Operations
  BY DEF drop, Operations
<1>2. drop_all \in Seq(Operations) /\ Len(drop_all) = 10
  BY <1>1 DEF drop_all, TableNames
<1>3. ASSUME NEW i \in 1..10
      PROVE  drop_all[i] = drop(order[11 - i])
  <2>1. \/ i = 1 /\ 11 - i = 10
        \/ i = 2 /\ 11 - i = 9
        \/ i = 3 /\ 11 - i = 8
        \/ i = 4 /\ 11 - i = 7
        \/ i = 5 /\ 11 - i = 6
        \/ i = 6 /\ 11 - i = 5
        \/ i = 7 /\ 11 - i = 4
        \/ i = 8 /\ 11 - i = 3
        \/ i = 9 /\ 11 - i = 2
        \/ i = 10 /\ 11 - i = 1
    OBVIOUS
  <2> QED BY <2>1 DEF drop_all, order
<1> QED BY <1>2, <1>3


Longer(w, s, e, n) ==
    /\ w \in Seq(Operations) /\ Len(w) = n + 1
    /\ \A i \in 1..n : w[i] = s[i]
    /\ w[n + 1] = e

Both(w, s, u, m, n) ==
    /\ w \in Seq(Operations) /\ Len(w) = m + n
    /\ \A i \in 1..m+n : w[i] = IF i <= m THEN s[i] ELSE u[i - m]

LEMMA Appended ==
    ASSUME NEW n \in Nat, NEW s \in Seq(Operations), Len(s) = n,
           NEW e \in Operations
    PROVE  Longer(Append(s, e), s, e, n)
<1> DEFINE w == Append(s, e)
<1>1. /\ w \in Seq(Operations) /\ Len(w) = Len(s) + 1
      /\ \A i \in 1..Len(s) : w[i] = s[i]
      /\ w[Len(s) + 1] = e
  BY AppendProperties
<1> HIDE DEF w
<1>2. Longer(w, s, e, n)
  BY <1>1 DEF Longer
<1> QED BY <1>2 DEF w

LEMMA Joined ==
    ASSUME NEW m \in Nat, NEW n \in Nat,
           NEW s \in Seq(Operations), NEW u \in Seq(Operations),
           Len(s) = m, Len(u) = n
    PROVE  Both(s \o u, s, u, m, n)
<1> DEFINE w == s \o u
<1>1. /\ w \in Seq(Operations) /\ Len(w) = Len(s) + Len(u)
      /\ \A i \in 1..Len(s)+Len(u) :
             w[i] = IF i <= Len(s) THEN s[i] ELSE u[i - Len(s)]
  BY ConcatProperties, Zenon
<1> HIDE DEF w
<1>2. Both(w, s, u, m, n)
  BY <1>1 DEF Both
<1> QED BY <1>2 DEF w

\* The plans, as alembic puts them together and by number.
LEMMA Plans ==
    /\ LET s == steps("upgrade head", Base) IN
       /\ s \in Seq(Operations) /\ Len(s) = 32
       /\ \A i \in 1..32 : s[i] = UpFromBase(i)
    /\ LET s == steps("upgrade head", "r0001") IN
       /\ s \in Seq(Operations) /\ Len(s) = 21
       /\ \A i \in 1..21 : s[i] = UpFrom0001(i)
    /\ steps("upgrade head", "r0002") = <<>>
    /\ \A c \in {"downgrade -1", "downgrade base"} :
           LET s == steps(c, "r0001") IN
           /\ s \in Seq(Operations) /\ Len(s) = 11
           /\ \A i \in 1..11 : s[i] = Down("r0001", Base, i)
    /\ LET s == steps("downgrade -1", "r0002") IN
       /\ s \in Seq(Operations) /\ Len(s) = 11
       /\ \A i \in 1..11 : s[i] = Down("r0002", "r0001", i)
    /\ LET s == steps("downgrade base", "r0002") IN
       /\ s \in Seq(Operations) /\ Len(s) = 22
       /\ \A i \in 1..22 : s[i] = DownToBase(i)
    /\ \A c \in {"downgrade -1", "downgrade base"} : steps(c, Base) = <<>>
<1> DEFINE up1 == Append(upgrade_0001, stamp(Base, "r0001"))
           up2 == Append(upgrade_0002, stamp("r0001", "r0002"))
           down2 == Append(downgrade_0002, stamp("r0002", "r0001"))
           down1 == Append(downgrade_0001, stamp("r0001", Base))
<1>1. /\ \A v, w \in Versions : stamp(v, w) \in Operations
      /\ Base \in Versions /\ "r0001" \in Versions /\ "r0002" \in Versions
      /\ "r0001" \in Revisions /\ "r0002" \in Revisions
      /\ 10 \in Nat /\ 11 \in Nat /\ 20 \in Nat /\ 21 \in Nat
  BY DEF stamp, Operations, Versions, Revisions
<1>2. /\ up1 \in Seq(Operations) /\ Len(up1) = 11
      /\ \A i \in 1..11 : up1[i] = UpFromBase(i)
  <2> DEFINE a == create_all("r0001")
             e == stamp(Base, "r0001")
  <2>1. /\ a \in Seq(Operations) /\ Len(a) = 10 /\ e \in Operations
        /\ \A i \in 1..10 : a[i] = create(order[i], "r0001")
    BY <1>1, Creating
  <2> HIDE DEF a, e
  <2>2. up1 = Append(a, e)
    BY DEF upgrade_0001, a, e
  <2>3. Longer(Append(a, e), a, e, 10)
    BY <1>1, <2>1, Appended, Zenon
  <2>4. UpFromBase(11) = e
        /\ \A i \in 1..10 : UpFromBase(i) = create(order[i], "r0001")
    BY DEF UpFromBase, e
  <2>5. Longer(up1, a, e, 10)
    BY <2>2, <2>3
  <2> HIDE DEF up1
  <2> QED BY <2>1, <2>4, <2>5 DEF Longer
<1>3. /\ up2 \in Seq(Operations) /\ Len(up2) = 21
      /\ \A i \in 1..21 : up2[i] = UpFrom0001(i)
  <2> DEFINE a == drop_all
             b == create_all("r0002")
             e == stamp("r0001", "r0002")
             ab == a \o b
  <2>1. /\ a \in Seq(Operations) /\ Len(a) = 10
        /\ b \in Seq(Operations) /\ Len(b) = 10
        /\ e \in Operations
        /\ \A i \in 1..10 : a[i] = drop(order[11 - i])
        /\ \A i \in 1..10 : b[i] = create(order[i], "r0002")
    BY <1>1, Creating, Dropping
  <2> HIDE DEF a, b, e
  <2>2. Both(ab, a, b, 10, 10)
    BY <1>1, <2>1, Joined, Zenon
  <2> HIDE DEF ab
  <2>3. /\ ab \in Seq(Operations) /\ Len(ab) = 20
        /\ \A i \in 1..10 : ab[i] = a[i]
        /\ \A i \in 11..20 : ab[i] = b[i - 10]
    BY <2>2 DEF Both
  <2>4. Longer(up2, ab, e, 20)
    <3>1. up2 = Append(ab, e)
      BY DEF upgrade_0002, a, b, ab, e
    <3>2. Longer(Append(ab, e), ab, e, 20)
      BY <1>1, <2>1, <2>3, Appended, Zenon
    <3> QED BY <3>1, <3>2
  <2>5. /\ UpFrom0001(21) = e
        /\ \A i \in 1..10 : UpFrom0001(i) = drop(order[11 - i])
        /\ \A i \in 11..20 : UpFrom0001(i) = create(order[i - 10], "r0002")
    BY DEF UpFrom0001, e
  <2>6. ASSUME NEW i \in 1..10 PROVE ab[i] = UpFrom0001(i)
    BY <2>1, <2>3, <2>5
  <2>7. ASSUME NEW i \in 11..20 PROVE ab[i] = UpFrom0001(i)
    <3>1. i - 10 \in 1..10
      OBVIOUS
    <3> QED BY <2>1, <2>3, <2>5, <3>1
  <2> HIDE DEF up2
  <2>8. ASSUME NEW i \in 1..20 PROVE up2[i] = UpFrom0001(i)
    <3>1. up2[i] = ab[i]
      BY <2>4 DEF Longer
    <3>2. i \in 1..10 \/ i \in 11..20
      OBVIOUS
    <3> QED BY <2>6, <2>7, <3>1, <3>2
  <2> QED BY <2>4, <2>5, <2>8 DEF Longer
<1>4. ASSUME NEW v \in Versions, NEW w \in Versions
      PROVE  LET d == Append(drop_all, stamp(v, w)) IN
             /\ d \in Seq(Operations) /\ Len(d) = 11
             /\ \A i \in 1..11 : d[i] = Down(v, w, i)
  <2> DEFINE e == stamp(v, w)
             d == Append(drop_all, e)
  <2>1. e \in Operations
    BY <1>1
  <2> HIDE DEF e
  <2>2. Longer(d, drop_all, e, 10)
    BY <1>1, <2>1, Dropping, Appended, Zenon
  <2>3. /\ Down(v, w, 11) = e
        /\ \A i \in 1..10 : Down(v, w, i) = drop(order[11 - i])
    BY DEF Down, e
  <2> HIDE DEF d
  <2>4. \A i \in 1..11 : d[i] = Down(v, w, i)
    BY <2>2, <2>3, Dropping DEF Longer
  <2> QED BY <2>2, <2>4 DEF d, e, Longer
<1>5. /\ down1 \in Seq(Operations) /\ Len(down1) = 11
      /\ \A i \in 1..11 : down1[i] = Down("r0001", Base, i)
  BY <1>1, <1>4 DEF downgrade_0001
<1>6. /\ down2 \in Seq(Operations) /\ Len(down2) = 11
      /\ \A i \in 1..11 : down2[i] = Down("r0002", "r0001", i)
  BY <1>1, <1>4 DEF downgrade_0002
<1> HIDE DEF up1, up2, down1, down2
<1>7. LET s == up1 \o up2 IN
      /\ s \in Seq(Operations) /\ Len(s) = 32
      /\ \A i \in 1..32 : s[i] = UpFromBase(i)
  <2> DEFINE s == up1 \o up2
  <2>0. Both(s, up1, up2, 11, 21)
    BY <1>1, <1>2, <1>3, Joined, Zenon
  <2> HIDE DEF s
  <2>1. /\ s \in Seq(Operations) /\ Len(s) = 32
        /\ \A i \in 1..11 : s[i] = up1[i]
        /\ \A i \in 12..32 : s[i] = up2[i - 11]
    BY <2>0 DEF Both
  <2>2. \A i \in 1..11 : s[i] = UpFromBase(i)
    BY <1>2, <2>1
  <2>3. ASSUME NEW i \in 12..32 PROVE s[i] = UpFromBase(i)
    <3>0. i - 11 \in 1..21
      OBVIOUS
    <3>1. s[i] = UpFrom0001(i - 11)
      BY <1>3, <2>1, <3>0
    <3>2. 11 - (i - 11) = 22 - i /\ (i - 11) - 10 = i - 21
      OBVIOUS
    <3> QED BY <3>1, <3>2 DEF UpFrom0001, UpFromBase
  <2>4. \A i \in 1..32 : s[i] = UpFromBase(i)
    BY <2>2, <2>3
  <2> QED BY <2>1, <2>4 DEF s
<1>8. LET s == down2 \o down1 IN
      /\ s \in Seq(Operations) /\ Len(s) = 22
      /\ \A i \in 1..22 : s[i] = DownToBase(i)
  <2> DEFINE s == down2 \o down1
  <2>0. Both(s, down2, down1, 11, 11)
    BY <1>1, <1>5, <1>6, Joined, Zenon
  <2> HIDE DEF s
  <2>1. /\ s \in Seq(Operations) /\ Len(s) = 22
        /\ \A i \in 1..11 : s[i] = down2[i]
        /\ \A i \in 12..22 : s[i] = down1[i - 11]
    BY <2>0 DEF Both
  <2>2. ASSUME NEW i \in 1..11 PROVE s[i] = DownToBase(i)
    <3>1. i <= 11
      OBVIOUS
    <3>2. s[i] = Down("r0002", "r0001", i)
      BY <1>6, <2>1
    <3> QED BY <3>1, <3>2 DEF DownToBase
  <2>3. ASSUME NEW i \in 12..22 PROVE s[i] = DownToBase(i)
    <3>1. i - 11 \in 1..11 /\ ~(i <= 11)
      OBVIOUS
    <3>2. s[i] = Down("r0001", Base, i - 11)
      BY <1>5, <2>1, <3>1
    <3> QED BY <3>1, <3>2 DEF DownToBase
  <2>4. \A i \in 1..22 : s[i] = DownToBase(i)
    BY <2>2, <2>3
  <2> QED BY <2>1, <2>4 DEF s
<1>9. /\ steps("upgrade head", Base) = up1 \o up2
      /\ steps("upgrade head", "r0001") = up2
      /\ steps("upgrade head", "r0002") = <<>>
      /\ \A c \in {"downgrade -1", "downgrade base"} :
             steps(c, "r0001") = down1 /\ steps(c, Base) = <<>>
      /\ steps("downgrade -1", "r0002") = down2
      /\ steps("downgrade base", "r0002") = down2 \o down1
  <2> DEFINE from == [base  |-> [up |-> up1 \o up2, one |-> <<>>,
                                 all |-> <<>>],
                      r0001 |-> [up |-> up2, one |-> down1, all |-> down1],
                      r0002 |-> [up |-> <<>>, one |-> down2,
                                 all |-> down2 \o down1]]
  <2>1. ASSUME NEW v
        PROVE  /\ steps("upgrade head", v) = from[v].up
               /\ steps("downgrade -1", v) = from[v].one
               /\ steps("downgrade base", v) = from[v].all
    BY DEF steps, up1, up2, down1, down2
  <2>2. from[Base].up = up1 \o up2 /\ from[Base].one = <<>>
        /\ from[Base].all = <<>>
    BY DEF Base
  <2>3. from["r0001"].up = up2 /\ from["r0001"].one = down1
        /\ from["r0001"].all = down1
    OBVIOUS
  <2>4. from["r0002"].up = <<>> /\ from["r0002"].one = down2
        /\ from["r0002"].all = down2 \o down1
    OBVIOUS
  <2> HIDE DEF from
  <2> QED BY <2>1, <2>2, <2>3, <2>4
<1> QED BY <1>2, <1>3, <1>5, <1>6, <1>7, <1>8, <1>9

LEMMA Planned ==
    ASSUME NEW c \in Commands, NEW v \in Versions
    PROVE  /\ steps(c, v) \in Seq(Operations)
           /\ Len(steps(c, v)) = Size(c, v)
           /\ Size(c, v) \in 0..32
           /\ \A i \in 1..Size(c, v) : steps(c, v)[i] = Operation(c, v, i)
<1>1. <<>> \in Seq(Operations) /\ Len(<<>>) = 0
  OBVIOUS
<1>2. Base # "r0001" /\ Base # "r0002" /\ v \in {Base, "r0001", "r0002"}
  BY DEF Base, Versions, Revisions
<1>3. CASE c = "upgrade head"
  <2>1. CASE v = Base
    <3>1. /\ Size(c, v) = 32
          /\ \A i : Operation(c, v, i) = UpFromBase(i)
      BY <1>3, <2>1 DEF Size, Operation
    <3>2. /\ steps(c, v) \in Seq(Operations) /\ Len(steps(c, v)) = 32
          /\ \A i \in 1..32 : steps(c, v)[i] = UpFromBase(i)
      BY <1>3, <2>1, Plans
    <3>3. \A i \in 1..32 : steps(c, v)[i] = Operation(c, v, i)
      BY <3>1, <3>2, Zenon
    <3>4. 32 \in 0..32
      OBVIOUS
    <3> QED BY <3>1, <3>2, <3>3, <3>4, Zenon
  <2>2. CASE v = "r0001"
    <3>1. /\ Size(c, v) = 21
          /\ \A i : Operation(c, v, i) = UpFrom0001(i)
      BY <1>2, <1>3, <2>2 DEF Size, Operation
    <3>2. /\ steps(c, v) \in Seq(Operations) /\ Len(steps(c, v)) = 21
          /\ \A i \in 1..21 : steps(c, v)[i] = UpFrom0001(i)
      BY <1>3, <2>2, Plans
    <3>3. \A i \in 1..21 : steps(c, v)[i] = Operation(c, v, i)
      BY <3>1, <3>2, Zenon
    <3>4. 21 \in 0..32
      OBVIOUS
    <3> QED BY <3>1, <3>2, <3>3, <3>4, Zenon
  <2>3. CASE v = "r0002"
    <3>1. steps(c, v) = <<>> /\ Size(c, v) = 0
      BY <1>2, <1>3, <2>3, Plans DEF Size
    <3> QED BY <1>1, <3>1
  <2> QED BY <1>2, <2>1, <2>2, <2>3
<1>4. CASE c # "upgrade head"
  <2>1. c \in {"downgrade -1", "downgrade base"}
    BY <1>4 DEF Commands
  <2>2. CASE v = Base
    <3>1. steps(c, v) = <<>> /\ Size(c, v) = 0
      BY <1>2, <1>4, <2>1, <2>2, Plans DEF Size
    <3> QED BY <1>1, <3>1
  <2>3. CASE v = "r0001"
    <3>1. /\ Size(c, v) = 11
          /\ \A i : Operation(c, v, i) = Down("r0001", Base, i)
      BY <1>2, <1>4, <2>1, <2>3 DEF Size, Operation
    <3>2. /\ steps(c, v) \in Seq(Operations) /\ Len(steps(c, v)) = 11
          /\ \A i \in 1..11 : steps(c, v)[i] = Down("r0001", Base, i)
      BY <2>1, <2>3, Plans
    <3>3. \A i \in 1..11 : steps(c, v)[i] = Operation(c, v, i)
      BY <3>1, <3>2, Zenon
    <3>4. 11 \in 0..32
      OBVIOUS
    <3> QED BY <3>1, <3>2, <3>3, <3>4, Zenon
  <2>4. CASE v = "r0002" /\ c = "downgrade -1"
    <3>1. /\ Size(c, v) = 11
          /\ \A i : Operation(c, v, i) = Down("r0002", "r0001", i)
      BY <1>2, <2>4 DEF Size, Operation
    <3>2. /\ steps(c, v) \in Seq(Operations) /\ Len(steps(c, v)) = 11
          /\ \A i \in 1..11 : steps(c, v)[i] = Down("r0002", "r0001", i)
      BY <2>4, Plans
    <3>3. \A i \in 1..11 : steps(c, v)[i] = Operation(c, v, i)
      BY <3>1, <3>2, Zenon
    <3>4. 11 \in 0..32
      OBVIOUS
    <3> QED BY <3>1, <3>2, <3>3, <3>4, Zenon
  <2>5. CASE v = "r0002" /\ c = "downgrade base"
    <3>1. /\ Size(c, v) = 22
          /\ \A i : Operation(c, v, i) = DownToBase(i)
      BY <1>2, <2>5 DEF Size, Operation
    <3>2. /\ steps(c, v) \in Seq(Operations) /\ Len(steps(c, v)) = 22
          /\ \A i \in 1..22 : steps(c, v)[i] = DownToBase(i)
      BY <2>5, Plans
    <3>3. \A i \in 1..22 : steps(c, v)[i] = Operation(c, v, i)
      BY <3>1, <3>2, Zenon
    <3>4. 22 \in 0..32
      OBVIOUS
    <3> QED BY <3>1, <3>2, <3>3, <3>4, Zenon
  <2> QED BY <1>2, <2>1, <2>2, <2>3, <2>4, <2>5
<1> QED BY <1>3, <1>4

\* What a command sees of the n-th table, when the tables are those that the
\* version it read tells.
Sees(c, v, k, n) ==
    IF Made(c, v, k, n) # "nothing" THEN Made(c, v, k, n)
    ELSE IF v = Base THEN Absent ELSE v

SeesVersion(c, v, k) ==
    IF Stamped(c, v, k) = "unset" THEN v ELSE Stamped(c, v, k)

\* The next operation of a command that has run k of them: it writes the row,
\* drops the last of the tables there are, or creates the first of the others.
StampIsNext(c, v, k, o) ==
    /\ \E w \in Versions : /\ o = stamp(SeesVersion(c, v, k), w)
                           /\ Stamped(c, v, k + 1) = w
    /\ \A n \in 1..10 : Made(c, v, k + 1, n) = Made(c, v, k, n)

DropIsNext(c, v, k, o, m) ==
    /\ o = drop(order[m])
    /\ Made(c, v, k + 1, m) = Absent
    /\ Sees(c, v, k, m) \in Revisions
    /\ \A n \in 1..10 : n < m => Sees(c, v, k, n) \in Revisions
    /\ \A n \in 1..10 : n > m => Sees(c, v, k, n) = Absent

CreateIsNext(c, v, k, o, m) ==
    /\ \E revision \in Revisions :
           /\ o = create(order[m], revision)
           /\ Made(c, v, k + 1, m) = revision
    /\ Sees(c, v, k, m) = Absent
    /\ \A n \in 1..10 : n < m => Sees(c, v, k, n) \in Revisions

OthersKept(c, v, k, m) ==
    /\ \A n \in 1..10 \ {m} : Made(c, v, k + 1, n) = Made(c, v, k, n)
    /\ Stamped(c, v, k + 1) = Stamped(c, v, k)

NextIs(c, v, k, o) ==
    \/ StampIsNext(c, v, k, o)
    \/ \E m \in 1..10 : /\ OthersKept(c, v, k, m)
                        /\ \/ DropIsNext(c, v, k, o, m)
                           \/ CreateIsNext(c, v, k, o, m)

LEMMA Following ==
    ASSUME NEW c \in Commands, NEW v \in Versions,
           NEW k \in 0..Size(c, v) - 1, Hopeless(c, v) => k < 11
    PROVE  NextIs(c, v, k, Operation(c, v, k + 1))
<1> DEFINE o == Operation(c, v, k + 1)
<1>1. /\ Base # "r0001" /\ Base # "r0002" /\ v \in {Base, "r0001", "r0002"}
      /\ Absent # "nothing" /\ Base # "unset"
      /\ Absent \notin {"r0001", "r0002"}
      /\ Revisions = {"r0001", "r0002"}
      /\ Versions = {"r0001", "r0002", Base}
      /\ c \in {"upgrade head", "downgrade -1", "downgrade base"}
  BY DEF Base, Versions, Revisions, Absent, Commands
<1>2. CASE c = "upgrade head" /\ v = Base
  <2>1. k \in 0..31
    <3>1. Size(c, v) = 32
      BY <1>2 DEF Size
    <3> QED BY <3>1
  <2>2. o = UpFromBase(k + 1)
    BY <1>2 DEF Operation
  <2>3. \A i \in 0..32, n \in 1..10 :
            Made(c, v, i, n) =
               IF i >= 21 + n THEN "r0002"
               ELSE IF i >= 22 - n THEN Absent
               ELSE IF i >= n THEN "r0001" ELSE "nothing"
    BY <1>2 DEF Made
  <2>4. \A i \in 0..32 : Stamped(c, v, i) =
            IF i >= 32 THEN "r0002" ELSE IF i >= 11 THEN "r0001" ELSE "unset"
    BY <1>2 DEF Stamped
  <2>5. CASE k \in 0..9
    <3>1. k + 1 \in 1..10
      BY <2>5
    <3>2. o = create(order[k + 1], "r0001")
      BY <2>2, <3>1 DEF UpFromBase
    <3>3. OthersKept(c, v, k, k + 1)
      BY <2>3, <2>4, <2>5, <3>1 DEF OthersKept
    <3>4. /\ Made(c, v, k + 1, k + 1) = "r0001"
          /\ Made(c, v, k, k + 1) = "nothing"
          /\ \A n \in 1..10 : n < k + 1 => Made(c, v, k, n) = "r0001"
      BY <2>3, <2>5, <3>1
    <3>5. CreateIsNext(c, v, k, o, k + 1)
      BY <1>1, <1>2, <3>2, <3>4 DEF CreateIsNext, Sees
    <3> QED BY <3>1, <3>3, <3>5 DEF NextIs
  <2>6. CASE k = 10 \/ k = 31
    <3>1. o = IF k = 10 THEN stamp(Base, "r0001") ELSE stamp("r0001", "r0002")
      BY <2>2, <2>6 DEF UpFromBase
    <3>2. Stamped(c, v, k) = (IF k = 10 THEN "unset" ELSE "r0001")
          /\ Stamped(c, v, k + 1) = (IF k = 10 THEN "r0001" ELSE "r0002")
      BY <2>4, <2>6
    <3>3. \A n \in 1..10 : Made(c, v, k + 1, n) = Made(c, v, k, n)
      BY <2>3, <2>6
    <3> QED BY <1>1, <1>2, <3>1, <3>2, <3>3
            DEF NextIs, StampIsNext, SeesVersion
  <2>7. CASE k \in 11..20
    <3> DEFINE m == 21 - k
    <3>1. m \in 1..10 /\ 22 - (k + 1) = m
      BY <2>7
    <3>2. o = drop(order[m])
      BY <2>2, <2>7, <3>1 DEF UpFromBase
    <3>3. OthersKept(c, v, k, m)
      BY <2>3, <2>4, <2>7, <3>1 DEF OthersKept
    <3>4. /\ Made(c, v, k + 1, m) = Absent
          /\ \A n \in 1..10 : n <= m => Made(c, v, k, n) = "r0001"
          /\ \A n \in 1..10 : n > m => Made(c, v, k, n) = Absent
      BY <2>3, <2>7, <3>1
    <3> HIDE DEF m
    <3>5. /\ \A n \in 1..10 : n <= m => Sees(c, v, k, n) = "r0001"
          /\ \A n \in 1..10 : n > m => Sees(c, v, k, n) = Absent
      BY <1>1, <3>4 DEF Sees
    <3>6. DropIsNext(c, v, k, o, m)
      <4>1. ASSUME NEW n \in 1..10 PROVE n < m => n <= m
        BY <3>1
      <4>2. m <= m
        BY <3>1
      <4>3. /\ \A n \in 1..10 : n < m => Sees(c, v, k, n) \in Revisions
            /\ Sees(c, v, k, m) \in Revisions
        BY <1>1, <3>1, <3>5, <4>1, <4>2
      <4> QED BY <3>2, <3>4, <3>5, <4>3 DEF DropIsNext
    <3> QED BY <3>1, <3>3, <3>6 DEF NextIs
  <2>8. CASE k \in 21..30
    <3> DEFINE m == k - 20
    <3>1. m \in 1..10 /\ (k + 1) - 21 = m
      BY <2>8
    <3>2. o = create(order[m], "r0002")
      BY <2>2, <2>8, <3>1 DEF UpFromBase
    <3>3. OthersKept(c, v, k, m)
      BY <2>3, <2>4, <2>8, <3>1 DEF OthersKept
    <3>4. /\ Made(c, v, k + 1, m) = "r0002"
          /\ Made(c, v, k, m) = Absent
          /\ \A n \in 1..10 : n < m => Made(c, v, k, n) = "r0002"
      BY <2>3, <2>8, <3>1
    <3> HIDE DEF m
    <3>5. CreateIsNext(c, v, k, o, m)
      BY <1>1, <3>1, <3>2, <3>4 DEF CreateIsNext, Sees
    <3> QED BY <3>1, <3>3, <3>5 DEF NextIs
  <2> QED BY <2>1, <2>5, <2>6, <2>7, <2>8
<1>3. CASE c = "upgrade head" /\ v = "r0001"
  <2>1. k \in 0..20
    <3>1. Size(c, v) = 21
      BY <1>1, <1>3 DEF Size
    <3> QED BY <3>1
  <2>2. o = UpFrom0001(k + 1)
    BY <1>1, <1>3 DEF Operation
  <2>3. \A i \in 0..21, n \in 1..10 :
            Made(c, v, i, n) =
               IF i >= 10 + n THEN "r0002"
               ELSE IF i >= 11 - n THEN Absent ELSE "nothing"
    BY <1>1, <1>3 DEF Made
  <2>4. \A i \in 0..21 : Stamped(c, v, i) =
            IF i >= 21 THEN "r0002" ELSE "unset"
    BY <1>1, <1>3 DEF Stamped
  <2>5. CASE k \in 0..9
    <3> DEFINE m == 10 - k
    <3>1. m \in 1..10 /\ 11 - (k + 1) = m
      BY <2>5
    <3>2. o = drop(order[m])
      BY <2>2, <2>5, <3>1 DEF UpFrom0001
    <3>3. OthersKept(c, v, k, m)
      BY <2>3, <2>4, <2>5, <3>1 DEF OthersKept
    <3>4. /\ Made(c, v, k + 1, m) = Absent
          /\ \A n \in 1..10 : n <= m => Made(c, v, k, n) = "nothing"
          /\ \A n \in 1..10 : n > m => Made(c, v, k, n) = Absent
      BY <2>3, <2>5, <3>1
    <3> HIDE DEF m
    <3>5. /\ \A n \in 1..10 : n <= m => Sees(c, v, k, n) = "r0001"
          /\ \A n \in 1..10 : n > m => Sees(c, v, k, n) = Absent
      BY <1>1, <1>3, <3>4 DEF Sees
    <3>6. DropIsNext(c, v, k, o, m)
      <4>1. ASSUME NEW n \in 1..10 PROVE n < m => n <= m
        BY <3>1
      <4>2. m <= m
        BY <3>1
      <4>3. /\ \A n \in 1..10 : n < m => Sees(c, v, k, n) \in Revisions
            /\ Sees(c, v, k, m) \in Revisions
        BY <1>1, <3>1, <3>5, <4>1, <4>2
      <4> QED BY <3>2, <3>4, <3>5, <4>3 DEF DropIsNext
    <3> QED BY <3>1, <3>3, <3>6 DEF NextIs
  <2>6. CASE k \in 10..19
    <3> DEFINE m == k - 9
    <3>1. m \in 1..10 /\ (k + 1) - 10 = m
      BY <2>6
    <3>2. o = create(order[m], "r0002")
      BY <2>2, <2>6, <3>1 DEF UpFrom0001
    <3>3. OthersKept(c, v, k, m)
      BY <2>3, <2>4, <2>6, <3>1 DEF OthersKept
    <3>4. /\ Made(c, v, k + 1, m) = "r0002"
          /\ Made(c, v, k, m) = Absent
          /\ \A n \in 1..10 : n < m => Made(c, v, k, n) = "r0002"
      BY <2>3, <2>6, <3>1
    <3> HIDE DEF m
    <3>5. CreateIsNext(c, v, k, o, m)
      BY <1>1, <3>1, <3>2, <3>4 DEF CreateIsNext, Sees
    <3> QED BY <3>1, <3>3, <3>5 DEF NextIs
  <2>7. CASE k = 20
    <3>1. o = stamp("r0001", "r0002")
      BY <2>2, <2>7 DEF UpFrom0001
    <3>2. Stamped(c, v, k) = "unset" /\ Stamped(c, v, k + 1) = "r0002"
      BY <2>4, <2>7
    <3>3. \A n \in 1..10 : Made(c, v, k + 1, n) = Made(c, v, k, n)
      BY <2>3, <2>7
    <3> QED BY <1>1, <1>3, <3>1, <3>2, <3>3
            DEF NextIs, StampIsNext, SeesVersion
  <2> QED BY <2>1, <2>5, <2>6, <2>7
<1>4. CASE c # "upgrade head"
  <2> DEFINE to == IF v = "r0001" THEN Base ELSE "r0001"
  <2>1. v \in Revisions
    <3>1. ASSUME v = Base PROVE FALSE
      <4>1. Size(c, v) = 0
        BY <1>4, <3>1 DEF Size
      <4> QED BY <4>1
    <3> QED BY <1>1, <3>1
  <2>9. k \in 0..10
    <3>1. CASE Hopeless(c, v)
      <4>1. Size(c, v) = 22
        BY <1>1, <3>1 DEF Size, Hopeless
      <4> QED BY <3>1, <4>1
    <3>2. CASE ~Hopeless(c, v)
      <4>1. Size(c, v) = 11
        BY <1>1, <1>4, <2>1, <3>2 DEF Size, Hopeless
      <4> QED BY <4>1
    <3> QED BY <3>1, <3>2
  <2>2. o = Down(v, to, k + 1)
    <3>1. CASE v = "r0001"
      BY <1>1, <1>4, <3>1 DEF Operation
    <3>2. CASE v = "r0002"
      <4>1. o = IF c = "downgrade -1" THEN Down(v, to, k + 1)
                ELSE DownToBase(k + 1)
        BY <1>1, <1>4, <3>2 DEF Operation
      <4>2. DownToBase(k + 1) = Down(v, to, k + 1)
        BY <2>9, <3>2 DEF DownToBase
      <4> QED BY <4>1, <4>2
    <3> QED BY <1>1, <2>1, <3>1, <3>2
  <2>3. \A i \in 0..11, n \in 1..10 :
            Made(c, v, i, n) = IF i >= 11 - n THEN Absent ELSE "nothing"
    BY <1>4 DEF Made
  <2>4. \A i \in 0..11 : Stamped(c, v, i) = IF i < 11 THEN "unset" ELSE to
    BY <1>4 DEF Stamped
  <2>5. CASE k \in 0..9
    <3> DEFINE m == 10 - k
    <3>1. m \in 1..10 /\ 11 - (k + 1) = m
      BY <2>5
    <3>2. o = drop(order[m])
      BY <2>2, <2>5, <3>1 DEF Down
    <3>3. OthersKept(c, v, k, m)
      BY <2>3, <2>4, <2>5, <3>1 DEF OthersKept
    <3>4. /\ Made(c, v, k + 1, m) = Absent
          /\ \A n \in 1..10 : n <= m => Made(c, v, k, n) = "nothing"
          /\ \A n \in 1..10 : n > m => Made(c, v, k, n) = Absent
      BY <2>3, <2>5, <3>1
    <3> HIDE DEF m
    <3>5. /\ \A n \in 1..10 : n <= m => Sees(c, v, k, n) = v
          /\ \A n \in 1..10 : n > m => Sees(c, v, k, n) = Absent
      BY <1>1, <2>1, <3>4 DEF Sees
    <3>6. DropIsNext(c, v, k, o, m)
      <4>1. ASSUME NEW n \in 1..10 PROVE n < m => n <= m
        BY <3>1
      <4>2. m <= m
        BY <3>1
      <4>3. /\ \A n \in 1..10 : n < m => Sees(c, v, k, n) \in Revisions
            /\ Sees(c, v, k, m) \in Revisions
        BY <1>1, <2>1, <3>1, <3>5, <4>1, <4>2
      <4> QED BY <3>2, <3>4, <3>5, <4>3 DEF DropIsNext
    <3> QED BY <3>1, <3>3, <3>6 DEF NextIs
  <2>6. CASE k = 10
    <3>1. o = stamp(v, to)
      BY <2>2, <2>6 DEF Down
    <3>2. Stamped(c, v, k) = "unset" /\ Stamped(c, v, k + 1) = to
      BY <2>4, <2>6
    <3>3. \A n \in 1..10 : Made(c, v, k + 1, n) = Made(c, v, k, n)
      BY <2>3, <2>6
    <3> QED BY <1>1, <2>1, <3>1, <3>2, <3>3
            DEF NextIs, StampIsNext, SeesVersion
  <2> QED BY <2>9, <2>5, <2>6
<1>5. CASE c = "upgrade head" /\ v = "r0002"
  <2>1. Size(c, v) = 0
    BY <1>1, <1>5 DEF Size
  <2> QED BY <2>1
<1> QED BY <1>1, <1>2, <1>3, <1>4, <1>5

-----------------------------------------------------------------------------
(* What a running command does next *)

\* What it has to do and what it sees are told by how far it is.
LEMMA Progress ==
    ASSUME MigrationInv, NEW r \in Runners, pc[r] = "running",
           NEW k \in 0..Size(command[r], heads[r]), At(r, k)
    PROVE  /\ command[r] \in Commands /\ heads[r] \in Versions
           /\ Size(command[r], heads[r]) \in 0..32
           /\ plan[r] = <<>> <=> k = Size(command[r], heads[r])
           /\ plan[r] # <<>> =>
                  Head(plan[r]) = Operation(command[r], heads[r], k + 1)
           /\ \A n \in 1..10 :
                  Seen(r, order[n]) =
                      IF Made(command[r], heads[r], k, n) = "nothing"
                      THEN tables[order[n]]
                      ELSE Made(command[r], heads[r], k, n)
<1>1. command[r] \in Commands /\ heads[r] \in Versions
  BY DEF MigrationInv, TypeOK, Versions
<1> DEFINE size == Size(command[r], heads[r])
<1>2. size \in 0..32
  BY <1>1, Planned
<1>3. plan[r] \in Seq(Operations) /\ Len(plan[r]) = size - k
      /\ \A i \in 1..Len(plan[r]) :
             plan[r][i] = Operation(command[r], heads[r], k + i)
  BY DEF MigrationInv, At
<1> HIDE DEF size
<1>4. plan[r] = <<>> <=> k = size
  <2>1. plan[r] = <<>> <=> Len(plan[r]) = 0
    BY <1>3
  <2> QED BY <1>2, <1>3, <2>1
<1>5. ASSUME plan[r] # <<>>
      PROVE  Head(plan[r]) = Operation(command[r], heads[r], k + 1)
  <2>1. Head(plan[r]) = plan[r][1] /\ 1 \in 1..Len(plan[r])
    BY <1>3, <1>5
  <2> QED BY <1>3, <2>1
<1>6. ASSUME NEW n \in 1..10
      PROVE  Seen(r, order[n]) =
                 IF Made(command[r], heads[r], k, n) = "nothing"
                 THEN tables[order[n]]
                 ELSE Made(command[r], heads[r], k, n)
  BY DEF Seen, At
<1> QED BY <1>1, <1>2, <1>4, <1>5, <1>6 DEF size

\* The second step of a downgrade from head to base does not begin.
LEMMA Stopped ==
    ASSUME MigrationInv, NEW r \in Runners, pc[r] = "running",
           NEW k \in 0..Size(command[r], heads[r]), At(r, k),
           plan[r] # <<>>, Succeeds(r), Hopeless(command[r], heads[r])
    PROVE  k < 11
<1>0. k \in Nat /\ k <= 11
  <2>1. Size(command[r], heads[r]) \in 0..32
    BY Progress
  <2>2. k <= 11
    BY DEF At
  <2> QED BY <2>1, <2>2
<1> SUFFICES ASSUME k >= 11 PROVE FALSE
  BY <1>0
<1>1. k = 11
  BY <1>0
<1>2. command[r] = "downgrade base" /\ heads[r] = "r0002"
  BY DEF Hopeless
<1>3. Head(plan[r]) = drop(order[10])
  <2>1. Head(plan[r]) = Operation(command[r], heads[r], 12)
    BY <1>1, Progress
  <2>2. Operation(command[r], heads[r], 12) = DownToBase(12)
    BY <1>2 DEF Operation, Base
  <2>3. DownToBase(12) = drop(order[10])
    BY DEF DownToBase, Down
  <2> QED BY <2>1, <2>2, <2>3
<1>4. Made(command[r], heads[r], 11, 10) = Absent
  <2>1. \A i \in 0..11, n \in 1..10 :
            Made(command[r], heads[r], i, n) =
                IF i >= 11 - n THEN Absent ELSE "nothing"
    BY <1>2 DEF Made
  <2> QED BY <2>1
<1>5. Seen(r, order[10]) = Absent
  <2>1. 10 \in 1..10 /\ Absent # "nothing"
    BY DEF Absent
  <2> QED BY <1>1, <1>4, <2>1, Progress
<1>6. Seen(r, order[10]) # Absent
  <2>1. Head(plan[r]).op = "drop" /\ Head(plan[r]).table = order[10]
    BY <1>3 DEF drop
  <2> HIDE DEF Seen
  <2> QED BY <2>1 DEF Succeeds
<1> QED BY <1>5, <1>6

LEMMA NextOperation ==
    ASSUME MigrationInv, NEW r \in Runners, pc[r] = "running",
           NEW k \in 0..Size(command[r], heads[r]), At(r, k),
           plan[r] # <<>>, Hopeless(command[r], heads[r]) => k < 11
    PROVE  /\ k \in 0..Size(command[r], heads[r]) - 1
           /\ NextIs(command[r], heads[r], k, Head(plan[r]))
<1>1. command[r] \in Commands /\ heads[r] \in Versions
      /\ Size(command[r], heads[r]) \in 0..32
      /\ k # Size(command[r], heads[r])
      /\ Head(plan[r]) = Operation(command[r], heads[r], k + 1)
  BY Progress
<1> DEFINE size == Size(command[r], heads[r])
<1>2. k \in 0..size - 1
  <2>1. k \in 0..size
    OBVIOUS
  <2>2. size \in 0..32 /\ k # size
    BY <1>1
  <2> HIDE DEF size
  <2> QED BY <2>1, <2>2
<1> QED BY <1>1, <1>2, Following

\* The first operation of a command tells whether the tables are there.
LEMMA FirstOperation ==
    ASSUME NEW c \in Commands, NEW v \in Versions, 0 < Size(c, v)
    PROVE  IF v = Base THEN Operation(c, v, 1) = create("tenants", "r0001")
           ELSE Operation(c, v, 1) = drop("audit_events")
<1>1. Base # "r0001" /\ Base # "r0002" /\ v \in {Base, "r0001", "r0002"}
      /\ order[1] = "tenants" /\ order[10] = "audit_events"
  BY DEF Base, Versions, Revisions, order
<1>2. /\ UpFromBase(1) = create(order[1], "r0001")
      /\ UpFrom0001(1) = drop(order[10])
      /\ \A from, to : Down(from, to, 1) = drop(order[10])
      /\ DownToBase(1) = drop(order[10])
  BY DEF UpFromBase, UpFrom0001, Down, DownToBase
<1>3. CASE v = Base
  <2>1. c = "upgrade head"
    <3>1. ASSUME c # "upgrade head" PROVE FALSE
      <4>1. Size(c, v) = 0
        BY <1>3, <3>1 DEF Size
      <4> QED BY <4>1
    <3> QED BY <3>1
  <2> QED BY <1>1, <1>2, <1>3, <2>1 DEF Operation
<1>4. CASE v # Base
  BY <1>1, <1>2, <1>4 DEF Operation
<1> QED BY <1>3, <1>4

\* A command that is past it has that table.
LEMMA FirstTable ==
    ASSUME NEW c \in Commands, NEW v \in Versions, NEW k \in 1..Size(c, v)
    PROVE  /\ v = Base => Made(c, v, k, 1) # "nothing"
           /\ v # Base => Made(c, v, k, 10) # "nothing"
<1>1. Base # "r0001" /\ Base # "r0002" /\ v \in {Base, "r0001", "r0002"}
      /\ Absent # "nothing" /\ Size(c, v) \in 0..32
  BY Planned DEF Base, Versions, Revisions, Absent
<1>2. k \in Nat /\ k >= 1
  BY <1>1
<1>3. ASSUME v = Base PROVE Made(c, v, k, 1) # "nothing"
  <2>1. c = "upgrade head"
    <3>1. ASSUME c # "upgrade head" PROVE FALSE
      <4>1. Size(c, v) = 0
        BY <1>3, <3>1 DEF Size
      <4> QED BY <4>1
    <3> QED BY <3>1
  <2> QED BY <1>1, <1>2, <1>3, <2>1 DEF Made
<1>4. ASSUME v # Base PROVE Made(c, v, k, 10) # "nothing"
  <2>1. \A i \in Nat, n \in 1..10 :
            i >= 11 - n => Made(c, v, i, n) # "nothing"
    BY <1>1, <1>4 DEF Made
  <2>2. 10 \in 1..10 /\ k >= 11 - 10
    BY <1>2
  <2> QED BY <1>2, <2>1, <2>2
<1> QED BY <1>3, <1>4

\* One that has not begun has touched nothing.
LEMMA Untouched ==
    ASSUME NEW c \in Commands, NEW v \in Versions
    PROVE  /\ \A n \in 1..10 : Made(c, v, 0, n) = "nothing"
           /\ Stamped(c, v, 0) = "unset"
<1>1. ASSUME NEW n \in 1..10 PROVE Made(c, v, 0, n) = "nothing"
  <2>1. CASE c = "upgrade head" /\ v = Base
    <3>1. ~(0 >= 21 + n) /\ ~(0 >= 22 - n) /\ ~(0 >= n)
      OBVIOUS
    <3> QED BY <2>1, <3>1 DEF Made
  <2>2. CASE ~(c = "upgrade head" /\ v = Base)
    <3>1. ~(0 >= 10 + n) /\ ~(0 >= 11 - n)
      OBVIOUS
    <3> QED BY <2>2, <3>1 DEF Made
  <2> QED BY <2>1, <2>2
<1>2. Stamped(c, v, 0) = "unset"
  <2>1. ~(0 >= 32) /\ ~(0 >= 11) /\ ~(0 >= 21) /\ 0 < 11
    OBVIOUS
  <2> QED BY <2>1 DEF Stamped
<1> QED BY <1>1, <1>2

-----------------------------------------------------------------------------
(* An operation is run *)

\* What an operation does, by its kind.
LEMMA RunEffect ==
    ASSUME MigrationInv, NEW r \in Runners, run_operation(r),
           NEW k \in 0..Size(command[r], heads[r]), At(r, k)
    PROVE  LET o == Head(plan[r]) IN
           /\ k \in 0..Size(command[r], heads[r]) - 1
           /\ Hopeless(command[r], heads[r]) => k < 11
           /\ NextIs(command[r], heads[r], k, o)
           /\ UNCHANGED <<tables, version, ensured, pc, command, heads, ensure,
                          undone>>
           /\ plan' = [plan EXCEPT ![r] = Tail(@)]
           /\ o.op = "stamp" => /\ row' = [row EXCEPT ![r] = o.to]
                                /\ overlay' = overlay
           /\ o.op # "stamp" =>
                  /\ row' = row
                  /\ overlay' = [overlay EXCEPT ![r] =
                        [t \in DOMAIN @ \cup {o.table} |->
                            IF t = o.table THEN o.to ELSE @[t]]]
<1>1. pc[r] = "running" /\ plan[r] # <<>> /\ Succeeds(r)
  BY DEF run_operation
<1>2. Hopeless(command[r], heads[r]) => k < 11
  BY <1>1, Stopped
<1>3. k \in 0..Size(command[r], heads[r]) - 1
      /\ NextIs(command[r], heads[r], k, Head(plan[r]))
  BY <1>1, <1>2, NextOperation
<1>4. /\ UNCHANGED <<tables, version, ensured, pc, command, heads, ensure,
                          undone>>
      /\ plan' = [plan EXCEPT ![r] = Tail(@)]
  BY DEF run_operation
<1> DEFINE o == Head(plan[r])
<1>5. o.op = "stamp" => /\ row' = [row EXCEPT ![r] = o.to]
                        /\ overlay' = overlay
  BY DEF run_operation
<1>6. o.op # "stamp" =>
          /\ row' = row
          /\ overlay' = [overlay EXCEPT ![r] =
                [t \in DOMAIN @ \cup {o.table} |->
                    IF t = o.table THEN o.to ELSE @[t]]]
  BY DEF run_operation
<1> QED BY <1>2, <1>3, <1>4, <1>5, <1>6

\* An operation on a table, on the row.
LEMMA OperationOn ==
    ASSUME NEW c, NEW v, NEW k, NEW o, NextIs(c, v, k, o)
    PROVE  \/ /\ o.op = "stamp" /\ o.to \in Versions
              /\ o.from = SeesVersion(c, v, k)
              /\ Stamped(c, v, k + 1) = o.to
              /\ \A n \in 1..10 : Made(c, v, k + 1, n) = Made(c, v, k, n)
           \/ /\ o.op \in {"drop", "create"}
              /\ \E m \in 1..10 :
                    /\ o.table = order[m]
                    /\ Made(c, v, k + 1, m) = o.to
                    /\ OthersKept(c, v, k, m)
              /\ o.to \in Revisions \cup {Absent}
<1>1. CASE StampIsNext(c, v, k, o)
  BY <1>1 DEF StampIsNext, stamp
<1>2. ASSUME NEW m \in 1..10, OthersKept(c, v, k, m), DropIsNext(c, v, k, o, m)
      PROVE  /\ o.op \in {"drop", "create"}
             /\ \E n \in 1..10 :
                   /\ o.table = order[n]
                   /\ Made(c, v, k + 1, n) = o.to
                   /\ OthersKept(c, v, k, n)
             /\ o.to \in Revisions \cup {Absent}
  <2>1. o.op = "drop" /\ o.table = order[m] /\ o.to = Absent
    BY <1>2 DEF DropIsNext, drop
  <2>2. Made(c, v, k + 1, m) = o.to
    BY <1>2, <2>1 DEF DropIsNext
  <2> QED BY <1>2, <2>1, <2>2
<1>3. ASSUME NEW m \in 1..10, OthersKept(c, v, k, m),
             CreateIsNext(c, v, k, o, m)
      PROVE  /\ o.op \in {"drop", "create"}
             /\ \E n \in 1..10 :
                   /\ o.table = order[n]
                   /\ Made(c, v, k + 1, n) = o.to
                   /\ OthersKept(c, v, k, n)
             /\ o.to \in Revisions \cup {Absent}
  <2>1. PICK rev \in Revisions : /\ o = create(order[m], rev)
                                 /\ Made(c, v, k + 1, m) = rev
    BY <1>3 DEF CreateIsNext
  <2>2. o.op = "create" /\ o.table = order[m] /\ o.to = rev
    BY <2>1 DEF create
  <2> QED BY <1>3, <2>1, <2>2
<1> QED BY <1>1, <1>2, <1>3 DEF NextIs

\* No other command has the table.
LEMMA Granted ==
    ASSUME MigrationInv, NEW r \in Runners, run_operation(r),
           Head(plan[r]).op \in {"drop", "create"}
    PROVE  \A q \in Runners \ {r} :
               Head(plan[r]).table \notin DOMAIN overlay[q]
<1> DEFINE o == Head(plan[r])
<1>1. CASE o.table \in DOMAIN overlay[r]
  BY <1>1 DEF MigrationInv, RunnersInv, Locked
<1>2. CASE o.table \notin DOMAIN overlay[r]
  <2>1. Seen(r, o.table) = tables[o.table]
    BY <1>2 DEF Seen
  <2>2. ~MustWait(r) /\ Succeeds(r)
    BY DEF run_operation
  <2>3. (o.op = "drop") = (tables[o.table] # Absent)
    <3>1. CASE o.op = "drop"
      BY <2>1, <2>2, <3>1 DEF Succeeds
    <3>2. CASE o.op = "create"
      BY <2>1, <2>2, <3>2 DEF Succeeds
    <3> QED BY <3>1, <3>2
  <2> QED BY <1>2, <2>2, <2>3 DEF MustWait
<1> QED BY <1>1, <1>2

\* The tables are there, or not, as the version that was read tells.
LEMMA Found ==
    ASSUME MigrationInv, NEW r \in Runners, run_operation(r),
           NEW k \in 0..Size(command[r], heads[r]), At(r, k)
    PROVE  IF heads[r] = Base THEN tables["tenants"] = Absent
           ELSE tables["audit_events"] # Absent
<1>1. pc[r] = "running" /\ plan[r] # <<>> /\ Succeeds(r)
  BY DEF run_operation
<1>2. /\ command[r] \in Commands /\ heads[r] \in Versions
      /\ Size(command[r], heads[r]) \in 0..32
      /\ k # Size(command[r], heads[r])
      /\ Head(plan[r]) = Operation(command[r], heads[r], k + 1)
  BY <1>1, Progress
<1>3. 1 \in 1..10 /\ 10 \in 1..10
      /\ order[1] = "tenants" /\ order[10] = "audit_events"
  BY DEF order
<1>4. CASE k = 0
  <2>1. 0 < Size(command[r], heads[r]) /\ 0 + 1 = 1
    BY <1>2, <1>4
  <2>2. \A n \in 1..10 : Made(command[r], heads[r], 0, n) = "nothing"
    BY <1>2, Untouched
  <2>3. \A n \in 1..10 : Seen(r, order[n]) = tables[order[n]]
    BY <1>4, <2>2 DEF At, Seen
  <2>4. Seen(r, "tenants") = tables["tenants"]
        /\ Seen(r, "audit_events") = tables["audit_events"]
    BY <1>3, <2>3
  <2>5. CASE heads[r] = Base
    <3>1. Head(plan[r]) = create("tenants", "r0001")
      BY <1>2, <1>4, <2>1, <2>5, FirstOperation
    <3>2. Head(plan[r]).op = "create" /\ Head(plan[r]).table = "tenants"
      BY <3>1 DEF create
    <3>3. Seen(r, "tenants") = Absent
      BY <1>1, <3>2 DEF Succeeds
    <3> QED BY <2>4, <2>5, <3>3
  <2>6. CASE heads[r] # Base
    <3>1. Head(plan[r]) = drop("audit_events")
      BY <1>2, <1>4, <2>1, <2>6, FirstOperation
    <3>2. Head(plan[r]).op = "drop" /\ Head(plan[r]).table = "audit_events"
      BY <3>1 DEF drop
    <3>3. Seen(r, "audit_events") # Absent
      BY <1>1, <3>2 DEF Succeeds
    <3> QED BY <2>4, <2>6, <3>3
  <2> QED BY <2>5, <2>6
<1>5. CASE k # 0
  <2>1. k \in 1..Size(command[r], heads[r])
    BY <1>2, <1>5
  <2>2. /\ heads[r] = Base => Made(command[r], heads[r], k, 1) # "nothing"
        /\ heads[r] # Base => Made(command[r], heads[r], k, 10) # "nothing"
    BY <1>2, <2>1, FirstTable
  <2>3. DOMAIN overlay[r] # {}
    BY <1>3, <2>2 DEF At
  <2> QED BY <2>3 DEF MigrationInv, RunnersInv, Locked
<1> QED BY <1>4, <1>5

\* What the operation leaves alone.
LEMMA OthersAt ==
    ASSUME NEW q, NEW k, At(q, k), command'[q] = command[q],
           heads'[q] = heads[q], plan'[q] = plan[q],
           overlay'[q] = overlay[q], row'[q] = row[q]
    PROVE  At(q, k)'
BY DEF At

\* The command is one operation further.
LEMMA RunAt ==
    ASSUME MigrationInv, NEW r \in Runners, run_operation(r),
           NEW k \in 0..Size(command[r], heads[r]), At(r, k)
    PROVE  /\ k + 1 \in 0..Size(command[r], heads[r])
           /\ At(r, k + 1)'
<1> DEFINE c == command[r]
           v == heads[r]
           o == Head(plan[r])
<1>1. /\ k \in 0..Size(c, v) - 1
      /\ Hopeless(c, v) => k < 11
      /\ NextIs(c, v, k, o)
      /\ UNCHANGED <<command, heads>>
      /\ plan' = [plan EXCEPT ![r] = Tail(@)]
      /\ o.op = "stamp" => /\ row' = [row EXCEPT ![r] = o.to]
                           /\ overlay' = overlay
      /\ o.op # "stamp" =>
             /\ row' = row
             /\ overlay' = [overlay EXCEPT ![r] =
                   [t \in DOMAIN @ \cup {o.table} |->
                       IF t = o.table THEN o.to ELSE @[t]]]
  BY RunEffect
<1>2. /\ plan \in [Runners -> Seq(Operations)] /\ plan[r] # <<>>
      /\ overlay \in [Runners -> Overlays]
      /\ row \in [Runners -> Revisions \cup {Base, "unset"}]
      /\ c \in Commands /\ v \in Versions
  BY DEF MigrationInv, TypeOK, Versions, run_operation
<1>3. Size(c, v) \in 0..32
  BY <1>2, Planned
<1>4. k \in Nat /\ k + 1 \in 0..Size(c, v)
  <2> DEFINE size == Size(c, v)
  <2>1. size \in 0..32 /\ k \in 0..size - 1
    BY <1>1, <1>3
  <2> HIDE DEF size
  <2>2. k \in Nat /\ k + 1 \in 0..size
    BY <2>1
  <2> QED BY <2>2 DEF size
<1>5. /\ Len(plan'[r]) = Size(c, v) - (k + 1)
      /\ \A i \in 1..Len(plan'[r]) : plan'[r][i] = Operation(c, v, k + 1 + i)
  <2> DEFINE s == plan[r]
             size == Size(c, v)
  <2>1. plan'[r] = Tail(s)
    BY <1>1, <1>2
  <2>2. /\ s \in Seq(Operations) /\ s # <<>> /\ Len(s) = size - k
        /\ \A i \in 1..Len(s) : s[i] = Operation(c, v, k + i)
    BY <1>2 DEF At
  <2> HIDE DEF s
  <2>3. /\ Len(Tail(s)) = Len(s) - 1
        /\ \A i \in 1..Len(Tail(s)) : Tail(s)[i] = s[i + 1]
    BY <2>2, HeadTailProperties
  <2> DEFINE u == Tail(s)
  <2>4. /\ Len(u) = Len(s) - 1
        /\ \A i \in 1..Len(u) : u[i] = s[i + 1]
    BY <2>3
  <2>5. plan'[r] = u
    BY <2>1
  <2> HIDE DEF u, size
  <2>6. Len(s) \in Nat /\ size \in Int
    <3>1. s \in Seq(Operations)
      BY <2>2
    <3>2. size \in 0..32
      BY <1>3 DEF size
    <3> QED BY <3>1, <3>2
  <2>7. Len(u) = size - (k + 1)
    BY <1>4, <2>2, <2>4, <2>6
  <2>8. ASSUME NEW i \in 1..Len(u) PROVE u[i] = Operation(c, v, k + 1 + i)
    <3>1. i \in Nat /\ i + 1 \in 1..Len(s)
      BY <2>4, <2>6
    <3>2. u[i] = s[i + 1] /\ s[i + 1] = Operation(c, v, k + (i + 1))
      BY <2>2, <2>4, <3>1
    <3>3. k + (i + 1) = k + 1 + i
      BY <1>4, <3>1
    <3> QED BY <3>2, <3>3
  <2> QED BY <2>5, <2>7, <2>8 DEF size
<1>6. Hopeless(c, v) => k + 1 <= 11
  BY <1>1, <1>4
<1>7. At(r, k)
  OBVIOUS
<1>8. CASE /\ o.op = "stamp"
           /\ Stamped(c, v, k + 1) = o.to
           /\ \A n \in 1..10 : Made(c, v, k + 1, n) = Made(c, v, k, n)
  <2>1. row'[r] = Stamped(c, v, k + 1) /\ overlay'[r] = overlay[r]
    BY <1>1, <1>2, <1>8
  <2>2. \A n \in 1..10 :
            /\ Made(c, v, k + 1, n) = "nothing" =>
                   order[n] \notin DOMAIN overlay[r]
            /\ Made(c, v, k + 1, n) # "nothing" =>
                   /\ order[n] \in DOMAIN overlay[r]
                   /\ overlay[r][order[n]] = Made(c, v, k + 1, n)
    BY <1>7, <1>8 DEF At
  <2> QED BY <1>1, <1>4, <1>5, <1>6, <2>1, <2>2 DEF At
<1>9. ASSUME o.op \in {"drop", "create"}, o.to \in Revisions \cup {Absent},
             NEW m \in 1..10, o.table = order[m],
             Made(c, v, k + 1, m) = o.to, OthersKept(c, v, k, m)
      PROVE  At(r, k + 1)'
  <2>1. /\ row'[r] = row[r]
        /\ overlay'[r] = [t \in DOMAIN overlay[r] \cup {order[m]} |->
                              IF t = order[m] THEN o.to ELSE overlay[r][t]]
    <3> HIDE DEF c, v, o
    <3>1. o.op # "stamp"
      BY <1>9
    <3>2. /\ row' = row
          /\ overlay' = [overlay EXCEPT ![r] =
                [t \in DOMAIN @ \cup {o.table} |->
                    IF t = o.table THEN o.to ELSE @[t]]]
      BY <1>1, <3>1
    <3>3. overlay'[r] = [t \in DOMAIN overlay[r] \cup {o.table} |->
                             IF t = o.table THEN o.to ELSE overlay[r][t]]
      BY <1>2, <3>2
    <3> QED BY <1>9, <3>2, <3>3
  <2>2. row'[r] = Stamped(c, v, k + 1)
    BY <1>7, <1>9, <2>1 DEF At, OthersKept
  <2>3. ASSUME NEW n \in 1..10
        PROVE  /\ Made(c, v, k + 1, n) = "nothing" =>
                      order[n] \notin DOMAIN overlay'[r]
               /\ Made(c, v, k + 1, n) # "nothing" =>
                      /\ order[n] \in DOMAIN overlay'[r]
                      /\ overlay'[r][order[n]] = Made(c, v, k + 1, n)
    <3>1. CASE n = m
      <4>1. o.to # "nothing"
        BY <1>9 DEF Revisions, Absent
      <4> QED BY <1>9, <2>1, <3>1, <4>1
    <3>2. CASE n # m
      <4>1. order[n] # order[m]
        BY <3>2, Ordered
      <4>2. Made(c, v, k + 1, n) = Made(c, v, k, n)
        BY <1>9, <3>2 DEF OthersKept
      <4>3. /\ Made(c, v, k, n) = "nothing" => order[n] \notin DOMAIN overlay[r]
            /\ Made(c, v, k, n) # "nothing" =>
                   /\ order[n] \in DOMAIN overlay[r]
                   /\ overlay[r][order[n]] = Made(c, v, k, n)
        BY <1>7 DEF At
      <4> QED BY <2>1, <4>1, <4>2, <4>3
    <3> QED BY <3>1, <3>2
  <2> QED BY <1>1, <1>4, <1>5, <1>6, <2>2, <2>3 DEF At
<1>10. At(r, k + 1)'
  <2>1. \/ /\ o.op = "stamp"
           /\ Stamped(c, v, k + 1) = o.to
           /\ \A n \in 1..10 : Made(c, v, k + 1, n) = Made(c, v, k, n)
        \/ /\ o.op \in {"drop", "create"}
           /\ \E m \in 1..10 : /\ o.table = order[m]
                               /\ Made(c, v, k + 1, m) = o.to
                               /\ OthersKept(c, v, k, m)
           /\ o.to \in Revisions \cup {Absent}
    <3>1. NextIs(c, v, k, o)
      BY <1>1
    <3> HIDE DEF c, v, o
    <3> QED BY <3>1, OperationOn
  <2> QED BY <1>4, <1>8, <1>9, <2>1
<1> QED BY <1>4, <1>10

LEMMA OverlayShape ==
    /\ \A d \in SUBSET TableNames :
           [d -> Revisions \cup {Absent}] \subseteq Overlays
    /\ \A f \in Overlays : /\ DOMAIN f \subseteq TableNames
                           /\ f \in [DOMAIN f -> Revisions \cup {Absent}]
    /\ <<>> \in Overlays /\ DOMAIN <<>> = {}
<1>1. \A d \in SUBSET TableNames :
          [d -> Revisions \cup {Absent}] \subseteq Overlays
  BY DEF Overlays
<1>2. \A f \in Overlays : /\ DOMAIN f \subseteq TableNames
                          /\ f \in [DOMAIN f -> Revisions \cup {Absent}]
  BY DEF Overlays
<1>3. <<>> \in [{} -> Revisions \cup {Absent}] /\ DOMAIN <<>> = {}
  OBVIOUS
<1>4. {} \in SUBSET TableNames
  OBVIOUS
<1> QED BY <1>1, <1>2, <1>3, <1>4

\* What the operation locks, and finds committed.
LEMMA RunLocked ==
    ASSUME MigrationInv, NEW r \in Runners, run_operation(r),
           NEW k \in 0..Size(command[r], heads[r]), At(r, k)
    PROVE  /\ \A q \in Runners : Locked(q)'
           /\ row' \in [Runners -> Revisions \cup {Base, "unset"}]
           /\ overlay' \in [Runners -> Overlays]
<1> DEFINE c == command[r]
           v == heads[r]
           o == Head(plan[r])
<1>1. /\ NextIs(c, v, k, o)
      /\ UNCHANGED <<tables, version, ensured, pc, command, heads, ensure,
                          undone>>
      /\ o.op = "stamp" => /\ row' = [row EXCEPT ![r] = o.to]
                           /\ overlay' = overlay
      /\ o.op # "stamp" =>
             /\ row' = row
             /\ overlay' = [overlay EXCEPT ![r] =
                   [t \in DOMAIN @ \cup {o.table} |->
                       IF t = o.table THEN o.to ELSE @[t]]]
  BY RunEffect
<1>2. /\ overlay \in [Runners -> Overlays]
      /\ row \in [Runners -> Revisions \cup {Base, "unset"}]
      /\ \A q \in Runners : Locked(q)
  BY DEF MigrationInv, TypeOK, RunnersInv
<1>3. CASE /\ o.op = "stamp" /\ o.to \in Versions
           /\ o.from = SeesVersion(c, v, k)
  <2>1. row' = [row EXCEPT ![r] = o.to] /\ overlay' = overlay
    BY <1>1, <1>3
  <2>2. /\ row' \in [Runners -> Revisions \cup {Base, "unset"}]
        /\ \A q \in Runners \ {r} : row'[q] = row[q]
    BY <1>2, <1>3, <2>1 DEF Versions
  <2>3. ~MustWait(r) /\ Succeeds(r)
    BY DEF run_operation
  <2>4. SeenVersion(r) = o.from
    BY <1>3, <2>3 DEF Succeeds
  <2>5. \A q \in Runners \ {r} : row[q] = "unset"
    <3>1. CASE row[r] = "unset"
      BY <1>3, <2>3, <3>1 DEF MustWait
    <3>2. CASE row[r] # "unset"
      BY <1>2, <3>2 DEF Locked
    <3> QED BY <3>1, <3>2
  <2>6. version = heads[r]
    <3>1. CASE row[r] = "unset"
      <4>1. Stamped(c, v, k) = "unset"
        BY <3>1 DEF At
      <4> QED BY <1>3, <2>4, <3>1, <4>1 DEF SeesVersion, SeenVersion
    <3>2. CASE row[r] # "unset"
      BY <1>2, <3>2 DEF Locked
    <3> QED BY <3>1, <3>2
  <2>7. ASSUME NEW q \in Runners PROVE Locked(q)'
    <3> HIDE DEF c, v, o
    <3>1. Locked(q)
      BY <1>2
    <3>2. row'[q] # "unset" => version' = heads'[q]
      BY <1>1, <2>2, <2>5, <2>6, <3>1
    <3>3. \A p \in Runners \ {q} : row'[p] = "unset" \/ row'[q] = "unset"
      BY <2>2, <2>5
    <3> QED BY <1>1, <2>1, <3>1, <3>2, <3>3 DEF Locked
  <2> QED BY <1>2, <2>1, <2>2, <2>7
<1>4. ASSUME o.op \in {"drop", "create"}, o.to \in Revisions \cup {Absent},
             NEW m \in 1..10, o.table = order[m]
      PROVE  /\ \A q \in Runners : Locked(q)'
             /\ row' \in [Runners -> Revisions \cup {Base, "unset"}]
             /\ overlay' \in [Runners -> Overlays]
  <2> DEFINE f == [t \in DOMAIN overlay[r] \cup {o.table} |->
                       IF t = o.table THEN o.to ELSE overlay[r][t]]
  <2>1. row' = row /\ overlay' = [overlay EXCEPT ![r] = f]
    <3> HIDE DEF c, v, o
    <3>1. o.op # "stamp"
      BY <1>4
    <3> QED BY <1>1, <3>1
  <2>2. o.table \in TableNames
    BY <1>4, Ordered
  <2>3. \A q \in Runners \ {r} : o.table \notin DOMAIN overlay[q]
    BY <1>4, Granted
  <2>4. IF heads[r] = Base THEN tables["tenants"] = Absent
        ELSE tables["audit_events"] # Absent
    BY Found
  <2> HIDE DEF c, v, o
  <2>5. f \in Overlays
    <3> DEFINE d == DOMAIN overlay[r] \cup {o.table}
    <3>1. /\ DOMAIN overlay[r] \subseteq TableNames
          /\ overlay[r] \in [DOMAIN overlay[r] -> Revisions \cup {Absent}]
      BY <1>2, OverlayShape
    <3>2. d \in SUBSET TableNames
      BY <2>2, <3>1
    <3>3. f \in [d -> Revisions \cup {Absent}]
      BY <1>4, <3>1
    <3> HIDE DEF f, d
    <3> QED BY <3>2, <3>3, OverlayShape
  <2>6. DOMAIN f = DOMAIN overlay[r] \cup {o.table}
    OBVIOUS
  <2> HIDE DEF f
  <2>7. /\ overlay' \in [Runners -> Overlays]
        /\ overlay'[r] = f
        /\ \A q \in Runners \ {r} : overlay'[q] = overlay[q]
    BY <1>2, <2>1, <2>5
  <2>8. ASSUME NEW q \in Runners PROVE Locked(q)'
    <3>1. Locked(q) /\ Locked(r)
      BY <1>2
    <3>2. row'[q] # "unset" => version' = heads'[q]
      BY <1>1, <2>1, <3>1 DEF Locked
    <3>3. DOMAIN overlay'[q] # {} =>
              IF heads'[q] = Base THEN tables'["tenants"] = Absent
              ELSE tables'["audit_events"] # Absent
      <4>1. CASE q = r
        BY <1>1, <2>4, <4>1
      <4>2. CASE q # r
        BY <1>1, <2>7, <3>1, <4>2 DEF Locked
      <4> QED BY <4>1, <4>2
    <3>4. ASSUME NEW p \in Runners \ {q}
          PROVE  /\ DOMAIN overlay'[p] \cap DOMAIN overlay'[q] = {}
                 /\ row'[p] = "unset" \/ row'[q] = "unset"
      <4>1. /\ DOMAIN overlay[p] \cap DOMAIN overlay[q] = {}
            /\ row[p] = "unset" \/ row[q] = "unset"
        BY <3>1 DEF Locked
      <4>2. CASE q = r
        BY <2>1, <2>3, <2>6, <2>7, <4>1, <4>2
      <4>3. CASE p = r
        BY <2>1, <2>3, <2>6, <2>7, <4>1, <4>3
      <4>4. CASE p # r /\ q # r
        BY <2>1, <2>7, <4>1, <4>4
      <4> QED BY <4>2, <4>3, <4>4
    <3> QED BY <3>2, <3>3, <3>4 DEF Locked
  <2> QED BY <1>2, <2>1, <2>7, <2>8
<1> HIDE DEF c, v, o
<1> QED BY <1>1, <1>3, <1>4, OperationOn

\* Who has created alembic_version, and who has still to.
LEMMA EnsureStep ==
    ASSUME MigrationInv, Next
    PROVE  EnsureInv'
<1>1. /\ EnsureInv
      /\ ensured \in BOOLEAN
      /\ ensure \in [Runners -> {"there", "due", "created"}]
      /\ pc \in [Runners -> {"idle", "running", "done", "failed", "killed"}]
      /\ overlay \in [Runners -> Overlays]
      /\ row \in [Runners -> Revisions \cup {Base, "unset"}]
      /\ \A q \in Runners :
             pc[q] # "running" => DOMAIN overlay[q] = {} /\ row[q] = "unset"
  BY DEF MigrationInv, TypeOK
<1>2. PICK r \in Runners :
          Step(r) \/ killed(r) \/ \E c \in Commands : begin_transaction(r, c)
  BY DEF Next
<1>3. CASE ensure_version_table(r)
  <2>1. /\ pc[r] = "running" /\ ensure[r] = "due"
        /\ \A q \in Runners : ensure[q] # "created"
        /\ ensure' = [ensure EXCEPT ![r] = IF ensured THEN "there"
                                          ELSE "created"]
        /\ UNCHANGED <<ensured, pc, overlay, row>>
    BY <1>3 DEF ensure_version_table
  <2> QED BY <1>1, <2>1 DEF EnsureInv
<1>4. CASE run_operation(r)
  <2>1. /\ ensure[r] # "due" /\ UNCHANGED <<ensured, pc, ensure>>
        /\ \A q \in Runners \ {r} : /\ overlay'[q] = overlay[q]
                                    /\ row'[q] = row[q]
    BY <1>1, <1>4 DEF run_operation
  <2> QED BY <1>1, <2>1 DEF EnsureInv
<1>5. ASSUME NEW outcome \in {"done", "failed", "killed"}, End(r, outcome),
             ensured' = ensured
      PROVE  EnsureInv'
  <2>1. /\ pc'[r] = outcome /\ ensure'[r] = "there"
        /\ \A q \in Runners \ {r} :
               /\ pc'[q] = pc[q] /\ ensure'[q] = ensure[q]
               /\ overlay'[q] = overlay[q] /\ row'[q] = row[q]
    BY <1>1, <1>5 DEF End
  <2> QED BY <1>1, <1>5, <2>1 DEF EnsureInv
<1>6. CASE commit(r)
  <2>1. /\ pc[r] = "running" /\ ensure[r] # "due" /\ End(r, "done")
        /\ ensured' = (ensured \/ ensure[r] = "created")
    BY <1>6 DEF commit
  <2>2. ensure[r] \in {"there", "created"}
    BY <1>1, <2>1
  <2>3. ensured' = TRUE
    BY <1>1, <2>1, <2>2 DEF EnsureInv
  <2>4. /\ pc'[r] = "done" /\ ensure'[r] = "there"
        /\ \A q \in Runners \ {r} :
               /\ pc'[q] = pc[q] /\ ensure'[q] = ensure[q]
               /\ overlay'[q] = overlay[q] /\ row'[q] = row[q]
    BY <1>1, <2>1 DEF End
  <2>5. \A q \in Runners \ {r} : ensure[q] # "created"
    BY <1>1, <2>1, <2>2 DEF EnsureInv
  <2> QED BY <1>1, <2>3, <2>4, <2>5 DEF EnsureInv
<1>7. ASSUME NEW c \in Commands, begin_transaction(r, c) PROVE EnsureInv'
  <2>1. /\ pc[r] # "running"
        /\ pc' = [pc EXCEPT ![r] = "running"]
        /\ ensure' = [ensure EXCEPT ![r] = IF ensured THEN "there" ELSE "due"]
        /\ UNCHANGED <<ensured, overlay, row>>
    BY <1>7 DEF begin_transaction
  <2> QED BY <1>1, <2>1 DEF EnsureInv
<1>8. CASE version_table_exists(r) \/ operation_fails(r) \/ killed(r)
  <2>1. ensured' = ensured /\ (End(r, "failed") \/ End(r, "killed"))
    BY <1>8 DEF version_table_exists, operation_fails, killed
  <2> QED BY <1>5, <2>1
<1> QED BY <1>2, <1>3, <1>4, <1>6, <1>7, <1>8 DEF Step

\* alembic_version is created, or found there: nothing else has changed.
LEMMA EnsureTableStep ==
    ASSUME MigrationInv, NEW r \in Runners, ensure_version_table(r)
    PROVE  MigrationInv'
<1>1. /\ ensure' = [ensure EXCEPT ![r] = IF ensured THEN "there"
                                        ELSE "created"]
      /\ UNCHANGED <<tables, version, ensured, pc, command, heads, plan,
                     overlay, row, undone>>
  BY DEF ensure_version_table
<1>2. TypeOK'
  BY <1>1 DEF MigrationInv, TypeOK
<1>3. RunnersInv'
  <2>1. ASSUME NEW q \in Runners, pc'[q] = "running"
        PROVE  \E j \in 0..Size(command'[q], heads'[q]) : At(q, j)'
    <3>1. PICK j \in 0..Size(command[q], heads[q]) : At(q, j)
      BY <1>1, <2>1 DEF MigrationInv, RunnersInv
    <3>2. At(q, j)'
      BY <1>1, <3>1, OthersAt
    <3> QED BY <1>1, <3>2
  <2>2. ASSUME NEW q \in Runners PROVE Locked(q)'
    <3>1. Locked(q)
      BY DEF MigrationInv, RunnersInv
    <3> QED BY <1>1, <3>1 DEF Locked
  <2> QED BY <2>1, <2>2 DEF RunnersInv
<1>4. SchemaInv'
  BY <1>1 DEF MigrationInv, SchemaInv, VersionTellsSchema, Deployed
<1>5. EnsureInv'
  <2>1. Next
    BY DEF Next, Step
  <2> QED BY <2>1, EnsureStep
<1> QED BY <1>1, <1>2, <1>3, <1>4, <1>5 DEF MigrationInv

LEMMA RunStep ==
    ASSUME MigrationInv, NEW r \in Runners, run_operation(r)
    PROVE  MigrationInv'
<1>1. pc[r] = "running" /\ plan[r] # <<>>
      /\ plan' = [plan EXCEPT ![r] = Tail(@)]
      /\ UNCHANGED <<tables, version, ensured, pc, command, heads, ensure,
                          undone>>
      /\ \A q \in Runners \ {r} : row'[q] = row[q] /\ overlay'[q] = overlay[q]
  <2>1. row \in [Runners -> Revisions \cup {Base, "unset"}]
        /\ overlay \in [Runners -> Overlays]
    BY DEF MigrationInv, TypeOK
  <2> QED BY <2>1 DEF run_operation
<1>2. PICK k \in 0..Size(command[r], heads[r]) : At(r, k)
  BY <1>1 DEF MigrationInv, RunnersInv
<1>3. /\ \A q \in Runners : Locked(q)'
      /\ row' \in [Runners -> Revisions \cup {Base, "unset"}]
      /\ overlay' \in [Runners -> Overlays]
  BY <1>2, RunLocked
<1>4. k + 1 \in 0..Size(command[r], heads[r]) /\ At(r, k + 1)'
  BY <1>2, RunAt
<1>5. /\ plan' \in [Runners -> Seq(Operations)]
      /\ \A q \in Runners \ {r} : plan'[q] = plan[q]
  <2>1. plan \in [Runners -> Seq(Operations)]
    BY DEF MigrationInv
  <2>2. Tail(plan[r]) \in Seq(Operations)
    BY <1>1, <2>1
  <2> QED BY <1>1, <2>1, <2>2
<1>6. ASSUME NEW q \in Runners, pc'[q] = "running"
      PROVE  \E j \in 0..Size(command'[q], heads'[q]) : At(q, j)'
  <2>1. CASE q = r
    BY <1>1, <1>4, <2>1
  <2>2. CASE q # r
    <3>1. PICK j \in 0..Size(command[q], heads[q]) : At(q, j)
      BY <1>1, <1>6 DEF MigrationInv, RunnersInv
    <3>2. At(q, j)'
      BY <1>1, <1>5, <2>2, <3>1, OthersAt
    <3> QED BY <1>1, <3>2
  <2> QED BY <2>1, <2>2
<1>7. TypeOK'
  <2>1. ASSUME NEW q \in Runners
        PROVE  /\ DOMAIN overlay'[q] \subseteq TableNames
               /\ Len(plan'[q]) \in 0..32
               /\ pc'[q] # "running" =>
                      DOMAIN overlay'[q] = {} /\ row'[q] = "unset"
    <3>1. DOMAIN overlay'[q] \subseteq TableNames
      BY <1>3, OverlayShape
    <3>2. CASE q = r
      <4> DEFINE size == Size(command[r], heads[r])
      <4>1. command[r] \in Commands /\ heads[r] \in Versions
        BY DEF MigrationInv, TypeOK, Versions
      <4>2. size \in 0..32
        BY <4>1, Planned
      <4>3. Len(plan'[r]) = size - (k + 1) /\ k \in 0..size /\ k + 1 \in 0..size
        <5>1. Len(plan'[r]) = Size(command'[r], heads'[r]) - (k + 1)
          BY <1>4 DEF At
        <5>2. command' = command /\ heads' = heads
          BY <1>1
        <5> QED BY <1>4, <5>1, <5>2
      <4> HIDE DEF size
      <4>4. Len(plan'[r]) \in 0..32
        BY <4>2, <4>3
      <4> QED BY <1>1, <3>1, <3>2, <4>4
    <3>3. CASE q # r
      BY <1>1, <1>5, <3>1, <3>3 DEF MigrationInv, TypeOK
    <3> QED BY <3>2, <3>3
  <2> QED BY <1>1, <1>3, <2>1 DEF MigrationInv, TypeOK
<1>8. SchemaInv'
  BY <1>1 DEF MigrationInv, SchemaInv, VersionTellsSchema, Deployed
<1>9. EnsureInv'
  <2>1. Next
    BY DEF Next, Step
  <2> QED BY <2>1, EnsureStep
<1> QED BY <1>3, <1>5, <1>6, <1>7, <1>8, <1>9 DEF MigrationInv, RunnersInv

-----------------------------------------------------------------------------
(* A command begins, ends or is committed *)

LEMMA BeginStep ==
    ASSUME MigrationInv, NEW r \in Runners, NEW c \in Commands,
           begin_transaction(r, c)
    PROVE  MigrationInv'
<1>1. /\ pc[r] # "running"
      /\ pc' = [pc EXCEPT ![r] = "running"]
      /\ command' = [command EXCEPT ![r] = c]
      /\ heads' = [heads EXCEPT ![r] = version]
      /\ plan' = [plan EXCEPT ![r] = steps(c, version)]
      /\ ensure' = [ensure EXCEPT ![r] = IF ensured THEN "there" ELSE "due"]
      /\ UNCHANGED <<tables, version, ensured, overlay, row, undone>>
  BY DEF begin_transaction
<1>2. /\ TypeOK /\ RunnersInv /\ SchemaInv
      /\ overlay \in [Runners -> Overlays]
      /\ plan \in [Runners -> Seq(Operations)]
  BY DEF MigrationInv
<1>3. version \in Versions
  BY <1>2 DEF TypeOK, Versions
<1> DEFINE s == steps(c, version)
           size == Size(c, version)
<1>4. /\ s \in Seq(Operations) /\ Len(s) = size /\ size \in 0..32
      /\ \A i \in 1..size : s[i] = Operation(c, version, i)
  BY <1>3, Planned
<1> HIDE DEF s, size
<1>5. /\ plan' \in [Runners -> Seq(Operations)]
      /\ plan'[r] = s
      /\ \A q \in Runners \ {r} : plan'[q] = plan[q]
  BY <1>1, <1>2, <1>4 DEF s
<1>6. /\ command'[r] = c /\ heads'[r] = version /\ pc'[r] = "running"
      /\ \A q \in Runners \ {r} : /\ command'[q] = command[q]
                                  /\ heads'[q] = heads[q]
                                  /\ pc'[q] = pc[q]
  BY <1>1, <1>2 DEF TypeOK
<1>7. DOMAIN overlay[r] = {} /\ row[r] = "unset"
  BY <1>1, <1>2 DEF TypeOK
<1>8. At(r, 0)'
  <2>1. /\ Len(plan'[r]) = size - 0
        /\ \A i \in 1..Len(plan'[r]) :
               plan'[r][i] = Operation(c, version, 0 + i)
    <3>1. \A i \in 1..size : 0 + i = i
      BY <1>4
    <3> QED BY <1>4, <1>5, <3>1
  <2>2. /\ \A n \in 1..10 : Made(c, version, 0, n) = "nothing"
        /\ Stamped(c, version, 0) = "unset"
    BY <1>3, Untouched
  <2> QED BY <1>1, <1>6, <1>7, <2>1, <2>2 DEF At, size
<1>9. ASSUME NEW q \in Runners, pc'[q] = "running"
      PROVE  \E j \in 0..Size(command'[q], heads'[q]) : At(q, j)'
  <2>1. CASE q = r
    BY <1>4, <1>6, <1>8, <2>1 DEF size
  <2>2. CASE q # r
    <3>1. PICK j \in 0..Size(command[q], heads[q]) : At(q, j)
      BY <1>2, <1>6, <1>9, <2>2 DEF RunnersInv
    <3>2. At(q, j)'
      BY <1>1, <1>5, <1>6, <2>2, <3>1, OthersAt
    <3> QED BY <1>6, <2>2, <3>2
  <2> QED BY <2>1, <2>2
<1>10. ASSUME NEW q \in Runners PROVE Locked(q)'
  <2>1. Locked(q)
    BY <1>2 DEF RunnersInv
  <2>2. CASE q = r
    BY <1>1, <1>7, <2>2 DEF Locked
  <2>3. CASE q # r
    BY <1>1, <1>6, <2>1, <2>3 DEF Locked
  <2> QED BY <2>2, <2>3
<1>11. TypeOK'
  <2>1. ASSUME NEW q \in Runners
        PROVE  /\ DOMAIN overlay'[q] \subseteq TableNames
               /\ Len(plan'[q]) \in 0..32
               /\ pc'[q] # "running" =>
                      DOMAIN overlay'[q] = {} /\ row'[q] = "unset"
    <3>1. CASE q = r
      BY <1>1, <1>4, <1>5, <1>6, <1>7, <3>1
    <3>2. CASE q # r
      BY <1>1, <1>2, <1>5, <1>6, <3>2 DEF TypeOK
    <3> QED BY <3>1, <3>2
  <2>2. /\ pc' \in [Runners -> {"idle", "running", "done", "failed", "killed"}]
        /\ command' \in [Runners -> Commands]
        /\ heads' \in [Runners -> Revisions \cup {Base}]
        /\ ensure' \in [Runners -> {"there", "due", "created"}]
    BY <1>1, <1>2, <1>3 DEF TypeOK, Versions
  <2> QED BY <1>1, <1>2, <2>1, <2>2 DEF TypeOK
<1>12. SchemaInv'
  BY <1>1, <1>2 DEF SchemaInv, VersionTellsSchema, Deployed
<1>13. EnsureInv'
  <2>1. Next
    BY DEF Next
  <2> QED BY <2>1, EnsureStep
<1> QED BY <1>1, <1>2, <1>5, <1>9, <1>10, <1>11, <1>12, <1>13
        DEF MigrationInv, RunnersInv

\* The end of a transaction releases what it has locked; what others have
\* locked is as they found it.
LEMMA EndStep ==
    ASSUME MigrationInv, NEW r \in Runners,
           NEW outcome \in {"done", "failed", "killed"}, End(r, outcome),
           tables' \in [TableNames -> Revisions \cup {Absent}],
           version' \in Versions, undone' \in BOOLEAN,
           ensured' \in BOOLEAN, EnsureInv',
           \A q \in Runners \ {r} :
               /\ row[q] # "unset" => version' = version
               /\ DOMAIN overlay[q] # {} => tables' = tables,
           SchemaInv'
    PROVE  MigrationInv'
<1>1. /\ pc' = [pc EXCEPT ![r] = outcome]
      /\ plan' = [plan EXCEPT ![r] = <<>>]
      /\ overlay' = [overlay EXCEPT ![r] = <<>>]
      /\ row' = [row EXCEPT ![r] = "unset"]
      /\ ensure' = [ensure EXCEPT ![r] = "there"]
      /\ UNCHANGED <<command, heads>>
  BY DEF End
<1>2. /\ TypeOK /\ RunnersInv
      /\ overlay \in [Runners -> Overlays]
      /\ plan \in [Runners -> Seq(Operations)]
      /\ pc \in [Runners -> {"idle", "running", "done", "failed", "killed"}]
      /\ row \in [Runners -> Revisions \cup {Base, "unset"}]
  BY DEF MigrationInv, TypeOK
<1>3. /\ overlay' \in [Runners -> Overlays] /\ DOMAIN overlay'[r] = {}
      /\ \A q \in Runners \ {r} : overlay'[q] = overlay[q]
  BY <1>1, <1>2, OverlayShape
<1>4. /\ plan' \in [Runners -> Seq(Operations)] /\ plan'[r] = <<>>
      /\ \A q \in Runners \ {r} : plan'[q] = plan[q]
  <2>1. <<>> \in Seq(Operations)
    OBVIOUS
  <2> QED BY <1>1, <1>2, <2>1
<1>5. /\ pc' \in [Runners -> {"idle", "running", "done", "failed", "killed"}]
      /\ row' \in [Runners -> Revisions \cup {Base, "unset"}]
      /\ pc'[r] # "running" /\ row'[r] = "unset"
      /\ \A q \in Runners \ {r} : pc'[q] = pc[q] /\ row'[q] = row[q]
  BY <1>1, <1>2
<1>6. ASSUME NEW q \in Runners, pc'[q] = "running"
      PROVE  \E j \in 0..Size(command'[q], heads'[q]) : At(q, j)'
  <2>1. q # r
    BY <1>5, <1>6
  <2>2. PICK j \in 0..Size(command[q], heads[q]) : At(q, j)
    BY <1>2, <1>5, <1>6, <2>1 DEF RunnersInv
  <2>3. At(q, j)'
    BY <1>1, <1>3, <1>4, <1>5, <2>1, <2>2, OthersAt
  <2> QED BY <1>1, <2>3
<1>7. ASSUME NEW q \in Runners PROVE Locked(q)'
  <2>1. Locked(q)
    BY <1>2 DEF RunnersInv
  <2>2. CASE q = r
    BY <1>3, <1>5, <2>2 DEF Locked
  <2>3. CASE q # r
    <3>1. row'[q] # "unset" => version' = heads'[q]
      BY <1>1, <1>5, <2>1, <2>3 DEF Locked
    <3>2. DOMAIN overlay'[q] # {} =>
              IF heads'[q] = Base THEN tables'["tenants"] = Absent
              ELSE tables'["audit_events"] # Absent
      BY <1>1, <1>3, <2>1, <2>3 DEF Locked
    <3>3. ASSUME NEW p \in Runners \ {q}
          PROVE  /\ DOMAIN overlay'[p] \cap DOMAIN overlay'[q] = {}
                 /\ row'[p] = "unset" \/ row'[q] = "unset"
      BY <1>3, <1>5, <2>1, <2>3 DEF Locked
    <3> QED BY <3>1, <3>2, <3>3 DEF Locked
  <2> QED BY <2>2, <2>3
<1>8. TypeOK'
  <2>1. ASSUME NEW q \in Runners
        PROVE  /\ DOMAIN overlay'[q] \subseteq TableNames
               /\ Len(plan'[q]) \in 0..32
               /\ pc'[q] # "running" =>
                      DOMAIN overlay'[q] = {} /\ row'[q] = "unset"
    <3>1. CASE q = r
      BY <1>3, <1>4, <1>5, <3>1
    <3>2. CASE q # r
      BY <1>2, <1>3, <1>4, <1>5, <3>2 DEF TypeOK
    <3> QED BY <3>1, <3>2
  <2>2. ensure' \in [Runners -> {"there", "due", "created"}]
    BY <1>1, <1>2 DEF TypeOK
  <2> QED BY <1>1, <1>2, <1>5, <2>1, <2>2 DEF TypeOK, Versions
<1> QED BY <1>3, <1>4, <1>6, <1>7, <1>8 DEF MigrationInv, RunnersInv

\* A command that has run all its operations has changed every table.
LEMMA Complete ==
    ASSUME NEW c \in Commands, NEW v \in Versions, 0 < Size(c, v),
           ~Hopeless(c, v)
    PROVE  /\ c = "upgrade head" =>
                  /\ v \in {Base, "r0001"}
                  /\ \A n \in 1..10 : Made(c, v, Size(c, v), n) = "r0002"
                  /\ Stamped(c, v, Size(c, v)) = "r0002"
           /\ c # "upgrade head" =>
                  /\ v \in Revisions
                  /\ \A n \in 1..10 : Made(c, v, Size(c, v), n) = Absent
                  /\ Stamped(c, v, Size(c, v)) =
                         IF v = "r0001" THEN Base ELSE "r0001"
<1>1. /\ Base # "r0001" /\ Base # "r0002" /\ v \in {Base, "r0001", "r0002"}
      /\ c \in {"upgrade head", "downgrade -1", "downgrade base"}
      /\ Revisions = {"r0001", "r0002"}
  BY DEF Base, Versions, Revisions, Commands
<1>2. ASSUME c = "upgrade head"
      PROVE  /\ v \in {Base, "r0001"}
             /\ \A n \in 1..10 : Made(c, v, Size(c, v), n) = "r0002"
             /\ Stamped(c, v, Size(c, v)) = "r0002"
  <2>1. CASE v = Base
    <3>1. Size(c, v) = 32
      BY <1>2, <2>1 DEF Size
    <3>2. \A n \in 1..10 : 32 >= 21 + n => Made(c, v, 32, n) = "r0002"
      BY <1>2, <2>1 DEF Made
    <3>3. \A i \in Nat : i >= 32 => Stamped(c, v, i) = "r0002"
      BY <1>2, <2>1 DEF Stamped
    <3> QED BY <2>1, <3>1, <3>2, <3>3
  <2>2. CASE v = "r0001"
    <3>1. Size(c, v) = 21
      BY <1>1, <1>2, <2>2 DEF Size
    <3>2. \A n \in 1..10 : 21 >= 10 + n => Made(c, v, 21, n) = "r0002"
      BY <1>1, <1>2, <2>2 DEF Made
    <3>3. \A i \in Nat : i >= 21 => Stamped(c, v, i) = "r0002"
      BY <1>1, <1>2, <2>2 DEF Stamped
    <3> QED BY <2>2, <3>1, <3>2, <3>3
  <2>3. ASSUME v = "r0002" PROVE FALSE
    <3>1. Size(c, v) = 0
      BY <1>1, <1>2, <2>3 DEF Size
    <3> QED BY <3>1
  <2> QED BY <1>1, <2>1, <2>2, <2>3
<1>3. ASSUME c # "upgrade head"
      PROVE  /\ v \in Revisions
             /\ \A n \in 1..10 : Made(c, v, Size(c, v), n) = Absent
             /\ Stamped(c, v, Size(c, v)) =
                    IF v = "r0001" THEN Base ELSE "r0001"
  <2>1. v # Base
    <3>1. ASSUME v = Base PROVE FALSE
      <4>1. Size(c, v) = 0
        BY <1>3, <3>1 DEF Size
      <4> QED BY <4>1
    <3> QED BY <3>1
  <2>2. Size(c, v) = 11
    BY <1>1, <1>3, <2>1 DEF Size, Hopeless
  <2>3. \A n \in 1..10 : Made(c, v, 11, n) = Absent
    <3>1. \A n \in 1..10 : 11 >= 11 - n => Made(c, v, 11, n) = Absent
      BY <1>3 DEF Made
    <3> QED BY <3>1
  <2>4. Stamped(c, v, 11) = IF v = "r0001" THEN Base ELSE "r0001"
    <3> DEFINE to == IF v = "r0001" THEN Base ELSE "r0001"
    <3>1. \A i \in 0..11 : Stamped(c, v, i) = IF i < 11 THEN "unset" ELSE to
      BY <1>3 DEF Stamped
    <3> HIDE DEF to
    <3>2. Stamped(c, v, 11) = to
      BY <3>1
    <3> QED BY <3>2 DEF to
  <2>5. v \in Revisions
    BY <1>1, <2>1
  <2> QED BY <2>2, <2>3, <2>4, <2>5, Zenon
<1> QED BY <1>2, <1>3

LEMMA CommitStep ==
    ASSUME MigrationInv, NEW r \in Runners, commit(r)
    PROVE  MigrationInv'
<1>1. /\ pc[r] = "running" /\ plan[r] = <<>>
      /\ tables' = [t \in TableNames |-> Seen(r, t)]
      /\ version' = SeenVersion(r)
      /\ ensured' = (ensured \/ ensure[r] = "created")
      /\ undone' = (undone \/ (heads[r] = "r0002" /\ row[r] # "unset"))
      /\ ensure[r] # "due" /\ End(r, "done")
  BY DEF commit
<1>2. /\ TypeOK /\ RunnersInv /\ SchemaInv
      /\ overlay \in [Runners -> Overlays]
      /\ \A q \in Runners : Locked(q)
      /\ tables \in [TableNames -> Revisions \cup {Absent}]
      /\ version \in Versions /\ undone \in BOOLEAN
  BY DEF MigrationInv, RunnersInv, TypeOK, Versions
<1>3. PICK k \in 0..Size(command[r], heads[r]) : At(r, k)
  BY <1>1, <1>2 DEF RunnersInv
<1> DEFINE c == command[r]
           v == heads[r]
<1>4. /\ c \in Commands /\ v \in Versions
      /\ Size(c, v) \in 0..32 /\ k = Size(c, v)
      /\ \A n \in 1..10 :
             Seen(r, order[n]) = IF Made(c, v, k, n) = "nothing"
                                 THEN tables[order[n]] ELSE Made(c, v, k, n)
  BY <1>1, <1>3, Progress
<1>5. row[r] = Stamped(c, v, k)
  BY <1>3 DEF At
<1>0. ensured' = TRUE /\ EnsureInv'
  <2>1. /\ EnsureInv /\ ensured \in BOOLEAN
        /\ ensure \in [Runners -> {"there", "due", "created"}]
    BY DEF MigrationInv, TypeOK
  <2>2. ensure[r] \in {"there", "created"}
    BY <1>1, <2>1
  <2>3. ensured' = TRUE
    BY <1>1, <2>1, <2>2 DEF EnsureInv
  <2>4. Next
    BY DEF Next, Step
  <2> QED BY <2>3, <2>4, EnsureStep
<1>6. CASE Size(c, v) = 0
  <2>1. row[r] = "unset" /\ \A n \in 1..10 : Made(c, v, k, n) = "nothing"
    BY <1>4, <1>5, <1>6, Untouched
  <2>2. \A t \in TableNames : Seen(r, t) = tables[t]
    BY <1>4, <2>1, Ordered
  <2>3. tables' = tables
    BY <1>1, <1>2, <2>2
  <2>4. version' = version /\ undone' = undone
    BY <1>1, <1>2, <2>1 DEF SeenVersion
  <2>5. SchemaInv'
    BY <1>0, <1>2, <2>3, <2>4 DEF SchemaInv, VersionTellsSchema, Deployed
  <2> QED BY <1>0, <1>1, <1>2, <2>3, <2>4, <2>5, EndStep
<1>7. CASE Size(c, v) # 0
  <2>1. 0 < Size(c, v)
    BY <1>4, <1>7
  <2>2. ~Hopeless(c, v)
    <3>1. ASSUME Hopeless(c, v) PROVE FALSE
      <4>1. Size(c, v) = 22
        BY <3>1 DEF Size, Hopeless, Base
      <4>2. k <= 11
        BY <1>3, <3>1 DEF At
      <4> QED BY <1>4, <4>1, <4>2
    <3> QED BY <3>1
  <2> DEFINE to == IF c = "upgrade head" THEN "r0002" ELSE Absent
             new == IF c = "upgrade head" THEN "r0002"
                    ELSE IF v = "r0001" THEN Base ELSE "r0001"
  <2>3. /\ \A n \in 1..10 : Made(c, v, k, n) = to
        /\ Stamped(c, v, k) = new
        /\ c = "upgrade head" => v \in {Base, "r0001"}
        /\ c # "upgrade head" => v \in Revisions
    <3>1. c \in Commands /\ v \in Versions /\ k = Size(c, v)
      BY <1>4
    <3> HIDE DEF c, v
    <3>2. /\ c = "upgrade head" =>
                 /\ v \in {Base, "r0001"}
                 /\ \A n \in 1..10 : Made(c, v, Size(c, v), n) = "r0002"
                 /\ Stamped(c, v, Size(c, v)) = "r0002"
          /\ c # "upgrade head" =>
                 /\ v \in Revisions
                 /\ \A n \in 1..10 : Made(c, v, Size(c, v), n) = Absent
                 /\ Stamped(c, v, Size(c, v)) =
                        IF v = "r0001" THEN Base ELSE "r0001"
      BY <2>1, <2>2, <3>1, Complete, Zenon
    <3>3. CASE c = "upgrade head"
      BY <3>1, <3>2, <3>3
    <3>4. CASE c # "upgrade head"
      BY <3>1, <3>2, <3>4
    <3> QED BY <3>3, <3>4
  <2>4. to # "nothing" /\ to \in Revisions \cup {Absent}
        /\ new # "unset" /\ new \in Versions
    BY DEF Revisions, Absent, Base, Versions
  <2>5. tables' = [t \in TableNames |-> to]
    <3>1. \A t \in TableNames : Seen(r, t) = to
      BY <1>4, <2>3, <2>4, Ordered
    <3> QED BY <1>1, <3>1
  <2>6. row[r] # "unset" /\ version' = new /\ version = v
    BY <1>1, <1>2, <1>5, <2>3, <2>4 DEF SeenVersion, Locked
  <2>7. DOMAIN overlay[r] = TableNames
    <3>1. \A n \in 1..10 : order[n] \in DOMAIN overlay[r]
      BY <1>3, <2>3, <2>4 DEF At
    <3> QED BY <1>2, <3>1, Ordered, OverlayShape
  <2>8. ASSUME NEW q \in Runners \ {r}
        PROVE  row[q] = "unset" /\ DOMAIN overlay[q] = {}
    <3>1. row[q] = "unset" /\ DOMAIN overlay[q] \cap DOMAIN overlay[r] = {}
      BY <1>2, <2>6 DEF Locked
    <3>2. DOMAIN overlay[q] \subseteq TableNames
      BY <1>2, OverlayShape
    <3> QED BY <2>7, <3>1, <3>2
  <2>9. IF v = Base THEN tables["tenants"] = Absent
        ELSE tables["audit_events"] # Absent
    <3>1. "tenants" \in TableNames
      BY DEF TableNames
    <3> QED BY <1>2, <2>7, <3>1 DEF Locked
  <2>10. ~undone
    <3>1. ASSUME undone PROVE FALSE
      <4>1. v = "r0001" /\ tables = [t \in TableNames |-> Absent]
        BY <1>2, <2>6, <3>1 DEF SchemaInv, VersionTellsSchema, Deployed
      <4>2. "audit_events" \in TableNames /\ Base # "r0001"
        BY DEF TableNames, Base
      <4> QED BY <2>9, <4>1, <4>2
    <3> QED BY <3>1
  <2>11. undone' = (v = "r0002")
    BY <1>1, <2>6, <2>10
  <2>12. SchemaInv'
    <3>1. CASE c = "upgrade head"
      <4>1. version' = "r0002" /\ tables' = [t \in TableNames |-> "r0002"]
        BY <2>5, <2>6, <3>1
      <4>2. undone' = FALSE
        BY <2>3, <2>11, <3>1 DEF Base
      <4> QED BY <1>0, <4>1, <4>2
              DEF SchemaInv, VersionTellsSchema, Deployed, Base
    <3>2. CASE c # "upgrade head" /\ v = "r0001"
      <4>1. version' = Base /\ tables' = [t \in TableNames |-> Absent]
        BY <2>5, <2>6, <3>2
      <4>2. undone' = FALSE
        BY <2>11, <3>2
      <4> QED BY <1>0, <4>1, <4>2
              DEF SchemaInv, VersionTellsSchema, Deployed, Base
    <3>3. CASE c # "upgrade head" /\ v = "r0002"
      <4>1. version' = "r0001" /\ tables' = [t \in TableNames |-> Absent]
        BY <2>5, <2>6, <3>3
      <4>2. undone' = TRUE
        BY <2>11, <3>3
      <4> QED BY <1>0, <4>1, <4>2
              DEF SchemaInv, VersionTellsSchema, Deployed, Base
    <3> QED BY <2>3, <3>1, <3>2, <3>3 DEF Revisions
  <2>13. tables' \in [TableNames -> Revisions \cup {Absent}]
         /\ version' \in Versions /\ undone' \in BOOLEAN
    BY <2>4, <2>5, <2>6, <2>11
  <2> HIDE DEF c, v, to, new
  <2> QED BY <1>0, <1>1, <2>8, <2>12, <2>13, EndStep
<1> QED BY <1>6, <1>7

LEMMA MigrationStep == MigrationInv /\ [Next]_vars => MigrationInv'
<1> SUFFICES ASSUME MigrationInv, [Next]_vars PROVE MigrationInv'
  OBVIOUS
<1>1. ASSUME NEW r \in Runners,
             version_table_exists(r) \/ operation_fails(r) \/ killed(r)
      PROVE  MigrationInv'
  <2>0. EnsureInv'
    <3>1. Next
      BY <1>1 DEF Next, Step
    <3> QED BY <3>1, EnsureStep
  <2>1. /\ UNCHANGED <<tables, version, ensured, undone>>
        /\ End(r, "failed") \/ End(r, "killed")
    BY <1>1 DEF version_table_exists, operation_fails, killed
  <2>2. /\ tables \in [TableNames -> Revisions \cup {Absent}]
        /\ version \in Versions /\ undone \in BOOLEAN
        /\ ensured \in BOOLEAN
        /\ SchemaInv
    BY DEF MigrationInv, TypeOK, Versions
  <2>3. SchemaInv'
    BY <2>1, <2>2 DEF SchemaInv, VersionTellsSchema, Deployed
  <2> QED BY <2>0, <2>1, <2>2, <2>3, EndStep
<1>2. CASE UNCHANGED vars
  BY <1>2 DEF vars, runner, MigrationInv, TypeOK, RunnersInv, At, Locked,
     EnsureInv, SchemaInv, VersionTellsSchema, Deployed
<1>3. CASE Next
  <2>1. PICK r \in Runners :
            Step(r) \/ killed(r) \/ \E c \in Commands : begin_transaction(r, c)
    BY <1>3 DEF Next
  <2> QED BY <1>1, <2>1, EnsureTableStep, RunStep, CommitStep, BeginStep
          DEF Step
<1> QED BY <1>2, <1>3

LEMMA MigrationInit == Init => MigrationInv
<1> SUFFICES ASSUME Init PROVE MigrationInv
  OBVIOUS
<1>1. /\ pc = [r \in Runners |-> "idle"]
      /\ command = [r \in Runners |-> "upgrade head"]
      /\ heads = [r \in Runners |-> Base]
      /\ plan = [r \in Runners |-> <<>>]
      /\ overlay = [r \in Runners |-> <<>>]
      /\ row = [r \in Runners |-> "unset"]
      /\ ensured = (version # Base)
      /\ ensure = [r \in Runners |-> "there"]
      /\ undone = FALSE
  BY DEF Init
<1>2. <<>> \in Overlays /\ DOMAIN <<>> = {}
      /\ <<>> \in Seq(Operations) /\ Len(<<>>) \in 0..32
  BY OverlayShape
<1>3. /\ overlay \in [Runners -> Overlays]
      /\ plan \in [Runners -> Seq(Operations)]
  BY <1>1, <1>2
<1>4. /\ tables \in [TableNames -> Revisions \cup {Absent}]
      /\ version \in Revisions \cup {Base}
      /\ SchemaInv
  BY DEF Init, Revisions, Absent, Base, SchemaInv, VersionTellsSchema,
     Deployed
<1>5. TypeOK
  BY <1>1, <1>2, <1>4 DEF TypeOK, Commands
<1>6. RunnersInv
  BY <1>1, <1>2 DEF RunnersInv, Locked
<1>7. EnsureInv
  BY <1>1 DEF EnsureInv
<1> QED BY <1>3, <1>4, <1>5, <1>6, <1>7 DEF MigrationInv

LEMMA MigrationsInvariant == Spec => []MigrationInv
<1>1. Init => MigrationInv
  BY MigrationInit
<1>2. MigrationInv /\ [Next]_vars => MigrationInv'
  BY MigrationStep
<1> QED BY <1>1, <1>2, PTL DEF Spec

-----------------------------------------------------------------------------
(* Nobody waits in a circle *)

\* A command that holds anything holds the first table of its plan, which is
\* committed as the version that the command has read tells.
LEMMA HasFirstTable ==
    ASSUME MigrationInv, NEW r \in Runners,
           DOMAIN overlay[r] # {} \/ row[r] # "unset"
    PROVE  IF heads[r] = Base
           THEN "tenants" \in DOMAIN overlay[r] /\ tables["tenants"] = Absent
           ELSE /\ "audit_events" \in DOMAIN overlay[r]
                /\ tables["audit_events"] # Absent
<1> DEFINE c == command[r]
           v == heads[r]
<1>1. pc[r] = "running" /\ c \in Commands /\ v \in Versions
      /\ DOMAIN overlay[r] \subseteq TableNames
  BY DEF MigrationInv, TypeOK, Versions
<1>2. PICK k \in 0..Size(c, v) : At(r, k)
  BY <1>1 DEF MigrationInv, RunnersInv
<1>3. /\ \A n \in 1..10 :
             order[n] \in DOMAIN overlay[r] <=> Made(c, v, k, n) # "nothing"
      /\ row[r] = Stamped(c, v, k)
  BY <1>2 DEF At
<1>4. k # 0
  <2> SUFFICES ASSUME k = 0 PROVE FALSE
    OBVIOUS
  <2>1. \A n \in 1..10 : order[n] \notin DOMAIN overlay[r]
    BY <1>1, <1>3, Untouched
  <2>2. DOMAIN overlay[r] = {}
    BY <1>1, <2>1, Ordered
  <2>3. row[r] = "unset"
    BY <1>1, <1>3, Untouched
  <2> QED BY <2>2, <2>3
<1>5. k \in 1..Size(c, v)
  <2>1. Size(c, v) \in 0..32
    BY <1>1, <1>2, Progress
  <2> QED BY <1>4, <2>1
<1>6. /\ v = Base => order[1] \in DOMAIN overlay[r]
      /\ v # Base => order[10] \in DOMAIN overlay[r]
  BY <1>1, <1>3, <1>5, FirstTable
<1>7. order[1] = "tenants" /\ order[10] = "audit_events"
  BY DEF order
<1>8. Locked(r)
  BY DEF MigrationInv, RunnersInv
<1> QED BY <1>6, <1>7, <1>8 DEF Locked

\* And so no two commands hold anything.
LEMMA OneHolder ==
    ASSUME MigrationInv, NEW r \in Runners, NEW q \in Runners,
           DOMAIN overlay[r] # {} \/ row[r] # "unset",
           DOMAIN overlay[q] # {} \/ row[q] # "unset"
    PROVE  r = q
<1>1. tables["tenants"] = Absent <=> tables["audit_events"] = Absent
  BY DEF MigrationInv, TypeOK, SchemaInv, VersionTellsSchema, Deployed,
     TableNames, Revisions, Base
<1>2. heads[r] = Base <=> heads[q] = Base
  BY <1>1, HasFirstTable
<1>3. DOMAIN overlay[r] \cap DOMAIN overlay[q] # {}
  BY <1>2, HasFirstTable
<1>4. Locked(q)
  BY DEF MigrationInv, RunnersInv
<1> QED BY <1>3, <1>4 DEF Locked

-----------------------------------------------------------------------------
(* A command that nothing has overtaken does not fail *)

\* Its next operation finds the tables as the revisions define them.
LEMMA Able ==
    ASSUME MigrationInv, NEW r \in Runners, pc[r] = "running",
           plan[r] # <<>>, version = heads[r], ~undone,
           ~Hopeless(command[r], heads[r])
    PROVE  Succeeds(r)
<1> DEFINE c == command[r]
           v == heads[r]
           o == Head(plan[r])
<1>1. PICK k \in 0..Size(c, v) : At(r, k)
  BY DEF MigrationInv, RunnersInv
<1>2. /\ c \in Commands /\ v \in Versions
      /\ \A n \in 1..10 :
             Seen(r, order[n]) = IF Made(c, v, k, n) = "nothing"
                                 THEN tables[order[n]] ELSE Made(c, v, k, n)
  BY <1>1, Progress
<1>3. NextIs(c, v, k, o)
  BY <1>1, NextOperation
<1>4. tables = [t \in TableNames |-> IF v = Base THEN Absent ELSE v]
  BY <1>2 DEF MigrationInv, SchemaInv, VersionTellsSchema, Deployed, Versions,
     Revisions, Base
<1>5. \A n \in 1..10 : Seen(r, order[n]) = Sees(c, v, k, n)
  BY <1>2, <1>4, Ordered DEF Sees
<1>6. CASE StampIsNext(c, v, k, o)
  <2>1. o.op = "stamp" /\ o.from = SeesVersion(c, v, k)
    BY <1>6 DEF StampIsNext, stamp
  <2>2. SeenVersion(r) = SeesVersion(c, v, k)
    BY <1>1 DEF At, SeenVersion, SeesVersion
  <2> HIDE DEF c, v
  <2> QED BY <2>1, <2>2 DEF Succeeds
<1>7. ASSUME NEW m \in 1..10, DropIsNext(c, v, k, o, m)
      PROVE  Succeeds(r)
  <2>1. o.op = "drop" /\ o.table = order[m]
    BY <1>7 DEF DropIsNext, drop
  <2>2. Seen(r, o.table) # Absent
    <3>1. Sees(c, v, k, m) \in Revisions
      BY <1>7 DEF DropIsNext
    <3> QED BY <1>5, <2>1, <3>1 DEF Revisions, Absent
  <2>3. ASSUME NEW t \in TableNames \ {o.table}, Seen(r, t) # Absent
        PROVE  o.table \notin Definition[Seen(r, t)][t].references
    <3>1. PICK n \in 1..10 : t = order[n]
      BY Ordered
    <3>2. Sees(c, v, k, n) # Absent /\ Seen(r, t) = Sees(c, v, k, n)
      BY <1>5, <2>3, <3>1
    <3>3. n # m
      BY <2>1, <3>1
    <3>4. n < m
      <4>1. ~(n > m)
        BY <1>7, <3>2, Zenon DEF DropIsNext
      <4> QED BY <3>3, <4>1
    <3>5. Sees(c, v, k, n) \in Revisions
      BY <1>7, <3>4 DEF DropIsNext
    <3> HIDE DEF c, v, o
    <3> DEFINE revision == Seen(r, t)
    <3>6. revision \in Revisions
      BY <3>2, <3>5
    <3> HIDE DEF revision
    <3>7. order[m] \in Definition[revision][order[n]].references => m < n
      BY <3>6, Referred
    <3>8. ~(m < n)
      BY <3>4
    <3>9. order[m] \notin Definition[revision][order[n]].references
      BY <3>7, <3>8, Zenon
    <3> QED BY <2>1, <3>1, <3>9 DEF revision
  <2> QED BY <2>1, <2>2, <2>3 DEF Succeeds
<1>8. ASSUME NEW m \in 1..10, CreateIsNext(c, v, k, o, m)
      PROVE  Succeeds(r)
  <2>1. PICK revision \in Revisions : o = create(order[m], revision)
    BY <1>8 DEF CreateIsNext
  <2>2. o.op = "create" /\ o.table = order[m] /\ o.to = revision
    BY <2>1 DEF create
  <2>3. Seen(r, o.table) = Absent
    BY <1>5, <1>8, <2>2 DEF CreateIsNext
  <2>4. ASSUME NEW t \in Definition[revision][order[m]].references
        PROVE  Seen(r, t) # Absent
    <3>1. t \in TableNames
          /\ \A n \in 1..10 :
                 order[n] \in Definition[revision][order[m]].references
                     => n < m
      BY Referred
    <3>2. PICK n \in 1..10 : t = order[n]
      BY <3>1, Ordered
    <3>3. n < m
      BY <3>1, <3>2
    <3>4. Sees(c, v, k, n) \in Revisions
      BY <1>8, <3>3 DEF CreateIsNext
    <3> QED BY <1>5, <3>2, <3>4 DEF Revisions, Absent
  <2> HIDE DEF c, v, o
  <2>5. \A t \in Definition[o.to][o.table].references : Seen(r, t) # Absent
    BY <2>2, <2>4
  <2> QED BY <2>2, <2>3, <2>5 DEF Succeeds, o
<1> QED BY <1>3, <1>6, <1>7, <1>8 DEF NextIs

-----------------------------------------------------------------------------
(* The statements of the program against the tables of 0002 *)

\* Revision 0002 has the columns that the ORM models and the statements use,
\* and asks no row for more.
LEMMA ServedAt0002 ==
    ASSUME NEW s \in Statements \ Unserved
    PROVE  /\ Builds(s)
           /\ s.table \in TableNames
           /\ Accepts(Definition["r0002"][s.table], s)
<1>1. CASE s \in {save_document, document_to_entity}
  BY <1>1 DEF save_document, document_to_entity, Insert, Query, Builds,
     Accepts, Orm, Definition, Table, Model, TableNames, edo_documents_0002,
     EdoDocumentModel, UUIDPKMixin
<1>2. CASE s \in {save_delivery, delivery_to_entity, update_delivery}
  BY <1>2 DEF save_delivery, delivery_to_entity, update_delivery, Insert,
     Query, Builds, Accepts, Orm, Definition, Table, Model, TableNames,
     document_deliveries_0002, DocumentDeliveryModel, UUIDPKMixin,
     TimestampMixin
<1>3. CASE s \in {save_account, provider_to_entity, update_account}
  BY <1>3 DEF save_account, provider_to_entity, update_account, Insert, Query,
     Builds, Accepts, Orm, Definition, Table, Model, TableNames,
     provider_accounts_0002, ProviderAccountModel, UUIDPKMixin, TimestampMixin
<1>4. CASE s \in {save_dlq, dlq_to_entity, update_dlq, write_dlq}
  BY <1>4 DEF save_dlq, dlq_to_entity, update_dlq, write_dlq, Insert, Query,
     Builds, Accepts, Orm, Definition, Table, Model, TableNames,
     dlq_entries_0002, DLQEntryModel, UUIDPKMixin
<1>5. CASE s \in {save_audit, audit_to_entity}
  BY <1>5 DEF save_audit, audit_to_entity, Insert, Query, Builds, Accepts,
     Orm, Definition, Table, Model, TableNames, audit_events_0002,
     AuditEventModel, UUIDPKMixin
<1>6. CASE s = seed_tenant
  BY <1>6 DEF seed_tenant, Insert, Builds, Accepts, Orm, Definition, Table,
     Model, TableNames, tenants_0002, TenantModel, UUIDPKMixin
<1>7. CASE s \in {seed_user, login_user}
  BY <1>7 DEF seed_user, login_user, Insert, Query, Builds, Accepts, Orm,
     Definition, Table, Model, TableNames, api_users_0002, ApiUserModel,
     UUIDPKMixin, TimestampMixin
<1> QED BY <1>1, <1>2, <1>3, <1>4, <1>5, <1>6, <1>7 DEF Statements, Unserved

\* An attribute that the model has not: document_date, credentials, raw_payload,
\* status, is_healthy.
LEMMA UnservedRaise ==
    ASSUME NEW s \in Unserved
    PROVE  ~Builds(s)
<1>1. CASE s \in {list_incoming, incoming_row}
  <2>1. "document_date" \in s.uses /\ s.table = "incoming_documents"
    BY <1>1 DEF list_incoming, incoming_row, Query, Insert
  <2>2. "document_date" \notin Orm["incoming_documents"].columns
    BY DEF Orm, IncomingDocumentModel, Model, UUIDPKMixin
  <2> QED BY <2>1, <2>2 DEF Builds
<1>2. CASE s = connected_account
  <2>1. "credentials" \in s.uses /\ s.table = "provider_accounts"
    BY <1>2 DEF connected_account, Query
  <2>2. "credentials" \notin Orm["provider_accounts"].columns
    BY DEF Orm, ProviderAccountModel, Model, UUIDPKMixin, TimestampMixin
  <2> QED BY <2>1, <2>2 DEF Builds
<1>3. CASE s = webhook_row
  <2>1. "raw_payload" \in s.uses /\ s.table = "webhook_events"
    BY <1>3 DEF webhook_row, Insert
  <2>2. "raw_payload" \notin Orm["webhook_events"].columns
    BY DEF Orm, WebhookEventModel, Model, UUIDPKMixin
  <2> QED BY <2>1, <2>2 DEF Builds
<1>4. CASE s = synced_delivery
  <2>1. "status" \in s.uses /\ s.table = "document_deliveries"
    BY <1>4 DEF synced_delivery, Query
  <2>2. "status" \notin Orm["document_deliveries"].columns
    BY DEF Orm, DocumentDeliveryModel, Model, UUIDPKMixin, TimestampMixin
  <2> QED BY <2>1, <2>2 DEF Builds
<1>5. CASE s = health_snapshot
  <2>1. "is_healthy" \in s.uses /\ s.table = "provider_health_snapshots"
    BY <1>5 DEF health_snapshot, Insert
  <2>2. "is_healthy" \notin Orm["provider_health_snapshots"].columns
    BY DEF Orm, ProviderHealthSnapshotModel, Model, UUIDPKMixin
  <2> QED BY <2>1, <2>2 DEF Builds
<1> QED BY <1>1, <1>2, <1>3, <1>4, <1>5 DEF Unserved

-----------------------------------------------------------------------------
(* Theorems *)

\* Every variable of Migrations keeps its type, no plan is longer than the 32
\* operations of an upgrade from base, and a command that has ended has neither
\* tables nor a version row of its own.
THEOREM TypeCorrect == Spec => []TypeOK
<1>1. MigrationInv => TypeOK
  BY DEF MigrationInv
<1> QED BY <1>1, MigrationsInvariant, PTL

\* The committed version row tells the committed tables (env.py's transaction
\* per command, 0001 and 0002), however many commands overlap, fail half-way
\* or are killed; only the downgrade of 0002 leaves a version without tables.
THEOREM RowTellsTables == Spec => []VersionTellsSchema
<1>1. MigrationInv => VersionTellsSchema
  BY DEF MigrationInv, SchemaInv
<1> QED BY <1>1, MigrationsInvariant, PTL

\* A command that waits for a table, for the version row or to create
\* alembic_version holds nothing, so that those of any number of runners never
\* wait in a circle: the first table that a command of alembic locks keeps all
\* other commands out.
THEOREM WaitingIsSafe == Spec => []WaitersHoldNothing
<1>1. MigrationInv => WaitersHoldNothing
  <2> SUFFICES ASSUME MigrationInv, NEW r \in Runners, Waits(r)
               PROVE  /\ DOMAIN overlay[r] = {}
                      /\ row[r] = "unset"
                      /\ ensure[r] # "created"
    BY DEF WaitersHoldNothing
  <2>1. EnsureInv
    BY DEF MigrationInv
  <2>2. CASE ensure[r] = "due"
    BY <2>1, <2>2 DEF EnsureInv
  <2>3. CASE MustWait(r)
    <3>1. PICK q \in Runners \ {r} :
              DOMAIN overlay[q] # {} \/ row[q] # "unset"
      BY <2>3 DEF MustWait
    <3>2. DOMAIN overlay[r] = {} /\ row[r] = "unset"
      BY <3>1, OneHolder
    <3>3. /\ pc[q] = "running" /\ ensure[q] # "due"
          /\ ensure[q] \in {"there", "due", "created"}
      BY <2>1, <3>1 DEF EnsureInv, MigrationInv, TypeOK
    <3>4. ensure[r] # "created"
      BY <2>1, <3>1, <3>3 DEF EnsureInv
    <3> QED BY <3>2, <3>4
  <2> QED BY <2>2, <2>3 DEF Waits
<1> QED BY <1>1, MigrationsInvariant, PTL

\* Whenever the version is head, the statements of the program that build from
\* their models and that the committed tables accept are all but the six of
\* Unserved: GET /incoming and five of the background tasks raise instead.
THEOREM HeadServes == Spec => []HeadServesStatements
<1>1. MigrationInv => HeadServesStatements
  <2> SUFFICES ASSUME MigrationInv, version = "r0002", NEW s \in Statements
               PROVE  s \notin Unserved <=>
                          /\ Builds(s)
                          /\ tables[s.table] # Absent
                          /\ Accepts(Definition[tables[s.table]][s.table], s)
    BY DEF HeadServesStatements
  <2>1. tables = [t \in TableNames |-> "r0002"]
    BY DEF MigrationInv, SchemaInv, VersionTellsSchema, Deployed
  <2>2. CASE s \in Unserved
    BY <2>2, UnservedRaise
  <2>3. CASE s \notin Unserved
    <3>1. Builds(s) /\ s.table \in TableNames
          /\ Accepts(Definition["r0002"][s.table], s)
      BY <2>3, ServedAt0002
    <3>2. tables[s.table] = "r0002"
      BY <2>1, <3>1
    <3> QED BY <2>3, <3>1, <3>2 DEF Absent
  <2> QED BY <2>2, <2>3
<1> QED BY <1>1, MigrationsInvariant, PTL

\* An operation of a command raises only when another command has been
\* committed since this one read the version, with other tables or with the
\* alembic_version that this one creates too, when 0002 has been downgraded, or
\* when the command is the downgrade from head to base.
THEOREM FailuresExplained == Spec => FailureHasCause
<1> DEFINE Explained ==
        \A r \in Runners :
            pc[r] = "running" /\ pc'[r] = "failed" =>
                \/ version # heads[r]
                \/ ensured /\ ensure[r] = "due"
                \/ undone
                \/ command[r] = "downgrade base" /\ heads[r] = "r0002"
<1>1. MigrationInv /\ [Next]_vars => [Explained]_vars
  <2> SUFFICES ASSUME MigrationInv, Next, NEW r \in Runners,
                      pc[r] = "running", pc'[r] = "failed",
                      version = heads[r], ~undone,
                      ~(ensured /\ ensure[r] = "due"),
                      ~(command[r] = "downgrade base" /\ heads[r] = "r0002")
               PROVE  FALSE
    BY DEF vars
  <2>1. PICK q \in Runners :
            Step(q) \/ killed(q) \/ \E c \in Commands : begin_transaction(q, c)
    BY DEF Next
  <2>2. pc \in [Runners -> {"idle", "running", "done", "failed", "killed"}]
    BY DEF MigrationInv, TypeOK
  <2>3. CASE run_operation(q)
    BY <2>3 DEF run_operation
  <2>4. CASE commit(q)
    BY <2>2, <2>4 DEF commit, End
  <2>5. CASE killed(q)
    BY <2>2, <2>5 DEF killed, End
  <2>6. ASSUME NEW c \in Commands, begin_transaction(q, c) PROVE FALSE
    BY <2>2, <2>6 DEF begin_transaction
  <2>7. CASE operation_fails(q)
    <3>1. q = r
      BY <2>2, <2>7 DEF operation_fails, End
    <3>2. plan[r] # <<>> /\ ~Succeeds(r)
      BY <2>7, <3>1 DEF operation_fails
    <3>3. Succeeds(r)
      BY <3>2, Able DEF Hopeless
    <3> QED BY <3>2, <3>3
  <2>8. CASE ensure_version_table(q)
    BY <2>8 DEF ensure_version_table
  <2>9. CASE version_table_exists(q)
    <3>1. q = r
      BY <2>2, <2>9 DEF version_table_exists, End
    <3> QED BY <2>9, <3>1 DEF version_table_exists
  <2> QED BY <2>1, <2>3, <2>4, <2>5, <2>6, <2>7, <2>8, <2>9 DEF Step
<1>2. Spec => [][Explained]_vars
  BY <1>1, MigrationsInvariant, PTL DEF Spec
<1> QED BY <1>2 DEF FailureHasCause
=============================================================================
