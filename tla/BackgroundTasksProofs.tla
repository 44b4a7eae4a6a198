----------------------- MODULE BackgroundTasksProofs -----------------------
(***************************************************************************)
(* Theorems about BackgroundTasks, for every set of workers and webhooks:  *)
(* its types, that no killed worker loses a webhook the API has accepted,  *)
(* and that retries end.  These look into no task's body, so that they     *)
(* outlive the repair of the tasks that raise.  The last section does: at  *)
(* this commit the body of process_webhook raises before it records.       *)
(***************************************************************************)
EXTENDS BackgroundTasks, TLAPS, FiniteSetTheorems

\* A message of a webhook is of an accepted one, and has been preceded by as
\* many runs as it has retries behind it; a worker that has it has begun one
\* more.
RunsCounted ==
    /\ \A m \in Message :
           m.task \in Webhooks /\ queued[m] > 0 =>
               m.task \in accepted /\ runs[m.task] >= m.retries
    /\ \A w \in Workers :
           pc[w] # "idle" /\ job[w].task \in Webhooks =>
               job[w].task \in accepted /\ runs[job[w].task] > job[w].retries

\* The next attempt is queued, or one has begun and not ended.
Live(t) ==
    \/ \E m \in Message : m.task = t /\ queued[m] > 0
    \/ \E w \in Workers : pc[w] = "running" /\ job[w].task = t

\* WebhookKeptUntilSpent without the messages of the workers that have ended
\* and not acknowledged: what such a worker leaves to do is queued already.
Kept ==
    \A t \in accepted : Live(t) \/ t \in returned \/ runs[t] > max_retries(t)

LEMMA RetriesBounded ==
    /\ \A t : max_retries(t) \in Nat
    /\ \A t : max_retries(t) <= 3
BY DEF max_retries

LEMMA MessageFields ==
    \A m \in Message :
        /\ m.task \in Tasks
        /\ m.retries \in Nat
        /\ m.retries <= max_retries(m.task)
BY DEF Message

LEMMA MessageMade ==
    ASSUME NEW t \in Tasks, NEW k \in Nat, k <= max_retries(t)
    PROVE  /\ [task |-> t, retries |-> k] \in Message
           /\ [task |-> t, retries |-> k].task = t
           /\ [task |-> t, retries |-> k].retries = k
BY RetriesBounded DEF Message

\* apply_async adds one message, and takes none away.
LEMMA Published ==
    ASSUME TypeOK, NEW t \in Tasks, NEW k \in Nat, k <= max_retries(t),
           apply_async(t, k)
    PROVE  /\ queued' \in [Message -> Nat]
           /\ \A m \in Message :
                  queued'[m] = queued[m]
                      + IF m = [task |-> t, retries |-> k] THEN 1 ELSE 0
<1> DEFINE n == [task |-> t, retries |-> k]
<1>1. n \in Message
    BY MessageMade
<1>2. queued \in [Message -> Nat]
    BY DEF TypeOK
<1>3. queued' = [queued EXCEPT ![n] = @ + 1]
    BY DEF apply_async
<1> HIDE DEF n
<1>4. QED
    BY <1>1, <1>2, <1>3 DEF n

-----------------------------------------------------------------------------
(* Types *)

\* What TypeOK says of the workers and their messages.
WorkersTyped ==
    /\ pc \in [Workers -> {"idle", "running", "ended"}]
    /\ job \in [Workers -> Message \cup {Nil}]
    /\ \A w \in Workers : (pc[w] = "idle") <=> (job[w] = Nil)

LEMMA BusyHasMessage ==
    ASSUME TypeOK, NEW w \in Workers, pc[w] # "idle"
    PROVE  /\ job[w] \in Message
           /\ job[w].task \in Tasks
           /\ job[w].retries \in Nat
           /\ job[w].retries <= max_retries(job[w].task)
<1>1. job[w] \in Message
    BY DEF TypeOK
<1>2. QED
    BY <1>1, MessageFields

LEMMA ReleaseTypes ==
    ASSUME TypeOK, NEW w \in Workers, Release(w)
    PROVE  WorkersTyped'
BY DEF TypeOK, Release, WorkersTyped

LEMMA TypeStep ==
    ASSUME TypeOK, RunsCounted, [Next]_vars
    PROVE  TypeOK'
<1>1. ASSUME NEW t \in Webhooks, dispatch_webhook(t)
      PROVE  TypeOK'
    <2>1. queued' \in [Message -> Nat]
        BY <1>1, Published, RetriesBounded DEF dispatch_webhook, Tasks
    <2>2. accepted' \subseteq Webhooks /\ returned' \subseteq accepted'
        BY <1>1 DEF TypeOK, dispatch_webhook, history
    <2>3. QED
        BY <1>1, <2>1, <2>2 DEF TypeOK, dispatch_webhook, worker, history
<1>2. ASSUME NEW t \in Periodic, beat(t)
      PROVE  TypeOK'
    <2>1. queued' \in [Message -> Nat]
        BY <1>2, Published, RetriesBounded DEF beat, Tasks
    <2>2. ticks' \in 0..MaxTicks
        BY <1>2, TasksAssumption DEF TypeOK, beat
    <2>3. QED
        BY <1>2, <2>1, <2>2 DEF TypeOK, beat, worker, history
<1>3. ASSUME NEW w \in Workers, NEW m \in Message, take(w, m)
      PROVE  TypeOK'
    <2>1. queued' \in [Message -> Nat]
        BY <1>3 DEF TypeOK, take
    <2>2. WorkersTyped'
        BY <1>3, NilAssumption DEF TypeOK, take, WorkersTyped
    <2>3. runs' \in [Webhooks -> Nat]
        BY <1>3 DEF TypeOK, take
    <2>4. QED
        BY <1>3, <2>1, <2>2, <2>3 DEF TypeOK, take, WorkersTyped
<1>4. ASSUME NEW w \in Workers, task_returns(w)
      PROVE  TypeOK'
    <2>1. {job[w].task} \cap Webhooks \subseteq accepted
        BY <1>4 DEF RunsCounted, task_returns
    <2>2. {job[w].task} \cap Known \subseteq {job[w].task} \cap Webhooks
        BY TasksAssumption
    <2>3. returned' \subseteq accepted /\ recorded' \subseteq returned'
        BY <1>4, <2>1, <2>2 DEF TypeOK, task_returns
    <2>4. WorkersTyped'
        BY <1>4 DEF TypeOK, task_returns, WorkersTyped
    <2>5. QED
        BY <1>4, <2>3, <2>4 DEF TypeOK, task_returns, WorkersTyped
<1>5. ASSUME NEW w \in Workers, task_raises(w)
      PROVE  TypeOK'
    <2>1. /\ job[w].task \in Tasks
          /\ job[w].retries \in Nat
        BY <1>5, BusyHasMessage DEF task_raises
    <2>2. queued' \in [Message -> Nat]
        <3>1. CASE job[w].retries < max_retries(job[w].task)
            <4>1. job[w].retries + 1 <= max_retries(job[w].task)
                BY <2>1, <3>1, RetriesBounded
            <4>2. apply_async(job[w].task, job[w].retries + 1)
                BY <1>5, <3>1 DEF task_raises
            <4>3. QED
                BY <2>1, <4>1, <4>2, Published
        <3>2. CASE ~(job[w].retries < max_retries(job[w].task))
            BY <1>5, <3>2 DEF TypeOK, task_raises
        <3>3. QED
            BY <3>1, <3>2
    <2>3. WorkersTyped'
        BY <1>5 DEF TypeOK, task_raises, WorkersTyped
    <2>4. QED
        BY <1>5, <2>2, <2>3 DEF TypeOK, task_raises, WorkersTyped, history
<1>6. ASSUME NEW w \in Workers, ack(w)
      PROVE  TypeOK'
    <2>1. WorkersTyped'
        BY <1>6, ReleaseTypes DEF ack
    <2>2. QED
        BY <1>6, <2>1 DEF TypeOK, ack, WorkersTyped, history
<1>7. ASSUME NEW w \in Workers, kill(w)
      PROVE  TypeOK'
    <2>1. WorkersTyped'
        BY <1>7, ReleaseTypes DEF kill
    <2>2. queued' \in [Message -> Nat]
        BY <1>7, BusyHasMessage, Published DEF kill
    <2>3. kills' \in 0..MaxKills
        BY <1>7, TasksAssumption DEF TypeOK, kill
    <2>4. QED
        BY <1>7, <2>1, <2>2, <2>3 DEF TypeOK, kill, WorkersTyped, history
<1>8. CASE set_active
    BY <1>8 DEF TypeOK, set_active, worker, history
<1>9. CASE UNCHANGED vars
    BY <1>9 DEF TypeOK, vars, worker, history
<1>10. QED
    BY <1>1, <1>2, <1>3, <1>4, <1>5, <1>6, <1>7, <1>8, <1>9
    DEF Next, WorkerStep

-----------------------------------------------------------------------------
(* Runs are counted before retries are published *)

LEMMA CountedStep ==
    ASSUME TypeOK, RunsCounted, [Next]_vars
    PROVE  RunsCounted'
<1> DEFINE QueuedCounted(m) ==
               m.task \in Webhooks /\ queued[m] > 0 =>
                   m.task \in accepted /\ runs[m.task] >= m.retries
           HeldCounted(w) ==
               pc[w] # "idle" /\ job[w].task \in Webhooks =>
                   /\ job[w].task \in accepted
                   /\ runs[job[w].task] > job[w].retries
<1> SUFFICES /\ \A m \in Message : QueuedCounted(m)'
             /\ \A w \in Workers : HeldCounted(w)'
    BY DEF RunsCounted
<1>a. /\ queued \in [Message -> Nat]
      /\ runs \in [Webhooks -> Nat]
      /\ pc \in [Workers -> {"idle", "running", "ended"}]
      /\ job \in [Workers -> Message \cup {Nil}]
    BY DEF TypeOK
<1>b. /\ \A m \in Message : QueuedCounted(m)
      /\ \A w \in Workers : HeldCounted(w)
    BY DEF RunsCounted
<1>1. ASSUME NEW t \in Webhooks, dispatch_webhook(t)
      PROVE  /\ \A m \in Message : QueuedCounted(m)'
             /\ \A w \in Workers : HeldCounted(w)'
    <2>1. \A m \in Message :
              queued'[m] = queued[m]
                  + IF m = [task |-> t, retries |-> 0] THEN 1 ELSE 0
        BY <1>1, Published, RetriesBounded DEF dispatch_webhook, Tasks
    <2>2. accepted' = accepted \cup {t} /\ runs' = runs /\ pc' = pc /\ job' = job
        BY <1>1 DEF dispatch_webhook, worker, history
    <2>3. ASSUME NEW m \in Message PROVE QueuedCounted(m)'
        <3>1. CASE m = [task |-> t, retries |-> 0]
            BY <1>a, <2>2, <3>1
        <3>2. CASE m # [task |-> t, retries |-> 0]
            <4>1. queued'[m] = queued[m]
                BY <1>a, <2>1, <3>2
            <4>2. QED
                BY <1>b, <2>2, <4>1
        <3>3. QED
            BY <3>1, <3>2
    <2>4. QED
        BY <1>b, <2>2, <2>3
<1>2. ASSUME NEW t \in Periodic, beat(t)
      PROVE  /\ \A m \in Message : QueuedCounted(m)'
             /\ \A w \in Workers : HeldCounted(w)'
    <2>1. \A m \in Message :
              queued'[m] = queued[m]
                  + IF m = [task |-> t, retries |-> 0] THEN 1 ELSE 0
        BY <1>2, Published, RetriesBounded DEF beat, Tasks
    <2>2. accepted' = accepted /\ runs' = runs /\ pc' = pc /\ job' = job
        BY <1>2 DEF beat, worker, history
    <2>3. ASSUME NEW m \in Message, m.task \in Webhooks
          PROVE  queued'[m] = queued[m]
        BY <1>a, <2>1, <2>3, TasksAssumption
    <2>4. QED
        BY <1>b, <2>2, <2>3
<1>3. ASSUME NEW w \in Workers, NEW n \in Message, take(w, n)
      PROVE  /\ \A m \in Message : QueuedCounted(m)'
             /\ \A v \in Workers : HeldCounted(v)'
    <2>1. /\ accepted' = accepted
          /\ pc' = [pc EXCEPT ![w] = "running"]
          /\ job' = [job EXCEPT ![w] = n]
          /\ queued' = [queued EXCEPT ![n] = @ - 1]
          /\ queued[n] > 0
        BY <1>3 DEF take
    <2>2. \A t \in Webhooks :
              /\ runs'[t] >= runs[t]
              /\ t = n.task => runs'[t] = runs[t] + 1
        BY <1>3, <1>a DEF take
    <2>2a. \A t \in Webhooks : runs[t] \in Nat /\ runs'[t] \in Nat
        BY <1>3, <1>a DEF take
    <2>3. ASSUME NEW m \in Message PROVE QueuedCounted(m)'
        <3>1. queued'[m] > 0 => queued[m] > 0
            BY <1>a, <2>1
        <3>2. m.retries \in Nat
            BY MessageFields
        <3>3. QED
            BY <1>b, <2>1, <2>2, <2>2a, <3>1, <3>2
    <2>4. ASSUME NEW v \in Workers PROVE HeldCounted(v)'
        <3>1. CASE v = w
            <4>1. job'[v] = n
                BY <1>a, <2>1, <3>1
            <4>2. n.retries \in Nat
                BY MessageFields
            <4>3. QED
                BY <1>b, <2>1, <2>2, <2>2a, <4>1, <4>2
        <3>2. CASE v # w
            <4>1. job'[v] = job[v] /\ pc'[v] = pc[v]
                BY <1>a, <2>1, <3>2
            <4>2. pc[v] # "idle" => job[v].retries \in Nat
                BY BusyHasMessage
            <4>3. QED
                BY <1>b, <2>1, <2>2, <2>2a, <4>1, <4>2
        <3>3. QED
            BY <3>1, <3>2
    <2>5. QED
        BY <2>3, <2>4
<1>4. ASSUME NEW w \in Workers, task_returns(w)
      PROVE  /\ \A m \in Message : QueuedCounted(m)'
             /\ \A v \in Workers : HeldCounted(v)'
    <2>1. /\ accepted' = accepted /\ runs' = runs /\ job' = job
          /\ queued' = queued
          /\ \A v \in Workers : pc'[v] # "idle" => pc[v] # "idle"
        BY <1>4, <1>a DEF task_returns
    <2>2. QED
        BY <1>b, <2>1
<1>5. ASSUME NEW w \in Workers, task_raises(w)
      PROVE  /\ \A m \in Message : QueuedCounted(m)'
             /\ \A v \in Workers : HeldCounted(v)'
    <2> DEFINE t == job[w].task
               k == job[w].retries
    <2>1. /\ accepted' = accepted /\ runs' = runs /\ job' = job
          /\ \A v \in Workers : pc'[v] # "idle" => pc[v] # "idle"
        BY <1>5, <1>a DEF task_raises, history
    <2>2. pc[w] # "idle" /\ t \in Tasks /\ k \in Nat
        BY <1>5, BusyHasMessage DEF task_raises
    <2>3. ASSUME NEW m \in Message PROVE QueuedCounted(m)'
        <3>1. CASE k < max_retries(t) /\ m = [task |-> t, retries |-> k + 1]
            <4>1. m.task = t /\ m.retries = k + 1
                BY <3>1
            <4>2. t \in Webhooks => t \in accepted /\ runs[t] > k /\ runs[t] \in Nat
                BY <1>a, <1>b, <2>2
            <4>3. QED
                BY <2>1, <2>2, <4>1, <4>2
        <3>2. CASE ~(k < max_retries(t) /\ m = [task |-> t, retries |-> k + 1])
            <4>1. CASE k < max_retries(t)
                <5>1. k + 1 <= max_retries(t) /\ k + 1 \in Nat
                    BY <2>2, <4>1, RetriesBounded
                <5>2. apply_async(t, k + 1)
                    BY <1>5, <4>1 DEF task_raises
                <5>3. queued'[m] = queued[m]
                          + IF m = [task |-> t, retries |-> k + 1] THEN 1 ELSE 0
                    BY <2>2, <5>1, <5>2, Published
                <5>4. queued'[m] = queued[m]
                    BY <1>a, <3>2, <4>1, <5>3
                <5>5. QED
                    BY <1>b, <2>1, <5>4
            <4>2. CASE ~(k < max_retries(t))
                <5>1. queued' = queued
                    BY <1>5, <4>2 DEF task_raises
                <5>2. QED
                    BY <1>b, <2>1, <5>1
            <4>3. QED
                BY <4>1, <4>2
        <3>3. QED
            BY <3>1, <3>2
    <2>4. QED
        BY <1>b, <2>1, <2>3
<1>6. ASSUME NEW w \in Workers, ack(w)
      PROVE  /\ \A m \in Message : QueuedCounted(m)'
             /\ \A v \in Workers : HeldCounted(v)'
    <2>1. /\ accepted' = accepted /\ runs' = runs /\ queued' = queued
          /\ pc' = [pc EXCEPT ![w] = "idle"] /\ job' = [job EXCEPT ![w] = Nil]
        BY <1>6 DEF ack, Release, history
    <2>2. \A v \in Workers :
              pc'[v] # "idle" => pc'[v] = pc[v] /\ job'[v] = job[v]
        BY <1>a, <2>1
    <2>3. QED
        BY <1>b, <2>1, <2>2
<1>7. ASSUME NEW w \in Workers, kill(w)
      PROVE  /\ \A m \in Message : QueuedCounted(m)'
             /\ \A v \in Workers : HeldCounted(v)'
    <2> DEFINE t == job[w].task
               k == job[w].retries
    <2>1. /\ accepted' = accepted /\ runs' = runs
          /\ pc' = [pc EXCEPT ![w] = "idle"] /\ job' = [job EXCEPT ![w] = Nil]
          /\ pc[w] # "idle"
        BY <1>7 DEF kill, Release, history
    <2>2. t \in Tasks /\ k \in Nat /\ k <= max_retries(t)
        BY <2>1, BusyHasMessage
    <2>3. \A m \in Message :
              queued'[m] = queued[m]
                  + IF m = [task |-> t, retries |-> k] THEN 1 ELSE 0
        BY <1>7, <2>2, Published DEF kill
    <2>4. ASSUME NEW m \in Message PROVE QueuedCounted(m)'
        <3>1. CASE m = [task |-> t, retries |-> k]
            <4>1. m.task = t /\ m.retries = k
                BY <3>1
            <4>2. t \in Webhooks => t \in accepted /\ runs[t] > k /\ runs[t] \in Nat
                BY <1>a, <1>b, <2>1
            <4>3. QED
                BY <2>1, <2>2, <4>1, <4>2
        <3>2. CASE m # [task |-> t, retries |-> k]
            <4>1. queued'[m] = queued[m]
                BY <1>a, <2>3, <3>2
            <4>2. QED
                BY <1>b, <2>1, <4>1
        <3>3. QED
            BY <3>1, <3>2
    <2>5. \A v \in Workers :
              pc'[v] # "idle" => pc'[v] = pc[v] /\ job'[v] = job[v]
        BY <1>a, <2>1
    <2>6. QED
        BY <1>b, <2>1, <2>4, <2>5
<1>8. CASE set_active
    BY <1>b, <1>8 DEF set_active, worker, history
<1>9. CASE UNCHANGED vars
    BY <1>b, <1>9 DEF vars, worker, history
<1>10. QED
    BY <1>1, <1>2, <1>3, <1>4, <1>5, <1>6, <1>7, <1>8, <1>9
    DEF Next, WorkerStep

LEMMA InitTypes ==
    ASSUME Init
    PROVE  TypeOK
<1>1. queued \in [Message -> Nat] /\ runs \in [Webhooks -> Nat]
    BY DEF Init
<1>2. /\ pc \in [Workers -> {"idle", "running", "ended"}]
      /\ job \in [Workers -> Message \cup {Nil}]
      /\ \A w \in Workers : (pc[w] = "idle") <=> (job[w] = Nil)
    BY DEF Init
<1>3. ticks \in 0..MaxTicks /\ kills \in 0..MaxKills
    BY TasksAssumption DEF Init
<1>4. is_active \in BOOLEAN
    BY DEF Init
<1>5. QED
    BY <1>1, <1>2, <1>3, <1>4, Zenon DEF Init, TypeOK

\* The types, and the count of the runs they need, hold for any number of
\* workers and webhooks.
THEOREM TypeCorrect == Spec => []TypeOK
<1>1. Init => TypeOK /\ RunsCounted
    <2>1. Init => TypeOK
        BY InitTypes
    <2>2. Init => RunsCounted
        BY DEF Init, RunsCounted
    <2>3. QED
        BY <2>1, <2>2
<1>2. TypeOK /\ RunsCounted /\ [Next]_vars => TypeOK' /\ RunsCounted'
    BY TypeStep, CountedStep
<1>3. QED
    BY <1>1, <1>2, PTL DEF Spec

-----------------------------------------------------------------------------
(* No accepted webhook is lost *)

LEMMA KeptStep ==
    ASSUME TypeOK, RunsCounted, Kept, [Next]_vars
    PROVE  Kept'
<1> DEFINE K(t) == Live(t) \/ t \in returned \/ runs[t] > max_retries(t)
<1> SUFFICES \A t \in accepted' : K(t)'
    BY DEF Kept
<1>a. /\ queued \in [Message -> Nat]
      /\ runs \in [Webhooks -> Nat]
      /\ pc \in [Workers -> {"idle", "running", "ended"}]
      /\ job \in [Workers -> Message \cup {Nil}]
      /\ accepted \subseteq Webhooks
    BY DEF TypeOK
<1>b. \A t \in accepted : K(t)
    BY DEF Kept
<1>1. ASSUME NEW t \in Webhooks, dispatch_webhook(t), NEW u \in accepted'
      PROVE  K(u)'
    <2> DEFINE n == [task |-> t, retries |-> 0]
    <2>1. /\ n \in Message /\ n.task = t
          /\ \A m \in Message : queued'[m] = queued[m] + IF m = n THEN 1 ELSE 0
        BY <1>1, Published, MessageMade, RetriesBounded
        DEF dispatch_webhook, Tasks
    <2> HIDE DEF n
    <2>2. /\ accepted' = accepted \cup {t} /\ runs' = runs /\ pc' = pc
          /\ job' = job /\ returned' = returned
        BY <1>1 DEF dispatch_webhook, worker, history
    <2>3. CASE u = t
        <3>1. queued'[n] > 0
            BY <1>a, <2>1
        <3>2. QED
            BY <2>1, <2>3, <3>1 DEF Live
    <2>4. CASE u # t
        <3>1. K(u)
            BY <1>b, <2>2, <2>4
        <3>2. \A m \in Message : queued[m] > 0 => queued'[m] > 0
            BY <1>a, <2>1
        <3>3. Live(u) => Live(u)'
            BY <2>2, <3>2 DEF Live
        <3>4. QED
            BY <2>2, <3>1, <3>3
    <2>5. QED
        BY <2>3, <2>4
<1>2. ASSUME NEW t \in Periodic, beat(t), NEW u \in accepted'
      PROVE  K(u)'
    <2>1. \A m \in Message :
              queued'[m] = queued[m]
                  + IF m = [task |-> t, retries |-> 0] THEN 1 ELSE 0
        BY <1>2, Published, RetriesBounded DEF beat, Tasks
    <2>2. accepted' = accepted /\ runs' = runs /\ pc' = pc /\ job' = job
          /\ returned' = returned
        BY <1>2 DEF beat, worker, history
    <2>3. \A m \in Message : queued[m] > 0 => queued'[m] > 0
        BY <1>a, <2>1
    <2>4. Live(u) => Live(u)'
        BY <2>2, <2>3 DEF Live
    <2>5. QED
        BY <1>b, <2>2, <2>4
<1>3. ASSUME NEW w \in Workers, NEW n \in Message, take(w, n),
             NEW u \in accepted'
      PROVE  K(u)'
    <2>1. /\ accepted' = accepted /\ returned' = returned
          /\ pc[w] = "idle"
          /\ pc' = [pc EXCEPT ![w] = "running"]
          /\ job' = [job EXCEPT ![w] = n]
          /\ queued' = [queued EXCEPT ![n] = @ - 1]
        BY <1>3 DEF take
    <2>2. runs[u] \in Nat /\ runs'[u] \in Nat /\ runs'[u] >= runs[u]
        BY <1>3, <1>a, <2>1 DEF take
    <2>3. CASE u = n.task
        <3>1. pc'[w] = "running" /\ job'[w].task = u
            BY <1>a, <2>1, <2>3
        <3>2. QED
            BY <3>1 DEF Live
    <2>4. CASE u # n.task
        <3>1. \A m \in Message : m.task = u => queued'[m] = queued[m]
            BY <1>a, <2>1, <2>4
        <3>2. \A v \in Workers :
                  pc[v] = "running" => pc'[v] = "running" /\ job'[v] = job[v]
            BY <1>a, <2>1
        <3>3. Live(u) => Live(u)'
            BY <3>1, <3>2 DEF Live
        <3>4. max_retries(u) \in Nat
            BY RetriesBounded
        <3>5. QED
            BY <1>b, <2>1, <2>2, <3>3, <3>4
    <2>5. QED
        BY <2>3, <2>4
<1>4. ASSUME NEW w \in Workers, task_returns(w), NEW u \in accepted'
      PROVE  K(u)'
    <2>1. /\ accepted' = accepted /\ runs' = runs /\ job' = job
          /\ queued' = queued
          /\ pc' = [pc EXCEPT ![w] = "ended"]
          /\ returned' = returned \cup ({job[w].task} \cap Webhooks)
        BY <1>4 DEF task_returns
    <2>2. CASE u = job[w].task
        BY <1>a, <2>1, <2>2
    <2>3. CASE u # job[w].task
        <3>1. \A v \in Workers : v # w => pc'[v] = pc[v]
            BY <1>a, <2>1
        <3>2. Live(u) => Live(u)'
            BY <2>1, <2>3, <3>1 DEF Live
        <3>3. QED
            BY <1>b, <2>1, <3>2
    <2>4. QED
        BY <2>2, <2>3
<1>5. ASSUME NEW w \in Workers, task_raises(w), NEW u \in accepted'
      PROVE  K(u)'
    <2> DEFINE t == job[w].task
               k == job[w].retries
    <2>1. /\ accepted' = accepted /\ runs' = runs /\ job' = job
          /\ returned' = returned
          /\ pc[w] = "running"
          /\ pc' = [pc EXCEPT ![w] = "ended"]
        BY <1>5 DEF task_raises, history
    <2>2. t \in Tasks /\ k \in Nat /\ k <= max_retries(t)
        BY <2>1, BusyHasMessage
    <2>3. CASE k < max_retries(t)
        <3> DEFINE n == [task |-> t, retries |-> k + 1]
        <3>1. k + 1 <= max_retries(t) /\ k + 1 \in Nat
            BY <2>2, <2>3, RetriesBounded
        <3>2. apply_async(t, k + 1)
            BY <1>5, <2>3 DEF task_raises
        <3>3. n \in Message /\ n.task = t
            BY <2>2, <3>1, MessageMade
        <3>4. \A m \in Message : queued'[m] = queued[m] + IF m = n THEN 1 ELSE 0
            BY <2>2, <3>1, <3>2, Published
        <3> HIDE DEF n
        <3>5. CASE u = t
            <4>1. queued'[n] > 0
                BY <1>a, <3>3, <3>4
            <4>2. QED
                BY <3>3, <3>5, <4>1 DEF Live
        <3>6. CASE u # t
            <4>1. \A m \in Message : queued[m] > 0 => queued'[m] > 0
                BY <1>a, <3>4
            <4>2. \A v \in Workers : v # w => pc'[v] = pc[v]
                BY <1>a, <2>1
            <4>3. Live(u) => Live(u)'
                BY <2>1, <3>6, <4>1, <4>2 DEF Live
            <4>4. QED
                BY <1>b, <2>1, <4>3
        <3>7. QED
            BY <3>5, <3>6
    <2>4. CASE ~(k < max_retries(t))
        <3>1. queued' = queued
            BY <1>5, <2>4 DEF task_raises
        <3>2. CASE u = t
            <4>1. runs[u] > k
                BY <1>a, <2>1, <3>2 DEF RunsCounted
            <4>2. k = max_retries(u) /\ runs[u] \in Nat
                BY <1>a, <2>1, <2>2, <2>4, <3>2, RetriesBounded
            <4>3. QED
                BY <2>1, <4>1, <4>2
        <3>3. CASE u # t
            <4>1. \A v \in Workers : v # w => pc'[v] = pc[v]
                BY <1>a, <2>1
            <4>2. Live(u) => Live(u)'
                BY <2>1, <3>1, <3>3, <4>1 DEF Live
            <4>3. QED
                BY <1>b, <2>1, <4>2
        <3>4. QED
            BY <3>2, <3>3
    <2>5. QED
        BY <2>3, <2>4
<1>6. ASSUME NEW w \in Workers, ack(w), NEW u \in accepted'
      PROVE  K(u)'
    <2>1. /\ accepted' = accepted /\ runs' = runs /\ queued' = queued
          /\ returned' = returned
          /\ pc[w] = "ended"
          /\ pc' = [pc EXCEPT ![w] = "idle"]
          /\ job' = [job EXCEPT ![w] = Nil]
        BY <1>6 DEF ack, Release, history
    <2>2. \A v \in Workers :
              pc[v] = "running" => pc'[v] = "running" /\ job'[v] = job[v]
        BY <1>a, <2>1
    <2>3. Live(u) => Live(u)'
        BY <2>1, <2>2 DEF Live
    <2>4. QED
        BY <1>b, <2>1, <2>3
<1>7. ASSUME NEW w \in Workers, kill(w), NEW u \in accepted'
      PROVE  K(u)'
    <2> DEFINE t == job[w].task
               k == job[w].retries
               n == [task |-> t, retries |-> k]
    <2>1. /\ accepted' = accepted /\ runs' = runs /\ returned' = returned
          /\ pc[w] # "idle"
          /\ pc' = [pc EXCEPT ![w] = "idle"]
          /\ job' = [job EXCEPT ![w] = Nil]
        BY <1>7 DEF kill, Release, history
    <2>2. t \in Tasks /\ k \in Nat /\ k <= max_retries(t)
        BY <2>1, BusyHasMessage
    <2>3. n \in Message /\ n.task = t
        BY <2>2, MessageMade
    <2>4. \A m \in Message : queued'[m] = queued[m] + IF m = n THEN 1 ELSE 0
        BY <1>7, <2>2, Published DEF kill
    <2> HIDE DEF n
    <2>5. CASE u = t
        <3>1. queued'[n] > 0
            BY <1>a, <2>3, <2>4
        <3>2. QED
            BY <2>3, <2>5, <3>1 DEF Live
    <2>6. CASE u # t
        <3>1. \A m \in Message : queued[m] > 0 => queued'[m] > 0
            BY <1>a, <2>4
        <3>2. \A v \in Workers : v # w => pc'[v] = pc[v] /\ job'[v] = job[v]
            BY <1>a, <2>1
        <3>3. Live(u) => Live(u)'
            BY <2>1, <2>6, <3>1, <3>2 DEF Live
        <3>4. QED
            BY <1>b, <2>1, <3>3
    <2>7. QED
        BY <2>5, <2>6
<1>8. CASE set_active
    BY <1>b, <1>8 DEF set_active, worker, history, Live
<1>9. CASE UNCHANGED vars
    BY <1>b, <1>9 DEF vars, worker, history, Live
<1>10. QED
    BY <1>1, <1>2, <1>3, <1>4, <1>5, <1>6, <1>7, <1>8, <1>9
    DEF Next, WorkerStep

\* A webhook that was answered 202 has a message, or was run to a return, or
\* spent its retries, for any number of workers, webhooks and kills.
THEOREM WebhookKept == Spec => []WebhookKeptUntilSpent
<1>1. Init => TypeOK /\ RunsCounted /\ Kept
    <2>1. Init => TypeOK
        BY InitTypes
    <2>2. Init => RunsCounted /\ Kept
        BY DEF Init, RunsCounted, Kept
    <2>3. QED
        BY <2>1, <2>2
<1>2. TypeOK /\ RunsCounted /\ Kept /\ [Next]_vars
          => TypeOK' /\ RunsCounted' /\ Kept'
    BY TypeStep, CountedStep, KeptStep
<1>3. Kept => WebhookKeptUntilSpent
    BY DEF Kept, Live, WebhookKeptUntilSpent, HasMessage
<1>4. QED
    BY <1>1, <1>2, <1>3, PTL DEF Spec

-----------------------------------------------------------------------------
(* Retries end *)

\* The message of a task's attempt with so many retries behind it.
attempt(t, k) == [task |-> t, retries |-> k]

\* The workers that run it.
Running(t, k) == {w \in Workers : pc[w] = "running" /\ job[w] = attempt(t, k)}

\* The runs that the messages of a webhook can still lead to without a kill: a
\* queued one leads to its own and those of its retries, one that a worker runs
\* only to those of its retries, and one that has ended to none, its next
\* attempt being queued already.
Left(t) ==
    4 * queued[attempt(t, 0)] + 3 * queued[attempt(t, 1)]
        + 2 * queued[attempt(t, 2)] + queued[attempt(t, 3)]
        + 3 * Cardinality(Running(t, 0)) + 2 * Cardinality(Running(t, 1))
        + Cardinality(Running(t, 2))

\* RunsWithinBudget with the runs that are still to come: a dispatch allows
\* four, and a kill four more at the most, when the message that comes back is
\* of a first attempt whose retry is queued.
Budgeted(t) ==
    /\ \A k \in 0..3 : IsFiniteSet(Running(t, k))
    /\ runs[t] + Left(t) <= 4 * (kills + IF t \in accepted THEN 1 ELSE 0)

WithinBudget == \A t \in Webhooks : Budgeted(t)

LEMMA Attempts ==
    ASSUME NEW t \in Webhooks
    PROVE  /\ max_retries(t) = 3 /\ t \in Tasks
           /\ \A k \in 0..3 : /\ attempt(t, k) \in Message
                              /\ attempt(t, k).task = t
                              /\ attempt(t, k).retries = k
           /\ \A j, k \in 0..3 : attempt(t, j) = attempt(t, k) => j = k
           /\ \A m \in Message :
                  m.task = t => m.retries \in 0..3 /\ m = attempt(t, m.retries)
<1>1. max_retries(t) = 3 /\ t \in Tasks
    BY DEF max_retries, Tasks
<1>2. ASSUME NEW k \in 0..3
      PROVE  /\ attempt(t, k) \in Message
             /\ attempt(t, k).task = t
             /\ attempt(t, k).retries = k
    BY <1>1, MessageMade DEF attempt
<1>3. ASSUME NEW m \in Message, m.task = t
      PROVE  m.retries \in 0..3 /\ m = attempt(t, m.retries)
    BY <1>3 DEF Message, attempt
<1>4. QED
    BY <1>1, <1>2, <1>3

\* A step of one worker changes what is run by that worker.
LEMMA RunningChange ==
    ASSUME TypeOK, TypeOK', WithinBudget, NEW w \in Workers,
           \A v \in Workers \ {w} : pc'[v] = pc[v] /\ job'[v] = job[v],
           NEW t \in Webhooks, NEW k \in 0..3
    PROVE  /\ IsFiniteSet(Running(t, k)')
           /\ Cardinality(Running(t, k)) \in Nat
           /\ Cardinality(Running(t, k)') =
                  Cardinality(Running(t, k))
                    - (IF pc[w] = "running" /\ job[w] = attempt(t, k)
                       THEN 1 ELSE 0)
                    + (IF pc'[w] = "running" /\ job'[w] = attempt(t, k)
                       THEN 1 ELSE 0)
<1> DEFINE R == Running(t, k)
           now == pc[w] = "running" /\ job[w] = attempt(t, k)
           next == pc'[w] = "running" /\ job'[w] = attempt(t, k)
<1>1. IsFiniteSet(R) /\ Cardinality(R) \in Nat
    BY FS_CardinalityType DEF WithinBudget, Budgeted
<1>2. w \in R <=> now
    BY DEF Running
<1>3. CASE next
    <2>1. Running(t, k)' = R \cup {w}
        BY <1>3 DEF Running
    <2>2. QED
        BY <1>1, <1>2, <1>3, <2>1, FS_AddElement
<1>4. CASE ~next
    <2>1. Running(t, k)' = R \ {w}
        BY <1>4 DEF Running
    <2>2. QED
        BY <1>1, <1>2, <1>4, <2>1, FS_RemoveElement
<1>5. QED
    BY <1>3, <1>4

\* When the workers do what they did, the same is run.
LEMMA RunningSame ==
    ASSUME UNCHANGED worker, NEW t, NEW k
    PROVE  Running(t, k)' = Running(t, k)
BY DEF worker, Running

\* The sum, with a name for each of its terms.
LEMMA LeftSum ==
    ASSUME TypeOK, WithinBudget, NEW t \in Webhooks
    PROVE  \E q, c \in [0..3 -> Nat] :
               /\ \A k \in 0..3 : /\ q[k] = queued[attempt(t, k)]
                                  /\ c[k] = Cardinality(Running(t, k))
               /\ Left(t) = 4 * q[0] + 3 * q[1] + 2 * q[2] + q[3]
                                + 3 * c[0] + 2 * c[1] + c[2]
<1> DEFINE q == [k \in 0..3 |-> queued[attempt(t, k)]]
           c == [k \in 0..3 |-> Cardinality(Running(t, k))]
<1>1. \A k \in 0..3 : queued[attempt(t, k)] \in Nat
    BY Attempts DEF TypeOK
<1>2. \A k \in 0..3 : Cardinality(Running(t, k)) \in Nat
    BY FS_CardinalityType DEF WithinBudget, Budgeted
<1>3. q \in [0..3 -> Nat] /\ c \in [0..3 -> Nat]
    BY <1>1, <1>2
<1>4. Left(t) = 4 * q[0] + 3 * q[1] + 2 * q[2] + q[3]
                    + 3 * c[0] + 2 * c[1] + c[2]
    BY DEF Left
<1>5. QED
    BY <1>3, <1>4

\* What Left becomes when the queue changes by one message of attempt i, and
\* the workers by one that runs attempt j.
LEMMA LeftChange ==
    ASSUME TypeOK, WithinBudget, NEW t \in Webhooks,
           NEW i \in 0..3, NEW j \in 0..3, NEW dq \in Int, NEW dc \in Int,
           \A k \in 0..3 :
               /\ queued'[attempt(t, k)] =
                      queued[attempt(t, k)] + IF k = i THEN dq ELSE 0
               /\ Cardinality(Running(t, k)') =
                      Cardinality(Running(t, k)) + IF k = j THEN dc ELSE 0
    PROVE  /\ Left(t) \in Nat
           /\ Left(t)' = Left(t) + (4 - i) * dq + (3 - j) * dc
<1>1. PICK q \in [0..3 -> Nat], c \in [0..3 -> Nat] :
          /\ \A k \in 0..3 : /\ q[k] = queued[attempt(t, k)]
                             /\ c[k] = Cardinality(Running(t, k))
          /\ Left(t) = 4 * q[0] + 3 * q[1] + 2 * q[2] + q[3]
                           + 3 * c[0] + 2 * c[1] + c[2]
    BY LeftSum
<1>2. \A k \in 0..3 : q[k] \in Nat /\ c[k] \in Nat
    OBVIOUS
<1> DEFINE dQ(k) == IF k = i THEN dq ELSE 0
           dC(k) == IF k = j THEN dc ELSE 0
<1>3. Left(t)' =
          4 * (q[0] + dQ(0)) + 3 * (q[1] + dQ(1)) + 2 * (q[2] + dQ(2))
              + (q[3] + dQ(3))
              + 3 * (c[0] + dC(0)) + 2 * (c[1] + dC(1)) + (c[2] + dC(2))
    <2>1. \A k \in 0..3 : /\ queued'[attempt(t, k)] = q[k] + dQ(k)
                          /\ Cardinality(Running(t, k)') = c[k] + dC(k)
        BY <1>1
    <2>2. Left(t)' =
              4 * queued'[attempt(t, 0)] + 3 * queued'[attempt(t, 1)]
                  + 2 * queued'[attempt(t, 2)] + queued'[attempt(t, 3)]
                  + 3 * Cardinality(Running(t, 0)')
                  + 2 * Cardinality(Running(t, 1)')
                  + Cardinality(Running(t, 2)')
        BY DEF Left, attempt
    <2> HIDE DEF dQ, dC
    <2>3. QED
        BY <2>1, <2>2
<1>4. 4 * dQ(0) + 3 * dQ(1) + 2 * dQ(2) + dQ(3) = (4 - i) * dq
    <2>1. CASE i = 0
        BY <2>1
    <2>2. CASE i = 1
        BY <2>2
    <2>3. CASE i = 2
        BY <2>3
    <2>4. CASE i = 3
        BY <2>4
    <2>5. QED
        BY <2>1, <2>2, <2>3, <2>4
<1>5. 3 * dC(0) + 2 * dC(1) + dC(2) = (3 - j) * dc
    <2>1. CASE j = 0
        BY <2>1
    <2>2. CASE j = 1
        BY <2>2
    <2>3. CASE j = 2
        BY <2>3
    <2>4. CASE j = 3
        BY <2>4
    <2>5. QED
        BY <2>1, <2>2, <2>3, <2>4
<1>6. \A k \in 0..3 : dQ(k) \in Int /\ dC(k) \in Int
    OBVIOUS
<1>7. (4 - i) * dq \in Int /\ (3 - j) * dc \in Int
    OBVIOUS
<1> HIDE DEF dQ, dC
<1>8. QED
    BY <1>1, <1>2, <1>3, <1>4, <1>5, <1>6, <1>7

\* A step that touches neither the messages nor the runs of a webhook.
LEMMA Untouched ==
    ASSUME TypeOK, WithinBudget, NEW t \in Webhooks,
           \A k \in 0..3 : /\ queued'[attempt(t, k)] = queued[attempt(t, k)]
                           /\ Running(t, k)' = Running(t, k),
           runs'[t] = runs[t], accepted \subseteq accepted', kills' = kills
    PROVE  Budgeted(t)'
<1>1. Left(t)' = Left(t)
    <2>1. \A k \in 0..3 : queued[attempt(t, k)] \in Nat
        BY Attempts DEF TypeOK
    <2>2. \A k \in 0..3 : Cardinality(Running(t, k)) \in Nat
        BY FS_CardinalityType DEF WithinBudget, Budgeted
    <2>3. \A k \in 0..3 :
              /\ queued'[attempt(t, k)] =
                     queued[attempt(t, k)] + IF k = 0 THEN 0 ELSE 0
              /\ Cardinality(Running(t, k)') =
                     Cardinality(Running(t, k)) + IF k = 0 THEN 0 ELSE 0
        BY <2>1, <2>2
    <2>4. 0 \in 0..3 /\ 0 \in Int
        OBVIOUS
    <2>5. Left(t) \in Nat /\ Left(t)' = Left(t) + (4 - 0) * 0 + (3 - 0) * 0
        BY <2>3, <2>4, LeftChange, Zenon
    <2>6. QED
        BY <2>5
<1>2. \A k \in 0..3 : IsFiniteSet(Running(t, k)')
    BY DEF WithinBudget, Budgeted
<1>3. /\ runs[t] \in Nat /\ Left(t) \in Nat /\ kills \in Nat
      /\ runs[t] + Left(t) <= 4 * (kills + IF t \in accepted THEN 1 ELSE 0)
    <2>1. \A k \in 0..3 : queued[attempt(t, k)] \in Nat
        BY Attempts DEF TypeOK
    <2>2. \A k \in 0..3 : Cardinality(Running(t, k)) \in Nat
        BY FS_CardinalityType DEF WithinBudget, Budgeted
    <2>3. QED
        BY <2>1, <2>2, TasksAssumption DEF TypeOK, WithinBudget, Budgeted, Left
<1>4. QED
    BY <1>1, <1>2, <1>3 DEF Budgeted

\* A step of one worker that publishes or takes dq messages of a webhook's
\* attempt i, and begins or ends dc runs of its attempt j.
Moves(w, t, i, j, dq, dc) ==
    /\ \A v \in Workers \ {w} : pc'[v] = pc[v] /\ job'[v] = job[v]
    /\ \A k \in 0..3 :
           /\ queued'[attempt(t, k)] =
                  queued[attempt(t, k)] + IF k = i THEN dq ELSE 0
           /\ (IF pc'[w] = "running" /\ job'[w] = attempt(t, k)
               THEN 1 ELSE 0) =
                  (IF pc[w] = "running" /\ job[w] = attempt(t, k)
                   THEN 1 ELSE 0) + IF k = j THEN dc ELSE 0
    /\ accepted' = accepted
    /\ (runs'[t] - runs[t]) + (4 - i) * dq + (3 - j) * dc
           <= 4 * (kills' - kills)

LEMMA Moved ==
    ASSUME TypeOK, TypeOK', WithinBudget, NEW w \in Workers,
           NEW t \in Webhooks,
           NEW i \in 0..3, NEW j \in 0..3, NEW dq \in Int, NEW dc \in Int,
           Moves(w, t, i, j, dq, dc)
    PROVE  Budgeted(t)'
<1>1. \A k \in 0..3 : /\ IsFiniteSet(Running(t, k)')
                      /\ Cardinality(Running(t, k)) \in Nat
                      /\ Cardinality(Running(t, k)') =
                             Cardinality(Running(t, k))
                                 + IF k = j THEN dc ELSE 0
    <2> SUFFICES ASSUME NEW k \in 0..3
                 PROVE  /\ IsFiniteSet(Running(t, k)')
                        /\ Cardinality(Running(t, k)) \in Nat
                        /\ Cardinality(Running(t, k)') =
                               Cardinality(Running(t, k))
                                   + IF k = j THEN dc ELSE 0
        OBVIOUS
    <2> DEFINE was == IF pc[w] = "running" /\ job[w] = attempt(t, k)
                      THEN 1 ELSE 0
               is == IF pc'[w] = "running" /\ job'[w] = attempt(t, k)
                     THEN 1 ELSE 0
    <2>1. /\ IsFiniteSet(Running(t, k)')
          /\ Cardinality(Running(t, k)) \in Nat
          /\ Cardinality(Running(t, k)') =
                 Cardinality(Running(t, k)) - was + is
        BY RunningChange DEF Moves
    <2>2. is = was + IF k = j THEN dc ELSE 0
        BY DEF Moves
    <2>3. was \in Nat
        OBVIOUS
    <2> HIDE DEF was, is
    <2>4. QED
        BY <2>1, <2>2, <2>3
<1>2. /\ Left(t) \in Nat
      /\ Left(t)' = Left(t) + (4 - i) * dq + (3 - j) * dc
    BY <1>1, LeftChange DEF Moves
<1>3. /\ runs[t] \in Nat /\ runs'[t] \in Nat /\ kills \in Nat /\ kills' \in Nat
      /\ runs[t] + Left(t) <= 4 * (kills + IF t \in accepted THEN 1 ELSE 0)
    BY TasksAssumption DEF TypeOK, WithinBudget, Budgeted
<1>4. (4 - i) * dq \in Int /\ (3 - j) * dc \in Int
    OBVIOUS
<1>5. runs'[t] + Left(t)' <= 4 * (kills' + IF t \in accepted' THEN 1 ELSE 0)
    BY <1>2, <1>3, <1>4 DEF Moves
<1>6. QED
    BY <1>1, <1>5 DEF Budgeted

\* A message added to the queue is one more of its own attempt, and of no other.
LEMMA OneMore ==
    ASSUME TypeOK, NEW u \in Tasks, NEW i \in Nat, i <= max_retries(u),
           apply_async(u, i), NEW t \in Webhooks, NEW k \in 0..3
    PROVE  queued'[attempt(t, k)] =
               queued[attempt(t, k)] + IF t = u /\ k = i THEN 1 ELSE 0
<1>1. queued'[attempt(t, k)] =
          queued[attempt(t, k)]
              + IF attempt(t, k) = [task |-> u, retries |-> i] THEN 1 ELSE 0
    BY Attempts, Published
<1>2. attempt(t, k) = [task |-> u, retries |-> i] <=> t = u /\ k = i
    BY DEF attempt
<1>3. QED
    BY <1>1, <1>2

LEMMA BudgetStep ==
    ASSUME TypeOK, TypeOK', RunsCounted, WithinBudget, [Next]_vars
    PROVE  WithinBudget'
<1> SUFFICES ASSUME NEW t \in Webhooks
             PROVE  Budgeted(t)'
    BY DEF WithinBudget
<1>a. /\ queued \in [Message -> Nat] /\ runs \in [Webhooks -> Nat]
      /\ pc \in [Workers -> {"idle", "running", "ended"}]
      /\ job \in [Workers -> Message \cup {Nil}]
      /\ kills \in Nat /\ kills' \in Nat
      /\ \A k \in 0..3 : queued[attempt(t, k)] \in Nat
    BY TasksAssumption, Attempts DEF TypeOK
<1>1. ASSUME NEW u \in Webhooks, dispatch_webhook(u)
      PROVE  Budgeted(t)'
    <2>1. \A k \in 0..3 :
              queued'[attempt(t, k)] =
                  queued[attempt(t, k)] + IF t = u /\ k = 0 THEN 1 ELSE 0
        BY <1>1, OneMore, RetriesBounded DEF dispatch_webhook, Tasks
    <2>2. /\ runs' = runs /\ kills' = kills /\ UNCHANGED worker
          /\ u \notin accepted /\ accepted' = accepted \cup {u}
        BY <1>1 DEF dispatch_webhook, history
    <2>3. \A k \in 0..3 : Running(t, k)' = Running(t, k)
        BY <2>2, RunningSame
    <2>4. CASE t = u
        <3>1. \A k \in 0..3 :
                  /\ queued'[attempt(t, k)] =
                         queued[attempt(t, k)] + IF k = 0 THEN 1 ELSE 0
                  /\ Cardinality(Running(t, k)) \in Nat
                  /\ Cardinality(Running(t, k)') =
                         Cardinality(Running(t, k)) + IF k = 0 THEN 0 ELSE 0
            BY <2>1, <2>3, <2>4, FS_CardinalityType DEF WithinBudget, Budgeted
        <3>2. Left(t) \in Nat /\ Left(t)' = Left(t) + (4 - 0) * 1 + (3 - 0) * 0
            BY <3>1, LeftChange
        <3>3. runs[t] + Left(t) <= 4 * (kills + 0)
            BY <2>2, <2>4 DEF WithinBudget, Budgeted
        <3>4. runs'[t] + Left(t)' <= 4 * (kills' + 1)
            BY <1>a, <2>2, <3>2, <3>3
        <3>5. \A k \in 0..3 : IsFiniteSet(Running(t, k)')
            BY <2>3 DEF WithinBudget, Budgeted
        <3>6. QED
            BY <2>2, <2>4, <3>4, <3>5 DEF Budgeted
    <2>5. CASE t # u
        BY <1>a, <2>1, <2>2, <2>3, <2>5, Untouched
    <2>6. QED
        BY <2>4, <2>5
<1>2. ASSUME NEW u \in Periodic, beat(u)
      PROVE  Budgeted(t)'
    <2>1. t # u
        BY TasksAssumption
    <2>2. \A k \in 0..3 : queued'[attempt(t, k)] = queued[attempt(t, k)]
        BY <1>2, <1>a, <2>1, OneMore, RetriesBounded DEF beat, Tasks
    <2>3. runs' = runs /\ kills' = kills /\ UNCHANGED worker
          /\ accepted' = accepted
        BY <1>2 DEF beat, history
    <2>4. \A k \in 0..3 : Running(t, k)' = Running(t, k)
        BY <2>3, RunningSame
    <2>5. QED
        BY <2>2, <2>3, <2>4, Untouched
<1>3. ASSUME NEW w \in Workers, NEW n \in Message, take(w, n)
      PROVE  Budgeted(t)'
    <2>1. /\ pc[w] = "idle" /\ pc'[w] = "running" /\ job'[w] = n
          /\ \A v \in Workers \ {w} : pc'[v] = pc[v] /\ job'[v] = job[v]
          /\ accepted' = accepted /\ kills' = kills
          /\ \A m \in Message :
                 queued'[m] = queued[m] + IF m = n THEN -1 ELSE 0
          /\ runs'[t] = runs[t] + IF t = n.task THEN 1 ELSE 0
        BY <1>3, <1>a DEF take
    <2>2. CASE t = n.task
        <3>1. PICK i \in 0..3 : n = attempt(t, i)
            BY <2>2, Attempts
        <3>2. \A k \in 0..3 : attempt(t, k) = n <=> k = i
            BY <3>1, Attempts
        <3>3. \A k \in 0..3 :
                  /\ queued'[attempt(t, k)] =
                         queued[attempt(t, k)] + IF k = i THEN -1 ELSE 0
                  /\ (IF pc'[w] = "running" /\ job'[w] = attempt(t, k)
                      THEN 1 ELSE 0) =
                         (IF pc[w] = "running" /\ job[w] = attempt(t, k)
                          THEN 1 ELSE 0) + IF k = i THEN 1 ELSE 0
            BY <2>1, <3>2, Attempts
        <3>4. (runs'[t] - runs[t]) + (4 - i) * (-1) + (3 - i) * 1
                  <= 4 * (kills' - kills)
            BY <1>a, <2>1, <2>2
        <3>5. QED
            <4>1. PICK dq \in Int, dc \in Int : dq = -1 /\ dc = 1
                OBVIOUS
            <4>2. Moves(w, t, i, i, dq, dc)
                BY <2>1, <3>3, <3>4, <4>1 DEF Moves
            <4>3. QED
                BY <4>2, Moved
    <2>3. CASE t # n.task
        <3>1. \A k \in 0..3 : attempt(t, k) # n
            BY <2>3, Attempts
        <3>2. \A k \in 0..3 : queued'[attempt(t, k)] = queued[attempt(t, k)]
            BY <1>a, <2>1, <3>1, Attempts
        <3>3. \A k \in 0..3 : Running(t, k)' = Running(t, k)
            BY <2>1, <3>1 DEF Running
        <3>4. runs'[t] = runs[t]
            BY <1>a, <2>1, <2>3
        <3>5. QED
            BY <2>1, <3>2, <3>3, <3>4, Untouched
    <2>4. QED
        BY <2>2, <2>3
<1>4. ASSUME NEW w \in Workers, task_returns(w)
      PROVE  Budgeted(t)'
    <2>1. /\ pc[w] = "running" /\ pc'[w] = "ended" /\ job' = job
          /\ \A v \in Workers \ {w} : pc'[v] = pc[v] /\ job'[v] = job[v]
          /\ accepted' = accepted /\ kills' = kills /\ queued' = queued
          /\ runs' = runs
        BY <1>4, <1>a DEF task_returns
    <2>2. CASE job[w].task = t
        <3>1. job[w] \in Message
            BY <2>1, BusyHasMessage
        <3>2. PICK i \in 0..3 : job[w] = attempt(t, i)
            BY <2>2, <3>1, Attempts
        <3>3. \A k \in 0..3 : attempt(t, k) = job[w] <=> k = i
            BY <3>2, Attempts
        <3>4. PICK dq \in Int, dc \in Int : dq = 0 /\ dc = -1
            OBVIOUS
        <3>5. \A k \in 0..3 :
                  /\ queued'[attempt(t, k)] =
                         queued[attempt(t, k)] + IF k = i THEN dq ELSE 0
                  /\ (IF pc'[w] = "running" /\ job'[w] = attempt(t, k)
                      THEN 1 ELSE 0) =
                         (IF pc[w] = "running" /\ job[w] = attempt(t, k)
                          THEN 1 ELSE 0) + IF k = i THEN dc ELSE 0
            BY <1>a, <2>1, <3>3, <3>4
        <3>6. (runs'[t] - runs[t]) + (4 - i) * dq + (3 - i) * dc
                  <= 4 * (kills' - kills)
            BY <1>a, <2>1, <3>4
        <3>7. QED
            <4>1. Moves(w, t, i, i, dq, dc)
                BY <2>1, <3>5, <3>6 DEF Moves
            <4>2. QED
                BY <4>1, Moved
    <2>3. CASE job[w].task # t
        <3>1. \A k \in 0..3 : attempt(t, k) # job[w]
            BY <2>3, Attempts
        <3>2. \A k \in 0..3 : Running(t, k)' = Running(t, k)
            BY <2>1, <3>1 DEF Running
        <3>3. QED
            BY <2>1, <3>2, Untouched
    <2>4. QED
        BY <2>2, <2>3
<1>5. ASSUME NEW w \in Workers, task_raises(w)
      PROVE  Budgeted(t)'
    <2> DEFINE u == job[w].task
               r == job[w].retries
    <2>1. /\ pc[w] = "running" /\ pc'[w] = "ended" /\ job' = job
          /\ \A v \in Workers \ {w} : pc'[v] = pc[v] /\ job'[v] = job[v]
          /\ accepted' = accepted /\ kills' = kills /\ runs' = runs
        BY <1>5, <1>a DEF task_raises, history
    <2>2. /\ job[w] \in Message /\ u \in Tasks /\ r \in Nat
          /\ r <= max_retries(u)
        BY <2>1, BusyHasMessage
    <2>3. \A k \in 0..3 :
              queued'[attempt(t, k)] =
                  queued[attempt(t, k)]
                      + IF t = u /\ r < 3 /\ k = r + 1 THEN 1 ELSE 0
        <3>1. CASE r < max_retries(u)
            <4>1. apply_async(u, r + 1)
                BY <1>5, <3>1 DEF task_raises
            <4>2. r + 1 \in Nat /\ r + 1 <= max_retries(u)
                BY <2>2, <3>1, RetriesBounded
            <4>3. t = u => r < 3
                BY <3>1, Attempts
            <4>4. QED
                BY <2>2, <4>1, <4>2, <4>3, OneMore
        <3>2. CASE ~(r < max_retries(u))
            <4>1. queued' = queued
                BY <1>5, <3>2 DEF task_raises
            <4>2. t = u => ~(r < 3)
                BY <3>2, Attempts
            <4>3. QED
                BY <1>a, <4>1, <4>2
        <3>3. QED
            BY <3>1, <3>2
    <2>4. CASE u = t
        <3>1. r \in 0..3 /\ job[w] = attempt(t, r)
            BY <2>2, <2>4, Attempts
        <3>2. \A k \in 0..3 : attempt(t, k) = job[w] <=> k = r
            BY <3>1, Attempts
        <3>2a. PICK j \in 0..3, dc \in Int : j = r /\ dc = -1
            BY <3>1
        <3>3. \A k \in 0..3 :
                  (IF pc'[w] = "running" /\ job'[w] = attempt(t, k)
                   THEN 1 ELSE 0) =
                      (IF pc[w] = "running" /\ job[w] = attempt(t, k)
                       THEN 1 ELSE 0) + IF k = j THEN dc ELSE 0
            BY <1>a, <2>1, <3>2, <3>2a
        <3>4. PICK i \in 0..3, dq \in Int :
                  /\ \A k \in 0..3 :
                         queued'[attempt(t, k)] =
                             queued[attempt(t, k)] + IF k = i THEN dq ELSE 0
                  /\ (4 - i) * dq = 3 - r
            <4>1. CASE r < 3
                <5>1. /\ r + 1 \in 0..3
                      /\ \A k \in 0..3 :
                             queued'[attempt(t, k)] =
                                 queued[attempt(t, k)]
                                     + IF k = r + 1 THEN 1 ELSE 0
                      /\ (4 - (r + 1)) * 1 = 3 - r
                    BY <2>2, <2>3, <2>4, <4>1
                <5>2. QED
                    BY <5>1
            <4>2. CASE ~(r < 3)
                <5>1. /\ 3 \in 0..3
                      /\ \A k \in 0..3 :
                             queued'[attempt(t, k)] =
                                 queued[attempt(t, k)]
                                     + IF k = 3 THEN 0 ELSE 0
                      /\ (4 - 3) * 0 = 3 - r
                    BY <1>a, <2>3, <3>1, <4>2
                <5>2. QED
                    BY <5>1
            <4>3. QED
                BY <4>1, <4>2
        <3>5. (runs'[t] - runs[t]) + (4 - i) * dq + (3 - j) * dc
                  <= 4 * (kills' - kills)
            <4>1. (4 - i) * dq = 3 - r
                BY <3>4
            <4>2. runs'[t] = runs[t] /\ kills' = kills /\ r \in Nat
                BY <2>1, <2>2
            <4>3. (3 - j) * dc = r - 3
                BY <3>2a
            <4>4. QED
                BY <1>a, <4>1, <4>2, <4>3
        <3>6. QED
            <4>1. Moves(w, t, i, j, dq, dc)
                BY <2>1, <3>3, <3>4, <3>5 DEF Moves
            <4>2. QED
                BY <4>1, Moved
    <2>5. CASE u # t
        <3>1. \A k \in 0..3 : attempt(t, k) # job[w]
            BY <2>5, Attempts
        <3>2. \A k \in 0..3 : Running(t, k)' = Running(t, k)
            BY <2>1, <3>1 DEF Running
        <3>3. \A k \in 0..3 : queued'[attempt(t, k)] = queued[attempt(t, k)]
            BY <1>a, <2>3, <2>5
        <3>4. QED
            BY <2>1, <3>2, <3>3, Untouched
    <2>6. QED
        BY <2>4, <2>5
<1>6. ASSUME NEW w \in Workers, ack(w)
      PROVE  Budgeted(t)'
    <2>1. /\ pc[w] = "ended" /\ pc' = [pc EXCEPT ![w] = "idle"]
          /\ job' = [job EXCEPT ![w] = Nil]
          /\ accepted' = accepted /\ kills' = kills /\ queued' = queued
          /\ runs' = runs
        BY <1>6 DEF ack, Release, history
    <2>2. \A k \in 0..3 : Running(t, k)' = Running(t, k)
        BY <1>a, <2>1 DEF Running
    <2>3. QED
        BY <2>1, <2>2, Untouched
<1>7. ASSUME NEW w \in Workers, kill(w)
      PROVE  Budgeted(t)'
    <2> DEFINE u == job[w].task
               r == job[w].retries
    <2>1. /\ pc[w] # "idle" /\ pc'[w] = "idle"
          /\ \A v \in Workers \ {w} : pc'[v] = pc[v] /\ job'[v] = job[v]
          /\ accepted' = accepted /\ kills' = kills + 1 /\ runs' = runs
        BY <1>7, <1>a DEF kill, Release, history
    <2>2. /\ job[w] \in Message /\ u \in Tasks /\ r \in Nat
          /\ r <= max_retries(u)
        BY <2>1, BusyHasMessage
    <2>3. \A k \in 0..3 :
              queued'[attempt(t, k)] =
                  queued[attempt(t, k)] + IF t = u /\ k = r THEN 1 ELSE 0
        BY <1>7, <2>2, OneMore DEF kill
    <2>4. CASE u = t
        <3>1. r \in 0..3 /\ job[w] = attempt(t, r)
            BY <2>2, <2>4, Attempts
        <3>2. \A k \in 0..3 : attempt(t, k) = job[w] <=> k = r
            BY <3>1, Attempts
        <3>3. PICK j \in 0..3, dq \in Int, dc \in Int :
                  /\ j = r /\ dq = 1
                  /\ dc = IF pc[w] = "running" THEN -1 ELSE 0
            BY <3>1
        <3>4. \A k \in 0..3 :
                  /\ queued'[attempt(t, k)] =
                         queued[attempt(t, k)] + IF k = j THEN dq ELSE 0
                  /\ (IF pc'[w] = "running" /\ job'[w] = attempt(t, k)
                      THEN 1 ELSE 0) =
                         (IF pc[w] = "running" /\ job[w] = attempt(t, k)
                          THEN 1 ELSE 0) + IF k = j THEN dc ELSE 0
            BY <2>1, <2>3, <2>4, <3>2, <3>3
        <3>5. (runs'[t] - runs[t]) + (4 - j) * dq + (3 - j) * dc
                  <= 4 * (kills' - kills)
            <4>1. (3 - j) * dc <= 0 /\ (3 - j) * dc \in Int
                BY <3>3
            <4>2. runs'[t] - runs[t] = 0 /\ kills' - kills = 1
                BY <1>a, <2>1
            <4>3. (4 - j) * dq = 4 - j
                BY <3>3
            <4>4. QED
                BY <4>1, <4>2, <4>3
        <3>6. QED
            <4>1. Moves(w, t, j, j, dq, dc)
                BY <2>1, <3>4, <3>5 DEF Moves
            <4>2. QED
                BY <4>1, Moved
    <2>5. CASE u # t
        <3>1. \A k \in 0..3 : attempt(t, k) # job[w]
            BY <2>5, Attempts
        <3>2. \A k \in 0..3 :
                  /\ queued'[attempt(t, k)] =
                         queued[attempt(t, k)] + IF k = 0 THEN 0 ELSE 0
                  /\ (IF pc'[w] = "running" /\ job'[w] = attempt(t, k)
                      THEN 1 ELSE 0) =
                         (IF pc[w] = "running" /\ job[w] = attempt(t, k)
                          THEN 1 ELSE 0) + IF k = 0 THEN 0 ELSE 0
            BY <1>a, <2>1, <2>3, <2>5, <3>1
        <3>3. (runs'[t] - runs[t]) + (4 - 0) * 0 + (3 - 0) * 0
                  <= 4 * (kills' - kills)
            BY <1>a, <2>1
        <3>4. QED
            <4>1. Moves(w, t, 0, 0, 0, 0)
                BY <2>1, <3>2, <3>3 DEF Moves
            <4>2. QED
                BY <4>1, Moved
    <2>6. QED
        BY <2>4, <2>5
<1>8. CASE set_active
    <2>1. /\ UNCHANGED <<queued, worker, accepted, kills>> /\ runs' = runs
        BY <1>8 DEF set_active, history
    <2>2. \A k \in 0..3 : Running(t, k)' = Running(t, k)
        BY <2>1, RunningSame
    <2>3. QED
        BY <2>1, <2>2, Untouched
<1>9. CASE UNCHANGED vars
    <2>1. /\ UNCHANGED <<queued, worker, accepted, kills>> /\ runs' = runs
        BY <1>9 DEF vars, history
    <2>2. \A k \in 0..3 : Running(t, k)' = Running(t, k)
        BY <2>1, RunningSame
    <2>3. QED
        BY <2>1, <2>2, Untouched
<1>10. QED
    BY <1>1, <1>2, <1>3, <1>4, <1>5, <1>6, <1>7, <1>8, <1>9
    DEF Next, WorkerStep

\* The runs of a webhook's task stay within four for its acceptance and four
\* for each kill, for any number of workers, webhooks and kills: a kill brings
\* one message back, and with it no more runs than a new webhook.
THEOREM RetriesEnd == Spec => []RunsWithinBudget
<1>1. Init => TypeOK /\ RunsCounted /\ WithinBudget
    <2>1. Init => TypeOK /\ RunsCounted
        <3>1. Init => RunsCounted
            BY DEF Init, RunsCounted
        <3>2. QED
            BY <3>1, InitTypes
    <2>2. ASSUME Init, NEW t \in Webhooks
          PROVE  Budgeted(t)
        <3>1. \A k \in 0..3 : Running(t, k) = {}
            BY <2>2 DEF Init, Running
        <3>2. \A k \in 0..3 : /\ IsFiniteSet(Running(t, k))
                              /\ Cardinality(Running(t, k)) = 0
            BY <3>1, FS_EmptySet
        <3>3. \A k \in 0..3 : queued[attempt(t, k)] = 0
            BY <2>2, Attempts DEF Init
        <3>4. Left(t) = 0
            BY <3>2, <3>3 DEF Left
        <3>5. QED
            BY <2>2, <3>2, <3>4 DEF Init, Budgeted
    <2>3. QED
        BY <2>1, <2>2 DEF WithinBudget
<1>2. TypeOK /\ RunsCounted /\ WithinBudget /\ [Next]_vars
          => TypeOK' /\ RunsCounted' /\ WithinBudget'
    BY TypeStep, CountedStep, BudgetStep
<1>3. TypeOK /\ WithinBudget => RunsWithinBudget
    <2> SUFFICES ASSUME TypeOK, WithinBudget, NEW t \in Webhooks
                 PROVE  runs[t] <= (1 + max_retries(t)) * (1 + kills)
        BY DEF RunsWithinBudget
    <2>1. \A k \in 0..3 : /\ queued[attempt(t, k)] \in Nat
                          /\ Cardinality(Running(t, k)) \in Nat
        BY Attempts, FS_CardinalityType DEF TypeOK, WithinBudget, Budgeted
    <2>2. Left(t) \in Nat
        BY <2>1 DEF Left
    <2>3. runs[t] \in Nat /\ kills \in Nat
        BY TasksAssumption DEF TypeOK
    <2>4. runs[t] + Left(t) <= 4 * (kills + IF t \in accepted THEN 1 ELSE 0)
        BY DEF WithinBudget, Budgeted
    <2>5. runs[t] <= 4 * (1 + kills)
        BY <2>2, <2>3, <2>4
    <2>6. QED
        BY <2>5, Attempts
<1>4. QED
    BY <1>1, <1>2, <1>3, PTL DEF Spec

-----------------------------------------------------------------------------
(* What the bodies of this commit come to *)

\* process_webhook reads account.credentials, which the model calls
\* credentials_json.
LEMMA WebhookRaises ==
    ASSUME NEW t \in Known
    PROVE  Raises(t)
<1>1. t \in Webhooks /\ t \notin Periodic
    BY TasksAssumption
<1>2. body(t) = process_webhook
    BY <1>1 DEF body, Periodic
<1>3. HasAccount(t)
    BY <1>1 DEF HasAccount
<1>4. "credentials" \notin Orm["provider_accounts"].columns
    BY DEF Orm, ProviderAccountModel, Model, UUIDPKMixin, TimestampMixin
<1>5. ~Builds(connected_account)
    BY <1>4 DEF Builds, connected_account, Query
<1>6. 2 \in DOMAIN process_webhook /\ ~process_webhook[2].fits
    BY <1>5 DEF process_webhook, OnAccount
<1>7. QED
    BY <1>2, <1>3, <1>6 DEF Raises

NothingRecorded == recorded = {}

\* AcceptedWebhookRecorded fails in every instance and not by bad luck: however
\* many workers, retries and kills there are, no webhook is ever recorded.
THEOREM NoWebhookRecorded == Spec => []NothingRecorded
<1>1. Init => NothingRecorded
    BY DEF Init, NothingRecorded
<1>2. NothingRecorded /\ [Next]_vars => NothingRecorded'
    <2> SUFFICES ASSUME NothingRecorded, [Next]_vars PROVE NothingRecorded'
        OBVIOUS
    <2>1. ASSUME NEW w \in Workers, task_returns(w)
          PROVE  NothingRecorded'
        <3>1. job[w].task \notin Known
            BY <2>1, WebhookRaises DEF task_returns
        <3>2. QED
            BY <2>1, <3>1 DEF task_returns, NothingRecorded
    <2>2. ASSUME NEW w \in Workers,
                 \/ \E m \in Message : take(w, m)
                 \/ task_raises(w) \/ ack(w) \/ kill(w)
          PROVE  NothingRecorded'
        BY <2>2 DEF take, task_raises, ack, kill, history, NothingRecorded
    <2>3. CASE \/ \E t \in Webhooks : dispatch_webhook(t)
               \/ \E t \in Periodic : beat(t)
               \/ set_active \/ UNCHANGED vars
        BY <2>3 DEF dispatch_webhook, beat, set_active, vars, history,
           NothingRecorded
    <2>4. QED
        BY <2>1, <2>2, <2>3 DEF Next, WorkerStep
<1>3. QED
    BY <1>1, <1>2, PTL DEF Spec

=============================================================================
