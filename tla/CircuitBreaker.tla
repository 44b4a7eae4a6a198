--------------------------- MODULE CircuitBreaker ---------------------------
(***************************************************************************)
(* The circuit breaker of one provider account                             *)
(* (infrastructure/reliability/circuit_breaker.py): a hash in Redis that   *)
(* every Celery worker process reads and writes with no lock.  A step is   *)
(* one round trip to Redis: what a worker learnt in one step may be stale  *)
(* in its next.  Accounts have disjoint keys, so one account is enough.    *)
(*                                                                         *)
(* A worker follows send_document_task.py: guard, then the provider call,  *)
(* then record_success, record_failure or no record at all.  A missing     *)
(* hash reads as CLOSED with zero counters, which is how it starts.        *)
(***************************************************************************)
EXTENDS Naturals

CONSTANTS
    Workers,            \* Celery worker processes that send for this account
    FailureThreshold,   \* circuit_failure_threshold
    RecoveryTimeout,    \* circuit_recovery_timeout_seconds, in clock ticks
    HalfOpenMax,        \* circuit_half_open_max_calls
    MaxCrashes,         \* bound: abandoned breaker operations per behaviour
    AnswersMayBeLate    \* whether Redis may answer after the client's timeout

ASSUME BreakerAssumption ==
    /\ FailureThreshold \in Nat \ {0}
    /\ RecoveryTimeout \in Nat
    /\ HalfOpenMax \in Nat \ {0}
    /\ MaxCrashes \in Nat
    /\ AnswersMayBeLate \in BOOLEAN

VARIABLES
    state,                \* hash field "state"
    failures,             \* hash field "failures"
    half_open_successes,  \* hash field "half_open_successes"
    age,                  \* ticks since "opened_at", counted to RecoveryTimeout
    pc,                   \* where each worker is in guard / record_*
    half_open_count,      \* record_success's local copy of the tally
    provider,             \* environment: how the provider answers, see Modes
    crashes,              \* operations abandoned so far
    lost                  \* history: transitions still owed when abandoned

hash == <<state, failures, half_open_successes, age>>
vars == <<hash, pc, half_open_count, provider, crashes, lost>>

CircuitState == {"CLOSED", "OPEN", "HALF_OPEN"}

\* "reliable": every call succeeds; "broken": every call fails with a transient
\* error; "failing": either, or a permanent error that nobody records.
Modes == {"reliable", "failing", "broken"}

Locations == {"idle", "probing", "calling", "resending", "opening",
              "reprobing", "clearing", "tallying", "tallied", "closing"}

TypeOK ==
    /\ state \in CircuitState
    /\ failures \in Nat
    /\ half_open_successes \in Nat
    /\ age \in 0..RecoveryTimeout
    /\ pc \in [Workers -> Locations]
    /\ half_open_count \in [Workers -> Nat]
    /\ provider \in Modes
    /\ crashes \in 0..MaxCrashes
    /\ lost \subseteq {"opening", "closing"}

Init ==
    /\ state = "CLOSED"
    /\ failures = 0
    /\ half_open_successes = 0
    /\ age = 0
    /\ pc = [w \in Workers |-> "idle"]
    /\ half_open_count = [w \in Workers |-> 0]
    /\ provider = "failing"
    /\ crashes = 0
    /\ lost = {}

-----------------------------------------------------------------------------
(* Helpers.  A definition named Mutant... is the one after it with a bug a   *)
(* change to the code could bring; it is used to test the properties only.   *)

Goto(w, location) == pc' = [pc EXCEPT ![w] = location]

\* get_state: no await separates the answer to HGETALL from reading the clock.
MutantRecoveryElapsed == FALSE
RecoveryElapsed == age >= RecoveryTimeout

\* get_state first moves an OPEN breaker whose time is over to HALF_OPEN.
MustProbe == state = "OPEN" /\ RecoveryElapsed

\* guard: what lets the call through, given the state get_state returned.
Admits == state # "OPEN"

MutantThresholdReached(n) == n > FailureThreshold
ThresholdReached(n) == n >= FailureThreshold

MutantTallyComplete(n) == n > HalfOpenMax
TallyComplete(n) == n >= HalfOpenMax

\* half_open_count += 1.  Workers passing stale tallies to each other can raise
\* it without bound, but the code only asks TallyComplete of it: it is counted
\* to HalfOpenMax + 1.
MutantOneMore(n) == n
OneMore(n) == IF n <= HalfOpenMax THEN n + 1 ELSE n

\* _transition: one MULTI that writes state and the fields that go with it.
ToHalfOpen ==
    /\ state' = "HALF_OPEN"
    /\ UNCHANGED <<failures, half_open_successes, age>>

ToOpen ==
    /\ state' = "OPEN"
    /\ age' = 0
    /\ failures' = 0
    /\ lost' = lost \ {"opening"}
    /\ UNCHANGED half_open_successes

ToClosed ==
    /\ state' = "CLOSED"
    /\ failures' = 0
    /\ half_open_successes' = 0
    /\ lost' = {}
    /\ UNCHANGED age

-----------------------------------------------------------------------------
(* guard(account_id), called before every send.  Only OPEN refuses: nothing  *)
(* limits how many calls HALF_OPEN lets through.                             *)

guard(w) ==
    /\ pc[w] = "idle"
    /\ ~MustProbe
    /\ Admits
    /\ Goto(w, "calling")
    /\ UNCHANGED <<hash, half_open_count, provider, crashes, lost>>

\* The recovery timeout is over: this call becomes a probe ...
guard_elapsed(w) ==
    /\ pc[w] = "idle"
    /\ MustProbe
    /\ Goto(w, "probing")
    /\ UNCHANGED <<hash, half_open_count, provider, crashes, lost>>

\* ... once the transition it decided on has reached Redis.
guard_probe(w) ==
    /\ pc[w] = "probing"
    /\ ToHalfOpen
    /\ Goto(w, "calling")
    /\ UNCHANGED <<half_open_count, provider, crashes, lost>>

-----------------------------------------------------------------------------
(* record_success(account_id) *)

\* get_state, after the provider answered.
record_success(w) ==
    /\ pc[w] = "calling"
    /\ provider # "broken"
    /\ Goto(w, CASE MustProbe -> "reprobing"
                 [] state = "OPEN" /\ ~MustProbe -> "idle"
                 [] state = "HALF_OPEN" -> "tallying"
                 [] state = "CLOSED" -> "clearing")
    /\ UNCHANGED <<hash, half_open_count, provider, crashes, lost>>

\* A late success may itself be what moves OPEN to HALF_OPEN.
success_probe(w) ==
    /\ pc[w] = "reprobing"
    /\ ToHalfOpen
    /\ Goto(w, "tallying")
    /\ UNCHANGED <<half_open_count, provider, crashes, lost>>

\* HGET half_open_successes, then HSET of the value plus one: not atomic.
success_tally_read(w) ==
    /\ pc[w] = "tallying"
    /\ half_open_count' =
           [half_open_count EXCEPT ![w] = OneMore(half_open_successes)]
    /\ Goto(w, "tallied")
    /\ UNCHANGED <<hash, provider, crashes, lost>>

success_tally_write(w) ==
    /\ pc[w] = "tallied"
    /\ half_open_successes' = half_open_count[w]
    /\ half_open_count' = [half_open_count EXCEPT ![w] = 0]
    /\ Goto(w, IF TallyComplete(half_open_count[w]) THEN "closing" ELSE "idle")
    /\ UNCHANGED <<state, failures, age, provider, crashes, lost>>

success_close(w) ==
    /\ pc[w] = "closing"
    /\ ToClosed
    /\ Goto(w, "idle")
    /\ UNCHANGED <<half_open_count, provider, crashes>>

\* In CLOSED a success forgets the failures counted so far.
success_clear(w) ==
    /\ pc[w] = "clearing"
    /\ failures' = 0
    /\ lost' = lost \ {"opening"}
    /\ Goto(w, "idle")
    /\ UNCHANGED <<state, half_open_successes, age, half_open_count, provider,
                   crashes>>

-----------------------------------------------------------------------------
(* record_failure(account_id), after a transient provider error *)

\* MULTI: HINCRBY failures, HSET state CLOSED, whatever the state was.  (The
\* mutant writes CLOSED as _transition does, with the count that goes with it.)
MutantCountFailure ==
    /\ failures' = 0
    /\ state' = "CLOSED"
    /\ half_open_successes' = 0
    /\ UNCHANGED age
CountFailure ==
    /\ failures' = failures + 1
    /\ state' = "CLOSED"
    /\ UNCHANGED <<half_open_successes, age>>

record_failure(w) ==
    /\ pc[w] \in {"calling", "resending"}
    /\ pc[w] = "calling" => provider # "reliable"
    /\ CountFailure
    /\ Goto(w, IF ThresholdReached(failures + 1) THEN "opening" ELSE "idle")
    /\ UNCHANGED <<half_open_count, provider, crashes, lost>>

\* The client retries on a timeout (redis_client.py): when only the answer was
\* late, the same MULTI is applied a second time.
record_failure_timeout(w) ==
    /\ AnswersMayBeLate
    /\ pc[w] = "calling"
    /\ provider # "reliable"
    /\ CountFailure
    /\ Goto(w, "resending")
    /\ UNCHANGED <<half_open_count, provider, crashes, lost>>

failure_open(w) ==
    /\ pc[w] = "opening"
    /\ ToOpen
    /\ Goto(w, "idle")
    /\ UNCHANGED <<half_open_count, provider, crashes>>

-----------------------------------------------------------------------------
(* The caller and the environment *)

\* A permanent or unexpected error: send_document_task records nothing.
call_unrecorded(w) ==
    /\ pc[w] = "calling"
    /\ provider = "failing"
    /\ Goto(w, "idle")
    /\ UNCHANGED <<hash, half_open_count, provider, crashes, lost>>

\* The transition a worker at this location is about to make.
Owed(location) ==
    CASE location \in {"opening", "resending"} -> {"opening"}
      [] location = "closing" -> {"closing"}
      [] OTHER -> {}

\* The worker process dies or Redis refuses the next command: what the
\* operation still owed the hash is never written.
Abandon(w) ==
    /\ pc[w] # "idle"
    /\ crashes < MaxCrashes
    /\ crashes' = crashes + 1
    /\ lost' = lost \cup Owed(pc[w])
    /\ half_open_count' = [half_open_count EXCEPT ![w] = 0]
    /\ Goto(w, "idle")
    /\ UNCHANGED <<hash, provider>>

\* opened_at matters only until RecoveryTimeout ticks have passed.
MutantNextAge == age + 1
NextAge == IF age < RecoveryTimeout THEN age + 1 ELSE age

Tick ==
    /\ state = "OPEN"
    /\ age' = NextAge
    /\ UNCHANGED <<state, failures, half_open_successes, pc, half_open_count,
                   provider, crashes, lost>>

\* The provider recovers, deteriorates or breaks down.
ProviderTurns ==
    /\ provider' \in Modes \ {provider}
    /\ UNCHANGED <<hash, pc, half_open_count, crashes, lost>>

-----------------------------------------------------------------------------

\* What a running worker does next, when it has documents to send.
Step(w) ==
    \/ guard(w) \/ guard_elapsed(w) \/ guard_probe(w)
    \/ record_success(w) \/ success_probe(w) \/ success_tally_read(w)
    \/ success_tally_write(w) \/ success_close(w) \/ success_clear(w)
    \/ record_failure(w) \/ record_failure_timeout(w) \/ failure_open(w)
    \/ call_unrecorded(w)

Next ==
    \/ \E w \in Workers : Step(w) \/ Abandon(w)
    \/ Tick
    \/ ProviderTurns

Spec == Init /\ [][Next]_vars

\* Time passes, and a worker that is running keeps taking documents.
Fairness == WF_vars(Tick) /\ \A w \in Workers : WF_vars(Step(w))

FairSpec == Spec /\ Fairness

-----------------------------------------------------------------------------
(* Properties *)

\* Reaching circuit_failure_threshold is never forgotten: whatever successes,
\* probes and other failures come between HINCRBY and the transition, a count
\* at the threshold means a worker is still about to open the breaker, unless
\* that very worker was lost (record_failure, lines 63-67).
ThresholdNeverMissed ==
    failures >= FailureThreshold =>
        \/ "opening" \in lost
        \/ \E w \in Workers : pc[w] \in {"opening", "resending"}

\* The read-then-write of half_open_successes may lose an increment to another
\* worker, but never the last one: a full tally means a worker is about to
\* close the breaker, unless that worker was lost (record_success, 44-53).
TallyNeverMissed ==
    half_open_successes >= HalfOpenMax =>
        "closing" \in lost \/ \E w \in Workers : pc[w] = "closing"

\* An OPEN breaker does not refuse for ever: once the recovery timeout is over,
\* late failures and re-openings by other workers cannot keep every worker out
\* (get_state, 35-39).
OpenEventuallyProbed == state = "OPEN" ~> state # "OPEN"

\* The breaker recovers from whatever the races left in the hash: if from some
\* moment every call succeeds, it ends up CLOSED and stays so.
HealthyProviderCloses == <>[](provider = "reliable") => <>[](state = "CLOSED")

\* The breaker does its work: if from some moment every call fails, it is OPEN
\* again and again, whatever the races, late verdicts and abandoned openings
\* left in the hash (record_failure, 57-67).
BrokenProviderOpens == <>[](provider = "broken") => []<>(state = "OPEN")

\* README.md, "Key engineering decisions": "Open -> Half-Open -> Closed
\* transitions".  Does the code never close an OPEN breaker directly?
ClosesOnlyThroughHalfOpen ==
    [][state = "OPEN" => state' # "CLOSED"]_state

=============================================================================
