------------------------ MODULE CircuitBreakerProofs ------------------------
(***************************************************************************)
(* What holds of the circuit breaker for every set of workers, every       *)
(* threshold and every recovery timeout.  Each invariant is inductive by   *)
(* itself or with TypeOK.                                                  *)
(***************************************************************************)
EXTENDS CircuitBreaker, TLAPS

\* The state keeps its types: counters stay natural numbers, and the age of
\* the opening stays within the recovery timeout.
THEOREM TypeCorrect == Spec => []TypeOK
<1> USE BreakerAssumption DEF TypeOK, CircuitState, Modes, Locations, Goto
<1>1. Init => TypeOK
    BY DEF Init
<1>2. TypeOK /\ [Next]_vars => TypeOK'
    <2> SUFFICES ASSUME TypeOK, [Next]_vars
                 PROVE  TypeOK'
        OBVIOUS
    <2>1. ASSUME NEW w \in Workers, guard(w)
          PROVE  TypeOK'
        BY <2>1 DEF guard, hash
    <2>2. ASSUME NEW w \in Workers, guard_elapsed(w)
          PROVE  TypeOK'
        BY <2>2 DEF guard_elapsed, hash
    <2>3. ASSUME NEW w \in Workers, guard_probe(w)
          PROVE  TypeOK'
        BY <2>3 DEF guard_probe, ToHalfOpen
    <2>4. ASSUME NEW w \in Workers, record_success(w)
          PROVE  TypeOK'
        BY <2>4 DEF record_success, MustProbe, hash
    <2>5. ASSUME NEW w \in Workers, success_probe(w)
          PROVE  TypeOK'
        BY <2>5 DEF success_probe, ToHalfOpen
    <2>6. ASSUME NEW w \in Workers, success_tally_read(w)
          PROVE  TypeOK'
        BY <2>6 DEF success_tally_read, OneMore, hash
    <2>7. ASSUME NEW w \in Workers, success_tally_write(w)
          PROVE  TypeOK'
        BY <2>7 DEF success_tally_write
    <2>8. ASSUME NEW w \in Workers, success_close(w)
          PROVE  TypeOK'
        BY <2>8 DEF success_close, ToClosed
    <2>9. ASSUME NEW w \in Workers, success_clear(w)
          PROVE  TypeOK'
        BY <2>9 DEF success_clear
    <2>10. ASSUME NEW w \in Workers, record_failure(w)
           PROVE  TypeOK'
        BY <2>10 DEF record_failure, CountFailure
    <2>11. ASSUME NEW w \in Workers, record_failure_timeout(w)
           PROVE  TypeOK'
        BY <2>11 DEF record_failure_timeout, CountFailure
    <2>12. ASSUME NEW w \in Workers, failure_open(w)
           PROVE  TypeOK'
        BY <2>12 DEF failure_open, ToOpen
    <2>13. ASSUME NEW w \in Workers, call_unrecorded(w)
           PROVE  TypeOK'
        BY <2>13 DEF call_unrecorded, hash
    <2>14. ASSUME NEW w \in Workers, Abandon(w)
           PROVE  TypeOK'
        BY <2>14 DEF Abandon, Owed, hash
    <2>15. CASE Tick
        BY <2>15 DEF Tick, NextAge
    <2>16. CASE ProviderTurns
        BY <2>16 DEF ProviderTurns, hash
    <2>17. CASE UNCHANGED vars
        BY <2>17 DEF vars, hash
    <2>18. QED
        BY <2>1, <2>2, <2>3, <2>4, <2>5, <2>6, <2>7, <2>8, <2>9, <2>10, <2>11,
           <2>12, <2>13, <2>14, <2>15, <2>16, <2>17 DEF Next, Step
<1>3. QED
    BY <1>1, <1>2, PTL DEF Spec

-----------------------------------------------------------------------------

\* No interleaving of failures, successes and probes forgets that the failure
\* count has reached its threshold: the worker that made it reach it is still
\* about to open the breaker, or was lost.  What could disturb this are the
\* steps that raise the count, which leave such a worker behind, and those
\* that end an opening, which reset the count.
THEOREM ThresholdHolds == Spec => []ThresholdNeverMissed
<1> USE BreakerAssumption DEF Goto
<1>1. Init => ThresholdNeverMissed
    BY DEF Init, ThresholdNeverMissed
<1>2. TypeOK /\ ThresholdNeverMissed /\ [Next]_vars => ThresholdNeverMissed'
    <2> SUFFICES ASSUME TypeOK, ThresholdNeverMissed, [Next]_vars
                 PROVE  ThresholdNeverMissed'
        OBVIOUS
    <2> USE DEF ThresholdNeverMissed, TypeOK
    <2>1. ASSUME NEW w \in Workers,
                 guard(w) \/ guard_elapsed(w) \/ guard_probe(w)
          PROVE  ThresholdNeverMissed'
        BY <2>1 DEF guard, guard_elapsed, guard_probe, ToHalfOpen, hash
    <2>2. ASSUME NEW w \in Workers,
                 record_success(w) \/ success_probe(w) \/ call_unrecorded(w)
          PROVE  ThresholdNeverMissed'
        BY <2>2 DEF record_success, success_probe, call_unrecorded, ToHalfOpen,
                    hash
    <2>3. ASSUME NEW w \in Workers,
                 success_tally_read(w) \/ success_tally_write(w)
          PROVE  ThresholdNeverMissed'
        BY <2>3 DEF success_tally_read, success_tally_write, hash
    <2>4. ASSUME NEW w \in Workers, success_close(w) \/ success_clear(w)
          PROVE  ThresholdNeverMissed'
        BY <2>4 DEF success_close, success_clear, ToClosed
    <2>5. ASSUME NEW w \in Workers, record_failure(w)
          PROVE  ThresholdNeverMissed'
        <3>1. CASE ThresholdReached(failures + 1)
            BY <2>5, <3>1 DEF record_failure, CountFailure, Locations
        <3>2. CASE ~ThresholdReached(failures + 1)
            BY <2>5, <3>2 DEF record_failure, CountFailure, ThresholdReached
        <3>3. QED
            BY <3>1, <3>2
    <2>6. ASSUME NEW w \in Workers, record_failure_timeout(w)
          PROVE  ThresholdNeverMissed'
        BY <2>6 DEF record_failure_timeout, CountFailure, Locations
    <2>7. ASSUME NEW w \in Workers, failure_open(w)
          PROVE  ThresholdNeverMissed'
        BY <2>7 DEF failure_open, ToOpen
    <2>8. ASSUME NEW w \in Workers, Abandon(w)
          PROVE  ThresholdNeverMissed'
        BY <2>8 DEF Abandon, Owed, hash
    <2>9. CASE Tick \/ ProviderTurns \/ UNCHANGED vars
        BY <2>9 DEF Tick, ProviderTurns, vars, hash
    <2>10. QED
        BY <2>1, <2>2, <2>3, <2>4, <2>5, <2>6, <2>7, <2>8, <2>9 DEF Next, Step
<1>3. QED
    BY <1>1, <1>2, TypeCorrect, PTL DEF Spec

\* The same for the tally of half-open successes: increments may be lost to
\* the read-then-write, but whoever writes a full tally is still about to
\* close the breaker, or was lost.
THEOREM TallyHolds == Spec => []TallyNeverMissed
<1> USE BreakerAssumption DEF Goto
<1>1. Init => TallyNeverMissed
    BY DEF Init, TallyNeverMissed
<1>2. TypeOK /\ TallyNeverMissed /\ [Next]_vars => TallyNeverMissed'
    <2> SUFFICES ASSUME TypeOK, TallyNeverMissed, [Next]_vars
                 PROVE  TallyNeverMissed'
        OBVIOUS
    <2> USE DEF TallyNeverMissed, TypeOK
    <2>1. ASSUME NEW w \in Workers,
                 guard(w) \/ guard_elapsed(w) \/ guard_probe(w)
          PROVE  TallyNeverMissed'
        BY <2>1 DEF guard, guard_elapsed, guard_probe, ToHalfOpen, hash
    <2>2. ASSUME NEW w \in Workers,
                 record_success(w) \/ success_probe(w) \/ call_unrecorded(w)
          PROVE  TallyNeverMissed'
        BY <2>2 DEF record_success, success_probe, call_unrecorded, ToHalfOpen,
                    hash
    <2>3. ASSUME NEW w \in Workers, success_tally_read(w)
          PROVE  TallyNeverMissed'
        BY <2>3 DEF success_tally_read, hash
    <2>4. ASSUME NEW w \in Workers, success_tally_write(w)
          PROVE  TallyNeverMissed'
        <3>1. CASE TallyComplete(half_open_count[w])
            BY <2>4, <3>1 DEF success_tally_write, Locations
        <3>2. CASE ~TallyComplete(half_open_count[w])
            BY <2>4, <3>2 DEF success_tally_write, TallyComplete
        <3>3. QED
            BY <3>1, <3>2
    <2>5. ASSUME NEW w \in Workers, success_close(w) \/ success_clear(w)
          PROVE  TallyNeverMissed'
        BY <2>5 DEF success_close, success_clear, ToClosed
    <2>6. ASSUME NEW w \in Workers,
                 record_failure(w) \/ record_failure_timeout(w) \/ failure_open(w)
          PROVE  TallyNeverMissed'
        BY <2>6 DEF record_failure, record_failure_timeout, failure_open,
                    CountFailure, ToOpen
    <2>7. ASSUME NEW w \in Workers, Abandon(w)
          PROVE  TallyNeverMissed'
        BY <2>7 DEF Abandon, Owed, hash
    <2>8. CASE Tick \/ ProviderTurns \/ UNCHANGED vars
        BY <2>8 DEF Tick, ProviderTurns, vars, hash
    <2>9. QED
        BY <2>1, <2>2, <2>3, <2>4, <2>5, <2>6, <2>7, <2>8 DEF Next, Step
<1>3. QED
    BY <1>1, <1>2, TypeCorrect, PTL DEF Spec

=============================================================================
