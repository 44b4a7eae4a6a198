-------------------------- MODULE MCCircuitBreaker --------------------------
(* Instances of CircuitBreaker small enough for TLC.                       *)
EXTENDS CircuitBreaker

CONSTANTS w1, w2, w3

TwoWorkers == {w1, w2}

ThreeWorkers == {w1, w2, w3}

=============================================================================
