--------------------------- MODULE MCSendDocument ---------------------------
(* Instances of SendDocument small enough for TLC.                         *)
EXTENDS SendDocument

CONSTANTS d1, w1, w2, r1, r2

OneDelivery == {d1}

OneWorker == {w1}

TwoWorkers == {w1, w2}

OneRequest == {r1}

TwoRequests == {r1, r2}

=============================================================================
