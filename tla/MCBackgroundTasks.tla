-------------------------- MODULE MCBackgroundTasks --------------------------
(* An instance of BackgroundTasks small enough for TLC.                     *)
EXTENDS BackgroundTasks

CONSTANTS h1, h2, w1, w2

TwoWebhooks == {h1, h2}

FirstKnown == {h1}

TwoWorkers == {w1, w2}

OneWorker == {w1}

=============================================================================
