---------------------------- MODULE MCApiSessions ----------------------------
(* An instance of ApiSessions small enough for TLC.                         *)
EXTENDS ApiSessions

CONSTANTS s1, s2, s3, d1, n1, e1, e2

ThreeSessions == {s1, s2, s3}

OneDocument == {d1}

OneName == {n1}

TwoEntries == {e1, e2}

FirstRetryable == {e1}

BothOrders == {<<e1, e2>>, <<e2, e1>>}

=============================================================================
