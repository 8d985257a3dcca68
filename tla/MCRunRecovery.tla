---- MODULE MCRunRecovery ----
EXTENDS RunRecovery

CONSTANTS s1, s2, s3

\* Two stages in one batch, and then the third.
Parallel == [s \in Stages |-> IF s = s3 THEN 2 ELSE 1]
==============================
