-------------------------- MODULE MCRunActivation ----------------------------
EXTENDS RunActivation

\* Job "c" continues the Run of job "a"; the handler of "a" may queue it, and
\* so may an operator.
MCRunOf == [j \in Jobs |-> 1]
MCKind == [j \in Jobs |-> IF j = "c" THEN "continuation" ELSE "execute"]
MCCreates == [j \in Jobs |-> IF j = "a" THEN {"c"} ELSE {}]
=============================================================================
