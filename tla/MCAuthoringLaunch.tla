--------------------------- MODULE MCAuthoringLaunch ---------------------------
EXTENDS AuthoringLaunch, TLC

Interchangeable ==
    Permutations(Callers) \cup Permutations(Launches) \cup Permutations(Workers)
        \cup Permutations(Digests) \cup Permutations(Deployments)
=============================================================================
