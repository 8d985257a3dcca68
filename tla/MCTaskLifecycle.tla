--------------------------- MODULE MCTaskLifecycle ---------------------------
EXTENDS TaskLifecycle, TLC

Interchangeable ==
    Permutations(Callers) \cup Permutations(PackageKeys) \cup Permutations(PurgeKeys)
=============================================================================
