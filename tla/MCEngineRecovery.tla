-------------------------- MODULE MCEngineRecovery --------------------------
EXTENDS EngineRecovery

CONSTANTS k1, k2, v1

\* One file: a put of each key, then a removal of the second.
OneFile == << << [key |-> k1, val |-> v1, ts |-> 1],
                 [key |-> k2, val |-> v1, ts |-> 2],
                 [key |-> k2, val |-> Tombstone, ts |-> 3] >> >>
=============================================================================
