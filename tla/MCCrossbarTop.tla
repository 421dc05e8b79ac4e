---------------------------- MODULE MCCrossbarTop ----------------------------
EXTENDS CrossbarTop, TLC

MCStages == TopStages

\* A PE of the first cluster and one of the last.
MCSources == {5, 12}

\* With three requests: one address, so that all of them meet at one memory.
ReuseAddrs == {MemBegin(1) - 1}

\* With two requests: the last address of the first memory and the first of
\* the last memory.
PairAddrs == {MemBegin(1) - 1, MemBegin(3)}

Symmetry == Permutations(Trans)
=============================================================================
