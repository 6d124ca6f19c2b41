------------------------------- MODULE MCTcp -------------------------------
(* Tcp with two threads and interchangeable handles, sockets and threads,  *)
(* and a late store to one of the sockets at most.                         *)
EXTENDS Tcp, FiniteSets, TLC

CONSTANTS t1, t2, s1, s2, h1, h2, h3

MCThreads == {t1, t2}
MCSockets == {s1, s2}
MCHandles == {h1, h2, h3}
MCSymmetry == Permutations(MCThreads) \cup Permutations(MCSockets) \cup Permutations(MCHandles)
OneStale == Cardinality(stale) <= 1
=============================================================================
