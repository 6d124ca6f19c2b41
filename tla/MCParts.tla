------------------------------- MODULE MCParts ------------------------------
(***************************************************************************)
(* Six parts that share nothing with one another, each explored on its     *)
(* own from a common start: the variable `part` says which one moves.  Of  *)
(* the three executors in NetLocks two share a CPU and are interchangeable. *)
(***************************************************************************)
EXTENDS FastPQMachine, SchedTableNew, Intervals, Loader, NetBuf, NetLocks, TLC

CONSTANTS ex1, ex2, ex3

MCLengths == {42, MTU}
MCExecutors == {ex1, ex2, ex3}
MCCpuOf == [e \in MCExecutors |-> IF e = ex3 THEN 2 ELSE 1]
MCSymmetry == Permutations({ex1, ex2})

VARIABLE part

PartsInit ==
  /\ part \in {"queue", "table", "intervals", "loader", "netbuf", "locks"}
  /\ QInit /\ TInit /\ IInit /\ LInit /\ NInit /\ KInit
  /\ part # "locks" => chosen = [c \in Harts |-> CHOOSE e \in Executors : CpuOf[e] = c]

QueueNext == part = "queue" /\ QNext /\ UNCHANGED <<tvars, ivars, lvars, nvars, kvars, part>>
TableNext == part = "table" /\ TNext /\ UNCHANGED <<qvars, ivars, lvars, nvars, kvars, part>>
IntervalsNext == part = "intervals" /\ INext /\ UNCHANGED <<qvars, tvars, lvars, nvars, kvars, part>>
LoaderNext == part = "loader" /\ LNext /\ UNCHANGED <<qvars, tvars, ivars, nvars, kvars, part>>
NetBufNext == part = "netbuf" /\ NNext /\ UNCHANGED <<qvars, tvars, ivars, lvars, kvars, part>>
LocksNext == part = "locks" /\ KNext /\ UNCHANGED <<qvars, tvars, ivars, lvars, nvars, part>>

\* RuntimeSchedTable::new, the iterator and the loader come to an end, and
\* tasks and handlers may block one another.
Over ==
  /\ \/ part = "table" /\ result # "collecting"
     \/ part = "intervals" /\ stage = "done"
     \/ part = "loader" /\ segs # <<>>
     \/ part = "locks" /\ Deadlocked({a \in Actors : todo[a] # <<>>})
  /\ UNCHANGED <<qvars, tvars, ivars, lvars, nvars, kvars, part>>

PartsNext == QueueNext \/ TableNext \/ IntervalsNext \/ LoaderNext \/ NetBufNext \/ LocksNext \/ Over

PartsSpec == PartsInit /\ [][PartsNext]_<<qvars, tvars, ivars, lvars, nvars, kvars, part>>
=============================================================================
