---------------------------- MODULE FastPQMachine ---------------------------
(***************************************************************************)
(* FastPriorityQueue as a machine: any sequence of enqueue and dequeue     *)
(* calls, where an item is the number of its arrival.  It implements       *)
(* PriorityQueue.                                                          *)
(***************************************************************************)
EXTENDS FastPQ

CONSTANT MaxArrivals   \* bound on the number of enqueue calls

ASSUME MaxArrivalsAssumption == MaxArrivals \in Nat

VARIABLES pq,         \* the queue
          arrivals,   \* the number of enqueue calls so far
          ret         \* what the last call returned: <<>> or <<entry>>

qvars == <<pq, arrivals, ret>>

QInit ==
  /\ pq = FPQNew
  /\ arrivals = 0
  /\ ret = <<>>

Enqueue(p) ==
  /\ arrivals < MaxArrivals
  /\ pq' = FPQEnqueue(pq, p, arrivals)
  /\ arrivals' = arrivals + 1
  /\ ret' = <<>>

DequeueSome ==
  /\ pq.bits # {}
  /\ ret' = <<[pri |-> Highest(pq), seq |-> FPQFront(pq)]>>
  /\ pq' = FPQDequeue(pq)
  /\ UNCHANGED arrivals

DequeueNone ==
  /\ pq.bits = {}
  /\ ret' = <<>>
  /\ UNCHANGED <<pq, arrivals>>

QNext ==
  \/ \E p \in Priorities : Enqueue(p)
  \/ DequeueSome
  \/ DequeueNone

QSpec == QInit /\ [][QNext]_qvars

-----------------------------------------------------------------------------
(* Properties. *)

\* Type invariant.
QTypeOK ==
  /\ pq \in [bits : SUBSET Priorities, queues : [Priorities -> Seq(Nat)]]
  /\ arrivals \in Nat
  /\ ret \in Seq([pri : Priorities, seq : Nat])

\* A bit is set exactly when its FIFO holds something: dequeue trusts `bits`
\* both to find work and to report that there is none.
BitsExact == pq.bits = {p \in Priorities : pq.queues[p] # <<>>}

\* s is in the order of arrival, and all of it arrived before n.
InArrivalOrder(s, n) ==
  /\ \A i \in DOMAIN s : s[i] < n
  /\ \A i, j \in DOMAIN s : i < j => s[i] < s[j]

\* Every FIFO holds its items in the order of their arrival: push_back and
\* pop_front never let a later item overtake.
FifoOrdered == \A p \in Priorities : InArrivalOrder(pq.queues[p], arrivals)

Holds(s, x) == \E i \in DOMAIN s : s[i] = x

\* The entries of the queue, without the structure that holds them.
Contents ==
  {e \in [pri : Priorities, seq : 0 .. arrivals - 1] :
     Holds(pq.queues[e.pri], e.seq)}

PQ == INSTANCE PriorityQueue WITH pending <- Contents

\* FastPriorityQueue implements PriorityQueue: enqueue and dequeue never lose,
\* duplicate or reorder an entry, and dequeue reports None only when the queue
\* is empty.
Refinement == PQ!Spec
=============================================================================
