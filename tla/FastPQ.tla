------------------------------- MODULE FastPQ -------------------------------
(***************************************************************************)
(* FastPriorityQueue (kern/modules/util/src/fastpq.rs): one FIFO per       *)
(* priority and a word of bits that says which FIFOs hold something.       *)
(*                                                                         *)
(* The u64 `bits` is the set of the positions of its 1 bits, so that       *)
(* `1 << p` is {p}, `|=` is union, `&= !` is difference, `bits == 0` is    *)
(* emptiness and `MAX - leading_zeros` is the maximum.  FastPriority::new  *)
(* only debug-asserts priority <= 63; a queue is only ever used with       *)
(* priorities in Priorities.                                               *)
(*                                                                         *)
(* The operators act on queue values: FastPQMachine is the queue on its    *)
(* own, Executor and Runtime use it for tasks and for executors.           *)
(* FastPriorityQueueWithLock makes each operation one atomic step,         *)
(* whichever CPU calls it.                                                 *)
(***************************************************************************)
EXTENDS Naturals, Sequences

CONSTANT NUM   \* FastPriority::NUM, 64 in the code

ASSUME NUMAssumption == NUM \in Nat \ {0}

Priorities == 0 .. NUM - 1

FPQNew == [bits |-> {}, queues |-> [p \in Priorities |-> <<>>]]

\* Faulty variant: push_front.
FPQEnqueueFront(q, p, i) ==
  [bits   |-> q.bits \cup {p},
   queues |-> [q.queues EXCEPT ![p] = <<i>> \o @]]

FPQEnqueue(q, p, i) ==
  [bits   |-> q.bits \cup {p},
   queues |-> [q.queues EXCEPT ![p] = Append(@, i)]]

\* Faulty variant: trailing_zeros in place of leading_zeros.
HighestByTrailingZeros(q) == CHOOSE p \in q.bits : \A o \in q.bits : p <= o

Highest(q) == CHOOSE p \in q.bits : \A o \in q.bits : o <= p

\* The item dequeue returns when q.bits # {}.
FPQFront(q) == Head(q.queues[Highest(q)])

\* Faulty variant: the bit of an emptied FIFO stays set.
FPQDequeueKeepBit(q) ==
  LET h == Highest(q) IN
  [bits |-> q.bits, queues |-> [q.queues EXCEPT ![h] = Tail(@)]]

\* The queue after a dequeue that returns an item.
FPQDequeue(q) ==
  LET h == Highest(q) IN
  [bits   |-> IF Len(q.queues[h]) = 1 THEN q.bits \ {h} ELSE q.bits,
   queues |-> [q.queues EXCEPT ![h] = Tail(@)]]
=============================================================================
