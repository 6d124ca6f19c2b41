----------------------------- MODULE TaskProofs -----------------------------
(***************************************************************************)
(* Proofs about the tasks of a CPU and the interrupts that come between.   *)
(* FastPriorityQueue has its invariants and implements PriorityQueue for   *)
(* every number of priorities and of arrivals; what is said of Executor,   *)
(* which keeps its tasks in one, holds for any tasks, priorities and       *)
(* wakers; what is said of the external interrupts (Irq), which follow the *)
(* priorities of the tasks, for any CPUs and priorities; and what is said  *)
(* of the locks of the network stack (NetLocks) for any number of users.   *)
(***************************************************************************)
EXTENDS Executor, FastPQMachine, Irq, NetLocks, FiniteSetTheorems, Integers, Sequences, WellFoundedInduction, TLAPS

-----------------------------------------------------------------------------
(* Naturals and sequences. *)

\* A non-empty set of naturals has a least element.
LEMMA NatLeast ==
  ASSUME NEW T \in SUBSET Nat, T # {}
  PROVE  \E n \in T : \A m \in T : n <= m
<1>1. PICK n \in T : \A m \in T : <<m, n>> \notin OpToRel(<, Nat)
  BY NatLessThanWellFounded, WFMin, Zenon
<1>2. \A m \in T : ~(m < n)
  BY <1>1, Zenon DEF OpToRel
<1> QED BY <1>2

\* A non-empty set of naturals below N has a greatest element.
LEMMA GreatestBelow ==
  ASSUME NEW N \in Nat, NEW B \in SUBSET (0 .. N - 1), B # {}
  PROVE  \E p \in B : \A o \in B : o <= p
<1> DEFINE U == {n \in Nat : \A o \in B : o <= n}
<1>1. N \in U
  OBVIOUS
<1>2. PICK n \in U : \A m \in U : n <= m
  BY <1>1, NatLeast, Zenon
<1>3. ASSUME n \notin B PROVE FALSE
  <2>1. n \in Nat /\ \A o \in B : o \in Nat /\ o <= n
    BY <1>2
  <2>2. \A o \in B : o <= n - 1
    BY <1>3, <2>1
  <2>3. PICK o \in B : TRUE
    BY Zenon
  <2> HIDE DEF U
  <2>4. o \in Nat /\ o <= n - 1 /\ n \in Nat
    BY <2>1, <2>2, <2>3, Zenon
  <2>5. n - 1 \in Nat
    BY <2>4
  <2>6. n - 1 \in U
    BY <2>2, <2>5, Zenon DEF U
  <2> QED BY <1>2, <2>1, <2>6
<1> QED BY <1>2, <1>3, Zenon

\* A sequence is empty when its length is zero.
LEMMA EmptyIsLenZero ==
  ASSUME NEW S, NEW s \in Seq(S)
  PROVE  s = <<>> <=> Len(s) = 0
OBVIOUS

\* What Append does to a sequence.
LEMMA AppendFacts ==
  ASSUME NEW S, NEW s \in Seq(S), NEW x \in S
  PROVE  /\ Append(s, x) \in Seq(S)
         /\ Append(s, x) # <<>>
         /\ DOMAIN Append(s, x) = 1 .. Len(s) + 1
         /\ DOMAIN s = 1 .. Len(s)
         /\ Append(s, x)[Len(s) + 1] = x
         /\ \A i \in DOMAIN s : Append(s, x)[i] = s[i]
OBVIOUS

\* What Tail does to a non-empty sequence.
LEMMA TailFacts ==
  ASSUME NEW S, NEW s \in Seq(S), s # <<>>
  PROVE  /\ Tail(s) \in Seq(S)
         /\ Head(s) \in S
         /\ Head(s) = s[1]
         /\ 1 \in DOMAIN s
         /\ DOMAIN Tail(s) = 1 .. Len(s) - 1
         /\ DOMAIN s = 1 .. Len(s)
         /\ \A i \in DOMAIN Tail(s) : Tail(s)[i] = s[i + 1]
         /\ Tail(s) = <<>> <=> Len(s) = 1
<1>1. Len(s) \in Nat /\ Len(s) # 0
  OBVIOUS
<1>2. Len(Tail(s)) = Len(s) - 1 /\ Tail(s) \in Seq(S)
  BY <1>1
<1>3. Tail(s) = <<>> <=> Len(Tail(s)) = 0
  <2> DEFINE t == Tail(s)
  <2>1. t \in Seq(S)
    BY <1>2, Zenon
  <2> HIDE DEF t
  <2>2. t = <<>> <=> Len(t) = 0
    BY <2>1, EmptyIsLenZero, Zenon
  <2> QED BY <2>2, Zenon DEF t
<1> QED BY <1>1, <1>2, <1>3


-----------------------------------------------------------------------------
(* FastPriorityQueue. *)

FifosType == [bits : SUBSET Priorities, queues : [Priorities -> Seq(Nat)]]

-----------------------------------------------------------------------------
(* Lemmas about the operators on queue values. *)

\* `MAX - leading_zeros` is a set bit and no higher bit is set.
LEMMA HighestIsMax ==
  ASSUME NEW q \in FifosType, q.bits # {}
  PROVE  /\ Highest(q) \in q.bits
         /\ Highest(q) \in Priorities
         /\ \A o \in q.bits : o <= Highest(q)
<1> DEFINE B == q.bits
<1>1. B \in SUBSET (0 .. NUM - 1) /\ B # {}
  BY Zenon DEF FifosType, Priorities
<1>2. \E p \in B : \A o \in B : o <= p
  BY <1>1, NUMAssumption, GreatestBelow, Zenon
<1> QED BY <1>1, <1>2, Zenon DEF Highest, Priorities

\* Appending the newest arrival and taking the oldest keep a FIFO in order.
LEMMA AppendInOrder ==
  ASSUME NEW s \in Seq(Nat), NEW n \in Nat, InArrivalOrder(s, n)
  PROVE  /\ InArrivalOrder(Append(s, n), n + 1)
         /\ Append(s, n) # <<>>
         /\ Append(s, n) \in Seq(Nat)
<1> DEFINE t == Append(s, n)
<1>1. /\ t # <<>> /\ t \in Seq(Nat)
      /\ DOMAIN t = 1 .. Len(s) + 1 /\ DOMAIN s = 1 .. Len(s)
      /\ t[Len(s) + 1] = n
      /\ \A i \in DOMAIN s : t[i] = s[i]
  BY AppendFacts
<1>2. Len(s) \in Nat /\ \A i \in DOMAIN s : s[i] \in Nat
  OBVIOUS
<1> HIDE DEF t
<1>3. ASSUME NEW i \in DOMAIN t PROVE t[i] < n + 1 /\ t[i] \in Nat
  BY <1>1, <1>2 DEF InArrivalOrder
<1>4. ASSUME NEW i \in DOMAIN t, NEW j \in DOMAIN t, i < j PROVE t[i] < t[j]
  <2>1. i \in DOMAIN s
    BY <1>1, <1>2, <1>4
  <2>2. CASE j \in DOMAIN s
    BY <1>1, <1>4, <2>1, <2>2, Zenon DEF InArrivalOrder
  <2>3. CASE j = Len(s) + 1
    BY <1>1, <2>1, <2>3, Zenon DEF InArrivalOrder
  <2> QED BY <1>1, <1>2, <2>2, <2>3
<1> QED BY <1>1, <1>3, <1>4, Zenon DEF InArrivalOrder, t

\* The same for what Tail leaves, seen as functions.
LEMMA ShiftInOrder ==
  ASSUME NEW N \in Nat, NEW n \in Nat, NEW s, NEW t,
         N # 0, DOMAIN s = 1 .. N, DOMAIN t = 1 .. (N - 1),
         \A i \in 1 .. N : s[i] \in Nat,
         \A i \in 1 .. (N - 1) : t[i] = s[i + 1],
         InArrivalOrder(s, n)
  PROVE  /\ InArrivalOrder(t, n)
         /\ \A i \in DOMAIN s : s[1] <= s[i]
         /\ \A i \in DOMAIN t : s[1] < t[i]
<1>1. /\ \A i \in 1 .. N : s[i] < n
      /\ \A i, j \in 1 .. N : i < j => s[i] < s[j]
  BY Zenon DEF InArrivalOrder
<1>2. ASSUME NEW i \in 1 .. (N - 1)
      PROVE  i + 1 \in 1 .. N /\ 1 \in 1 .. N /\ 1 < i + 1 /\ t[i] = s[i + 1]
  OBVIOUS
<1>3. \A i \in 1 .. (N - 1) : t[i] < n /\ s[1] < t[i]
  BY <1>1, <1>2, Zenon
<1>4. ASSUME NEW i \in 1 .. (N - 1), NEW j \in 1 .. (N - 1), i < j PROVE t[i] < t[j]
  <2>1. i + 1 < j + 1
    BY <1>4
  <2> QED BY <1>1, <1>2, <2>1, Zenon
<1>5. ASSUME NEW i \in 1 .. N PROVE s[1] <= s[i]
  <2>1. CASE i = 1
    BY <2>1
  <2>2. CASE i # 1
    <3>1. 1 < i /\ 1 \in 1 .. N
      BY <2>2
    <3> QED BY <1>1, <3>1
  <2> QED BY <2>1, <2>2, Zenon
<1> QED BY <1>3, <1>4, <1>5, Zenon DEF InArrivalOrder

LEMMA TailInOrder ==
  ASSUME NEW s \in Seq(Nat), s # <<>>, NEW n \in Nat, InArrivalOrder(s, n)
  PROVE  /\ InArrivalOrder(Tail(s), n)
         /\ Tail(s) \in Seq(Nat)
         /\ \A i \in DOMAIN s : Head(s) <= s[i]
         /\ \A i \in DOMAIN Tail(s) : Head(s) < Tail(s)[i]
<1> DEFINE t == Tail(s)
           N == Len(s)
<1>1. /\ t \in Seq(Nat) /\ Head(s) = s[1] /\ 1 \in DOMAIN s
      /\ DOMAIN t = 1 .. N - 1 /\ DOMAIN s = 1 .. N
      /\ \A i \in DOMAIN t : t[i] = s[i + 1]
  BY TailFacts, Zenon
<1>2. N \in Nat /\ N # 0 /\ \A i \in 1 .. N : s[i] \in Nat
  BY <1>1
<1> HIDE DEF t, N
<1>3. /\ InArrivalOrder(t, n)
      /\ \A i \in DOMAIN s : s[1] <= s[i]
      /\ \A i \in DOMAIN t : s[1] < t[i]
  BY <1>1, <1>2, ShiftInOrder, Zenon
<1> QED BY <1>1, <1>3, Zenon DEF t

\* What the FIFO holds after push_back and after pop_front.
LEMMA AppendHolds ==
  ASSUME NEW s \in Seq(Nat), NEW x \in Nat, NEW y
  PROVE  Holds(Append(s, x), y) <=> y = x \/ Holds(s, y)
<1> DEFINE t == Append(s, x)
<1>1. /\ DOMAIN t = 1 .. Len(s) + 1 /\ DOMAIN s = 1 .. Len(s)
      /\ t[Len(s) + 1] = x
      /\ \A i \in DOMAIN s : t[i] = s[i]
  BY AppendFacts
<1>2. Len(s) \in Nat
  OBVIOUS
<1> HIDE DEF t
<1>3. \A i \in DOMAIN t : i \in DOMAIN s \/ i = Len(s) + 1
  BY <1>1, <1>2
<1>4. Len(s) + 1 \in DOMAIN t /\ \A i \in DOMAIN s : i \in DOMAIN t
  BY <1>1, <1>2
<1>5. Holds(t, y) <=> y = x \/ Holds(s, y)
  BY <1>1, <1>3, <1>4, Zenon DEF Holds
<1> QED BY <1>5, Zenon DEF t

LEMMA TailHolds ==
  ASSUME NEW s \in Seq(Nat), s # <<>>, NEW y
  PROVE  Holds(s, y) <=> y = Head(s) \/ Holds(Tail(s), y)
<1> DEFINE t == Tail(s)
           N == Len(s)
<1>1. /\ Head(s) = s[1] /\ 1 \in DOMAIN s
      /\ DOMAIN t = 1 .. N - 1 /\ DOMAIN s = 1 .. N
      /\ \A i \in DOMAIN t : t[i] = s[i + 1]
  BY TailFacts, Zenon
<1>2. N \in Nat
  OBVIOUS
<1> HIDE DEF t, N
<1>3. \A i \in DOMAIN t : i + 1 \in DOMAIN s
  BY <1>1, <1>2
<1>4. ASSUME NEW i \in DOMAIN s, i # 1
      PROVE  i - 1 \in DOMAIN t /\ t[i - 1] = s[i]
  <2>1. i - 1 \in 1 .. N - 1 /\ (i - 1) + 1 = i
    BY <1>1, <1>2, <1>4
  <2> QED BY <1>1, <2>1, Zenon
<1>5. Holds(s, y) => y = s[1] \/ Holds(t, y)
  BY <1>1, <1>4, Zenon DEF Holds
<1>6. y = s[1] \/ Holds(t, y) => Holds(s, y)
  BY <1>1, <1>3, Zenon DEF Holds
<1> QED BY <1>1, <1>5, <1>6, Zenon DEF t

\* enqueue and dequeue keep the type of a queue, and bits exact.
LEMMA EnqueueType ==
  ASSUME NEW q \in FifosType, NEW p \in Priorities, NEW i \in Nat
  PROVE  FPQEnqueue(q, p, i) \in FifosType
BY DEF FifosType, FPQEnqueue

LEMMA DequeueType ==
  ASSUME NEW q \in FifosType, q.bits = {p \in Priorities : q.queues[p] # <<>>},
         q.bits # {}
  PROVE  /\ FPQDequeue(q) \in FifosType
         /\ FPQFront(q) \in Nat
<1>1. Highest(q) \in q.bits /\ Highest(q) \in Priorities
  BY HighestIsMax, Zenon
<1>2. q.queues[Highest(q)] \in Seq(Nat) /\ q.queues[Highest(q)] # <<>>
  BY <1>1, Zenon DEF FifosType
<1>3. Tail(q.queues[Highest(q)]) \in Seq(Nat) /\ Head(q.queues[Highest(q)]) \in Nat
  BY <1>2, TailFacts, Zenon
<1> QED BY <1>1, <1>3, Zenon DEF FifosType, FPQDequeue, FPQFront

-----------------------------------------------------------------------------
(* The invariants. *)

QInv == QTypeOK /\ BitsExact /\ FifoOrdered

\* The set of bits is always exactly the set of non-empty FIFOs, and every FIFO
\* is in the order of arrival, whatever calls are made in whatever order.
THEOREM QueueInvariance == QSpec => [](QTypeOK /\ BitsExact /\ FifoOrdered)
<1>1. QInit => QInv
  BY DEF QInit, FPQNew, QInv, QTypeOK, BitsExact, FifoOrdered, InArrivalOrder
<1>2. QInv /\ [QNext]_qvars => QInv'
  <2> SUFFICES ASSUME QInv, [QNext]_qvars PROVE QInv'
    BY Zenon
  <2>0. pq \in FifosType /\ pq.bits = {p \in Priorities : pq.queues[p] # <<>>}
    BY Zenon DEF QInv, QTypeOK, BitsExact, FifosType
  <2>1. ASSUME NEW p \in Priorities, Enqueue(p) PROVE QInv'
    <3>1. pq' \in FifosType
      BY <2>0, <2>1, EnqueueType, Zenon DEF Enqueue, QInv, QTypeOK
    <3>2. QTypeOK'
      BY <2>1, <3>1 DEF Enqueue, QInv, QTypeOK, FifosType
    <3>3. /\ pq'.bits = pq.bits \cup {p}
          /\ pq'.queues = [pq.queues EXCEPT ![p] = Append(@, arrivals)]
      BY <2>1, Zenon DEF Enqueue, FPQEnqueue
    <3>4. BitsExact'
      <4>1. arrivals \in Nat /\ pq.queues[p] \in Seq(Nat) /\ InArrivalOrder(pq.queues[p], arrivals)
        BY <2>0, Zenon DEF QInv, QTypeOK, FifosType, FifoOrdered
      <4>2. Append(pq.queues[p], arrivals) # <<>>
        BY <4>1, AppendInOrder, Zenon
      <4> QED BY <2>0, <3>3, <4>2, Zenon DEF BitsExact, FifosType
    <3>5. FifoOrdered'
      <4> SUFFICES ASSUME NEW o \in Priorities
                   PROVE  InArrivalOrder(pq'.queues[o], arrivals + 1)
        BY <2>1, Zenon DEF FifoOrdered, Enqueue
      <4>1. pq.queues[o] \in Seq(Nat) /\ arrivals \in Nat /\ InArrivalOrder(pq.queues[o], arrivals)
        BY <2>0, Zenon DEF QInv, FifoOrdered, QTypeOK, FifosType
      <4>2. CASE o = p
        <5>1. pq'.queues[o] = Append(pq.queues[o], arrivals)
          BY <3>3, <4>2, <2>0, Zenon DEF FifosType
        <5> QED BY <4>1, <5>1, AppendInOrder, Zenon
      <4>3. CASE o # p
        <5>1. pq'.queues[o] = pq.queues[o]
          BY <3>3, <4>3, <2>0, Zenon DEF FifosType
        <5> QED BY <4>1, <5>1 DEF InArrivalOrder
      <4> QED BY <4>2, <4>3, Zenon
    <3> QED BY <3>2, <3>4, <3>5, Zenon DEF QInv
  <2>2. CASE DequeueSome
    <3> DEFINE h == Highest(pq)
    <3>1. h \in pq.bits /\ h \in Priorities
      BY <2>0, <2>2, HighestIsMax, Zenon DEF DequeueSome
    <3>2. pq' \in FifosType /\ FPQFront(pq) \in Nat
      BY <2>0, <2>2, DequeueType, Zenon DEF DequeueSome
    <3>3. QTypeOK'
      BY <2>2, <3>1, <3>2 DEF DequeueSome, QInv, QTypeOK, FifosType
    <3>4. /\ pq'.bits = IF Len(pq.queues[h]) = 1 THEN pq.bits \ {h} ELSE pq.bits
          /\ pq'.queues = [pq.queues EXCEPT ![h] = Tail(@)]
      BY <2>2, Zenon DEF DequeueSome, FPQDequeue
    <3>5. BitsExact'
      <4>1. pq.queues[h] \in Seq(Nat) /\ pq.queues[h] # <<>>
        BY <2>0, <3>1, Zenon DEF FifosType
      <4>2. Tail(pq.queues[h]) = <<>> <=> Len(pq.queues[h]) = 1
        BY <4>1, TailFacts, Zenon
      <4> HIDE DEF h
      <4> QED BY <2>0, <3>1, <3>4, <4>1, <4>2, Zenon DEF BitsExact, FifosType
    <3>6. FifoOrdered'
      <4> SUFFICES ASSUME NEW o \in Priorities
                   PROVE  InArrivalOrder(pq'.queues[o], arrivals)
        BY <2>2, Zenon DEF FifoOrdered, DequeueSome
      <4>1. pq.queues[o] \in Seq(Nat) /\ arrivals \in Nat /\ InArrivalOrder(pq.queues[o], arrivals)
        BY <2>0, Zenon DEF QInv, FifoOrdered, QTypeOK, FifosType
      <4>2. CASE o = h
        <5>1. pq'.queues[o] = Tail(pq.queues[o]) /\ pq.queues[o] # <<>>
          BY <3>1, <3>4, <4>2, <2>0, Zenon DEF FifosType
        <5> QED BY <4>1, <5>1, TailInOrder, Zenon
      <4>3. CASE o # h
        <5>1. pq'.queues[o] = pq.queues[o]
          BY <3>4, <4>3, <2>0, Zenon DEF FifosType
        <5> QED BY <4>1, <5>1, Zenon
      <4> QED BY <4>2, <4>3, Zenon
    <3> QED BY <3>3, <3>5, <3>6, Zenon DEF QInv
  <2>3. CASE DequeueNone
    BY <2>3 DEF DequeueNone, QInv, QTypeOK, BitsExact, FifoOrdered
  <2>4. CASE UNCHANGED qvars
    BY <2>4, Zenon DEF qvars, QInv, QTypeOK, BitsExact, FifoOrdered
  <2> QED BY <2>1, <2>2, <2>3, <2>4, Zenon DEF QNext
<1> QED BY <1>1, <1>2, PTL DEF QSpec, QInv

-----------------------------------------------------------------------------
(* FastPQ implements PriorityQueue. *)

\* Every call of enqueue and dequeue is the corresponding step of a priority
\* queue that serves the oldest of its most urgent entries: the theorem behind
\* the scheduling order of tasks and of executors.
THEOREM QueueImplements == QSpec => Refinement
<1>1. QInit => PQ!Init
  BY DEF QInit, PQ!Init, Contents, FPQNew
<1>2. QInv /\ [QNext]_qvars => [PQ!Next]_(PQ!vars)
  <2> SUFFICES ASSUME QInv, [QNext]_qvars PROVE [PQ!Next]_(PQ!vars)
    BY Zenon
  <2>0. /\ pq \in FifosType
        /\ pq.bits = {p \in Priorities : pq.queues[p] # <<>>}
        /\ arrivals \in Nat
    BY Zenon DEF QInv, QTypeOK, BitsExact, FifosType
  <2>1. ASSUME NEW p \in Priorities, Enqueue(p) PROVE PQ!Insert(p)
    <3> DEFINE new == [pri |-> p, seq |-> arrivals]
    <3>1. /\ pq'.queues = [pq.queues EXCEPT ![p] = Append(@, arrivals)]
          /\ arrivals' = arrivals + 1
      BY <2>1, Zenon DEF Enqueue, FPQEnqueue
    <3>2. ASSUME NEW o \in Priorities, NEW y \in Nat
          PROVE  Holds(pq'.queues[o], y) <=> (o = p /\ y = arrivals) \/ Holds(pq.queues[o], y)
      <4>1. CASE o = p
        <5>1. pq'.queues[o] = Append(pq.queues[o], arrivals) /\ pq.queues[o] \in Seq(Nat)
          BY <2>0, <3>1, <4>1, Zenon DEF FifosType
        <5> QED BY <2>0, <4>1, <5>1, AppendHolds
      <4>2. CASE o # p
        BY <2>0, <3>1, <4>2, Zenon DEF FifosType
      <4> QED BY <4>1, <4>2, Zenon
    <3>3. ASSUME NEW e PROVE e \in Contents' <=> e \in Contents \cup {new}
      <4>1. e \in Contents' <=> /\ e \in [pri : Priorities, seq : 0 .. arrivals]
                              /\ Holds(pq'.queues[e.pri], e.seq)
        BY <2>0, <3>1 DEF Contents
      <4>2. e \in Contents <=> /\ e \in [pri : Priorities, seq : 0 .. arrivals - 1]
                             /\ Holds(pq.queues[e.pri], e.seq)
        BY Zenon DEF Contents
      <4>3. CASE e \in [pri : Priorities, seq : 0 .. arrivals]
        <5>1. e.pri \in Priorities /\ e.seq \in Nat /\ e.seq <= arrivals
          BY <2>0, <4>3
        <5>2. e = new <=> e.pri = p /\ e.seq = arrivals
          BY <4>3
        <5>3. Holds(pq'.queues[e.pri], e.seq) <=> e = new \/ Holds(pq.queues[e.pri], e.seq)
          BY <3>2, <5>1, <5>2, Zenon
        <5>4. Holds(pq.queues[e.pri], e.seq) => e.seq < arrivals
          BY <5>1, Zenon DEF QInv, FifoOrdered, InArrivalOrder, Holds
        <5>5. Holds(pq.queues[e.pri], e.seq) => e \in [pri : Priorities, seq : 0 .. arrivals - 1]
          BY <2>0, <4>3, <5>1, <5>4
        <5> QED BY <4>1, <4>2, <4>3, <5>3, <5>5, Zenon
      <4>4. CASE e \notin [pri : Priorities, seq : 0 .. arrivals]
        <5>1. e # new
          BY <2>0, <4>4
        <5>2. e \notin [pri : Priorities, seq : 0 .. arrivals - 1]
          BY <2>0, <4>4
        <5> QED BY <4>1, <4>2, <4>4, <5>1, <5>2, Zenon
      <4> QED BY <4>3, <4>4, Zenon
    <3>4. Contents' = Contents \cup {new}
      BY <3>3, Zenon
    <3> QED BY <2>1, <3>4, Zenon DEF Enqueue, PQ!Insert
  <2>2. CASE DequeueSome
    <3> DEFINE h == Highest(pq)
               f == FPQFront(pq)
               old == [pri |-> h, seq |-> f]
    <3>1. h \in pq.bits /\ h \in Priorities /\ \A o \in pq.bits : o <= h
      BY <2>0, <2>2, HighestIsMax, Zenon DEF DequeueSome
    <3>2. /\ pq.queues[h] \in Seq(Nat) /\ pq.queues[h] # <<>>
          /\ InArrivalOrder(pq.queues[h], arrivals)
      BY <2>0, <3>1, Zenon DEF FifosType, QInv, FifoOrdered
    <3>3. /\ f = Head(pq.queues[h]) /\ f \in Nat /\ f < arrivals
          /\ Holds(pq.queues[h], f)
          /\ \A i \in DOMAIN pq.queues[h] : f <= pq.queues[h][i]
          /\ ~ Holds(Tail(pq.queues[h]), f)
      <4>1. /\ f = Head(pq.queues[h]) /\ f \in Nat /\ f = pq.queues[h][1]
            /\ 1 \in DOMAIN pq.queues[h]
        BY <3>2, TailFacts, Zenon DEF FPQFront
      <4>2. /\ \A i \in DOMAIN pq.queues[h] : Head(pq.queues[h]) <= pq.queues[h][i]
            /\ \A i \in DOMAIN Tail(pq.queues[h]) : Head(pq.queues[h]) < Tail(pq.queues[h])[i]
        BY <3>2, <2>0, TailInOrder, Zenon
      <4> HIDE DEF h, f
      <4>3. f < arrivals /\ Holds(pq.queues[h], f)
        BY <3>2, <4>1, Zenon DEF InArrivalOrder, Holds
      <4>4. ~ Holds(Tail(pq.queues[h]), f)
        BY <4>1, <4>2 DEF Holds
      <4> QED BY <4>1, <4>2, <4>3, <4>4, Zenon
    <3>4. /\ pq'.queues = [pq.queues EXCEPT ![h] = Tail(@)]
          /\ arrivals' = arrivals
          /\ ret' = <<old>>
      BY <2>2, Zenon DEF DequeueSome, FPQDequeue
    <3> HIDE DEF h, f
    <3>5. ASSUME NEW o \in Priorities, NEW y \in Nat
          PROVE  Holds(pq'.queues[o], y) <=> Holds(pq.queues[o], y) /\ ~ (o = h /\ y = f)
      <4>1. CASE o = h
        <5>1. pq'.queues[o] = Tail(pq.queues[o])
          BY <2>0, <3>4, <4>1, Zenon DEF FifosType
        <5>2. Holds(pq.queues[o], y) <=> y = f \/ Holds(Tail(pq.queues[o]), y)
          BY <3>2, <3>3, <4>1, TailHolds, Zenon
        <5> QED BY <3>3, <4>1, <5>1, <5>2, Zenon
      <4>2. CASE o # h
        BY <2>0, <3>4, <4>2, Zenon DEF FifosType
      <4> QED BY <4>1, <4>2, Zenon
    <3>6. ASSUME NEW e PROVE e \in Contents' <=> e \in Contents \ {old}
      <4>1. e \in Contents' <=> /\ e \in [pri : Priorities, seq : 0 .. arrivals - 1]
                              /\ Holds(pq'.queues[e.pri], e.seq)
        BY <3>4, Zenon DEF Contents
      <4>2. e \in Contents <=> /\ e \in [pri : Priorities, seq : 0 .. arrivals - 1]
                             /\ Holds(pq.queues[e.pri], e.seq)
        BY Zenon DEF Contents
      <4>3. CASE e \in [pri : Priorities, seq : 0 .. arrivals - 1]
        <5>1. e.pri \in Priorities /\ e.seq \in Nat
          BY <2>0, <4>3
        <5>2. e = old <=> e.pri = h /\ e.seq = f
          BY <4>3
        <5> QED BY <3>5, <4>1, <4>2, <4>3, <5>1, <5>2, Zenon
      <4>4. CASE e \notin [pri : Priorities, seq : 0 .. arrivals - 1]
        BY <4>1, <4>2, <4>4, Zenon
      <4> QED BY <4>3, <4>4, Zenon
    <3>7. Contents' = Contents \ {old}
      BY <3>6, Zenon
    <3>8. old \in Contents
      BY <2>0, <3>1, <3>3 DEF Contents
    <3>9. ASSUME NEW o \in Contents PROVE PQ!Before(old, o)
      <4>1. o.pri \in Priorities /\ o.seq \in Nat /\ Holds(pq.queues[o.pri], o.seq)
        BY <2>0 DEF Contents
      <4>2. o.pri \in pq.bits
        BY <2>0, <4>1 DEF Holds, FifosType
      <4>3. o.pri <= h
        BY <3>1, <4>2, Zenon
      <4>4. o.pri = h => f <= o.seq
        BY <3>3, <4>1, Zenon DEF Holds
      <4> QED BY <3>1, <3>3, <4>1, <4>3, <4>4 DEF PQ!Before, Priorities
    <3>10. PQ!RemoveFirst
      BY <3>4, <3>7, <3>8, <3>9, Zenon DEF PQ!RemoveFirst
    <3> QED BY <3>10, Zenon DEF PQ!Next
  <2>3. CASE DequeueNone
    <3>1. Contents = {}
      <4>1. \A o \in Priorities : pq.queues[o] = <<>>
        BY <2>0, <2>3, Zenon DEF DequeueNone
      <4>2. ASSUME NEW e \in Contents PROVE FALSE
        <5>1. e.pri \in Priorities /\ Holds(pq.queues[e.pri], e.seq)
          BY Zenon DEF Contents
        <5> QED BY <4>1, <5>1 DEF Holds
      <4> QED BY <4>2, Zenon
    <3>2. Contents' = Contents
      BY <2>3, Zenon DEF DequeueNone, Contents
    <3> QED BY <2>3, <3>1, <3>2, Zenon DEF DequeueNone, PQ!RemoveNone, PQ!Next
  <2>4. CASE UNCHANGED qvars
    BY <2>4, Zenon DEF qvars, PQ!vars, Contents
  <2> QED BY <2>1, <2>2, <2>3, <2>4, Zenon DEF QNext, PQ!Next
<1> QED BY <1>1, <1>2, QueueInvariance, PTL DEF QSpec, QInv, Refinement, PQ!Spec

-----------------------------------------------------------------------------
(* Executor. *)

QueueType ==
  [bits : SUBSET Priorities, queues : [Priorities -> Seq(Tasks)]]

\* The bits say which FIFOs hold something.
Exact(q) == q.bits = {p \in Priorities : q.queues[p] # <<>>}

\* t is in the queue.
Has(q, t) == \E p \in Priorities : \E k \in DOMAIN q.queues[p] : q.queues[p][k] = t

-----------------------------------------------------------------------------
(* The queue. *)

LEMMA QueuedHas == \A t : t \in Queued <=> Has(queue, t)
BY DEF Queued, Has

\* push_back adds the task and loses none.
LEMMA EnqueueFacts ==
  ASSUME NEW q \in QueueType, Exact(q), NEW p \in Priorities, NEW i \in Tasks
  PROVE  /\ FPQEnqueue(q, p, i) \in QueueType
         /\ Exact(FPQEnqueue(q, p, i))
         /\ \A t : Has(FPQEnqueue(q, p, i), t) <=> Has(q, t) \/ t = i
<1> DEFINE s == q.queues[p]
           r == Append(s, i)
           f == FPQEnqueue(q, p, i)
<1>1. s \in Seq(Tasks)
  BY Zenon DEF QueueType
<1>2. /\ r \in Seq(Tasks) /\ r # <<>>
      /\ DOMAIN r = 1 .. Len(s) + 1 /\ DOMAIN s = 1 .. Len(s)
      /\ r[Len(s) + 1] = i
      /\ \A k \in DOMAIN s : r[k] = s[k]
  BY <1>1, AppendFacts
<1>3. Len(s) \in Nat
  BY <1>1
<1>4. f.bits = q.bits \cup {p} /\ f.queues = [q.queues EXCEPT ![p] = r]
  BY Zenon DEF FPQEnqueue
<1>5. f \in QueueType
  <2> HIDE DEF r
  <2>1. f = [bits |-> q.bits \cup {p}, queues |-> [q.queues EXCEPT ![p] = r]]
    BY Zenon DEF FPQEnqueue, r
  <2> HIDE DEF f, s
  <2>2. [q.queues EXCEPT ![p] = r] \in [Priorities -> Seq(Tasks)]
    BY <1>2, Zenon DEF QueueType
  <2> QED BY <2>1, <2>2, Zenon DEF QueueType
<1>6. /\ f.queues[p] = r
      /\ \A o \in Priorities : o # p => f.queues[o] = q.queues[o]
  BY <1>4, Zenon DEF QueueType
<1> HIDE DEF f, r
<1>7. Exact(f)
  BY <1>2, <1>4, <1>6, Zenon DEF Exact
<1>8. ASSUME NEW t PROVE Has(f, t) <=> Has(q, t) \/ t = i
  <2>1. ASSUME Has(f, t) PROVE Has(q, t) \/ t = i
    <3>1. PICK o \in Priorities : \E k \in DOMAIN f.queues[o] : f.queues[o][k] = t
      BY <2>1, Zenon DEF Has
    <3>2. CASE o # p
      BY <1>6, <3>1, <3>2, Zenon DEF Has
    <3>3. CASE o = p
      <4>1. PICK k \in DOMAIN r : r[k] = t
        BY <1>6, <3>1, <3>3, Zenon
      <4>2. k \in DOMAIN s \/ k = Len(s) + 1
        BY <1>2, <1>3, <4>1
      <4> QED BY <1>2, <4>1, <4>2, Zenon DEF Has
    <3> QED BY <3>2, <3>3, Zenon
  <2>2. ASSUME Has(q, t) PROVE Has(f, t)
    <3>1. PICK o \in Priorities : \E k \in DOMAIN q.queues[o] : q.queues[o][k] = t
      BY <2>2, Zenon DEF Has
    <3>2. CASE o # p
      BY <1>6, <3>1, <3>2, Zenon DEF Has
    <3>3. CASE o = p
      <4>1. PICK k \in DOMAIN s : s[k] = t
        BY <3>1, <3>3, Zenon
      <4>2. k \in DOMAIN r /\ r[k] = t
        BY <1>2, <1>3, <4>1
      <4> QED BY <1>6, <4>2, Zenon DEF Has
    <3> QED BY <3>2, <3>3, Zenon
  <2>3. Has(f, i)
    <3>1. Len(s) + 1 \in DOMAIN r /\ r[Len(s) + 1] = i
      BY <1>2, <1>3
    <3> QED BY <1>6, <3>1, Zenon DEF Has
  <2> QED BY <2>1, <2>2, <2>3, Zenon
<1> QED BY <1>5, <1>7, <1>8, Zenon DEF f

\* pop_front takes one task, and loses no other.
LEMMA DequeueFacts ==
  ASSUME NEW q \in QueueType, Exact(q), q.bits # {}
  PROVE  /\ FPQDequeue(q) \in QueueType
         /\ Exact(FPQDequeue(q))
         /\ FPQFront(q) \in Tasks
         /\ \A t : Has(q, t) => Has(FPQDequeue(q), t) \/ t = FPQFront(q)
<1> DEFINE h == Highest(q)
           s == q.queues[h]
           r == Tail(s)
           f == FPQDequeue(q)
<1>0. h \in q.bits /\ h \in Priorities
  <2> DEFINE B == q.bits
  <2>1. B \in SUBSET (0 .. NUM - 1) /\ B # {}
    BY Zenon DEF QueueType, Priorities
  <2>2. \E p \in B : \A o \in B : o <= p
    BY <2>1, NUMAssumption, GreatestBelow, Zenon
  <2> QED BY <2>1, <2>2, Zenon DEF Highest, Priorities
<1> HIDE DEF h
<1>1. s \in Seq(Tasks) /\ s # <<>>
  BY <1>0, Zenon DEF QueueType, Exact
<1>2. /\ r \in Seq(Tasks) /\ Head(s) \in Tasks /\ Head(s) = s[1]
      /\ DOMAIN r = 1 .. Len(s) - 1 /\ DOMAIN s = 1 .. Len(s)
      /\ \A k \in DOMAIN r : r[k] = s[k + 1]
      /\ r = <<>> <=> Len(s) = 1
  BY <1>1, TailFacts, Zenon
<1>3. Len(s) \in Nat
  BY <1>1
<1>4. /\ f = [bits   |-> IF Len(s) = 1 THEN q.bits \ {h} ELSE q.bits,
              queues |-> [q.queues EXCEPT ![h] = r]]
      /\ FPQFront(q) = Head(s)
  BY Zenon DEF FPQDequeue, FPQFront, h
<1> HIDE DEF f, r
<1>5. f \in QueueType
  <2>1. [q.queues EXCEPT ![h] = r] \in [Priorities -> Seq(Tasks)]
    BY <1>0, <1>2, Zenon DEF QueueType
  <2> QED BY <1>4, <2>1, Zenon DEF QueueType
<1>6. /\ f.queues[h] = r
      /\ \A o \in Priorities : o # h => f.queues[o] = q.queues[o]
      /\ f.bits = IF Len(s) = 1 THEN q.bits \ {h} ELSE q.bits
  BY <1>0, <1>4, Zenon DEF QueueType
<1>7. Exact(f)
  <2> HIDE DEF s
  <2>1. ASSUME NEW o PROVE o \in f.bits <=> o \in Priorities /\ f.queues[o] # <<>>
    <3>1. CASE o = h
      BY <1>0, <1>2, <1>6, <3>1, Zenon
    <3>2. CASE o # h
      BY <1>6, <3>2, Zenon DEF Exact
    <3> QED BY <3>1, <3>2, Zenon
  <2> QED BY <2>1, Zenon DEF Exact
<1>8. ASSUME NEW t, Has(q, t), t # Head(s) PROVE Has(f, t)
  <2>1. PICK o \in Priorities : \E k \in DOMAIN q.queues[o] : q.queues[o][k] = t
    BY <1>8, Zenon DEF Has
  <2>2. CASE o # h
    BY <1>6, <2>1, <2>2, Zenon DEF Has
  <2>3. CASE o = h
    <3>1. PICK k \in DOMAIN s : s[k] = t
      BY <2>1, <2>3, Zenon
    <3>2. k # 1
      BY <1>2, <1>8, <3>1, Zenon
    <3>3. k - 1 \in DOMAIN r /\ (k - 1) + 1 = k
      BY <1>2, <1>3, <3>1, <3>2
    <3>4. r[k - 1] = t
      BY <1>2, <3>1, <3>3, Zenon
    <3> QED BY <1>0, <1>6, <3>3, <3>4, Zenon DEF Has
  <2> QED BY <2>2, <2>3, Zenon
<1> QED BY <1>2, <1>4, <1>5, <1>7, <1>8, Zenon DEF f

-----------------------------------------------------------------------------
(* The inductive invariant. *)

\* The queue is well formed, and the running task is registered.
EInv ==
  /\ queue \in QueueType /\ Exact(queue)
  /\ spawned \subseteq Tasks /\ ready \subseteq spawned /\ given \subseteq spawned
  /\ registry = spawned \ ready
  /\ current # NoTask => current \in registry
  /\ \A t \in due \cap registry : Has(queue, t)

LEMMA InitEInv == EInit => EInv
<1> SUFFICES ASSUME EInit PROVE EInv
  BY Zenon
<1>1. FPQNew \in QueueType /\ Exact(FPQNew)
  BY DEF FPQNew, QueueType, Exact
<1>2. Root \in Tasks /\ Priority[Root] \in Priorities
  BY TasksAssumption, PriorityAssumption, Zenon
<1>3. queue \in QueueType /\ Exact(queue) /\ Has(queue, Root)
  BY <1>1, <1>2, EnqueueFacts, Zenon DEF EInit
<1> QED BY <1>2, <1>3, Zenon DEF EInit, EInv

\* A step that leaves everything but the bookkeeping of wakers alone.
LEMMA KeepsEInv ==
  ASSUME EInv, UNCHANGED <<queue, spawned, ready, registry, due>>,
         given' \subseteq spawned, current' \in {current, NoTask}
  PROVE  EInv'
BY DEF EInv, Has, Exact

LEMMA NextEInv == EInv /\ [ENext]_evars => EInv'
<1> SUFFICES ASSUME EInv, [ENext]_evars PROVE EInv'
  BY Zenon
<1>0. /\ queue \in QueueType /\ Exact(queue)
      /\ spawned \subseteq Tasks /\ ready \subseteq spawned /\ given \subseteq spawned
      /\ registry = spawned \ ready
      /\ current # NoTask => current \in registry
      /\ \A t \in due \cap registry : Has(queue, t)
  BY Zenon DEF EInv
<1>1. \A t \in Tasks : Priority[t] \in Priorities
  BY PriorityAssumption, Zenon
<1>2. CASE UNCHANGED evars
  BY <1>0, <1>2, KeepsEInv, Zenon DEF evars
<1>3. ASSUME NEW t \in Tasks, queue' = FPQEnqueue(queue, Priority[t], t)
      PROVE  /\ queue' \in QueueType /\ Exact(queue')
             /\ \A u : Has(queue', u) <=> Has(queue, u) \/ u = t
  BY <1>0, <1>1, <1>3, EnqueueFacts, Zenon
<1>4. ASSUME queue.bits # {}, queue' = FPQDequeue(queue)
      PROVE  /\ queue' \in QueueType /\ Exact(queue')
             /\ \A u : Has(queue, u) => Has(queue', u) \/ u = FPQFront(queue)
  BY <1>0, <1>4, DequeueFacts, Zenon
<1> SUFFICES ASSUME ENext PROVE EInv'
  BY <1>2, Zenon
<1>5. CASE Poll
  <2>1. queue.bits # {} /\ queue' = FPQDequeue(queue)
    BY <1>5, Zenon DEF Poll
  <2> QED BY <1>0, <1>4, <1>5, <2>1, Zenon DEF Poll, EInv
<1>6. CASE Skip
  <2>1. queue.bits # {} /\ queue' = FPQDequeue(queue)
    BY <1>6, Zenon DEF Skip
  <2> QED BY <1>0, <1>4, <1>6, <2>1, Zenon DEF Skip, EInv
<1>7. CASE Finish
  BY <1>0, <1>7, KeepsEInv, Zenon DEF Finish
<1>8. CASE PollReady
  <2>1. UNCHANGED <<queue, spawned, given, due>> /\ current \in registry
    BY <1>0, <1>8, Zenon DEF PollReady
  <2>2. /\ registry' = registry \ {current} /\ ready' = ready \cup {current}
        /\ current' = NoTask
    BY <1>8, Zenon DEF PollReady
  <2> QED BY <1>0, <2>1, <2>2, Zenon DEF EInv, Has, Exact
<1>9. CASE PollPending
  BY <1>0, <1>9, KeepsEInv, SMTT(30), Zenon DEF PollPending
<1>10. CASE Yield
  <2>1. /\ current \in Tasks /\ queue' = FPQEnqueue(queue, Priority[current], current)
        /\ due' = due \cup {current}
    BY <1>0, <1>10, Zenon DEF Yield, WakeTask
  <2> QED BY <1>0, <1>3, <1>10, <2>1, Zenon DEF Yield, EInv
<1>11. CASE GiveWaker
  BY <1>0, <1>11, KeepsEInv, Zenon DEF GiveWaker
<1>12. ASSUME NEW t \in Tasks, Spawn(t) PROVE EInv'
  <2>1. queue' = FPQEnqueue(queue, Priority[t], t)
    BY <1>12, Zenon DEF Spawn
  <2> QED BY <1>0, <1>3, <1>12, <2>1, SMTT(30), Zenon DEF Spawn, EInv
<1>13. ASSUME NEW t \in Tasks, WakeOutside(t) PROVE EInv'
  <2>1. queue' = FPQEnqueue(queue, Priority[t], t) /\ due' = due \cup {t}
    BY <1>13, Zenon DEF WakeOutside, WakeTask
  <2> QED BY <1>0, <1>3, <1>13, <2>1, Zenon DEF WakeOutside, EInv
<1> QED
  BY <1>5, <1>6, <1>7, <1>8, <1>9, <1>10, <1>11, <1>12, <1>13, Zenon DEF ENext, Run, PollEnds

-----------------------------------------------------------------------------
(* Theorems. *)

LEMMA EInvariant == ESpec => []EInv
<1>1. EInit => EInv
  BY InitEInv, Zenon
<1>2. EInv /\ [ENext]_evars => EInv'
  BY NextEInv, Zenon
<1> QED BY <1>1, <1>2, PTL DEF ESpec

\* No wake is lost, for any set of tasks, any priorities, and wakers used at
\* any moment and any number of times (wake_task, Executor::run).
THEOREM WakesKept == ESpec => []NoLostWake
<1>1. EInv => NoLostWake
  BY QueuedHas, Zenon DEF EInv, NoLostWake
<1> QED BY <1>1, EInvariant, PTL

\* A task that returned Ready is not polled again, whatever is left of it in
\* the queue (the look at task_registry in Executor::run).
THEOREM DoneOnce == ESpec => []ReadyOnce
<1>1. EInv => ReadyOnce
  BY TasksAssumption, Zenon DEF EInv, ReadyOnce
<1> QED BY <1>1, EInvariant, PTL

-----------------------------------------------------------------------------
(* Irq, for any number of CPUs and any priorities. *)
(* The order of cpu_task_pri_vec. *)

\* Some CPU of a non-empty set of CPUs comes before all others.
LEMMA FirstExists ==
  ASSUME NEW D \in SUBSET Nat, NEW prio \in [D -> Nat], NEW S \in SUBSET D, S # {}
  PROVE  \E d \in S : \A e \in S : e = d \/ Before(prio, d, e)
<1> DEFINE P == {prio[d] : d \in S}
<1>1. PICK p \in P : \A q \in P : p <= q
  BY NatLeast, P \in SUBSET Nat, P # {}, Zenon
<1> DEFINE Q == {d \in S : prio[d] = p}
<1>2. Q \in SUBSET Nat /\ Q # {}
  BY <1>1, Zenon
<1>3. PICK d \in Q : \A e \in Q : d <= e
  BY <1>2, NatLeast, Zenon
<1>4. ASSUME NEW e \in S PROVE e = d \/ Before(prio, d, e)
  <2>1. prio[e] \in Nat /\ prio[d] \in Nat /\ d \in Nat /\ e \in Nat
    BY <1>3, Zenon
  <2>2. prio[d] <= prio[e] /\ prio[d] = p
    BY <1>1, <1>3, Zenon
  <2>3. prio[e] = p => d <= e
    BY <1>3, Zenon
  <2> QED
    BY <2>1, <2>2, <2>3 DEF Before
<1> QED
  BY <1>3, <1>4, Zenon

\* When at least two CPUs were found Running, ranks 0 and 1 name two of them.
LEMMA RanksDiffer ==
  ASSUME NEW D \in SUBSET Nat, IsFiniteSet(D), NEW prio \in [D -> Nat],
         Cardinality(D) >= 2
  PROVE  /\ Ranked(prio, 0) \in D
         /\ Ranked(prio, 1) \in D
         /\ Ranked(prio, 0) # Ranked(prio, 1)
<1> DEFINE Ahead(d) == {e \in D : Before(prio, e, d)}
<1>0. DOMAIN prio = D
  BY Zenon
<1>1. D # {}
  BY FS_EmptySet
<1>2. PICK d \in D : \A e \in D : e = d \/ Before(prio, d, e)
  BY <1>1, FirstExists, Zenon
<1>3. D \ {d} # {}
  BY FS_RemoveElement, FS_EmptySet, FS_CardinalityType
<1>4. PICK f \in D \ {d} : \A e \in D \ {d} : e = f \/ Before(prio, f, e)
  BY <1>3, FirstExists, D \ {d} \in SUBSET D, Zenon
<1>5. \A a, b \in D : a \in Nat /\ b \in Nat /\ prio[a] \in Nat /\ prio[b] \in Nat
  BY Zenon
<1>6. \A a, b \in D : Before(prio, a, b) => a # b /\ ~ Before(prio, b, a)
  BY <1>5 DEF Before
<1>7. Ahead(d) = {}
  BY <1>2, <1>6, Zenon
<1>8. Ahead(f) = {d}
  BY <1>2, <1>4, <1>6, Zenon
<1>9. Cardinality(Ahead(d)) = 0 /\ Cardinality(Ahead(f)) = 1
  BY <1>7, <1>8, FS_EmptySet, FS_Singleton, Zenon
<1>10. Ranked(prio, 0) \in D /\ Cardinality(Ahead(Ranked(prio, 0))) = 0
  BY <1>0, <1>9, SMTT(30), Zenon DEF Ranked
<1>11. Ranked(prio, 1) \in D /\ Cardinality(Ahead(Ranked(prio, 1))) = 1
  BY <1>0, <1>9, Zenon DEF Ranked
<1> HIDE DEF Ahead
<1> QED
  BY <1>10, <1>11

-----------------------------------------------------------------------------
(* The inductive invariant. *)

\* i is enabled on one CPU.
Once(i) == \E c \in Cpus : \A d \in Cpus : i \in enabled[d] <=> d = c

\* IRQ_TABLE is held between claim and completion and between the two halves
\* of the strategy, and nowhere else; only in the strategy's hands
\* are the interrupts enabled nowhere.
Locked ==
  /\ \A c \in Cpus : pc[c] \in {"handle", "place"} <=> table = c
  /\ (\A c \in Cpus : pc[c] # "place") => \A i \in Irqs : Once(i)
  /\ \A c \in Cpus : pc[c] = "place" => \A d \in Cpus : enabled[d] = {}

IInv == TypeOK /\ Locked /\ ServedWhileEnabled /\ ClaimsSomething

\* A step that moves no interrupt.
LEMMA OnceKept == ASSUME UNCHANGED enabled PROVE \A i : Once(i)' <=> Once(i)
BY Zenon DEF Once

LEMMA InitIInv == Init => IInv
<1> SUFFICES ASSUME Init PROVE IInv
  BY Zenon
<1> USE CpusAssumption
<1>1. TypeOK
  BY LoadAssumption, ByteAssumption DEF Init, TypeOK
<1>2. \A i \in Irqs, d \in Cpus : i \in enabled[d] <=> d = Primary
  BY Zenon DEF Init
<1>3. Locked
  BY <1>2, Zenon DEF Init, Locked, Once
<1>4. ServedWhileEnabled /\ ClaimsSomething
  BY Zenon DEF Init, ServedWhileEnabled, ClaimsSomething
<1> QED
  BY <1>1, <1>3, <1>4, Zenon DEF IInv

\* The claim: the interrupt goes into service where it is enabled, and no
\* other CPU waits for it.
LEMMA ClaimIInv ==
  ASSUME IInv, NEW c \in Cpus, Claim(c)
  PROVE  IInv'
<1> USE CpusAssumption, IrqAssumption, LoadAssumption DEF IInv
<1> DEFINE claimable == pending \cap enabled[c]
<1>1. CASE claimable = {}
  <2>1. UNCHANGED <<board, debug, pending, service, enabled, table, count, taken, pc, moves, moved>>
    BY <1>1, Zenon DEF Claim, plicvars, buildvars
  <2>2. fault' = "claim zero"
    BY <1>1, Zenon DEF Claim
  <2>3. TypeOK'
    BY <2>1, <2>2, Zenon DEF TypeOK
  <2>4. Locked'
    BY <2>1, OnceKept, Zenon DEF Locked
  <2>5. ServedWhileEnabled' /\ ClaimsSomething'
    BY <2>1, Zenon DEF ServedWhileEnabled, ClaimsSomething
  <2> QED
    BY <2>3, <2>4, <2>5, Zenon
<1>2. CASE claimable # {}
  <2> DEFINE i == Min(claimable)
  <2>1. claimable \in SUBSET Nat
    BY Zenon DEF TypeOK, Irqs
  <2>2. i \in claimable
    BY <1>2, <2>1, NatLeast, Zenon DEF Min
  <2>3. i \in Irqs /\ i \in enabled[c]
    BY <2>2, Zenon DEF TypeOK
  <2>4. /\ pc[c] = "intc" /\ table = None
        /\ pending' = pending \ {i}
        /\ service' = [service EXCEPT ![i] = c]
        /\ count' = [count EXCEPT ![i] = IF @ < MaxCount THEN @ + 1 ELSE @]
        /\ table' = c /\ pc' = [pc EXCEPT ![c] = "handle"]
        /\ UNCHANGED <<board, debug, enabled, fault, taken, moves, moved>>
    BY <1>2, Zenon DEF Claim, At, Goto, buildvars
  <2> HIDE DEF i, claimable
  <2>5. \A j \in Irqs : service[j] = None
    BY <2>4, Zenon DEF TypeOK, ServedWhileEnabled
  <2>6. \A d \in Cpus : d # c => i \notin enabled[d]
    BY <2>3, <2>4, Zenon DEF Locked, Once
  <2>7. TypeOK'
    <3>0. count \in [Irqs -> 0 .. MaxCount] /\ MaxCount \in Nat
      BY Zenon DEF TypeOK
    <3>1. count' \in [Irqs -> 0 .. MaxCount]
      <4> DEFINE n == IF count[i] < MaxCount THEN count[i] + 1 ELSE count[i]
      <4>1. n \in 0 .. MaxCount
        BY <2>3, <3>0
      <4>2. count' = [count EXCEPT ![i] = n]
        BY <2>4, Zenon
      <4> HIDE DEF n
      <4> QED
        BY <3>0, <4>1, <4>2, Zenon
    <3>2. service' \in [Irqs -> Cpus \cup {None}]
      BY <2>3, <2>4, Zenon DEF TypeOK
    <3>3. pc' \in [Cpus -> {"task", "intc", "handle", "strategy", "place"}]
      BY <2>4, Zenon DEF TypeOK
    <3> QED
      BY <2>4, <3>1, <3>2, <3>3, Zenon DEF TypeOK
  <2>8. Locked'
    BY <2>4, OnceKept, Zenon DEF TypeOK, Locked
  <2>9. ServedWhileEnabled'
    BY <2>3, <2>4, <2>5, Zenon DEF TypeOK, ServedWhileEnabled
  <2>10. ClaimsSomething'
    <3> SUFFICES ASSUME NEW d \in Cpus, pc'[d] = "intc", d \notin moved'
                 PROVE  pending' \cap enabled'[d] # {}
      BY Zenon DEF ClaimsSomething
    <3>1. d # c /\ pc[d] = "intc" /\ d \notin moved
      BY <2>4, Zenon DEF TypeOK
    <3>2. pending \cap enabled[d] # {} /\ i \notin enabled[d]
      BY <2>6, <3>1, Zenon DEF ClaimsSomething
    <3> QED
      BY <2>4, <3>2, Zenon
  <2> QED
    BY <2>7, <2>8, <2>9, <2>10, Zenon
<1> QED
  BY <1>1, <1>2, Zenon

\* The completion counts, so that nothing stays in service.
LEMMA HandleIInv ==
  ASSUME IInv, NEW c \in Cpus, Handle(c)
  PROVE  IInv'
<1> USE CpusAssumption DEF IInv
<1>1. TypeOK'
  <2>1. taken \in [Cpus -> 0 .. BYTE - 1] /\ taken' = [taken EXCEPT ![c] = (taken[c] + 1) % BYTE]
    BY Zenon DEF Handle, TypeOK
  <2>2. (taken[c] + 1) % BYTE \in 0 .. BYTE - 1
    BY <2>1, ByteAssumption
  <2>3. taken' \in [Cpus -> 0 .. BYTE - 1]
    BY <2>1, <2>2, Zenon
  <2>4. pc' \in [Cpus -> {"task", "intc", "handle", "strategy", "place"}]
    BY Zenon DEF Handle, Goto, TypeOK
  <2>5. service' \in [Irqs -> Cpus \cup {None}] /\ table' \in Cpus \cup {None}
    BY Zenon DEF Handle, TypeOK
  <2>6. fault' \in {"none", "claim zero", "index", "context", "overflow"}
    BY Zenon DEF Handle, TypeOK
  <2> QED BY <2>3, <2>4, <2>5, <2>6, Zenon DEF Handle, buildvars, TypeOK
<1>2. Locked'
  BY OnceKept, Zenon DEF Handle, At, Goto, TypeOK, Locked
<1>3. ServedWhileEnabled'
  BY Zenon DEF Handle, At, Goto, TypeOK, Locked, ServedWhileEnabled
<1>4. ClaimsSomething'
  BY Zenon DEF Handle, At, Goto, TypeOK, ClaimsSomething
<1> QED
  BY <1>1, <1>2, <1>3, <1>4, Zenon

\* The first half of the strategy: nothing is in service, and whoever waits
\* for IRQ_TABLE is recorded as moved.
LEMMA DisableIInv ==
  ASSUME IInv, NEW c \in Cpus, StrategyDisable(c)
  PROVE  IInv'
<1> USE CpusAssumption DEF IInv
<1>1. CASE \E d \in Cpus : NoContext(d)
  <2>1. /\ UNCHANGED <<board, debug, pending, service, enabled, table, count, taken, pc, moves, moved>>
        /\ fault' = "context"
    BY <1>1, Zenon DEF StrategyDisable, buildvars
  <2>2. TypeOK'
    BY <2>1, Zenon DEF TypeOK
  <2>3. Locked'
    BY <2>1, OnceKept, Zenon DEF Locked
  <2>4. ServedWhileEnabled' /\ ClaimsSomething'
    BY <2>1, Zenon DEF ServedWhileEnabled, ClaimsSomething
  <2> QED
    BY <2>2, <2>3, <2>4, Zenon
<1>2. CASE ~ \E d \in Cpus : NoContext(d)
  <2>0. /\ pc[c] = "strategy" /\ table = None
        /\ enabled' = [d \in Cpus |-> Disable(Disable(enabled, d, UartIrq), d, NetIrq)[d]]
        /\ table' = c /\ pc' = [pc EXCEPT ![c] = "place"] /\ moved' = {d \in Cpus : pc[d] = "intc"}
        /\ UNCHANGED <<board, debug, fault, pending, service, count, taken, moves>>
    BY <1>2, Zenon DEF StrategyDisable, At, Goto, buildvars
  <2>1. enabled' = [d \in Cpus |-> {}]
    BY <2>0, Zenon DEF Disable, TypeOK, Irqs
  <2>2. TypeOK'
    BY <2>0, <2>1, Zenon DEF TypeOK
  <2>3. \A i \in Irqs : service[i] = None
    BY <2>0, Zenon DEF TypeOK, ServedWhileEnabled
  <2>4. Locked'
    BY <2>0, <2>1, Zenon DEF TypeOK, Locked
  <2>5. ServedWhileEnabled' /\ ClaimsSomething'
    BY <2>0, <2>1, <2>3, Zenon DEF TypeOK, ServedWhileEnabled, ClaimsSomething
  <2> QED
    BY <2>2, <2>4, <2>5, Zenon
<1> QED
  BY <1>1, <1>2, Zenon

\* The second half: both interrupts are enabled again, each on one CPU.
LEMMA PlaceIInv ==
  ASSUME IInv, NEW c \in Cpus, NEW prio \in PriorityMaps, StrategyPlace(c, prio)
  PROVE  IInv'
<1> USE CpusAssumption DEF IInv
<1>1. CASE Cardinality(DOMAIN prio) < 2
  <2>1. /\ UNCHANGED <<board, debug, pending, service, enabled, table, count, taken, pc, moves, moved>>
        /\ fault' = "index"
    BY <1>1, Zenon DEF StrategyPlace, buildvars
  <2>2. TypeOK'
    BY <2>1, Zenon DEF TypeOK
  <2>3. Locked'
    BY <2>1, OnceKept, Zenon DEF Locked
  <2>4. ServedWhileEnabled' /\ ClaimsSomething'
    BY <2>1, Zenon DEF ServedWhileEnabled, ClaimsSomething
  <2> QED
    BY <2>2, <2>3, <2>4, Zenon
<1>2. CASE ~ (Cardinality(DOMAIN prio) < 2)
  <2> DEFINE D == DOMAIN prio
             a == Ranked(prio, 0)
             b == Ranked(prio, 1)
  <2>1. D \in SUBSET Cpus /\ IsFiniteSet(D) /\ prio \in [D -> Nat]
    BY PrioritiesAssumption, FS_Subset DEF PriorityMaps
  <2>2. Cardinality(D) >= 2
    BY <1>2, <2>1, FS_CardinalityType
  <2>3. a \in Cpus /\ b \in Cpus /\ a # b
    BY <2>1, <2>2, RanksDiffer, Zenon
  <2>4. PICK x, y \in Irqs :
          /\ x # y
          /\ enabled' = Enable(Enable(enabled, a, x), b, y)
    BY <1>2, IrqAssumption DEF StrategyPlace, Irqs
  <2>5. /\ pc[c] = "place" /\ count' = [i \in Irqs |-> 0]
        /\ table' = None /\ pc' = [pc EXCEPT ![c] = "task"]
        /\ UNCHANGED <<board, debug, pending, service, taken, moves, moved, fault>>
    BY <1>2, Zenon DEF StrategyPlace, At, Goto, buildvars
  <2> HIDE DEF D, a, b
  <2>6. Irqs = {x, y}
    BY <2>4 DEF Irqs
  <2>7. enabled' = [d \in Cpus |-> IF d = a THEN {x} ELSE IF d = b THEN {y} ELSE {}]
    BY <2>3, <2>4, <2>5, Zenon DEF Enable, TypeOK, Locked
  <2>8. \A i \in Irqs : service[i] = None
    BY <2>5, Zenon DEF TypeOK, Locked, ServedWhileEnabled
  <2>9. \A d \in Cpus : pc[d] = "intc" => d \in moved
    BY <2>5, Zenon DEF Locked, ClaimsSomething
  <2>10. TypeOK'
    <3>1. 0 \in 0 .. MaxCount
      BY LoadAssumption
    <3>2. count' \in [Irqs -> 0 .. MaxCount]
      BY <2>5, <3>1, Zenon
    <3>3. enabled' \in [Cpus -> SUBSET Irqs]
      BY <2>4, <2>7, Zenon
    <3>4. pc' \in [Cpus -> {"task", "intc", "handle", "strategy", "place"}]
      BY <2>5, Zenon DEF TypeOK
    <3> QED
      BY <2>5, <3>2, <3>3, <3>4, Zenon DEF TypeOK
  <2>11. Once(x)' /\ Once(y)'
    BY <2>3, <2>4, <2>7, SMTT(30) DEF Once
  <2>12. Locked'
    BY <2>5, <2>6, <2>11, Zenon DEF TypeOK, Locked
  <2>13. ServedWhileEnabled' /\ ClaimsSomething'
    BY <2>5, <2>8, <2>9, Zenon DEF TypeOK, ServedWhileEnabled, ClaimsSomething
  <2> QED
    BY <2>10, <2>12, <2>13, Zenon
<1> QED
  BY <1>1, <1>2, Zenon

\* A trap that is taken: the CPU leaves "task" for a stage without the lock.
LEMMA TrapIInv ==
  ASSUME IInv, NEW c \in Cpus, NEW l \in {"intc", "strategy"},
         pc[c] = "task", pc' = [pc EXCEPT ![c] = l],
         UNCHANGED <<pending, service, enabled, table>>,
         l = "intc" => pending \cap enabled[c] # {},
         moved' \cup {c} = moved \cup {c}, TypeOK'
  PROVE  IInv'
<1> USE DEF IInv
<1>1. Locked'
  BY OnceKept, Zenon DEF TypeOK, Locked
<1>2. ServedWhileEnabled'
  <2> SUFFICES ASSUME NEW i \in Irqs, service[i] # None
               PROVE  /\ i \in enabled[service[i]] /\ table = service[i]
                      /\ pc'[service[i]] = "handle"
    BY Zenon DEF ServedWhileEnabled
  <2>1. i \in enabled[service[i]] /\ table = service[i] /\ pc[service[i]] = "handle"
    BY Zenon DEF ServedWhileEnabled
  <2>2. service[i] # c
    BY <2>1, Zenon
  <2>3. pc \in [Cpus -> {"task", "intc", "handle", "strategy", "place"}] /\ service[i] \in Cpus
    BY Zenon DEF TypeOK
  <2>4. pc'[service[i]] = pc[service[i]]
    BY <2>2, <2>3, Zenon
  <2> QED
    BY <2>1, <2>4, Zenon
<1>3. ClaimsSomething'
  BY Zenon DEF TypeOK, ClaimsSomething
<1> QED
  BY <1>1, <1>2, <1>3, Zenon

LEMMA NextIInv == IInv /\ [Next]_vars => IInv'
<1> SUFFICES ASSUME IInv, [Next]_vars PROVE IInv'
  BY Zenon
<1>0. ASSUME UNCHANGED <<service, enabled, table, pc, moved>>, pending \subseteq pending', TypeOK'
      PROVE  IInv'
  <2>1. Locked'
    BY <1>0, OnceKept, Zenon DEF IInv, Locked
  <2>2. ServedWhileEnabled' /\ ClaimsSomething'
    BY <1>0, Zenon DEF IInv, ServedWhileEnabled, ClaimsSomething
  <2> QED
    BY <1>0, <2>1, <2>2, Zenon DEF IInv
<1>1. CASE UNCHANGED vars
  <2>1. TypeOK'
    BY <1>1, Zenon DEF vars, IInv, TypeOK
  <2> QED
    BY <1>0, <1>1, <2>1, Zenon DEF vars
<1>2. ASSUME NEW i \in Irqs, Raise(i) PROVE IInv'
  <2>1. TypeOK'
    BY <1>2, Zenon DEF Raise, buildvars, IInv, TypeOK
  <2> QED
    BY <1>0, <1>2, <2>1, Zenon DEF Raise
<1>4. ASSUME NEW c \in Cpus, Trap(c) PROVE IInv'
  <2>1. TypeOK'
    BY <1>4, Zenon DEF Trap, Goto, plicvars, buildvars, IInv, TypeOK
  <2> QED
    BY <1>4, <2>1, TrapIInv, Zenon DEF Trap, At, Goto, plicvars
<1>5. ASSUME NEW c \in Cpus, TimerTrap(c) PROVE IInv'
  <2>1. moves' \in 0 .. MaxMoves
    <3>1. moves \in 0 .. MaxMoves
      BY Zenon DEF IInv, TypeOK
    <3>2. moves < MaxMoves /\ moves' = moves + 1
      BY <1>5, Zenon DEF TimerTrap
    <3> QED
      BY <3>1, <3>2, LoadAssumption
  <2>2. pc' \in [Cpus -> {"task", "intc", "handle", "strategy", "place"}]
    BY <1>5, Zenon DEF TimerTrap, Goto, IInv, TypeOK
  <2>3. TypeOK'
    BY <1>5, <2>1, <2>2, Zenon DEF TimerTrap, plicvars, buildvars, IInv, TypeOK
  <2>4. /\ pc[c] = "task" /\ pc' = [pc EXCEPT ![c] = "strategy"]
        /\ UNCHANGED <<pending, service, enabled, table, moved>>
    BY <1>5, Zenon DEF TimerTrap, At, Goto, plicvars
  <2> QED
    BY <1>5, <2>3, <2>4, TrapIInv, Zenon
<1> QED
  BY <1>1, <1>2, <1>4, <1>5, ClaimIInv, HandleIInv, DisableIInv, PlaceIInv, Zenon
  DEF Next, KernelStep

\* Whatever the number of CPUs, whatever priorities the strategy finds and
\* however its runs interleave with handlers: outside the lock of IRQ_TABLE each
\* interrupt is enabled on exactly one CPU.
THEOREM Routing == Spec => []RoutedOnce
<1>1. IInv => RoutedOnce
  BY CpusAssumption, Zenon DEF IInv, Locked, Once, RoutedOnce
<1> QED
  BY InitIInv, NextIInv, <1>1, PTL DEF Spec

\* The PLIC never ignores a completion: an interrupt in service is still
\* enabled on the CPU that claimed it.
THEOREM Completion == Spec => []ServedWhileEnabled
<1>1. IInv => ServedWhileEnabled
  BY Zenon DEF IInv
<1> QED
  BY InitIInv, NextIInv, <1>1, PTL DEF Spec

\* A claim of nothing, which makes handle_kern_trap panic, happens only when a
\* strategy has moved the CPU's interrupts between trap and claim.
THEOREM ClaimFinds == Spec => []ClaimsSomething
<1>1. IInv => ClaimsSomething
  BY Zenon DEF IInv
<1> QED
  BY InitIInv, NextIInv, <1>1, PTL DEF Spec

-----------------------------------------------------------------------------
(* NetLocks: the order of the locks. *)

\* What the critical sections have in common: a lock l taken while H is held.
Order(l, H) ==
  /\ l \notin H
  /\ "driver" \notin H
  /\ "entry" \in H => l = "sockets"
  /\ "sockets" \in H => l \in {"iface", "entry", "driver"}
  /\ "iface" \in H => l \in {"sockets", "entry", "driver"} /\ (l = "entry" => "sockets" \in H)
  /\ "dev" \in H => l \in {"iface", "sockets", "entry", "driver"}
  /\ H # {} => l \in {"dev", "iface", "sockets", "entry", "driver"}

Steps == {"lock", "unlock"} \X Locks

\* One step takes the locks held from H to G.
Moves1(x, H, G) ==
  \/ \E l \in Locks : x = <<"lock", l>> /\ Order(l, H) /\ G = H \cup {l}
  \/ \E l \in Locks : x = <<"unlock", l>> /\ l \in H /\ G = H \ {l}

\* q, begun with the locks H held, keeps the order and ends with none: f is what
\* is held before each step.
Traced(q, H, f) ==
  /\ f \in [1 .. Len(q) + 1 -> SUBSET Locks] /\ f[1] = H /\ f[Len(q) + 1] = {}
  /\ \A k \in 1 .. Len(q) : Moves1(q[k], f[k], f[k + 1])
Obeys(q, H) == q \in Seq(Steps) /\ H \in SUBSET Locks /\ \E f : Traced(q, H, f)

\* s can be put in front of whatever obeys the order with H held.
Block(s, H) == s \in Seq(Steps) /\ \A t : Obeys(t, H) => Obeys(s \o t, H)

LEMMA ObeysNil == Obeys(<<>>, {}) /\ \A H : Obeys(<<>>, H) => H = {}
<1>1. <<>> \in Seq(Steps) /\ Len(<<>>) = 0
  OBVIOUS
<1>2. Traced(<<>>, {}, [k \in 1 .. 1 |-> {}])
  BY <1>1 DEF Traced
<1>3. ASSUME NEW H, Obeys(<<>>, H) PROVE H = {}
  BY <1>1, <1>3 DEF Obeys, Traced
<1> QED BY <1>1, <1>2, <1>3, Zenon DEF Obeys

LEMMA ObeysCons ==
  ASSUME NEW x \in Steps, NEW H \in SUBSET Locks, NEW G, NEW s, Moves1(x, H, G), Obeys(s, G)
  PROVE  Obeys(<<x>> \o s, H)
<1>1. PICK f : Traced(s, G, f)
  BY Zenon DEF Obeys
<1> DEFINE q == <<x>> \o s
           g == [k \in 1 .. Len(s) + 2 |-> IF k = 1 THEN H ELSE f[k - 1]]
<1>0. s \in Seq(Steps) /\ Len(s) \in Nat
  BY DEF Obeys
<1>2. /\ q \in Seq(Steps) /\ Len(q) = Len(s) + 1 /\ q[1] = x
      /\ \A k \in 1 .. Len(s) : q[k + 1] = s[k]
  BY <1>0
<1>3. /\ f \in [1 .. Len(s) + 1 -> SUBSET Locks] /\ f[1] = G /\ f[Len(s) + 1] = {}
      /\ \A k \in 1 .. Len(s) : Moves1(s[k], f[k], f[k + 1])
  BY <1>1, Zenon DEF Traced
<1>4. /\ g \in [1 .. Len(s) + 2 -> SUBSET Locks] /\ g[1] = H
      /\ \A k \in 1 .. Len(s) + 1 : g[k + 1] = f[k]
  BY <1>0, <1>3
<1> HIDE DEF q, g
<1>5. g[Len(s) + 2] = {}
  BY <1>0, <1>3, <1>4, SMTT(30), Zenon
<1>6. ASSUME NEW k \in 1 .. Len(s) + 1 PROVE Moves1(q[k], g[k], g[k + 1])
  <2>1. CASE k = 1
    <3>1. g[1 + 1] = f[1]
      BY <1>0, <1>4, SMTT(30), Zenon
    <3> QED BY <1>2, <1>3, <1>4, <2>1, <3>1, Zenon
  <2>2. CASE k # 1
    <3>1. PICK j \in 1 .. Len(s) : k = j + 1
      BY <1>0, <2>2
    <3>2. j \in 1 .. Len(s) + 1 /\ j + 1 \in 1 .. Len(s) + 1
      BY <1>0, SMTT(30), Zenon
    <3>3. q[k] = s[j] /\ g[k] = f[j] /\ g[k + 1] = f[j + 1]
      BY <1>2, <1>4, <3>1, <3>2, Zenon
    <3> QED BY <1>3, <3>3, Zenon
  <2> QED BY <2>1, <2>2, Zenon
<1>7. Len(q) + 1 = Len(s) + 2
  BY <1>0, <1>2, SMTT(30), Zenon
<1>8. Traced(q, H, g)
  BY <1>2, <1>4, <1>5, <1>6, <1>7, Zenon DEF Traced
<1> QED BY <1>2, <1>8, Zenon DEF Obeys, q

LEMMA ObeysTail ==
  ASSUME NEW q, NEW H, Obeys(q, H), q # <<>>
  PROVE  \E G : Moves1(Head(q), H, G) /\ Obeys(Tail(q), G)
<1>0. q \in Seq(Steps) /\ Len(q) \in Nat \ {0} /\ Head(q) = q[1]
  BY DEF Obeys
<1>1. PICK f : Traced(q, H, f)
  BY Zenon DEF Obeys
<1> DEFINE N == Len(q)
           t == Tail(q)
           g == [k \in 1 .. N |-> f[k + 1]]
<1>2. /\ f \in [1 .. N + 1 -> SUBSET Locks] /\ f[1] = H /\ f[N + 1] = {}
      /\ \A k \in 1 .. N : Moves1(q[k], f[k], f[k + 1])
  BY <1>1, Zenon DEF Traced
<1>3. t \in Seq(Steps) /\ Len(t) = N - 1 /\ \A k \in 1 .. N - 1 : t[k] = q[k + 1]
  BY <1>0
<1>4. g \in [1 .. N -> SUBSET Locks] /\ \A k \in 1 .. N : g[k] = f[k + 1]
  BY <1>0, <1>2
<1> HIDE DEF g, t, N
<1>5. N \in Nat \ {0}
  BY <1>0, Zenon DEF N
<1>6. ASSUME NEW k \in 1 .. N - 1 PROVE Moves1(t[k], g[k], g[k + 1])
  <2>1. k \in 1 .. N /\ k + 1 \in 1 .. N
    BY <1>5, SMTT(30)
  <2>2. t[k] = q[k + 1] /\ g[k] = f[k + 1] /\ g[k + 1] = f[k + 1 + 1]
    BY <1>3, <1>4, <2>1, Zenon
  <2> QED BY <1>2, <2>1, <2>2, Zenon
<1>7. g[N] = {} /\ g[1] = f[2] /\ Moves1(q[1], f[1], f[2]) /\ f[2] \in SUBSET Locks
  <2>1. 1 \in 1 .. N /\ N \in 1 .. N /\ 1 + 1 = 2 /\ 2 \in 1 .. N + 1
    BY <1>5
  <2>2. Moves1(q[1], f[1], f[1 + 1])
    BY <1>2, <2>1, Zenon
  <2> QED BY <1>2, <1>4, <2>1, <2>2, Zenon
<1>8. Len(t) + 1 = N
  BY <1>3, <1>5, SMTT(30)
<1>9. Traced(t, f[2], g)
  BY <1>3, <1>4, <1>6, <1>7, <1>8, Zenon DEF Traced
<1>10. Obeys(t, f[2]) /\ Moves1(Head(q), H, f[2])
  BY <1>0, <1>2, <1>3, <1>7, <1>9, Zenon DEF Obeys
<1> QED BY <1>10, Zenon DEF t

LEMMA BlockNil ==
  ASSUME NEW H
  PROVE  Block(<<>>, H)
<1>1. <<>> \in Seq(Steps)
  OBVIOUS
<1>2. ASSUME NEW t, Obeys(t, H) PROVE Obeys(<<>> \o t, H)
  <2>1. t \in Seq(Steps)
    BY <1>2, Zenon DEF Obeys
  <2>2. <<>> \o t = t
    BY <2>1
  <2> QED BY <1>2, <2>2, Zenon
<1> QED BY <1>1, <1>2, Zenon DEF Block

LEMMA BlockConcat ==
  ASSUME NEW H, NEW s, NEW r, Block(s, H), Block(r, H)
  PROVE  Block(s \o r, H)
<1>1. s \in Seq(Steps) /\ r \in Seq(Steps) /\ s \o r \in Seq(Steps)
  BY DEF Block
<1>2. ASSUME NEW t, Obeys(t, H) PROVE Obeys((s \o r) \o t, H)
  <2>1. t \in Seq(Steps)
    BY <1>2, Zenon DEF Obeys
  <2>2. (s \o r) \o t = s \o (r \o t)
    BY <1>1, <2>1
  <2>3. Obeys(s \o (r \o t), H)
    BY <1>2, Zenon DEF Block
  <2> QED BY <2>2, <2>3, Zenon
<1> QED BY <1>1, <1>2, Zenon DEF Block

\* A section that takes l in order around a body that keeps the order.
LEMMA BlockWithin ==
  ASSUME NEW H \in SUBSET Locks, NEW l \in Locks, Order(l, H), NEW body, Block(body, H \cup {l})
  PROVE  Block(Within(l, body), H)
<1> DEFINE x == <<"lock", l>>
           y == <<"unlock", l>>
<1>1. x \in Steps /\ y \in Steps /\ body \in Seq(Steps)
  BY Zenon DEF Steps, Block
<1>2. Moves1(x, H, H \cup {l}) /\ Moves1(y, H \cup {l}, H)
  <2>1. (H \cup {l}) \ {l} = H
    BY Zenon DEF Order
  <2> QED BY <2>1, Zenon DEF Moves1
<1> HIDE DEF x, y
<1>3. <<x>> \o body \o <<y>> \in Seq(Steps)
  BY <1>1
<1>4. ASSUME NEW t, Obeys(t, H) PROVE Obeys((<<x>> \o body \o <<y>>) \o t, H)
  <2>1. t \in Seq(Steps)
    BY <1>4, Zenon DEF Obeys
  <2>2. (<<x>> \o body \o <<y>>) \o t = <<x>> \o (body \o (<<y>> \o t))
    BY <1>1, <2>1
  <2>3. Obeys(<<y>> \o t, H \cup {l})
    BY <1>1, <1>2, <1>4, ObeysCons, Zenon
  <2>4. Obeys(body \o (<<y>> \o t), H \cup {l})
    BY <2>3, Zenon DEF Block
  <2>5. Obeys(<<x>> \o (body \o (<<y>> \o t)), H)
    BY <1>1, <1>2, <2>4, ObeysCons, Zenon
  <2> QED BY <2>2, <2>5, Zenon
<1> QED BY <1>3, <1>4, Zenon DEF Block, Within, x, y

\* A lock taken and released in order.
LEMMA BlockUse ==
  ASSUME NEW H \in SUBSET Locks, NEW l \in Locks, Order(l, H)
  PROVE  Block(Use1(l), H)
BY BlockNil, BlockWithin, Zenon DEF Use1

\* The critical sections keep the order, poll also inside the handler.
LEMMA PollBlock ==
  ASSUME NEW H \in {{}, {"irq_table"}}, NEW syn \in BOOLEAN
  PROVE  Block(PollLocks(syn), H)
<1> DEFINE H1 == H \cup {"dev"}
           H2 == H1 \cup {"iface"}
           H3 == H2 \cup {"sockets"}
<1>1. H \in SUBSET Locks /\ H1 \in SUBSET Locks /\ H2 \in SUBSET Locks /\ H3 \in SUBSET Locks
  BY Zenon DEF Locks
<1>2. {"dev", "iface", "sockets", "driver", "entry"} \subseteq Locks
  BY Zenon DEF Locks
<1>3. Order("dev", H) /\ Order("iface", H1)
  BY Zenon DEF Order
<1>4. Order("sockets", H2)
  BY Zenon DEF Order
<1>5. Order("driver", H3) /\ Order("entry", H3)
  BY Zenon DEF Order
<1> HIDE DEF H1, H2, H3
<1>6. Block(Use1("driver"), H3) /\ Block(IF syn THEN Use1("entry") ELSE <<>>, H3)
  BY <1>1, <1>2, <1>5, BlockUse, BlockNil, Zenon
<1> DEFINE body == Use1("driver") \o IF syn THEN Use1("entry") ELSE <<>>
<1>7. Block(body, H3)
  BY <1>6, BlockConcat, Zenon
<1> HIDE DEF body
<1>8. Block(Within("sockets", body), H2)
  BY <1>1, <1>2, <1>4, <1>7, BlockWithin, Zenon DEF H3
<1>9. Block(Within("iface", Within("sockets", body)), H1)
  BY <1>1, <1>2, <1>3, <1>8, BlockWithin, Zenon DEF H2
<1>10. Block(Within("dev", Within("iface", Within("sockets", body))), H)
  BY <1>1, <1>2, <1>3, <1>9, BlockWithin, Zenon DEF H1
<1> QED BY <1>10, Zenon DEF PollLocks, body

LEMMA HandlerBlock ==
  ASSUME NEW syn \in BOOLEAN
  PROVE  Block(HandlerLocks(syn), {})
<1>1. Block(PollLocks(syn), {"irq_table"})
  BY PollBlock, Zenon
<1>2. {"irq_table"} \in SUBSET Locks /\ "irq_table" \in Locks /\ "driver" \in Locks /\ {} \in SUBSET Locks
  BY Zenon DEF Locks
<1>3. Order("driver", {"irq_table"}) /\ Order("irq_table", {})
  BY Zenon DEF Order
<1>4. Block(PollLocks(syn) \o Use1("driver"), {} \cup {"irq_table"})
  BY <1>1, <1>2, <1>3, BlockUse, BlockConcat
<1> QED BY <1>2, <1>3, <1>4, BlockWithin, Zenon DEF HandlerLocks

LEMMA StrategyBlock == Block(StrategyLocks, {})
<1>1. {} \in SUBSET Locks /\ "irq_table" \in Locks
  BY Zenon DEF Locks
<1>2. Order("irq_table", {})
  BY Zenon DEF Order
<1> QED BY <1>1, <1>2, BlockUse, Zenon DEF StrategyLocks

LEMMA SectionBlock ==
  ASSUME NEW section \in Sections
  PROVE  Block(section, {})
<1>1. /\ {} \in SUBSET Locks /\ {"sockets"} \in SUBSET Locks /\ {"curr"} \in SUBSET Locks /\ {"entry"} \in SUBSET Locks
      /\ {"sockets", "iface", "curr", "entry"} \subseteq Locks
  BY Zenon DEF Locks
<1>2. \A l \in Locks : Order(l, {})
  BY Zenon DEF Order
<1>3. Order("iface", {"sockets"}) /\ Order("entry", {"curr"}) /\ Order("sockets", {"entry"})
  BY Zenon DEF Order
<1>4. ASSUME NEW l \in Locks, NEW m \in Locks, {l} \in SUBSET Locks, Order(m, {l})
      PROVE  Block(Within(l, Use1(m)), {})
  <2>1. Block(Use1(m), {} \cup {l})
    BY <1>4, BlockUse, Zenon
  <2> QED BY <1>1, <1>2, <2>1, BlockWithin, Zenon
<1>5. Block(PollLocks(TRUE), {}) /\ Block(PollLocks(FALSE), {})
  BY PollBlock, Zenon
<1>6. Block(ConnectLocks, {}) /\ Block(EphemeralLocks, {}) /\ Block(AcceptLocks, {}) /\ Block(UnlistenLocks, {})
  BY <1>1, <1>3, <1>4, Zenon DEF ConnectLocks, EphemeralLocks, AcceptLocks, UnlistenLocks
<1>7. Block(ListenLocks, {}) /\ Block(SocketLocks, {})
  BY <1>1, <1>2, BlockUse, Zenon DEF ListenLocks, SocketLocks
<1> QED BY <1>5, <1>6, <1>7, Zenon DEF Sections

LEMMA BlockObeys ==
  ASSUME NEW s, Block(s, {})
  PROVE  Obeys(s, {})
<1>1. s \in Seq(Steps) /\ Obeys(s \o <<>>, {})
  BY ObeysNil, Zenon DEF Block
<1>2. s \o <<>> = s
  BY <1>1
<1> QED BY <1>1, <1>2, Zenon

\* The locks an actor holds are those its program has yet to release.
HeldBy(a) == {l \in Locks : owner[l] = {a}}

KInv ==
  /\ owner \in [Locks -> {{}} \cup {{a} : a \in Actors}]
  /\ DOMAIN todo = Actors
  /\ \A a \in Actors : Obeys(todo[a], HeldBy(a))

LEMMA BegunKInv ==
  ASSUME KInv, NEW a \in Actors, todo[a] = <<>>, NEW s, Block(s, {}),
         todo' = [todo EXCEPT ![a] = s], UNCHANGED owner
  PROVE  KInv'
<1>1. HeldBy(a) = {} /\ \A b \in Actors : HeldBy(b)' = HeldBy(b)
  BY ObeysNil, Zenon DEF KInv, HeldBy
<1>2. todo'[a] = s /\ \A b \in Actors : b # a => todo'[b] = todo[b]
  BY Zenon DEF KInv
<1>3. DOMAIN todo' = Actors
  BY Zenon DEF KInv
<1>4. \A b \in Actors : Obeys(todo'[b], HeldBy(b)')
  BY <1>1, <1>2, BlockObeys, Zenon DEF KInv
<1> QED BY <1>3, <1>4, Zenon DEF KInv

LEMMA LockKInv ==
  ASSUME KInv, NEW a \in Actors, Lock(a) \/ Unlock(a)
  PROVE  KInv'
<1>0. /\ todo[a] # <<>> /\ Obeys(todo[a], HeldBy(a)) /\ owner \in [Locks -> {{}} \cup {{b} : b \in Actors}]
      /\ todo' = [todo EXCEPT ![a] = Tail(todo[a])]
  BY Zenon DEF KInv, Lock, Unlock
<1>1. PICK G : Moves1(Head(todo[a]), HeldBy(a), G) /\ Obeys(Tail(todo[a]), G)
  BY <1>0, ObeysTail, Zenon
<1>2. PICK l \in Locks : \/ Head(todo[a]) = <<"lock", l>> /\ G = HeldBy(a) \cup {l}
                         \/ Head(todo[a]) = <<"unlock", l>> /\ l \in HeldBy(a) /\ G = HeldBy(a) \ {l}
  BY <1>1, Zenon DEF Moves1
<1>3. \/ /\ G = HeldBy(a) \cup {l} /\ owner[l] = {} /\ owner' = [owner EXCEPT ![l] = {a}]
      \/ /\ G = HeldBy(a) \ {l} /\ owner[l] = {a} /\ owner' = [owner EXCEPT ![l] = {}]
  <2>1. CASE Head(todo[a]) = <<"lock", l>> /\ G = HeldBy(a) \cup {l}
    <3>1. Head(todo[a])[1] = "lock" /\ Head(todo[a])[2] = l
      BY <2>1
    <3>2. Lock(a)
      BY <3>1, Zenon DEF Unlock
    <3> QED BY <2>1, <3>1, <3>2, Zenon DEF Lock
  <2>2. CASE Head(todo[a]) = <<"unlock", l>> /\ l \in HeldBy(a) /\ G = HeldBy(a) \ {l}
    <3>1. Head(todo[a])[1] = "unlock" /\ Head(todo[a])[2] = l /\ owner[l] = {a}
      BY <2>2, SMTT(30) DEF HeldBy
    <3>2. Unlock(a)
      BY <3>1, Zenon DEF Lock
    <3> QED BY <2>2, <3>1, <3>2, Zenon DEF Unlock
  <2> QED BY <1>2, <2>1, <2>2, Zenon
<1>4. HeldBy(a)' = G /\ \A b \in Actors : b # a => HeldBy(b)' = HeldBy(b)
  <2>1. \A m \in Locks : m # l => owner'[m] = owner[m]
    BY <1>0, <1>3, Zenon
  <2>2. CASE G = HeldBy(a) \cup {l} /\ owner[l] = {} /\ owner' = [owner EXCEPT ![l] = {a}]
    <3>1. owner'[l] = {a}
      BY <1>0, <2>2, Zenon
    <3>2. HeldBy(a)' = G
      BY <2>1, <2>2, <3>1, Zenon DEF HeldBy
    <3>3. ASSUME NEW b \in Actors, b # a PROVE HeldBy(b)' = HeldBy(b)
      <4>1. owner[l] # {b} /\ owner'[l] # {b}
        BY <2>2, <3>1, <3>3, Zenon
      <4> QED BY <2>1, <4>1, Zenon DEF HeldBy
    <3> QED BY <3>2, <3>3, Zenon
  <2>3. CASE G = HeldBy(a) \ {l} /\ owner[l] = {a} /\ owner' = [owner EXCEPT ![l] = {}]
    <3>1. owner'[l] = {}
      BY <1>0, <2>3, Zenon
    <3>2. HeldBy(a)' = G
      BY <2>1, <2>3, <3>1, Zenon DEF HeldBy
    <3>3. ASSUME NEW b \in Actors, b # a PROVE HeldBy(b)' = HeldBy(b)
      <4>1. owner[l] # {b} /\ owner'[l] # {b}
        BY <2>3, <3>1, <3>3, Zenon
      <4> QED BY <2>1, <4>1, Zenon DEF HeldBy
    <3> QED BY <3>2, <3>3, Zenon
  <2> QED BY <1>3, <2>2, <2>3, Zenon
<1>5. owner' \in [Locks -> {{}} \cup {{b} : b \in Actors}]
  BY <1>0, <1>3, Zenon
<1>6. todo'[a] = Tail(todo[a]) /\ (\A b \in Actors : b # a => todo'[b] = todo[b]) /\ DOMAIN todo' = Actors
  BY <1>0, Zenon DEF KInv
<1>7. \A b \in Actors : Obeys(todo'[b], HeldBy(b)')
  BY <1>1, <1>4, <1>6, Zenon DEF KInv
<1> QED BY <1>5, <1>6, <1>7, Zenon DEF KInv

LEMMA NextKInv == KInv /\ [KNext]_kvars => KInv'
<1> SUFFICES ASSUME KInv, [KNext]_kvars PROVE KInv'
  BY Zenon
<1>1. ASSUME NEW e \in Executors, NEW section \in Sections, Begin(e, section) PROVE KInv'
  <2>1. Task(e) \in Actors
    BY Zenon DEF Actors
  <2> QED BY <1>1, <2>1, SectionBlock, BegunKInv, Zenon DEF Begin
<1>2. ASSUME NEW c \in Harts, NEW section \in InterruptSections(c), Interrupted(c, section) PROVE KInv'
  <2>1. Irq(c) \in Actors
    BY Zenon DEF Actors
  <2>2. Block(section, {})
    BY HandlerBlock, StrategyBlock, Zenon DEF InterruptSections
  <2> QED BY <1>2, <2>1, <2>2, BegunKInv, Zenon DEF Interrupted
<1>3. ASSUME NEW a \in Actors, Lock(a) \/ Unlock(a) PROVE KInv'
  BY <1>3, LockKInv, Zenon
<1>4. ASSUME NEW e \in Executors, SlotEnd(e) PROVE KInv'
  BY <1>4, Zenon DEF SlotEnd, KInv, HeldBy
<1>5. CASE UNCHANGED kvars
  BY <1>5, Zenon DEF kvars, KInv, HeldBy
<1> QED BY <1>1, <1>2, <1>3, <1>4, <1>5, Zenon DEF KNext

\* An actor that waits for a lock waits for one only, in the order.
LEMMA WaitOrder ==
  ASSUME KInv, NEW a \in Actors, NEW l \in Locks, WaitsForLock(a, l)
  PROVE  Order(l, HeldBy(a)) /\ \A m : WaitsForLock(a, m) => m = l
<1>1. todo[a] # <<>> /\ Head(todo[a]) = <<"lock", l>> /\ Obeys(todo[a], HeldBy(a))
  BY Zenon DEF WaitsForLock, KInv
<1>2. PICK G : Moves1(<<"lock", l>>, HeldBy(a), G)
  BY <1>1, ObeysTail, Zenon
<1>3. Order(l, HeldBy(a))
  BY <1>2, Zenon DEF Moves1
<1> QED BY <1>1, <1>3, SMTT(30) DEF WaitsForLock

\* Whoever waits spins for a lock that is held, or is covered by a handler.
LEMMA WaitsWhy ==
  ASSUME KInv, NEW a \in Actors, NEW b \in WaitsOn(a)
  PROVE  \/ \E l \in Locks : WaitsForLock(a, l) /\ l \in HeldBy(b)
         \/ \E e \in Executors : a = Task(e) /\ b = Irq(CpuOf[e])
<1>1. CASE todo[a] # <<>> /\ Head(todo[a])[1] = "lock" /\ b \in owner[Head(todo[a])[2]]
  <2>1. PICK G : Moves1(Head(todo[a]), HeldBy(a), G)
    BY <1>1, ObeysTail, Zenon DEF KInv
  <2>2. PICK l \in Locks : Head(todo[a]) = <<"lock", l>> \/ Head(todo[a]) = <<"unlock", l>>
    BY <2>1, Zenon DEF Moves1
  <2>3. Head(todo[a]) = <<"lock", l>> /\ Head(todo[a])[2] = l
    BY <1>1, <2>2, SMTT(30)
  <2>4. owner[l] = {b}
    <3>1. b \in owner[l]
      BY <1>1, <2>3, Zenon
    <3>2. owner[l] \in {{}} \cup {{x} : x \in Actors}
      BY Zenon DEF KInv
    <3> QED BY <3>1, <3>2
  <2> QED BY <1>1, <2>3, <2>4, Zenon DEF WaitsForLock, HeldBy
<1>2. CASE \E e \in Executors : a = Task(e) /\ b = Irq(CpuOf[e])
  BY <1>2, Zenon
<1> QED BY <1>1, <1>2, Zenon DEF WaitsOn

\* In a deadlock without a handler on the CPU of a lock holder, whoever holds a
\* lock waits for one that another member of the group holds.
LEMMA HoldersWait ==
  ASSUME KInv, NEW group \in SUBSET Actors, Deadlocked(group),
         ~ \E e \in Executors : Irq(CpuOf[e]) \in group /\ \E l \in Locks : Owns(Task(e), l)
  PROVE  /\ \A a \in group : HeldBy(a) # {} =>
              \E l \in Locks : WaitsForLock(a, l) /\ \E b \in group : l \in HeldBy(b)
         /\ \E a \in group : HeldBy(a) # {}
<1>1. \A a \in group : \E b \in group : b \in WaitsOn(a)
  BY Zenon DEF Deadlocked
<1>2. ASSUME NEW a \in group
      PROVE  \/ \E l \in Locks : WaitsForLock(a, l) /\ \E b \in group : l \in HeldBy(b)
             \/ \E e \in Executors : a = Task(e) /\ Irq(CpuOf[e]) \in group
  BY <1>1, WaitsWhy, Zenon
<1>3. ASSUME NEW a \in group, HeldBy(a) # {}
      PROVE  \E l \in Locks : WaitsForLock(a, l) /\ \E b \in group : l \in HeldBy(b)
  BY <1>2, <1>3, Zenon DEF HeldBy, Owns
<1>4. \E a \in group : HeldBy(a) # {}
  <2>1. PICK a \in group : TRUE
    BY Zenon DEF Deadlocked
  <2>2. CASE \E l \in Locks : WaitsForLock(a, l) /\ \E b \in group : l \in HeldBy(b)
    BY <2>2, Zenon
  <2>3. CASE \E e \in Executors : a = Task(e) /\ Irq(CpuOf[e]) \in group
    <3>1. PICK e \in Executors : Irq(CpuOf[e]) \in group
      BY <2>3, Zenon
    <3>2. \A x : Irq(CpuOf[e]) # Task(x)
      BY SMTT(30) DEF Irq, Task
    <3> QED BY <1>2, <3>1, <3>2, Zenon
  <2> QED BY <1>2, <2>2, <2>3, Zenon
<1> QED BY <1>3, <1>4, Zenon

\* The locks of the network stack block its users for ever in the known ways
\* only, for any number of CPUs and executors and any slot ends: every section
\* of smoltcp_impl, the handler and the interrupt strategy take them in an order
\* that leaves no other cycle.
THEOREM KnownDeadlocks == KSpec => []DeadlocksKnown
<1>1. KInit => KInv
  <2> SUFFICES ASSUME KInit PROVE KInv
    BY Zenon
  <2>1. \A a \in Actors : HeldBy(a) = {}
    BY Zenon DEF KInit, HeldBy
  <2> QED BY <2>1, ObeysNil, Zenon DEF KInit, KInv
<1>2. KInv => DeadlocksKnown
  <2> SUFFICES ASSUME KInv, NEW group \in SUBSET Actors, Deadlocked(group),
                      ~ \E e \in Executors : Irq(CpuOf[e]) \in group /\ \E l \in Locks : Owns(Task(e), l)
               PROVE  \E a, b \in group :
                        \/ Owns(a, "sockets") /\ WaitsForLock(a, "iface") /\ Owns(b, "iface") /\ WaitsForLock(b, "sockets")
                        \/ Owns(a, "entry") /\ WaitsForLock(a, "sockets") /\ Owns(b, "sockets") /\ WaitsForLock(b, "entry")
    BY Zenon DEF DeadlocksKnown, Waiting
  <2> DEFINE Next1(a, l) == l \in Locks /\ WaitsForLock(a, l) /\ Order(l, HeldBy(a)) /\ \E b \in group : l \in HeldBy(b)
  <2>1. \A a \in group : HeldBy(a) # {} => \E l : Next1(a, l)
    BY HoldersWait, WaitOrder, Zenon
  <2>2. \A a \in group : \A l, m : Next1(a, l) /\ Next1(a, m) => l = m
    BY WaitOrder, Zenon
  <2>3. \A a \in group : \A l : Next1(a, l) => Order(l, HeldBy(a)) /\ \E b \in group : l \in HeldBy(b)
    BY Zenon
  <2>4. \A a \in group : \A l : Next1(a, l) => WaitsForLock(a, l)
    BY Zenon
  <2>w. \A a, b \in group : \A l : l \in HeldBy(a) /\ l \in HeldBy(b) => a = b
    BY Zenon DEF HeldBy
  <2> HIDE DEF Next1
  <2>5. \A a \in group : "driver" \notin HeldBy(a)
    BY <2>1, <2>3, Zenon DEF Order
  <2>6. \A a \in group : \A l : Next1(a, l) => l # "driver"
    BY <2>3, <2>5, Zenon
  <2>7. \A a \in group : "entry" \in HeldBy(a) => Next1(a, "sockets")
    BY <2>1, <2>3, SMTT(30) DEF Order
  <2>8. \A a \in group : "sockets" \in HeldBy(a) => Next1(a, "iface") \/ Next1(a, "entry")
    BY <2>1, <2>3, <2>6, SMTT(30) DEF Order
  <2>9. \A a \in group : "iface" \in HeldBy(a) =>
          Next1(a, "sockets") \/ (Next1(a, "entry") /\ "sockets" \in HeldBy(a))
    BY <2>1, <2>3, <2>6, SMTT(30) DEF Order
  <2>10. \A a \in group : "dev" \in HeldBy(a) => \E l \in {"iface", "sockets", "entry"} : Next1(a, l)
    BY <2>1, <2>3, <2>6, SMTT(30) DEF Order
  <2>11. \E a \in group : \E l \in {"dev", "iface", "sockets", "entry"} : Next1(a, l)
    BY <2>1, <2>3, <2>6, HoldersWait, SMTT(30) DEF Order
  <2>12. \E a \in group : \E l \in {"iface", "sockets", "entry"} : Next1(a, l)
    BY <2>3, <2>10, <2>11, Zenon
  <2>13. \E a \in group : \E l \in {"sockets", "entry"} : Next1(a, l)
    BY <2>3, <2>9, <2>12, Zenon
  <2>14. \E a \in group : Next1(a, "sockets")
    BY <2>3, <2>7, <2>13, Zenon
  <2>15. PICK x \in group : "sockets" \in HeldBy(x)
    BY <2>3, <2>14, Zenon
  <2>16. CASE Next1(x, "iface")
    <3>1. PICK y \in group : "iface" \in HeldBy(y)
      BY <2>3, <2>16, Zenon
    <3>2. Next1(y, "sockets")
      BY <2>2, <2>9, <2>15, <2>16, <2>w, <3>1, Zenon
    <3> QED BY <2>4, <2>15, <2>16, <3>1, <3>2, Zenon DEF Owns, HeldBy
  <2>17. CASE Next1(x, "entry")
    <3>1. PICK z \in group : "entry" \in HeldBy(z)
      BY <2>3, <2>17, Zenon
    <3>2. Next1(z, "sockets")
      BY <2>7, <3>1, Zenon
    <3> QED BY <2>4, <2>15, <2>17, <3>1, <3>2, Zenon DEF Owns, HeldBy
  <2> QED BY <2>8, <2>15, <2>16, <2>17, Zenon
<1> QED BY <1>1, <1>2, NextKInv, PTL DEF KSpec
=============================================================================
