---------------------------- MODULE RuntimeProofs ---------------------------
(***************************************************************************)
(* Proofs about Runtime, for any inspectors, executors, priorities and     *)
(* tables, and without bounds on the clock or on the nesting of interrupts *)
(* other than that they are some numbers.                                  *)
(***************************************************************************)
EXTENDS Runtime, FiniteSetTheorems, Integers, Sequences, WellFoundedInduction, TLAPS

-----------------------------------------------------------------------------
(* Naturals and sequences. *)

\* A non-empty set of naturals has a least element.
LEMMA NatLeast ==
  ASSUME NEW T \in SUBSET Nat, T # {}
  PROVE  \E n \in T : \A m \in T : n <= m
<1>1. PICK n \in T : \A m \in T : <<m, n>> \notin OpToRel(<, Nat)
  BY NatLessThanWellFounded, WFMin, Zenon
<1>2. \A m \in T : ~(m < n)
  BY <1>1, Zenon DEF OpToRel
<1> QED BY <1>2

\* A non-empty set of naturals below N has a greatest element.
LEMMA GreatestBelow ==
  ASSUME NEW N \in Nat, NEW B \in SUBSET (0 .. N - 1), B # {}
  PROVE  \E p \in B : \A o \in B : o <= p
<1> DEFINE U == {n \in Nat : \A o \in B : o <= n}
<1>1. N \in U
  OBVIOUS
<1>2. PICK n \in U : \A m \in U : n <= m
  BY <1>1, NatLeast, Zenon
<1>3. ASSUME n \notin B PROVE FALSE
  <2>1. n \in Nat /\ \A o \in B : o \in Nat /\ o <= n
    BY <1>2
  <2>2. \A o \in B : o <= n - 1
    BY <1>3, <2>1
  <2>3. PICK o \in B : TRUE
    BY Zenon
  <2> HIDE DEF U
  <2>4. o \in Nat /\ o <= n - 1 /\ n \in Nat
    BY <2>1, <2>2, <2>3, Zenon
  <2>5. n - 1 \in Nat
    BY <2>4
  <2>6. n - 1 \in U
    BY <2>2, <2>5, Zenon DEF U
  <2> QED BY <1>2, <2>1, <2>6
<1> QED BY <1>2, <1>3, Zenon

\* A sequence is empty when its length is zero.
LEMMA EmptyIsLenZero ==
  ASSUME NEW S, NEW s \in Seq(S)
  PROVE  s = <<>> <=> Len(s) = 0
OBVIOUS

\* What Append does to a sequence.
LEMMA AppendFacts ==
  ASSUME NEW S, NEW s \in Seq(S), NEW x \in S
  PROVE  /\ Append(s, x) \in Seq(S)
         /\ Append(s, x) # <<>>
         /\ DOMAIN Append(s, x) = 1 .. Len(s) + 1
         /\ DOMAIN s = 1 .. Len(s)
         /\ Append(s, x)[Len(s) + 1] = x
         /\ \A i \in DOMAIN s : Append(s, x)[i] = s[i]
OBVIOUS

\* What Tail does to a non-empty sequence.
LEMMA TailFacts ==
  ASSUME NEW S, NEW s \in Seq(S), s # <<>>
  PROVE  /\ Tail(s) \in Seq(S)
         /\ Head(s) \in S
         /\ Head(s) = s[1]
         /\ 1 \in DOMAIN s
         /\ DOMAIN Tail(s) = 1 .. Len(s) - 1
         /\ DOMAIN s = 1 .. Len(s)
         /\ \A i \in DOMAIN Tail(s) : Tail(s)[i] = s[i + 1]
         /\ Tail(s) = <<>> <=> Len(s) = 1
<1>1. Len(s) \in Nat /\ Len(s) # 0
  OBVIOUS
<1>2. Len(Tail(s)) = Len(s) - 1 /\ Tail(s) \in Seq(S)
  BY <1>1
<1>3. Tail(s) = <<>> <=> Len(Tail(s)) = 0
  <2> DEFINE t == Tail(s)
  <2>1. t \in Seq(S)
    BY <1>2, Zenon
  <2> HIDE DEF t
  <2>2. t = <<>> <=> Len(t) = 0
    BY <2>1, EmptyIsLenZero, Zenon
  <2> QED BY <2>2, Zenon DEF t
<1> QED BY <1>1, <1>2, <1>3

\* s holds every member of R, each once, and nothing else.
Lists(s, R) ==
  /\ \A k \in DOMAIN s : s[k] \in R
  /\ \A j, k \in DOMAIN s : s[j] = s[k] => j = k
  /\ \A x \in R : \E k \in DOMAIN s : s[k] = x

\* Nothing listed.
LEMMA ListsEmpty == Lists(<<>>, {})
BY DEF Lists

\* push_back of something new.
LEMMA ListsAppend ==
  ASSUME NEW S, NEW s \in Seq(S), NEW R, Lists(s, R), NEW x \in S, x \notin R
  PROVE  Lists(Append(s, x), R \cup {x})
<1> DEFINE t == Append(s, x)
           N == Len(s)
<1>1. /\ DOMAIN t = 1 .. N + 1 /\ DOMAIN s = 1 .. N
      /\ t[N + 1] = x
      /\ \A i \in DOMAIN s : t[i] = s[i]
  BY AppendFacts
<1>2. N \in Nat
  OBVIOUS
<1> HIDE DEF t, N
<1>3. \A i \in DOMAIN t : i \in DOMAIN s \/ i = N + 1
  BY <1>1, <1>2
<1>4. N + 1 \in DOMAIN t /\ \A i \in DOMAIN s : i \in DOMAIN t
  BY <1>1, <1>2
<1>5. \A k \in DOMAIN t : t[k] \in R \cup {x}
  BY <1>1, <1>3, Zenon DEF Lists
<1>6. ASSUME NEW j \in DOMAIN t, NEW k \in DOMAIN t, t[j] = t[k] PROVE j = k
  BY <1>1, <1>3, <1>6, Zenon DEF Lists
<1>7. \A y \in R \cup {x} : \E k \in DOMAIN t : t[k] = y
  BY <1>1, <1>4, Zenon DEF Lists
<1> QED BY <1>5, <1>6, <1>7, Zenon DEF Lists, t

\* pop_front.
LEMMA ListsTail ==
  ASSUME NEW S, NEW s \in Seq(S), s # <<>>, NEW R, Lists(s, R)
  PROVE  Head(s) \in R /\ Lists(Tail(s), R \ {Head(s)})
<1> DEFINE t == Tail(s)
           N == Len(s)
<1>1. /\ Head(s) = s[1] /\ 1 \in DOMAIN s
      /\ DOMAIN t = 1 .. N - 1 /\ DOMAIN s = 1 .. N
      /\ \A i \in DOMAIN t : t[i] = s[i + 1]
  BY TailFacts, Zenon
<1>2. N \in Nat
  OBVIOUS
<1> HIDE DEF t, N
<1>3. \A i \in DOMAIN t : i + 1 \in DOMAIN s /\ i + 1 # 1 /\ i \in Int
  BY <1>1, <1>2
<1>4. ASSUME NEW i \in DOMAIN s, i # 1
      PROVE  i - 1 \in DOMAIN t /\ t[i - 1] = s[i]
  <2>1. i - 1 \in 1 .. N - 1 /\ (i - 1) + 1 = i
    BY <1>1, <1>2, <1>4
  <2> QED BY <1>1, <2>1, Zenon
<1>5. \A k \in DOMAIN t : t[k] \in R \ {s[1]}
  BY <1>1, <1>3 DEF Lists
<1>6. ASSUME NEW j \in DOMAIN t, NEW k \in DOMAIN t, t[j] = t[k] PROVE j = k
  <2>1. j + 1 = k + 1
    BY <1>1, <1>3, <1>6 DEF Lists
  <2> QED BY <1>3, <2>1
<1>7. \A y \in R \ {s[1]} : \E k \in DOMAIN t : t[k] = y
  BY <1>1, <1>4 DEF Lists
<1> QED BY <1>1, <1>5, <1>6, <1>7 DEF Lists, t


QueueType == [bits : SUBSET Priorities, queues : [Priorities -> Seq(Executors)]]

Of(R, p) == {e \in R : Priority[e] = p}

\* The queue holds exactly the executors of R, each once and at its priority.
Holding(q, R) ==
  /\ q \in QueueType
  /\ q.bits = {p \in Priorities : q.queues[p] # <<>>}
  /\ \A p \in Priorities : Lists(q.queues[p], Of(R, p))

-----------------------------------------------------------------------------
(* An inspector's queue. *)

LEMMA HoldingNew == Holding(FPQNew, {})
<1>1. FPQNew \in QueueType
  <2>1. [p \in Priorities |-> <<>>] \in [Priorities -> Seq(Executors)]
    OBVIOUS
  <2> QED BY <2>1, Zenon DEF FPQNew, QueueType
<1>2. FPQNew.bits = {p \in Priorities : FPQNew.queues[p] # <<>>}
  BY Zenon DEF FPQNew
<1>3. ASSUME NEW p \in Priorities PROVE Lists(FPQNew.queues[p], Of({}, p))
  <2>1. FPQNew.queues[p] = <<>> /\ Of({}, p) = {}
    BY Zenon DEF FPQNew, Of
  <2> QED BY <2>1, ListsEmpty, Zenon
<1> QED BY <1>1, <1>2, <1>3, Zenon DEF Holding

LEMMA HoldingEnqueue ==
  ASSUME NEW q, NEW R \in SUBSET Executors, Holding(q, R), NEW e \in Executors, e \notin R
  PROVE  Holding(FPQEnqueue(q, Priority[e], e), R \cup {e})
<1> DEFINE p == Priority[e]
           s == q.queues[p]
           r == Append(s, e)
           f == FPQEnqueue(q, p, e)
<1>0. p \in Priorities /\ q \in QueueType
  BY PriorityAssumption, Zenon DEF Holding
<1>1. s \in Seq(Executors) /\ Lists(s, Of(R, p)) /\ e \notin Of(R, p)
  BY <1>0, Zenon DEF QueueType, Holding, Of
<1>2. r \in Seq(Executors) /\ r # <<>>
  BY <1>1, AppendFacts
<1>3. Lists(r, Of(R, p) \cup {e})
  BY <1>1, ListsAppend, Zenon
<1>4. /\ f = [bits |-> q.bits \cup {p}, queues |-> [q.queues EXCEPT ![p] = r]]
  BY Zenon DEF FPQEnqueue
<1> HIDE DEF r, f, s
<1>5. f \in QueueType
  <2>1. [q.queues EXCEPT ![p] = r] \in [Priorities -> Seq(Executors)]
    BY <1>0, <1>2, Zenon DEF QueueType
  <2> QED BY <1>0, <1>4, <2>1, Zenon DEF QueueType
<1>6. /\ f.queues[p] = r /\ f.bits = q.bits \cup {p}
      /\ \A o \in Priorities : o # p => f.queues[o] = q.queues[o]
  BY <1>0, <1>4, Zenon DEF QueueType
<1>7. f.bits = {o \in Priorities : f.queues[o] # <<>>}
  BY <1>0, <1>2, <1>6, Zenon DEF Holding
<1>8. Of(R \cup {e}, p) = Of(R, p) \cup {e}
  BY Zenon DEF Of
<1>9. ASSUME NEW o \in Priorities, o # p PROVE Of(R \cup {e}, o) = Of(R, o)
  BY <1>9, Zenon DEF Of
<1>10. \A o \in Priorities : Lists(f.queues[o], Of(R \cup {e}, o))
  BY <1>3, <1>6, <1>8, <1>9, Zenon DEF Holding
<1> QED BY <1>5, <1>7, <1>10, Zenon DEF Holding, f

LEMMA HoldingDequeue ==
  ASSUME NEW q, NEW R \in SUBSET Executors, Holding(q, R), q.bits # {}
  PROVE  /\ FPQFront(q) \in R
         /\ Holding(FPQDequeue(q), R \ {FPQFront(q)})
<1> DEFINE h == Highest(q)
           s == q.queues[h]
           r == Tail(s)
           e == Head(s)
           f == FPQDequeue(q)
<1>0. h \in q.bits /\ h \in Priorities /\ q \in QueueType
  <2> DEFINE B == q.bits
  <2>1. B \in SUBSET (0 .. NUM - 1) /\ B # {}
    BY Zenon DEF Holding, QueueType, Priorities
  <2>2. \E p \in B : \A o \in B : o <= p
    BY <2>1, NUMAssumption, GreatestBelow, Zenon
  <2> QED BY <2>1, <2>2, Zenon DEF Highest, Priorities, Holding
<1>a. FPQFront(q) = e
  BY Zenon DEF FPQFront
<1>4. f = [bits |-> IF Len(s) = 1 THEN q.bits \ {h} ELSE q.bits,
           queues |-> [q.queues EXCEPT ![h] = r]]
  BY Zenon DEF FPQDequeue
<1> HIDE DEF h
<1>1. s \in Seq(Executors) /\ s # <<>> /\ Lists(s, Of(R, h))
  BY <1>0, Zenon DEF QueueType, Holding
<1>2. r \in Seq(Executors) /\ (r = <<>> <=> Len(s) = 1)
  BY <1>1, TailFacts, Zenon
<1>3. e \in Of(R, h) /\ Lists(r, Of(R, h) \ {e})
  BY <1>1, ListsTail, Zenon
<1> HIDE DEF r, f, s, e
<1>5. f \in QueueType
  <2>1. [q.queues EXCEPT ![h] = r] \in [Priorities -> Seq(Executors)]
    BY <1>0, <1>2, Zenon DEF QueueType
  <2>2. (IF Len(s) = 1 THEN q.bits \ {h} ELSE q.bits) \in SUBSET Priorities
    BY <1>0, Zenon DEF QueueType
  <2> QED BY <1>4, <2>1, <2>2, Zenon DEF QueueType
<1>6. /\ f.queues[h] = r /\ f.bits = IF Len(s) = 1 THEN q.bits \ {h} ELSE q.bits
      /\ \A o \in Priorities : o # h => f.queues[o] = q.queues[o]
  BY <1>0, <1>4, Zenon DEF QueueType
<1>7. f.bits = {o \in Priorities : f.queues[o] # <<>>}
  BY <1>0, <1>2, <1>6, Zenon DEF Holding
<1>8. e \in R /\ Priority[e] = h /\ Of(R \ {e}, h) = Of(R, h) \ {e}
  BY <1>3, Zenon DEF Of
<1>9. ASSUME NEW o \in Priorities, o # h PROVE Of(R \ {e}, o) = Of(R, o)
  BY <1>8, <1>9, Zenon DEF Of
<1>10. \A o \in Priorities : Lists(f.queues[o], Of(R \ {e}, o))
  BY <1>3, <1>6, <1>8, <1>9, Zenon DEF Holding
<1> QED BY <1>a, <1>5, <1>7, <1>8, <1>10, Zenon DEF Holding, f

\* What Count finds in such a queue.
LEMMA HoldingCount ==
  ASSUME NEW q, NEW R \in SUBSET Executors, Holding(q, R), NEW e \in Executors
  PROVE  Count(q, e) = IF e \in R THEN 1 ELSE 0
<1> DEFINE At(p) == {j \in DOMAIN q.queues[p] : q.queues[p][j] = e}
           Places == UNION {{<<p, k>> : k \in At(p)} : p \in Priorities}
<1>0. Count(q, e) = Cardinality(Places)
  BY Zenon DEF Count
<1>1. \A p \in Priorities : Lists(q.queues[p], Of(R, p))
  BY Zenon DEF Holding
<1>2. ASSUME NEW p \in Priorities, NEW k \in At(p) PROVE e \in R /\ p = Priority[e]
  BY <1>1, <1>2 DEF Lists, Of
<1>3. CASE e \notin R
  <2>1. Places = {}
    BY <1>2, <1>3, Zenon
  <2> QED BY <1>0, <1>3, <2>1, FS_EmptySet, Zenon
<1>4. CASE e \in R
  <2>1. Priority[e] \in Priorities /\ e \in Of(R, Priority[e])
    BY <1>4, PriorityAssumption, Zenon DEF Of
  <2>2. PICK k \in DOMAIN q.queues[Priority[e]] : q.queues[Priority[e]][k] = e
    BY <1>1, <2>1, Zenon DEF Lists
  <2>3. ASSUME NEW j \in At(Priority[e]) PROVE j = k
    BY <1>1, <2>1, <2>2, <2>3 DEF Lists
  <2>4. At(Priority[e]) = {k}
    BY <2>2, <2>3, Zenon
  <2>5. \A p \in Priorities : p # Priority[e] => At(p) = {}
    BY <1>2, Zenon
  <2> HIDE DEF At
  <2>6. Places = {<<Priority[e], k>>}
    BY <2>1, <2>4, <2>5
  <2> QED BY <1>0, <1>4, <2>6, FS_Singleton, Zenon
<1> QED BY <1>3, <1>4, Zenon

-----------------------------------------------------------------------------
(* The inductive invariant for the executors. *)

HandPcs == {"iset", "ictx", "iback", "icheck"}

\* The executor Inspector::run of i has taken out of the queue.
Hand(i) == IF cur = i /\ pc \in HandPcs THEN {cex} ELSE {}

InspType == [st : {"Idle", "Running", "Pending"}, ex : Executors \cup {None},
             reg : SUBSET Executors, queue : QueueType]

RTyped ==
  /\ registry \in SUBSET Inspectors
  /\ insp \in [Inspectors -> InspType]
  /\ exec \in [Executors -> {"fresh", "Runnable", "Finished", "dropped"}]
  /\ cpu \in Executors \cup {RT}

\* The locals of Inspector::run, the status of the runtime and the status of the
\* inspector name the same things, as far as the code has come.
Named ==
  /\ Inside => rstatus = cur
  /\ pc \in HandPcs => cur \in registry /\ cex \in insp[cur].reg
  /\ pc \in {"ictx", "iback"} => insp[cur].st \in {"Running", "Pending"} /\ insp[cur].ex = cex
  /\ cpu # RT => pc = "iback" /\ cpu = cex

\* An executor is registered with one inspector, and only while it lives.
Apart ==
  \A i \in Inspectors : \A e \in insp[i].reg :
    /\ exec[e] \in {"Runnable", "Finished"}
    /\ \A j \in Inspectors : e \in insp[j].reg => i = j

\* The queue of i holds what is registered and not in hand.
Held(i) == Holding(insp[i].queue, insp[i].reg \ Hand(i))

RInv == RTyped /\ Named /\ Apart /\ \A i \in Inspectors : Held(i)

LEMMA InitRInv == Init => RInv
<1> SUFFICES ASSUME Init PROVE RInv
  BY Zenon
<1> DEFINE q1 == FPQEnqueue(FPQNew, Priority[RootExecutor], RootExecutor)
<1>1. Holding(q1, {RootExecutor})
  BY HoldingNew, HoldingEnqueue, RootsAssumption
<1>2. Holding(FPQNew, {})
  BY HoldingNew, Zenon
<1>3. /\ \A i \in Inspectors : Hand(i) = {}
      /\ insp = [i \in Inspectors |-> IF i = RootInspector THEN InspectorNew(RootExecutor) ELSE Absent]
      /\ InspectorNew(RootExecutor).reg = {RootExecutor} /\ InspectorNew(RootExecutor).queue = q1
      /\ Absent.reg = {} /\ Absent.queue = FPQNew
  BY Zenon DEF Init, Hand, HandPcs, InspectorNew, Absent
<1> HIDE DEF q1
<1>4. \A i \in Inspectors : Held(i)
  BY <1>1, <1>2, <1>3, Zenon DEF Held
<1>5. InspectorNew(RootExecutor) \in InspType /\ Absent \in InspType
  <2>1. q1 \in QueueType /\ FPQNew \in QueueType
    BY <1>1, <1>2, Zenon DEF Holding
  <2>2. Absent \in InspType
    BY <2>1, Zenon DEF InspType, Absent
  <2>3. InspectorNew(RootExecutor) = [st |-> "Idle", ex |-> None, reg |-> {RootExecutor}, queue |-> q1]
    BY Zenon DEF InspectorNew, q1
  <2> QED BY <2>1, <2>2, <2>3, RootsAssumption DEF InspType
<1>6. RTyped
  BY <1>3, <1>5, RootsAssumption, Zenon DEF RTyped, Init
<1>7. Named
  BY Zenon DEF Named, Init, Inside, HandPcs
<1>8. Apart
  <2>1. \A i \in Inspectors : insp[i].reg = IF i = RootInspector THEN {RootExecutor} ELSE {}
    BY <1>3, Zenon
  <2>2. exec[RootExecutor] = "Runnable"
    BY RootsAssumption, Zenon DEF Init
  <2> QED BY <2>1, <2>2, Zenon DEF Apart
<1> QED BY <1>4, <1>6, <1>7, <1>8, Zenon DEF RInv

\* A step that leaves an inspector's queue and registry alone, and takes nothing
\* from it or gives it nothing back.
LEMMA SameHeld ==
  ASSUME NEW i \in Inspectors, Held(i), Hand(i)' = Hand(i),
         insp'[i].queue = insp[i].queue, insp'[i].reg = insp[i].reg
  PROVE  Held(i)'
BY Zenon DEF Held

\* Steps of tasks, handlers and the clock that touch none of this.
LEMMA QuietStep ==
  ASSUME RInv, UNCHANGED <<registry, insp, exec, cpu, pc, cur, cex, rstatus>>
  PROVE  RInv'
<1>1. \A i \in Inspectors : Held(i)'
  BY Zenon DEF RInv, Held, Hand
<1>2. RTyped' /\ Named' /\ Apart'
  BY Zenon DEF RInv, RTyped, Named, Apart, Inside
<1> QED BY <1>1, <1>2, Zenon DEF RInv

\* Steps of the runtime's loops, with nothing in hand.
LEMMA LoopStep ==
  ASSUME RInv, UNCHANGED <<insp, exec, cpu>>, registry' \subseteq registry, cpu = RT,
         pc \notin HandPcs, pc' \notin HandPcs, Inside' => rstatus' = cur'
  PROVE  RInv'
<1>1. ASSUME NEW i \in Inspectors PROVE Held(i)'
  <2>1. Hand(i) = {} /\ Hand(i)' = {}
    BY Zenon DEF Hand
  <2> QED BY <2>1, SameHeld, Zenon DEF RInv
<1>2. RTyped' /\ Apart'
  BY Zenon DEF RInv, RTyped, Apart
<1>3. Named'
  BY Zenon DEF Named, HandPcs
<1> QED BY <1>1, <1>2, <1>3, Zenon DEF RInv

\* mark_pending of an inspector.
LEMMA MarkStep ==
  ASSUME RInv, NEW i \in Inspectors, MarkPending(i),
         UNCHANGED <<registry, exec, cpu, pc, cur, cex, rstatus>>
  PROVE  RInv'
<1>1. /\ insp' \in [Inspectors -> InspType]
      /\ \A j \in Inspectors :
           /\ insp'[j].queue = insp[j].queue /\ insp'[j].reg = insp[j].reg
           /\ insp'[j].ex = insp[j].ex
           /\ insp[j].st \in {"Running", "Pending"} => insp'[j].st \in {"Running", "Pending"}
  BY Zenon DEF MarkPending, RInv, RTyped, InspType
<1>2. \A j \in Inspectors : Hand(j)' = Hand(j)
  BY Zenon DEF Hand
<1>3. \A j \in Inspectors : Held(j)'
  BY <1>1, <1>2, SameHeld, Zenon DEF RInv
<1>4. RTyped'
  BY <1>1, Zenon DEF RInv, RTyped
<1>5. Named'
  BY <1>1, Zenon DEF RInv, RTyped, Named, Inside, HandPcs
<1>6. Apart'
  BY <1>1, Zenon DEF RInv, RTyped, Apart
<1> QED BY <1>3, <1>4, <1>5, <1>6, Zenon DEF RInv

-----------------------------------------------------------------------------
(* Inspector::run. *)

\* The highest executor leaves the queue and is in hand.
LEMMA DequeueStep ==
  ASSUME RInv, AtRt("irun"), cur \in registry, insp[cur].queue.bits # {},
         cex' = FPQFront(insp[cur].queue),
         insp' = [insp EXCEPT ![cur].queue = FPQDequeue(@)],
         pc' = "iset", UNCHANGED <<registry, exec, cpu, cur, rstatus>>
  PROVE  RInv'
<1>0. cpu = RT /\ pc = "irun" /\ cur \in Inspectors
  BY Zenon DEF AtRt, RInv, RTyped
<1>1. Hand(cur) = {} /\ insp[cur].reg \in SUBSET Executors /\ Holding(insp[cur].queue, insp[cur].reg)
  BY <1>0, Zenon DEF Hand, HandPcs, RInv, RTyped, InspType, Held
<1>2. cex' \in insp[cur].reg /\ Holding(FPQDequeue(insp[cur].queue), insp[cur].reg \ {cex'})
  BY <1>1, HoldingDequeue, Zenon
<1>3. /\ insp' \in [Inspectors -> InspType]
      /\ \A j \in Inspectors :
           /\ insp'[j].st = insp[j].st /\ insp'[j].reg = insp[j].reg /\ insp'[j].ex = insp[j].ex
           /\ j # cur => insp'[j].queue = insp[j].queue
      /\ insp'[cur].queue = FPQDequeue(insp[cur].queue)
  BY <1>0, <1>2, Zenon DEF RInv, RTyped, InspType, Holding
<1>4. ASSUME NEW j \in Inspectors PROVE Held(j)'
  <2>1. CASE j = cur
    <3>1. Hand(j)' = {cex'}
      BY <2>1, Zenon DEF Hand, HandPcs
    <3> QED BY <1>2, <1>3, <2>1, <3>1, Zenon DEF Held
  <2>2. CASE j # cur
    <3>1. Hand(j)' = Hand(j)
      BY <1>0, <2>2, Zenon DEF Hand, HandPcs
    <3> QED BY <1>3, <2>2, <3>1, SameHeld, Zenon DEF RInv
  <2> QED BY <2>1, <2>2, Zenon
<1>5. RTyped'
  BY <1>3, Zenon DEF RInv, RTyped
<1>6. Named'
  BY <1>0, <1>2, <1>3, Zenon DEF RInv, Named, Inside, HandPcs
<1>7. Apart'
  BY <1>3 DEF RInv, Apart
<1> QED BY <1>4, <1>5, <1>6, <1>7, Zenon DEF RInv

\* set_current, for an executor and for None.
LEMMA SetStep ==
  ASSUME RInv, InspectorSet \/ InspectorBack
  PROVE  RInv'
<1>0. /\ cpu = RT /\ pc \in HandPcs /\ pc' \in HandPcs /\ pc' # "iback"
      /\ UNCHANGED <<registry, exec, cpu, cur, cex, rstatus>>
  BY Zenon DEF AtRt, InspectorSet, InspectorBack, Goto, rtvars, HandPcs
<1>1. cur \in Inspectors /\ cex \in insp[cur].reg /\ cex \in Executors
  BY <1>0, Zenon DEF RInv, RTyped, Named, InspType
<1>2. /\ insp' \in [Inspectors -> InspType]
      /\ \A j \in Inspectors : insp'[j].queue = insp[j].queue /\ insp'[j].reg = insp[j].reg
      /\ pc' = "ictx" => insp'[cur].st = "Running" /\ insp'[cur].ex = cex
  BY <1>1 DEF InspectorSet, InspectorBack, Goto, RInv, RTyped, InspType
<1>3. \A j \in Inspectors : Hand(j)' = Hand(j)
  BY <1>0, Zenon DEF Hand
<1>4. \A j \in Inspectors : Held(j)'
  BY <1>2, <1>3, SameHeld, Zenon DEF RInv
<1>5. RTyped'
  BY <1>0, <1>2, Zenon DEF RInv, RTyped
<1>6. Named'
  BY <1>0, <1>1, <1>2, Zenon DEF RInv, Named, Inside, HandPcs
<1>7. Apart'
  BY <1>0, <1>2, Zenon DEF RInv, Apart
<1> QED BY <1>4, <1>5, <1>6, <1>7, Zenon DEF RInv

\* arch::switch, to the executor and back.
LEMMA SwitchStep ==
  ASSUME RInv, UNCHANGED <<registry, insp, exec, cur, cex, rstatus>>,
         \/ pc = "ictx" /\ pc' = "iback" /\ cpu' = cex
         \/ pc' = pc /\ cpu' = RT
  PROVE  RInv'
<1>1. \A j \in Inspectors : Hand(j)' = Hand(j)
  BY Zenon DEF Hand, HandPcs
<1>2. \A j \in Inspectors : Held(j)'
  BY <1>1, SameHeld, Zenon DEF RInv
<1>3. RTyped' /\ Named' /\ Apart'
  BY DEF RInv, RTyped, InspType, Named, Apart, Inside, HandPcs
<1> QED BY <1>2, <1>3, Zenon DEF RInv

\* The executor that was switched out is dropped or queued again.
LEMMA CheckStep ==
  ASSUME RInv, InspectorCheck
  PROVE  RInv'
<1> DEFINE R == insp[cur].reg
<1>0. /\ cpu = RT /\ pc = "icheck" /\ pc' \in {"iret", "irun"}
      /\ UNCHANGED <<registry, cpu, cur, cex, rstatus>>
  BY Zenon DEF AtRt, InspectorCheck, Goto, rtvars
<1>1. /\ cur \in Inspectors /\ cex \in R /\ cex \in Executors /\ R \in SUBSET Executors
      /\ Holding(insp[cur].queue, R \ {cex})
  BY <1>0, Zenon DEF RInv, RTyped, Named, InspType, HandPcs, Held, Hand
<1>2. \A j \in Inspectors : Hand(j)' = {} /\ (j # cur => Hand(j) = {})
  BY <1>0, Zenon DEF Hand, HandPcs
<1>3. Named'
  BY <1>0, Zenon DEF RInv, Named, Inside, HandPcs
<1>4. CASE exec[cex] = "Finished"
  <2>1. /\ insp' = [insp EXCEPT ![cur].reg = @ \ {cex}]
        /\ exec' = [exec EXCEPT ![cex] = "dropped"]
    BY <1>4, Zenon DEF InspectorCheck
  <2>2. /\ insp' \in [Inspectors -> InspType]
        /\ \A j \in Inspectors :
             /\ insp'[j].queue = insp[j].queue
             /\ j # cur => insp'[j].reg = insp[j].reg
        /\ insp'[cur].reg = R \ {cex}
    BY <1>1, <2>1, Zenon DEF RInv, RTyped, InspType
  <2>3. ASSUME NEW j \in Inspectors PROVE Held(j)'
    <3>1. CASE j = cur
      BY <1>1, <1>2, <2>2, <3>1, Zenon DEF Held
    <3>2. CASE j # cur
      BY <1>2, <2>2, <3>2, SameHeld, Zenon DEF RInv
    <3> QED BY <3>1, <3>2, Zenon
  <2>4. RTyped'
    BY <1>0, <1>1, <2>1, <2>2, Zenon DEF RInv, RTyped
  <2>5. Apart'
    <3>1. \A j \in Inspectors : insp'[j].reg \subseteq insp[j].reg /\ cex \notin insp'[j].reg
      BY <1>1, <2>2, Zenon DEF RInv, Apart
    <3>2. \A e \in Executors : e # cex => exec'[e] = exec[e]
      BY <2>1, Zenon DEF RInv, RTyped
    <3> QED BY <3>1, <3>2 DEF RInv, RTyped, InspType, Apart
  <2> QED BY <1>3, <2>3, <2>4, <2>5, Zenon DEF RInv
<1>5. CASE exec[cex] # "Finished"
  <2>1. /\ insp' = [insp EXCEPT ![cur].queue = FPQEnqueue(@, Priority[cex], cex)]
        /\ exec' = exec
    BY <1>5, Zenon DEF InspectorCheck
  <2>2. Holding(FPQEnqueue(insp[cur].queue, Priority[cex], cex), R)
    <3>1. (R \ {cex}) \cup {cex} = R
      BY <1>1, Zenon
    <3> QED BY <1>1, <3>1, HoldingEnqueue
  <2>3. /\ insp' \in [Inspectors -> InspType]
        /\ \A j \in Inspectors :
             /\ j # cur => insp'[j].queue = insp[j].queue
             /\ insp'[j].reg = insp[j].reg
        /\ insp'[cur].queue = FPQEnqueue(insp[cur].queue, Priority[cex], cex)
    BY <1>1, <2>1, <2>2, Zenon DEF RInv, RTyped, InspType, Holding
  <2>4. ASSUME NEW j \in Inspectors PROVE Held(j)'
    <3>1. CASE j = cur
      BY <1>2, <2>2, <2>3, <3>1, Zenon DEF Held
    <3>2. CASE j # cur
      BY <1>2, <2>3, <3>2, SameHeld, Zenon DEF RInv
    <3> QED BY <3>1, <3>2, Zenon
  <2>5. RTyped' /\ Apart'
    BY <1>0, <2>1, <2>3, Zenon DEF RInv, RTyped, Apart
  <2> QED BY <1>3, <2>4, <2>5, Zenon DEF RInv
<1> QED BY <1>4, <1>5, Zenon

-----------------------------------------------------------------------------
(* What tasks do to the registries. *)

\* A task runs under the current inspector.
LEMMA TaskUnder ==
  ASSUME RInv, cpu # RT
  PROVE  /\ rstatus = cur /\ cur \in registry /\ cur \in Inspectors /\ pc = "iback"
         /\ cex = cpu /\ cpu \in Executors /\ cpu \in insp[cur].reg
BY Zenon DEF RInv, RTyped, Named, Inside, HandPcs

LEMMA FinishStep ==
  ASSUME RInv, NEW e \in Executors, TaskFinish(e)
  PROVE  RInv'
<1>1. /\ cpu = e /\ cpu # RT /\ exec' = [exec EXCEPT ![e] = "Finished"]
      /\ UNCHANGED <<registry, insp, cpu, pc, cur, cex, rstatus>>
  BY Zenon DEF TaskFinish, InTask, rtvars, ctlvars
<1>2. \A i \in Inspectors : Held(i)'
  BY <1>1, Zenon DEF RInv, Held, Hand
<1>3. RTyped' /\ Named'
  BY <1>1, Zenon DEF RInv, RTyped, Named, Inside
<1>4. Apart'
  <2>1. \A f \in Executors : exec'[f] = exec[f] \/ exec'[f] = "Finished"
    BY <1>1, Zenon DEF RInv, RTyped
  <2> QED BY <1>1, <2>1, Zenon DEF RInv, RTyped, InspType, Apart
<1> QED BY <1>2, <1>3, <1>4, Zenon DEF RInv

\* register_inspector: the new one holds its executor.
LEMMA RegisterInspectorStep ==
  ASSUME RInv, NEW i \in Inspectors, NEW e \in Executors, RegisterInspector(i, e)
  PROVE  RInv'
<1> DEFINE q1 == FPQEnqueue(FPQNew, Priority[e], e)
<1>1. /\ cpu # RT /\ i \notin registry /\ exec[e] = "fresh" /\ insp[i] = Absent
      /\ registry' = registry \cup {i}
      /\ insp' = [insp EXCEPT ![i] = InspectorNew(e)]
      /\ exec' = [exec EXCEPT ![e] = "Runnable"]
      /\ UNCHANGED <<cpu, pc, cur, cex, rstatus>>
  BY Zenon DEF RegisterInspector, InTask, ctlvars
<1>2. Holding(q1, {e})
  BY HoldingNew, HoldingEnqueue
<1>3. cur \in registry /\ cur # i
  BY <1>1, TaskUnder, Zenon
<1>4. InspectorNew(e) = [st |-> "Idle", ex |-> None, reg |-> {e}, queue |-> q1]
  BY Zenon DEF InspectorNew
<1> HIDE DEF q1
<1>5. /\ insp' \in [Inspectors -> InspType]
      /\ \A j \in Inspectors : j # i => insp'[j] = insp[j]
      /\ insp'[i].reg = {e} /\ insp'[i].queue = q1 /\ insp[i].reg = {}
  BY <1>1, <1>2, <1>4 DEF RInv, RTyped, InspType, Holding, Absent
<1>6. ASSUME NEW j \in Inspectors PROVE Held(j)'
  <2>1. CASE j = i
    <3>1. Hand(j)' = {}
      BY <1>1, <1>3, <2>1, Zenon DEF Hand
    <3> QED BY <1>2, <1>5, <2>1, <3>1, Zenon DEF Held
  <2>2. CASE j # i
    <3>1. Hand(j)' = Hand(j)
      BY <1>1, Zenon DEF Hand
    <3> QED BY <1>5, <2>2, <3>1, SameHeld, Zenon DEF RInv
  <2> QED BY <2>1, <2>2, Zenon
<1>7. RTyped'
  BY <1>1, <1>5, Zenon DEF RInv, RTyped
<1>8. Named'
  BY <1>1, <1>3, <1>5, Zenon DEF RInv, RTyped, Named, Inside, HandPcs
<1>9. Apart'
  <2>1. \A j \in Inspectors : e \notin insp[j].reg
    BY <1>1, Zenon DEF RInv, Apart
  <2>2. exec'[e] = "Runnable" /\ \A f \in Executors : f # e => exec'[f] = exec[f]
    BY <1>1, Zenon DEF RInv, RTyped
  <2>3. \A j \in Inspectors : insp'[j].reg = IF j = i THEN {e} ELSE insp[j].reg
    BY <1>5, Zenon
  <2>4. \A j \in Inspectors : insp[j].reg \subseteq Executors
    BY Zenon DEF RInv, RTyped, InspType
  <2> QED BY <2>1, <2>2, <2>3, <2>4 DEF RInv, Apart
<1> QED BY <1>6, <1>7, <1>8, <1>9, Zenon DEF RInv

\* register of an executor with the current inspector, whose own one is in hand.
LEMMA RegisterExecutorStep ==
  ASSUME RInv, NEW e \in Executors, RegisterExecutor(e)
  PROVE  RInv'
<1> DEFINE R == insp[cur].reg
<1>1. /\ cpu # RT /\ exec[e] = "fresh"
      /\ insp' = [insp EXCEPT ![rstatus].reg = @ \cup {e},
                              ![rstatus].queue = FPQEnqueue(@, Priority[e], e)]
      /\ exec' = [exec EXCEPT ![e] = "Runnable"]
      /\ UNCHANGED <<registry, cpu, pc, cur, cex, rstatus>>
  BY Zenon DEF RegisterExecutor, InTask, rtvars, ctlvars
<1>2. /\ rstatus = cur /\ cur \in Inspectors /\ cex \in R /\ Hand(cur) = {cex} /\ pc = "iback"
      /\ R \in SUBSET Executors
  BY <1>1, TaskUnder, Zenon DEF Hand, HandPcs, RInv, RTyped, InspType
<1>3. \A j \in Inspectors : e \notin insp[j].reg
  BY <1>1, Zenon DEF RInv, Apart
<1>4. Holding(FPQEnqueue(insp[cur].queue, Priority[e], e), (R \cup {e}) \ {cex})
  <2>1. Holding(insp[cur].queue, R \ {cex}) /\ e \notin R \ {cex} /\ R \ {cex} \in SUBSET Executors
    BY <1>2, <1>3, Zenon DEF RInv, Held
  <2>2. e # cex
    BY <1>2, <1>3, Zenon
  <2>3. (R \ {cex}) \cup {e} = (R \cup {e}) \ {cex}
    BY <2>2, Zenon
  <2> QED BY <2>1, <2>3, HoldingEnqueue
<1>5. /\ insp' \in [Inspectors -> InspType]
      /\ \A j \in Inspectors : j # cur => insp'[j] = insp[j]
      /\ insp'[cur].reg = R \cup {e}
      /\ insp'[cur].queue = FPQEnqueue(insp[cur].queue, Priority[e], e)
      /\ insp'[cur].st = insp[cur].st /\ insp'[cur].ex = insp[cur].ex
  <2> DEFINE q == FPQEnqueue(insp[cur].queue, Priority[e], e)
  <2>1. insp' = [insp EXCEPT ![cur].reg = R \cup {e}, ![cur].queue = q] /\ insp \in [Inspectors -> InspType]
    BY <1>1, <1>2, Zenon DEF RInv, RTyped
  <2>2. q \in QueueType /\ R \cup {e} \in SUBSET Executors /\ cur \in Inspectors
    BY <1>2, <1>4, Zenon DEF Holding
  <2> HIDE DEF q
  <2>3. insp[cur] \in InspType
    BY <2>1, <2>2, Zenon
  <2>4. /\ \A j \in Inspectors : j # cur => insp'[j] = insp[j]
        /\ insp'[cur] = [insp[cur] EXCEPT !.reg = R \cup {e}, !.queue = q]
    BY <2>1, <2>2, Zenon
  <2>5. /\ insp'[cur] \in InspType /\ insp'[cur].reg = R \cup {e} /\ insp'[cur].queue = q
        /\ insp'[cur].st = insp[cur].st /\ insp'[cur].ex = insp[cur].ex
    BY <2>2, <2>3, <2>4, Zenon DEF InspType
  <2>6. insp' \in [Inspectors -> InspType]
    BY <2>1, <2>4, <2>5, Zenon
  <2> QED BY <2>4, <2>5, <2>6, Zenon DEF q
<1>6. ASSUME NEW j \in Inspectors PROVE Held(j)'
  <2>1. CASE j = cur
    <3>1. Hand(j)' = {cex}
      BY <1>1, <1>2, <2>1, Zenon DEF Hand, HandPcs
    <3> QED BY <1>4, <1>5, <2>1, <3>1, Zenon DEF Held
  <2>2. CASE j # cur
    <3>1. Hand(j)' = Hand(j)
      BY <1>1, Zenon DEF Hand
    <3> QED BY <1>5, <2>2, <3>1, SameHeld, Zenon DEF RInv
  <2> QED BY <2>1, <2>2, Zenon
<1>7. RTyped'
  BY <1>1, <1>5, Zenon DEF RInv, RTyped
<1>8. Named'
  BY <1>1, <1>2, <1>5, Zenon DEF RInv, RTyped, Named, Inside, HandPcs
<1>9. Apart'
  <2>1. exec'[e] = "Runnable" /\ \A f \in Executors : f # e => exec'[f] = exec[f]
    BY <1>1, Zenon DEF RInv, RTyped
  <2>2. \A j \in Inspectors : insp'[j].reg = IF j = cur THEN insp[j].reg \cup {e} ELSE insp[j].reg
    BY <1>5, Zenon
  <2>3. \A j \in Inspectors : insp[j].reg \subseteq Executors
    BY Zenon DEF RInv, RTyped, InspType
  <2>4. ASSUME NEW j \in Inspectors, NEW f \in insp'[j].reg
        PROVE  /\ exec'[f] \in {"Runnable", "Finished"}
               /\ \A k \in Inspectors : f \in insp'[k].reg => j = k
    <3>1. CASE f = e
      BY <1>3, <2>1, <2>2, <2>4, <3>1, Zenon
    <3>2. CASE f # e
      <4>1. \A k \in Inspectors : f \in insp'[k].reg => f \in insp[k].reg
        BY <2>2, <3>2, Zenon
      <4>2. f \in insp[j].reg /\ f \in Executors /\ exec'[f] = exec[f]
        BY <2>1, <2>3, <2>4, <3>2, <4>1, Zenon
      <4> QED BY <4>1, <4>2, Zenon DEF RInv, Apart
    <3> QED BY <3>1, <3>2, Zenon
  <2> QED BY <2>4, Zenon DEF Apart
<1> QED BY <1>6, <1>7, <1>8, <1>9, Zenon DEF RInv

-----------------------------------------------------------------------------
(* Every step. *)

LEMMA RuntimeRInv == RInv /\ RuntimeStep => RInv'
<1> SUFFICES ASSUME RInv, RuntimeStep PROVE RInv'
  BY Zenon
<1> USE DEF AtRt, Goto, rtvars, HandPcs, Inside
<1>1. CASE Start
  BY <1>1, LoopStep, Zenon DEF Start
<1>2. CASE QueuePop
  BY <1>2, LoopStep, Zenon DEF QueuePop
<1>3. CASE QueuePost
  BY <1>3, LoopStep, Zenon DEF QueuePost
<1>4. CASE TableStart
  BY <1>4, LoopStep, Zenon DEF TableStart
<1>5. CASE TableNext
  BY <1>5, LoopStep, Zenon DEF TableNext
<1>6. CASE TableSlot
  BY <1>6, LoopStep, Zenon DEF TableSlot
<1>7. CASE TablePost
  BY <1>7, LoopStep, Zenon DEF TablePost
<1>8. CASE \E other \in BOOLEAN : TableWait(other)
  BY <1>8, LoopStep, Zenon DEF TableWait
<1>9. CASE InspectorDequeue
  <2>1. CASE cur \notin registry
    BY <1>9, <2>1, QuietStep, Zenon DEF InspectorDequeue, Fail, ctlvars
  <2>2. CASE cur \in registry /\ insp[cur].queue.bits = {}
    <3>1. /\ cpu = RT /\ pc = "irun" /\ pc' = "iret"
          /\ UNCHANGED <<insp, exec, cpu, registry, rstatus, cur>>
      BY <1>9, <2>2, Zenon DEF InspectorDequeue
    <3>2. rstatus = cur
      BY <3>1, Zenon DEF RInv, Named
    <3> QED BY <3>1, <3>2, LoopStep, Zenon
  <2>3. CASE cur \in registry /\ insp[cur].queue.bits # {}
    BY <1>9, <2>3, DequeueStep, Zenon DEF InspectorDequeue
  <2> QED BY <2>1, <2>2, <2>3, Zenon
<1>10. CASE InspectorSet \/ InspectorBack
  BY <1>10, SetStep, Zenon
<1>11. CASE InspectorSwitch
  BY <1>11, SwitchStep, Zenon DEF InspectorSwitch
<1>12. CASE InspectorCheck
  BY <1>12, CheckStep, Zenon
<1> QED
  BY <1>1, <1>2, <1>3, <1>4, <1>5, <1>6, <1>7, <1>8, <1>9, <1>10, <1>11, <1>12, Zenon
     DEF RuntimeStep

LEMMA TaskRInv == RInv /\ Task => RInv'
<1> SUFFICES ASSUME RInv, Task PROVE RInv'
  BY Zenon
<1> USE DEF rtvars, ctlvars
<1>1. CASE TaskMarkPending
  <2>1. rstatus \in Inspectors
    BY <1>1, TaskUnder, Zenon DEF TaskMarkPending, InTask
  <2> QED BY <1>1, <2>1, MarkStep, Zenon DEF TaskMarkPending
<1>2. CASE TaskYield
  BY <1>2, SwitchStep, QuietStep, Zenon DEF TaskYield, SwitchYield
<1>3. CASE Revoke
  BY <1>3, QuietStep, Zenon DEF Revoke
<1>4. CASE \E e \in Executors : TaskFinish(e)
  BY <1>4, FinishStep, Zenon
<1>5. CASE \E e \in Executors : RegisterExecutor(e)
  BY <1>5, RegisterExecutorStep, Zenon
<1>6. CASE \E i \in Inspectors, e \in Executors : RegisterInspector(i, e)
  BY <1>6, RegisterInspectorStep, Zenon
<1>7. CASE \E t \in Tables : Enact(t)
  BY <1>7, QuietStep, Zenon DEF Enact
<1> QED BY <1>1, <1>2, <1>3, <1>4, <1>5, <1>6, <1>7, Zenon DEF Task

LEMMA HandlerRInv == RInv /\ Handler => RInv'
<1> SUFFICES ASSUME RInv, Handler PROVE RInv'
  BY Zenon
<1> USE DEF rtvars, ctlvars
<1>1. CASE Trap
  BY <1>1, QuietStep, Zenon DEF Trap
<1>2. CASE HandlerEvent
  <2>1. UNCHANGED <<registry, exec, cpu, pc, cur, cex, rstatus>>
    BY <1>2, Zenon DEF HandlerEvent
  <2>2. CASE insp' = insp
    BY <2>1, <2>2, QuietStep, Zenon
  <2>3. CASE insp' # insp
    <3>1. rstatus \in registry /\ MarkPending(rstatus)
      BY <1>2, <2>3, Zenon DEF HandlerEvent
    <3>2. rstatus \in Inspectors
      BY <3>1, Zenon DEF RInv, RTyped
    <3> QED BY <2>1, <3>1, <3>2, MarkStep, Zenon
  <2> QED BY <2>2, <2>3, Zenon
<1>3. CASE HandlerYield
  BY <1>3, SwitchStep, QuietStep, Zenon DEF HandlerYield, SwitchYield
<1>4. CASE HandlerReturn
  BY <1>4, QuietStep, Zenon DEF HandlerReturn
<1> QED BY <1>1, <1>2, <1>3, <1>4, Zenon DEF Handler

LEMMA NextRInv == RInv /\ [Next]_vars => RInv'
<1> SUFFICES ASSUME RInv, [Next]_vars PROVE RInv'
  BY Zenon
<1>1. CASE UNCHANGED vars
  BY <1>1, QuietStep, Zenon DEF vars
<1>2. CASE Tick
  BY <1>2, QuietStep, Zenon DEF Tick, rtvars, ctlvars
<1> QED
  BY <1>1, <1>2, RuntimeRInv, TaskRInv, HandlerRInv, Zenon DEF Next

\* While an executor runs, Executor::with_current finds it: switch_yield saves
\* into the context of its caller, whichever tasks, interrupts and tables have
\* led there.
THEOREM ExecutorNamed == Spec => []RunningNamed
<1>1. RInv => RunningNamed
  BY TaskUnder, Zenon DEF RInv, Named, RunningNamed
<1> QED BY InitRInv, NextRInv, <1>1, PTL DEF Spec

\* Inspector::run loses no executor and schedules none twice.
THEOREM ExecutorsKept == Spec => []ExecutorPlaced
<1>1. RInv => ExecutorPlaced
  <2> SUFFICES ASSUME RInv, NEW i \in registry, NEW e \in Executors
               PROVE  IF e \in insp[i].reg
                      THEN /\ exec[e] # "dropped"
                           /\ Count(insp[i].queue, e) = IF InHand(i, e) THEN 0 ELSE 1
                      ELSE Count(insp[i].queue, e) = 0
    BY Zenon DEF ExecutorPlaced
  <2>1. i \in Inspectors /\ insp[i].reg \ Hand(i) \in SUBSET Executors
    BY Zenon DEF RInv, RTyped, InspType
  <2>2. Count(insp[i].queue, e) = IF e \in insp[i].reg \ Hand(i) THEN 1 ELSE 0
    BY <2>1, HoldingCount, Zenon DEF RInv, Held
  <2>3. e \in Hand(i) <=> InHand(i, e)
    BY Zenon DEF Hand, HandPcs, InHand
  <2>4. e \in insp[i].reg => exec[e] # "dropped"
    BY <2>1, Zenon DEF RInv, Apart
  <2> QED BY <2>2, <2>3, <2>4, Zenon
<1> QED BY InitRInv, NextRInv, <1>1, PTL DEF Spec

-----------------------------------------------------------------------------
(* The runtime's queue. *)

\* What a sequence lists is its range.
LEMMA ListsRange ==
  ASSUME NEW s, NEW R, Lists(s, R)
  PROVE  R = {s[k] : k \in DOMAIN s}
BY DEF Lists

\* Ranks tell the places that are kept apart, and there is one for every number
\* up to how many they are.
LEMMA Ranks ==
  ASSUME NEW N \in Nat, NEW K \in SUBSET (1 .. N)
  PROVE  /\ Cardinality(K) \in Nat
         /\ \A k \in K : Rank(K, k) \in 1 .. Cardinality(K)
         /\ \A k, l \in K : Rank(K, k) = Rank(K, l) => k = l
         /\ \A j \in 1 .. Cardinality(K) : \E k \in K : Rank(K, k) = j
<1> DEFINE n == Cardinality(K)
           Low(k) == {m \in K : m <= k}
<1>1. IsFiniteSet(K) /\ n \in Nat
  <2>1. IsFiniteSet(1 .. N)
    BY FS_Interval
  <2>2. IsFiniteSet(K)
    BY <2>1, FS_Subset, Zenon
  <2> QED BY <2>2, FS_CardinalityType, Zenon
<1> HIDE DEF n
<1>2. ASSUME NEW k \in K
      PROVE  /\ IsFiniteSet(Low(k)) /\ Rank(K, k) = Cardinality(Low(k))
             /\ k \in Low(k) /\ Rank(K, k) \in 1 .. n
  <2>1. k \in Low(k) /\ Low(k) \in SUBSET K
    OBVIOUS
  <2> HIDE DEF Low
  <2>2. IsFiniteSet(Low(k)) /\ Cardinality(Low(k)) <= n
    BY <1>1, <2>1, FS_Subset, Zenon DEF n
  <2>3. Cardinality(Low(k)) \in Nat /\ Cardinality(Low(k)) # 0
    BY <2>1, <2>2, FS_CardinalityType, FS_EmptySet, Zenon
  <2>4. Rank(K, k) = Cardinality(Low(k))
    BY Zenon DEF Rank, Low
  <2> QED BY <1>1, <2>1, <2>2, <2>3, <2>4
<1>3. ASSUME NEW k \in K, NEW l \in K, k < l PROVE Rank(K, k) # Rank(K, l)
  <2>0. \A m \in K : m \in Int
    OBVIOUS
  <2>a. k <= l /\ l <= l /\ ~ (l <= k)
    BY <1>3, <2>0
  <2>b. \A m \in K : m <= k => m <= l
    BY <2>0, <2>a
  <2>1. Low(k) \in SUBSET Low(l) /\ l \in Low(l) /\ l \notin Low(k)
    BY <2>a, <2>b, Zenon
  <2> HIDE DEF Low
  <2> QED BY <1>2, <2>1, FS_Subset, Zenon
<1>4. \A k, l \in K : Rank(K, k) = Rank(K, l) => k = l
  <2>1. \A k, l \in K : k < l \/ l < k \/ k = l
    OBVIOUS
  <2> QED BY <1>3, <2>1, Zenon
<1>5. ASSUME NEW j \in 1 .. n PROVE \E k \in K : Rank(K, k) = j
  <2> DEFINE f == [k \in K |-> Rank(K, k)]
  <2>1. f \in Injection(K, 1 .. n)
    BY <1>2, <1>4, Zenon DEF Injection, IsInjective
  <2>2. IsFiniteSet(1 .. n) /\ Cardinality(1 .. n) = n
    BY <1>1, FS_Interval
  <2>3. f \in Surjection(K, 1 .. n)
    BY <2>1, <2>2, FS_Injection, Zenon DEF n
  <2> QED BY <2>3, Zenon DEF Surjection
<1> QED BY <1>1, <1>2, <1>4, <1>5, Zenon DEF n

\* retain keeps what is not in L, once each.
LEMMA RetainedLists ==
  ASSUME NEW S, NEW s \in Seq(S), NEW R, Lists(s, R), NEW L
  PROVE  Retained(s, L) \in Seq(S) /\ Lists(Retained(s, L), R \ L)
<1> DEFINE K == {k \in DOMAIN s : s[k] \notin L}
           n == Cardinality(K)
           nth(j) == CHOOSE k \in K : Rank(K, k) = j
           f == [j \in 1 .. n |-> s[nth(j)]]
<1>1. /\ Len(s) \in Nat /\ DOMAIN s = 1 .. Len(s)
      /\ \A k \in DOMAIN s : s[k] \in S
  OBVIOUS
<1>2. K \in SUBSET (1 .. Len(s)) /\ \A k \in K : k \in DOMAIN s /\ s[k] \notin L
  BY <1>1, Zenon
<1>a. \A k \in DOMAIN s : s[k] \notin L => k \in K
  BY Zenon
<1>b. Retained(s, L) = f
  BY Zenon DEF Retained
<1> HIDE DEF K
<1>3. /\ n \in Nat
      /\ \A k \in K : Rank(K, k) \in 1 .. n
      /\ \A k, l \in K : Rank(K, k) = Rank(K, l) => k = l
      /\ \A j \in 1 .. n : \E k \in K : Rank(K, k) = j
  BY <1>1, <1>2, Ranks, Zenon
<1> HIDE DEF n
<1>4. \A j \in 1 .. n : nth(j) \in K /\ Rank(K, nth(j)) = j
  BY <1>3, Zenon
<1> HIDE DEF nth
<1>5. f \in Seq(S) /\ DOMAIN f = 1 .. n /\ \A j \in 1 .. n : f[j] = s[nth(j)]
  <2>1. f \in [1 .. n -> S]
    BY <1>1, <1>2, <1>4, Zenon
  <2> QED BY <1>3, <2>1
<1> HIDE DEF f
<1>6. \A j \in DOMAIN f : f[j] \in R \ L
  BY <1>2, <1>4, <1>5, Zenon DEF Lists
<1>7. ASSUME NEW i \in DOMAIN f, NEW j \in DOMAIN f, f[i] = f[j] PROVE i = j
  <2>1. nth(i) \in DOMAIN s /\ nth(j) \in DOMAIN s /\ s[nth(i)] = s[nth(j)]
    BY <1>2, <1>4, <1>5, <1>7, Zenon
  <2>2. nth(i) = nth(j)
    BY <2>1, Zenon DEF Lists
  <2> QED BY <1>4, <1>5, <2>2
<1>8. ASSUME NEW x \in R \ L PROVE \E j \in DOMAIN f : f[j] = x
  <2>1. PICK k \in DOMAIN s : s[k] = x
    BY Zenon DEF Lists
  <2>2. k \in K
    BY <1>a, <2>1, Zenon
  <2>3. nth(Rank(K, k)) = k /\ Rank(K, k) \in 1 .. n
    BY <1>3, <1>4, <2>2, Zenon
  <2> QED BY <1>5, <2>1, <2>3, Zenon
<1> QED BY <1>b, <1>5, <1>6, <1>7, <1>8, Zenon DEF Lists

-----------------------------------------------------------------------------
(* The inductive invariant for the inspectors. *)

Waiting == {rqueue[k] : k \in DOMAIN rqueue}

\* The round robin loop has an inspector in hand.
Queuing == mode = "queue" /\ Inside

ModeOK ==
  /\ pc = "qpop" => mode = "queue"
  /\ pc \in {"tstart", "tnext", "twait", "tslot"} => mode = "table"

\* Queue and registry are in step.
Placed ==
  /\ rqueue \in Seq(Inspectors) /\ Lists(rqueue, Waiting) /\ Waiting \subseteq registry
  /\ Queuing => cur \in registry /\ cur \notin Waiting
  /\ \A i \in registry \ tabled : i \in Waiting \/ (Queuing /\ cur = i)

QInv == RInv /\ ModeOK /\ Placed

LEMMA InitQInv == Init => QInv
<1> SUFFICES ASSUME Init PROVE ModeOK /\ Placed
  BY InitRInv, Zenon DEF QInv
<1>1. /\ rqueue = <<RootInspector>> /\ registry = {RootInspector} /\ tabled = {}
      /\ mode = "queue" /\ pc = "start"
  BY Zenon DEF Init
<1>2. Waiting = {RootInspector} /\ Lists(rqueue, Waiting) /\ rqueue \in Seq(Inspectors)
  BY <1>1, RootsAssumption DEF Waiting, Lists
<1>3. ModeOK /\ ~ Queuing
  BY <1>1, Zenon DEF ModeOK, Queuing, Inside
<1> QED BY <1>1, <1>2, <1>3, Zenon DEF Placed

\* What a step does to the queue, from what the new queue lists.
LEMMA NewWaiting ==
  ASSUME NEW R, rqueue' \in Seq(Inspectors), Lists(rqueue', R)
  PROVE  Waiting' = R /\ Lists(rqueue', Waiting')
<1>1. R = {rqueue'[k] : k \in DOMAIN rqueue'}
  BY ListsRange, Zenon
<1> QED BY <1>1, Zenon DEF Waiting

\* Steps that leave the queue and the registry alone.
LEMMA PlacedKept ==
  ASSUME Placed, UNCHANGED <<rqueue, registry, tabled>>,
         Queuing' <=> Queuing, Queuing => cur' = cur
  PROVE  Placed'
<1>1. Waiting' = Waiting
  BY Zenon DEF Waiting
<1> QED BY <1>1, Zenon DEF Placed

LEMMA QueuePopPlaced ==
  ASSUME QInv, QueuePop
  PROVE  Placed' /\ ModeOK'
<1>1. /\ mode = "queue" /\ pc = "qpop" /\ UNCHANGED <<registry, tabled, mode>> /\ ~ Queuing
  BY Zenon DEF QInv, ModeOK, QueuePop, AtRt, Goto, Queuing, Inside
<1>2. CASE table # None \/ rqueue = <<>>
  <2>1. rqueue' = rqueue /\ pc' \in {"start", "halt"}
    BY <1>2, Zenon DEF QueuePop, Goto
  <2>2. ~ Queuing' /\ ModeOK'
    BY <1>1, <2>1, Zenon DEF Queuing, Inside, ModeOK
  <2> QED BY <1>1, <2>1, <2>2, PlacedKept, Zenon DEF QInv
<1>3. CASE ~ (table # None \/ rqueue = <<>>)
  <2>1. cur' = Head(rqueue) /\ rqueue' = Tail(rqueue) /\ pc' = "irun" /\ rqueue # <<>>
    BY <1>3, Zenon DEF QueuePop, Goto
  <2>2. rqueue \in Seq(Inspectors) /\ Lists(rqueue, Waiting)
    BY Zenon DEF QInv, Placed
  <2>3. cur' \in Waiting /\ Lists(rqueue', Waiting \ {cur'}) /\ rqueue' \in Seq(Inspectors)
    BY <2>1, <2>2, ListsTail, TailFacts, Zenon
  <2>4. Waiting' = Waiting \ {cur'} /\ Lists(rqueue', Waiting')
    BY <2>3, NewWaiting, Zenon
  <2>5. Queuing' /\ ModeOK'
    BY <1>1, <2>1, Zenon DEF Queuing, Inside, ModeOK
  <2> QED BY <1>1, <2>3, <2>4, <2>5, Zenon DEF QInv, Placed
<1> QED BY <1>2, <1>3, Zenon

LEMMA QueuePostPlaced ==
  ASSUME QInv, QueuePost
  PROVE  Placed' /\ ModeOK'
<1>1. /\ mode = "queue" /\ pc = "iret" /\ pc' = "qpop" /\ UNCHANGED <<tabled, mode, cur>>
      /\ Queuing /\ ~ Queuing' /\ ModeOK'
  BY Zenon DEF QueuePost, AtRt, Goto, Queuing, Inside, ModeOK
<1>2. cur \in registry /\ cur \in Inspectors /\ cur \notin Waiting
  BY <1>1, Zenon DEF QInv, Placed, RInv, RTyped
<1>3. CASE registry' = registry \ {cur} /\ rqueue' = rqueue
  <2>1. Waiting' = Waiting
    BY <1>3, Zenon DEF Waiting
  <2> QED BY <1>1, <1>2, <1>3, <2>1, Zenon DEF QInv, Placed
<1>4. CASE rqueue' = Append(rqueue, cur) /\ registry' = registry
  <2>1. rqueue \in Seq(Inspectors) /\ Lists(rqueue, Waiting)
    BY Zenon DEF QInv, Placed
  <2>2. Lists(rqueue', Waiting \cup {cur}) /\ rqueue' \in Seq(Inspectors)
    BY <1>2, <1>4, <2>1, ListsAppend, AppendFacts, Zenon
  <2>3. Waiting' = Waiting \cup {cur} /\ Lists(rqueue', Waiting')
    BY <2>2, NewWaiting, Zenon
  <2> QED BY <1>1, <1>2, <1>4, <2>2, <2>3, Zenon DEF QInv, Placed
<1> QED BY <1>3, <1>4, Zenon DEF QueuePost

LEMMA RegisterPlaced ==
  ASSUME QInv, NEW i \in Inspectors, NEW e \in Executors, RegisterInspector(i, e)
  PROVE  Placed' /\ ModeOK'
<1>1. /\ i \notin registry /\ registry' = registry \cup {i} /\ rqueue' = Append(rqueue, i)
      /\ UNCHANGED <<tabled, mode, pc, cur>>
  BY Zenon DEF RegisterInspector, ctlvars
<1>2. (Queuing' <=> Queuing) /\ ModeOK'
  BY <1>1, Zenon DEF Queuing, Inside, ModeOK, QInv
<1>3. rqueue \in Seq(Inspectors) /\ Lists(rqueue, Waiting) /\ i \notin Waiting
  BY <1>1, Zenon DEF QInv, Placed
<1>4. Lists(rqueue', Waiting \cup {i}) /\ rqueue' \in Seq(Inspectors)
  BY <1>1, <1>3, ListsAppend, AppendFacts, Zenon
<1>5. Waiting' = Waiting \cup {i} /\ Lists(rqueue', Waiting')
  BY <1>4, NewWaiting, Zenon
<1> QED BY <1>1, <1>2, <1>4, <1>5, Zenon DEF QInv, Placed

LEMMA EnactPlaced ==
  ASSUME QInv, NEW t \in Tables, Enact(t)
  PROVE  Placed' /\ ModeOK'
<1> DEFINE L == Listed(t)
<1>1. /\ rqueue' = Retained(rqueue, L) /\ tabled' = tabled \cup (L \cap registry)
      /\ UNCHANGED <<registry, mode, pc, cur>>
  BY Zenon DEF Enact, ctlvars
<1> HIDE DEF L
<1>2. (Queuing' <=> Queuing) /\ ModeOK'
  BY <1>1, Zenon DEF Queuing, Inside, ModeOK, QInv
<1>3. rqueue \in Seq(Inspectors) /\ Lists(rqueue, Waiting)
  BY Zenon DEF QInv, Placed
<1>4. Lists(rqueue', Waiting \ L) /\ rqueue' \in Seq(Inspectors)
  BY <1>1, <1>3, RetainedLists, Zenon
<1>5. Waiting' = Waiting \ L /\ Lists(rqueue', Waiting')
  BY <1>4, NewWaiting, Zenon
<1> QED BY <1>1, <1>2, <1>4, <1>5, Zenon DEF QInv, Placed

LEMMA NextQInv == QInv /\ [Next]_vars => QInv'
<1> SUFFICES ASSUME QInv, [Next]_vars PROVE Placed' /\ ModeOK'
  BY NextRInv, Zenon DEF QInv
<1>0. Placed /\ ModeOK
  BY Zenon DEF QInv
<1>1. ASSUME UNCHANGED <<rqueue, registry, tabled, mode, pc, cur>> PROVE Placed' /\ ModeOK'
  <2>1. (Queuing' <=> Queuing) /\ ModeOK'
    BY <1>0, <1>1, Zenon DEF Queuing, Inside, ModeOK
  <2> QED BY <1>0, <1>1, <2>1, PlacedKept, Zenon
<1>2. CASE RuntimeStep
  <2> USE DEF AtRt, Goto, rtvars, Queuing, Inside, ModeOK
  <2>1. CASE Start
    BY <1>0, <2>1, PlacedKept, Zenon DEF Start
  <2>2. CASE QueuePop
    BY <2>2, QueuePopPlaced, Zenon
  <2>3. CASE QueuePost
    BY <2>3, QueuePostPlaced, Zenon
  <2>4. CASE TableStart
    BY <1>0, <2>4, PlacedKept, Zenon DEF TableStart
  <2>5. CASE TableNext
    BY <1>0, <2>5, PlacedKept, Zenon DEF TableNext
  <2>6. CASE TableSlot
    BY <1>0, <2>6, PlacedKept, Zenon DEF TableSlot
  <2>7. CASE TablePost
    BY <1>0, <2>7, PlacedKept, Zenon DEF TablePost
  <2>8. CASE \E other \in BOOLEAN : TableWait(other)
    BY <1>0, <2>8, PlacedKept, Zenon DEF TableWait
  <2>9. CASE InspectorDequeue
    BY <1>0, <2>9, PlacedKept, Zenon DEF InspectorDequeue, Fail, ctlvars
  <2>10. CASE InspectorSet \/ InspectorBack
    BY <1>0, <2>10, PlacedKept, Zenon DEF InspectorSet, InspectorBack
  <2>11. CASE InspectorSwitch
    BY <1>0, <2>11, PlacedKept, Zenon DEF InspectorSwitch
  <2>12. CASE InspectorCheck
    BY <1>0, <2>12, PlacedKept, Zenon DEF InspectorCheck
  <2> QED
    BY <1>2, <2>1, <2>2, <2>3, <2>4, <2>5, <2>6, <2>7, <2>8, <2>9, <2>10, <2>11, <2>12, Zenon
       DEF RuntimeStep
<1>3. CASE Task
  <2> USE DEF rtvars, ctlvars
  <2>1. CASE TaskMarkPending
    BY <1>1, <2>1, Zenon DEF TaskMarkPending
  <2>2. CASE TaskYield
    BY <1>1, <2>2, Zenon DEF TaskYield, SwitchYield
  <2>3. CASE Revoke
    BY <1>1, <2>3, Zenon DEF Revoke
  <2>4. CASE \E e \in Executors : TaskFinish(e)
    BY <1>1, <2>4, Zenon DEF TaskFinish
  <2>5. CASE \E e \in Executors : RegisterExecutor(e)
    BY <1>1, <2>5, Zenon DEF RegisterExecutor
  <2>6. CASE \E i \in Inspectors, e \in Executors : RegisterInspector(i, e)
    BY <2>6, RegisterPlaced, Zenon
  <2>7. CASE \E t \in Tables : Enact(t)
    BY <2>7, EnactPlaced, Zenon
  <2> QED BY <1>3, <2>1, <2>2, <2>3, <2>4, <2>5, <2>6, <2>7, Zenon DEF Task
<1>4. CASE Handler
  BY <1>1, <1>4, Zenon DEF Handler, Trap, HandlerEvent, HandlerYield, SwitchYield, HandlerReturn, rtvars, ctlvars
<1>5. CASE Tick
  BY <1>1, <1>5, Zenon DEF Tick, rtvars, ctlvars
<1>6. CASE UNCHANGED vars
  BY <1>1, <1>6, Zenon DEF vars
<1> QED BY <1>2, <1>3, <1>4, <1>5, <1>6, Zenon DEF Next

\* pop_front, push_back, register, unregister and retain keep the runtime's
\* queue and its registry in step, whatever the tasks register and enact.
THEOREM InspectorsKept == Spec => []InspectorPlaced
<1>1. QInv => InspectorPlaced
  <2> SUFFICES ASSUME QInv PROVE InspectorPlaced
    BY Zenon
  <2>1. /\ \A j, k \in DOMAIN rqueue : rqueue[j] = rqueue[k] => j = k
        /\ \A k \in DOMAIN rqueue : rqueue[k] \in Waiting
        /\ \A i \in Waiting : \E k \in DOMAIN rqueue : rqueue[k] = i
    BY Zenon DEF QInv, Placed, Lists
  <2>2. /\ Waiting \subseteq registry
        /\ mode = "queue" /\ Inside => cur \notin Waiting
        /\ \A i \in registry \ tabled : i \in Waiting \/ (cur = i /\ Inside)
    BY Zenon DEF QInv, Placed, Queuing
  <2> QED BY <2>1, <2>2, Zenon DEF InspectorPlaced
<1> QED BY InitQInv, NextQInv, <1>1, PTL DEF Spec

-----------------------------------------------------------------------------
(* The inductive invariant for the ends of slots. *)

Pcs == {"start", "qpop", "halt", "tstart", "tnext", "twait", "tslot",
        "irun", "iset", "ictx", "iback", "icheck", "iret"}
Frames == {"task", "fin", "loop", "yield"}

HasYield(s) == \E k \in DOMAIN s : s[k] = "yield"

\* The task, or its end, is at the bottom of a stack and nowhere else.
Bottomed(s) ==
  /\ s \in Seq(Frames) /\ s # <<>>
  /\ \A k \in DOMAIN s : s[k] \in {"task", "fin"} <=> k = Len(s)

STyped ==
  /\ pc \in Pcs
  /\ stack \in [Executors -> Seq(Frames)]
  /\ \A e \in Executors : Bottomed(stack[e])
  /\ rstack \in Seq({"loop", "yield"})
  /\ now \in Nat

SlotType == [insp : Inspectors, offset : Nat, period : Nat, duration : Nat]
TableType == [frame : Nat, slots : Seq(SlotType), next : Nat, datum : Nat]

\* The index of the next slot, while sched_next is at work and otherwise.
TableOK ==
  /\ table # None \/ pc \in {"tstart", "twait", "tslot"} => table \in TableType
  /\ pc \in {"twait", "tslot"} => table.next \in 2 .. Len(table.slots) + 1
  /\ (table # None /\ pc \notin {"twait", "tslot"}) \/ pc = "tstart" =>
       table.next = 1 \/ table.next \in 1 .. Len(table.slots)

\* The runtime is on its way out of the slot: the slot-end callback has marked
\* the inspector Pending and its yield is ahead, or has been made.
Leaving ==
  \/ cpu # RT /\ insp[cur].st = "Pending" /\ HasYield(stack[cpu])
  \/ cpu = RT /\ \/ HasYield(rstack)
                 \/ pc = "iret"
                 \/ pc \in {"iback", "icheck"} /\ insp[cur].st = "Pending"

\* In a slot of the table: its end is ahead, or it has been taken.
InSlot == mode = "table" /\ Inside /\ table # None /\ Started
EndAhead == Alive /\ InSlot => SlotEnd \in ends \/ Leaving

SInv == QInv /\ STyped /\ TableOK /\ EndAhead

\* What pushing and popping a frame does.
LEMMA PushFacts ==
  ASSUME NEW F, NEW s \in Seq(F), NEW f \in F
  PROVE  /\ <<f>> \o s \in Seq(F) /\ Len(<<f>> \o s) = Len(s) + 1 /\ <<f>> \o s # <<>>
         /\ DOMAIN (<<f>> \o s) = 1 .. Len(s) + 1 /\ DOMAIN s = 1 .. Len(s) /\ Len(s) \in Nat
         /\ (<<f>> \o s)[1] = f
         /\ \A k \in DOMAIN s : (<<f>> \o s)[k + 1] = s[k]
OBVIOUS

LEMMA PushYield ==
  ASSUME NEW F, NEW s \in Seq(F), NEW f \in F
  PROVE  /\ HasYield(s) => HasYield(<<f>> \o s)
         /\ f = "yield" => HasYield(<<f>> \o s)
<1> DEFINE t == <<f>> \o s
<1>1. /\ DOMAIN t = 1 .. Len(s) + 1 /\ DOMAIN s = 1 .. Len(s) /\ Len(s) \in Nat
      /\ t[1] = f /\ \A k \in DOMAIN s : t[k + 1] = s[k]
  BY PushFacts
<1> HIDE DEF t
<1>2. 1 \in DOMAIN t /\ \A k \in DOMAIN s : k + 1 \in DOMAIN t
  BY <1>1
<1>3. (HasYield(s) => HasYield(t)) /\ (f = "yield" => HasYield(t))
  BY <1>1, <1>2, Zenon DEF HasYield
<1> QED BY <1>3, Zenon DEF t

LEMMA PushBottomed ==
  ASSUME NEW s, Bottomed(s), NEW f \in {"loop", "yield"}
  PROVE  Bottomed(<<f>> \o s)
<1> DEFINE t == <<f>> \o s
           N == Len(s)
<1>1. /\ t \in Seq(Frames) /\ Len(t) = N + 1 /\ t # <<>>
      /\ DOMAIN t = 1 .. N + 1 /\ DOMAIN s = 1 .. N /\ N \in Nat
      /\ t[1] = f /\ \A k \in DOMAIN s : t[k + 1] = s[k]
  BY PushFacts DEF Bottomed, Frames
<1>2. N # 0
  BY EmptyIsLenZero, Zenon DEF Bottomed
<1>a. \A k \in DOMAIN s : s[k] \in {"task", "fin"} <=> k = N
  BY Zenon DEF Bottomed
<1> HIDE DEF t, N
<1>3. ASSUME NEW k \in DOMAIN t PROVE t[k] \in {"task", "fin"} <=> k = N + 1
  <2>1. CASE k = 1
    BY <1>1, <1>2, <2>1
  <2>2. CASE k # 1
    <3>1. k - 1 \in DOMAIN s /\ (k - 1) + 1 = k
      BY <1>1, <2>2
    <3>2. t[k] = s[k - 1]
      BY <1>1, <3>1, Zenon
    <3> QED BY <1>a, <1>1, <3>1, <3>2
  <2> QED BY <2>1, <2>2, Zenon
<1> QED BY <1>1, <1>3, Zenon DEF Bottomed, t

LEMMA PopYield ==
  ASSUME NEW F, NEW s \in Seq(F), s # <<>>, Head(s) # "yield", HasYield(s)
  PROVE  HasYield(Tail(s))
<1> DEFINE t == Tail(s)
           N == Len(s)
<1>1. /\ Head(s) = s[1] /\ DOMAIN t = 1 .. N - 1 /\ DOMAIN s = 1 .. N
      /\ \A i \in DOMAIN t : t[i] = s[i + 1]
  BY TailFacts, Zenon
<1>2. N \in Nat
  OBVIOUS
<1> HIDE DEF t, N
<1>3. PICK k \in DOMAIN s : s[k] = "yield"
  BY Zenon DEF HasYield
<1>4. k # 1
  BY <1>1, <1>3, Zenon
<1>5. k - 1 \in DOMAIN t /\ (k - 1) + 1 = k
  BY <1>1, <1>2, <1>4
<1>6. HasYield(t)
  BY <1>1, <1>3, <1>5, Zenon DEF HasYield
<1> QED BY <1>6, Zenon DEF t

LEMMA PopBottomed ==
  ASSUME NEW s, Bottomed(s), Head(s) \notin {"task", "fin"}
  PROVE  Bottomed(Tail(s))
<1> DEFINE t == Tail(s)
           N == Len(s)
<1>1. /\ t \in Seq(Frames) /\ Head(s) = s[1] /\ 1 \in DOMAIN s
      /\ DOMAIN t = 1 .. N - 1 /\ DOMAIN s = 1 .. N
      /\ \A i \in DOMAIN t : t[i] = s[i + 1]
      /\ t = <<>> <=> N = 1
  BY TailFacts, Zenon DEF Bottomed
<1>2. N \in Nat /\ \A k \in DOMAIN s : s[k] \in {"task", "fin"} <=> k = N
  BY DEF Bottomed
<1>3. N # 1
  BY <1>1, <1>2, Zenon
<1>a. Len(t) = N - 1
  <2>1. s \in Seq(Frames) /\ s # <<>>
    BY Zenon DEF Bottomed
  <2> QED BY <2>1
<1> HIDE DEF t, N
<1>4. ASSUME NEW k \in DOMAIN t PROVE t[k] \in {"task", "fin"} <=> k = N - 1
  <2>1. k + 1 \in DOMAIN s /\ t[k] = s[k + 1]
    BY <1>1, <1>2
  <2> QED BY <1>1, <1>2, <2>1
<1> QED BY <1>1, <1>3, <1>4, <1>a, Zenon DEF Bottomed, t

\* With the task on top there is nothing else on the stack.
LEMMA TopBottomed ==
  ASSUME NEW s, Bottomed(s), Head(s) \in {"task", "fin"}
  PROVE  ~ HasYield(s) /\ Bottomed(<<"fin">> \o Tail(s))
<1>1. s \in Seq(Frames) /\ s # <<>> /\ \A k \in DOMAIN s : s[k] \in {"task", "fin"} <=> k = Len(s)
  BY Zenon DEF Bottomed
<1>2. Head(s) = s[1] /\ 1 \in DOMAIN s /\ DOMAIN s = 1 .. Len(s) /\ (Tail(s) = <<>> <=> Len(s) = 1)
  BY <1>1, TailFacts, Zenon
<1>3. Len(s) = 1 /\ Tail(s) = <<>> /\ s[1] # "yield"
  BY <1>1, <1>2, Zenon
<1>4. ~ HasYield(s)
  BY <1>2, <1>3 DEF HasYield
<1>5. <<"fin">> \o Tail(s) = <<"fin">>
  <2>1. <<"fin">> \o <<>> = <<"fin">>
    OBVIOUS
  <2> QED BY <1>3, <2>1, Zenon
<1>6. Bottomed(<<"fin">>)
  BY DEF Bottomed, Frames
<1> QED BY <1>4, <1>5, <1>6, Zenon

\* The stack that runs, whoever owns it.
LEMMA PushStep ==
  ASSUME RInv, STyped, NEW f \in {"loop", "yield"}, Push(f), UNCHANGED <<pc, now>>
  PROVE  STyped'
<1>1. CASE cpu = RT
  <2>1. rstack' = <<f>> \o rstack /\ stack' = stack
    BY <1>1, Zenon DEF Push
  <2>2. rstack' \in Seq({"loop", "yield"})
    BY <2>1, PushFacts, Zenon DEF STyped
  <2> QED BY <2>1, <2>2, Zenon DEF STyped
<1>2. CASE cpu # RT
  <2>1. stack' = [stack EXCEPT ![cpu] = <<f>> \o stack[cpu]] /\ rstack' = rstack /\ cpu \in Executors
    BY <1>2, Zenon DEF Push, RInv, RTyped
  <2>2. Bottomed(<<f>> \o stack[cpu])
    BY <2>1, PushBottomed, Zenon DEF STyped
  <2>3. <<f>> \o stack[cpu] \in Seq(Frames)
    BY <2>2, Zenon DEF Bottomed
  <2>4. stack' \in [Executors -> Seq(Frames)] /\ \A e \in Executors : Bottomed(stack'[e])
    BY <2>1, <2>2, <2>3, Zenon DEF STyped
  <2> QED BY <2>1, <2>4, Zenon DEF STyped
<1> QED BY <1>1, <1>2, Zenon

\* A stack of an executor whose top frame is popped.
LEMMA PopStep ==
  ASSUME STyped, NEW e \in Executors, Head(stack[e]) \in {"loop", "yield"},
         stack' = [stack EXCEPT ![e] = Tail(@)], UNCHANGED <<pc, now, rstack>>
  PROVE  STyped'
<1>1. Bottomed(Tail(stack[e]))
  BY PopBottomed, Zenon DEF STyped
<1>2. Tail(stack[e]) \in Seq(Frames)
  BY <1>1, Zenon DEF Bottomed
<1>3. stack' \in [Executors -> Seq(Frames)] /\ \A d \in Executors : Bottomed(stack'[d])
  BY <1>1, <1>2, Zenon DEF STyped
<1> QED BY <1>3, Zenon DEF STyped

LEMMA NextSTyped == RInv /\ STyped /\ [Next]_vars => STyped'
<1> SUFFICES ASSUME RInv, STyped, [Next]_vars PROVE STyped'
  BY Zenon
<1>1. CASE RuntimeStep
  <2>1. UNCHANGED <<stack, rstack, now>>
    BY <1>1, Zenon DEF RuntimeStep, Start, QueuePop, QueuePost, TableStart, TableNext, TableSlot, TablePost,
                TableWait, InspectorDequeue, InspectorSet, InspectorSwitch, InspectorBack,
                InspectorCheck, Fail, ctxvars
  <2>2. pc' \in Pcs
    BY <1>1, Zenon DEF RuntimeStep, Start, QueuePop, QueuePost, TableStart, TableNext, TableSlot, TablePost,
                TableWait, InspectorDequeue, InspectorSet, InspectorSwitch, InspectorBack,
                InspectorCheck, Fail, ctlvars, Goto, Pcs, STyped
  <2> QED BY <2>1, <2>2, Zenon DEF STyped
<1>2. CASE Task
  <2>1. CASE \E e \in Executors : TaskFinish(e)
    <3>1. PICK e \in Executors : TaskFinish(e)
      BY <2>1, Zenon
    <3>2. /\ Head(stack[e]) = "task" /\ stack' = [stack EXCEPT ![e] = <<"fin">> \o Tail(@)]
          /\ UNCHANGED <<rstack, now, pc>>
      BY <3>1, Zenon DEF TaskFinish, InTask, ctlvars
    <3>3. Bottomed(<<"fin">> \o Tail(stack[e]))
      BY <3>2, TopBottomed, Zenon DEF STyped
    <3>4. <<"fin">> \o Tail(stack[e]) \in Seq(Frames)
      BY <3>3, Zenon DEF Bottomed
    <3>5. stack' \in [Executors -> Seq(Frames)] /\ \A d \in Executors : Bottomed(stack'[d])
      BY <3>2, <3>3, <3>4, Zenon DEF STyped
    <3> QED BY <3>2, <3>5, Zenon DEF STyped
  <2>2. CASE ~ \E e \in Executors : TaskFinish(e)
    <3>1. UNCHANGED <<stack, rstack, now, pc>>
      BY <1>2, <2>2, Zenon DEF Task, TaskMarkPending, TaskYield, SwitchYield, Revoke, RegisterExecutor,
                        RegisterInspector, Enact, ctxvars, ctlvars
    <3> QED BY <3>1, Zenon DEF STyped
  <2> QED BY <2>1, <2>2, Zenon
<1>3. CASE Trap
  BY <1>3, PushStep, Zenon DEF Trap, ctlvars
<1>4. CASE HandlerEvent
  <2>1. UNCHANGED <<pc, now>> /\ (UNCHANGED <<stack, rstack>> \/ Push("yield"))
    BY <1>4, Zenon DEF HandlerEvent, ctlvars, ctxvars
  <2> QED BY <2>1, PushStep, Zenon DEF STyped
<1>5. CASE HandlerYield
  <2>1. UNCHANGED <<pc, now, rstack>>
    BY <1>5, Zenon DEF HandlerYield, SwitchYield, ctlvars
  <2>2. CASE cpu = RT
    BY <1>5, <2>1, <2>2, Zenon DEF HandlerYield, STyped
  <2>3. CASE cpu # RT
    <3>1. cpu \in Executors /\ Head(stack[cpu]) = "yield" /\ stack' = [stack EXCEPT ![cpu] = Tail(@)]
      BY <1>5, <2>3, Zenon DEF HandlerYield, Top, RInv, RTyped
    <3> QED BY <2>1, <3>1, PopStep, Zenon
  <2> QED BY <2>2, <2>3, Zenon
<1>6. CASE HandlerReturn
  <2>1. UNCHANGED <<pc, now>>
    BY <1>6, Zenon DEF HandlerReturn, ctlvars
  <2>2. CASE cpu = RT
    <3>1. rstack # <<>> /\ rstack' = Tail(rstack) /\ stack' = stack
      BY <1>6, <2>2, Zenon DEF HandlerReturn, Top, Pop, STyped, Pcs
    <3>2. rstack' \in Seq({"loop", "yield"})
      BY <3>1, TailFacts, Zenon DEF STyped
    <3> QED BY <2>1, <3>1, <3>2, Zenon DEF STyped
  <2>3. CASE cpu # RT
    <3>1. /\ cpu \in Executors /\ Head(stack[cpu]) = "loop" /\ stack' = [stack EXCEPT ![cpu] = Tail(@)]
          /\ rstack' = rstack
      BY <1>6, <2>3, Zenon DEF HandlerReturn, Top, Pop, RInv, RTyped
    <3> QED BY <2>1, <3>1, PopStep, Zenon
  <2> QED BY <2>2, <2>3, Zenon
<1>7. CASE Tick
  BY <1>7 DEF Tick, ctlvars, ctxvars, STyped
<1>8. CASE UNCHANGED vars
  BY <1>8, Zenon DEF vars, STyped
<1> QED BY <1>1, <1>2, <1>3, <1>4, <1>5, <1>6, <1>7, <1>8, Zenon DEF Next, Handler

LEMMA TableKept ==
  ASSUME TableOK, UNCHANGED table,
         pc' \in {"twait", "tslot"} <=> pc \in {"twait", "tslot"},
         pc' = "tstart" => pc = "tstart" \/ table # None
  PROVE  TableOK'
BY Zenon DEF TableOK

\* What the actions of the tasks do to the table: they run at "iback".
LEMMA NextTableOK == QInv /\ STyped /\ TableOK /\ [Next]_vars => TableOK'
<1> SUFFICES ASSUME QInv, STyped, TableOK, [Next]_vars PROVE TableOK'
  BY Zenon
<1>1. CASE RuntimeStep
  <2>1. CASE Start \/ QueuePop \/ QueuePost \/ TablePost
    BY <2>1, TableKept, Zenon DEF Start, QueuePop, QueuePost, TablePost, AtRt, Goto, rtvars
  <2>2. CASE TableStart
    <3>1. /\ pc = "tstart" /\ pc' = "tnext" /\ table \in TableType
          /\ table' = [table EXCEPT !.datum = now] /\ now \in Nat
          /\ table.next = 1 \/ table.next \in 1 .. Len(table.slots)
      BY <2>2, Zenon DEF TableStart, AtRt, Goto, TableOK, STyped
    <3>2. table' \in TableType /\ table'.next = table.next /\ table'.slots = table.slots
      BY <3>1, Zenon DEF TableType
    <3> QED BY <3>1, <3>2, Zenon DEF TableOK
  <2>3. CASE TableNext
    <3>1. CASE UNCHANGED table
      <4>1. pc = "tnext" /\ (pc' = "start" \/ pc' = "tnext" \/ (table # None /\ table' = [table EXCEPT !.next = @ + 1]))
        BY <2>3, Zenon DEF TableNext, AtRt, Goto
      <4>2. ~ (table # None /\ table' = [table EXCEPT !.next = @ + 1])
        <5> SUFFICES ASSUME table # None, table' = [table EXCEPT !.next = @ + 1] PROVE FALSE
          BY Zenon
        <5>1. table \in TableType
          BY Zenon DEF TableOK
        <5>2. [table EXCEPT !.next = @ + 1].next = table.next + 1 /\ table.next \in Nat
          BY <5>1, Zenon DEF TableType
        <5>3. table.next + 1 # table.next
          BY <5>2
        <5> QED BY <3>1, <5>2, <5>3, Zenon
      <4> QED BY <3>1, <4>1, <4>2, TableKept, Zenon
    <3>2. CASE ~ UNCHANGED table
      <4>1. /\ pc = "tnext" /\ table # None /\ table.slots # <<>>
            /\ table' = [table EXCEPT !.next = @ + 1] /\ pc' \in {"twait", "tslot"}
        BY <2>3, <3>2, Zenon DEF TableNext, AtRt, Goto
      <4>2. table \in TableType /\ (table.next = 1 \/ table.next \in 1 .. Len(table.slots))
        BY <4>1, Zenon DEF TableOK
      <4>3. table.slots \in Seq(SlotType) /\ table.next \in Nat
        BY <4>2, Zenon DEF TableType
      <4>4. table' \in TableType /\ table'.next = table.next + 1 /\ table'.slots = table.slots
        BY <4>1, <4>2 DEF TableType
      <4>5. Len(table.slots) \in Nat /\ Len(table.slots) # 0
        BY <4>1, <4>3
      <4>6. table'.next \in 2 .. Len(table'.slots) + 1
        BY <4>2, <4>3, <4>4, <4>5
      <4> QED BY <4>1, <4>4, <4>6, Zenon DEF TableOK
    <3> QED BY <3>1, <3>2, Zenon
  <2>4. CASE \E other \in BOOLEAN : TableWait(other)
    BY <2>4, TableKept, Zenon DEF TableWait, AtRt, Goto, rtvars
  <2>5. CASE TableSlot
    <3>1. /\ pc = "tslot" /\ pc' = "irun" /\ table \in TableType
          /\ table.next \in 2 .. Len(table.slots) + 1
      BY <2>5, Zenon DEF TableSlot, AtRt, TableOK
    <3>2. /\ table.next \in Nat /\ Len(table.slots) \in Nat /\ table.frame \in Nat
          /\ table.datum \in Nat /\ table.slots \in Seq(SlotType)
      BY <3>1 DEF TableType
    <3>3. CASE table.next > Len(table.slots)
      <4>1. table' = [table EXCEPT !.next = 1, !.datum = @ + table.frame]
        BY <2>5, <3>3, Zenon DEF TableSlot
      <4>2. table.datum + table.frame \in Nat
        BY <3>2
      <4> DEFINE datum == table.datum + table.frame
      <4>3. table' = [frame |-> table.frame, slots |-> table.slots, next |-> 1, datum |-> datum]
        BY <3>1, <4>1, Zenon DEF TableType
      <4> HIDE DEF datum
      <4>4. datum \in Nat
        BY <4>2, Zenon DEF datum
      <4>5. table' \in TableType /\ table'.next = 1
        BY <3>2, <4>3, <4>4, Zenon DEF TableType
      <4> QED BY <3>1, <4>5, Zenon DEF TableOK
    <3>4. CASE ~ (table.next > Len(table.slots))
      <4>1. table.next \in 1 .. Len(table.slots)
        BY <3>1, <3>2, <3>4
      <4>2. table' = table
        BY <2>5, <3>4, Zenon DEF TableSlot
      <4> QED BY <3>1, <4>1, <4>2, Zenon DEF TableOK
    <3> QED BY <3>3, <3>4, Zenon
  <2>6. CASE InspectorDequeue \/ InspectorSet \/ InspectorSwitch \/ InspectorBack \/ InspectorCheck
    BY <2>6, TableKept, Zenon DEF InspectorDequeue, InspectorSet, InspectorSwitch, InspectorBack,
                           InspectorCheck, Fail, AtRt, Goto, rtvars, ctlvars
  <2> QED BY <1>1, <2>1, <2>2, <2>3, <2>4, <2>5, <2>6, Zenon DEF RuntimeStep
<1>2. CASE Task
  <2>1. pc = "iback" /\ pc' = pc
    BY <1>2, Zenon DEF Task, TaskMarkPending, TaskYield, SwitchYield, Revoke, TaskFinish, RegisterExecutor,
                RegisterInspector, Enact, ctlvars, InTask, QInv, RInv, Named
  <2>2. CASE \E t \in Tables : Enact(t)
    <3>1. PICK t \in Tables : Enact(t)
      BY <2>2, Zenon
    <3>2. table' = [frame |-> t.frame, slots |-> t.slots, next |-> 1, datum |-> 0]
      BY <3>1, Zenon DEF Enact
    <3>3. t.frame \in Nat /\ t.slots \in Seq(SlotType)
      BY TablesAssumption, Zenon DEF SlotType
    <3>4. table' \in TableType /\ table'.next = 1
      BY <3>2, <3>3, Zenon DEF TableType
    <3> QED BY <2>1, <3>4, Zenon DEF TableOK
  <2>3. CASE Revoke
    BY <2>1, <2>3, Zenon DEF Revoke, TableOK
  <2>4. CASE ~ (\E t \in Tables : Enact(t)) /\ ~ Revoke
    <3>1. UNCHANGED table
      BY <1>2, <2>4, Zenon DEF Task, TaskMarkPending, TaskYield, SwitchYield, TaskFinish, RegisterExecutor,
                        RegisterInspector, rtvars
    <3> QED BY <2>1, <3>1, TableKept, Zenon
  <2> QED BY <2>2, <2>3, <2>4, Zenon
<1>3. CASE Handler
  <2>1. UNCHANGED <<table, pc>>
    BY <1>3, Zenon DEF Handler, Trap, HandlerEvent, HandlerYield, SwitchYield, HandlerReturn, rtvars, ctlvars
  <2> QED BY <2>1, TableKept, Zenon
<1>4. CASE Tick
  BY <1>4, TableKept, Zenon DEF Tick, rtvars, ctlvars
<1>5. CASE UNCHANGED vars
  BY <1>5, TableKept, Zenon DEF vars
<1> QED BY <1>1, <1>2, <1>3, <1>4, <1>5, Zenon DEF Next

\* The table and the clock of the slot stand still: what is left is that the
\* end is not taken, or that the runtime goes on leaving.
LEMMA EndKept ==
  ASSUME EndAhead, UNCHANGED <<table, mode>>, Inside' => Inside, Alive' => Alive,
         Alive' /\ Inside' /\ SlotEnd \in ends => SlotEnd \in ends' \/ Leaving',
         Alive' /\ Inside' /\ Leaving => Leaving'
  PROVE  EndAhead'
<1>1. SlotEnd' = SlotEnd /\ (Started' <=> Started)
  BY Zenon DEF SlotEnd, ThisSlot, Started
<1> QED BY <1>1, Zenon DEF EndAhead, InSlot

\* sched_next leaves the end of the slot it starts among the pending events.
LEMMA TableSlotEnd ==
  ASSUME TableOK, TableSlot
  PROVE  SlotEnd' \in ends'
<1>1. /\ table \in TableType /\ table.next \in 2 .. Len(table.slots) + 1
      /\ table.datum + ThisSlot.offset + ThisSlot.duration \in ends'
  BY Zenon DEF TableSlot, AtRt, TableOK
<1>2. /\ table.next \in Nat /\ Len(table.slots) \in Nat /\ table.frame \in Nat
      /\ table.datum \in Nat /\ table.slots \in Seq(SlotType)
  BY <1>1 DEF TableType
<1>3. CASE table.next > Len(table.slots)
  <2>1. table' = [table EXCEPT !.next = 1, !.datum = @ + table.frame]
    BY <1>3, Zenon DEF TableSlot
  <2>2. /\ table'.next = 1 /\ table'.datum = table.datum + table.frame
        /\ table'.slots = table.slots /\ table'.frame = table.frame
    BY <1>1, <2>1, Zenon DEF TableType
  <2>3. table.next - 1 = Len(table.slots)
    BY <1>1, <1>2, <1>3
  <2>4. table'.datum - table'.frame = table.datum
    BY <1>2, <2>2
  <2>5. SlotEnd' = (table'.datum - table'.frame) + table'.slots[Len(table'.slots)].offset
                      + table'.slots[Len(table'.slots)].duration
    BY <2>2, Zenon DEF SlotEnd
  <2>6. SlotEnd' = table.datum + table.slots[table.next - 1].offset + table.slots[table.next - 1].duration
    BY <2>2, <2>3, <2>4, <2>5, Zenon
  <2> QED BY <1>1, <2>6, Zenon DEF ThisSlot
<1>4. CASE ~ (table.next > Len(table.slots))
  <2>1. table' = table
    BY <1>4, Zenon DEF TableSlot
  <2>2. table.next # 1
    BY <1>1, <1>2
  <2>3. SlotEnd' = table.datum + ThisSlot.offset + ThisSlot.duration
    BY <2>1, <2>2, Zenon DEF SlotEnd, ThisSlot
  <2> QED BY <1>1, <2>3, Zenon
<1> QED BY <1>3, <1>4, Zenon

LEMMA RuntimeEnd ==
  ASSUME SInv, RuntimeStep
  PROVE  EndAhead'
<1>a. RTyped /\ Named /\ ModeOK /\ STyped /\ TableOK /\ EndAhead
  BY Zenon DEF SInv, QInv, RInv
<1>b. rstack = <<>> => ~ HasYield(rstack)
  BY DEF HasYield
<1>1. CASE Start \/ QueuePop \/ TableStart \/ TableNext \/ TablePost
           \/ QueuePost \/ \E other \in BOOLEAN : TableWait(other)
  <2>1. ~ Inside' \/ mode' = "queue"
    BY <1>1, <1>a, Zenon DEF Start, QueuePop, QueuePost, TablePost, TableStart, TableNext, TableWait,
                      AtRt, Goto, Inside, ModeOK
  <2> QED BY <2>1, Zenon DEF EndAhead, InSlot
<1>2. CASE TableSlot
  BY <1>2, <1>a, TableSlotEnd, Zenon DEF EndAhead
<1>3. CASE InspectorDequeue
  <2>1. /\ pc = "irun" /\ cpu = RT /\ rstack = <<>> /\ Alive /\ ~ Leaving
        /\ UNCHANGED <<table, mode, ends>>
    BY <1>3, <1>b, Zenon DEF InspectorDequeue, Fail, AtRt, Goto, rtvars, ctlvars, Leaving
  <2> QED BY <1>a, <2>1, EndKept, Zenon DEF Inside
<1>4. CASE InspectorSet
  <2>1. /\ pc = "iset" /\ cpu = RT /\ rstack = <<>> /\ Alive /\ ~ Leaving
        /\ UNCHANGED <<table, mode, ends>>
    BY <1>4, <1>b, Zenon DEF InspectorSet, AtRt, Goto, rtvars, Leaving
  <2> QED BY <1>a, <2>1, EndKept, Zenon DEF Inside
<1>5. CASE InspectorSwitch
  <2>1. /\ pc = "ictx" /\ cpu = RT /\ rstack = <<>> /\ Alive /\ ~ Leaving
        /\ UNCHANGED <<table, mode, ends>>
    BY <1>5, <1>b, Zenon DEF InspectorSwitch, AtRt, rtvars, Leaving
  <2> QED BY <1>a, <2>1, EndKept, Zenon DEF Inside
<1>6. CASE InspectorBack
  <2>1. /\ pc = "iback" /\ cpu = RT /\ rstack = <<>> /\ Alive /\ UNCHANGED <<table, mode, ends>>
        /\ pc' = "icheck" /\ cpu' = RT /\ cur' = cur
        /\ insp' = [insp EXCEPT ![cur].st = IF @ = "Running" THEN "Idle" ELSE @]
    BY <1>6, Zenon DEF InspectorBack, AtRt, Goto, rtvars
  <2>2. insp \in [Inspectors -> InspType] /\ cur \in Inspectors
    BY <1>a, <2>1, Zenon DEF RTyped, Named, HandPcs
  <2>3. insp[cur].st = "Pending" => insp'[cur].st = "Pending"
    BY <2>1, <2>2, Zenon DEF InspType
  <2>4. Leaving => Leaving'
    BY <2>1, <2>3, <1>b, Zenon DEF Leaving
  <2> QED BY <1>a, <2>1, <2>4, EndKept, Zenon DEF Inside
<1>7. CASE InspectorCheck
  <2>1. /\ pc = "icheck" /\ cpu = RT /\ rstack = <<>> /\ Alive /\ UNCHANGED <<table, mode, ends>>
        /\ pc' = (IF insp[cur].st = "Pending" THEN "iret" ELSE "irun") /\ cpu' = RT
    BY <1>7, Zenon DEF InspectorCheck, AtRt, Goto, rtvars
  <2>2. Leaving => Leaving'
    BY <2>1, <1>b, Zenon DEF Leaving
  <2> QED BY <1>a, <2>1, <2>2, EndKept, Zenon DEF Inside
<1> QED BY <1>1, <1>2, <1>3, <1>4, <1>5, <1>6, <1>7, Zenon DEF RuntimeStep

\* A task that runs has no yield of the callback under it.
LEMMA TaskNotLeaving ==
  ASSUME SInv, InTask("task") \/ InTask("fin")
  PROVE  ~ Leaving /\ Alive /\ cpu # RT /\ pc = "iback"
<1>1. cpu \in Executors /\ cpu # RT /\ Head(stack[cpu]) \in {"task", "fin"} /\ Alive /\ pc = "iback"
  BY Zenon DEF InTask, SInv, QInv, RInv, RTyped, Named
<1>2. Bottomed(stack[cpu])
  BY <1>1, Zenon DEF SInv, STyped
<1>3. ~ HasYield(stack[cpu])
  BY <1>1, <1>2, TopBottomed, Zenon
<1> QED BY <1>1, <1>3, Zenon DEF Leaving

LEMMA TaskEnd ==
  ASSUME SInv, Task
  PROVE  EndAhead'
<1>1. InTask("task") \/ InTask("fin")
  BY Zenon DEF Task, TaskMarkPending, TaskYield, Revoke, TaskFinish, RegisterExecutor, RegisterInspector, Enact
<1>2. ~ Leaving /\ Alive /\ pc = "iback" /\ EndAhead
  BY <1>1, TaskNotLeaving, Zenon DEF SInv
<1>3. CASE \E t \in Tables : Enact(t)
  <2>1. PICK t \in Tables : Enact(t)
    BY <1>3, Zenon
  <2>2. table' = [frame |-> t.frame, slots |-> t.slots, next |-> 1, datum |-> 0]
    BY <2>1, Zenon DEF Enact
  <2>3. ~ Started'
    BY <2>2 DEF Started
  <2> QED BY <2>3, Zenon DEF EndAhead, InSlot
<1>4. CASE Revoke
  BY <1>4, Zenon DEF Revoke, EndAhead, InSlot
<1>5. CASE ~ (\E t \in Tables : Enact(t)) /\ ~ Revoke
  <2>1. UNCHANGED <<table, mode, ends, pc>>
    BY <1>5, Zenon DEF Task, TaskMarkPending, TaskYield, SwitchYield, TaskFinish, RegisterExecutor,
                RegisterInspector, rtvars, ctlvars
  <2> QED BY <1>2, <2>1, EndKept, Zenon DEF Inside
<1> QED BY <1>3, <1>4, <1>5, Zenon

LEMMA EventEnd ==
  ASSUME SInv, HandlerEvent
  PROVE  EndAhead'
<1>1. CASE fault' # "none"
  BY <1>1, Zenon DEF EndAhead, Alive
<1>2. CASE fault' = "none" /\ Inside'
  <2>1. /\ Alive /\ rstatus \in registry /\ insp[rstatus].st # "Idle"
        /\ MarkPending(rstatus) /\ Push("yield") /\ UNCHANGED <<cpu, pc, cur>>
    BY <1>2, Zenon DEF HandlerEvent, Alive, ctlvars
  <2>2. insp \in [Inspectors -> InspType] /\ rstatus \in Inspectors /\ rstatus = cur /\ STyped
    BY <1>2, <2>1, Zenon DEF SInv, QInv, RInv, RTyped, Named, Inside
  <2>3. insp'[cur].st = "Pending"
    BY <2>1, <2>2, Zenon DEF MarkPending, InspType
  <2>4. CASE cpu = RT
    <3>1. rstack' = <<"yield">> \o rstack /\ rstack \in Seq({"loop", "yield"})
      BY <2>1, <2>2, <2>4, Zenon DEF Push, STyped
    <3>2. HasYield(rstack')
      BY <3>1, PushYield, Zenon
    <3> QED BY <2>1, <2>4, <3>2, Zenon DEF EndAhead, Leaving, HasYield
  <2>5. CASE cpu # RT
    <3>1. cpu \in Executors
      BY <2>5, Zenon DEF SInv, QInv, RInv, RTyped
    <3>2. stack'[cpu] = <<"yield">> \o stack[cpu] /\ stack[cpu] \in Seq(Frames)
      BY <2>1, <2>2, <2>5, <3>1, Zenon DEF Push, STyped
    <3>3. HasYield(stack'[cpu])
      BY <3>2, PushYield, Zenon DEF Frames
    <3> QED BY <2>1, <2>3, <2>5, <3>3, Zenon DEF EndAhead, Leaving, HasYield
  <2> QED BY <2>4, <2>5, Zenon
<1>3. CASE ~ Inside'
  BY <1>3, Zenon DEF EndAhead, InSlot
<1> QED BY <1>1, <1>2, <1>3, Zenon

LEMMA HandlerEnd ==
  ASSUME SInv, Handler
  PROVE  EndAhead'
<1>a. RTyped /\ Named /\ STyped /\ EndAhead
  BY Zenon DEF SInv, QInv, RInv
<1>1. CASE Trap
  <2>1. UNCHANGED <<table, mode, ends, pc, fault, cpu, insp, cur>> /\ Push("loop")
    BY <1>1, Zenon DEF Trap, rtvars, ctlvars
  <2>2. Leaving => Leaving'
    <3>1. CASE cpu = RT
      <4>1. rstack' = <<"loop">> \o rstack /\ rstack \in Seq({"loop", "yield"})
        BY <1>a, <2>1, <3>1, Zenon DEF Push, STyped
      <4>2. HasYield(rstack) => HasYield(rstack')
        BY <4>1, PushYield, Zenon
      <4>3. HasYield(rstack) => HasYield(rstack)'
        BY <4>2, Zenon DEF HasYield
      <4> QED BY <2>1, <3>1, <4>3, Zenon DEF Leaving
    <3>2. CASE cpu # RT
      <4>1. cpu \in Executors
        BY <1>a, <3>2, Zenon DEF RTyped
      <4>2. stack'[cpu] = <<"loop">> \o stack[cpu] /\ stack[cpu] \in Seq(Frames)
        BY <1>a, <2>1, <3>2, <4>1, Zenon DEF Push, STyped
      <4>3. HasYield(stack[cpu]) => HasYield(stack'[cpu])
        BY <4>2, PushYield, Zenon DEF Frames
      <4>4. HasYield(stack[cpu]) => HasYield(stack[cpu])'
        BY <2>1, <4>3, Zenon DEF HasYield
      <4> QED BY <2>1, <3>2, <4>4, Zenon DEF Leaving
    <3> QED BY <3>1, <3>2, Zenon
  <2> QED BY <1>a, <2>1, <2>2, EndKept, Zenon DEF Inside, Alive
<1>2. CASE HandlerEvent
  BY <1>2, EventEnd, Zenon
<1>3. CASE HandlerYield
  <2>1. CASE fault' # "none"
    BY <2>1, Zenon DEF EndAhead, Alive
  <2>2. CASE fault' = "none"
    <3>1. /\ Alive /\ cpu' = RT /\ cpu = CurrentExecutor
          /\ UNCHANGED <<table, mode, ends, pc, fault, insp, cur, rstack>>
      BY <1>3, <2>2, Zenon DEF HandlerYield, SwitchYield, rtvars
    <3>2. cpu # RT => pc = "iback"
      BY <1>a, Zenon DEF Named
    <3>3. Leaving => Leaving'
      BY <3>1, <3>2, Zenon DEF Leaving, HasYield
    <3> QED BY <1>a, <3>1, <3>3, EndKept, Zenon DEF Inside
  <2> QED BY <2>1, <2>2, Zenon
<1>4. CASE HandlerReturn
  <2>1. UNCHANGED <<table, mode, ends, pc, fault, cpu, insp, cur>> /\ Pop /\ Top = "loop"
    BY <1>4, Zenon DEF HandlerReturn, rtvars, ctlvars
  <2>2. Leaving => Leaving'
    <3>1. CASE cpu = RT
      <4>1. rstack # <<>> /\ Head(rstack) = "loop" /\ rstack' = Tail(rstack) /\ rstack \in Seq({"loop", "yield"})
        BY <1>a, <2>1, <3>1, Zenon DEF Pop, Top, STyped, Pcs
      <4>2. HasYield(rstack) => HasYield(rstack')
        BY <4>1, PopYield, Zenon
      <4>3. HasYield(rstack) => HasYield(rstack)'
        BY <4>2, Zenon DEF HasYield
      <4> QED BY <2>1, <3>1, <4>3, Zenon DEF Leaving
    <3>2. CASE cpu # RT
      <4>1. cpu \in Executors
        BY <1>a, <3>2, Zenon DEF RTyped
      <4>2. /\ stack'[cpu] = Tail(stack[cpu]) /\ stack[cpu] \in Seq(Frames) /\ Head(stack[cpu]) = "loop"
            /\ Bottomed(stack[cpu])
        BY <1>a, <2>1, <3>2, <4>1, Zenon DEF Pop, Top, STyped
      <4>3. stack[cpu] # <<>>
        BY <4>2, Zenon DEF Bottomed
      <4>4. HasYield(stack[cpu]) => HasYield(stack'[cpu])
        BY <4>2, <4>3, PopYield, Zenon
      <4>5. HasYield(stack[cpu]) => HasYield(stack[cpu])'
        BY <2>1, <4>4, Zenon DEF HasYield
      <4> QED BY <2>1, <3>2, <4>5, Zenon DEF Leaving
    <3> QED BY <3>1, <3>2, Zenon
  <2> QED BY <1>a, <2>1, <2>2, EndKept, Zenon DEF Inside, Alive
<1> QED BY <1>1, <1>2, <1>3, <1>4, Zenon DEF Handler

LEMMA InitSInv == Init => SInv
<1> SUFFICES ASSUME Init PROVE STyped /\ TableOK /\ EndAhead
  BY InitQInv, Zenon DEF SInv
<1>1. <<"task">> \in Seq(Frames) /\ Bottomed(<<"task">>) /\ <<>> \in Seq({"loop", "yield"})
  BY DEF Bottomed, Frames
<1>2. STyped
  BY <1>1, Zenon DEF Init, STyped, Pcs
<1> QED BY <1>2, Zenon DEF Init, TableOK, EndAhead, InSlot

LEMMA NextSInv == SInv /\ [Next]_vars => SInv'
<1> SUFFICES ASSUME SInv, [Next]_vars PROVE SInv'
  BY Zenon
<1>1. QInv' /\ STyped' /\ TableOK'
  BY NextQInv, NextSTyped, NextTableOK, Zenon DEF SInv, QInv
<1>2. CASE Tick
  <2>1. UNCHANGED <<table, mode, ends, pc, fault, cpu, insp, cur, stack, rstack>>
    BY <1>2, Zenon DEF Tick, rtvars, ctlvars, ctxvars
  <2> QED BY <1>1, <2>1, EndKept, Zenon DEF SInv, Inside, Alive, Leaving, HasYield
<1>3. CASE UNCHANGED vars
  BY <1>1, <1>3, EndKept, Zenon DEF SInv, vars, Inside, Alive, Leaving, HasYield
<1> QED BY <1>1, <1>2, <1>3, RuntimeEnd, TaskEnd, HandlerEnd, Zenon DEF Next, SInv

\* A task that runs in a slot of the table has the end of the slot ahead of it
\* (sched_next schedules the event before the inspector is made current; the
\* handler takes it only together with mark_pending and a yield), whatever the
\* tables, however the handler nests and wherever a task yields.
THEOREM SlotEndAhead == Spec => []SlotEndPending
<1>1. SInv => SlotEndPending
  BY TaskNotLeaving, Zenon DEF SlotEndPending, SInv, EndAhead, InSlot, Inside
<1> QED BY InitSInv, NextSInv, <1>1, PTL DEF Spec
=============================================================================
