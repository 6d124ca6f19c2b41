--------------------------- MODULE HardwareProofs ---------------------------
(***************************************************************************)
(* Proofs about the CPUs and the devices: how the CPUs boot and halt (Smp),*)
(* the timed events of one of them (TimedEvent), and the buffers that the  *)
(* network driver shares with its card (NetBuf).                           *)
(***************************************************************************)
EXTENDS Smp, TimedEvent, NetBuf, FiniteSetTheorems, Integers, Sequences, WellFoundedInduction, TLAPS

-----------------------------------------------------------------------------
(* Naturals and sequences. *)

\* A non-empty set of naturals has a least element.
LEMMA NatLeast ==
  ASSUME NEW T \in SUBSET Nat, T # {}
  PROVE  \E n \in T : \A m \in T : n <= m
<1>1. PICK n \in T : \A m \in T : <<m, n>> \notin OpToRel(<, Nat)
  BY NatLessThanWellFounded, WFMin, Zenon
<1>2. \A m \in T : ~(m < n)
  BY <1>1, Zenon DEF OpToRel
<1> QED BY <1>2

\* What Append does to a sequence.
LEMMA AppendFacts ==
  ASSUME NEW S, NEW s \in Seq(S), NEW x \in S
  PROVE  /\ Append(s, x) \in Seq(S)
         /\ Append(s, x) # <<>>
         /\ DOMAIN Append(s, x) = 1 .. Len(s) + 1
         /\ DOMAIN s = 1 .. Len(s)
         /\ Append(s, x)[Len(s) + 1] = x
         /\ \A i \in DOMAIN s : Append(s, x)[i] = s[i]
OBVIOUS

\* What Tail does to a non-empty sequence.
LEMMA TailFacts ==
  ASSUME NEW S, NEW s \in Seq(S), s # <<>>
  PROVE  /\ Tail(s) \in Seq(S)
         /\ Head(s) \in S
         /\ Head(s) = s[1]
         /\ 1 \in DOMAIN s
         /\ DOMAIN Tail(s) = 1 .. Len(s) - 1
         /\ DOMAIN s = 1 .. Len(s)
         /\ \A i \in DOMAIN Tail(s) : Tail(s)[i] = s[i + 1]
OBVIOUS

\* s holds every member of R, each once, and nothing else.
Lists(s, R) ==
  /\ \A k \in DOMAIN s : s[k] \in R
  /\ \A j, k \in DOMAIN s : s[j] = s[k] => j = k
  /\ \A x \in R : \E k \in DOMAIN s : s[k] = x

\* Nothing listed.
LEMMA ListsEmpty == Lists(<<>>, {})
BY DEF Lists

\* push_back of something new.
LEMMA ListsAppend ==
  ASSUME NEW S, NEW s \in Seq(S), NEW R, Lists(s, R), NEW x \in S, x \notin R
  PROVE  Lists(Append(s, x), R \cup {x})
<1> DEFINE t == Append(s, x)
           N == Len(s)
<1>1. /\ DOMAIN t = 1 .. N + 1 /\ DOMAIN s = 1 .. N
      /\ t[N + 1] = x
      /\ \A i \in DOMAIN s : t[i] = s[i]
  BY AppendFacts
<1>2. N \in Nat
  OBVIOUS
<1> HIDE DEF t, N
<1>3. \A i \in DOMAIN t : i \in DOMAIN s \/ i = N + 1
  BY <1>1, <1>2
<1>4. N + 1 \in DOMAIN t /\ \A i \in DOMAIN s : i \in DOMAIN t
  BY <1>1, <1>2
<1>5. \A k \in DOMAIN t : t[k] \in R \cup {x}
  BY <1>1, <1>3, Zenon DEF Lists
<1>6. ASSUME NEW j \in DOMAIN t, NEW k \in DOMAIN t, t[j] = t[k] PROVE j = k
  BY <1>1, <1>3, <1>6, Zenon DEF Lists
<1>7. \A y \in R \cup {x} : \E k \in DOMAIN t : t[k] = y
  BY <1>1, <1>4, Zenon DEF Lists
<1> QED BY <1>5, <1>6, <1>7, Zenon DEF Lists, t

\* pop_front.
LEMMA ListsTail ==
  ASSUME NEW S, NEW s \in Seq(S), s # <<>>, NEW R, Lists(s, R)
  PROVE  Head(s) \in R /\ Lists(Tail(s), R \ {Head(s)})
<1> DEFINE t == Tail(s)
           N == Len(s)
<1>1. /\ Head(s) = s[1] /\ 1 \in DOMAIN s
      /\ DOMAIN t = 1 .. N - 1 /\ DOMAIN s = 1 .. N
      /\ \A i \in DOMAIN t : t[i] = s[i + 1]
  BY TailFacts, Zenon
<1>2. N \in Nat
  OBVIOUS
<1> HIDE DEF t, N
<1>3. \A i \in DOMAIN t : i + 1 \in DOMAIN s /\ i + 1 # 1 /\ i \in Int
  BY <1>1, <1>2
<1>4. ASSUME NEW i \in DOMAIN s, i # 1
      PROVE  i - 1 \in DOMAIN t /\ t[i - 1] = s[i]
  <2>1. i - 1 \in 1 .. N - 1 /\ (i - 1) + 1 = i
    BY <1>1, <1>2, <1>4
  <2> QED BY <1>1, <2>1, Zenon
<1>5. \A k \in DOMAIN t : t[k] \in R \ {s[1]}
  BY <1>1, <1>3 DEF Lists
<1>6. ASSUME NEW j \in DOMAIN t, NEW k \in DOMAIN t, t[j] = t[k] PROVE j = k
  <2>1. j + 1 = k + 1
    BY <1>1, <1>3, <1>6 DEF Lists
  <2> QED BY <1>3, <2>1
<1>7. \A y \in R \ {s[1]} : \E k \in DOMAIN t : t[k] = y
  BY <1>1, <1>4 DEF Lists
<1> QED BY <1>1, <1>5, <1>6, <1>7 DEF Lists, t

\* extend with a second list.
LEMMA ListsConcat ==
  ASSUME NEW S, NEW s \in Seq(S), NEW r \in Seq(S), NEW R, NEW Q, Lists(s, R), Lists(r, Q), R \cap Q = {}
  PROVE  Lists(s \o r, R \cup Q)
<1> DEFINE t == s \o r
           N == Len(s)
           M == Len(r)
<1>1. /\ N \in Nat /\ M \in Nat /\ DOMAIN s = 1 .. N /\ DOMAIN r = 1 .. M /\ DOMAIN t = 1 .. N + M
      /\ \A i \in 1 .. N : t[i] = s[i]
      /\ \A i \in 1 .. M : t[N + i] = r[i]
  OBVIOUS
<1> HIDE DEF t, N, M
<1>2. ASSUME NEW i \in 1 .. N + M PROVE i \in 1 .. N \/ \E j \in 1 .. M : i = N + j
  <2>1. i \notin 1 .. N => i - N \in 1 .. M /\ i = N + (i - N)
    BY <1>1
  <2> QED BY <2>1, Zenon
<1>3. \A j \in 1 .. M : N + j \in 1 .. N + M
  BY <1>1
<1>4. \A j \in 1 .. N : j \in 1 .. N + M
  BY <1>1
<1>l. /\ \A i \in 1 .. N : s[i] \in R
      /\ \A i \in 1 .. M : r[i] \in Q
      /\ \A i, j \in 1 .. N : s[i] = s[j] => i = j
      /\ \A i, j \in 1 .. M : r[i] = r[j] => i = j
  BY <1>1, Zenon DEF Lists
<1>m. /\ \A x \in R : \E i \in 1 .. N : s[i] = x
      /\ \A x \in Q : \E i \in 1 .. M : r[i] = x
  BY <1>1, Zenon DEF Lists
<1>5. ASSUME NEW k \in 1 .. N + M PROVE t[k] \in R \cup Q
  <2>1. CASE k \in 1 .. N
    BY <1>1, <1>l, <2>1, Zenon
  <2>2. ASSUME NEW j \in 1 .. M, k = N + j PROVE t[k] \in Q
    BY <1>1, <1>l, <2>2, Zenon
  <2> QED BY <1>2, <2>1, <2>2, Zenon
<1>6. ASSUME NEW x \in R \cup Q PROVE \E k \in 1 .. N + M : t[k] = x
  <2>1. CASE x \in R
    <3>1. PICK i \in 1 .. N : s[i] = x
      BY <1>m, <2>1, Zenon
    <3> QED BY <1>1, <1>4, <3>1, Zenon
  <2>2. CASE x \in Q
    <3>1. PICK i \in 1 .. M : r[i] = x
      BY <1>m, <2>2, Zenon
    <3> QED BY <1>1, <1>3, <3>1, Zenon
  <2> QED BY <2>1, <2>2, Zenon
<1>7. ASSUME NEW j \in 1 .. N + M, NEW k \in 1 .. N + M, t[j] = t[k] PROVE j = k
  <2>1. CASE j \in 1 .. N /\ k \in 1 .. N
    BY <1>1, <1>l, <1>7, <2>1, Zenon
  <2>2. ASSUME NEW a \in 1 .. M, NEW b \in 1 .. M, j = N + a, k = N + b PROVE j = k
    <3>1. r[a] = r[b]
      BY <1>1, <1>7, <2>2, Zenon
    <3> QED BY <1>l, <2>2, <3>1, Zenon
  <2>3. ASSUME NEW a \in 1 .. N, NEW b \in 1 .. M, t[a] = t[N + b] PROVE FALSE
    <3>1. s[a] = r[b] /\ s[a] \in R /\ r[b] \in Q
      BY <1>1, <1>l, <2>3, Zenon
    <3> QED BY <3>1, Zenon
  <2>4. CASE j \in 1 .. N /\ k \notin 1 .. N
    BY <1>2, <1>7, <2>3, <2>4, Zenon
  <2>5. CASE j \notin 1 .. N /\ k \in 1 .. N
    BY <1>2, <1>7, <2>3, <2>5, Zenon
  <2>6. CASE j \notin 1 .. N /\ k \notin 1 .. N
    BY <1>2, <2>2, <2>6, Zenon
  <2> QED BY <2>1, <2>4, <2>5, <2>6, Zenon
<1> QED BY <1>1, <1>5, <1>6, <1>7, Zenon DEF Lists, t


-----------------------------------------------------------------------------
(* Smp, for any number of CPUs, any of them valid. *)

\* The stages after the wait for BOOT_STATE, and after runtime::init.
Up == {"init", "ready", "start", "wait", "run", "check", "enabled", "wfi"}

\* What the stage of a CPU says about the shared state:  the areas exist once
\* the primary has passed percpu::init, nobody else leaves "off" before that,
\* BOOT_STATE is raised by nobody before the primary, and a runtime in
\* use has work exactly in the stages of its tasks.
Staged ==
  /\ pc[Primary] \notin {"off", "spin"}
  /\ pc[Primary] # "areas" => areas
  /\ \A c \in Cpus : c # Primary =>
       /\ pc[c] \notin {"areas", "harts"}
       /\ pc[c] # "off" => areas
       /\ pc[c] \in Up => boot > 0
  /\ boot > 0 => pc[Primary] \in Up \ {"init", "ready"}

\* The type invariant, with BOOT_STATE only known to be a natural.
Typed ==
  /\ pc \in [Cpus -> Stages]
  /\ areas \in BOOLEAN
  /\ boot \in Nat
  /\ registered \in SUBSET Cpus
  /\ status \in [Cpus -> {"Unused", "Running", "Idle", "Endpoint"}]
  /\ ipi \in SUBSET Cpus
  /\ spent \in SUBSET Cpus
  /\ halted \in BOOLEAN

\* A runtime that is at its Endpoint, or has run out of work, is registered
\* nowhere; with one CPU the halt is decided in "check", where it has no work.
Worked ==
  /\ \A c \in Cpus : pc[c] \in {"check", "enabled", "wfi"} => c \notin registered
  /\ \A c \in Cpus : status[c] = "Endpoint" => pc[c] \in {"check", "enabled", "wfi"}
  /\ \A c \in Cpus : pc[c] \in {"wait", "run"} => status[c] = "Running"
  /\ halted => \A c \in Cpus : status[c] # "Unused" => c \notin registered

\* Only valid CPUs are ever started, and a CPU asleep, or about to be, is at its
\* Endpoint: so a CPU that finds itself the last one has somebody to wake, who
\* stays told until an IPI is spent.
Told ==
  /\ \A c \in Cpus : pc[c] # "off" => c \in Valid
  /\ \A c \in Cpus : pc[c] \in {"enabled", "wfi"} => status[c] = "Endpoint"
  /\ \A c \in Cpus : status[c] # "Unused" => pc[c] # "off"
  /\ (\A c \in Valid : pc[c] \in {"enabled", "wfi"}) /\ (\E c, d \in Valid : c # d)
       => ipi # {} \/ spent # {}

\* BOOT_STATE counts the CPUs that have passed boot_set_ready.
Past == {c \in Cpus : pc[c] \in Up \ {"init", "ready"}}
Counted ==
  /\ boot = Cardinality(Past)
  /\ pc[Primary] \in {"run", "check", "enabled", "wfi"} => Valid \subseteq Past

IInv == Typed /\ Staged /\ Worked

TInv == IInv /\ Told
BInv == TInv /\ Counted

LEMMA InitIInv == Init => IInv
<1> SUFFICES ASSUME Init PROVE IInv
  BY Zenon
<1>0. Primary \in Cpus
  BY CpuAssumption, Zenon DEF Cpus
<1>1. Typed
  BY Zenon DEF Init, Typed, Stages
<1>2. Staged
  BY <1>0 DEF Init, Staged, Up
<1>3. Worked
  BY Zenon DEF Init, Worked
<1> QED
  BY <1>1, <1>2, <1>3, Zenon DEF IInv

LEMMA NextIInv == IInv /\ [Next]_vars => IInv'
<1> SUFFICES ASSUME IInv, [Next]_vars PROVE IInv'
  BY Zenon
<1> USE CpuAssumption DEF IInv
<1>0. Primary \in Cpus /\ Valid \subseteq Cpus
  BY Zenon DEF Cpus
<1>1. CASE UNCHANGED vars
  BY <1>1, Zenon DEF vars, Typed, Staged, Worked
<1>2. CASE Next
  <2>1. PICK c \in Cpus : Step(c) \/ Finish(c) \/ OtherInterrupt(c)
    BY <1>2, Zenon DEF Next
  <2>2. CASE PercpuInit(c)
    BY <1>0, <2>1, <2>2, Zenon DEF PercpuInit, At, Goto, Typed, Staged, Worked, Stages, Up
  <2>3. CASE HartStart(c)
    BY <1>0, <2>1, <2>3 DEF HartStart, At, Goto, Typed, Staged, Worked, Stages, Up
  <2>4. CASE Spin(c)
    BY <1>0, <2>1, <2>4, Zenon DEF Spin, At, Goto, Typed, Staged, Worked, Stages, Up
  <2>5. CASE RuntimeInit(c)
    BY <1>0, <2>1, <2>5, Zenon DEF RuntimeInit, At, Goto, Typed, Staged, Worked, Stages, Up
  <2>6. CASE SetReady(c)
    BY <1>0, <2>1, <2>6 DEF SetReady, At, Goto, Typed, Staged, Worked, Stages, Up
  <2>7. CASE Start(c)
    BY <1>0, <2>1, <2>7, Zenon DEF Start, At, Goto, Typed, Staged, Worked, Stages, Up
  <2>8. CASE PrimaryWait(c)
    BY <1>0, <2>1, <2>8, Zenon DEF PrimaryWait, At, Goto, Typed, Staged, Worked, Stages, Up
  <2>9. CASE Finish(c)
    BY <1>0, <2>1, <2>9, Zenon DEF Finish, At, Goto, Typed, Staged, Worked, Stages, Up
  <2>10. CASE Halt(c)
    <3>1. Cpus = {c} \/ InUse \subseteq Endpoints
      BY <2>10 DEF Halt, At, AllFinished, Cpus
    <3>2. \A d \in Cpus : status[d] # "Unused" => d \notin registered
      BY <3>1, <2>10, Zenon DEF Halt, At, InUse, Endpoints, Worked
    <3> QED
      BY <1>0, <2>10, <3>2, Zenon DEF Halt, At, Typed, Staged, Worked
  <2>11. CASE Endpoint(c)
    BY <1>0, <2>1, <2>11, Zenon DEF Endpoint, Endpoints, At, Goto, Typed, Staged, Worked, Stages, Up
  <2>12. CASE SoftInt(c)
    BY <1>0, <2>1, <2>12, Zenon DEF SoftInt, At, Typed, Staged, Worked
  <2>13. CASE Sleep(c)
    BY <1>0, <2>1, <2>13, Zenon DEF Sleep, At, Goto, Typed, Staged, Worked, Stages, Up
  <2>14. CASE Woken(c)
    BY <1>0, <2>1, <2>14, Zenon DEF Woken, At, Goto, Typed, Staged, Worked, Stages, Up
  <2>15. CASE OtherInterrupt(c)
    BY <1>0, <2>1, <2>15, Zenon DEF OtherInterrupt, At, Goto, Typed, Staged, Worked, Stages, Up
  <2> QED
    BY <2>1, <2>2, <2>3, <2>4, <2>5, <2>6, <2>7, <2>8, <2>9, <2>10, <2>11,
       <2>12, <2>13, <2>14, <2>15, Zenon DEF Step
<1> QED
  BY <1>1, <1>2, Zenon

\* No CPU touches its per-CPU runtime before the areas exist and the primary
\* has finished its own initialisation, however many harts there are and in
\* whatever order they are started (secondary_init's spin on BOOT_STATE).
THEOREM BootOrder == Spec => []InitBeforeUse
<1>1. IInv => InitBeforeUse
  BY CpuAssumption, Zenon DEF IInv, Typed, Staged, InitBeforeUse, Up, Stages, Cpus
<1> QED
  BY InitIInv, NextIInv, <1>1, PTL DEF Spec

\* halt_if_all_finished_or_ipi stops the machine only when no runtime that has
\* ever run has work left.
THEOREM NoEarlyHalt == Spec => []HaltsWhenFinished
<1>1. IInv => HaltsWhenFinished
  BY Zenon DEF IInv, Worked, HaltsWhenFinished, InUse
<1> QED
  BY InitIInv, NextIInv, <1>1, PTL DEF Spec

-----------------------------------------------------------------------------
(* The last CPU to fall asleep. *)

\* The CPU that goes to sleep last, everybody else being asleep, wakes another:
\* it was not at its Endpoint itself, for then all would have finished.
LEMMA LastTellsAnother ==
  ASSUME TInv, NEW c \in Cpus, Endpoint(c),
         \A d \in Valid : d # c => pc[d] \in {"enabled", "wfi"},
         NEW e \in Valid, e # c
  PROVE  ipi' # {}
<1> USE CpuAssumption DEF TInv, IInv
<1>1. e \in Endpoints /\ Endpoints \in SUBSET Nat
  BY DEF Told, Endpoints, Cpus
<1>2. PICK d \in Endpoints : \A x \in Endpoints : d <= x
  BY <1>1, NatLeast, Zenon
<1>3. c \notin Endpoints
  <2> SUFFICES ASSUME c \in Endpoints PROVE InUse \subseteq Endpoints
    BY Zenon DEF Endpoint, AllFinished
  <2> SUFFICES ASSUME NEW x \in Cpus, status[x] # "Unused" PROVE status[x] = "Endpoint"
    BY Zenon DEF InUse, Endpoints
  <2>1. x \in Valid
    BY Zenon DEF Told
  <2> QED
    BY <2>1, Zenon DEF Told, Endpoints
<1> QED
  BY <1>2, <1>3, Zenon DEF Endpoint

LEMMA InitTold == Init => Told
BY CpuAssumption, Zenon DEF Init, Told, Cpus

LEMMA NextTold == TInv /\ [Next]_vars => Told'
<1> SUFFICES ASSUME TInv, [Next]_vars PROVE Told'
  BY Zenon
<1> USE CpuAssumption DEF TInv, IInv
<1>0. Primary \in Cpus /\ Valid \subseteq Cpus
  BY Zenon DEF Cpus
<1>1. CASE UNCHANGED vars
  BY <1>1, Zenon DEF vars, Told
<1>2. CASE Next
  <2>1. PICK c \in Cpus : Step(c) \/ Finish(c) \/ OtherInterrupt(c)
    BY <1>2, Zenon DEF Next
  <2>2. CASE PercpuInit(c)
    BY <1>0, <2>1, <2>2, Zenon DEF PercpuInit, At, Goto, Typed, Told, Stages
  <2>3. CASE HartStart(c)
    BY <1>0, <2>1, <2>3, Zenon DEF HartStart, At, Goto, Typed, Told, Stages
  <2>4. CASE Spin(c)
    BY <1>0, <2>1, <2>4, Zenon DEF Spin, At, Goto, Typed, Told, Stages
  <2>5. CASE RuntimeInit(c)
    BY <1>0, <2>1, <2>5, Zenon DEF RuntimeInit, At, Goto, Typed, Told, Stages
  <2>6. CASE SetReady(c)
    BY <1>0, <2>1, <2>6, Zenon DEF SetReady, At, Goto, Typed, Told, Stages
  <2>7. CASE Start(c)
    BY <1>0, <2>1, <2>7, Zenon DEF Start, At, Goto, Typed, Told, Stages
  <2>8. CASE PrimaryWait(c)
    BY <1>0, <2>1, <2>8, Zenon DEF PrimaryWait, At, Goto, Typed, Told, Stages
  <2>9. CASE Finish(c)
    BY <1>0, <2>1, <2>9, Zenon DEF Finish, At, Goto, Typed, Told, Stages
  <2>10. CASE Halt(c)
    BY <1>0, <2>1, <2>10, Zenon DEF Halt, At, Goto, Typed, Told, Stages
  <2>11. CASE Endpoint(c)
    <3>1. /\ pc' = [pc EXCEPT ![c] = "enabled"] /\ pc[c] = "check"
          /\ status' = [status EXCEPT ![c] = "Endpoint"]
      BY <2>11, Zenon DEF Endpoint, At, Goto
    <3>2. ASSUME \A d \in Valid : pc'[d] \in {"enabled", "wfi"},
                 NEW e \in Valid, NEW f \in Valid, e # f
          PROVE  ipi' # {}
      <4>1. \A d \in Valid : d # c => pc[d] \in {"enabled", "wfi"}
        BY <1>0, <3>1, <3>2, Zenon DEF Typed
      <4> QED
        BY <2>11, <3>2, <4>1, LastTellsAnother, Zenon
    <3> QED
      BY <1>0, <3>1, <3>2, Zenon DEF Typed, Told
  <2>12. CASE SoftInt(c)
    BY <1>0, <2>1, <2>12, Zenon DEF SoftInt, At, Typed, Told
  <2>13. CASE Sleep(c)
    BY <1>0, <2>1, <2>13, Zenon DEF Sleep, At, Goto, Typed, Told, Stages
  <2>14. CASE Woken(c)
    BY <1>0, <2>1, <2>14, Zenon DEF Woken, At, Goto, Typed, Told, Stages
  <2>15. CASE OtherInterrupt(c)
    BY <1>0, <2>1, <2>15, Zenon DEF OtherInterrupt, At, Goto, Typed, Told, Stages
  <2> QED
    BY <2>1, <2>2, <2>3, <2>4, <2>5, <2>6, <2>7, <2>8, <2>9, <2>10, <2>11,
       <2>12, <2>13, <2>14, <2>15, Zenon DEF Step
<1> QED
  BY <1>1, <1>2, Zenon

\* However many CPUs go to sleep in halt_if_all_finished_or_ipi, and in whatever
\* order, one that all the others wait for has an IPI pending, unless an IPI was
\* spent between its target's enable and wfi.
THEOREM LastIsTold == Spec => []SomebodyTold
<1>1. TInv => SomebodyTold
  <2> SUFFICES ASSUME TInv, \A c \in Valid : pc[c] \in {"enabled", "wfi"},
                      Cardinality(Valid) > 1
               PROVE  ipi # {} \/ spent # {}
    BY Zenon DEF SomebodyTold
  <2>1. ASSUME \A c, d \in Valid : c = d PROVE FALSE
    <3>1. Valid = {Primary}
      BY <2>1, CpuAssumption, Zenon
    <3> QED BY <3>1, FS_Singleton
  <2> QED BY <2>1, Zenon DEF TInv, Told
<1>2. Init => TInv
  BY InitIInv, InitTold, Zenon DEF TInv
<1>3. TInv /\ [Next]_vars => TInv'
  BY NextIInv, NextTold, Zenon DEF TInv
<1> QED
  BY <1>1, <1>2, <1>3, PTL DEF Spec

-----------------------------------------------------------------------------
(* The count of BOOT_STATE. *)

LEMMA InitCounted == Init => Counted
<1> SUFFICES ASSUME Init PROVE Counted
  BY Zenon
<1>1. Past = {}
  BY Zenon DEF Init, Past, Up
<1> QED
  BY <1>1, FS_EmptySet, CpuAssumption, Zenon DEF Init, Counted, Cpus

\* A step other than boot_set_ready's and primary_task's moves nobody into or
\* out of Past.
LEMMA PastKept ==
  ASSUME TInv, Counted, Past' = Past, boot' = boot,
         pc'[Primary] = pc[Primary] \/ pc'[Primary] \notin {"run", "check", "enabled", "wfi"}
           \/ pc[Primary] \in {"run", "check", "enabled", "wfi"}
  PROVE  Counted'
BY Zenon DEF Counted

LEMMA NextCounted == BInv /\ [Next]_vars => Counted'
<1> SUFFICES ASSUME BInv, [Next]_vars PROVE Counted'
  BY Zenon
<1> USE CpuAssumption DEF BInv, TInv, IInv
<1>0. Primary \in Cpus /\ Valid \subseteq Cpus
  BY Zenon DEF Cpus
<1>f. IsFiniteSet(Cpus) /\ IsFiniteSet(Past) /\ IsFiniteSet(Valid) /\ Past \subseteq Valid
  <2>1. IsFiniteSet(Cpus)
    BY FS_Interval DEF Cpus
  <2>2. Past \subseteq Valid
    BY Zenon DEF Past, Told, Up
  <2> QED BY <1>0, <2>1, <2>2, FS_Subset, Zenon
<1>1. CASE UNCHANGED vars
  BY <1>1, Zenon DEF vars, Counted, Past
<1>2. CASE Next
  <2>1. PICK c \in Cpus : Step(c) \/ Finish(c) \/ OtherInterrupt(c)
    BY <1>2, Zenon DEF Next
  <2>2. CASE PercpuInit(c)
    BY <1>0, <2>1, <2>2, PastKept, Zenon DEF PercpuInit, At, Goto, Typed, Past, Stages, Up
  <2>3. CASE HartStart(c)
    BY <1>0, <2>1, <2>3, PastKept, Zenon DEF HartStart, At, Goto, Typed, Past, Stages, Up
  <2>4. CASE Spin(c)
    BY <1>0, <2>1, <2>4, PastKept, Zenon DEF Spin, At, Goto, Typed, Past, Stages, Up
  <2>5. CASE RuntimeInit(c)
    BY <1>0, <2>1, <2>5, PastKept, Zenon DEF RuntimeInit, At, Goto, Typed, Past, Stages, Up
  <2>6. CASE SetReady(c)
    <3>1. /\ pc[c] = "ready" /\ boot' = boot + 1 /\ pc' = [pc EXCEPT ![c] = "start"]
      BY <2>6, Zenon DEF SetReady, At, Goto
    <3>2. Past' = Past \cup {c} /\ c \notin Past
      BY <3>1, Zenon DEF Past, Typed, Up
    <3>3. Cardinality(Past') = Cardinality(Past) + 1
      BY <3>2, <1>f, FS_AddElement, Zenon
    <3> QED
      BY <1>0, <3>1, <3>2, <3>3, Zenon DEF Counted, Typed
  <2>7. CASE Start(c)
    BY <1>0, <2>1, <2>7, PastKept, Zenon DEF Start, At, Goto, Typed, Past, Stages, Up
  <2>8. CASE PrimaryWait(c)
    <3>1. /\ pc[c] = "wait" /\ boot' = boot /\ pc' = [pc EXCEPT ![c] = "run"]
          /\ boot = Cardinality(Valid)
      BY <2>8, Zenon DEF PrimaryWait, At, Goto
    <3>2. Past' = Past
      BY <3>1, Zenon DEF Past, Typed, Up
    <3>3. Past = Valid
      BY <3>1, <1>f, FS_Subset, Zenon DEF Counted
    <3> QED
      BY <3>1, <3>2, <3>3, Zenon DEF Counted
  <2>9. CASE Finish(c)
    BY <1>0, <2>1, <2>9, PastKept, Zenon DEF Finish, At, Goto, Typed, Past, Stages, Up
  <2>10. CASE Halt(c)
    BY <1>0, <2>1, <2>10, PastKept, Zenon DEF Halt, At, Goto, Typed, Past, Stages, Up
  <2>11. CASE Endpoint(c)
    BY <1>0, <2>1, <2>11, PastKept, Zenon DEF Endpoint, At, Goto, Typed, Past, Stages, Up
  <2>12. CASE SoftInt(c)
    BY <1>0, <2>1, <2>12, PastKept, Zenon DEF SoftInt, Past
  <2>13. CASE Sleep(c)
    BY <1>0, <2>1, <2>13, PastKept, Zenon DEF Sleep, At, Goto, Typed, Past, Stages, Up
  <2>14. CASE Woken(c)
    BY <1>0, <2>1, <2>14, PastKept, Zenon DEF Woken, At, Goto, Typed, Past, Stages, Up
  <2>15. CASE OtherInterrupt(c)
    BY <1>0, <2>1, <2>15, PastKept, Zenon DEF OtherInterrupt, At, Goto, Typed, Past, Stages, Up
  <2> QED
    BY <2>1, <2>2, <2>3, <2>4, <2>5, <2>6, <2>7, <2>8, <2>9, <2>10, <2>11,
       <2>12, <2>13, <2>14, <2>15, Zenon DEF Step
<1> QED
  BY <1>1, <1>2, Zenon

\* primary_task leaves its loop only when every valid CPU has called
\* boot_set_ready, each of them once: nproc_valid() is neither reached early
\* nor passed.
AllReady ==
  /\ boot <= Cardinality(Valid)
  /\ pc[Primary] \in {"run", "check", "enabled", "wfi"} =>
       \A c \in Valid : pc[c] \in {"start", "wait", "run", "check", "enabled", "wfi"}

\* The wait of primary_task for the other CPUs is exact: BOOT_STATE never
\* exceeds nproc_valid(), and the primary goes on only when all have counted.
THEOREM PrimaryWaitsForAll == Spec => []AllReady
<1>1. BInv => AllReady
  <2> SUFFICES ASSUME BInv PROVE AllReady
    BY Zenon
  <2>1. Past \subseteq Valid /\ Valid \subseteq Cpus
    BY CpuAssumption, Zenon DEF BInv, TInv, Told, Past, Up, Cpus
  <2>2. IsFiniteSet(Valid)
    <3>1. IsFiniteSet(Cpus)
      BY FS_Interval, CpuAssumption DEF Cpus
    <3> QED BY <2>1, <3>1, FS_Subset, Zenon
  <2>3. Cardinality(Past) <= Cardinality(Valid)
    BY <2>1, <2>2, FS_Subset, Zenon
  <2>4. \A c \in Past : pc[c] \in {"start", "wait", "run", "check", "enabled", "wfi"}
    BY Zenon DEF Past, Up
  <2>5. \/ pc[Primary] \notin {"run", "check", "enabled", "wfi"}
        \/ \A c \in Valid : c \in Past
    BY Zenon DEF BInv, Counted
  <2> QED
    BY <2>3, <2>4, <2>5, Zenon DEF BInv, Counted, AllReady
<1>2. Init => BInv
  BY InitIInv, InitTold, InitCounted, Zenon DEF BInv, TInv
<1>3. BInv /\ [Next]_vars => BInv'
  BY NextIInv, NextTold, NextCounted, Zenon DEF BInv, TInv
<1> QED
  BY <1>1, <1>2, <1>3, PTL DEF Spec

-----------------------------------------------------------------------------
(* TimedEvent, for any events, delays and rates of the clock. *)


Event == [time : Nat, status : {"none", "Pending", "Timeout", "Cancelled"}, handler : BOOLEAN]

TTyped ==
  /\ tick \in Nat
  /\ event \in [Ids -> Event]
  /\ queue \subseteq Ids
  /\ ran \in [Ids -> Seq({"Timeout", "Cancelled"})]
  /\ thread.at \in {"add", "remove", "invoke"} => thread.id \in Ids

\* Who is where: the lock is held exactly while the thread adds or removes,
\* and the handler is past its first look only when nobody holds it.
Located ==
  /\ thread.at \in {"add", "remove"} => lock = "thread"
  /\ irq.at \in {"timeout", "invoke", "check"} => lock = "free"
  /\ irq.at = "invoke" => irq.id \in Ids

\* The handler of an event is there exactly while it is pending, what ran is
\* what the status says, and whoever is about to invoke an event has taken it
\* out of the queue.
Outcome ==
  /\ \A i \in Ids :
       /\ event[i].handler <=> event[i].status = "Pending"
       /\ event[i].status \in {"none", "Pending"} => ran[i] = <<>>
       /\ event[i].status \in {"Timeout", "Cancelled"} => ran[i] = <<event[i].status>>
       /\ i \in queue => event[i].status = "Pending"
  /\ thread.at = "add" => event[thread.id].status = "Pending"
  /\ thread.at = "invoke" => thread.id \notin queue
  /\ irq.at = "invoke" => irq.id \notin queue
  /\ thread.at \in {"remove", "invoke"} => event[thread.id].status # "none"

TIInv == TTyped /\ Located /\ Outcome

LEMMA InitTIInv == TInit => TIInv
<1> SUFFICES ASSUME TInit PROVE TIInv
  BY Zenon
<1>1. TTyped
  BY DEF TInit, TTyped, Event, Idle
<1>2. Located
  BY Zenon DEF TInit, Located, Idle
<1>3. Outcome
  BY Zenon DEF TInit, Outcome, Idle
<1> QED BY <1>1, <1>2, <1>3, Zenon DEF TIInv

\* Truncating division is monotonic.
LEMMA DivMonotonic ==
  ASSUME NEW a \in Nat, NEW b \in Nat, a <= b, NEW f \in Nat \ {0}
  PROVE  a \div f <= b \div f
OBVIOUS

\* A remainder is no larger than what it is the remainder of.
LEMMA ModBelow ==
  ASSUME NEW a \in Nat, NEW w \in Nat \ {0}
  PROVE  a % w \in Nat /\ a % w <= a
<1>1. a % w \in 0 .. w - 1
  OBVIOUS
<1>2. a % w <= a
  OBVIOUS
<1> QED BY <1>1, <1>2

\* get_time never runs ahead of the time elapsed: where its product wraps it
\* falls behind.
LEMMA GetTimeNat ==
  ASSUME tick \in Nat
  PROVE  GetTime \in Nat /\ Elapsed \in Nat /\ GetTime <= Elapsed
<1>1. tick * NANOS \in Nat
  BY RatesAssumption
<1>2. FREQ \in Nat \ {0} /\ WORD \in Nat \ {0}
  BY RatesAssumption, WordAssumption
<1> DEFINE n == tick * NANOS
           m == n % WORD
<1>3. n \in Nat /\ m \in Nat /\ m <= n
  BY <1>1, <1>2, ModBelow, Zenon
<1>4. GetTime = m \div FREQ /\ Elapsed = n \div FREQ
  BY <1>2 DEF GetTime, Elapsed
<1> HIDE DEF n, m
<1>5. m \div FREQ <= n \div FREQ
  BY <1>2, <1>3, DivMonotonic, Zenon
<1>6. m \div FREQ \in Nat /\ n \div FREQ \in Nat
  BY <1>2, <1>3
<1> QED BY <1>4, <1>5, <1>6, Zenon

LEMMA NewEventGood ==
  ASSUME tick \in Nat, NEW d \in Delays
  PROVE  NewEvent(d) \in Event /\ NewEvent(d).status = "Pending" /\ NewEvent(d).handler = TRUE
<1>1. GetTime \in Nat /\ d \in Nat
  BY GetTimeNat, DelaysAssumption, Zenon
<1>2. GetTime + d \in Nat
  BY <1>1
<1> QED BY <1>2, Zenon DEF NewEvent, Event

\* invoke runs the callback of an event that is out of the queue, once.
LEMMA InvokeOutcome ==
  ASSUME TIInv, NEW i \in Ids, i \notin queue, NEW target \in {"Timeout", "Cancelled"},
         Invoke(i, target), thread.at = "add" => thread.id # i
  PROVE  /\ event' \in [Ids -> Event]
         /\ ran' \in [Ids -> Seq({"Timeout", "Cancelled"})]
         /\ \A j \in Ids :
              /\ event'[j].handler <=> event'[j].status = "Pending"
              /\ event'[j].status \in {"none", "Pending"} => ran'[j] = <<>>
              /\ event'[j].status \in {"Timeout", "Cancelled"} => ran'[j] = <<event'[j].status>>
              /\ j # i => event'[j] = event[j]
              /\ event[j].status # "none" => event'[j].status # "none"
<1>0. TTyped /\ Outcome
  BY Zenon DEF TIInv
<1>1. CASE ~ event[i].handler
  BY <1>0, <1>1, Zenon DEF Invoke, TTyped, Outcome
<1>2. CASE event[i].handler
  <2>1. /\ event' = [event EXCEPT ![i].status = target, ![i].handler = FALSE]
        /\ ran' = [ran EXCEPT ![i] = Append(@, target)]
    BY <1>2, Zenon DEF Invoke
  <2>2. ran[i] = <<>>
    BY <1>0, <1>2, Zenon DEF Outcome
  <2>3. ran' = [ran EXCEPT ![i] = <<target>>]
    BY <2>1, <2>2
  <2>4. event'[i] = [event[i] EXCEPT !.status = target, !.handler = FALSE]
    BY <1>0, <2>1, Zenon DEF TTyped
  <2>5. event'[i] \in Event /\ event'[i].status = target /\ event'[i].handler = FALSE
    BY <1>0, <2>4, Zenon DEF TTyped, Event
  <2>6. \A j \in Ids : j # i => event'[j] = event[j] /\ ran'[j] = ran[j]
    BY <1>0, <2>1, Zenon DEF TTyped
  <2>7. ran'[i] = <<target>> /\ <<target>> \in Seq({"Timeout", "Cancelled"})
    BY <1>0, <2>3 DEF TTyped
  <2>8. event' \in [Ids -> Event]
    BY <1>0, <2>1, <2>5, <2>6, Zenon DEF TTyped
  <2>9. ran' \in [Ids -> Seq({"Timeout", "Cancelled"})]
    BY <1>0, <2>3, <2>7, Zenon DEF TTyped
  <2> QED BY <1>0, <2>5, <2>6, <2>7, <2>8, <2>9 DEF Outcome
<1> QED BY <1>1, <1>2, Zenon

LEMMA NextTIInv == TIInv /\ [TNext]_tvars => TIInv'
<1> SUFFICES ASSUME TIInv, [TNext]_tvars PROVE TIInv'
  BY Zenon
<1>0. TTyped /\ Located /\ Outcome
  BY Zenon DEF TIInv
<1>1. CASE UNCHANGED tvars
  BY <1>0, <1>1, Zenon DEF tvars, TIInv, TTyped, Located, Outcome
<1>2. CASE Tick
  BY <1>0, <1>2 DEF Tick, TIInv, TTyped, Located, Outcome
<1>3. ASSUME NEW i \in Ids, NEW on \in BOOLEAN, NEW d \in Delays, CreateLock(i, d, on) PROVE TIInv'
  <2> DEFINE e == NewEvent(d)
  <2>1. event' = [event EXCEPT ![i] = e]
    BY <1>3, Zenon DEF CreateLock
  <2>2. e \in Event /\ e.status = "Pending" /\ e.handler = TRUE
    BY <1>0, NewEventGood, Zenon DEF TTyped
  <2> HIDE DEF e
  <2>3. event'[i] = e /\ \A j \in Ids : j # i => event'[j] = event[j]
    BY <1>0, <2>1, Zenon DEF TTyped
  <2>4. /\ thread' = Doing("add", i) /\ lock' = "thread" /\ irq = Idle
        /\ UNCHANGED <<tick, queue, ran, irq>> /\ event[i].status = "none"
    BY <1>3, Zenon DEF CreateLock, Fresh
  <2>5. TTyped'
    BY <1>0, <2>1, <2>2, <2>4, Zenon DEF TTyped, Doing
  <2>6. Located'
    BY <2>4, Zenon DEF Located, Doing, Idle
  <2>7. Outcome'
    BY <1>0, <2>2, <2>3, <2>4, Zenon DEF Outcome, Doing, Idle
  <2> QED BY <2>5, <2>6, <2>7, Zenon DEF TIInv
<1>4. ASSUME NEW i \in Ids, NEW on \in BOOLEAN, CancelLock(i, on) PROVE TIInv'
  BY <1>0, <1>4, Zenon DEF CancelLock, TIInv, TTyped, Located, Outcome, Doing, Idle
<1>5. CASE CreateAdd
  BY <1>0, <1>5, Zenon DEF CreateAdd, TIInv, TTyped, Located, Outcome, Idle
<1>6. CASE CancelRemove
  BY <1>0, <1>6 DEF CancelRemove, Remove, TIInv, TTyped, Located, Outcome, Doing, Idle
<1>7. CASE CancelInvoke
  <2>1. /\ thread.at = "invoke" /\ thread.id \in Ids /\ thread.id \notin queue
        /\ Invoke(thread.id, "Cancelled") /\ irq = Idle /\ thread' = Idle
        /\ UNCHANGED <<tick, queue, lock, irq>>
    BY <1>0, <1>7, Zenon DEF CancelInvoke, TTyped, Outcome
  <2>2. /\ event' \in [Ids -> Event]
        /\ ran' \in [Ids -> Seq({"Timeout", "Cancelled"})]
        /\ \A j \in Ids :
              /\ event'[j].handler <=> event'[j].status = "Pending"
              /\ event'[j].status \in {"none", "Pending"} => ran'[j] = <<>>
              /\ event'[j].status \in {"Timeout", "Cancelled"} => ran'[j] = <<event'[j].status>>
              /\ j # thread.id => event'[j] = event[j]
    BY <2>1, InvokeOutcome, Zenon
  <2> QED BY <1>0, <2>1, <2>2, Zenon DEF TIInv, TTyped, Located, Outcome, Idle
<1>8. CASE TimerInt
  BY <1>0, <1>8, Zenon DEF TimerInt, TIInv, TTyped, Located, Outcome, Doing, Idle
<1>9. CASE HandlePeek
  BY <1>0, <1>9, Zenon DEF HandlePeek, TIInv, TTyped, Located, Outcome, Doing, Idle
<1>10. CASE HandleRemove
  BY <1>0, <1>10 DEF HandleRemove, Remove, TIInv, TTyped, Located, Outcome, Doing, Idle
<1>11. CASE HandleInvoke
  <2>1. /\ irq.id \in Ids /\ irq.id \notin queue /\ thread.at # "add"
        /\ Invoke(irq.id, "Timeout") /\ irq' = Doing("peek", 0)
        /\ UNCHANGED <<tick, queue, lock, thread>>
    BY <1>0, <1>11, Zenon DEF HandleInvoke, Located, Outcome
  <2>2. /\ event' \in [Ids -> Event]
        /\ ran' \in [Ids -> Seq({"Timeout", "Cancelled"})]
        /\ \A j \in Ids :
              /\ event'[j].handler <=> event'[j].status = "Pending"
              /\ event'[j].status \in {"none", "Pending"} => ran'[j] = <<>>
              /\ event'[j].status \in {"Timeout", "Cancelled"} => ran'[j] = <<event'[j].status>>
              /\ j # irq.id => event'[j] = event[j]
              /\ event[j].status # "none" => event'[j].status # "none"
    BY <2>1, InvokeOutcome, Zenon
  <2> QED BY <1>0, <2>1, <2>2, Zenon DEF TIInv, TTyped, Located, Outcome, Doing
<1>12. CASE HandleCheck
  BY <1>0, <1>12, Zenon DEF HandleCheck, TIInv, TTyped, Located, Outcome, Idle
<1>13. CASE CountLock \/ CountUnlock
  <2>1. UNCHANGED <<tick, event, queue, ran, lock, irq>>
    BY <1>13, Zenon DEF CountLock, CountUnlock
  <2>2. thread' = Doing("count", 0) \/ thread' = Idle
    BY <1>13, Zenon DEF CountLock, CountUnlock
  <2>3. thread'.at = "count" \/ thread'.at = "idle"
    BY <2>2 DEF Doing, Idle
  <2> QED BY <1>0, <2>1, <2>3, Zenon DEF TIInv, TTyped, Located, Outcome
<1>14. CASE HandleCount
  BY <1>0, <1>14, Zenon DEF HandleCount, TIInv, TTyped, Located, Outcome, Doing, Idle
<1>15. ASSUME NEW i \in Ids, NEW d \in Delays, HandleInvokeCreate(i, d) PROVE TIInv'
  <2> DEFINE k == irq.id
             e == NewEvent(d)
  <2>1. /\ irq.at = "invoke" /\ event[k].handler /\ event[i].status = "none"
        /\ event' = [event EXCEPT ![k].status = "Timeout", ![k].handler = FALSE, ![i] = e]
        /\ ran' = [ran EXCEPT ![k] = Append(@, "Timeout")]
        /\ queue' = queue \cup {i} /\ irq' = Doing("peek", 0)
        /\ UNCHANGED <<tick, lock, thread>>
    BY <1>15, Zenon DEF HandleInvokeCreate, Fresh
  <2>2. e \in Event /\ e.status = "Pending" /\ e.handler = TRUE
    BY <1>0, NewEventGood, Zenon DEF TTyped
  <2>3. k \in Ids /\ k \notin queue /\ thread.at \notin {"add", "remove"}
    BY <1>0, <2>1, Zenon DEF Located, Outcome
  <2>4. event[k].status = "Pending" /\ ran[k] = <<>> /\ k # i /\ i \notin queue /\ ran[i] = <<>>
    BY <1>0, <2>1, <2>3, Zenon DEF Outcome
  <2> HIDE DEF k, e
  <2>5. PICK a : a = [event EXCEPT ![k].status = "Timeout", ![k].handler = FALSE]
    BY Zenon
  <2>6. a[k] = [event[k] EXCEPT !.status = "Timeout", !.handler = FALSE]
        /\ \A j \in Ids : j # k => a[j] = event[j]
    BY <1>0, <2>3, <2>5, Zenon DEF TTyped
  <2>20. event[k] \in Event
    BY <1>0, <2>3, Zenon DEF TTyped
  <2>7. a[k] \in Event /\ a[k].status = "Timeout" /\ a[k].handler = FALSE
    BY <2>6, <2>20, Zenon DEF Event
  <2>8. DOMAIN a = Ids /\ a \in [Ids -> Event]
    BY <1>0, <2>3, <2>5, <2>6, <2>7, Zenon DEF TTyped
  <2>9. event' = [a EXCEPT ![i] = e]
    BY <2>1, <2>5, Zenon
  <2>10. event' \in [Ids -> Event] /\ event'[i] = e /\ \A j \in Ids : j # i => event'[j] = a[j]
    BY <2>2, <2>8, <2>9, Zenon
  <2>11. ran' = [ran EXCEPT ![k] = <<"Timeout">>]
    BY <2>1, <2>4
  <2>12. <<"Timeout">> \in Seq({"Timeout", "Cancelled"})
    OBVIOUS
  <2>13. /\ ran' \in [Ids -> Seq({"Timeout", "Cancelled"})] /\ ran'[k] = <<"Timeout">>
         /\ \A j \in Ids : j # k => ran'[j] = ran[j]
    BY <1>0, <2>3, <2>11, <2>12, Zenon DEF TTyped
  <2>14. TTyped'
    BY <1>0, <2>1, <2>10, <2>13, Zenon DEF TTyped
  <2>15. Located'
    BY <1>0, <2>1, <2>3, Zenon DEF Located, Doing
  <2>16. ASSUME NEW j \in Ids
         PROVE  /\ event'[j].handler <=> event'[j].status = "Pending"
                /\ event'[j].status \in {"none", "Pending"} => ran'[j] = <<>>
                /\ event'[j].status \in {"Timeout", "Cancelled"} => ran'[j] = <<event'[j].status>>
                /\ j \in queue' => event'[j].status = "Pending"
    <3>1. CASE j = i
      BY <2>2, <2>4, <2>10, <2>13, <3>1, Zenon
    <3>2. CASE j = k
      BY <2>1, <2>3, <2>4, <2>7, <2>10, <2>13, <3>2, Zenon
    <3>3. CASE j # i /\ j # k
      BY <1>0, <2>1, <2>6, <2>10, <2>13, <3>3, Zenon DEF Outcome
    <3> QED BY <3>1, <3>2, <3>3, Zenon
  <2>17. thread.at = "invoke" => /\ thread.id \notin queue' /\ event'[thread.id].status # "none"
    <3> SUFFICES ASSUME thread.at = "invoke"
                 PROVE  thread.id \notin queue' /\ event'[thread.id].status # "none"
      BY Zenon
    <3>1. thread.id \in Ids /\ thread.id \notin queue /\ event[thread.id].status # "none"
      BY <1>0, Zenon DEF TTyped, Outcome
    <3> QED BY <2>1, <2>6, <2>7, <2>10, <3>1, Zenon
  <2> QED BY <2>1, <2>3, <2>14, <2>15, <2>16, <2>17, Zenon DEF TIInv, Outcome, Doing
<1> QED
  BY <1>1, <1>2, <1>3, <1>4, <1>5, <1>6, <1>7, <1>8, <1>9, <1>10, <1>11, <1>12, <1>13, <1>14,
     <1>15, Zenon DEF TNext, Thread, Handler

LEMMA TInvariant == TSpec => []TIInv
<1>1. TInit => TIInv
  BY InitTIInv, Zenon
<1>2. TIInv /\ [TNext]_tvars => TIInv'
  BY NextTIInv, Zenon
<1> QED BY <1>1, <1>2, PTL DEF TSpec

\* timeout and cancel never both run a callback of one event, and neither
\* runs twice, for any number of events and any rates (TimedEvent::invoke).
THEOREM RaceHasOneWinner == TSpec => []OneOutcome
<1>1. TIInv => OneOutcome
  <2> SUFFICES ASSUME TIInv, NEW i \in Ids
               PROVE  /\ event[i].status \in {"none", "Pending"} <=> ran[i] = <<>>
                      /\ event[i].status \in {"Timeout", "Cancelled"} => ran[i] = <<event[i].status>>
                      /\ i \in queue => event[i].status = "Pending" /\ event[i].handler
    BY Zenon DEF OneOutcome
  <2>1. event[i].status \in {"none", "Pending", "Timeout", "Cancelled"}
    BY Zenon DEF TIInv, TTyped, Event
  <2>2. <<event[i].status>> # <<>>
    BY Zenon
  <2>3. /\ event[i].handler <=> event[i].status = "Pending"
        /\ event[i].status \in {"none", "Pending"} => ran[i] = <<>>
        /\ event[i].status \in {"Timeout", "Cancelled"} => ran[i] = <<event[i].status>>
        /\ i \in queue => event[i].status = "Pending"
    BY Zenon DEF TIInv, Outcome
  <2> QED BY <2>1, <2>2, <2>3, Zenon
<1> QED BY <1>1, TInvariant, PTL

-----------------------------------------------------------------------------
(* Events time out when they are due, in order. *)

\* A queue that is not empty has a first event, by time and then by id.
LEMMA PeekFirst ==
  ASSUME TTyped, queue # {}
  PROVE  /\ Peek(queue) \in queue
         /\ \A j \in queue : Peek(queue) = j \/ Earlier(Peek(queue), j)
<1> DEFINE T == {event[i].time : i \in queue}
<1>0. queue \subseteq Nat /\ \A i \in queue : event[i].time \in Nat
  BY IdsAssumption, Zenon DEF TTyped, Event
<1>1. T \in SUBSET Nat /\ T # {}
  BY <1>0, Zenon
<1>2. PICK m \in T : \A n \in T : m <= n
  BY <1>1, NatLeast, Zenon
<1> DEFINE F == {i \in queue : event[i].time = m}
<1>3. F \in SUBSET Nat /\ F # {}
  BY <1>0, <1>2, Zenon
<1>4. PICK f \in F : \A g \in F : f <= g
  BY <1>3, NatLeast, Zenon
<1>5. ASSUME NEW j \in queue PROVE f = j \/ Earlier(f, j)
  <2>1. f \in Nat /\ j \in Nat /\ event[f].time = m /\ event[j].time \in Nat /\ m \in Nat
    BY <1>0, <1>1, <1>2, <1>4, Zenon
  <2>2. m <= event[j].time
    BY <1>2, Zenon
  <2>3. event[j].time = m => f <= j
    BY <1>4, Zenon
  <2> QED BY <2>1, <2>2, <2>3 DEF Earlier
<1>6. \E i \in queue : \A j \in queue : i = j \/ Earlier(i, j)
  BY <1>4, <1>5, Zenon
<1> QED BY <1>6, Zenon DEF Peek

LEMMA TimePasses ==
  ASSUME NEW t \in Nat
  PROVE  (t * NANOS) \div FREQ <= ((t + 1) * NANOS) \div FREQ
<1>1. FREQ \in Nat \ {0} /\ NANOS \in Nat
  BY RatesAssumption
<1>2. t * NANOS \in Nat /\ (t + 1) * NANOS \in Nat /\ (t + 1) * NANOS = t * NANOS + NANOS
  BY <1>1
<1>3. t * NANOS <= (t + 1) * NANOS
  BY <1>1, <1>2
<1> QED BY <1>1, <1>2, <1>3, DivMonotonic, Zenon

\* Duration::MAX sets the timer to the last value of the register.
LEMMA MaxIsLast == SetTimer(DurationMax) = WORD - 1
<1> DEFINE W == WORD
           N == NANOS
           F == FREQ
<1>1. W \in Nat \ {0} /\ N \in Nat \ {0} /\ F \in 1 .. N
  BY RatesAssumption, WordAssumption, Zenon
<1> DEFINE q == W * F - 1
<1>2. q \in Nat
  BY <1>1
<1>3. (W * N - 1) * F = q * N + (N - F)
  BY <1>1
<1>4. N - F \in 0 .. N - 1
  BY <1>1
<1> HIDE DEF q
<1>5. (q * N + (N - F)) \div N = q
  BY <1>1, <1>2, <1>4
<1>6. q = (F - 1) * W + (W - 1)
  BY <1>1 DEF q
<1>7. q % W = W - 1
  BY <1>1, <1>6
<1> QED BY <1>3, <1>5, <1>7, Zenon DEF SetTimer, DurationMax

\* The timer is set for the first event, and off when there is none.
Armed ==
  ~ dropped =>
    /\ queue = {} => timecmp = SetTimer(DurationMax)
    /\ \A i \in queue :
         (\A j \in queue : event[i].time <= event[j].time) => timecmp = SetTimer(event[i].time)

\* An event the handler has picked is due and still the first.
Due ==
  /\ tick <= MaxTick
  /\ irq.at \in {"timeout", "invoke"} => irq.id \in Ids /\ event[irq.id].time <= Elapsed
  /\ irq.at = "timeout" => \A j \in queue : j = irq.id \/ Earlier(irq.id, j)

\* A step that leaves the queue, the timer and the times of the queued alone.
LEMMA ArmedKept ==
  ASSUME Armed, UNCHANGED <<queue, timecmp, dropped>>,
         \A j \in queue : event'[j].time = event[j].time
  PROVE  Armed'
BY Zenon DEF Armed

\* update_timer
LEMMA ArmedBySet ==
  ASSUME NEW ev \in [Ids -> Event], event' = ev, queue' \subseteq Ids, UpdateTimer(queue', ev)
  PROVE  Armed'
<1> DEFINE q == queue'
           Least(i) == \A j \in q : ev[i].time <= ev[j].time
           l == CHOOSE i \in q : Least(i)
<1>1. timecmp' = SetTimer(IF q = {} THEN DurationMax ELSE ev[l].time)
  BY Zenon DEF UpdateTimer
<1>2. \A i \in q : ev[i].time \in Nat
  BY Zenon DEF Event
<1>3. ASSUME NEW i \in q, Least(i) PROVE timecmp' = SetTimer(ev[i].time)
  <2>1. l \in q /\ Least(l)
    BY <1>3, Zenon
  <2>2. ev[l].time <= ev[i].time /\ ev[i].time <= ev[l].time
    BY <1>3, <2>1, Zenon
  <2>3. ev[l].time = ev[i].time
    BY <1>2, <1>3, <2>1, <2>2
  <2> QED BY <1>1, <1>3, <2>3, Zenon
<1>4. q = {} => timecmp' = SetTimer(DurationMax)
  BY <1>1, Zenon
<1> QED BY <1>3, <1>4, Zenon DEF Armed

LEMMA ArmedByUpdate ==
  ASSUME TTyped, queue' \subseteq Ids, UNCHANGED event, UpdateTimer(queue', event)
  PROVE  Armed'
<1>1. event \in [Ids -> Event]
  BY Zenon DEF TTyped
<1> QED BY <1>1, ArmedBySet, Zenon

LEMMA InvokeTimes ==
  ASSUME TTyped, NEW i, NEW target, Invoke(i, target)
  PROVE  \A j \in Ids : event'[j].time = event[j].time
<1>1. CASE ~ event[i].handler
  BY <1>1, Zenon DEF Invoke
<1>2. CASE event[i].handler
  <2>1. event' = [event EXCEPT ![i].status = target, ![i].handler = FALSE]
    BY <1>2, Zenon DEF Invoke
  <2> QED BY <2>1, Zenon DEF TTyped, Event
<1> QED BY <1>1, <1>2, Zenon

LEMMA NextDue == TIInv /\ Due /\ Armed /\ [TNext]_tvars => Due' /\ Armed'
<1> SUFFICES ASSUME TIInv, Due, Armed, [TNext]_tvars PROVE Due' /\ Armed'
  BY Zenon
<1>0. TTyped /\ Located /\ Outcome
  BY Zenon DEF TIInv
<1>t. GetTime \in Nat /\ Elapsed \in Nat /\ GetTime <= Elapsed /\ \A i \in Ids : event[i].time \in Nat
  BY <1>0, GetTimeNat, Zenon DEF TTyped, Event
<1>q. \A i \in queue : i \in Ids
  BY <1>0, Zenon DEF TTyped
<1>1. CASE UNCHANGED tvars
  BY <1>1, Zenon DEF tvars, Due, Armed, Elapsed, Earlier
<1>2. CASE Tick
  <2>1. /\ tick' = tick + 1 /\ tick + 1 <= MaxTick
        /\ UNCHANGED <<timecmp, event, queue, irq, dropped>>
    BY <1>0, <1>2, WordAssumption DEF Tick, TTyped
  <2>2. Elapsed <= Elapsed' /\ Elapsed' \in Nat
    <3>1. (tick * NANOS) \div FREQ <= ((tick + 1) * NANOS) \div FREQ
      BY <1>0, TimePasses, Zenon DEF TTyped
    <3>2. tick + 1 \in Nat /\ FREQ \in Nat \ {0} /\ NANOS \in Nat
      BY <1>0, RatesAssumption DEF TTyped
    <3>3. ((tick + 1) * NANOS) \div FREQ \in Nat
      BY <3>2
    <3> QED BY <2>1, <3>1, <3>3, Zenon DEF Elapsed
  <2>3. Due'
    <3>1. tick' <= MaxTick
      BY <2>1, Zenon
    <3>2. irq.at \in {"timeout", "invoke"} => irq.id \in Ids /\ event[irq.id].time <= Elapsed'
      BY <1>t, <2>2 DEF Due
    <3> QED BY <2>1, <3>1, <3>2, Zenon DEF Due, Earlier
  <2> QED BY <2>1, <2>3, ArmedKept, Zenon
<1>3. ASSUME NEW i \in Ids, NEW on \in BOOLEAN, NEW d \in Delays, CreateLock(i, d, on)
      PROVE  Due' /\ Armed'
  <2>1. /\ UNCHANGED <<tick, timecmp, queue, irq, dropped>> /\ irq = Idle
        /\ event[i].status = "none" /\ event' = [event EXCEPT ![i] = NewEvent(d)]
    BY <1>3, Zenon DEF CreateLock, Fresh
  <2>2. \A j \in queue : j # i /\ event'[j] = event[j]
    BY <1>0, <1>q, <2>1, Zenon DEF TTyped, Outcome
  <2> QED BY <2>1, <2>2, ArmedKept, Zenon DEF Due, Idle
<1>4. ASSUME NEW i \in Ids, NEW on \in BOOLEAN, CancelLock(i, on) PROVE Due' /\ Armed'
  BY <1>4, ArmedKept, Zenon DEF CancelLock, Due, Idle
<1>5. CASE CreateAdd
  <2>1. queue' \subseteq Ids
    BY <1>0, <1>5, Zenon DEF CreateAdd, TTyped
  <2> QED BY <1>0, <1>5, <2>1, ArmedByUpdate, Zenon DEF CreateAdd, Due, Idle
<1>6. CASE CancelRemove
  <2>1. CASE thread.id \in queue
    <3>1. queue' \subseteq Ids
      BY <1>0, <1>6, <2>1, Zenon DEF CancelRemove, Remove, TTyped
    <3> QED BY <1>0, <1>6, <2>1, <3>1, ArmedByUpdate, Zenon DEF CancelRemove, Remove, Due, Idle
  <2>2. CASE thread.id \notin queue
    BY <1>6, <2>2, ArmedKept, Zenon DEF CancelRemove, Due, Idle
  <2> QED BY <2>1, <2>2, Zenon
<1>7. CASE CancelInvoke
  <2>1. \A j \in Ids : event'[j].time = event[j].time
    BY <1>0, <1>7, InvokeTimes, Zenon DEF CancelInvoke
  <2> QED BY <1>7, <1>q, <2>1, ArmedKept, Zenon DEF CancelInvoke, Due, Idle
<1>8. CASE TimerInt
  BY <1>8, ArmedKept, Zenon DEF TimerInt, Due, Doing
<1>9. CASE HandlePeek
  <2>1. UNCHANGED <<tick, timecmp, event, queue, dropped>>
    BY <1>9, Zenon DEF HandlePeek
  <2>2. CASE Outdated
    <3>1. irq' = Doing("timeout", Peek(queue))
      BY <1>9, <2>2, Zenon DEF HandlePeek
    <3>2. /\ Peek(queue) \in queue /\ event[Peek(queue)].time <= GetTime
          /\ \A j \in queue : Peek(queue) = j \/ Earlier(Peek(queue), j)
      BY <1>0, <2>2, PeekFirst, Zenon DEF Outdated
    <3>5. event[Peek(queue)].time <= Elapsed
      BY <1>t, <1>q, <3>2
    <3>3. irq'.at = "timeout" /\ irq'.id = Peek(queue)
      BY <3>1, Zenon DEF Doing
    <3>4. Due'
      BY <1>q, <2>1, <3>2, <3>3, <3>5, Zenon DEF Due, Earlier, Elapsed
    <3> QED BY <2>1, <3>4, ArmedKept, Zenon
  <2>3. CASE ~ Outdated
    BY <1>9, <2>1, <2>3, ArmedKept, Zenon DEF HandlePeek, Due, Doing
  <2> QED BY <2>2, <2>3, Zenon
<1>10. CASE HandleRemove
  <2>1. UNCHANGED <<tick, event>> /\ irq.at = "timeout"
    BY <1>10, Zenon DEF HandleRemove
  <2>2. CASE irq.id \in queue
    <3>1. queue' \subseteq Ids
      BY <1>0, <1>10, <2>2, Zenon DEF HandleRemove, Remove, TTyped
    <3>2. Armed'
      BY <1>0, <1>10, <2>1, <2>2, <3>1, ArmedByUpdate, Zenon DEF HandleRemove, Remove
    <3>3. irq'.at = "invoke" /\ irq'.id = irq.id
      BY <1>10, <2>2, SMTT(30) DEF HandleRemove, Doing
    <3> QED BY <2>1, <3>2, <3>3, Zenon DEF Due, Elapsed
  <2>3. CASE irq.id \notin queue
    BY <1>10, <2>1, <2>3, ArmedKept, SMTT(30), Zenon DEF HandleRemove, Due, Doing
  <2> QED BY <2>2, <2>3, Zenon
<1>11. CASE HandleInvoke
  <2>1. \A j \in Ids : event'[j].time = event[j].time
    BY <1>0, <1>11, InvokeTimes, Zenon DEF HandleInvoke
  <2> QED BY <1>11, <1>q, <2>1, ArmedKept, Zenon DEF HandleInvoke, Due, Doing
<1>12. CASE HandleCheck
  <2>1. Due'
    BY <1>12, Zenon DEF HandleCheck, Due, Idle
  <2>2. Armed'
    BY <1>12, Zenon DEF HandleCheck, Armed
  <2> QED BY <2>1, <2>2, Zenon
<1>13. CASE CountLock \/ CountUnlock
  <2>1. UNCHANGED <<tick, timecmp, event, queue, irq, dropped>> /\ irq = Idle
    BY <1>13, Zenon DEF CountLock, CountUnlock
  <2> QED BY <2>1, ArmedKept, Zenon DEF Due, Idle
<1>14. CASE HandleCount
  BY <1>14, ArmedKept, Zenon DEF HandleCount, Due, Doing
<1>15. ASSUME NEW i \in Ids, NEW d \in Delays, HandleInvokeCreate(i, d) PROVE Due' /\ Armed'
  <2>1. /\ irq' = Doing("peek", 0) /\ queue' = queue \cup {i} /\ UNCHANGED tick
        /\ UpdateTimer(queue', event')
    BY <1>15, Zenon DEF HandleInvokeCreate
  <2>2. event' \in [Ids -> Event]
    BY NextTIInv, Zenon DEF TIInv, TTyped
  <2>3. Armed'
    BY <1>0, <2>1, <2>2, ArmedBySet, Zenon DEF TTyped
  <2> QED BY <2>1, <2>3, Zenon DEF Due, Doing
<1> QED
  BY <1>1, <1>2, <1>3, <1>4, <1>5, <1>6, <1>7, <1>8, <1>9, <1>10, <1>11, <1>12, <1>13, <1>14,
     <1>15, Zenon DEF TNext, Thread, Handler

LEMMA DueInvariant == TSpec => [](TTyped /\ Due /\ Armed)
<1>1. TInit => Due /\ Armed
  BY WordAssumption DEF TInit, Due, Armed, Idle
<1>2. TIInv /\ Due /\ Armed /\ [TNext]_tvars => Due' /\ Armed'
  BY NextDue, Zenon
<1>3. TIInv => TTyped
  BY Zenon DEF TIInv
<1> QED BY <1>1, <1>2, <1>3, TInvariant, PTL DEF TSpec

\* No event times out before its time, nor before one that is earlier, though
\* set_timer truncates and get_time wraps (peek_outdated, timer_int::handle).
THEOREM OnTimeInOrder == TSpec => []DueInOrder
<1>1. Due => DueInOrder
  BY Zenon DEF Due, DueInOrder
<1> QED BY <1>1, DueInvariant, PTL

\* The timer follows the head of the queue, and is off when it is empty,
\* unless the handler has switched it off over a scheduled event
\* (update_timer, and the end of timer_int::handle).
THEOREM TimerFollowsQueue == TSpec => []TimerArmed
<1>1. TTyped /\ Due /\ Armed => TimerArmed
  <2> SUFFICES ASSUME TTyped, Due, Armed, ~ dropped
               PROVE  IF queue = {} THEN ~ TimerPending
                      ELSE timecmp = SetTimer(event[Peek(queue)].time)
    BY Zenon DEF TimerArmed
  <2>1. CASE queue = {}
    <3>1. timecmp = WORD - 1
      BY <2>1, MaxIsLast, Zenon DEF Armed
    <3>2. tick \in Nat /\ tick <= MaxTick /\ MaxTick \in 0 .. WORD - 2 /\ WORD \in Nat
      BY WordAssumption, Zenon DEF TTyped, Due
    <3> QED BY <2>1, <3>1, <3>2 DEF TimerPending
  <2>2. CASE queue # {}
    <3> DEFINE p == Peek(queue)
    <3>1. p \in queue /\ \A j \in queue : p = j \/ Earlier(p, j)
      BY <2>2, PeekFirst, Zenon
    <3>2. \A j \in queue : event[j].time \in Nat
      BY Zenon DEF TTyped, Event
    <3> HIDE DEF p
    <3>3. \A j \in queue : event[p].time <= event[j].time
      BY <3>1, <3>2 DEF Earlier
    <3>4. timecmp = SetTimer(event[p].time)
      BY <3>1, <3>3, Zenon DEF Armed
    <3> QED BY <2>2, <3>4, Zenon DEF p
  <2> QED BY <2>1, <2>2, Zenon
<1> QED BY <1>1, DueInvariant, PTL

-----------------------------------------------------------------------------
(* NetBuf: the lists and the queues. *)

LEMMA ListsSet ==
  ASSUME NEW q, NEW R, Lists(q, R)
  PROVE  Range(q) = R
BY DEF Lists, Range


\* pop of the last one.
LEMMA ListsFront ==
  ASSUME NEW S, NEW s \in Seq(S), s # <<>>, NEW R, Lists(s, R)
  PROVE  /\ s[Len(s)] \in R /\ s[Len(s)] \in S
         /\ SubSeq(s, 1, Len(s) - 1) \in Seq(S)
         /\ Lists(SubSeq(s, 1, Len(s) - 1), R \ {s[Len(s)]})
<1> DEFINE N == Len(s)
           t == SubSeq(s, 1, N - 1)
<1>1. N \in Nat \ {0} /\ DOMAIN s = 1 .. N /\ N \in DOMAIN s
  OBVIOUS
<1>2. t \in Seq(S) /\ Len(t) = N - 1 /\ DOMAIN t = 1 .. N - 1 /\ \A i \in 1 .. N - 1 : t[i] = s[i]
  BY <1>1
<1> HIDE DEF t, N
<1>3. \A i \in 1 .. N - 1 : i \in DOMAIN s /\ i # N
  BY <1>1
<1>4. \A i \in DOMAIN s : i # N => i \in 1 .. N - 1
  BY <1>1
<1>5. \A i \in DOMAIN t : t[i] \in R \ {s[N]}
  BY <1>1, <1>2, <1>3, Zenon DEF Lists
<1>6. \A i, j \in DOMAIN t : t[i] = t[j] => i = j
  BY <1>2, <1>3, Zenon DEF Lists
<1>7. \A x \in R \ {s[N]} : \E i \in DOMAIN t : t[i] = x
  BY <1>2, <1>4, Zenon DEF Lists
<1>8. Lists(t, R \ {s[N]})
  BY <1>5, <1>6, <1>7, Zenon DEF Lists
<1>9. s[N] \in R /\ s[N] \in S
  BY <1>1 DEF Lists
<1> QED BY <1>2, <1>8, <1>9, Zenon DEF t, N

\* f lends the buffers R, each under one token.
Lends(f, R) ==
  /\ R \in SUBSET Bufs
  /\ f \in [Tokens -> R \cup {NoBuf}]
  /\ \A t, u \in Tokens : f[t] = f[u] /\ f[t] # NoBuf => t = u
  /\ \A b \in R : \E t \in Tokens : f[t] = b

\* The queue holds what the driver has lent it; the used ones are among them.
Queue(q, f, R) ==
  /\ q = [desc |-> f, used |-> q.used]
  /\ Lends(f, R)
  /\ q.used \in Seq(Tokens) /\ Lists(q.used, Range(q.used))
  /\ \A t \in Range(q.used) : t \in Tokens /\ f[t] # NoBuf

LEMMA NoBufNotBuf == NoBuf \notin Bufs
BY QSAssumption, NoBufAssumption DEF Bufs

LEMMA LendsAdd ==
  ASSUME NEW f, NEW R, Lends(f, R), NEW t \in Tokens, f[t] = NoBuf, NEW b \in Bufs, b \notin R
  PROVE  Lends([f EXCEPT ![t] = b], R \cup {b})
<1> DEFINE g == [f EXCEPT ![t] = b]
<1>1. g \in [Tokens -> R \cup {b} \cup {NoBuf}] /\ g[t] = b /\ \A u \in Tokens : u # t => g[u] = f[u]
  BY Zenon DEF Lends
<1> HIDE DEF g
<1>2. \A u \in Tokens : f[u] \in R \cup {NoBuf}
  BY Zenon DEF Lends
<1>3. \A c \in R : \E u \in Tokens : u # t /\ f[u] = c
  BY NoBufNotBuf, Zenon DEF Lends
<1>4. \A u, w \in Tokens : g[u] = g[w] /\ g[u] # NoBuf => u = w
  BY <1>1, <1>2, NoBufNotBuf, SMTT(30) DEF Lends
<1> QED BY <1>1, <1>3, <1>4, Zenon DEF Lends, g

LEMMA LendsTaken ==
  ASSUME NEW f, NEW R, Lends(f, R), NEW U \in SUBSET {t \in Tokens : f[t] # NoBuf},
         NEW g, g = [t \in Tokens |-> IF t \in U THEN NoBuf ELSE f[t]]
  PROVE  Lends(g, R \ {f[t] : t \in U}) /\ {f[t] : t \in U} \subseteq R
<1> DEFINE Q == {f[t] : t \in U}
<1>0. /\ R \in SUBSET Bufs /\ \A t \in Tokens : f[t] \in R \cup {NoBuf}
      /\ \A t, u \in Tokens : f[t] = f[u] /\ f[t] # NoBuf => t = u
      /\ \A b \in R : \E t \in Tokens : f[t] = b
  BY Zenon DEF Lends
<1>1. Q \subseteq R /\ \A t \in Tokens : f[t] # NoBuf => (f[t] \in Q <=> t \in U)
  BY <1>0, Zenon
<1> HIDE DEF Q
<1>2. \A t \in Tokens : g[t] \in (R \ Q) \cup {NoBuf}
  BY <1>0, <1>1, Zenon
<1>3. \A t, u \in Tokens : g[t] = g[u] /\ g[t] # NoBuf => t = u
  BY <1>0, Zenon
<1>4. \A b \in R \ Q : \E t \in Tokens : g[t] = b
  BY <1>0, <1>1, NoBufNotBuf, Zenon
<1> QED BY <1>0, <1>1, <1>2, <1>3, <1>4, Zenon DEF Lends, Q

LEMMA QueueFree ==
  ASSUME NEW q, NEW f, NEW R, Queue(q, f, R)
  PROVE  FreeDesc(q) = {t \in Tokens : f[t] = NoBuf} /\ q.desc = f
<1>1. q.desc = f
  BY DEF Queue
<1> QED BY <1>1, Zenon DEF FreeDesc

\* The card uses a descriptor.
LEMMA QueueUse ==
  ASSUME NEW q, NEW f, NEW R, Queue(q, f, R), NEW t \in Posted(q)
  PROVE  Queue(Use(q, t), f, R) /\ FreeDesc(Use(q, t)) = FreeDesc(q)
<1> DEFINE s == q.used
<1>0. /\ q = [desc |-> f, used |-> s] /\ s \in Seq(Tokens) /\ Lists(s, Range(s)) /\ Lends(f, R)
      /\ \A u \in Range(s) : u \in Tokens /\ f[u] # NoBuf
  BY Zenon DEF Queue
<1>1. q.desc = f
  BY <1>0
<1>2. t \in Tokens /\ f[t] # NoBuf /\ t \notin Range(s)
  BY <1>1, Zenon DEF Posted
<1> HIDE DEF s
<1>3. Use(q, t) = [desc |-> f, used |-> Append(s, t)]
  BY <1>0, SMTT(30) DEF Use
<1>4. Append(s, t) \in Seq(Tokens) /\ Lists(Append(s, t), Range(s) \cup {t})
  BY <1>0, <1>2, ListsAppend
<1>5. Range(Append(s, t)) = Range(s) \cup {t}
  BY <1>4, ListsSet, SMTT(30), Zenon
<1> DEFINE r == Append(s, t)
<1> HIDE DEF r
<1>6. Use(q, t) = [desc |-> f, used |-> r] /\ r \in Seq(Tokens) /\ Lists(r, Range(r)) /\ Range(r) = Range(s) \cup {t}
  BY <1>3, <1>4, <1>5, Zenon DEF r
<1>7. Use(q, t).used = r /\ Use(q, t).desc = f
  BY <1>6
<1>8. Queue(Use(q, t), f, R)
  BY <1>0, <1>2, <1>6, <1>7, Zenon DEF Queue
<1> QED BY <1>1, <1>7, <1>8, Zenon DEF FreeDesc

\* The driver adds a buffer.
LEMMA QueueAdd ==
  ASSUME NEW q, NEW f, NEW R, Queue(q, f, R), NEW t \in FreeDesc(q), NEW b \in Bufs, b \notin R
  PROVE  /\ Queue(Add(q, t, b), [f EXCEPT ![t] = b], R \cup {b})
         /\ FreeDesc(Add(q, t, b)) = FreeDesc(q) \ {t} /\ f[t] = NoBuf /\ t \in Tokens
<1> DEFINE s == q.used
           g == [f EXCEPT ![t] = b]
<1>0. /\ q = [desc |-> f, used |-> s] /\ s \in Seq(Tokens) /\ Lists(s, Range(s)) /\ Lends(f, R)
      /\ \A u \in Range(s) : u \in Tokens /\ f[u] # NoBuf
  BY Zenon DEF Queue
<1>1. q.desc = f
  BY <1>0
<1>2. t \in Tokens /\ f[t] = NoBuf
  BY <1>1, Zenon DEF FreeDesc
<1>3. Lends(g, R \cup {b})
  BY <1>0, <1>2, LendsAdd, Zenon
<1>4. Add(q, t, b) = [desc |-> g, used |-> s]
  <2> HIDE DEF s
  <2> QED BY <1>0 DEF Add
<1>5. g[t] = b /\ \A u \in Tokens : u # t => g[u] = f[u]
  BY <1>0, <1>2, Zenon DEF Lends
<1> HIDE DEF s, g
<1>6. Add(q, t, b).used = s /\ Add(q, t, b).desc = g
  BY <1>4, SMTT(30)
<1>7. Queue(Add(q, t, b), g, R \cup {b})
  BY <1>0, <1>2, <1>3, <1>4, <1>5, <1>6, Zenon DEF Queue
<1>8. FreeDesc(Add(q, t, b)) = FreeDesc(q) \ {t}
  BY <1>1, <1>2, <1>5, <1>6, NoBufNotBuf, SMTT(30), Zenon DEF FreeDesc
<1> QED BY <1>2, <1>7, <1>8, Zenon DEF g

\* The driver takes the oldest buffer the card has used.
LEMMA QueueComplete ==
  ASSUME NEW q, NEW f, NEW R, Queue(q, f, R), q.used # <<>>, NEW t, t = Head(q.used)
  PROVE  /\ t \in Tokens /\ f[t] \in R /\ f[t] \in Bufs
         /\ Queue(Complete(q), [f EXCEPT ![t] = NoBuf], R \ {f[t]})
         /\ FreeDesc(Complete(q)) = FreeDesc(q) \cup {t}
<1> DEFINE s == q.used
           g == [f EXCEPT ![t] = NoBuf]
           r == Tail(s)
<1>0. /\ q = [desc |-> f, used |-> s] /\ s \in Seq(Tokens) /\ Lists(s, Range(s)) /\ Lends(f, R)
      /\ \A u \in Range(s) : u \in Tokens /\ f[u] # NoBuf
  BY Zenon DEF Queue
<1>1. q.desc = f
  BY <1>0
<1>2. t \in Range(s) /\ Lists(r, Range(s) \ {t}) /\ r \in Seq(Tokens)
  BY <1>0, ListsTail, TailFacts, Zenon
<1>3. t \in Tokens /\ f[t] # NoBuf /\ f \in [Tokens -> R \cup {NoBuf}] /\ R \in SUBSET Bufs
  BY <1>0, <1>2, Zenon DEF Lends
<1>4. g = [u \in Tokens |-> IF u \in {t} THEN NoBuf ELSE f[u]]
  BY <1>3, Zenon
<1>5. Lends(g, R \ {f[t]})
  <2>1. {t} \in SUBSET {u \in Tokens : f[u] # NoBuf}
    BY <1>3, Zenon
  <2>2. Lends(g, R \ {f[u] : u \in {t}})
    <3> HIDE DEF g
    <3> QED BY <1>0, <1>4, <2>1, LendsTaken, Zenon
  <2>3. {f[u] : u \in {t}} = {f[t]}
    BY Zenon
  <2> QED BY <2>2, <2>3, Zenon
<1>6. Complete(q) = [desc |-> g, used |-> r]
  BY <1>1, Zenon DEF Complete
<1>7. Range(r) = Range(s) \ {t}
  BY <1>2, ListsSet, Zenon
<1>8. g[t] = NoBuf /\ \A u \in Tokens : u # t => g[u] = f[u]
  BY <1>3, Zenon
<1> HIDE DEF s, g, r
<1>9. Complete(q).used = r /\ Complete(q).desc = g
  BY <1>6
<1>10. Queue(Complete(q), g, R \ {f[t]})
  BY <1>0, <1>2, <1>5, <1>6, <1>7, <1>8, <1>9, Zenon DEF Queue
<1>11. FreeDesc(Complete(q)) = FreeDesc(q) \cup {t}
  BY <1>1, <1>3, <1>8, <1>9, Zenon DEF FreeDesc
<1>12. f[t] \in R /\ f[t] \in Bufs
  BY <1>3, Zenon
<1> QED BY <1>3, <1>10, <1>11, <1>12, Zenon DEF g

\* recycle_tx_buffers: what the card has sent is ready to be filled again.
LEMMA Recycling ==
  ASSUME NEW T, Queue(txq, tx_buffers, T), free_tx_bufs \in Seq(Bufs),
         NEW F, Lists(free_tx_bufs, F), F \cap T = {}
  PROVE  \E U \in SUBSET T :
           /\ Queue(RecycledQ, RecycledTx, T \ U)
           /\ Recycled(free_tx_bufs) \in Seq(Bufs) /\ Lists(Recycled(free_tx_bufs), F \cup U)
<1> DEFINE s == txq.used
           f == tx_buffers
           U == {f[t] : t \in Range(s)}
           r == [k \in DOMAIN s |-> f[s[k]]]
<1>0. /\ txq = [desc |-> f, used |-> s] /\ s \in Seq(Tokens) /\ Lists(s, Range(s)) /\ Lends(f, T)
      /\ \A u \in Range(s) : u \in Tokens /\ f[u] # NoBuf
  BY Zenon DEF Queue
<1>1. txq.desc = f
  BY <1>0
<1>2. Range(s) \in SUBSET {t \in Tokens : f[t] # NoBuf}
  BY <1>0, SMTT(30), Zenon
<1>3. Lends(RecycledTx, T \ U) /\ U \in SUBSET T
  <2>1. RecycledTx = [t \in Tokens |-> IF t \in Range(s) THEN NoBuf ELSE f[t]]
    BY Zenon DEF RecycledTx
  <2> HIDE DEF f, s
  <2>2. Lends(RecycledTx, T \ {f[t] : t \in Range(s)}) /\ {f[t] : t \in Range(s)} \subseteq T
    BY <1>0, <1>2, <2>1, LendsTaken, Zenon
  <2> QED BY <2>2, Zenon
<1>4. RecycledQ = [desc |-> RecycledTx, used |-> <<>>]
  BY <1>1, Zenon DEF RecycledQ, RecycledTx
<1>5. <<>> \in Seq(Tokens) /\ Lists(<<>>, {}) /\ Range(<<>>) = {}
  BY ListsEmpty, ListsSet
<1>6. RecycledQ.used = <<>>
  BY <1>4, Zenon
<1>7. Queue(RecycledQ, RecycledTx, T \ U)
  BY <1>3, <1>4, <1>5, <1>6, Zenon DEF Queue
<1>8. /\ \A k \in DOMAIN s : s[k] \in Range(s)
      /\ \A j, k \in DOMAIN s : s[j] = s[k] => j = k
      /\ \A x \in Range(s) : \E k \in DOMAIN s : s[k] = x
  BY <1>0, Zenon DEF Lists
<1>9. /\ T \in SUBSET Bufs /\ \A t, u \in Tokens : f[t] = f[u] /\ f[t] # NoBuf => t = u
  BY <1>0, Zenon DEF Lends
<1>10. Lists(r, U)
  <2>1. DOMAIN r = DOMAIN s /\ \A k \in DOMAIN s : r[k] = f[s[k]] /\ s[k] \in Range(s)
    BY <1>8, Zenon
  <2>2. \A k \in DOMAIN r : r[k] \in U
    BY <2>1, Zenon
  <2>3. ASSUME NEW x \in U PROVE \E k \in DOMAIN r : r[k] = x
    <3>1. PICK t \in Range(s) : x = f[t]
      BY Zenon
    <3>2. PICK k \in DOMAIN s : s[k] = t
      BY <1>8, <3>1, Zenon
    <3> QED BY <2>1, <3>1, <3>2, Zenon
  <2>4. \A j, k \in DOMAIN r : r[j] = r[k] => j = k
    <3> HIDE DEF r
    <3> QED BY <1>0, <1>8, <1>9, <2>1, SMTT(30)
  <2> HIDE DEF r, U
  <2> QED BY <2>2, <2>3, <2>4, Zenon DEF Lists
<1>11. r \in Seq(Bufs)
  <2>1. Len(s) \in Nat /\ DOMAIN s = 1 .. Len(s)
    BY <1>0, SMTT(30)
  <2>2. \A k \in DOMAIN s : f[s[k]] \in Bufs
    BY <1>3, <1>8, <1>9, SMTT(30)
  <2>3. r \in [1 .. Len(s) -> Bufs]
    BY <2>1, <2>2, Zenon
  <2> QED BY <2>1, <2>3
<1>12. Recycled(free_tx_bufs) = free_tx_bufs \o r
  BY Zenon DEF Recycled
<1>13. F \cap U = {}
  BY <1>3, Zenon
<1> HIDE DEF r, U
<1>14. Lists(free_tx_bufs \o r, F \cup U) /\ free_tx_bufs \o r \in Seq(Bufs)
  BY <1>10, <1>11, <1>13, ListsConcat, SMTT(30)
<1> QED BY <1>3, <1>7, <1>12, <1>14, Zenon

-----------------------------------------------------------------------------
(* NetBuf: every buffer is in one place. *)

\* What the poll holds at each place.
PollHolds ==
  /\ poll \in [at : {"idle", "received", "token", "filled", "replied"}, rx : Bufs \cup {NoBuf}, tx : Bufs \cup {NoBuf}]
  /\ poll.at \in {"idle", "token"} => poll.rx = NoBuf /\ poll.tx = NoBuf
  /\ poll.at \in {"received", "replied"} => poll.rx # NoBuf /\ poll.tx = NoBuf
  /\ poll.at = "filled" => poll.tx # NoBuf

\* The buffers are shared out among the two queues, the list and the poll.
Shared(R, T, F, x, y) ==
  /\ R \cap T = {} /\ R \cap F = {} /\ T \cap F = {}
  /\ x \notin R \cup T \cup F /\ y \notin R \cup T \cup F
  /\ x = y => x = NoBuf
  /\ Bufs \subseteq R \cup T \cup F \cup {x, y}

Placed(R, T, F) ==
  /\ Queue(rxq, rx_buffers, R) /\ Queue(txq, tx_buffers, T)
  /\ free_tx_bufs \in Seq(Bufs) /\ Lists(free_tx_bufs, F)
  /\ Shared(R, T, F, poll.rx, poll.tx)

\* What the check of can_transmit has seen and nobody has taken away.
Ready ==
  /\ poll.at \in {"received", "token"} => free_tx_bufs # <<>>
  /\ poll.at \in {"received", "token", "filled"} => FreeDesc(txq) # {}

\* The receive queue is full but for the packet in hand.
RxFull ==
  IF poll.rx = NoBuf THEN FreeDesc(rxq) = {} ELSE \E t \in Tokens : FreeDesc(rxq) = {t}

NInv ==
  /\ error = "none" /\ free_list = <<>> /\ PollHolds /\ Ready /\ RxFull
  /\ \E R, T, F : Placed(R, T, F)

LEMMA PlacedFacts ==
  ASSUME NEW R, NEW T, NEW F, Placed(R, T, F)
  PROVE  R \in SUBSET Bufs /\ T \in SUBSET Bufs /\ F \in SUBSET Bufs
<1>1. ASSUME NEW x \in F PROVE x \in Bufs
  <2>1. PICK k \in DOMAIN free_tx_bufs : free_tx_bufs[k] = x
    BY Zenon DEF Placed, Lists
  <2> QED BY <2>1 DEF Placed
<1> QED BY <1>1, Zenon DEF Placed, Queue, Lends

\* A buffer in hand is given to a queue: each buffer is still in one place.
LEMMA SharedGiven ==
  ASSUME NEW R \in SUBSET Bufs, NEW T \in SUBSET Bufs, NEW F \in SUBSET Bufs, NEW x, NEW b \in Bufs
  PROVE  /\ Shared(R, T, F, x, b) => Shared(R, T \cup {b}, F, x, NoBuf)
         /\ Shared(R, T, F, b, NoBuf) => Shared(R \cup {b}, T, F, NoBuf, NoBuf)
<1>1. NoBuf \notin R \cup T \cup F \cup {b}
  BY NoBufNotBuf, Zenon
<1> QED BY <1>1, Zenon DEF Shared

LEMMA CardNInv ==
  ASSUME NInv, NEW t \in Tokens, CardReceives(t) \/ CardSends(t)
  PROVE  NInv'
<1>1. PICK R, T, F : Placed(R, T, F)
  BY Zenon DEF NInv
<1>2. CASE CardReceives(t)
  <2>1. t \in Posted(rxq) /\ rxq' = Use(rxq, t) /\ UNCHANGED <<free_list, rx_buffers, tx_buffers, free_tx_bufs, txq, poll, error>>
    BY <1>2, Zenon DEF CardReceives
  <2>2. Queue(rxq', rx_buffers, R) /\ FreeDesc(rxq)' = FreeDesc(rxq)
    BY <1>1, <2>1, QueueUse, Zenon DEF Placed
  <2>3. Placed(R, T, F)'
    BY <1>1, <2>1, <2>2, Zenon DEF Placed
  <2>4. PollHolds' /\ Ready' /\ RxFull'
    BY <2>1, <2>2, Zenon DEF NInv, PollHolds, Ready, RxFull, FreeDesc
  <2> QED BY <2>1, <2>3, <2>4, Zenon DEF NInv
<1>3. CASE CardSends(t)
  <2>1. t \in Posted(txq) /\ txq' = Use(txq, t) /\ UNCHANGED <<free_list, rx_buffers, tx_buffers, free_tx_bufs, rxq, poll, error>>
    BY <1>3, Zenon DEF CardSends
  <2>2. Queue(txq', tx_buffers, T) /\ FreeDesc(txq)' = FreeDesc(txq)
    BY <1>1, <2>1, QueueUse, Zenon DEF Placed
  <2>3. Placed(R, T, F)'
    BY <1>1, <2>1, <2>2, Zenon DEF Placed
  <2>4. PollHolds' /\ Ready' /\ RxFull'
    BY <2>1, <2>2, Zenon DEF NInv, PollHolds, Ready, RxFull, FreeDesc
  <2> QED BY <2>1, <2>3, <2>4, Zenon DEF NInv
<1> QED BY <1>2, <1>3, Zenon

\* Two free descriptors are more than none.
LEMMA TransmitReady ==
  ASSUME NEW s, NEW q, CanTransmit(s, q)
  PROVE  s # <<>> /\ FreeDesc(q) # {}
<1>1. Cardinality(FreeDesc(q)) >= 2 /\ s # <<>>
  BY Zenon DEF CanTransmit
<1>2. ASSUME FreeDesc(q) = {} PROVE FALSE
  <2>1. Cardinality(FreeDesc(q)) = 0
    BY <1>2, FS_EmptySet, Zenon
  <2> QED BY <1>1, <2>1
<1> QED BY <1>1, <1>2, Zenon

\* A poll begins: what was sent is collected first.
LEMMA BeginNInv ==
  ASSUME NInv, Receive \/ Transmit
  PROVE  NInv'
<1>0. /\ poll = Resting /\ RecycleTx /\ UNCHANGED <<free_list, error>>
      /\ poll.at = "idle" /\ poll.rx = NoBuf /\ poll.tx = NoBuf
  BY DEF Receive, Transmit, Resting
<1>1. PICK R, T, F : Placed(R, T, F)
  BY Zenon DEF NInv
<1>2. /\ Queue(rxq, rx_buffers, R) /\ Queue(txq, tx_buffers, T)
      /\ free_tx_bufs \in Seq(Bufs) /\ Lists(free_tx_bufs, F) /\ F \cap T = {}
      /\ Shared(R, T, F, NoBuf, NoBuf)
  BY <1>0, <1>1, Zenon DEF Placed, Shared
<1>3. PICK U \in SUBSET T :
           /\ Queue(RecycledQ, RecycledTx, T \ U)
           /\ Recycled(free_tx_bufs) \in Seq(Bufs) /\ Lists(Recycled(free_tx_bufs), F \cup U)
  BY <1>2, Recycling, Zenon
<1>4. /\ Queue(txq', tx_buffers', T \ U)
      /\ free_tx_bufs' \in Seq(Bufs) /\ Lists(free_tx_bufs', F \cup U)
      /\ txq' = RecycledQ /\ free_tx_bufs' = Recycled(free_tx_bufs)
  BY <1>0, <1>3, Zenon DEF RecycleTx
<1>5. Shared(R, T \ U, F \cup U, NoBuf, NoBuf)
  BY <1>2, Zenon DEF Shared
<1>6. CASE /\ CanTransmit(Recycled(free_tx_bufs), RecycledQ) /\ rxq.used # <<>>
           /\ \E t : /\ t = Head(rxq.used)
                     /\ poll' = [at |-> "received", rx |-> rx_buffers[t], tx |-> NoBuf]
                     /\ rx_buffers' = [rx_buffers EXCEPT ![t] = NoBuf]
                     /\ rxq' = Complete(rxq)
  <2>1. PICK t : /\ t = Head(rxq.used)
                 /\ poll' = [at |-> "received", rx |-> rx_buffers[t], tx |-> NoBuf]
                 /\ rx_buffers' = [rx_buffers EXCEPT ![t] = NoBuf]
                 /\ rxq' = Complete(rxq)
    BY <1>6, Zenon
  <2>b. PICK b : b = rx_buffers[t]
    BY Zenon
  <2>2. /\ t \in Tokens /\ b \in R /\ b \in Bufs
        /\ Queue(Complete(rxq), [rx_buffers EXCEPT ![t] = NoBuf], R \ {b})
        /\ FreeDesc(Complete(rxq)) = FreeDesc(rxq) \cup {t}
    BY <1>2, <1>6, <2>1, <2>b, QueueComplete, Zenon
  <2>3. poll'.at = "received" /\ poll'.rx = b /\ poll'.tx = NoBuf /\ PollHolds'
    BY <2>1, <2>2, <2>b, NoBufNotBuf, Zenon DEF PollHolds
  <2>4. Shared(R \ {b}, T \ U, F \cup U, b, NoBuf)
    BY <1>5, <2>2, NoBufNotBuf, Zenon DEF Shared
  <2>5. Placed(R \ {b}, T \ U, F \cup U)'
    BY <1>4, <2>1, <2>2, <2>3, <2>4, Zenon DEF Placed
  <2>6. Ready'
    BY <1>4, <1>6, TransmitReady, Zenon DEF Ready
  <2>7. RxFull'
    <3>1. FreeDesc(rxq) = {}
      BY <1>0, Zenon DEF NInv, RxFull
    <3>2. FreeDesc(rxq)' = {t}
      BY <2>1, <2>2, <3>1, Zenon
    <3> QED BY <2>2, <2>3, <3>2, NoBufNotBuf, Zenon DEF RxFull
  <2> QED BY <1>0, <2>3, <2>5, <2>6, <2>7, Zenon DEF NInv
<1>7. CASE /\ UNCHANGED <<rx_buffers, rxq>>
           /\ \/ UNCHANGED poll
              \/ CanTransmit(Recycled(free_tx_bufs), RecycledQ) /\ poll' = [poll EXCEPT !.at = "token"]
  <2>1. PollHolds' /\ poll'.rx = NoBuf /\ poll'.tx = NoBuf
        /\ (poll'.at = "idle" \/ (poll'.at = "token" /\ CanTransmit(Recycled(free_tx_bufs), RecycledQ)))
    <3>1. CASE UNCHANGED poll
      BY <1>0, <3>1, Zenon DEF NInv, PollHolds
    <3>2. CASE CanTransmit(Recycled(free_tx_bufs), RecycledQ) /\ poll' = [poll EXCEPT !.at = "token"]
      <4>1. poll' = [at |-> "token", rx |-> NoBuf, tx |-> NoBuf]
        BY <1>0, <3>2, Zenon DEF Resting
      <4>2. poll'.at = "token" /\ poll'.rx = NoBuf /\ poll'.tx = NoBuf
        BY <4>1, Zenon
      <4> QED BY <3>2, <4>1, <4>2, Zenon DEF PollHolds
    <3> QED BY <1>7, <3>1, <3>2, Zenon
  <2>2. Placed(R, T \ U, F \cup U)'
    BY <1>2, <1>4, <1>5, <1>7, <2>1, SMTT(30), Zenon DEF Placed
  <2>3. Ready'
    BY <1>4, <2>1, TransmitReady, Zenon DEF Ready
  <2>4. RxFull'
    BY <1>0, <1>7, <2>1, Zenon DEF NInv, RxFull, FreeDesc
  <2> QED BY <1>0, <2>1, <2>2, <2>3, <2>4, Zenon DEF NInv
<1> QED BY <1>6, <1>7, Zenon DEF Receive, Transmit

LEMMA AllocNInv ==
  ASSUME NInv, NEW len \in Lengths, TxAlloc(len)
  PROVE  NInv'
<1>0. poll.at \in {"received", "token"} /\ free_tx_bufs # <<>> /\ FreeDesc(txq) # {} /\ poll.tx = NoBuf
  BY Zenon DEF TxAlloc, NInv, Ready, PollHolds
<1>1. ~ (HDR_LEN + len > NET_BUF_LEN)
  BY LengthsAssumption, FitsAssumption
<1>b. PICK b : b = free_tx_bufs[Len(free_tx_bufs)]
  BY Zenon
<1>2. /\ free_tx_bufs' = SubSeq(free_tx_bufs, 1, Len(free_tx_bufs) - 1)
      /\ poll' = [poll EXCEPT !.at = "filled", !.tx = b]
      /\ UNCHANGED <<free_list, error, rx_buffers, tx_buffers, rxq, txq>>
  BY <1>0, <1>1, <1>b, Zenon DEF TxAlloc
<1>3. PICK R, T, F : Placed(R, T, F)
  BY Zenon DEF NInv
<1>4. b \in F /\ b \in Bufs /\ free_tx_bufs' \in Seq(Bufs) /\ Lists(free_tx_bufs', F \ {b})
  BY <1>0, <1>2, <1>3, <1>b, ListsFront, Zenon DEF Placed
<1>5. /\ poll' \in [at : {"idle", "received", "token", "filled", "replied"}, rx : Bufs \cup {NoBuf}, tx : Bufs \cup {NoBuf}]
      /\ poll'.at = "filled" /\ poll'.rx = poll.rx /\ poll'.tx = b
  BY <1>2, <1>4, Zenon DEF NInv, PollHolds
<1>6. PollHolds' /\ Ready' /\ RxFull'
  BY <1>0, <1>2, <1>4, <1>5, NoBufNotBuf, Zenon DEF NInv, PollHolds, Ready, RxFull, FreeDesc
<1>7. Shared(R, T, F \ {b}, poll.rx, b)
  BY <1>0, <1>3, <1>4, NoBufNotBuf, Zenon DEF Placed, Shared
<1>8. Placed(R, T, F \ {b})'
  BY <1>2, <1>3, <1>4, <1>5, <1>7, Zenon DEF Placed
<1> QED BY <1>2, <1>6, <1>8, Zenon DEF NInv

LEMMA SendNInv ==
  ASSUME NInv, NEW t \in Tokens, TxSend(t)
  PROVE  NInv'
<1>b. PICK b : b = poll.tx
  BY Zenon
<1> DEFINE at == IF poll.rx = NoBuf THEN "idle" ELSE "replied"
<1>0. poll.at = "filled" /\ FreeDesc(txq) # {} /\ b \in Bufs
  BY <1>b, Zenon DEF TxSend, NInv, Ready, PollHolds
<1>1. /\ t \in FreeDesc(txq)
      /\ tx_buffers' = [tx_buffers EXCEPT ![t] = b]
      /\ txq' = Add(txq, t, b)
      /\ poll' = [poll EXCEPT !.at = at, !.tx = NoBuf]
      /\ UNCHANGED <<error, free_list, rx_buffers, free_tx_bufs, rxq>>
  BY <1>0, <1>b, Zenon DEF TxSend
<1>2. PICK R, T, F : Placed(R, T, F)
  BY Zenon DEF NInv
<1>3. b \notin T /\ Queue(txq', tx_buffers', T \cup {b})
  BY <1>0, <1>1, <1>2, <1>b, QueueAdd, Zenon DEF Placed, Shared
<1>4. at \in {"idle", "replied"} /\ (at = "idle" <=> poll.rx = NoBuf)
  BY Zenon
<1> HIDE DEF at
<1>5. /\ poll' \in [at : {"idle", "received", "token", "filled", "replied"}, rx : Bufs \cup {NoBuf}, tx : Bufs \cup {NoBuf}]
      /\ poll'.at = at /\ poll'.rx = poll.rx /\ poll'.tx = NoBuf
  BY <1>1, <1>4, Zenon DEF NInv, PollHolds
<1>6. PollHolds' /\ Ready' /\ RxFull'
  BY <1>1, <1>4, <1>5, Zenon DEF NInv, PollHolds, Ready, RxFull, FreeDesc
<1>7. Shared(R, T \cup {b}, F, poll.rx, NoBuf)
  <2>1. Shared(R, T, F, poll.rx, b)
    BY <1>2, <1>b, Zenon DEF Placed
  <2> QED BY <1>0, <1>2, <2>1, PlacedFacts, SharedGiven, Zenon
<1>8. Placed(R, T \cup {b}, F)'
  BY <1>1, <1>2, <1>3, <1>5, <1>7, Zenon DEF Placed
<1> QED BY <1>1, <1>6, <1>8, Zenon DEF NInv

LEMMA RecycleNInv ==
  ASSUME NInv, NEW t \in Tokens, RxRecycle(t)
  PROVE  NInv'
<1>b. PICK b : b = poll.rx
  BY Zenon
<1>0. poll.at \in {"received", "replied"} /\ t \in FreeDesc(rxq) /\ b \in Bufs /\ poll.tx = NoBuf /\ rxq' = Add(rxq, t, b)
  BY <1>b, Zenon DEF RxRecycle, NInv, PollHolds
<1>1. PICK R, T, F : Placed(R, T, F)
  BY Zenon DEF NInv
<1>2. /\ b \notin R /\ Queue(Add(rxq, t, b), [rx_buffers EXCEPT ![t] = b], R \cup {b})
      /\ FreeDesc(Add(rxq, t, b)) = FreeDesc(rxq) \ {t} /\ rx_buffers[t] = NoBuf
  <2>1. b \notin R /\ Queue(rxq, rx_buffers, R)
    BY <1>1, <1>b, Zenon DEF Placed, Shared
  <2> QED BY <1>0, <2>1, QueueAdd, SMTT(30), Zenon
<1>3. /\ rx_buffers' = [rx_buffers EXCEPT ![t] = b] /\ poll' = Resting
      /\ UNCHANGED <<error, free_list, tx_buffers, free_tx_bufs, txq>>
  BY <1>2, <1>b, Zenon DEF RxRecycle
<1>4. poll'.at = "idle" /\ poll'.rx = NoBuf /\ poll'.tx = NoBuf /\ PollHolds' /\ Ready'
  BY <1>3, Zenon DEF Resting, PollHolds, Ready
<1>5. RxFull'
  <2>1. FreeDesc(rxq) = {t}
    BY <1>0, <1>b, NoBufNotBuf, Zenon DEF NInv, RxFull
  <2>2. FreeDesc(rxq)' = {}
    BY <1>0, <1>2, <2>1, Zenon
  <2> QED BY <1>4, <2>2, Zenon DEF RxFull
<1>6. Shared(R \cup {b}, T, F, NoBuf, NoBuf)
  <2>1. Shared(R, T, F, b, NoBuf)
    BY <1>0, <1>1, <1>b, Zenon DEF Placed
  <2> QED BY <1>0, <1>1, <2>1, PlacedFacts, SharedGiven, Zenon
<1>7. Placed(R \cup {b}, T, F)'
  BY <1>0, <1>1, <1>2, <1>3, <1>4, <1>6, Zenon DEF Placed
<1> QED BY <1>3, <1>4, <1>5, <1>7, Zenon DEF NInv

LEMMA NextNInv == NInv /\ [NNext]_nvars => NInv'
<1> SUFFICES ASSUME NInv, [NNext]_nvars PROVE NInv'
  BY Zenon
<1>1. CASE TxDrop
  <2>1. poll.at = "token" /\ poll' = Resting /\ poll.rx = NoBuf /\ poll.tx = NoBuf
        /\ UNCHANGED <<free_list, rx_buffers, tx_buffers, free_tx_bufs, rxq, txq, error>>
    BY <1>1, Zenon DEF TxDrop, NInv, PollHolds
  <2>2. poll'.at = "idle" /\ poll'.rx = NoBuf /\ poll'.tx = NoBuf /\ PollHolds' /\ Ready'
    BY <2>1, Zenon DEF Resting, PollHolds, Ready
  <2>3. RxFull'
    BY <2>1, <2>2, Zenon DEF NInv, RxFull, FreeDesc
  <2>4. PICK R, T, F : Placed(R, T, F)
    BY Zenon DEF NInv
  <2>5. Placed(R, T, F)'
    BY <2>1, <2>2, <2>4, Zenon DEF Placed
  <2> QED BY <2>1, <2>2, <2>3, <2>5, Zenon DEF NInv
<1>2. CASE UNCHANGED nvars
  <2>1. PICK R, T, F : Placed(R, T, F)
    BY Zenon DEF NInv
  <2>2. Placed(R, T, F)'
    BY <1>2, <2>1, SMTT(30), Zenon DEF Placed, nvars
  <2>3. PollHolds' /\ Ready' /\ RxFull' /\ error' = "none" /\ free_list' = <<>>
    BY <1>2, Zenon DEF NInv, PollHolds, Ready, RxFull, FreeDesc, nvars
  <2> QED BY <2>2, <2>3, Zenon DEF NInv
<1> QED BY <1>1, <1>2, CardNInv, BeginNInv, AllocNInv, SendNInv, RecycleNInv, SMTT(30), Zenon DEF NNext, PollStep

LEMMA InitNInv == NInit => NInv
<1> SUFFICES ASSUME NInit PROVE NInv
  BY Zenon
<1> DEFINE R == 1 .. QS
           F == QS + 1 .. 2 * QS
<1>0. QS \in Nat \ {0} /\ R \in SUBSET Bufs /\ F \in SUBSET Bufs /\ R \cap F = {} /\ Bufs \subseteq R \cup F
  BY QSAssumption DEF Bufs
<1>1. \A t \in Tokens : t \in Int /\ t + 1 \in R
  BY <1>0 DEF Tokens
<1>2. \A b \in R : b - 1 \in Tokens /\ (b - 1) + 1 = b
  BY <1>0 DEF Tokens
<1>3. rx_buffers = [t \in Tokens |-> t + 1] /\ tx_buffers = [t \in Tokens |-> NoBuf]
  BY Zenon DEF NInit
<1>4. Lends(rx_buffers, R)
  <2>1. rx_buffers \in [Tokens -> R \cup {NoBuf}]
    BY <1>1, <1>3, Zenon
  <2>2. \A t, u \in Tokens : rx_buffers[t] = rx_buffers[u] => t = u
    BY <1>1, <1>3
  <2>3. \A b \in R : \E t \in Tokens : rx_buffers[t] = b
    BY <1>2, <1>3, Zenon
  <2> HIDE DEF R
  <2> QED BY <1>0, <2>1, <2>2, <2>3, Zenon DEF Lends
<1>5. Lends(tx_buffers, {})
  BY <1>3, Zenon DEF Lends
<1>6. <<>> \in Seq(Tokens) /\ Lists(<<>>, {}) /\ Range(<<>>) = {}
  BY ListsEmpty, ListsSet, SMTT(30)
<1>7. rxq = [desc |-> rx_buffers, used |-> <<>>] /\ txq = [desc |-> tx_buffers, used |-> <<>>]
  BY Zenon DEF NInit
<1>8. Queue(rxq, rx_buffers, R) /\ Queue(txq, tx_buffers, {})
  <2> HIDE DEF R
  <2>1. rxq.used = <<>> /\ txq.used = <<>>
    BY <1>7, Zenon
  <2> QED BY <1>4, <1>5, <1>6, <1>7, <2>1, Zenon DEF Queue
<1>9. free_tx_bufs \in Seq(Bufs) /\ Lists(free_tx_bufs, F)
  <2>1. \A k \in 1 .. QS : QS + k \in F
    BY <1>0
  <2>2. \A b \in F : b - QS \in 1 .. QS /\ QS + (b - QS) = b
    BY <1>0
  <2>3. free_tx_bufs = [k \in 1 .. QS |-> QS + k]
    BY Zenon DEF NInit
  <2>4. free_tx_bufs \in [1 .. QS -> Bufs] /\ DOMAIN free_tx_bufs = 1 .. QS
    BY <1>0, <2>1, <2>3, Zenon
  <2>5. free_tx_bufs \in Seq(Bufs)
    BY <1>0, <2>4
  <2>6. \A b \in F : \E k \in 1 .. QS : free_tx_bufs[k] = b
    BY <2>2, <2>3, Zenon
  <2>7. \A j, k \in 1 .. QS : free_tx_bufs[j] = free_tx_bufs[k] => j = k
    BY <1>0, <2>3
  <2>8. \A k \in 1 .. QS : free_tx_bufs[k] \in F
    BY <2>1, <2>3, Zenon
  <2> HIDE DEF F
  <2> QED BY <2>4, <2>5, <2>6, <2>7, <2>8, Zenon DEF Lists
<1>10. /\ poll = [at |-> "idle", rx |-> NoBuf, tx |-> NoBuf] /\ error = "none" /\ free_list = <<>>
  BY Zenon DEF NInit, Resting
<1>11. poll.at = "idle" /\ poll.rx = NoBuf /\ poll.tx = NoBuf /\ PollHolds /\ Ready
  BY <1>10, Zenon DEF PollHolds, Ready
<1>12. RxFull
  <2>1. FreeDesc(rxq) = {t \in Tokens : rx_buffers[t] = NoBuf}
    BY <1>8, QueueFree, Zenon
  <2>2. \A t \in Tokens : rx_buffers[t] # NoBuf
    BY <1>0, <1>1, <1>3, NoBufNotBuf, Zenon
  <2> QED BY <1>11, <2>1, <2>2, Zenon DEF RxFull
<1>13. Shared(R, {}, F, NoBuf, NoBuf)
  <2> HIDE DEF R, F
  <2> QED BY <1>0, NoBufNotBuf, Zenon DEF Shared
<1>14. Placed(R, {}, F)
  <2> HIDE DEF R, F
  <2> QED BY <1>8, <1>9, <1>11, <1>13, Zenon DEF Placed
<1> HIDE DEF R, F
<1> QED BY <1>10, <1>11, <1>12, <1>14, Zenon DEF NInv

LEMMA TimesOnce ==
  ASSUME NEW s, NEW R, Lists(s, R), NEW b
  PROVE  Times(s, b) = IF b \in R THEN 1 ELSE 0
<1> DEFINE K == {k \in DOMAIN s : s[k] = b}
<1>1. CASE b \in R
  <2>1. PICK k \in DOMAIN s : s[k] = b
    BY <1>1, Zenon DEF Lists
  <2>2. K = {k}
    BY <2>1, Zenon DEF Lists
  <2> HIDE DEF K
  <2>3. Cardinality(K) = 1
    BY <2>2, FS_Singleton, Zenon
  <2> QED BY <1>1, <2>3, Zenon DEF Times, K
<1>2. CASE b \notin R
  <2>1. K = {}
    BY <1>2 DEF Lists
  <2> HIDE DEF K
  <2>2. Cardinality(K) = 0
    BY <2>1, FS_EmptySet, Zenon
  <2> QED BY <1>2, <2>2, Zenon DEF Times, K
<1> QED BY <1>1, <1>2, Zenon

LEMMA LentOnce ==
  ASSUME NEW f, NEW R, Lends(f, R), NEW b \in Bufs
  PROVE  Cardinality(Lent(f, b)) = IF b \in R THEN 1 ELSE 0
<1>1. CASE b \in R
  <2>1. PICK t \in Tokens : f[t] = b
    BY <1>1, Zenon DEF Lends
  <2>2. Lent(f, b) = {t}
    BY <2>1, NoBufNotBuf, Zenon DEF Lends, Lent
  <2> QED BY <1>1, <2>2, FS_Singleton, Zenon
<1>2. CASE b \notin R
  <2>1. Lent(f, b) = {}
    BY <1>2, NoBufNotBuf, Zenon DEF Lends, Lent
  <2>2. Cardinality(Lent(f, b)) = 0
    BY <2>1, FS_EmptySet, Zenon
  <2> QED BY <1>2, <2>2, Zenon
<1> QED BY <1>1, <1>2, Zenon

\* However the card, the polls and the packets interleave, no buffer of the
\* driver is lost or lent twice, for every size of the queues.
THEOREM BuffersKept == NSpec => []BufsConserved
<1>1. NInv => BufsConserved
  <2> SUFFICES ASSUME NInv PROVE BufsConserved
    BY Zenon
  <2>1. PICK R, T, F : Placed(R, T, F)
    BY Zenon DEF NInv
  <2>2. R \in SUBSET Bufs /\ T \in SUBSET Bufs /\ F \in SUBSET Bufs /\ Shared(R, T, F, poll.rx, poll.tx)
    BY <2>1, PlacedFacts, Zenon DEF Placed
  <2>3. ASSUME NEW b \in Bufs
        PROVE  Times(free_list, b) + Cardinality(Lent(rx_buffers, b)) + Cardinality(Lent(tx_buffers, b))
                 + Times(free_tx_bufs, b) + (IF poll.rx = b THEN 1 ELSE 0) + (IF poll.tx = b THEN 1 ELSE 0) = 1
    <3>1. Times(free_list, b) = 0
      BY ListsEmpty, TimesOnce, SMTT(30) DEF NInv
    <3>2. Cardinality(Lent(rx_buffers, b)) = IF b \in R THEN 1 ELSE 0
      BY <2>1, LentOnce, Zenon DEF Placed, Queue
    <3>3. Cardinality(Lent(tx_buffers, b)) = IF b \in T THEN 1 ELSE 0
      BY <2>1, LentOnce, Zenon DEF Placed, Queue
    <3>4. Times(free_tx_bufs, b) = IF b \in F THEN 1 ELSE 0
      BY <2>1, TimesOnce, Zenon DEF Placed
    <3>5. /\ b \in R => b \notin T /\ b \notin F /\ poll.rx # b /\ poll.tx # b
          /\ b \in T => b \notin R /\ b \notin F /\ poll.rx # b /\ poll.tx # b
          /\ b \in F => b \notin R /\ b \notin T /\ poll.rx # b /\ poll.tx # b
          /\ poll.rx = b => poll.tx # b
          /\ b \in R \/ b \in T \/ b \in F \/ poll.rx = b \/ poll.tx = b
      BY <2>2, NoBufNotBuf, Zenon DEF Shared
    <3>6. CASE b \in R
      <4>1. /\ Cardinality(Lent(rx_buffers, b)) = 1 /\ Cardinality(Lent(tx_buffers, b)) = 0 /\ Times(free_tx_bufs, b) = 0
            /\ (IF poll.rx = b THEN 1 ELSE 0) = 0 /\ (IF poll.tx = b THEN 1 ELSE 0) = 0
        BY <3>2, <3>3, <3>4, <3>5, <3>6, Zenon
      <4> QED BY <3>1, <4>1
    <3>7. CASE b \in T
      <4>1. /\ Cardinality(Lent(rx_buffers, b)) = 0 /\ Cardinality(Lent(tx_buffers, b)) = 1 /\ Times(free_tx_bufs, b) = 0
            /\ (IF poll.rx = b THEN 1 ELSE 0) = 0 /\ (IF poll.tx = b THEN 1 ELSE 0) = 0
        BY <3>2, <3>3, <3>4, <3>5, <3>7, Zenon
      <4> QED BY <3>1, <4>1
    <3>8. CASE b \in F
      <4>1. /\ Cardinality(Lent(rx_buffers, b)) = 0 /\ Cardinality(Lent(tx_buffers, b)) = 0 /\ Times(free_tx_bufs, b) = 1
            /\ (IF poll.rx = b THEN 1 ELSE 0) = 0 /\ (IF poll.tx = b THEN 1 ELSE 0) = 0
        BY <3>2, <3>3, <3>4, <3>5, <3>8, Zenon
      <4> QED BY <3>1, <4>1
    <3>9. CASE poll.rx = b
      <4>1. /\ Cardinality(Lent(rx_buffers, b)) = 0 /\ Cardinality(Lent(tx_buffers, b)) = 0 /\ Times(free_tx_bufs, b) = 0
            /\ (IF poll.rx = b THEN 1 ELSE 0) = 1 /\ (IF poll.tx = b THEN 1 ELSE 0) = 0
        BY <3>2, <3>3, <3>4, <3>5, <3>9, Zenon
      <4> QED BY <3>1, <4>1
    <3>10. CASE poll.tx = b
      <4>1. /\ Cardinality(Lent(rx_buffers, b)) = 0 /\ Cardinality(Lent(tx_buffers, b)) = 0 /\ Times(free_tx_bufs, b) = 0
            /\ (IF poll.rx = b THEN 1 ELSE 0) = 0 /\ (IF poll.tx = b THEN 1 ELSE 0) = 1
        BY <3>2, <3>3, <3>4, <3>5, <3>10, Zenon
      <4> QED BY <3>1, <4>1
    <3> QED BY <3>5, <3>6, <3>7, <3>8, <3>9, <3>10, Zenon
  <2>4. rxq.desc = rx_buffers /\ txq.desc = tx_buffers
    BY <2>1, QueueFree, Zenon DEF Placed
  <2>5. Cardinality(FreeDesc(rxq)) = IF poll.rx = NoBuf THEN 0 ELSE 1
    <3>1. CASE poll.rx = NoBuf
      <4>1. FreeDesc(rxq) = {}
        BY <3>1, Zenon DEF NInv, RxFull
      <4>2. Cardinality(FreeDesc(rxq)) = 0
        BY <4>1, FS_EmptySet, Zenon
      <4> QED BY <3>1, <4>2, Zenon
    <3>2. CASE poll.rx # NoBuf
      <4>1. PICK t : FreeDesc(rxq) = {t}
        BY <3>2, Zenon DEF NInv, RxFull
      <4>2. Cardinality({t}) = 1
        BY FS_Singleton, Zenon
      <4>3. Cardinality(FreeDesc(rxq)) = 1
        BY <4>1, <4>2, Zenon
      <4> QED BY <3>2, <4>3, Zenon
    <3> QED BY <3>1, <3>2, Zenon
  <2> QED BY <2>3, <2>4, <2>5, Zenon DEF BufsConserved
<1> QED BY <1>1, InitNInv, NextNInv, PTL DEF NSpec

\* A token that receive or transmit has handed out finds the buffer and the
\* descriptor it was promised, and no unwrap of the driver fails.
THEOREM TokensGood == NSpec => []TokensHonoured
<1>1. NInv => TokensHonoured
  BY Zenon DEF NInv, TokensHonoured, Works
<1> QED BY <1>1, InitNInv, NextNInv, PTL DEF NSpec
=============================================================================
