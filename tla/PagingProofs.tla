---------------------------- MODULE PagingProofs ----------------------------
(***************************************************************************)
(* Lemmas about the page table of Paging: the tables form a tree, and      *)
(* mapping and unmapping a page keep it one, for any number of levels and  *)
(* entries and any frames.                                                 *)
(***************************************************************************)
EXTENDS Paging, Integers, Sequences, WellFoundedInduction, TLAPS

-----------------------------------------------------------------------------
(* Naturals and sequences. *)

\* A non-empty set of naturals has a least element.
LEMMA NatLeast ==
  ASSUME NEW T \in SUBSET Nat, T # {}
  PROVE  \E n \in T : \A m \in T : n <= m
<1>1. PICK n \in T : \A m \in T : <<m, n>> \notin OpToRel(<, Nat)
  BY NatLessThanWellFounded, WFMin, Zenon
<1>2. \A m \in T : ~(m < n)
  BY <1>1, Zenon DEF OpToRel
<1> QED BY <1>2

\* Induction over 0 .. N, for a set.
LEMMA UpTo ==
  ASSUME NEW N \in Nat, NEW S, 0 \in S, \A n \in 0 .. N - 1 : n \in S => n + 1 \in S
  PROVE  \A n \in 0 .. N : n \in S
<1> DEFINE T == {n \in 0 .. N : n \notin S}
<1> SUFFICES ASSUME T # {} PROVE FALSE
  BY Zenon
<1>1. T \in SUBSET Nat
  OBVIOUS
<1>2. PICK n \in T : \A m \in T : n <= m
  BY <1>1, NatLeast, Zenon
<1>3. n \in 1 .. N /\ n \notin S
  BY <1>2
<1>4. n - 1 \in 0 .. N - 1
  BY <1>3
<1>5. n - 1 \in S
  BY <1>2, <1>4
<1> QED BY <1>3, <1>4, <1>5

\* g[n] is where the first n steps lead from x.
Path(g, T, N, x, step) ==
  g \in [0 .. N -> T] /\ g[0] = x /\ \A k \in 1 .. N : g[k] = step[k][g[k - 1]]

\* Steps that each lead from T to T can be taken one after the other.
LEMMA Iterates ==
  ASSUME NEW T, NEW x \in T, NEW N \in Nat, NEW step \in [1 .. N -> [T -> T]]
  PROVE  \E g : Path(g, T, N, x, step)
<1> DEFINE S == {n \in 0 .. N : \E g : Path(g, T, n, x, step)}
<1>1. 0 \in S
  <2> DEFINE g == [k \in 0 .. 0 |-> x]
  <2>1. Path(g, T, 0, x, step)
    BY DEF Path
  <2> HIDE DEF g
  <2> QED BY <2>1
<1>2. ASSUME NEW n \in 0 .. N - 1, n \in S PROVE n + 1 \in S
  <2>1. PICK g : Path(g, T, n, x, step)
    BY <1>2, Zenon
  <2> DEFINE y == step[n + 1][g[n]]
             h == [k \in 0 .. n + 1 |-> IF k = n + 1 THEN y ELSE g[k]]
  <2>2. g \in [0 .. n -> T] /\ y \in T
    BY <2>1 DEF Path
  <2>3. h \in [0 .. n + 1 -> T]
    BY <2>2
  <2>4. h[0] = x
    BY <2>1 DEF Path
  <2>5. ASSUME NEW k \in 1 .. n + 1 PROVE h[k] = step[k][h[k - 1]]
    <3>1. CASE k = n + 1
      BY <3>1
    <3>2. CASE k # n + 1
      BY <3>2, <2>1 DEF Path
    <3> QED BY <3>1, <3>2, Zenon
  <2> HIDE DEF h
  <2>6. Path(h, T, n + 1, x, step)
    BY <2>3, <2>4, <2>5, Zenon DEF Path
  <2> QED BY <2>6
<1> HIDE DEF S
<1>3. N \in S
  <2>1. \A n \in 0 .. N : n \in S
    BY <1>1, <1>2, UpTo, Zenon
  <2> QED BY <2>1
<1> QED BY <1>3, Zenon DEF S


LEMMA SpanFacts ==
  /\ Span \in [0 .. LEVELS -> Nat \ {0}]
  /\ Span[0] = 1
  /\ \A n \in 1 .. LEVELS : Span[n] = FANOUT * Span[n - 1]
<1> DEFINE P == Nat \ {0}
           step == [n \in 1 .. LEVELS |-> [x \in P |-> FANOUT * x]]
<1>1. LEVELS \in Nat /\ FANOUT \in P
  BY LevelsAssumption, Zenon
<1>2. \A x \in P : FANOUT * x \in P
  BY <1>1
<1>3. step \in [1 .. LEVELS -> [P -> P]]
  BY <1>2, Zenon
<1>4. 1 \in P
  OBVIOUS
<1>5. PICK g : Path(g, P, LEVELS, 1, step)
  <2> HIDE DEF step, P
  <2> QED BY <1>1, <1>3, <1>4, Iterates, Zenon
<1>6. \A n \in 1 .. LEVELS : g[n] = FANOUT * g[n - 1]
  <2> SUFFICES ASSUME NEW n \in 1 .. LEVELS PROVE g[n] = FANOUT * g[n - 1]
    BY Zenon
  <2>1. n - 1 \in 0 .. LEVELS
    BY <1>1
  <2> QED BY <1>5, <2>1, Zenon DEF Path
<1>7. g = [n \in 0 .. LEVELS |-> IF n = 0 THEN 1 ELSE FANOUT * g[n - 1]]
  BY <1>1, <1>5, <1>6 DEF Path
<1>8. Span = [n \in 0 .. LEVELS |-> IF n = 0 THEN 1 ELSE FANOUT * Span[n - 1]]
  BY <1>7, Zenon DEF Span
<1>9. Span[0] = 1 /\ \A n \in 1 .. LEVELS : Span[n] = FANOUT * Span[n - 1]
  BY <1>1, <1>8
<1> DEFINE S == {n \in 0 .. LEVELS : Span[n] \in P}
<1>10. 0 \in S
  BY <1>1, <1>9
<1>11. ASSUME NEW n \in 0 .. LEVELS - 1, n \in S PROVE n + 1 \in S
  <2>1. n + 1 \in 1 .. LEVELS /\ (n + 1) - 1 = n
    BY <1>1
  <2>2. Span[n + 1] = FANOUT * Span[n]
    BY <1>9, <2>1, Zenon
  <2>3. Span[n + 1] \in P
    BY <1>2, <1>11, <2>2, Zenon
  <2> QED BY <2>1, <2>3
<1> HIDE DEF S
<1>12. LEVELS \in Nat
  BY <1>1, Zenon
<1>13. \A n \in 0 .. LEVELS : n \in S
  BY <1>10, <1>11, <1>12, UpTo, Zenon
<1>14. \A n \in 0 .. LEVELS : Span[n] \in P
  BY <1>13, Zenon DEF S
<1> QED BY <1>8, <1>9, <1>14, Zenon

LEMMA DivEuclid ==
  ASSUME NEW a \in Nat, NEW s \in Nat \ {0}
  PROVE  /\ a \div s \in Nat /\ a % s \in 0 .. s - 1
         /\ a = s * (a \div s) + (a % s)
OBVIOUS

LEMMA DivUnique ==
  ASSUME NEW s \in Nat \ {0}, NEW q \in Nat, NEW r \in 0 .. s - 1
  PROVE  (s * q + r) \div s = q
<1>1. s * q + r \in Nat
  OBVIOUS
<1>2. PICK x \in Nat : x = s * q + r
  BY <1>1, Zenon
<1> DEFINE d == x \div s
           m == x % s
<1>3. d \in Nat /\ m \in 0 .. s - 1 /\ x = s * d + m
  BY DivEuclid, Zenon
<1> HIDE DEF d, m
<1>4. \A i, j \in Nat : i + 1 <= j => s * i + s <= s * j
  <2> SUFFICES ASSUME NEW i \in Nat, NEW j \in Nat, i + 1 <= j PROVE s * i + s <= s * j
    BY Zenon
  <2>1. PICK e \in Nat : j = i + 1 + e
    <3> WITNESS j - i - 1 \in Nat
    <3> QED OBVIOUS
  <2>2. s * j = s * i + s + s * e /\ s * e \in Nat /\ s * i \in Nat
    BY <2>1
  <2> QED BY <2>2
<1>5. s * d \in Nat /\ s * q \in Nat
  BY <1>3
<1>6. d + 1 <= q => FALSE
  BY <1>2, <1>3, <1>4, <1>5
<1>7. q + 1 <= d => FALSE
  BY <1>2, <1>3, <1>4, <1>5
<1>8. d = q
  BY <1>3, <1>6, <1>7
<1> QED BY <1>2, <1>8, Zenon DEF d

LEMMA DivDiv ==
  ASSUME NEW a \in Nat, NEW s \in Nat \ {0}, NEW F \in Nat \ {0}
  PROVE  a \div (F * s) = (a \div s) \div F
<1> DEFINE q == a \div s
           r == a % s
           d == q \div F
           m == q % F
<1>1. q \in Nat /\ r \in 0 .. s - 1 /\ a = s * q + r
  BY DivEuclid, Zenon
<1>2. d \in Nat /\ m \in 0 .. F - 1 /\ q = F * d + m
  <2> HIDE DEF q
  <2> QED BY <1>1, DivEuclid, Zenon
<1> HIDE DEF q, r, d, m
<1>3. a = (F * s) * d + (s * m + r)
  <2>1. s * (F * d + m) = (F * s) * d + s * m
    BY <1>2
  <2> QED BY <1>1, <1>2, <2>1
<1>4. s * m + r \in 0 .. F * s - 1 /\ F * s \in Nat \ {0}
  <2>1. s * m \in Nat /\ s * m <= s * (F - 1)
    BY <1>2
  <2>2. s * (F - 1) = F * s - s
    OBVIOUS
  <2>3. F * s \in Nat \ {0}
    OBVIOUS
  <2> QED BY <1>1, <2>1, <2>2, <2>3
<1>5. ((F * s) * d + (s * m + r)) \div (F * s) = d
  BY <1>2, <1>4, DivUnique, Zenon
<1> QED BY <1>3, <1>5, Zenon DEF d, q

\* A page is known by its indexes.
LEMMA IndexesDiffer ==
  ASSUME NEW p \in 0 .. Span[LEVELS] - 1, NEW q \in 0 .. Span[LEVELS] - 1,
         \A k \in 1 .. LEVELS : indexes(p)[k] = indexes(q)[k]
  PROVE  p = q
<1> DEFINE S == {k \in 0 .. LEVELS : p \div Span[LEVELS - k] = q \div Span[LEVELS - k]}
<1>1. LEVELS \in Nat \ {0} /\ FANOUT \in Nat \ {0}
  BY LevelsAssumption, Zenon
<1>2. /\ Span \in [0 .. LEVELS -> Nat \ {0}]
      /\ Span[0] = 1
      /\ \A n \in 1 .. LEVELS : Span[n] = FANOUT * Span[n - 1]
  BY SpanFacts, Zenon
<1>3. p \in Nat /\ q \in Nat
  BY <1>1, <1>2
<1>4. 0 \in S
  <2>1. Span[LEVELS] \in Nat \ {0} /\ LEVELS - 0 = LEVELS /\ 0 \in 0 .. LEVELS
    BY <1>1, <1>2
  <2>2. \A s \in Nat \ {0} : \A x \in 0 .. s - 1 : x \div s = 0
    OBVIOUS
  <2>3. p \div Span[LEVELS] = 0 /\ q \div Span[LEVELS] = 0
    BY <2>1, <2>2, Zenon
  <2> QED BY <2>1, <2>3, Zenon
<1>5. ASSUME NEW k \in 0 .. LEVELS - 1, k \in S PROVE k + 1 \in S
  <2> DEFINE n == LEVELS - k
  <2>1. n \in 1 .. LEVELS /\ n - 1 \in 0 .. LEVELS /\ n - 1 = LEVELS - (k + 1) /\ k + 1 \in 1 .. LEVELS
    BY <1>1
  <2> HIDE DEF n
  <2>2. PICK s \in Nat \ {0} : s = Span[n - 1]
    BY <1>2, <2>1, Zenon
  <2>3. Span[n] = FANOUT * s
    BY <1>2, <2>1, <2>2, Zenon
  <2>4. (p \div s) \div FANOUT = (q \div s) \div FANOUT
    <3>1. p \div Span[n] = q \div Span[n]
      BY <1>5, Zenon DEF n
    <3>2. p \div (FANOUT * s) = q \div (FANOUT * s)
      BY <3>1, <2>3, Zenon
    <3> QED BY <1>1, <1>3, <3>2, DivDiv, Zenon
  <2>5. (p \div s) % FANOUT = (q \div s) % FANOUT
    <3>1. indexes(p)[k + 1] = indexes(q)[k + 1]
      BY <2>1, Zenon
    <3> QED BY <2>1, <2>2, <3>1, Zenon DEF indexes
  <2>6. p \div s \in Nat /\ q \div s \in Nat
    BY <1>3, DivEuclid, Zenon
  <2>7. p \div s = q \div s
    <3>1. \A x, y \in Nat : x \div FANOUT = y \div FANOUT /\ x % FANOUT = y % FANOUT => x = y
      <4> SUFFICES ASSUME NEW x \in Nat, NEW y \in Nat,
                          x \div FANOUT = y \div FANOUT, x % FANOUT = y % FANOUT
                   PROVE  x = y
        BY Zenon
      <4>1. x = FANOUT * (x \div FANOUT) + (x % FANOUT)
        BY <1>1, DivEuclid, Zenon
      <4>2. y = FANOUT * (y \div FANOUT) + (y % FANOUT)
        BY <1>1, DivEuclid, Zenon
      <4> QED BY <4>1, <4>2, Zenon
    <3> QED BY <2>4, <2>5, <2>6, <3>1, Zenon
  <2>8. k + 1 \in 0 .. LEVELS
    BY <2>1
  <2> QED BY <2>1, <2>2, <2>7, <2>8, Zenon
<1> HIDE DEF S
<1>6. \A k \in 0 .. LEVELS : k \in S
  <2>1. LEVELS \in Nat
    BY <1>1, Zenon
  <2> QED BY <1>4, <1>5, <2>1, UpTo, Zenon
<1>7. LEVELS \in S
  BY <1>1, <1>6
<1>8. p \div 1 = q \div 1
  BY <1>1, <1>2, <1>7 DEF S
<1> QED BY <1>3, <1>8

LEMMA IndexesTyped ==
  ASSUME NEW p \in Nat
  PROVE  \A k \in 1 .. LEVELS : indexes(p)[k] \in 0 .. FANOUT - 1
<1> SUFFICES ASSUME NEW k \in 1 .. LEVELS PROVE indexes(p)[k] \in 0 .. FANOUT - 1
  BY Zenon
<1>1. LEVELS \in Nat \ {0} /\ FANOUT \in Nat \ {0}
  BY LevelsAssumption, Zenon
<1>2. PICK s \in Nat \ {0} : s = Span[LEVELS - k]
  BY <1>1, SpanFacts
<1>3. PICK d \in Nat : d = p \div s
  BY DivEuclid, Zenon
<1>4. d % FANOUT \in 0 .. FANOUT - 1
  BY <1>1, DivEuclid, Zenon
<1> QED BY <1>2, <1>3, <1>4, Zenon DEF indexes
Idx == 0 .. FANOUT - 1
Ptr == Frames \cup {Invalid}

PT == [root : Frames, mem : [Frames -> [Idx -> Ptr]],
       frames : UNION {[D -> Frames] : D \in SUBSET Int}]

\* g holds the tables that find comes to on its way to va.
Walk(pt, va, g) ==
  /\ g \in [0 .. LEVELS - 1 -> Ptr]
  /\ g[0] = pt.root
  /\ \A k \in 1 .. LEVELS - 1 :
       g[k] = IF g[k - 1] = Invalid THEN Invalid ELSE pt.mem[g[k - 1]][indexes(va)[k]]

LEMMA PTFrames ==
  ASSUME NEW pt \in PT
  PROVE  \A v \in DOMAIN pt.frames : v \in Int /\ pt.frames[v] \in Frames
<1>1. PICK D \in SUBSET Int : pt.frames \in [D -> Frames]
  BY Zenon DEF PT
<1> QED BY <1>1, Zenon

LEMMA InvalidNoFrame == Invalid \notin Frames
BY FramesAssumption DEF Invalid

LEMMA WalkExists ==
  ASSUME NEW pt, pt.root \in Frames, pt.mem \in [Frames -> [Idx -> Ptr]], NEW va \in Nat
  PROVE  \E g : Walk(pt, va, g)
<1> DEFINE N == LEVELS - 1
           step == [k \in 1 .. N |-> [x \in Ptr |-> IF x = Invalid THEN Invalid ELSE pt.mem[x][indexes(va)[k]]]]
<1>1. N \in Nat /\ \A k \in 1 .. N : k \in 1 .. LEVELS
  BY LevelsAssumption
<1>2. ASSUME NEW k \in 1 .. N, NEW x \in Ptr
      PROVE  (IF x = Invalid THEN Invalid ELSE pt.mem[x][indexes(va)[k]]) \in Ptr
  <2>1. indexes(va)[k] \in Idx
    BY <1>1, IndexesTyped, Zenon DEF Idx
  <2> QED BY <2>1, Zenon DEF Ptr
<1>3. step \in [1 .. N -> [Ptr -> Ptr]]
  BY <1>2, Zenon
<1>4. pt.root \in Ptr
  BY Zenon DEF Ptr
<1> HIDE DEF step, N
<1>5. PICK g : Path(g, Ptr, N, pt.root, step)
  BY <1>1, <1>3, <1>4, Iterates, Zenon
<1>6. ASSUME NEW k \in 1 .. N
      PROVE  g[k] = IF g[k - 1] = Invalid THEN Invalid ELSE pt.mem[g[k - 1]][indexes(va)[k]]
  <2>1. k - 1 \in 0 .. N
    BY <1>1
  <2>2. g[k - 1] \in Ptr /\ g[k] = step[k][g[k - 1]]
    BY <1>5, <2>1, Zenon DEF Path
  <2> QED BY <2>2, Zenon DEF step
<1> QED BY <1>5, <1>6, Zenon DEF Walk, Path, N

\* A walk is determined by its beginning and the steps.
LEMMA WalkUnique ==
  ASSUME NEW pt, NEW va, NEW g, NEW h, Walk(pt, va, g), h[0] = pt.root,
         \A k \in 1 .. LEVELS - 1 :
           h[k] = IF h[k - 1] = Invalid THEN Invalid ELSE pt.mem[h[k - 1]][indexes(va)[k]]
  PROVE  \A k \in 0 .. LEVELS - 1 : h[k] = g[k]
<1> DEFINE S == {k \in 0 .. LEVELS - 1 : h[k] = g[k]}
<1>1. LEVELS - 1 \in Nat
  BY LevelsAssumption
<1>2. 0 \in S
  BY <1>1 DEF Walk
<1>3. ASSUME NEW k \in 0 .. (LEVELS - 1) - 1, k \in S PROVE k + 1 \in S
  <2>1. k + 1 \in 1 .. LEVELS - 1 /\ (k + 1) - 1 = k
    BY <1>1
  <2>2. h[k + 1] = g[k + 1]
    BY <1>3, <2>1, Zenon DEF Walk
  <2> QED BY <2>1, <2>2
<1> HIDE DEF S
<1>4. \A k \in 0 .. LEVELS - 1 : k \in S
  BY <1>1, <1>2, <1>3, UpTo, Zenon
<1> QED BY <1>4, Zenon DEF S

\* find ends where the walk does.
LEMMA FindWalks ==
  ASSUME NEW pt, NEW va, NEW g, Walk(pt, va, g)
  PROVE  find(pt, va) = g[LEVELS - 1]
<1> DEFINE Fun(f) == [k \in 0 .. LEVELS - 1 |->
             IF k = 0 THEN pt.root
             ELSE IF f[k - 1] = Invalid THEN Invalid
             ELSE pt.mem[f[k - 1]][indexes(va)[k]]]
           pa == CHOOSE f : f = Fun(f)
<1>1. LEVELS - 1 \in Nat
  BY LevelsAssumption
<1>2. g = Fun(g)
  BY <1>1 DEF Walk
<1>3. pa = Fun(pa)
  BY <1>2, Zenon
<1>4. find(pt, va) = pa[LEVELS - 1]
  BY Zenon DEF find
<1> HIDE DEF pa
<1>5. pa[0] = pt.root /\ \A k \in 1 .. LEVELS - 1 :
        pa[k] = IF pa[k - 1] = Invalid THEN Invalid ELSE pt.mem[pa[k - 1]][indexes(va)[k]]
  <2>1. PICK f : f = pa
    BY Zenon
  <2>2. f = [k \in 0 .. LEVELS - 1 |->
             IF k = 0 THEN pt.root
             ELSE IF f[k - 1] = Invalid THEN Invalid
             ELSE pt.mem[f[k - 1]][indexes(va)[k]]]
    BY <1>3, <2>1, Zenon
  <2>3. \A k \in 0 .. LEVELS - 1 : f[k] = IF k = 0 THEN pt.root
                                       ELSE IF f[k - 1] = Invalid THEN Invalid
                                       ELSE pt.mem[f[k - 1]][indexes(va)[k]]
    BY <2>2, Zenon
  <2>4. 0 \in 0 .. LEVELS - 1 /\ \A k \in 1 .. LEVELS - 1 : k \in 0 .. LEVELS - 1 /\ k # 0
    BY <1>1
  <2> QED BY <2>1, <2>3, <2>4, Zenon
<1>6. \A k \in 0 .. LEVELS - 1 : pa[k] = g[k]
  BY <1>5, WalkUnique
<1>7. LEVELS - 1 \in 0 .. LEVELS - 1
  BY <1>1
<1> QED BY <1>4, <1>6, <1>7, Zenon
-----------------------------------------------------------------------------
(* The tree of tables. *)

TablesOf(pt) == {f \in Frames : to_virt(f) \in DOMAIN pt.frames}

\* The tables have levels, L: the root is on the first, a valid entry of a table
\* that is not on the last leads to the next, and no other entry leads there.
Shape(pt, L) ==
  /\ pt \in PT /\ L \in [Frames -> 0 .. LEVELS - 1]
  /\ pt.root \in TablesOf(pt) /\ L[pt.root] = 0
  /\ \A f \in TablesOf(pt) : pt.frames[to_virt(f)] = f
  /\ \A u, v \in DOMAIN pt.frames : pt.frames[u] = pt.frames[v] => u = v
  /\ \A f \in TablesOf(pt), i \in Idx : L[f] < LEVELS - 1 /\ pt.mem[f][i] # Invalid =>
       pt.mem[f][i] \in TablesOf(pt) /\ L[pt.mem[f][i]] = L[f] + 1
  /\ \A f, h \in TablesOf(pt), i, j \in Idx :
       /\ L[f] < LEVELS - 1 /\ L[h] < LEVELS - 1
       /\ pt.mem[f][i] # Invalid /\ pt.mem[f][i] = pt.mem[h][j]
       => f = h /\ i = j

LEMMA EntryUnique ==
  ASSUME NEW pt, NEW L, Shape(pt, L), NEW f \in TablesOf(pt), NEW h \in TablesOf(pt),
         NEW i \in Idx, NEW j \in Idx, L[f] < LEVELS - 1, L[h] < LEVELS - 1,
         pt.mem[f][i] # Invalid, pt.mem[f][i] = pt.mem[h][j]
  PROVE  f = h /\ i = j
BY DEF Shape

\* A walk goes down one level with every step.
LEMMA WalkLevels ==
  ASSUME NEW pt, NEW L, Shape(pt, L), NEW va \in Nat, NEW g, Walk(pt, va, g)
  PROVE  \A k \in 0 .. LEVELS - 1 : g[k] # Invalid => g[k] \in TablesOf(pt) /\ L[g[k]] = k
<1> DEFINE S == {k \in 0 .. LEVELS - 1 : g[k] # Invalid => g[k] \in TablesOf(pt) /\ L[g[k]] = k}
<1>1. LEVELS - 1 \in Nat
  BY LevelsAssumption
<1>2. 0 \in S
  BY <1>1 DEF Walk, Shape
<1>3. ASSUME NEW k \in 0 .. (LEVELS - 1) - 1, k \in S PROVE k + 1 \in S
  <2>1. k + 1 \in 1 .. LEVELS - 1 /\ (k + 1) - 1 = k /\ k + 1 \in 1 .. LEVELS /\ k < LEVELS - 1
    BY <1>1, LevelsAssumption
  <2>2. indexes(va)[k + 1] \in Idx
    BY <2>1, IndexesTyped, Zenon DEF Idx
  <2>3. g[k + 1] = IF g[k] = Invalid THEN Invalid ELSE pt.mem[g[k]][indexes(va)[k + 1]]
    BY <2>1, Zenon DEF Walk
  <2>4. g[k] # Invalid => g[k] \in TablesOf(pt) /\ L[g[k]] = k
    BY <1>3, Zenon
  <2>5. g[k + 1] # Invalid => g[k + 1] \in TablesOf(pt) /\ L[g[k + 1]] = k + 1
    BY <2>1, <2>2, <2>3, <2>4 DEF Shape
  <2> QED BY <2>1, <2>5
<1> HIDE DEF S
<1>4. \A k \in 0 .. LEVELS - 1 : k \in S
  BY <1>1, <1>2, <1>3, UpTo, Zenon
<1> QED BY <1>4, Zenon DEF S

\* Two walks that come to one table have taken the same way.
LEMMA OneWay ==
  ASSUME NEW pt, NEW L, Shape(pt, L), NEW p \in Nat, NEW q \in Nat,
         NEW g, Walk(pt, p, g), NEW h, Walk(pt, q, h),
         g[LEVELS - 1] = h[LEVELS - 1], g[LEVELS - 1] # Invalid
  PROVE  \A k \in 1 .. LEVELS - 1 : indexes(p)[k] = indexes(q)[k]
<1> DEFINE N == LEVELS - 1
           S == {n \in 0 .. N : /\ g[N - n] = h[N - n] /\ g[N - n] # Invalid
                                /\ n > 0 => indexes(p)[N - n + 1] = indexes(q)[N - n + 1]}
<1>1. N \in Nat
  BY LevelsAssumption
<1>2. 0 \in S
  BY <1>1
<1>3. ASSUME NEW n \in 0 .. N - 1, n \in S PROVE n + 1 \in S
  <2>1. PICK k \in 1 .. N : k = N - n
    BY <1>1
  <2>2. /\ k - 1 = N - (n + 1) /\ k - 1 + 1 = k /\ k \in 0 .. N /\ k - 1 \in 0 .. N
        /\ k - 1 < N /\ k \in 1 .. LEVELS /\ n + 1 \in 0 .. N
    BY <1>1, <2>1, LevelsAssumption
  <2>3. indexes(p)[k] \in Idx /\ indexes(q)[k] \in Idx
    BY <2>2, IndexesTyped, Zenon DEF Idx
  <2>4. g[k] = h[k] /\ g[k] # Invalid
    BY <1>3, <2>1, Zenon
  <2>5. /\ g[k] = IF g[k - 1] = Invalid THEN Invalid ELSE pt.mem[g[k - 1]][indexes(p)[k]]
        /\ h[k] = IF h[k - 1] = Invalid THEN Invalid ELSE pt.mem[h[k - 1]][indexes(q)[k]]
    BY Zenon DEF Walk
  <2>6. g[k - 1] # Invalid /\ h[k - 1] # Invalid
    BY <2>4, <2>5, Zenon
  <2>7. /\ g[k - 1] \in TablesOf(pt) /\ L[g[k - 1]] = k - 1
        /\ h[k - 1] \in TablesOf(pt) /\ L[h[k - 1]] = k - 1
    BY <2>2, <2>6, WalkLevels
  <2>8. g[k - 1] = h[k - 1] /\ indexes(p)[k] = indexes(q)[k]
    <3>1. PICK f \in TablesOf(pt) : f = g[k - 1]
      BY <2>7, Zenon
    <3>2. PICK e \in TablesOf(pt) : e = h[k - 1]
      BY <2>7, Zenon
    <3>3. L[f] < LEVELS - 1 /\ L[e] < LEVELS - 1
      BY <2>2, <2>7, <3>1, <3>2, Zenon
    <3>4. pt.mem[f][indexes(p)[k]] # Invalid /\ pt.mem[f][indexes(p)[k]] = pt.mem[e][indexes(q)[k]]
      BY <2>4, <2>5, <2>6, <3>1, <3>2, Zenon
    <3>5. f = e /\ indexes(p)[k] = indexes(q)[k]
      BY <2>3, <3>3, <3>4, EntryUnique, Zenon
    <3> QED BY <3>1, <3>2, <3>5, Zenon
  <2> QED BY <2>2, <2>6, <2>8, Zenon
<1> HIDE DEF S
<1>4. \A n \in 0 .. N : n \in S
  <2> HIDE DEF N
  <2> QED BY <1>1, <1>2, <1>3, UpTo, Zenon
<1>5. ASSUME NEW k \in 1 .. N PROVE indexes(p)[k] = indexes(q)[k]
  <2>1. PICK n \in 1 .. N : k = N - n + 1
    <3>1. N - k + 1 \in 1 .. N /\ k = N - (N - k + 1) + 1
      BY <1>1
    <3> QED BY <3>1, Zenon
  <2>2. n \in S
    BY <1>4, <2>1
  <2> QED BY <2>1, <2>2 DEF S
<1> QED BY <1>5, Zenon

Last(p) == indexes(p)[LEVELS]

\* An entry of a table on the last level belongs to one page.
LEMMA OnePage ==
  ASSUME NEW pt, NEW L, Shape(pt, L),
         NEW p \in 0 .. Span[LEVELS] - 1, NEW q \in 0 .. Span[LEVELS] - 1,
         find(pt, p) = find(pt, q), find(pt, p) # Invalid, Last(p) = Last(q)
  PROVE  p = q
<1>1. p \in Nat /\ q \in Nat /\ LEVELS \in Nat
  BY SpanFacts, LevelsAssumption
<1>2. pt.root \in Frames /\ pt.mem \in [Frames -> [Idx -> Ptr]]
  BY Zenon DEF Shape, PT
<1>3. PICK g : Walk(pt, p, g)
  BY <1>1, <1>2, WalkExists, Zenon
<1>4. PICK h : Walk(pt, q, h)
  BY <1>1, <1>2, WalkExists, Zenon
<1>5. g[LEVELS - 1] = find(pt, p) /\ h[LEVELS - 1] = find(pt, q)
  BY <1>3, <1>4, FindWalks, Zenon
<1>6. \A k \in 1 .. LEVELS - 1 : indexes(p)[k] = indexes(q)[k]
  BY <1>1, <1>3, <1>4, <1>5, OneWay
<1>7. \A k \in 1 .. LEVELS : indexes(p)[k] = indexes(q)[k]
  BY <1>1, <1>6 DEF Last
<1> QED BY <1>7, IndexesDiffer, Zenon
-----------------------------------------------------------------------------
(* The pages that are mapped. *)

\* The pages that can be translated and are apart from the linear mapping of the
\* frames.
Mappable == {p \in 0 .. Span[LEVELS] - 1 : \A f \in Frames : p # to_virt(f)}

\* A valid entry on the last level belongs to a page of M, and for every page of
\* M the entry points to the frame that is kept for it.
Tree(pt, L, M) ==
  /\ Shape(pt, L)
  /\ M \subseteq Mappable
  /\ \A f \in TablesOf(pt), i \in Idx : L[f] = LEVELS - 1 /\ pt.mem[f][i] # Invalid =>
       \E p \in M : find(pt, p) = f /\ Last(p) = i
  /\ \A p \in M : /\ p \in DOMAIN pt.frames /\ find(pt, p) # Invalid
                  /\ pt.mem[find(pt, p)][Last(p)] = pt.frames[p]

LEMMA MappableFacts ==
  /\ Mappable \subseteq Nat /\ Mappable \subseteq 0 .. Span[LEVELS] - 1
  /\ \A f \in Frames : to_virt(f) \in Int /\ to_virt(f) \notin Mappable
  /\ \A f, h \in Frames : to_virt(f) = to_virt(h) => f = h
<1>1. Span[LEVELS] \in Nat
  BY SpanFacts, LevelsAssumption
<1>2. Mappable \subseteq Nat /\ Mappable \subseteq 0 .. Span[LEVELS] - 1
  BY <1>1 DEF Mappable
<1>3. \A f \in Frames : to_virt(f) \in Int /\ to_virt(f) \notin Mappable
  BY FramesAssumption, OffsetAssumption DEF to_virt, Mappable
<1>4. \A f, h \in Frames : to_virt(f) = to_virt(h) => f = h
  BY FramesAssumption, OffsetAssumption DEF to_virt
<1> QED BY <1>2, <1>3, <1>4, Zenon

LEMMA TablesHeld ==
  ASSUME NEW pt, NEW L, Shape(pt, L)
  PROVE  \A f \in TablesOf(pt) : f \in Held(pt) /\ f \in Frames
BY DEF Shape, TablesOf, Held

\* Entry i of table pa has been given the new table f.
Grown(pt, u, pa, i, f) ==
  /\ u \in PT /\ u.root = pt.root
  /\ \A e \in Frames, j \in Idx :
       u.mem[e][j] = IF e = f THEN Invalid ELSE IF e = pa /\ j = i THEN f ELSE pt.mem[e][j]
  /\ DOMAIN u.frames = DOMAIN pt.frames \cup {to_virt(f)} /\ u.frames[to_virt(f)] = f
  /\ \A v \in DOMAIN pt.frames : v # to_virt(f) => u.frames[v] = pt.frames[v]

LEMMA GrownTables ==
  ASSUME NEW pt, NEW L, Shape(pt, L), NEW pa, NEW i, NEW u,
         NEW f \in Frames \ Held(pt), Grown(pt, u, pa, i, f)
  PROVE  /\ TablesOf(u) = TablesOf(pt) \cup {f} /\ f \notin TablesOf(pt)
         /\ to_virt(f) \notin DOMAIN pt.frames
         /\ \A v \in DOMAIN pt.frames : v \in DOMAIN u.frames /\ u.frames[v] = pt.frames[v]
<1>1. f \notin TablesOf(pt)
  BY TablesHeld, Zenon
<1>2. to_virt(f) \notin DOMAIN pt.frames
  BY <1>1, Zenon DEF TablesOf
<1>3. TablesOf(u) = TablesOf(pt) \cup {f}
  <2>1. \A e \in Frames : to_virt(e) = to_virt(f) => e = f
    BY MappableFacts, Zenon
  <2>2. DOMAIN u.frames = DOMAIN pt.frames \cup {to_virt(f)}
    BY Zenon DEF Grown
  <2>3. \A e \in Frames : to_virt(e) \in DOMAIN u.frames <=> to_virt(e) \in DOMAIN pt.frames \/ e = f
    BY <2>1, <2>2, Zenon
  <2> QED BY <2>3, Zenon DEF TablesOf
<1>4. \A v \in DOMAIN pt.frames : v \in DOMAIN u.frames /\ u.frames[v] = pt.frames[v]
  BY <1>2, Zenon DEF Grown
<1> QED BY <1>1, <1>2, <1>3, <1>4, Zenon

LEMMA GrownShape ==
  ASSUME NEW pt, NEW L, Shape(pt, L), NEW pa \in TablesOf(pt), NEW i \in Idx, NEW u,
         NEW f \in Frames \ Held(pt), Grown(pt, u, pa, i, f),
         L[pa] < LEVELS - 1, pt.mem[pa][i] = Invalid
  PROVE  Shape(u, [L EXCEPT ![f] = L[pa] + 1])
<1> DEFINE Lu == [L EXCEPT ![f] = L[pa] + 1]
<1>1. /\ TablesOf(u) = TablesOf(pt) \cup {f} /\ f \notin TablesOf(pt)
      /\ to_virt(f) \notin DOMAIN pt.frames
      /\ \A v \in DOMAIN pt.frames : v \in DOMAIN u.frames /\ u.frames[v] = pt.frames[v]
  BY GrownTables, Zenon
<1>2. LEVELS \in Nat \ {0} /\ L \in [Frames -> 0 .. LEVELS - 1] /\ pa \in Frames
  BY LevelsAssumption, Zenon DEF Shape, TablesOf
<1>3. Lu \in [Frames -> 0 .. LEVELS - 1]
  <2>1. L[pa] + 1 \in 0 .. LEVELS - 1
    BY <1>2
  <2> QED BY <1>2, <2>1, Zenon
<1>4. Lu[f] = L[pa] + 1 /\ \A e \in Frames : e # f => Lu[e] = L[e]
  BY <1>2, Zenon
<1> HIDE DEF Lu
<1>5. u \in PT /\ u.root \in TablesOf(u) /\ Lu[u.root] = 0
  BY <1>1, <1>4, Zenon DEF Shape, Grown, TablesOf
<1>6. \A e \in TablesOf(u) : u.frames[to_virt(e)] = e
  BY <1>1, Zenon DEF Shape, Grown, TablesOf
<1>7. \A v, w \in DOMAIN u.frames : u.frames[v] = u.frames[w] => v = w
  <2>1. \A v \in DOMAIN pt.frames : pt.frames[v] # f
    BY Zenon DEF Held
  <2>2. \A v, w \in DOMAIN pt.frames : pt.frames[v] = pt.frames[w] => v = w
    BY Zenon DEF Shape
  <2>3. DOMAIN u.frames = DOMAIN pt.frames \cup {to_virt(f)} /\ u.frames[to_virt(f)] = f
    BY Zenon DEF Grown
  <2> QED BY <1>1, <2>1, <2>2, <2>3, Zenon
<1>8. ASSUME NEW e \in TablesOf(u), NEW j \in Idx, Lu[e] < LEVELS - 1, u.mem[e][j] # Invalid
      PROVE  u.mem[e][j] \in TablesOf(u) /\ Lu[u.mem[e][j]] = Lu[e] + 1
  <2>1. e \in Frames /\ e # f /\ e \in TablesOf(pt)
    BY <1>1, <1>8, Zenon DEF Grown, TablesOf
  <2>2. CASE e = pa /\ j = i
    BY <1>1, <1>2, <1>4, <2>1, <2>2, Zenon DEF Grown
  <2>3. CASE ~ (e = pa /\ j = i)
    <3>1. u.mem[e][j] = pt.mem[e][j]
      BY <2>1, <2>3, Zenon DEF Grown
    <3>2. pt.mem[e][j] \in TablesOf(pt) /\ L[pt.mem[e][j]] = L[e] + 1
      BY <1>4, <1>8, <2>1, <3>1, Zenon DEF Shape
    <3>3. pt.mem[e][j] \in Frames
      BY <3>2, Zenon DEF TablesOf
    <3> QED BY <1>1, <1>4, <2>1, <3>1, <3>2, <3>3, Zenon
  <2> QED BY <2>2, <2>3, Zenon
<1>9. ASSUME NEW e \in TablesOf(u), NEW h \in TablesOf(u), NEW j \in Idx, NEW k \in Idx,
             Lu[e] < LEVELS - 1, Lu[h] < LEVELS - 1,
             u.mem[e][j] # Invalid, u.mem[e][j] = u.mem[h][k]
      PROVE  e = h /\ j = k
  <2>1. /\ e \in Frames /\ e # f /\ e \in TablesOf(pt) /\ L[e] < LEVELS - 1
        /\ h \in Frames /\ h # f /\ h \in TablesOf(pt) /\ L[h] < LEVELS - 1
    BY <1>1, <1>4, <1>9 DEF Grown, TablesOf
  <2>2. \A d \in TablesOf(pt), m \in Idx : L[d] < LEVELS - 1 => pt.mem[d][m] # f
    BY <1>1, InvalidNoFrame DEF Shape
  <2>3. /\ u.mem[e][j] = IF e = pa /\ j = i THEN f ELSE pt.mem[e][j]
        /\ u.mem[h][k] = IF h = pa /\ k = i THEN f ELSE pt.mem[h][k]
    BY <2>1, Zenon DEF Grown
  <2>4. CASE e = pa /\ j = i
    BY <1>9, <2>1, <2>2, <2>3, <2>4, Zenon
  <2>5. CASE h = pa /\ k = i
    BY <1>9, <2>1, <2>2, <2>3, <2>5, Zenon
  <2>6. CASE ~ (e = pa /\ j = i) /\ ~ (h = pa /\ k = i)
    <3>1. pt.mem[e][j] # Invalid /\ pt.mem[e][j] = pt.mem[h][k]
      BY <1>9, <2>3, <2>6, Zenon
    <3> QED BY <2>1, <3>1, EntryUnique, Zenon
  <2> QED BY <2>4, <2>5, <2>6, Zenon
<1> QED BY <1>3, <1>5, <1>6, <1>7, <1>8, <1>9 DEF Shape, Lu
\* The way to a page stays, and the way to va gets longer.
LEMMA GrownWalk ==
  ASSUME NEW pt, NEW L, Shape(pt, L), NEW pa \in TablesOf(pt), NEW i \in Idx, NEW u,
         NEW f \in Frames \ Held(pt), Grown(pt, u, pa, i, f), pt.mem[pa][i] = Invalid,
         NEW p \in Nat, NEW g, Walk(pt, p, g), g[LEVELS - 1] # Invalid
  PROVE  Walk(u, p, g)
<1>1. LEVELS - 1 \in Nat
  BY LevelsAssumption
<1>2. f \notin TablesOf(pt)
  BY GrownTables, Zenon
<1> DEFINE S == {n \in 0 .. LEVELS - 1 : g[(LEVELS - 1) - n] # Invalid}
<1>3. \A k \in 0 .. LEVELS - 1 : g[k] # Invalid
  <2>1. 0 \in S
    BY <1>1
  <2>2. ASSUME NEW n \in 0 .. (LEVELS - 1) - 1, n \in S PROVE n + 1 \in S
    <3>1. PICK k \in 1 .. LEVELS - 1 : k = (LEVELS - 1) - n
      BY <1>1
    <3>2. n + 1 \in 0 .. LEVELS - 1 /\ (LEVELS - 1) - (n + 1) = k - 1
      BY <1>1, <3>1
    <3>3. g[k] # Invalid
      BY <2>2, <3>1, Zenon
    <3>4. g[k - 1] # Invalid
      BY <3>3, Zenon DEF Walk
    <3> QED BY <3>2, <3>4, Zenon
  <2> HIDE DEF S
  <2>3. \A n \in 0 .. LEVELS - 1 : n \in S
    BY <1>1, <2>1, <2>2, UpTo, Zenon
  <2>4. \A k \in 0 .. LEVELS - 1 : (LEVELS - 1) - k \in 0 .. LEVELS - 1
                                   /\ (LEVELS - 1) - ((LEVELS - 1) - k) = k
    BY <1>1
  <2> QED BY <2>3, <2>4, Zenon DEF S
<1>4. ASSUME NEW k \in 1 .. LEVELS - 1
      PROVE  g[k] = IF g[k - 1] = Invalid THEN Invalid ELSE u.mem[g[k - 1]][indexes(p)[k]]
  <2>1. k - 1 \in 0 .. LEVELS - 1 /\ k \in 0 .. LEVELS - 1 /\ k \in 1 .. LEVELS
    BY <1>1, LevelsAssumption
  <2>2. PICK e \in TablesOf(pt) : e = g[k - 1]
    BY <1>3, <2>1, WalkLevels, Zenon
  <2>3. PICK j \in Idx : j = indexes(p)[k]
    BY <2>1, IndexesTyped, Zenon DEF Idx
  <2>4. e \in Frames /\ e # f
    BY <1>2, Zenon DEF TablesOf
  <2>5. g[k] = pt.mem[e][j] /\ pt.mem[e][j] # Invalid
    BY <1>3, <2>1, <2>2, <2>3, Zenon DEF Walk
  <2>6. u.mem[e][j] = pt.mem[e][j]
    BY <2>4, <2>5, Zenon DEF Grown
  <2> QED BY <1>3, <2>1, <2>2, <2>3, <2>5, <2>6, Zenon
<1> QED BY <1>4, Zenon DEF Walk, Grown

LEMMA GrownFind ==
  ASSUME NEW pt, NEW L, Shape(pt, L), NEW pa \in TablesOf(pt), NEW i \in Idx, NEW u,
         NEW f \in Frames \ Held(pt), Grown(pt, u, pa, i, f), pt.mem[pa][i] = Invalid,
         NEW p \in Nat, find(pt, p) # Invalid
  PROVE  find(u, p) = find(pt, p)
<1>1. pt.root \in Frames /\ pt.mem \in [Frames -> [Idx -> Ptr]]
  BY Zenon DEF Shape, PT
<1>2. PICK g : Walk(pt, p, g)
  BY <1>1, WalkExists, Zenon
<1>3. find(pt, p) = g[LEVELS - 1]
  BY <1>2, FindWalks, Zenon
<1>4. Walk(u, p, g)
  BY <1>2, <1>3, GrownWalk, Zenon
<1> QED BY <1>3, <1>4, FindWalks, Zenon

LEMMA GrownTree ==
  ASSUME NEW pt, NEW L, NEW M, Tree(pt, L, M), NEW pa \in TablesOf(pt), NEW i \in Idx, NEW u,
         NEW f \in Frames \ Held(pt), Grown(pt, u, pa, i, f),
         L[pa] < LEVELS - 1, pt.mem[pa][i] = Invalid
  PROVE  Tree(u, [L EXCEPT ![f] = L[pa] + 1], M)
<1> DEFINE Lu == [L EXCEPT ![f] = L[pa] + 1]
<1>1. Shape(pt, L) /\ M \subseteq Mappable
  BY Zenon DEF Tree
<1>2. Shape(u, Lu)
  BY <1>1, GrownShape, Zenon
<1>3. /\ TablesOf(u) = TablesOf(pt) \cup {f} /\ f \notin TablesOf(pt)
      /\ to_virt(f) \notin DOMAIN pt.frames
      /\ \A v \in DOMAIN pt.frames : v \in DOMAIN u.frames /\ u.frames[v] = pt.frames[v]
  BY <1>1, GrownTables, Zenon
<1>4. \A e \in Frames : e # f => Lu[e] = L[e]
  BY <1>1, Zenon DEF Shape
<1> HIDE DEF Lu
<1>5. ASSUME NEW p \in M PROVE find(pt, p) # Invalid /\ find(u, p) = find(pt, p)
  <2>1. p \in Nat /\ find(pt, p) # Invalid
    BY <1>1, MappableFacts, Zenon DEF Tree
  <2> QED BY <1>1, <2>1, GrownFind, Zenon
<1>6. ASSUME NEW e \in TablesOf(u), NEW j \in Idx, Lu[e] = LEVELS - 1, u.mem[e][j] # Invalid
      PROVE  \E p \in M : find(u, p) = e /\ Last(p) = j
  <2>1. e \in Frames /\ e # f /\ e \in TablesOf(pt)
    BY <1>3, <1>6, Zenon DEF Grown, TablesOf
  <2>2. L[e] = LEVELS - 1 /\ e # pa
    <3>1. L[pa] # LEVELS - 1
      BY <1>1, LevelsAssumption DEF Shape, TablesOf
    <3> QED BY <1>4, <1>6, <2>1, <3>1, Zenon
  <2>3. pt.mem[e][j] # Invalid
    BY <1>6, <2>1, <2>2, Zenon DEF Grown
  <2>4. PICK p \in M : find(pt, p) = e /\ Last(p) = j
    BY <2>1, <2>2, <2>3, Zenon DEF Tree
  <2> QED BY <1>5, <2>4, Zenon
<1>7. ASSUME NEW p \in M
      PROVE  /\ p \in DOMAIN u.frames /\ find(u, p) # Invalid
             /\ u.mem[find(u, p)][Last(p)] = u.frames[p]
  <2>1. p \in DOMAIN pt.frames /\ pt.mem[find(pt, p)][Last(p)] = pt.frames[p]
    BY Zenon DEF Tree
  <2>2. p \in DOMAIN u.frames /\ u.frames[p] = pt.frames[p] /\ pt.frames[p] # Invalid
    <3>1. \A v \in DOMAIN pt.frames : pt.frames[v] \in Frames
      BY <1>1, PTFrames, Zenon DEF Shape
    <3> QED BY <1>3, <2>1, <3>1, InvalidNoFrame, Zenon
  <2>3. PICK e \in TablesOf(pt) : e = find(pt, p)
    <3>1. p \in Nat
      BY <1>1, MappableFacts, Zenon
    <3>2. PICK g : Walk(pt, p, g)
      BY <1>1, <3>1, WalkExists, Zenon DEF Shape, PT
    <3>3. find(pt, p) = g[LEVELS - 1] /\ LEVELS - 1 \in 0 .. LEVELS - 1
      BY <3>2, FindWalks, LevelsAssumption
    <3> QED BY <1>1, <1>5, <3>1, <3>2, <3>3, WalkLevels, Zenon
  <2>4. PICK j \in Idx : j = Last(p)
    <3>1. p \in Nat /\ LEVELS \in 1 .. LEVELS
      BY <1>1, MappableFacts, LevelsAssumption
    <3> QED BY <3>1, IndexesTyped, Zenon DEF Idx, Last
  <2>5. pt.mem[e][j] # Invalid
    BY <2>1, <2>2, <2>3, <2>4, Zenon
  <2>6. u.mem[e][j] = pt.mem[e][j]
    BY <1>3, <2>5 DEF Grown, TablesOf
  <2> QED BY <1>5, <2>1, <2>2, <2>3, <2>4, <2>6, Zenon
<1> QED BY <1>1, <1>2, <1>6, <1>7, Zenon DEF Tree, Lu

-----------------------------------------------------------------------------
(* What the operations write. *)

LEMMA InsertTyped ==
  ASSUME NEW D \in SUBSET Int, NEW m \in [D -> Frames], NEW v \in Int, NEW f \in Frames
  PROVE  Insert(m, v, f) \in UNION {[E -> Frames] : E \in SUBSET Int}
<1>1. Insert(m, v, f) \in [D \cup {v} -> Frames]
  BY Zenon DEF Insert
<1>2. D \cup {v} \in SUBSET Int
  BY Zenon
<1> QED BY <1>1, <1>2, Zenon

LEMMA RemoveTyped ==
  ASSUME NEW D \in SUBSET Int, NEW m \in [D -> Frames], NEW v \in Int
  PROVE  Remove(m, v) \in UNION {[E -> Frames] : E \in SUBSET Int}
<1>1. Remove(m, v) \in [D \ {v} -> Frames]
  BY Zenon DEF Remove
<1>2. D \ {v} \in SUBSET Int
  BY Zenon
<1> QED BY <1>1, <1>2, Zenon

Written(pt, e, j, w) == [pt EXCEPT !.mem[e][j] = w]

LEMMA EntryWritten ==
  ASSUME NEW pt \in PT, NEW e \in Frames, NEW j \in Idx, NEW w \in Ptr,
         NEW u, u = Written(pt, e, j, w)
  PROVE  /\ u.root = pt.root /\ u.frames = pt.frames /\ u \in PT
         /\ \A d \in Frames, i \in Idx : u.mem[d][i] = IF d = e /\ i = j THEN w ELSE pt.mem[d][i]
<1>1. PICK m : m = [pt.mem EXCEPT ![e] = [pt.mem[e] EXCEPT ![j] = w]]
  BY Zenon
<1>2. pt.mem \in [Frames -> [Idx -> Ptr]]
  BY Zenon DEF PT
<1>3. /\ m \in [Frames -> [Idx -> Ptr]]
      /\ \A d \in Frames, i \in Idx : m[d][i] = IF d = e /\ i = j THEN w ELSE pt.mem[d][i]
  BY <1>1, <1>2, Zenon
<1>4. u = [pt EXCEPT !.mem = m]
  BY <1>1, Zenon DEF Written
<1>5. u.root = pt.root /\ u.frames = pt.frames /\ u.mem = m /\ u \in PT
  BY <1>3, <1>4, Zenon DEF PT
<1> QED BY <1>3, <1>5, Zenon

\* A page table that differs from pt in nothing that find reads.
LEMMA ShapeKept ==
  ASSUME NEW pt, NEW L, Shape(pt, L), NEW u \in PT, u.root = pt.root,
         \A f \in TablesOf(pt), i \in Idx : L[f] < LEVELS - 1 => u.mem[f][i] = pt.mem[f][i],
         TablesOf(u) = TablesOf(pt),
         \A f \in TablesOf(pt) : u.frames[to_virt(f)] = pt.frames[to_virt(f)],
         \A v, w \in DOMAIN u.frames : u.frames[v] = u.frames[w] => v = w
  PROVE  Shape(u, L) /\ \A p \in Nat : find(u, p) = find(pt, p)
<1>1. Shape(u, L)
  <2>1. /\ L \in [Frames -> 0 .. LEVELS - 1] /\ u.root \in TablesOf(u) /\ L[u.root] = 0
        /\ \A f \in TablesOf(u) : u.frames[to_virt(f)] = f
    BY Zenon DEF Shape
  <2>2. \A f \in TablesOf(u), i \in Idx : L[f] < LEVELS - 1 /\ u.mem[f][i] # Invalid =>
          u.mem[f][i] \in TablesOf(u) /\ L[u.mem[f][i]] = L[f] + 1
    BY DEF Shape
  <2>3. ASSUME NEW f \in TablesOf(u), NEW h \in TablesOf(u), NEW i \in Idx, NEW j \in Idx,
               L[f] < LEVELS - 1, L[h] < LEVELS - 1,
               u.mem[f][i] # Invalid, u.mem[f][i] = u.mem[h][j]
        PROVE  f = h /\ i = j
    <3>1. pt.mem[f][i] # Invalid /\ pt.mem[f][i] = pt.mem[h][j]
      BY <2>3, Zenon
    <3> QED BY <2>3, <3>1, EntryUnique
  <2> QED BY <2>1, <2>2, <2>3 DEF Shape
<1>2. ASSUME NEW p \in Nat PROVE find(u, p) = find(pt, p)
  <2>1. PICK g : Walk(pt, p, g)
    BY WalkExists, Zenon DEF Shape, PT
  <2>2. ASSUME NEW k \in 1 .. LEVELS - 1
        PROVE  g[k] = IF g[k - 1] = Invalid THEN Invalid ELSE u.mem[g[k - 1]][indexes(p)[k]]
    <3>1. k - 1 \in 0 .. LEVELS - 1 /\ k - 1 < LEVELS - 1 /\ k \in 1 .. LEVELS
      BY LevelsAssumption
    <3>2. g[k - 1] # Invalid => g[k - 1] \in TablesOf(pt) /\ L[g[k - 1]] = k - 1
      BY <2>1, <3>1, WalkLevels
    <3>3. indexes(p)[k] \in Idx
      BY <3>1, IndexesTyped, Zenon DEF Idx
    <3>4. g[k - 1] # Invalid => u.mem[g[k - 1]][indexes(p)[k]] = pt.mem[g[k - 1]][indexes(p)[k]]
      BY <3>1, <3>2, <3>3, Zenon
    <3> QED BY <2>1, <3>4, Zenon DEF Walk
  <2>3. Walk(u, p, g)
    BY <2>1, <2>2, Zenon DEF Walk
  <2> QED BY <2>1, <2>3, FindWalks
<1> QED BY <1>1, <1>2, Zenon

Kept(pt, va, f) == [pt EXCEPT !.frames = Insert(@, va, f)]

\* The frame is kept under the page's address.
LEMMA KeepTree ==
  ASSUME NEW pt, NEW L, NEW M, Tree(pt, L, M), NEW va \in Mappable \ M,
         NEW f \in Frames \ Held(pt),
         NEW u, u = Kept(pt, va, f)
  PROVE  Tree(u, L, M) /\ va \in DOMAIN u.frames /\ u.frames[va] = f
<1>1. Shape(pt, L) /\ M \subseteq Mappable /\ pt \in PT /\ va \in Int
  BY MappableFacts DEF Tree, Shape
<1>2. PICK D \in SUBSET Int : pt.frames \in [D -> Frames]
  BY <1>1, Zenon DEF PT
<1>3. Insert(pt.frames, va, f) \in UNION {[E -> Frames] : E \in SUBSET Int}
  BY <1>1, <1>2, InsertTyped, Zenon
<1>4. /\ u.root = pt.root /\ u.mem = pt.mem /\ u.frames = Insert(pt.frames, va, f)
      /\ u \in PT
  BY <1>1, <1>3, Zenon DEF PT, Kept
<1>5. /\ DOMAIN u.frames = D \cup {va} /\ u.frames[va] = f
      /\ \A v \in D : v # va => u.frames[v] = pt.frames[v]
      /\ DOMAIN pt.frames = D
  BY <1>2, <1>4, Zenon DEF Insert
<1>6. TablesOf(u) = TablesOf(pt)
  <2>1. \A e \in Frames : to_virt(e) # va
    BY MappableFacts, Zenon
  <2> QED BY <1>5, <2>1, Zenon DEF TablesOf
<1>7. \A e \in TablesOf(pt) : u.frames[to_virt(e)] = pt.frames[to_virt(e)]
  <2>1. \A e \in Frames : to_virt(e) # va
    BY MappableFacts, Zenon
  <2> QED BY <1>5, <2>1, Zenon DEF TablesOf
<1>8. \A v, w \in DOMAIN u.frames : u.frames[v] = u.frames[w] => v = w
  <2>1. \A v \in D : pt.frames[v] # f
    BY <1>5, Zenon DEF Held
  <2>2. \A v, w \in D : pt.frames[v] = pt.frames[w] => v = w
    BY <1>1, <1>5, Zenon DEF Shape
  <2>3. u.frames[va] = f /\ \A v \in DOMAIN u.frames : v # va => v \in D /\ u.frames[v] = pt.frames[v]
    BY <1>5, Zenon
  <2> SUFFICES ASSUME NEW v \in DOMAIN u.frames, NEW w \in DOMAIN u.frames, u.frames[v] = u.frames[w]
               PROVE  v = w
    BY Zenon
  <2>4. CASE v = va /\ w = va
    BY <2>4, Zenon
  <2>5. CASE v = va /\ w # va
    BY <2>1, <2>3, <2>5, Zenon
  <2>6. CASE v # va /\ w = va
    BY <2>1, <2>3, <2>6, Zenon
  <2>7. CASE v # va /\ w # va
    BY <2>2, <2>3, <2>7, Zenon
  <2> QED BY <2>4, <2>5, <2>6, <2>7, Zenon
<1>9. Shape(u, L) /\ \A p \in Nat : find(u, p) = find(pt, p)
  BY <1>1, <1>4, <1>6, <1>7, <1>8, ShapeKept, Zenon
<1>10. \A p \in M : p \in Nat /\ p # va
  BY <1>1, MappableFacts, Zenon
<1>11. \A e \in TablesOf(u), i \in Idx : L[e] = LEVELS - 1 /\ u.mem[e][i] # Invalid =>
         \E p \in M : find(u, p) = e /\ Last(p) = i
  BY <1>4, <1>6, <1>9, <1>10 DEF Tree
<1>12. \A p \in M : /\ p \in DOMAIN u.frames /\ find(u, p) # Invalid
                    /\ u.mem[find(u, p)][Last(p)] = u.frames[p]
  BY <1>4, <1>5, <1>9, <1>10, Zenon DEF Tree
<1> QED BY <1>1, <1>5, <1>9, <1>11, <1>12, Zenon DEF Tree
\* Where find ends is a table on the last level.
LEMMA FindTable ==
  ASSUME NEW pt, NEW L, Shape(pt, L), NEW p \in Nat, find(pt, p) # Invalid
  PROVE  /\ find(pt, p) \in TablesOf(pt) /\ find(pt, p) \in Frames
         /\ L[find(pt, p)] = LEVELS - 1 /\ Last(p) \in Idx
<1>1. LEVELS \in 1 .. LEVELS /\ LEVELS - 1 \in 0 .. LEVELS - 1
  BY LevelsAssumption
<1>2. PICK g : Walk(pt, p, g)
  BY <1>1, WalkExists, Zenon DEF Shape, PT
<1>3. find(pt, p) = g[LEVELS - 1]
  BY <1>2, FindWalks, Zenon
<1>4. find(pt, p) \in TablesOf(pt) /\ L[find(pt, p)] = LEVELS - 1
  BY <1>1, <1>2, <1>3, WalkLevels
<1>5. Last(p) \in Idx
  BY <1>1, IndexesTyped, Zenon DEF Idx, Last
<1> QED BY <1>4, <1>5, Zenon DEF TablesOf

\* The entry of va is set to the frame that is kept for it.
LEMMA EntryTree ==
  ASSUME NEW pt, NEW L, NEW M, Tree(pt, L, M), NEW va \in Mappable \ M,
         find(pt, va) # Invalid, va \in DOMAIN pt.frames
  PROVE  Tree([pt EXCEPT !.mem[find(pt, va)][Last(va)] = pt.frames[va]], L, M \cup {va})
<1>0. PICK u : u = [pt EXCEPT !.mem[find(pt, va)][Last(va)] = pt.frames[va]]
  BY Zenon
<1>1. Shape(pt, L) /\ M \subseteq Mappable /\ pt \in PT
  BY Zenon DEF Tree, Shape
<1>2. PICK e \in TablesOf(pt) : e = find(pt, va) /\ e \in Frames /\ L[e] = LEVELS - 1
  BY <1>1, FindTable, MappableFacts, Zenon
<1>3. PICK j \in Idx : j = Last(va)
  BY <1>1, FindTable, MappableFacts, Zenon
<1>4. PICK f \in Frames : f = pt.frames[va]
  BY <1>1, PTFrames, Zenon
<1>5. u = Written(pt, e, j, f)
  BY <1>0, <1>2, <1>3, <1>4, Zenon DEF Written
<1>6. f \in Ptr
  BY <1>4, Zenon DEF Ptr
<1>7. /\ u.root = pt.root /\ u.frames = pt.frames /\ u \in PT
      /\ \A d \in Frames, i \in Idx : u.mem[d][i] = IF d = e /\ i = j THEN f ELSE pt.mem[d][i]
  <2>1. pt \in PT /\ e \in Frames
    BY <1>1, <1>2, Zenon
  <2> QED BY <1>5, <1>6, <2>1, EntryWritten
<1>8. TablesOf(u) = TablesOf(pt)
  BY <1>7, Zenon DEF TablesOf
<1>9. \A d \in TablesOf(pt), i \in Idx : L[d] < LEVELS - 1 => u.mem[d][i] = pt.mem[d][i]
  BY <1>2, <1>7, LevelsAssumption DEF TablesOf
<1>10. Shape(u, L) /\ \A p \in Nat : find(u, p) = find(pt, p)
  <2>1. \A v, w \in DOMAIN u.frames : u.frames[v] = u.frames[w] => v = w
    BY <1>1, <1>7, Zenon DEF Shape
  <2>2. \A d \in TablesOf(pt) : u.frames[to_virt(d)] = pt.frames[to_virt(d)]
    BY <1>7, Zenon
  <2>3. u \in PT /\ u.root = pt.root
    BY <1>7, Zenon
  <2> QED BY <1>1, <1>8, <1>9, <2>1, <2>2, <2>3, ShapeKept
<1>11. \A p \in M \cup {va} : p \in Nat /\ p \in Mappable
  BY <1>1, MappableFacts, Zenon
<1>12. ASSUME NEW d \in TablesOf(u), NEW i \in Idx, L[d] = LEVELS - 1, u.mem[d][i] # Invalid
       PROVE  \E p \in M \cup {va} : find(u, p) = d /\ Last(p) = i
  <2>1. CASE d = e /\ i = j
    BY <1>2, <1>3, <1>10, <1>11, <2>1, Zenon
  <2>2. CASE ~ (d = e /\ i = j)
    <3>1. pt.mem[d][i] # Invalid /\ d \in TablesOf(pt)
      BY <1>7, <1>8, <1>12, <2>2, Zenon DEF TablesOf
    <3>2. PICK p \in M : find(pt, p) = d /\ Last(p) = i
      BY <1>12, <3>1, Zenon DEF Tree
    <3> QED BY <1>10, <1>11, <3>2, Zenon
  <2> QED BY <2>1, <2>2, Zenon
<1>13. ASSUME NEW p \in M \cup {va}
       PROVE  /\ p \in DOMAIN u.frames /\ find(u, p) # Invalid
              /\ u.mem[find(u, p)][Last(p)] = u.frames[p]
  <2>1. CASE p = va
    BY <1>2, <1>3, <1>4, <1>7, <1>10, <1>11, <2>1, Zenon
  <2>2. CASE p # va
    <3>1. /\ p \in M /\ p \in DOMAIN pt.frames /\ find(pt, p) # Invalid
          /\ pt.mem[find(pt, p)][Last(p)] = pt.frames[p]
      BY <2>2, Zenon DEF Tree
    <3>2. find(pt, p) \in Frames /\ Last(p) \in Idx
      BY <1>1, <1>11, <3>1, FindTable, Zenon
    <3>3. ~ (find(pt, p) = e /\ Last(p) = j)
      <4>1. p \in 0 .. Span[LEVELS] - 1 /\ va \in 0 .. Span[LEVELS] - 1
        BY <1>11, MappableFacts, Zenon
      <4> QED BY <1>1, <1>2, <1>3, <2>2, <3>1, <4>1, OnePage, Zenon
    <3> QED BY <1>7, <1>10, <1>11, <3>1, <3>2, <3>3, Zenon
  <2> QED BY <2>1, <2>2, Zenon
<1>14. Tree(u, L, M \cup {va})
  BY <1>1, <1>10, <1>12, <1>13 DEF Tree
<1> QED BY <1>0, <1>14, Zenon

\* unmap finds the entry of a mapped page; no other page's is touched.
LEMMA UnmapTree ==
  ASSUME NEW pt, NEW L, NEW M, Tree(pt, L, M), NEW va \in M
  PROVE  unmap(pt, va).ok = TRUE /\ Tree(unmap(pt, va).pt, L, M \ {va})
<1>1. /\ Shape(pt, L) /\ M \subseteq Mappable /\ pt \in PT /\ va \in Mappable
      /\ va \in DOMAIN pt.frames /\ find(pt, va) # Invalid
  BY Zenon DEF Tree, Shape
<1>2. PICK e \in TablesOf(pt) : e = find(pt, va) /\ e \in Frames /\ L[e] = LEVELS - 1
  BY <1>1, FindTable, MappableFacts, Zenon
<1>3. PICK j \in Idx : j = Last(va)
  BY <1>1, FindTable, MappableFacts, Zenon
<1>4. PICK u : u = unmap(pt, va).pt
  BY Zenon
<1>5. /\ unmap(pt, va).ok = TRUE
      /\ u = [[pt EXCEPT !.frames = Remove(@, va)] EXCEPT !.mem[e][j] = Invalid]
  BY <1>1, <1>2, <1>3, <1>4, Zenon DEF unmap, Last
<1>6. PICK D \in SUBSET Int : pt.frames \in [D -> Frames]
  BY <1>1, Zenon DEF PT
<1>7. Remove(pt.frames, va) \in UNION {[E -> Frames] : E \in SUBSET Int}
  BY <1>1, <1>6, RemoveTyped, MappableFacts, Zenon
<1>8. Invalid \in Ptr
  BY Zenon DEF Ptr
<1>9. /\ u.root = pt.root /\ u.frames = Remove(pt.frames, va) /\ u \in PT
      /\ \A d \in Frames, i \in Idx : u.mem[d][i] = IF d = e /\ i = j THEN Invalid ELSE pt.mem[d][i]
  BY <1>1, <1>2, <1>5, <1>7, <1>8, Zenon DEF PT
<1>10. /\ DOMAIN u.frames = D \ {va} /\ DOMAIN pt.frames = D
       /\ \A v \in D \ {va} : u.frames[v] = pt.frames[v]
  BY <1>6, <1>9, Zenon DEF Remove
<1>11. \A d \in Frames : to_virt(d) # va
  BY <1>1, MappableFacts, Zenon
<1>12. TablesOf(u) = TablesOf(pt)
  BY <1>10, <1>11, Zenon DEF TablesOf
<1>13. \A d \in TablesOf(pt) : u.frames[to_virt(d)] = pt.frames[to_virt(d)]
  BY <1>10, <1>11, Zenon DEF TablesOf
<1>14. \A d \in TablesOf(pt), i \in Idx : L[d] < LEVELS - 1 => u.mem[d][i] = pt.mem[d][i]
  BY <1>2, <1>9, LevelsAssumption DEF TablesOf
<1>15. Shape(u, L) /\ \A p \in Nat : find(u, p) = find(pt, p)
  <2>1. \A v, w \in DOMAIN u.frames : u.frames[v] = u.frames[w] => v = w
    BY <1>1, <1>10, Zenon DEF Shape
  <2> QED BY <1>1, <1>9, <1>12, <1>13, <1>14, <2>1, ShapeKept
<1>16. \A p \in M : p \in Nat /\ p \in Mappable
  BY <1>1, MappableFacts, Zenon
<1>17. ASSUME NEW d \in TablesOf(u), NEW i \in Idx, L[d] = LEVELS - 1, u.mem[d][i] # Invalid
       PROVE  \E p \in M \ {va} : find(u, p) = d /\ Last(p) = i
  <2>1. ~ (d = e /\ i = j) /\ pt.mem[d][i] # Invalid /\ d \in TablesOf(pt)
    BY <1>9, <1>12, <1>17, Zenon DEF TablesOf
  <2>2. PICK p \in M : find(pt, p) = d /\ Last(p) = i
    BY <1>17, <2>1, Zenon DEF Tree
  <2> QED BY <1>2, <1>3, <1>15, <1>16, <2>1, <2>2, Zenon
<1>18. ASSUME NEW p \in M \ {va}
       PROVE  /\ p \in DOMAIN u.frames /\ find(u, p) # Invalid
              /\ u.mem[find(u, p)][Last(p)] = u.frames[p]
  <2>1. /\ p \in DOMAIN pt.frames /\ find(pt, p) # Invalid
        /\ pt.mem[find(pt, p)][Last(p)] = pt.frames[p]
    BY Zenon DEF Tree
  <2>2. find(pt, p) \in Frames /\ Last(p) \in Idx
    BY <1>1, <1>16, <2>1, FindTable, Zenon
  <2>3. ~ (find(pt, p) = e /\ Last(p) = j)
    <3>1. p \in 0 .. Span[LEVELS] - 1 /\ va \in 0 .. Span[LEVELS] - 1
      BY <1>16, MappableFacts, Zenon
    <3> QED BY <1>1, <1>2, <1>3, <2>1, <3>1, OnePage, Zenon
  <2> QED BY <1>9, <1>10, <1>15, <1>16, <2>1, <2>2, <2>3, Zenon
<1>19. Tree(u, L, M \ {va})
  BY <1>1, <1>15, <1>17, <1>18, Zenon DEF Tree
<1> QED BY <1>4, <1>5, <1>19, Zenon

-----------------------------------------------------------------------------
(* find_or_create *)

Grow(pt, pa, i, f) ==
  [pt EXCEPT !.mem[f] = Zeroed, !.mem[pa][i] = f, !.frames = Insert(@, to_virt(f), f)]

LEMMA GrowExact ==
  ASSUME NEW pt \in PT, NEW pa \in Frames, NEW i \in Idx, NEW f \in Frames
  PROVE  /\ Grow(pt, pa, i, f) \in PT
         /\ pa # f => Grown(pt, Grow(pt, pa, i, f), pa, i, f)
<1>1. PICK m : m = [pt.mem EXCEPT ![f] = Zeroed]
  BY Zenon
<1>2. PICK n : n = [m EXCEPT ![pa] = [m[pa] EXCEPT ![i] = f]]
  BY Zenon
<1>3. PICK fr : fr = Insert(pt.frames, to_virt(f), f)
  BY Zenon
<1>4. PICK u : u = Grow(pt, pa, i, f)
  BY Zenon
<1>5. u = [root |-> pt.root, mem |-> n, frames |-> fr]
  <2>1. pt = [root |-> pt.root, mem |-> pt.mem, frames |-> pt.frames]
    BY Zenon DEF PT
  <2>2. PICK a : a = [pt EXCEPT !.mem[f] = Zeroed]
    BY Zenon
  <2>3. a = [root |-> pt.root, mem |-> m, frames |-> pt.frames]
    BY <1>1, <2>1, <2>2, Zenon
  <2>4. PICK b : b = [a EXCEPT !.mem[pa][i] = f]
    BY Zenon
  <2>5. b = [root |-> pt.root, mem |-> n, frames |-> pt.frames]
    BY <1>2, <2>3, <2>4, Zenon
  <2>6. u = [b EXCEPT !.frames = Insert(@, to_virt(f), f)]
    BY <1>4, <2>2, <2>4, Zenon DEF Grow
  <2> QED BY <1>3, <2>5, <2>6, Zenon
<1>6. pt.mem \in [Frames -> [Idx -> Ptr]] /\ Zeroed \in [Idx -> Ptr] /\ f \in Ptr
  BY Zenon DEF PT, Zeroed, Idx, Ptr
<1>7. m \in [Frames -> [Idx -> Ptr]] /\ \A d \in Frames : m[d] = IF d = f THEN Zeroed ELSE pt.mem[d]
  BY <1>1, <1>6, Zenon
<1>8. /\ n \in [Frames -> [Idx -> Ptr]]
      /\ \A d \in Frames, j \in Idx : n[d][j] = IF d = pa /\ j = i THEN f ELSE m[d][j]
  BY <1>2, <1>6, <1>7, Zenon
<1>9. \A j \in Idx : Zeroed[j] = Invalid
  BY Zenon DEF Zeroed, Idx
<1>10. PICK D \in SUBSET Int : pt.frames \in [D -> Frames]
  BY Zenon DEF PT
<1>11. to_virt(f) \in Int
  BY MappableFacts, Zenon
<1>12. fr \in UNION {[E -> Frames] : E \in SUBSET Int}
  BY <1>3, <1>10, <1>11, InsertTyped, Zenon
<1>13. u.root = pt.root /\ u.mem = n /\ u.frames = fr /\ u \in PT
  BY <1>5, <1>8, <1>12, Zenon DEF PT
<1>14. /\ DOMAIN fr = D \cup {to_virt(f)} /\ DOMAIN pt.frames = D /\ fr[to_virt(f)] = f
       /\ \A v \in D : v # to_virt(f) => fr[v] = pt.frames[v]
  BY <1>3, <1>10, Zenon DEF Insert
<1>15. ASSUME pa # f PROVE Grown(pt, u, pa, i, f)
  <2>1. \A e \in Frames, j \in Idx :
          n[e][j] = IF e = f THEN Invalid ELSE IF e = pa /\ j = i THEN f ELSE pt.mem[e][j]
    BY <1>7, <1>8, <1>9, <1>15
  <2> QED BY <1>13, <1>14, <2>1, Zenon DEF Grown
<1> QED BY <1>4, <1>13, <1>15, Zenon

LEMMA DescendCases ==
  ASSUME NEW r, NEW i, NEW h
  PROVE  \/ r.pa = Invalid /\ Descend(r, i, h) = r
         \/ /\ r.pa # Invalid /\ r.pt.mem[r.pa][i] # Invalid
            /\ Descend(r, i, h) = [r EXCEPT !.pa = r.pt.mem[r.pa][i]]
         \/ /\ r.pa # Invalid /\ r.pt.mem[r.pa][i] = Invalid
            /\ Descend(r, i, h) = [r EXCEPT !.pa = Invalid]
         \/ /\ r.pa # Invalid /\ r.pt.mem[r.pa][i] = Invalid
            /\ \E f \in Frames \ Held(r.pt) :
                 Descend(r, i, h) = [pt |-> Grow(r.pt, r.pa, i, f), pa |-> f]
<1>1. ASSUME Free(r.pt, h) # {} PROVE Alloc(r.pt, h) \in Frames \ Held(r.pt)
  <2>1. Alloc(r.pt, h) \in Free(r.pt, h)
    BY <1>1, Zenon DEF Alloc
  <2> QED BY <2>1, Zenon DEF Free
<1>2. CASE r.pa # Invalid /\ r.pt.mem[r.pa][i] = Invalid /\ Free(r.pt, h) # {}
  <2>1. Descend(r, i, h) = [pt |-> Grow(r.pt, r.pa, i, Alloc(r.pt, h)), pa |-> Alloc(r.pt, h)]
    BY <1>2, Zenon DEF Descend, Grow
  <2> QED BY <1>1, <1>2, <2>1, Zenon
<1>3. CASE ~ (r.pa # Invalid /\ r.pt.mem[r.pa][i] = Invalid /\ Free(r.pt, h) # {})
  BY <1>3, Zenon DEF Descend
<1> QED BY <1>2, <1>3, Zenon

At == [pt : PT, pa : Ptr]

LEMMA DescendTyped ==
  ASSUME NEW r \in At, NEW i \in Idx, NEW h
  PROVE  Descend(r, i, h) \in At
<1>1. r.pt \in PT /\ r.pa \in Ptr /\ r.pt.mem \in [Frames -> [Idx -> Ptr]]
  BY Zenon DEF At, PT
<1>2. r.pa # Invalid => r.pa \in Frames
  BY <1>1, Zenon DEF Ptr
<1>3. CASE r.pa = Invalid /\ Descend(r, i, h) = r
  BY <1>3, Zenon
<1>4. CASE /\ r.pa # Invalid /\ r.pt.mem[r.pa][i] # Invalid
           /\ Descend(r, i, h) = [r EXCEPT !.pa = r.pt.mem[r.pa][i]]
  <2>1. r.pt.mem[r.pa][i] \in Ptr
    BY <1>1, <1>2, <1>4, Zenon
  <2> QED BY <1>4, <2>1, Zenon DEF At
<1>5. CASE Descend(r, i, h) = [r EXCEPT !.pa = Invalid]
  BY <1>5, Zenon DEF At, Ptr
<1>6. CASE /\ r.pa # Invalid
           /\ \E f \in Frames \ Held(r.pt) :
                 Descend(r, i, h) = [pt |-> Grow(r.pt, r.pa, i, f), pa |-> f]
  <2>1. PICK f \in Frames \ Held(r.pt) : Descend(r, i, h) = [pt |-> Grow(r.pt, r.pa, i, f), pa |-> f]
    BY <1>6, Zenon
  <2>2. Grow(r.pt, r.pa, i, f) \in PT
    BY <1>1, <1>2, <1>6, GrowExact, Zenon
  <2> QED BY <2>1, <2>2 DEF At, Ptr
<1> QED BY <1>3, <1>4, <1>5, <1>6, DescendCases
\* How things stand after k turns of the loop: the pages of M are as they were,
\* f is kept for va, and r.pa is the k-th table on the way to va.
Good(r, va, f, M, k) ==
  /\ \E L : Tree(r.pt, L, M)
  /\ va \in DOMAIN r.pt.frames /\ r.pt.frames[va] = f
  /\ r.pa # Invalid => \E g : Walk(r.pt, va, g) /\ g[k] = r.pa

\* The walk to va goes one table further.
LEMMA GrownLonger ==
  ASSUME NEW pt, NEW L, Shape(pt, L), NEW va \in Nat, NEW g, Walk(pt, va, g),
         NEW k \in 1 .. LEVELS - 1, g[k - 1] # Invalid, g[k] = Invalid,
         NEW f \in Frames \ Held(pt), NEW u, Grown(pt, u, g[k - 1], indexes(va)[k], f)
  PROVE  \E w : Walk(u, va, w) /\ w[k] = f
<1> DEFINE w == [g EXCEPT ![k] = f]
<1>1. LEVELS - 1 \in Nat /\ g \in [0 .. LEVELS - 1 -> Ptr] /\ f \in Ptr /\ k \in 0 .. LEVELS - 1
  BY LevelsAssumption DEF Walk, Ptr
<1>2. w \in [0 .. LEVELS - 1 -> Ptr] /\ w[k] = f /\ \A n \in 0 .. LEVELS - 1 : n # k => w[n] = g[n]
  BY <1>1, Zenon
<1> HIDE DEF w
<1>3. w[0] = u.root
  BY <1>1, <1>2, SMTT(30) DEF Walk, Grown
<1>4. ASSUME NEW n \in 1 .. LEVELS - 1
      PROVE  w[n] = IF w[n - 1] = Invalid THEN Invalid ELSE u.mem[w[n - 1]][indexes(va)[n]]
  <2>1. n \in 0 .. LEVELS - 1 /\ n - 1 \in 0 .. LEVELS - 1 /\ n \in 1 .. LEVELS
    BY LevelsAssumption
  <2>2. PICK j \in Idx : j = indexes(va)[n]
    BY <2>1, IndexesTyped, Zenon DEF Idx
  <2>3. g[n] = IF g[n - 1] = Invalid THEN Invalid ELSE pt.mem[g[n - 1]][j]
    BY <2>2, Zenon DEF Walk
  <2>4. g[n - 1] # Invalid => g[n - 1] \in TablesOf(pt) /\ L[g[n - 1]] = n - 1
    BY <2>1, WalkLevels
  <2>5. g[n - 1] # Invalid => g[n - 1] \in Frames /\ g[n - 1] # f
    BY <2>4, TablesHeld, Zenon
  <2>6. CASE n = k
    <3>1. w[n - 1] = g[n - 1] /\ g[n - 1] # Invalid
      BY <1>2, <2>1, <2>6, Zenon
    <3>2. u.mem[g[n - 1]][j] = f
      BY <2>2, <2>5, <2>6, <3>1, Zenon DEF Grown
    <3> QED BY <1>2, <2>2, <2>6, <3>1, <3>2, Zenon
  <2>7. CASE n - 1 = k
    <3>1. w[n - 1] = f /\ w[n] = g[n] /\ n # k
      BY <1>2, <2>1, <2>7, Zenon
    <3>2. g[n - 1] = Invalid /\ g[n] = Invalid
      BY <2>3, <2>7, Zenon
    <3>3. u.mem[f][j] = Invalid
      BY Zenon DEF Grown
    <3> QED BY <2>2, <3>1, <3>2, <3>3, Zenon
  <2>8. CASE n # k /\ n - 1 # k
    <3>1. w[n - 1] = g[n - 1] /\ w[n] = g[n]
      BY <1>2, <2>1, <2>8, Zenon
    <3>2. g[n - 1] # Invalid => g[n - 1] # g[k - 1]
      <4>1. k - 1 \in 0 .. LEVELS - 1 /\ n - 1 # k - 1
        BY <1>1, <2>8
      <4>2. L[g[k - 1]] = k - 1
        BY <4>1, WalkLevels
      <4> QED BY <2>4, <4>1, <4>2, Zenon
    <3>3. g[n - 1] # Invalid => u.mem[g[n - 1]][j] = pt.mem[g[n - 1]][j]
      BY <2>5, <3>2, Zenon DEF Grown
    <3> QED BY <2>2, <2>3, <3>1, <3>3, Zenon
  <2> QED BY <2>6, <2>7, <2>8, Zenon
<1>5. Walk(u, va, w)
  BY <1>2, <1>3, <1>4, Zenon DEF Walk
<1> QED BY <1>2, <1>5, Zenon

LEMMA DescendGood ==
  ASSUME NEW r \in At, NEW va \in Mappable, NEW f, NEW M, NEW k \in 1 .. LEVELS - 1,
         Good(r, va, f, M, k - 1), NEW h
  PROVE  Good(Descend(r, indexes(va)[k], h), va, f, M, k)
<1>1. PICK i \in Idx : i = indexes(va)[k]
  <2>1. va \in Nat /\ k \in 1 .. LEVELS
    BY MappableFacts, LevelsAssumption
  <2> QED BY <2>1, IndexesTyped, Zenon DEF Idx
<1>2. PICK L : Tree(r.pt, L, M)
  BY Zenon DEF Good
<1>3. /\ Shape(r.pt, L) /\ r.pt \in PT /\ va \in Nat /\ va \in DOMAIN r.pt.frames
      /\ r.pt.frames[va] = f
  BY <1>2, MappableFacts, Zenon DEF Good, Tree, Shape
<1>4. PICK s : s = Descend(r, i, h)
  BY Zenon
<1>5. r = [pt |-> r.pt, pa |-> r.pa]
  BY Zenon DEF At
<1>6. CASE r.pa = Invalid /\ s = r
  BY <1>1, <1>4, <1>6, Zenon DEF Good
<1>7. CASE s = [r EXCEPT !.pa = Invalid]
  <2>1. s.pt = r.pt /\ s.pa = Invalid
    BY <1>5, <1>7, Zenon
  <2>2. Good(s, va, f, M, k)
    BY <1>2, <1>3, <2>1, Zenon DEF Good
  <2> QED BY <1>1, <1>4, <2>2, Zenon
<1>8. ASSUME r.pa # Invalid
      PROVE  \E g : Walk(r.pt, va, g) /\ g[k - 1] = r.pa /\ g[k] = r.pt.mem[r.pa][i]
  <2>1. PICK g : Walk(r.pt, va, g) /\ g[k - 1] = r.pa
    BY <1>8, Zenon DEF Good
  <2>2. g[k] = r.pt.mem[r.pa][i]
    BY <1>1, <1>8, <2>1, Zenon DEF Walk
  <2> QED BY <2>1, <2>2, Zenon
<1>9. CASE r.pa # Invalid /\ s = [r EXCEPT !.pa = r.pt.mem[r.pa][i]]
  <2>1. s.pt = r.pt /\ s.pa = r.pt.mem[r.pa][i]
    BY <1>5, <1>9, Zenon
  <2>2. Good(s, va, f, M, k)
    BY <1>2, <1>3, <1>8, <1>9, <2>1, Zenon DEF Good
  <2> QED BY <1>1, <1>4, <2>2, Zenon
<1>10. CASE /\ r.pa # Invalid /\ r.pt.mem[r.pa][i] = Invalid
            /\ \E e \in Frames \ Held(r.pt) : s = [pt |-> Grow(r.pt, r.pa, i, e), pa |-> e]
  <2>1. PICK e \in Frames \ Held(r.pt) : s = [pt |-> Grow(r.pt, r.pa, i, e), pa |-> e]
    BY <1>10, Zenon
  <2>2. PICK g : Walk(r.pt, va, g) /\ g[k - 1] = r.pa /\ g[k] = Invalid
    BY <1>8, <1>10, Zenon
  <2>3. k - 1 \in 0 .. LEVELS - 1 /\ k - 1 < LEVELS - 1
    BY LevelsAssumption
  <2>4. r.pa \in TablesOf(r.pt) /\ L[r.pa] < LEVELS - 1
    <3>1. r.pa \in TablesOf(r.pt) /\ L[r.pa] = k - 1
      BY <1>3, <1>10, <2>2, <2>3, WalkLevels
    <3> QED BY <2>3, <3>1, Zenon
  <2>5. r.pa \in Frames /\ r.pa # e
    BY <1>3, <2>4, TablesHeld, Zenon
  <2>6. PICK u : u = Grow(r.pt, r.pa, i, e)
    BY Zenon
  <2>7. Grown(r.pt, u, r.pa, i, e)
    BY <1>3, <2>5, <2>6, GrowExact, Zenon
  <2>8. Tree(u, [L EXCEPT ![e] = L[r.pa] + 1], M)
    BY <1>2, <1>10, <2>4, <2>7, GrownTree, Zenon
  <2>9. va \in DOMAIN u.frames /\ u.frames[va] = f
    BY <1>3, <2>7, GrownTables, Zenon
  <2>10. \E w : Walk(u, va, w) /\ w[k] = e
    BY <1>1, <1>3, <1>10, <2>2, <2>7, GrownLonger
  <2>11. s.pt = u /\ s.pa = e
    BY <2>1, <2>6, Zenon
  <2>12. Good(s, va, f, M, k)
    BY <2>8, <2>9, <2>10, <2>11, Zenon DEF Good
  <2> QED BY <1>1, <1>4, <2>12, Zenon
<1> QED BY <1>4, <1>6, <1>7, <1>9, <1>10, DescendCases

\* The tables that find_or_create goes through, with the page table it makes.
Descent(g, pt, va, h) ==
  /\ g \in [0 .. LEVELS - 1 -> At] /\ g[0] = [pt |-> pt, pa |-> pt.root]
  /\ \A k \in 1 .. LEVELS - 1 : g[k] = Descend(g[k - 1], indexes(va)[k], h)
  /\ find_or_create(pt, va, h) = g[LEVELS - 1]

LEMMA FindOrCreatePath ==
  ASSUME NEW pt \in PT, NEW va \in Nat, NEW h
  PROVE  \E g : Descent(g, pt, va, h)
<1> DEFINE N == LEVELS - 1
           x == [pt |-> pt, pa |-> pt.root]
           step == [k \in 1 .. N |-> [r \in At |-> Descend(r, indexes(va)[k], h)]]
<1>1. N \in Nat /\ \A k \in 1 .. N : k \in 1 .. LEVELS
  BY LevelsAssumption
<1>2. ASSUME NEW k \in 1 .. N, NEW r \in At PROVE Descend(r, indexes(va)[k], h) \in At
  <2>1. indexes(va)[k] \in Idx
    BY <1>1, IndexesTyped, Zenon DEF Idx
  <2> QED BY <2>1, DescendTyped, Zenon
<1>3. step \in [1 .. N -> [At -> At]]
  BY <1>2, Zenon
<1>4. x \in At
  BY Zenon DEF At, Ptr, PT
<1>5. PICK g : Path(g, At, N, x, step)
  <2> HIDE DEF step, N, x
  <2> QED BY <1>1, <1>3, <1>4, Iterates, Zenon
<1>6. ASSUME NEW k \in 1 .. N PROVE g[k - 1] \in At /\ g[k] = Descend(g[k - 1], indexes(va)[k], h)
  <2>1. k - 1 \in 0 .. N
    BY <1>1
  <2> HIDE DEF N
  <2>2. g[k - 1] \in At /\ g[k] = step[k][g[k - 1]]
    BY <1>5, <2>1, Zenon DEF Path
  <2> QED BY <2>2, Zenon
<1>7. g \in [0 .. N -> At] /\ g[0] = x
  BY <1>5, Zenon DEF Path
<1> DEFINE Fun(a) == [k \in 0 .. LEVELS - 1 |->
             IF k = 0 THEN [pt |-> pt, pa |-> pt.root] ELSE Descend(a[k - 1], indexes(va)[k], h)]
           at == CHOOSE a : a = Fun(a)
<1>8. g = Fun(g)
  BY <1>1, <1>6, <1>7
<1>9. at = Fun(at)
  BY <1>8, Zenon
<1>10. find_or_create(pt, va, h) = at[N]
  BY Zenon DEF find_or_create
<1> HIDE DEF at
<1>11. at[0] = x /\ \A k \in 1 .. N : at[k] = Descend(at[k - 1], indexes(va)[k], h)
  <2>1. PICK a : a = at
    BY Zenon
  <2>2. a = [k \in 0 .. LEVELS - 1 |->
              IF k = 0 THEN [pt |-> pt, pa |-> pt.root] ELSE Descend(a[k - 1], indexes(va)[k], h)]
    BY <1>9, <2>1, Zenon
  <2>3. \A k \in 0 .. LEVELS - 1 :
          a[k] = IF k = 0 THEN [pt |-> pt, pa |-> pt.root] ELSE Descend(a[k - 1], indexes(va)[k], h)
    BY <2>2, Zenon
  <2>4. 0 \in 0 .. LEVELS - 1 /\ \A k \in 1 .. N : k \in 0 .. LEVELS - 1 /\ k # 0
    BY <1>1
  <2> QED BY <2>1, <2>3, <2>4, Zenon
<1> DEFINE S == {k \in 0 .. N : at[k] = g[k]}
<1>12. 0 \in S
  BY <1>1, <1>7, <1>11
<1>13. ASSUME NEW k \in 0 .. N - 1, k \in S PROVE k + 1 \in S
  <2>1. k + 1 \in 1 .. N /\ (k + 1) - 1 = k /\ k + 1 \in 0 .. N
    BY <1>1
  <2>2. at[k + 1] = g[k + 1]
    BY <1>6, <1>11, <1>13, <2>1, Zenon
  <2> QED BY <2>1, <2>2, Zenon
<1> HIDE DEF S, x
<1>14. \A k \in 0 .. N : k \in S
  <2> HIDE DEF N
  <2> QED BY <1>1, <1>12, <1>13, UpTo, Zenon
<1>15. at[N] = g[N]
  BY <1>1, <1>14 DEF S
<1> QED BY <1>6, <1>7, <1>10, <1>15, Zenon DEF x, Descent

LEMMA FindOrCreateGood ==
  ASSUME NEW pt, NEW L, NEW M, Tree(pt, L, M), NEW va \in Mappable, va \in DOMAIN pt.frames, NEW h
  PROVE  Good(find_or_create(pt, va, h), va, pt.frames[va], M, LEVELS - 1)
<1>1. pt \in PT /\ va \in Nat /\ Shape(pt, L) /\ LEVELS - 1 \in Nat
  BY MappableFacts, LevelsAssumption DEF Tree, Shape
<1>2. PICK f : f = pt.frames[va]
  BY Zenon
<1>3. PICK g : Descent(g, pt, va, h)
  BY <1>1, FindOrCreatePath, Zenon
<1> DEFINE S == {k \in 0 .. LEVELS - 1 : Good(g[k], va, f, M, k)}
<1>4. 0 \in S
  <2>1. PICK w : Walk(pt, va, w)
    BY <1>1, WalkExists, Zenon DEF PT
  <2>2. w[0] = pt.root
    BY <2>1, Zenon DEF Walk
  <2>3. g[0].pt = pt /\ g[0].pa = pt.root
    BY <1>3 DEF Descent
  <2>4. Good(g[0], va, f, M, 0)
    BY <1>2, <2>1, <2>2, <2>3, Zenon DEF Good
  <2>5. 0 \in 0 .. LEVELS - 1
    BY <1>1
  <2> QED BY <2>4, <2>5, Zenon
<1>5. ASSUME NEW k \in 0 .. (LEVELS - 1) - 1, k \in S PROVE k + 1 \in S
  <2>1. PICK n \in 1 .. LEVELS - 1 : n = k + 1
    BY <1>1
  <2>2. n - 1 = k /\ n \in 0 .. LEVELS - 1 /\ n - 1 \in 0 .. LEVELS - 1
    BY <1>1, <2>1
  <2>3. g[n - 1] \in At /\ g[n] = Descend(g[n - 1], indexes(va)[n], h)
    BY <1>3, <2>2, Zenon DEF Descent
  <2>4. Good(g[n - 1], va, f, M, n - 1)
    BY <1>5, <2>2, Zenon
  <2>5. Good(g[n], va, f, M, n)
    BY <2>3, <2>4, DescendGood, Zenon
  <2> QED BY <2>1, <2>2, <2>5, Zenon
<1> HIDE DEF S
<1>6. \A k \in 0 .. LEVELS - 1 : k \in S
  BY <1>1, <1>4, <1>5, UpTo, Zenon
<1>7. Good(g[LEVELS - 1], va, f, M, LEVELS - 1)
  BY <1>1, <1>6 DEF S
<1> QED BY <1>2, <1>3, <1>7, Zenon DEF Descent

\* va has been added to the pages of M, or nothing has; the others are as they were.
Outcome(r, va, M) ==
  \/ r.ok = TRUE /\ \E L : Tree(r.pt, L, M \cup {va})
  \/ r.ok = FALSE /\ \E L : Tree(r.pt, L, M)

LEMMA MapTree ==
  ASSUME NEW pt, NEW L, NEW M, Tree(pt, L, M), NEW va \in Mappable \ M,
         NEW f \in Frames \ Held(pt), NEW h
  PROVE  Outcome(map(pt, va, f, h), va, M)
<1>1. PICK u : u = Kept(pt, va, f)
  BY Zenon
<1>2. Tree(u, L, M) /\ va \in DOMAIN u.frames /\ u.frames[va] = f
  BY <1>1, KeepTree
<1>3. PICK s : s = find_or_create(u, va, h)
  BY Zenon
<1>4. Good(s, va, f, M, LEVELS - 1)
  BY <1>2, <1>3, FindOrCreateGood, Zenon
<1>5. map(pt, va, f, h) = IF s.pa = Invalid
        THEN [pt |-> s.pt, ok |-> FALSE]
        ELSE [pt |-> [s.pt EXCEPT !.mem[s.pa][Last(va)] = f], ok |-> TRUE]
  BY <1>1, <1>3, Zenon DEF map, Last, Kept
<1>6. PICK r : r = map(pt, va, f, h)
  BY Zenon
<1>7. CASE s.pa = Invalid
  <2>1. r.ok = FALSE /\ r.pt = s.pt
    BY <1>5, <1>6, <1>7
  <2> QED BY <1>4, <1>6, <2>1, Zenon DEF Good, Outcome
<1>8. CASE s.pa # Invalid
  <2>1. PICK K : Tree(s.pt, K, M)
    BY <1>4, Zenon DEF Good
  <2>2. s.pa = find(s.pt, va)
    BY <1>4, <1>8, FindWalks, Zenon DEF Good
  <2>3. va \in DOMAIN s.pt.frames /\ f = s.pt.frames[va]
    BY <1>4, Zenon DEF Good
  <2>4. r.ok = TRUE /\ r.pt = [s.pt EXCEPT !.mem[find(s.pt, va)][Last(va)] = s.pt.frames[va]]
    BY <1>5, <1>6, <1>8, <2>2, <2>3
  <2>5. Tree([s.pt EXCEPT !.mem[find(s.pt, va)][Last(va)] = s.pt.frames[va]], K, M \cup {va})
    BY <1>8, <2>1, <2>2, <2>3, EntryTree, Zenon
  <2>6. Tree(r.pt, K, M \cup {va})
    BY <2>4, <2>5, Zenon
  <2> QED BY <1>6, <2>4, <2>6, Zenon DEF Outcome
<1> QED BY <1>7, <1>8, Zenon

\* PageTable::new
LEMMA NewTree ==
  ASSUME NEW f \in Frames
  PROVE  \E L : Tree(New(f), L, {})
<1> DEFINE L == [e \in Frames |-> 0]
           v == to_virt(f)
<1>1. PICK pt : pt = New(f)
  BY Zenon
<1>2. /\ pt.root = f /\ pt.mem = [g \in Frames |-> Zeroed] /\ pt.frames = Insert(<<>>, v, f)
      /\ pt = [root |-> pt.root, mem |-> pt.mem, frames |-> pt.frames]
  BY <1>1, Zenon DEF New
<1>3. v \in Int /\ \A e \in Frames : to_virt(e) = v => e = f
  BY MappableFacts, Zenon
<1>4. DOMAIN pt.frames = {v} /\ pt.frames[v] = f /\ pt.frames \in [{v} -> Frames]
  BY <1>2 DEF Insert
<1>5. \A e \in Frames, i \in Idx : pt.mem[e][i] = Invalid
  BY <1>2 DEF Zeroed, Idx
<1>6. pt \in PT
  <2>1. Zeroed \in [Idx -> Ptr]
    BY Zenon DEF Zeroed, Idx, Ptr
  <2>2. pt.mem \in [Frames -> [Idx -> Ptr]]
    BY <1>2, <2>1, Zenon
  <2>3. pt.frames \in UNION {[D -> Frames] : D \in SUBSET Int}
    <3>1. {v} \in SUBSET Int
      BY <1>3, Zenon
    <3> QED BY <1>4, <3>1, Zenon
  <2>4. pt.root \in Frames
    BY <1>2, Zenon
  <2> QED BY <1>2, <2>2, <2>3, <2>4, Zenon DEF PT
<1>7. TablesOf(pt) = {f}
  BY <1>3, <1>4, Zenon DEF TablesOf
<1>8. L \in [Frames -> 0 .. LEVELS - 1] /\ L[f] = 0
  BY LevelsAssumption
<1> HIDE DEF L, v
<1>9. Shape(pt, L)
  BY <1>2, <1>4, <1>5, <1>6, <1>7, <1>8, Zenon DEF Shape, v
<1>10. Tree(pt, L, {})
  BY <1>5, <1>7, <1>9, Zenon DEF Tree
<1> QED BY <1>1, <1>10, Zenon

=============================================================================
