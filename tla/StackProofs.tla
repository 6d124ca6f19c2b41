----------------------------- MODULE StackProofs ----------------------------
(***************************************************************************)
(* Proofs about StackAlloc, for any callers, sizes, guard and region, and  *)
(* about KernelStacks, for any page table besides.                         *)
(***************************************************************************)
EXTENDS KernelStacks, PagingProofs

Points == {"idle", "insert", "map", "unmap", "push"}
Active(c) == call[c].at \in {"insert", "map", "unmap", "push"}

\* A call that is typed.
CallTyped(l) ==
  /\ l \in [at : Points, va : Int, size : Nat, i : Nat]
  /\ l.at # "idle" => l.size \in Sizes
  /\ l.at \in {"map", "unmap"} => l.i < l.size

Typed ==
  /\ next \in Int
  /\ DOMAIN allocated \subseteq Int
  /\ \A t \in DOMAIN allocated : allocated[t] \in Sizes
  /\ cached \in [Sizes -> Seq(Int)]
  /\ mapped \subseteq Int
  /\ call = [c \in Callers |-> call[c]]
  /\ \A c \in Callers : CallTyped(call[c])
  /\ owned \subseteq DOMAIN allocated
  /\ failed = FALSE

\* What has been handed out lies between the start and `next`.
Within(va, size) == Base - Guard <= va /\ va + size + Guard <= next

Bounded ==
  /\ Base - Guard <= next /\ next <= End + Guard
  /\ \A c \in Callers : Active(c) => Within(call[c].va, call[c].size)
  /\ \A t \in DOMAIN allocated : Within(AllocVa(t), allocated[t])
  /\ \A s \in Sizes : \A i \in DOMAIN cached[s] : Within(cached[s][i], s)

\* c is mapping the pages of the stack with top t.
Mapping(c, t) == call[c].at = "map" /\ t = TopOf(call[c].va, call[c].size)

\* SlotsApart, pair by pair, with the slots that are being mapped.
CallsApart ==
  \A c, d \in Callers : c # d /\ Active(c) /\ Active(d) =>
    Apart(call[c].va, call[c].size, call[d].va, call[d].size)
AllocatedApart ==
  \A t, u \in DOMAIN allocated : t # u => Apart(AllocVa(t), allocated[t], AllocVa(u), allocated[u])
CachedApart ==
  \A s, r \in Sizes : \A i \in DOMAIN cached[s], j \in DOMAIN cached[r] :
    s # r \/ i # j => Apart(cached[s][i], s, cached[r][j], r)
CallAllocatedApart ==
  \A c \in Callers, t \in DOMAIN allocated : Active(c) /\ ~ Mapping(c, t) =>
    Apart(call[c].va, call[c].size, AllocVa(t), allocated[t])
CallCachedApart ==
  \A c \in Callers, s \in Sizes : Active(c) => \A i \in DOMAIN cached[s] :
    Apart(call[c].va, call[c].size, cached[s][i], s)
AllocatedCachedApart ==
  \A t \in DOMAIN allocated, s \in Sizes : \A i \in DOMAIN cached[s] :
    Apart(AllocVa(t), allocated[t], cached[s][i], s)

\* A caller in the loop of allocate has its slot in `allocated`, unowned.
MappingAllocated ==
  \A c \in Callers : call[c].at = "map" =>
    LET t == TopOf(call[c].va, call[c].size)
    IN  t \in DOMAIN allocated /\ allocated[t] = call[c].size /\ t \notin owned

AllApart ==
  /\ CallsApart /\ AllocatedApart /\ CachedApart
  /\ CallAllocatedApart /\ CallCachedApart /\ AllocatedCachedApart
  /\ MappingAllocated

\* No page of the slot is mapped.
Clear(va, size) == \A k \in 0 .. size - 1 : Page(va, k) \notin mapped

\* How far c is with the pages of its slot.
CallPages(c) ==
  LET l == call[c] IN
  /\ l.at \in {"insert", "push"} => Clear(l.va, l.size)
  /\ l.at = "map" => \A k \in 0 .. l.size - 1 : Page(l.va, k) \in mapped <=> k < l.i
  /\ l.at = "unmap" => \A k \in 0 .. l.size - 1 : Page(l.va, k) \in mapped <=> k >= l.i

PagesKept ==
  /\ mapped \subseteq Base .. next - 1
  /\ \A c \in Callers : CallPages(c)
  /\ \A s \in Sizes : \A i \in DOMAIN cached[s] : Clear(cached[s][i], s)
  /\ \A t \in owned : \A k \in 0 .. allocated[t] - 1 : Page(AllocVa(t), k) \in mapped

-----------------------------------------------------------------------------
(* Facts about sizes, slots and the cache. *)

LEMMA SizesPositive == Sizes \subseteq Nat \ {0}
<1> SUFFICES ASSUME NEW b \in Requests PROVE Pages(b) \in Nat \ {0}
  BY Zenon DEF Sizes
<1> DEFINE P == PAGE_SIZE
           n == b + P - 1
<1>1. P \in Nat \ {0} /\ b \in Nat \ {0}
  BY PageSizeAssumption, RequestsAssumption, Zenon
<1>2. n \in Nat /\ P <= n
  BY <1>1
<1> HIDE DEF n
<1>3. n \div P \in Nat /\ n \div P >= 1
  BY <1>1, <1>2
<1> QED BY <1>3 DEF Pages, n

LEMMA ApartSymmetric ==
  \A va, size, wa, tize : Apart(va, size, wa, tize) <=> Apart(wa, tize, va, size)
BY Zenon DEF Apart

\* Slots with the same top overlap.
LEMMA SameTop ==
  ASSUME NEW va \in Int, NEW wa \in Int, NEW s \in Sizes, NEW r \in Sizes, va + s = wa + r
  PROVE  ~ Apart(va, s, wa, r)
BY SizesPositive, GuardAssumption DEF Apart

LEMMA TopsDiffer ==
  ASSUME NEW va \in Int, NEW wa \in Int, NEW s \in Int, NEW r \in Int, va + s # wa + r
  PROVE  TopOf(va, s) # TopOf(wa, r)
BY GuardAssumption DEF TopOf

\* A slot from `next` on is apart from what was handed out before.
LEMMA FreshApart ==
  ASSUME next \in Int, NEW va \in Int, NEW s \in Sizes, Within(va, s), NEW r \in Sizes
  PROVE  Apart(next, r, va, s) /\ Apart(va, s, next, r)
BY SizesPositive, GuardAssumption, Zenon DEF Apart, Within

\* push_front
LEMMA PushFacts ==
  ASSUME NEW s \in Seq(Int), NEW x \in Int
  PROVE  /\ <<x>> \o s \in Seq(Int)
         /\ \A k \in DOMAIN (<<x>> \o s) :
              \/ k = 1 /\ (<<x>> \o s)[k] = x
              \/ k # 1 /\ k - 1 \in DOMAIN s /\ (<<x>> \o s)[k] = s[k - 1]
<1> DEFINE r == <<x>> \o s
<1>1. r \in Seq(Int) /\ Len(r) = Len(s) + 1 /\ Len(s) \in Nat
  OBVIOUS
<1>2. DOMAIN r = 1 .. Len(s) + 1 /\ DOMAIN s = 1 .. Len(s)
  BY <1>1
<1>3. ASSUME NEW k \in 1 .. Len(s) + 1
      PROVE  r[k] = IF k = 1 THEN x ELSE s[k - 1]
  OBVIOUS
<1> QED BY <1>1, <1>2, <1>3

-----------------------------------------------------------------------------
IInv == Typed /\ Bounded /\ AllApart /\ PagesKept

LEMMA InitIInv == Init => IInv
<1> SUFFICES ASSUME Init PROVE IInv
  BY Zenon
<1>1. Typed
  BY GuardAssumption, RegionAssumption DEF Init, Typed, CallTyped, Idle, Points
<1>2. \A s \in Sizes : DOMAIN cached[s] = {}
  BY DEF Init
<1>3. Bounded
  BY <1>2, GuardAssumption, RegionAssumption DEF Init, Bounded, Idle, Active, End
<1>4. AllApart
  BY <1>2, Zenon DEF Init, AllApart, CallsApart, AllocatedApart, CachedApart, CallAllocatedApart,
              CallCachedApart, AllocatedCachedApart, MappingAllocated, Idle, Active
<1>5. PagesKept
  BY <1>2, Zenon DEF Init, PagesKept, CallPages, Idle
<1> QED BY <1>1, <1>3, <1>4, <1>5, Zenon DEF IInv

\* A step in which c alone moves, keeps its slot or lets go of it, and neither
\* `next`, `allocated` nor `cached` changes.
LEMMA CallMoves ==
  ASSUME IInv, Typed', NEW c \in Callers, UNCHANGED <<next, allocated, cached>>,
         \A d \in Callers \ {c} : call'[d] = call[d],
         Active(c)' => /\ Active(c)
                       /\ call'[c].va = call[c].va /\ call'[c].size = call[c].size
                       /\ call'[c].at = "map" <=> call[c].at = "map",
         MappingAllocated'
  PROVE  Bounded' /\ AllApart'
<1>1. \A d \in Callers : Active(d)' =>
        /\ Active(d)
        /\ call'[d].va = call[d].va /\ call'[d].size = call[d].size
        /\ \A t : Mapping(d, t)' <=> Mapping(d, t)
  BY Zenon DEF Active, Mapping
<1>2. \A t : AllocVa(t)' = AllocVa(t)
  BY Zenon DEF AllocVa
<1>3. Bounded'
  BY <1>1, <1>2, Zenon DEF IInv, Bounded, Within, End
<1> HIDE DEF Active, Mapping
<1>4. CallsApart' /\ AllocatedApart' /\ CachedApart'
  BY <1>1, <1>2, Zenon DEF IInv, AllApart, CallsApart, AllocatedApart, CachedApart, Apart
<1>5. CallAllocatedApart'
  BY <1>1, <1>2, Zenon DEF IInv, AllApart, CallAllocatedApart, Apart
<1>6. CallCachedApart' /\ AllocatedCachedApart'
  BY <1>1, <1>2, Zenon DEF IInv, AllApart, CallCachedApart, AllocatedCachedApart, Apart
<1> QED BY <1>3, <1>4, <1>5, <1>6, Zenon DEF AllApart

\* The pages of two slots that are apart are different pages.
LEMMA PagesApart ==
  ASSUME NEW va \in Int, NEW wa \in Int, NEW s \in Nat, NEW r \in Nat, Apart(va, s, wa, r),
         NEW k \in 0 .. s - 1, NEW l \in 0 .. r - 1
  PROVE  Page(va, k) # Page(wa, l)
BY GuardAssumption DEF Apart, Page

\* Only c moves, to a slot that is apart from those of the others.
LEMMA CallsStayApart ==
  ASSUME CallsApart, NEW c \in Callers, \A d \in Callers \ {c} : call'[d] = call[d],
         \A d \in Callers \ {c} : Active(d) =>
           Apart(call'[c].va, call'[c].size, call[d].va, call[d].size)
  PROVE  CallsApart'
<1>0. \A d \in Callers \ {c} : Active(d)' <=> Active(d)
  BY Zenon DEF Active
<1>1. ASSUME NEW d \in Callers, NEW e \in Callers, d # e, Active(d)', Active(e)'
      PROVE  Apart(call'[d].va, call'[d].size, call'[e].va, call'[e].size)
  <2>1. CASE d = c
    BY <1>0, <1>1, <2>1, Zenon
  <2>2. CASE e = c
    <3>1. Apart(call'[e].va, call'[e].size, call'[d].va, call'[d].size)
      BY <1>0, <1>1, <2>2, Zenon
    <3> QED BY <3>1, ApartSymmetric, Zenon
  <2>3. CASE d # c /\ e # c
    BY <1>0, <1>1, <2>3 DEF CallsApart
  <2> QED BY <2>1, <2>2, <2>3, Zenon
<1> QED BY <1>1, Zenon DEF CallsApart, Apart

\* A call that did not move, in a step that changes no mapping.
LEMMA CallPagesKept ==
  ASSUME NEW d \in Callers, call'[d] = call[d], UNCHANGED mapped, CallPages(d)
  PROVE  CallPages(d)'
BY Zenon DEF CallPages, Clear

LEMMA AllocMapFailsIInv ==
  ASSUME IInv, NEW c \in Callers, AllocMapFails(c)
  PROVE  IInv'
<1>1. /\ UNCHANGED <<next, allocated, cached, mapped, owned, failed>>
      /\ \A d \in Callers \ {c} : call'[d] = call[d]
      /\ call'[c] = Idle /\ call'[c].at = "idle"
  BY Zenon DEF AllocMapFails, IInv, Typed, Idle
<1>2. Typed'
  BY <1>1 DEF AllocMapFails, IInv, Typed, CallTyped, Idle, Points
<1>3. MappingAllocated'
  BY <1>1, Zenon DEF IInv, AllApart, MappingAllocated
<1>4. Bounded' /\ AllApart'
  BY <1>1, <1>2, <1>3, CallMoves, Zenon DEF Active
<1>5. PagesKept'
  BY <1>1, Zenon DEF IInv, PagesKept, CallPages, AllocVa, Clear
<1> QED BY <1>2, <1>4, <1>5, Zenon DEF IInv

\* A page of a caller's slot is a page of no other slot.
LEMMA OthersPages ==
  ASSUME IInv, NEW c \in Callers, Active(c), NEW j \in 0 .. call[c].size - 1
  PROVE  /\ \A d \in Callers \ {c} : Active(d) =>
              \A k \in 0 .. call[d].size - 1 : Page(call[d].va, k) # Page(call[c].va, j)
         /\ \A s \in Sizes : \A i \in DOMAIN cached[s] : \A k \in 0 .. s - 1 :
              Page(cached[s][i], k) # Page(call[c].va, j)
         /\ \A t \in DOMAIN allocated : ~ Mapping(c, t) =>
              \A k \in 0 .. allocated[t] - 1 : Page(AllocVa(t), k) # Page(call[c].va, j)
<1>0. \A d \in Callers : Active(d) => call[d].va \in Int /\ call[d].size \in Nat
  BY Zenon DEF IInv, Typed, CallTyped
<1>1. ASSUME NEW d \in Callers \ {c}, Active(d), NEW k \in 0 .. call[d].size - 1
      PROVE  Page(call[d].va, k) # Page(call[c].va, j)
  <2>1. Apart(call[c].va, call[c].size, call[d].va, call[d].size)
    BY <1>1, Zenon DEF IInv, AllApart, CallsApart
  <2> QED BY <1>0, <1>1, <2>1, PagesApart, Zenon
<1>2. ASSUME NEW s \in Sizes, NEW i \in DOMAIN cached[s], NEW k \in 0 .. s - 1
      PROVE  Page(cached[s][i], k) # Page(call[c].va, j)
  <2>1. cached[s][i] \in Int /\ s \in Nat
    BY SizesPositive DEF IInv, Typed
  <2>2. Apart(call[c].va, call[c].size, cached[s][i], s)
    BY Zenon DEF IInv, AllApart, CallCachedApart
  <2> QED BY <1>0, <2>1, <2>2, PagesApart, Zenon
<1>3. ASSUME NEW t \in DOMAIN allocated, ~ Mapping(c, t), NEW k \in 0 .. allocated[t] - 1
      PROVE  Page(AllocVa(t), k) # Page(call[c].va, j)
  <2>1. AllocVa(t) \in Int /\ allocated[t] \in Nat
    BY SizesPositive, GuardAssumption DEF IInv, Typed, AllocVa
  <2>2. Apart(call[c].va, call[c].size, AllocVa(t), allocated[t])
    BY <1>3, Zenon DEF IInv, AllApart, CallAllocatedApart
  <2> QED BY <1>0, <2>1, <2>2, PagesApart, Zenon
<1> QED BY <1>1, <1>2, <1>3, Zenon

LEMMA AllocMapIInv ==
  ASSUME IInv, NEW c \in Callers, AllocMap(c)
  PROVE  IInv'
<1> DEFINE l == call[c]
           p == Page(l.va, l.i)
<1>0. /\ l.at = "map" /\ l.va \in Int /\ l.size \in Sizes /\ l.size \in Nat \ {0}
      /\ l.i \in Nat /\ l.i < l.size /\ Active(c)
  BY SizesPositive, Zenon DEF IInv, Typed, CallTyped, AllocMap, Active
<1>1. /\ UNCHANGED <<next, allocated, cached, failed>> /\ mapped' = mapped \cup {p}
      /\ \A d \in Callers \ {c} : call'[d] = call[d]
      /\ \/ /\ call' = [call EXCEPT ![c] = [at |-> "map", va |-> l.va, size |-> l.size, i |-> l.i + 1]]
            /\ call'[c] = [at |-> "map", va |-> l.va, size |-> l.size, i |-> l.i + 1]
            /\ l.i + 1 < l.size /\ owned' = owned
         \/ /\ call' = [call EXCEPT ![c] = Idle]
            /\ call'[c] = Idle /\ call'[c].at = "idle"
            /\ l.i + 1 = l.size /\ owned' = owned \cup {TopOf(l.va, l.size)}
  BY <1>0 DEF AllocMap, Goto, IInv, Typed, Idle
<1>2. p \in Int
  BY <1>0, GuardAssumption DEF Page
<1>3. TopOf(l.va, l.size) \in DOMAIN allocated /\ allocated[TopOf(l.va, l.size)] = l.size
  BY <1>0, Zenon DEF IInv, AllApart, MappingAllocated
<1>4. Typed'
  <2>1. CallTyped(call'[c])
    BY <1>0, <1>1 DEF CallTyped, Idle, Points
  <2> QED BY <1>1, <1>2, <1>3, <2>1, Zenon DEF IInv, Typed
<1>5. ASSUME NEW d \in Callers \ {c}, Active(d) PROVE Apart(l.va, l.size, call[d].va, call[d].size)
  BY <1>0, <1>5, Zenon DEF IInv, AllApart, CallsApart
<1>6. MappingAllocated'
  <2> SUFFICES ASSUME NEW d \in Callers, call'[d].at = "map"
               PROVE  LET t == TopOf(call'[d].va, call'[d].size)
                      IN  t \in DOMAIN allocated /\ allocated[t] = call'[d].size /\ t \notin owned'
    BY <1>1, Zenon DEF MappingAllocated, TopOf
  <2>1. call[d].at = "map" /\ call'[d].va = call[d].va /\ call'[d].size = call[d].size
    BY <1>0, <1>1
  <2>2. LET t == TopOf(call[d].va, call[d].size)
        IN  t \in DOMAIN allocated /\ allocated[t] = call[d].size /\ t \notin owned
    BY <2>1, Zenon DEF IInv, AllApart, MappingAllocated
  <2>3. CASE d = c
    BY <1>1, <2>1, <2>2, <2>3, Zenon
  <2>4. CASE d # c
    <3>1. Active(d) /\ call[d].va \in Int /\ call[d].size \in Sizes /\ call[d].size \in Nat
      BY <2>1, SizesPositive, Zenon DEF Active, IInv, Typed, CallTyped
    <3>2. TopOf(call[d].va, call[d].size) # TopOf(l.va, l.size)
      <4>1. Apart(l.va, l.size, call[d].va, call[d].size)
        BY <1>5, <2>4, <3>1, Zenon
      <4>2. l.va \in Int /\ l.size \in Sizes /\ l.size \in Int /\ call[d].size \in Int /\ Guard \in Int
        BY <1>0, <3>1, SizesPositive, GuardAssumption
      <4>3. l.va + l.size # call[d].va + call[d].size
        BY <3>1, <4>1, <4>2, SameTop, Zenon
      <4> QED BY <3>1, <4>2, <4>3, TopsDiffer, Zenon
    <3> QED BY <1>1, <2>1, <2>2, <3>2, Zenon
  <2> QED BY <2>3, <2>4, Zenon
<1>7. Bounded' /\ AllApart'
  BY <1>0, <1>1, <1>4, <1>6, CallMoves DEF Active
<1>8. mapped' \subseteq Base .. next' - 1
  <2>1. Within(l.va, l.size) /\ next \in Int
    BY <1>0, Zenon DEF IInv, Bounded, Typed
  <2>2. p \in Base .. next - 1
    BY <1>0, <2>1, GuardAssumption, RegionAssumption DEF Within, Page
  <2> QED BY <1>1, <2>2, Zenon DEF IInv, PagesKept
\* The page is none of another slot.
<1>9. \A d \in Callers \ {c} : Active(d) =>
        \A k \in 0 .. call[d].size - 1 : Page(call[d].va, k) # p
  BY <1>0, OthersPages
<1>10. \A s \in Sizes : \A i \in DOMAIN cached[s] : \A k \in 0 .. s - 1 : Page(cached[s][i], k) # p
  BY <1>0, OthersPages
<1>11. ASSUME NEW d \in Callers PROVE CallPages(d)'
  <2>0. CallPages(d)
    BY Zenon DEF IInv, PagesKept
  <2>1. CASE d = c
    <3>1. ASSUME NEW k \in 0 .. l.size - 1 PROVE Page(l.va, k) \in mapped' <=> k < l.i + 1
      <4>1. Page(l.va, k) \in mapped <=> k < l.i
        BY <1>0, <2>0, <2>1, Zenon DEF CallPages
      <4>2. Page(l.va, k) = p <=> k = l.i
        BY <1>0, GuardAssumption DEF Page
      <4> QED BY <1>0, <1>1, <4>1, <4>2
    <3> QED BY <1>1, <2>1, <3>1 DEF CallPages
  <2>2. CASE d # c
    <3>1. call'[d] = call[d]
      BY <1>1, <2>2, Zenon
    <3>2. call[d].at \in {"insert", "push", "map", "unmap"} => Active(d)
      BY Zenon DEF Active
    <3>3. Active(d) => \A k \in 0 .. call[d].size - 1 :
            Page(call[d].va, k) \in mapped' <=> Page(call[d].va, k) \in mapped
      BY <1>1, <1>9, <2>2, Zenon
    <3> QED BY <2>0, <3>1, <3>2, <3>3, Zenon DEF CallPages, Clear
  <2> QED BY <2>1, <2>2, Zenon
<1>12. \A s \in Sizes : \A i \in DOMAIN cached[s] : Clear(cached[s][i], s)'
  BY <1>1, <1>10 DEF IInv, PagesKept, Clear
<1>13. ASSUME NEW t \in owned', NEW k \in 0 .. allocated[t] - 1
       PROVE  Page(AllocVa(t), k) \in mapped'
  <2>1. CASE t \in owned
    BY <1>1, <2>1, Zenon DEF IInv, PagesKept
  <2>2. CASE t \notin owned
    <3>1. t = TopOf(l.va, l.size) /\ l.i + 1 = l.size
      BY <1>1, <2>2, Zenon
    <3>2. AllocVa(t) = l.va /\ k \in 0 .. l.size - 1
      BY <1>0, <1>3, <3>1, GuardAssumption DEF AllocVa, TopOf
    <3>3. k < l.i \/ k = l.i
      BY <1>0, <3>1, <3>2
    <3>4. k < l.i => Page(l.va, k) \in mapped
      BY <1>0, <3>2, Zenon DEF IInv, PagesKept, CallPages
    <3> QED BY <1>1, <3>2, <3>3, <3>4, Zenon
  <2> QED BY <2>1, <2>2, Zenon
<1>14. PagesKept'
  BY <1>1, <1>8, <1>11, <1>12, <1>13, Zenon DEF PagesKept, AllocVa, Clear
<1> QED BY <1>4, <1>7, <1>14, Zenon DEF IInv

LEMMA DeallocUnmapIInv ==
  ASSUME IInv, NEW c \in Callers, DeallocUnmap(c)
  PROVE  IInv'
<1> DEFINE l == call[c]
           p == Page(l.va, l.i)
           at == IF l.i + 1 < l.size THEN "unmap" ELSE "push"
<1>0. /\ l.at = "unmap" /\ l.va \in Int /\ l.size \in Sizes /\ l.size \in Nat \ {0}
      /\ l.i \in Nat /\ l.i < l.size /\ Active(c)
  BY SizesPositive, Zenon DEF IInv, Typed, CallTyped, DeallocUnmap, Active
<1>1. /\ UNCHANGED <<next, allocated, cached, owned, failed>> /\ mapped' = mapped \ {p}
      /\ \A d \in Callers \ {c} : call'[d] = call[d]
      /\ call'[c] = [at |-> at, va |-> l.va, size |-> l.size, i |-> l.i + 1]
      /\ call'[c].at = at /\ call'[c].va = l.va /\ call'[c].size = l.size
  BY Zenon DEF DeallocUnmap, Goto, IInv, Typed
<1>F. call' = [d \in Callers |-> call'[d]]
  BY Zenon DEF DeallocUnmap, Goto, IInv, Typed
<1>2. Typed'
  <2>1. CallTyped(call'[c])
    BY <1>0, <1>1 DEF CallTyped, Points
  <2> QED BY <1>1, <1>F, <2>1, Zenon DEF IInv, Typed
<1>3. MappingAllocated'
  BY <1>0, <1>1, Zenon DEF IInv, AllApart, MappingAllocated, TopOf
<1>4. Bounded' /\ AllApart'
  <2>1. /\ Active(c) /\ call'[c].va = call[c].va /\ call'[c].size = call[c].size
        /\ call'[c].at # "map" /\ call[c].at # "map"
    BY <1>0, <1>1, Zenon
  <2> QED BY <1>1, <1>2, <1>3, <2>1, CallMoves, Zenon
<1>5. /\ \A d \in Callers \ {c} : Active(d) =>
           \A k \in 0 .. call[d].size - 1 : Page(call[d].va, k) # p
      /\ \A t \in owned : \A k \in 0 .. allocated[t] - 1 : Page(AllocVa(t), k) # p
  <2>1. \A t \in owned : t \in DOMAIN allocated /\ ~ Mapping(c, t)
    BY <1>0, Zenon DEF Mapping, IInv, Typed
  <2>2. l.i \in 0 .. l.size - 1
    BY <1>0
  <2> QED BY <1>0, <2>1, <2>2, OthersPages, Zenon
<1>6. ASSUME NEW d \in Callers PROVE CallPages(d)'
  <2>0. CallPages(d)
    BY Zenon DEF IInv, PagesKept
  <2>1. CASE d = c
    <3>1. ASSUME NEW k \in 0 .. l.size - 1 PROVE Page(l.va, k) \in mapped' <=> k >= l.i + 1
      <4>1. Page(l.va, k) \in mapped <=> k >= l.i
        BY <1>0, <2>0, <2>1, Zenon DEF CallPages
      <4>2. Page(l.va, k) = p <=> k = l.i
        BY <1>0, GuardAssumption DEF Page
      <4> QED BY <1>0, <1>1, <4>1, <4>2
    <3>2. at = "push" => \A k \in 0 .. l.size - 1 : ~ (k >= l.i + 1)
      BY <1>0
    <3> QED BY <1>1, <2>1, <3>1, <3>2 DEF CallPages, Clear
  <2>2. CASE d # c
    <3>1. call'[d] = call[d]
      BY <1>1, <2>2, Zenon
    <3>2. call[d].at \in {"insert", "push", "map", "unmap"} => Active(d)
      BY Zenon DEF Active
    <3>3. Active(d) => \A k \in 0 .. call[d].size - 1 :
            Page(call[d].va, k) \in mapped' <=> Page(call[d].va, k) \in mapped
      BY <1>1, <1>5, <2>2, Zenon
    <3> QED BY <2>0, <3>1, <3>2, <3>3, Zenon DEF CallPages, Clear
  <2> QED BY <2>1, <2>2, Zenon
<1>7. PagesKept'
  BY <1>1, <1>5, <1>6, Zenon DEF IInv, PagesKept, AllocVa, Clear
<1> QED BY <1>2, <1>4, <1>7, Zenon DEF IInv

LEMMA AllocInsertIInv ==
  ASSUME IInv, NEW c \in Callers, AllocInsert(c)
  PROVE  IInv'
<1> DEFINE l == call[c]
           top == TopOf(l.va, l.size)
<1>0. /\ l.at = "insert" /\ l.va \in Int /\ l.size \in Sizes /\ l.size \in Nat \ {0} /\ Active(c)
      /\ top \in Int
  BY SizesPositive, GuardAssumption DEF IInv, Typed, CallTyped, AllocInsert, Active, TopOf
<1>1. /\ UNCHANGED <<next, cached, mapped, owned, failed>>
      /\ DOMAIN allocated' = DOMAIN allocated \cup {top}
      /\ \A t \in DOMAIN allocated' : allocated'[t] = IF t = top THEN l.size ELSE allocated[t]
      /\ \A d \in Callers \ {c} : call'[d] = call[d]
      /\ call'[c] = [at |-> "map", va |-> l.va, size |-> l.size, i |-> 0]
      /\ call'[c].at = "map" /\ call'[c].va = l.va /\ call'[c].size = l.size /\ call'[c].i = 0
  BY Zenon DEF AllocInsert, Goto, IInv, Typed
<1>F. call' = [d \in Callers |-> call'[d]]
  BY Zenon DEF AllocInsert, Goto, IInv, Typed
<1>2. top \notin DOMAIN allocated
  <2> SUFFICES ASSUME top \in DOMAIN allocated PROVE FALSE
    BY Zenon
  <2>1. Apart(l.va, l.size, AllocVa(top), allocated[top])
    BY <1>0, Zenon DEF IInv, AllApart, CallAllocatedApart, Mapping
  <2>2. allocated[top] \in Sizes /\ allocated[top] \in Nat
    BY SizesPositive, Zenon DEF IInv, Typed
  <2>3. AllocVa(top) \in Int /\ AllocVa(top) + allocated[top] = l.va + l.size
    BY <1>0, <2>2, GuardAssumption DEF AllocVa, TopOf
  <2> QED BY <1>0, <2>1, <2>2, <2>3, SameTop, Zenon
<1>3. /\ AllocVa(top)' = l.va /\ allocated'[top] = l.size
      /\ \A t \in DOMAIN allocated : t # top /\ AllocVa(t)' = AllocVa(t) /\ allocated'[t] = allocated[t]
  BY <1>0, <1>1, <1>2, GuardAssumption DEF AllocVa, TopOf
<1>4. \A d \in Callers : /\ call'[d].va = call[d].va /\ call'[d].size = call[d].size
                         /\ Active(d)' <=> Active(d)
  BY <1>0, <1>1, Zenon DEF Active
<1>5. Typed'
  <2>1. CallTyped(call'[c])
    BY <1>0, <1>1 DEF CallTyped, Points
  <2> QED BY <1>0, <1>1, <1>F, <1>3, <2>1, Zenon DEF IInv, Typed
<1>6. Bounded'
  BY <1>0, <1>1, <1>3, <1>4, SMTT(30) DEF IInv, Bounded, Within, End
<1>8. CallsApart' /\ CachedApart' /\ CallCachedApart'
  BY <1>1, <1>4, Zenon DEF IInv, AllApart, CallsApart, CachedApart, CallCachedApart, Apart
\* The slot of c is apart from what c's call was apart from.
<1>9. /\ \A t \in DOMAIN allocated : /\ Apart(l.va, l.size, AllocVa(t), allocated[t])
                                     /\ Apart(AllocVa(t), allocated[t], l.va, l.size)
      /\ \A d \in Callers \ {c} : Active(d) => Apart(call[d].va, call[d].size, l.va, l.size)
      /\ \A s \in Sizes : \A i \in DOMAIN cached[s] : Apart(l.va, l.size, cached[s][i], s)
  BY <1>0, ApartSymmetric, Zenon
     DEF IInv, AllApart, CallsApart, CallAllocatedApart, CallCachedApart, Mapping
<1>10. AllocatedApart'
  <2> SUFFICES ASSUME NEW t \in DOMAIN allocated', NEW u \in DOMAIN allocated', t # u
               PROVE  Apart(AllocVa(t), allocated[t], AllocVa(u), allocated[u])'
    BY Zenon DEF AllocatedApart
  <2>1. Apart(AllocVa(t)', allocated'[t], AllocVa(u)', allocated'[u])
    BY <1>1, <1>3, <1>9 DEF IInv, AllApart, AllocatedApart
  <2> QED BY <2>1, Zenon DEF Apart
<1>11. CallAllocatedApart'
  <2> SUFFICES ASSUME NEW d \in Callers, NEW t \in DOMAIN allocated', Active(d)', ~ Mapping(d, t)'
               PROVE  Apart(call[d].va, call[d].size, AllocVa(t), allocated[t])'
    BY Zenon DEF CallAllocatedApart
  <2>1. ~ (d = c /\ t = top)
    BY <1>1, Zenon DEF Mapping, TopOf
  <2>2. Apart(call[d].va, call[d].size, AllocVa(t)', allocated'[t])
    <3>1. CASE t = top
      BY <1>3, <1>4, <1>9, <2>1, <3>1, Zenon
    <3>2. CASE t # top /\ d = c
      BY <1>1, <1>3, <1>9, <3>2, Zenon
    <3>3. CASE t # top /\ d # c
      <4>1. t \in DOMAIN allocated /\ ~ Mapping(d, t) /\ Active(d)
        BY <1>1, <1>4, <3>3, Zenon DEF Mapping, TopOf
      <4> QED BY <1>3, <4>1, Zenon DEF IInv, AllApart, CallAllocatedApart
    <3> QED BY <3>1, <3>2, <3>3, Zenon
  <2> QED BY <1>4, <2>2, Zenon DEF Apart
<1>12. AllocatedCachedApart'
  BY <1>1, <1>3, <1>9, SMTT(30) DEF IInv, AllApart, AllocatedCachedApart, Apart
<1>13. MappingAllocated'
  <2> SUFFICES ASSUME NEW d \in Callers, call'[d].at = "map"
               PROVE  LET t == TopOf(call[d].va, call[d].size)
                      IN  t \in DOMAIN allocated' /\ allocated'[t] = call[d].size /\ t \notin owned
    BY <1>1, <1>4, Zenon DEF MappingAllocated, TopOf
  <2>1. CASE d = c
    BY <1>1, <1>2, <1>3, <2>1, Zenon DEF IInv, Typed
  <2>2. CASE d # c
    BY <1>1, <1>3, <2>2, Zenon DEF IInv, AllApart, MappingAllocated
  <2> QED BY <2>1, <2>2, Zenon
<1>14. ASSUME NEW d \in Callers PROVE CallPages(d)'
  <2>0. CallPages(d)
    BY Zenon DEF IInv, PagesKept
  <2>1. CASE d = c
    <3>1. \A k \in 0 .. l.size - 1 : Page(l.va, k) \notin mapped /\ ~ (k < 0)
      BY <1>0, <2>0, <2>1 DEF CallPages, Clear
    <3>2. call'[d].at = "map" /\ call'[d].va = l.va /\ call'[d].size = l.size /\ call'[d].i = 0
      BY <1>1, <2>1, Zenon
    <3> QED BY <1>1, <3>1, <3>2, Zenon DEF CallPages
  <2>2. CASE d # c
    BY <1>1, <2>0, <2>2, CallPagesKept, Zenon
  <2> QED BY <2>1, <2>2, Zenon
<1>15. PagesKept'
  BY <1>1, <1>3, <1>14 DEF IInv, PagesKept, Typed, Clear
<1> QED BY <1>5, <1>6, <1>8, <1>10, <1>11, <1>12, <1>13, <1>15, Zenon DEF IInv, AllApart

LEMMA DeallocRemoveIInv ==
  ASSUME IInv, NEW c \in Callers, NEW top \in owned, DeallocRemove(c, top)
  PROVE  IInv'
<1> DEFINE size == allocated[top]
           va == AllocVa(top)
<1>0. /\ call[c].at = "idle" /\ top \in DOMAIN allocated /\ top \in Int
      /\ size \in Sizes /\ size \in Nat \ {0} /\ va \in Int
  BY SizesPositive, GuardAssumption DEF IInv, Typed, DeallocRemove, AllocVa
<1>1. /\ UNCHANGED <<next, cached, mapped, failed>> /\ owned' = owned \ {top}
      /\ DOMAIN allocated' = DOMAIN allocated \ {top}
      /\ \A t \in DOMAIN allocated' : allocated'[t] = allocated[t]
      /\ \A d \in Callers \ {c} : call'[d] = call[d]
      /\ call'[c] = [at |-> "unmap", va |-> va, size |-> size, i |-> 0]
      /\ call'[c].at = "unmap" /\ call'[c].va = va /\ call'[c].size = size
  BY <1>0 DEF DeallocRemove, Goto, IInv, Typed, AllocVa
<1>F. call' = [d \in Callers |-> call'[d]]
  BY <1>0, Zenon DEF DeallocRemove, Goto, IInv, Typed, AllocVa
<1>2. \A t \in DOMAIN allocated' : t # top /\ AllocVa(t)' = AllocVa(t)
  BY <1>1, Zenon DEF AllocVa
<1>3. Typed'
  <2>1. CallTyped(call'[c])
    BY <1>0, <1>1 DEF CallTyped, Points
  <2> QED BY <1>0, <1>1, <1>F, <2>1, Zenon DEF IInv, Typed
<1>4. \A d \in Callers \ {c} : /\ Active(d)' <=> Active(d)
                               /\ \A t : Mapping(d, t)' <=> Mapping(d, t)
  BY <1>1, Zenon DEF Active, Mapping, TopOf
\* Nobody is mapping the pages of a stack with an owner.
<1>5. \A d \in Callers : ~ Mapping(d, top)
  BY Zenon DEF Mapping, IInv, AllApart, MappingAllocated
<1>6. /\ \A d \in Callers \ {c} : Active(d) => /\ Apart(call[d].va, call[d].size, va, size)
                                               /\ Apart(va, size, call[d].va, call[d].size)
      /\ \A t \in DOMAIN allocated' : Apart(va, size, AllocVa(t), allocated[t])
      /\ \A s \in Sizes : \A i \in DOMAIN cached[s] : Apart(va, size, cached[s][i], s)
  <2>1. \A d \in Callers \ {c} : Active(d) => Apart(call[d].va, call[d].size, va, size)
    BY <1>0, <1>5, Zenon DEF IInv, AllApart, CallAllocatedApart
  <2>2. \A t \in DOMAIN allocated' : Apart(va, size, AllocVa(t), allocated[t])
    BY <1>0, <1>1, <1>2, Zenon DEF IInv, AllApart, AllocatedApart
  <2>3. \A s \in Sizes : \A i \in DOMAIN cached[s] : Apart(va, size, cached[s][i], s)
    BY <1>0, Zenon DEF IInv, AllApart, AllocatedCachedApart
  <2> QED BY <2>1, <2>2, <2>3, ApartSymmetric, Zenon
<1>7. Bounded'
  <2>1. Within(va, size)
    BY <1>0, Zenon DEF IInv, Bounded
  <2> HIDE DEF va, size
  <2> QED BY <1>1, <1>2, <1>4, <2>1, Zenon DEF IInv, Bounded, Within, End
<1> HIDE DEF va, size
<1>8. CallsApart'
  BY <1>1, <1>6, CallsStayApart, Zenon DEF IInv, AllApart
<1>9. AllocatedApart' /\ CachedApart' /\ AllocatedCachedApart'
  BY <1>1, <1>2, SMTT(30) DEF IInv, AllApart, AllocatedApart, CachedApart, AllocatedCachedApart, Apart
<1>10. CallAllocatedApart'
  <2>1. ASSUME NEW d \in Callers, NEW t \in DOMAIN allocated', Active(d)', ~ Mapping(d, t)'
        PROVE  Apart(call'[d].va, call'[d].size, AllocVa(t)', allocated'[t])
    <3>1. CASE d = c
      BY <1>1, <1>2, <1>4, <1>6, <2>1, <3>1, Zenon
    <3>2. CASE d # c
      BY <1>1, <1>2, <1>4, <1>6, <2>1, <3>2, Zenon DEF IInv, AllApart, CallAllocatedApart
    <3> QED BY <3>1, <3>2, Zenon
  <2> QED BY <2>1, Zenon DEF CallAllocatedApart, Apart
<1>11. CallCachedApart'
  <2>1. ASSUME NEW d \in Callers, NEW s \in Sizes, Active(d)', NEW i \in DOMAIN cached[s]
        PROVE  Apart(call'[d].va, call'[d].size, cached[s][i], s)
    <3>1. CASE d = c
      BY <1>1, <1>4, <1>6, <2>1, <3>1, Zenon
    <3>2. CASE d # c
      BY <1>1, <1>4, <1>6, <2>1, <3>2, Zenon DEF IInv, AllApart, CallCachedApart
    <3> QED BY <3>1, <3>2, Zenon
  <2> QED BY <1>1, <2>1, Zenon DEF CallCachedApart, Apart
<1>12. MappingAllocated'
  <2> SUFFICES ASSUME NEW d \in Callers, call'[d].at = "map"
               PROVE  LET t == TopOf(call[d].va, call[d].size)
                      IN  /\ d # c /\ t \in DOMAIN allocated'
                          /\ allocated'[t] = call[d].size /\ t \notin owned'
    BY <1>1, Zenon DEF MappingAllocated, TopOf
  <2>0. call'[c].at = "unmap" /\ \A e \in Callers \ {c} : call'[e] = call[e]
    BY <1>1, Zenon
  <2>1. d # c /\ call[d].at = "map"
    BY <2>0, Zenon
  <2>2. TopOf(call[d].va, call[d].size) # top
    BY <1>5, <2>1, Zenon DEF Mapping
  <2> QED BY <1>1, <2>1, <2>2, Zenon DEF IInv, AllApart, MappingAllocated
<1>13. ASSUME NEW d \in Callers PROVE CallPages(d)'
  <2>1. CASE d = c
    <3>1. \A k \in 0 .. size - 1 : Page(va, k) \in mapped /\ k >= 0
      BY DEF IInv, PagesKept, size, va
    <3> QED BY <1>1, <2>1, <3>1 DEF CallPages
  <2>2. CASE d # c
    BY <1>1, <2>2, CallPagesKept, Zenon DEF IInv, PagesKept
  <2> QED BY <2>1, <2>2, Zenon
<1>14. PagesKept'
  <2>1. \A t \in owned' : \A k \in 0 .. allocated'[t] - 1 : Page(AllocVa(t)', k) \in mapped
    BY <1>1, <1>2, Zenon DEF IInv, PagesKept, Typed
  <2> QED BY <1>1, <1>13, <2>1, Zenon DEF IInv, PagesKept, Clear
<1> QED BY <1>3, <1>7, <1>8, <1>9, <1>10, <1>11, <1>12, <1>14, Zenon DEF IInv, AllApart

LEMMA AllocFreshIInv ==
  ASSUME IInv, NEW c \in Callers, NEW size \in Sizes, AllocFresh(c, size)
  PROVE  IInv'
<1>0. call[c].at = "idle" /\ size \in Nat \ {0} /\ next \in Int /\ next + size <= End
  BY SizesPositive, Zenon DEF IInv, Typed, AllocFresh
<1>1. /\ UNCHANGED <<allocated, cached, mapped, owned, failed>> /\ next' = next + size + Guard
      /\ \A d \in Callers \ {c} : call'[d] = call[d]
      /\ call'[c] = [at |-> "insert", va |-> next, size |-> size, i |-> 0]
      /\ call'[c].at = "insert" /\ call'[c].va = next /\ call'[c].size = size
  BY Zenon DEF AllocFresh, Goto, IInv, Typed
<1>F. call' = [d \in Callers |-> call'[d]]
  BY Zenon DEF AllocFresh, Goto, IInv, Typed
<1>2. next' \in Int /\ next <= next' /\ next' <= End + Guard
  BY <1>0, <1>1, GuardAssumption, RegionAssumption DEF End
<1>3. Typed'
  <2>1. CallTyped(call'[c])
    BY <1>0, <1>1 DEF CallTyped, Points
  <2> QED BY <1>1, <1>F, <1>2, <2>1, Zenon DEF IInv, Typed
<1>4. \A t : AllocVa(t)' = AllocVa(t)
  BY <1>1, Zenon DEF AllocVa
<1>5. \A d \in Callers \ {c} : /\ Active(d)' <=> Active(d)
                               /\ \A t : Mapping(d, t)' <=> Mapping(d, t)
  BY <1>1, Zenon DEF Active, Mapping, TopOf
<1>6. /\ \A d \in Callers : Active(d) =>
           call[d].va \in Int /\ call[d].size \in Sizes /\ Within(call[d].va, call[d].size)
      /\ \A t \in DOMAIN allocated :
           AllocVa(t) \in Int /\ allocated[t] \in Sizes /\ Within(AllocVa(t), allocated[t])
      /\ \A s \in Sizes : \A i \in DOMAIN cached[s] :
           cached[s][i] \in Int /\ Within(cached[s][i], s)
  <2>1. \A d \in Callers : Active(d) =>
          call[d].va \in Int /\ call[d].size \in Sizes /\ Within(call[d].va, call[d].size)
    BY Zenon DEF IInv, Typed, CallTyped, Bounded, Active
  <2>2. \A t \in DOMAIN allocated :
          AllocVa(t) \in Int /\ allocated[t] \in Sizes /\ Within(AllocVa(t), allocated[t])
    BY SizesPositive, GuardAssumption DEF IInv, Typed, Bounded, AllocVa
  <2>3. \A s \in Sizes : \A i \in DOMAIN cached[s] : cached[s][i] \in Int /\ Within(cached[s][i], s)
    BY DEF IInv, Typed, Bounded
  <2> QED BY <2>1, <2>2, <2>3, Zenon
<1>7. Bounded'
  <2>1. \A va \in Int, s \in Sizes : Within(va, s) => Base - Guard <= va /\ va + s + Guard <= next'
    BY <1>0, <1>2, SizesPositive, GuardAssumption DEF Within
  <2>0. Base - Guard <= next
    BY Zenon DEF IInv, Bounded
  <2>2. Base - Guard <= next' /\ next + size + Guard <= next'
    BY <1>0, <1>1, <1>2, <2>0, GuardAssumption, RegionAssumption
  <2>3. ASSUME NEW d \in Callers, Active(d)'
        PROVE  Base - Guard <= call'[d].va /\ call'[d].va + call'[d].size + Guard <= next'
    <3>1. CASE d = c
      BY <1>1, <2>0, <2>2, <3>1, Zenon
    <3>2. CASE d # c
      BY <1>1, <1>5, <1>6, <2>1, <2>3, <3>2, Zenon
    <3> QED BY <3>1, <3>2, Zenon
  <2>4. ASSUME NEW t \in DOMAIN allocated
        PROVE  Base - Guard <= AllocVa(t) /\ AllocVa(t) + allocated[t] + Guard <= next'
    BY <1>6, <2>1, Zenon
  <2>5. ASSUME NEW s \in Sizes, NEW i \in DOMAIN cached[s]
        PROVE  Base - Guard <= cached[s][i] /\ cached[s][i] + s + Guard <= next'
    BY <1>6, <2>1, Zenon
  <2> QED BY <1>1, <1>2, <1>4, <2>2, <2>3, <2>4, <2>5, Zenon DEF Bounded, Within, End
<1>8. /\ \A d \in Callers \ {c} : Active(d) => /\ Apart(next, size, call[d].va, call[d].size)
                                               /\ Apart(call[d].va, call[d].size, next, size)
      /\ \A t \in DOMAIN allocated : Apart(next, size, AllocVa(t), allocated[t])
      /\ \A s \in Sizes : \A i \in DOMAIN cached[s] : Apart(next, size, cached[s][i], s)
  BY <1>0, <1>6, FreshApart, Zenon
<1>9. CallsApart'
  BY <1>1, <1>8, CallsStayApart, Zenon DEF IInv, AllApart
<1>10. AllocatedApart' /\ CachedApart' /\ AllocatedCachedApart'
  BY <1>1, <1>4, Zenon DEF IInv, AllApart, AllocatedApart, CachedApart, AllocatedCachedApart, Apart
<1>11. CallAllocatedApart'
  <2>1. ASSUME NEW d \in Callers, NEW t \in DOMAIN allocated', Active(d)', ~ Mapping(d, t)'
        PROVE  Apart(call'[d].va, call'[d].size, AllocVa(t)', allocated'[t])
    <3>1. CASE d = c
      BY <1>1, <1>4, <1>5, <1>8, <2>1, <3>1, Zenon
    <3>2. CASE d # c
      BY <1>1, <1>4, <1>5, <1>8, <2>1, <3>2, Zenon DEF IInv, AllApart, CallAllocatedApart
    <3> QED BY <3>1, <3>2, Zenon
  <2> QED BY <2>1, Zenon DEF CallAllocatedApart, Apart
<1>12. CallCachedApart'
  <2>1. ASSUME NEW d \in Callers, NEW s \in Sizes, Active(d)', NEW i \in DOMAIN cached[s]
        PROVE  Apart(call'[d].va, call'[d].size, cached[s][i], s)
    <3>1. CASE d = c
      BY <1>1, <1>5, <1>8, <2>1, <3>1, Zenon
    <3>2. CASE d # c
      BY <1>1, <1>5, <1>8, <2>1, <3>2, Zenon DEF IInv, AllApart, CallCachedApart
    <3> QED BY <3>1, <3>2, Zenon
  <2> QED BY <1>1, <2>1, Zenon DEF CallCachedApart, Apart
<1>13. MappingAllocated'
  BY <1>1, Zenon DEF IInv, AllApart, MappingAllocated, TopOf
<1>14. ASSUME NEW d \in Callers PROVE CallPages(d)'
  <2>1. CASE d = c
    <3>1. \A k \in 0 .. size - 1 : Page(next, k) \notin mapped
      BY <1>0, GuardAssumption, RegionAssumption DEF IInv, PagesKept, Page
    <3> QED BY <1>1, <2>1, <3>1, Zenon DEF CallPages, Clear
  <2>2. CASE d # c
    BY <1>1, <2>2, CallPagesKept, Zenon DEF IInv, PagesKept
  <2> QED BY <2>1, <2>2, Zenon
<1>15. PagesKept'
  <2>1. mapped' \subseteq Base .. next' - 1
    BY <1>0, <1>1, <1>2, RegionAssumption DEF IInv, PagesKept
  <2> QED BY <1>1, <1>4, <1>14, <2>1, Zenon DEF IInv, PagesKept, Clear
<1> QED BY <1>3, <1>7, <1>9, <1>10, <1>11, <1>12, <1>13, <1>15, Zenon DEF IInv, AllApart

LEMMA AllocCachedIInv ==
  ASSUME IInv, NEW c \in Callers, NEW size \in Sizes, AllocCached(c, size)
  PROVE  IInv'
<1> DEFINE va == cached[size][1]
           old(s, i) == IF s = size THEN i + 1 ELSE i
<1>0. /\ call[c].at = "idle" /\ size \in Nat \ {0} /\ cached[size] \in Seq(Int)
      /\ 1 \in DOMAIN cached[size] /\ va \in Int /\ Head(cached[size]) = va
  BY SizesPositive DEF IInv, Typed, AllocCached
<1>1. /\ UNCHANGED <<next, allocated, mapped, owned, failed>>
      /\ cached' = [cached EXCEPT ![size] = Tail(cached[size])]
      /\ \A d \in Callers \ {c} : call'[d] = call[d]
      /\ call'[c] = [at |-> "insert", va |-> va, size |-> size, i |-> 0]
      /\ call'[c].at = "insert" /\ call'[c].va = va /\ call'[c].size = size
  BY <1>0, Zenon DEF AllocCached, Goto, IInv, Typed
<1>F. call' = [d \in Callers |-> call'[d]]
  BY <1>0, Zenon DEF AllocCached, Goto, IInv, Typed
<1>2. cached' \in [Sizes -> Seq(Int)]
  BY <1>0, <1>1 DEF IInv, Typed
<1>3. ASSUME NEW s \in Sizes, NEW i \in DOMAIN cached'[s]
      PROVE  /\ i \in Nat /\ old(s, i) \in DOMAIN cached[s] /\ cached'[s][i] = cached[s][old(s, i)]
             /\ s # size \/ old(s, i) # 1
  <2>1. CASE s = size
    <3>1. cached'[s] = Tail(cached[s])
      BY <1>1, <2>1, Zenon DEF IInv, Typed
    <3> QED BY <1>0, <2>1, <3>1
  <2>2. CASE s # size
    BY <1>1, <1>2, <2>2 DEF IInv, Typed
  <2> QED BY <2>1, <2>2, Zenon
<1>4. Typed'
  <2>1. CallTyped(call'[c])
    BY <1>0, <1>1 DEF CallTyped, Points
  <2> QED BY <1>1, <1>F, <1>2, <2>1, Zenon DEF IInv, Typed
<1>5. \A t : AllocVa(t)' = AllocVa(t)
  BY <1>1, Zenon DEF AllocVa
<1>6. \A d \in Callers \ {c} : /\ Active(d)' <=> Active(d)
                               /\ \A t : Mapping(d, t)' <=> Mapping(d, t)
  BY <1>1, Zenon DEF Active, Mapping, TopOf
<1> HIDE DEF va, old
<1>7. /\ \A d \in Callers \ {c} : Active(d) => /\ Apart(va, size, call[d].va, call[d].size)
                                               /\ Apart(call[d].va, call[d].size, va, size)
      /\ \A t \in DOMAIN allocated : Apart(va, size, AllocVa(t), allocated[t])
      /\ \A s \in Sizes : \A i \in DOMAIN cached'[s] : Apart(va, size, cached'[s][i], s)
  <2>1. \A d \in Callers \ {c} : Active(d) => Apart(call[d].va, call[d].size, va, size)
    BY <1>0, Zenon DEF IInv, AllApart, CallCachedApart, va
  <2>2. \A t \in DOMAIN allocated : Apart(AllocVa(t), allocated[t], va, size)
    BY <1>0, Zenon DEF IInv, AllApart, AllocatedCachedApart, va
  <2>3. \A s \in Sizes : \A i \in DOMAIN cached'[s] : Apart(va, size, cached'[s][i], s)
    BY <1>0, <1>3, Zenon DEF IInv, AllApart, CachedApart, va
  <2> QED BY <2>1, <2>2, <2>3, ApartSymmetric, Zenon
<1>8. Bounded'
  <2>1. Within(va, size)
    BY <1>0, Zenon DEF IInv, Bounded, va
  <2>2. \A s \in Sizes : \A i \in DOMAIN cached'[s] : Within(cached'[s][i], s)
    BY <1>3, Zenon DEF IInv, Bounded
  <2> QED BY <1>1, <1>5, <1>6, <2>1, <2>2, Zenon DEF IInv, Bounded, Within, End
<1>9. CallsApart'
  BY <1>1, <1>7, CallsStayApart, Zenon DEF IInv, AllApart
<1>10. AllocatedApart'
  BY <1>1, <1>5, Zenon DEF IInv, AllApart, AllocatedApart, Apart
<1>11. CachedApart'
  <2>1. ASSUME NEW s \in Sizes, NEW r \in Sizes, NEW i \in DOMAIN cached'[s], NEW j \in DOMAIN cached'[r],
               s # r \/ i # j
        PROVE  Apart(cached'[s][i], s, cached'[r][j], r)
    <3>1. s # r \/ old(s, i) # old(r, j)
      BY <1>3, <2>1, SMTT(30) DEF old
    <3> QED BY <1>3, <3>1, Zenon DEF IInv, AllApart, CachedApart
  <2> QED BY <2>1, Zenon DEF CachedApart, Apart
<1>12. AllocatedCachedApart'
  BY <1>1, <1>3, <1>5, SMTT(30) DEF IInv, AllApart, AllocatedCachedApart, Apart
<1>13. CallAllocatedApart'
  <2>1. ASSUME NEW d \in Callers, NEW t \in DOMAIN allocated', Active(d)', ~ Mapping(d, t)'
        PROVE  Apart(call'[d].va, call'[d].size, AllocVa(t)', allocated'[t])
    <3>1. CASE d = c
      BY <1>1, <1>5, <1>1, <1>7, <3>1, Zenon
    <3>2. CASE d # c
      BY <1>1, <1>5, <1>6, <1>7, <2>1, <3>2, Zenon DEF IInv, AllApart, CallAllocatedApart
    <3> QED BY <3>1, <3>2, Zenon
  <2> QED BY <2>1, Zenon DEF CallAllocatedApart, Apart
<1>14. CallCachedApart'
  <2>1. ASSUME NEW d \in Callers, NEW s \in Sizes, Active(d)', NEW i \in DOMAIN cached'[s]
        PROVE  Apart(call'[d].va, call'[d].size, cached'[s][i], s)
    <3>1. CASE d = c
      BY <1>1, <1>7, <3>1, Zenon
    <3>2. CASE d # c
      <4>1. call'[d] = call[d] /\ Active(d)
        BY <1>1, <1>6, <2>1, <3>2, Zenon
      <4>2. old(s, i) \in DOMAIN cached[s] /\ cached'[s][i] = cached[s][old(s, i)]
        BY <1>3, Zenon
      <4>3. Apart(call[d].va, call[d].size, cached[s][old(s, i)], s)
        BY <4>1, <4>2, Zenon DEF IInv, AllApart, CallCachedApart
      <4> QED BY <4>1, <4>2, <4>3, Zenon
    <3> QED BY <3>1, <3>2, Zenon
  <2> QED BY <2>1, Zenon DEF CallCachedApart, Apart
<1>15. MappingAllocated'
  BY <1>1, Zenon DEF IInv, AllApart, MappingAllocated, TopOf
<1>16. ASSUME NEW d \in Callers PROVE CallPages(d)'
  <2>1. CASE d = c
    <3>1. Clear(va, size)
      BY <1>0, Zenon DEF IInv, PagesKept, va
    <3> QED BY <1>1, <2>1, <3>1, Zenon DEF CallPages, Clear
  <2>2. CASE d # c
    BY <1>1, <2>2, CallPagesKept, Zenon DEF IInv, PagesKept
  <2> QED BY <2>1, <2>2, Zenon
<1>17. PagesKept'
  <2>1. \A s \in Sizes : \A i \in DOMAIN cached'[s] : Clear(cached'[s][i], s)
    BY <1>3, Zenon DEF IInv, PagesKept
  <2>2. \A s \in Sizes : \A i \in DOMAIN cached'[s] : Clear(cached[s][i], s)'
    BY <1>1, <2>1, Zenon DEF Clear
  <2>3. \A t \in owned' : \A k \in 0 .. allocated'[t] - 1 : Page(AllocVa(t)', k) \in mapped'
    BY <1>1, <1>5, Zenon DEF IInv, PagesKept
  <2>4. mapped' \subseteq Base .. next' - 1
    BY <1>1, Zenon DEF IInv, PagesKept
  <2> QED BY <1>16, <2>2, <2>3, <2>4, Zenon DEF PagesKept
<1> QED
  BY <1>4, <1>8, <1>9, <1>10, <1>11, <1>12, <1>13, <1>14, <1>15, <1>17, Zenon DEF IInv, AllApart

LEMMA DeallocPushIInv ==
  ASSUME IInv, NEW c \in Callers, DeallocPush(c)
  PROVE  IInv'
<1> DEFINE va == call[c].va
           size == call[c].size
           Fresh(s, i) == s = size /\ i = 1
           old(s, i) == IF s = size THEN i - 1 ELSE i
<1>0. /\ call[c].at = "push" /\ Active(c) /\ size \in Sizes /\ size \in Nat \ {0}
      /\ va \in Int /\ cached[size] \in Seq(Int)
  BY SizesPositive, Zenon DEF IInv, Typed, CallTyped, DeallocPush, Active
<1>1. /\ UNCHANGED <<next, allocated, mapped, owned, failed>>
      /\ cached' = [cached EXCEPT ![size] = <<va>> \o cached[size]]
      /\ call' = [call EXCEPT ![c] = Idle]
      /\ \A d \in Callers \ {c} : call'[d] = call[d]
      /\ call'[c] = Idle /\ call'[c].at = "idle"
  BY <1>0, Zenon DEF DeallocPush, IInv, Typed, Idle
<1> HIDE DEF va, size
<1>2. cached' \in [Sizes -> Seq(Int)]
  BY <1>0, <1>1, PushFacts, Zenon DEF IInv, Typed
<1>3. ASSUME NEW s \in Sizes, NEW i \in DOMAIN cached'[s]
      PROVE  /\ i \in Nat
             /\ Fresh(s, i) => cached'[s][i] = va
             /\ ~ Fresh(s, i) => /\ old(s, i) \in DOMAIN cached[s]
                               /\ cached'[s][i] = cached[s][old(s, i)]
  <2>0. i \in Nat
    BY <1>2
  <2>1. CASE s = size
    <3>1. cached'[s] = <<va>> \o cached[s]
      BY <1>1, <2>1, Zenon DEF IInv, Typed
    <3> QED BY <1>0, <2>0, <2>1, <3>1, PushFacts
  <2>2. CASE s # size
    BY <1>1, <2>0, <2>2, Zenon DEF IInv, Typed
  <2> QED BY <2>1, <2>2, Zenon
<1>4. Typed'
  <2>1. CallTyped(call'[c])
    BY <1>1 DEF CallTyped, Idle, Points
  <2> QED BY <1>1, <1>2, <2>1, Zenon DEF IInv, Typed
<1>5. \A t : AllocVa(t)' = AllocVa(t)
  BY <1>1, Zenon DEF AllocVa
<1>6. /\ ~ Active(c)'
      /\ \A d \in Callers \ {c} : /\ Active(d)' <=> Active(d)
                                  /\ \A t : Mapping(d, t)' <=> Mapping(d, t)
  BY <1>1, Zenon DEF Active, Mapping, TopOf
<1> HIDE DEF Fresh, old
<1>7. /\ \A d \in Callers \ {c} : Active(d) => Apart(call[d].va, call[d].size, va, size)
      /\ \A t \in DOMAIN allocated : Apart(AllocVa(t), allocated[t], va, size)
      /\ \A s \in Sizes : \A i \in DOMAIN cached[s] : /\ Apart(va, size, cached[s][i], s)
                                                      /\ Apart(cached[s][i], s, va, size)
  <2>1. \A d \in Callers \ {c} : Active(d) => Apart(call[d].va, call[d].size, va, size)
    BY <1>0, Zenon DEF IInv, AllApart, CallsApart, va, size
  <2>2. \A t \in DOMAIN allocated : Apart(va, size, AllocVa(t), allocated[t])
    BY <1>0, Zenon DEF IInv, AllApart, CallAllocatedApart, Mapping, va, size
  <2>3. \A s \in Sizes : \A i \in DOMAIN cached[s] : Apart(va, size, cached[s][i], s)
    BY <1>0, Zenon DEF IInv, AllApart, CallCachedApart, va, size
  <2> QED BY <2>1, <2>2, <2>3, ApartSymmetric, Zenon
<1>8. Bounded'
  <2>1. Within(va, size)
    BY <1>0, Zenon DEF IInv, Bounded, va, size
  <2>2. \A s \in Sizes : \A i \in DOMAIN cached'[s] : Within(cached'[s][i], s)
    BY <1>3, <2>1, Zenon DEF IInv, Bounded, Fresh
  <2> QED BY <1>1, <1>5, <1>6, <2>2, Zenon DEF IInv, Bounded, Within, End
<1>9. CallsApart' /\ AllocatedApart'
  BY <1>1, <1>5, <1>6, Zenon DEF IInv, AllApart, CallsApart, AllocatedApart, Apart
<1>10. CachedApart'
  <2>1. ASSUME NEW s \in Sizes, NEW r \in Sizes, NEW i \in DOMAIN cached'[s], NEW j \in DOMAIN cached'[r],
               s # r \/ i # j
        PROVE  Apart(cached'[s][i], s, cached'[r][j], r)
    <3>1. CASE Fresh(s, i)
      <4>1. s = size /\ ~ Fresh(r, j)
        BY <2>1, <3>1, Zenon DEF Fresh
      <4> QED BY <1>3, <1>7, <3>1, <4>1, Zenon
    <3>2. CASE Fresh(r, j)
      <4>1. r = size /\ ~ Fresh(s, i)
        BY <2>1, <3>2, Zenon DEF Fresh
      <4> QED BY <1>3, <1>7, <3>2, <4>1, Zenon
    <3>3. CASE ~ Fresh(s, i) /\ ~ Fresh(r, j)
      <4>1. s # r \/ old(s, i) # old(r, j)
        BY <1>3, <2>1 DEF old
      <4> QED BY <1>3, <3>3, <4>1, Zenon DEF IInv, AllApart, CachedApart
    <3> QED BY <3>1, <3>2, <3>3, Zenon
  <2> QED BY <2>1, Zenon DEF CachedApart, Apart
<1>11. CallAllocatedApart'
  BY <1>1, <1>5, <1>6, Zenon DEF IInv, AllApart, CallAllocatedApart, Apart
<1>12. CallCachedApart'
  <2>1. ASSUME NEW d \in Callers, NEW s \in Sizes, Active(d)', NEW i \in DOMAIN cached'[s]
        PROVE  Apart(call'[d].va, call'[d].size, cached'[s][i], s)
    <3>1. d # c /\ Active(d) /\ call'[d] = call[d]
      BY <1>1, <1>6, <2>1, Zenon
    <3> QED BY <1>3, <1>7, <3>1, Zenon DEF IInv, AllApart, CallCachedApart, Fresh
  <2> QED BY <2>1, Zenon DEF CallCachedApart, Apart
<1>13. AllocatedCachedApart'
  <2>1. ASSUME NEW t \in DOMAIN allocated, NEW s \in Sizes, NEW i \in DOMAIN cached'[s]
        PROVE  Apart(AllocVa(t), allocated[t], cached'[s][i], s)
    BY <1>3, <1>7, Zenon DEF IInv, AllApart, AllocatedCachedApart, Fresh
  <2> QED BY <1>1, <1>5, <2>1, SMTT(30) DEF AllocatedCachedApart, Apart
<1>14. MappingAllocated'
  BY <1>1 DEF IInv, AllApart, MappingAllocated, TopOf
<1>15. ASSUME NEW d \in Callers PROVE CallPages(d)'
  <2>1. CASE d = c
    BY <1>1, <2>1, Zenon DEF CallPages
  <2>2. CASE d # c
    BY <1>1, <2>2, CallPagesKept, Zenon DEF IInv, PagesKept
  <2> QED BY <2>1, <2>2, Zenon
<1>16. PagesKept'
  <2>1. Clear(va, size)
    BY <1>0, Zenon DEF IInv, PagesKept, CallPages, va, size
  <2>2. \A s \in Sizes : \A i \in DOMAIN cached'[s] : Clear(cached'[s][i], s)
    BY <1>3, <2>1, Zenon DEF IInv, PagesKept, Fresh
  <2>3. \A s \in Sizes : \A i \in DOMAIN cached'[s] : Clear(cached[s][i], s)'
    BY <1>1, <2>2, Zenon DEF Clear
  <2>4. \A t \in owned' : \A k \in 0 .. allocated'[t] - 1 : Page(AllocVa(t)', k) \in mapped'
    BY <1>1, <1>5, Zenon DEF IInv, PagesKept
  <2>5. mapped' \subseteq Base .. next' - 1
    BY <1>1, Zenon DEF IInv, PagesKept
  <2> QED BY <1>15, <2>3, <2>4, <2>5, Zenon DEF PagesKept
<1> QED
  BY <1>4, <1>8, <1>9, <1>10, <1>11, <1>12, <1>13, <1>14, <1>16, Zenon DEF IInv, AllApart

-----------------------------------------------------------------------------
LEMMA NextIInv == IInv /\ [Next]_vars => IInv'
<1> SUFFICES ASSUME IInv, [Next]_vars PROVE IInv'
  BY Zenon
<1>1. ASSUME UNCHANGED vars PROVE IInv'
  <2>1. \A c : /\ Active(c)' <=> Active(c)
               /\ \A t : Mapping(c, t)' <=> Mapping(c, t)
    BY <1>1, Zenon DEF vars, Active, Mapping, TopOf
  <2>2. Typed' /\ Bounded'
    BY <1>1, <2>1, Zenon DEF vars, IInv, Typed, Bounded, Within, AllocVa, End
  <2>3. AllApart'
    BY <1>1, <2>1, Zenon DEF vars, IInv, AllApart, CallsApart, AllocatedApart, CachedApart, CallAllocatedApart,
                      CallCachedApart, AllocatedCachedApart, MappingAllocated, Apart, AllocVa
  <2>4. PagesKept'
    BY <1>1, Zenon DEF vars, IInv, PagesKept, CallPages, Clear, AllocVa
  <2> QED BY <2>2, <2>3, <2>4, Zenon DEF IInv
<1>2. ASSUME NEW c \in Callers, Allocate(c) PROVE IInv'
  <2>1. ASSUME NEW size \in Sizes, AllocFull(c, size) PROVE IInv'
    BY <1>1, <2>1, Zenon DEF AllocFull
  <2> QED
    BY <1>2, <2>1, AllocCachedIInv, AllocFreshIInv, AllocInsertIInv, AllocMapIInv, AllocMapFailsIInv, Zenon
    DEF Allocate
<1>3. ASSUME NEW c \in Callers, Deallocate(c) PROVE IInv'
  \* The page that is to be unmapped is mapped.
  <2>1. call[c].at = "unmap" => Page(call[c].va, call[c].i) \in mapped
    <3>1. CallPages(c) /\ CallTyped(call[c])
      BY Zenon DEF IInv, PagesKept, Typed
    <3>2. call[c].i \in Nat /\ call[c].size \in Nat /\ (call[c].at = "unmap" => call[c].i < call[c].size)
      BY <3>1, Zenon DEF CallTyped
    <3>3. call[c].at = "unmap" => call[c].i \in 0 .. call[c].size - 1 /\ call[c].i >= call[c].i
      BY <3>2
    <3> QED BY <3>1, <3>3, Zenon DEF CallPages
  <2>2. ~ (Page(call[c].va, call[c].i) \notin mapped /\ DeallocUnmapFails(c))
    BY <2>1, Zenon DEF DeallocUnmapFails
  <2> QED BY <1>3, <2>2, DeallocRemoveIInv, DeallocUnmapIInv, DeallocPushIInv, Zenon DEF Deallocate
<1> QED BY <1>1, <1>2, <1>3, Zenon DEF Next

LEMMA Invariant == Spec => []IInv
BY InitIInv, NextIInv, PTL DEF Spec

\* However many executors are created and dropped on however many CPUs, the
\* slots of StackAllocator never overlap, guards included.
THEOREM StacksNeverOverlap == Spec => []SlotsApart
<1>1. IInv => SlotsApart
  <2> SUFFICES ASSUME IInv PROVE SlotsApart
    BY Zenon
  <2>1. \A c \in Callers : Holding(c) => Active(c) /\ \A t : ~ Mapping(c, t)
    BY Zenon DEF Holding, Active, Mapping
  <2>2. \A s, r \in Sizes : \A i \in DOMAIN cached[s], j \in DOMAIN cached[r] :
          <<s, i>> # <<r, j>> => s # r \/ i # j
    BY Zenon
  <2> QED
    BY <2>1, <2>2, Zenon DEF IInv, AllApart, CallsApart, AllocatedApart, CachedApart, CallAllocatedApart,
                      CallCachedApart, AllocatedCachedApart, SlotsApart
<1> QED BY <1>1, Invariant, PTL

\* allocate maps only pages that are not mapped, a live executor has its whole
\* stack, the unwrap in Executor::drop never panics, and nothing is mapped more
\* than one guard above the region.
THEOREM StacksStayMapped == Spec => []StacksMapped
<1>1. IInv => StacksMapped
  <2> SUFFICES ASSUME IInv PROVE StacksMapped
    BY Zenon
  <2>1. ASSUME NEW c \in Callers, call[c].at = "map", NEW k \in call[c].i .. call[c].size - 1
        PROVE  Page(call[c].va, k) \notin mapped
    <3>1. CallPages(c) /\ CallTyped(call[c])
      BY Zenon DEF IInv, PagesKept, Typed
    <3>2. call[c].i \in Nat /\ call[c].size \in Nat
      BY <3>1, Zenon DEF CallTyped
    <3>3. k \in 0 .. call[c].size - 1 /\ ~ (k < call[c].i)
      BY <3>2
    <3> QED BY <2>1, <3>1, <3>3, Zenon DEF CallPages
  <2>2. ASSUME NEW t \in owned
        PROVE  t \in DOMAIN allocated /\ t - allocated[t] .. t - 1 \subseteq mapped
    <3>1. t \in DOMAIN allocated /\ t \in Int /\ allocated[t] \in Nat
      BY SizesPositive, Zenon DEF IInv, Typed
    <3>2. ASSUME NEW p \in t - allocated[t] .. t - 1 PROVE p \in mapped
      <4>1. p - t + allocated[t] \in 0 .. allocated[t] - 1
        BY <3>1
      <4>2. Page(AllocVa(t), p - t + allocated[t]) = p
        BY <3>1, GuardAssumption DEF Page, AllocVa
      <4> QED BY <4>1, <4>2, Zenon DEF IInv, PagesKept
    <3> QED BY <3>1, <3>2, Zenon
  <2>3. mapped \subseteq Base .. End + Guard - 1
    BY GuardAssumption, RegionAssumption DEF IInv, PagesKept, Typed, Bounded, End
  <2> QED BY <2>1, <2>2, <2>3, Zenon DEF IInv, Typed, StacksMapped
<1> QED BY <1>1, Invariant, PTL

-----------------------------------------------------------------------------
(* KernelStacks: the allocator on the page table. *)

KIInv == IInv /\ \E L : Tree(page_table, L, mapped)

LEMMA InitKIInv == KInit => KIInv
<1> SUFFICES ASSUME KInit PROVE KIInv
  BY Zenon
<1>1. IInv /\ mapped = {}
  BY InitIInv, Zenon DEF KInit, Init
<1>2. PICK f \in Frames : page_table = New(f)
  BY FramesAssumption, Zenon DEF KInit
<1> QED BY <1>1, <1>2, NewTree, Zenon DEF KIInv

\* The page that a caller is about to map, and the one it is about to unmap.
LEMMA CallPage ==
  ASSUME IInv, NEW c \in Callers, NEW p, p = Page(call[c].va, call[c].i)
  PROVE  /\ call[c].at = "map" => p \in Mappable \ mapped
         /\ call[c].at = "unmap" => p \in mapped
<1> SUFFICES ASSUME call[c].at \in {"map", "unmap"}
             PROVE  /\ call[c].at = "map" => p \in Mappable \ mapped
                    /\ call[c].at = "unmap" => p \in mapped
  BY Zenon
<1> DEFINE l == call[c]
<1>1. /\ l.va \in Int /\ l.size \in Nat /\ l.i \in Nat /\ l.i < l.size /\ l.i \in 0 .. l.size - 1
      /\ Active(c)
  BY SizesPositive DEF IInv, Typed, CallTyped, Active
<1>2. Within(l.va, l.size) /\ next \in Int /\ next <= End + Guard
  BY <1>1, Zenon DEF IInv, Bounded, Typed
<1>3. CallPages(c)
  BY Zenon DEF IInv, PagesKept
<1>4. l.at = "map" => p \notin mapped
  BY <1>1, <1>3, SMTT(30) DEF CallPages
<1>5. l.at = "unmap" => p \in mapped
  BY <1>1, <1>3 DEF CallPages
<1>6. p \in Base .. End + Guard - 1 /\ Base \in Nat /\ End \in Int /\ Guard \in Nat
  BY <1>1, <1>2, GuardAssumption, RegionAssumption DEF Within, Page, End
<1>7. p \in Mappable
  <2>1. p \in Nat /\ p < End + Guard
    BY <1>6
  <2>2. p \in 0 .. Span[LEVELS] - 1
    BY <1>6, <2>1, StackRegionAssumption, SpanFacts, LevelsAssumption, SMTT(30)
  <2> QED BY <1>6, <2>2, StackRegionAssumption, Zenon DEF Mappable
<1> QED BY <1>4, <1>5, <1>7, Zenon

\* map_page: whatever it answers, the table is as the answer says.
LEMMA MapPageTree ==
  ASSUME NEW pt, NEW L, NEW M, Tree(pt, L, M), NEW va \in Mappable \ M
  PROVE  Outcome(MapPage(pt, va), va, M)
<1>1. CASE Free(pt, heap) = {}
  BY <1>1, Zenon DEF MapPage, Outcome
<1>2. CASE Free(pt, heap) # {}
  <2>1. PICK f : f = Alloc(pt, heap)
    BY Zenon
  <2>2. f \in Frames \ Held(pt)
    <3>1. f \in Free(pt, heap)
      BY <1>2, <2>1, Zenon DEF Alloc
    <3> QED BY <3>1, Zenon DEF Free
  <2>3. MapPage(pt, va) = map(pt, va, f, heap)
    BY <1>2, <2>1, Zenon DEF MapPage
  <2> QED BY <2>2, <2>3, MapTree, Zenon
<1> QED BY <1>1, <1>2, Zenon

LEMMA KNextKIInv == KIInv /\ [KNext]_kvars => KIInv' /\ [Next]_vars
<1> SUFFICES ASSUME KIInv, [KNext]_kvars PROVE KIInv' /\ [Next]_vars
  BY Zenon
<1>0. IInv
  BY Zenon DEF KIInv
<1>1. PICK L : Tree(page_table, L, mapped)
  BY Zenon DEF KIInv
<1>2. ASSUME [Next]_vars PROVE IInv'
  BY <1>0, <1>2, NextIInv, Zenon
<1>3. ASSUME NEW c \in Callers, KMap(c) PROVE KIInv' /\ [Next]_vars
  <2>1. PICK p : p = Page(call[c].va, call[c].i)
    BY Zenon
  <2>2. p \in Mappable \ mapped
    BY <1>0, <1>3, <2>1, CallPage, Zenon DEF KMap
  <2>3. PICK r : r = MapPage(page_table, p)
    BY Zenon
  <2>4. Outcome(r, p, mapped)
    BY <1>1, <2>2, <2>3, MapPageTree, Zenon
  <2>5. /\ page_table' = r.pt
        /\ r.ok = TRUE => AllocMap(c)
        /\ r.ok = FALSE => AllocMapFails(c)
    BY <1>3, <2>1, <2>3, Zenon DEF KMap
  <2>6. CASE AllocMap(c) /\ r.ok = TRUE
    <3>1. Next
      BY <2>6, Zenon DEF Next, Allocate
    <3>2. mapped' = mapped \cup {p}
      BY <2>1, <2>6, Zenon DEF AllocMap
    <3>3. \E K : Tree(page_table', K, mapped')
      BY <2>4, <2>5, <2>6, <3>2, Zenon DEF Outcome
    <3> QED BY <1>2, <3>1, <3>3, Zenon DEF KIInv
  <2>7. CASE AllocMapFails(c) /\ r.ok = FALSE
    <3>1. Next
      BY <2>7, Zenon DEF Next, Allocate
    <3>2. mapped' = mapped
      BY <2>7, Zenon DEF AllocMapFails
    <3>3. \E K : Tree(page_table', K, mapped')
      BY <2>4, <2>5, <2>7, <3>2, Zenon DEF Outcome
    <3> QED BY <1>2, <3>1, <3>3, Zenon DEF KIInv
  <2> QED BY <2>4, <2>5, <2>6, <2>7, Zenon DEF Outcome
<1>4. ASSUME NEW c \in Callers, KUnmap(c) PROVE KIInv' /\ [Next]_vars
  <2>1. PICK p : p = Page(call[c].va, call[c].i)
    BY Zenon
  <2>2. p \in mapped
    BY <1>0, <1>4, <2>1, CallPage, Zenon DEF KUnmap
  <2>3. PICK r : r = unmap(page_table, p)
    BY Zenon
  <2>4. r.ok = TRUE /\ Tree(r.pt, L, mapped \ {p})
    BY <1>1, <2>2, <2>3, UnmapTree, Zenon
  <2>5. page_table' = r.pt /\ DeallocUnmap(c)
    BY <1>4, <2>1, <2>3, <2>4, Zenon DEF KUnmap
  <2>6. Next
    BY <2>1, <2>2, <2>5, Zenon DEF Next, Deallocate
  <2>7. mapped' = mapped \ {p}
    BY <2>1, <2>5, Zenon DEF DeallocUnmap
  <2>8. Tree(page_table', L, mapped')
    BY <2>4, <2>5, <2>7, Zenon
  <2> QED BY <1>2, <2>6, <2>8, Zenon DEF KIInv
<1>5. ASSUME [Next]_vars, UNCHANGED <<page_table, mapped>> PROVE KIInv' /\ [Next]_vars
  BY <1>1, <1>2, <1>5, Zenon DEF KIInv
<1>6. ASSUME NEW c \in Callers, Bookkeeping(c) PROVE KIInv' /\ [Next]_vars
  <2>1. Next
    BY <1>6, Zenon DEF Bookkeeping, Next, Allocate, Deallocate
  <2>2. UNCHANGED <<page_table, mapped>>
    BY <1>6, Zenon DEF Bookkeeping, Still, AllocCached, AllocFresh, AllocFull, AllocInsert,
                DeallocRemove, DeallocPush, vars
  <2> QED BY <1>5, <2>1, <2>2, Zenon
<1>7. ASSUME HeapTake \/ HeapGive PROVE KIInv' /\ [Next]_vars
  <2>1. UNCHANGED vars /\ UNCHANGED <<page_table, mapped>>
    BY <1>7, Zenon DEF HeapTake, HeapGive, vars
  <2> QED BY <1>5, <2>1, Zenon
<1>8. ASSUME UNCHANGED kvars PROVE KIInv' /\ [Next]_vars
  <2>1. UNCHANGED vars /\ UNCHANGED <<page_table, mapped>>
    BY <1>8, Zenon DEF kvars, vars
  <2> QED BY <1>5, <2>1, Zenon
<1> QED BY <1>3, <1>4, <1>6, <1>7, <1>8, Zenon DEF KNext

LEMMA KInvariant == KSpec => []KIInv
<1>1. KIInv /\ [KNext]_kvars => KIInv'
  BY KNextKIInv, Zenon
<1> QED BY <1>1, InitKIInv, PTL DEF KSpec

\* On the kernel page table the allocator behaves as StackAlloc says: a page it
\* is about to map is not mapped yet and one it unmaps is found again, for any
\* number of levels and entries, any frames and whatever the rest of the kernel
\* takes of them (the closures of EXECUTOR_STACK_ALLOCATOR on KERN_PAGE_TABLE).
THEOREM PageTableImplements == KSpec => StackAllocSpec
<1>1. KInit => Init
  BY Zenon DEF KInit
<1>2. KIInv /\ [KNext]_kvars => [Next]_vars
  BY KNextKIInv, Zenon
<1> QED BY <1>1, <1>2, KInvariant, PTL DEF KSpec, StackAllocSpec

LEMMA TreeExact == KIInv => PageTreeExact
<1> SUFFICES ASSUME KIInv PROVE PageTreeExact
  BY Zenon
<1> DEFINE Bot == LEVELS - 1
<1>0. PICK pt : pt = page_table
  BY Zenon
<1>1. PICK L : Tree(pt, L, mapped)
  BY <1>0, Zenon DEF KIInv
<1>2. Shape(pt, L) /\ pt \in PT /\ mapped \subseteq Mappable /\ L \in [Frames -> 0 .. LEVELS - 1]
  BY <1>1, Zenon DEF Tree, Shape
<1>3. \A p \in mapped : /\ p \in DOMAIN pt.frames /\ find(pt, p) # Invalid
                        /\ pt.mem[find(pt, p)][Last(p)] = pt.frames[p]
                        /\ p \in 0 .. Span[LEVELS] - 1 /\ p \in Nat
  BY <1>1, <1>2, MappableFacts, Zenon DEF Tree
<1>4. \A v \in DOMAIN pt.frames : pt.frames[v] \in Frames /\ pt.frames[v] # Invalid
  BY <1>2, PTFrames, InvalidNoFrame, Zenon
<1>5. \A p : lookup(pt, p) = IF find(pt, p) = Invalid THEN Invalid ELSE pt.mem[find(pt, p)][Last(p)]
  BY Zenon DEF lookup, Last
<1>6. \A p \in mapped : lookup(pt, p) = pt.frames[p] /\ lookup(pt, p) # Invalid
  BY <1>3, <1>4, <1>5, Zenon
\* No page but those of `mapped` is found.
<1>7. ASSUME NEW p \in 0 .. Span[LEVELS] - 1, lookup(pt, p) # Invalid PROVE p \in mapped
  <2>1. p \in Nat
    BY SpanFacts, LevelsAssumption
  <2>2. find(pt, p) # Invalid /\ pt.mem[find(pt, p)][Last(p)] # Invalid
    BY <1>5, <1>7, Zenon
  <2>3. find(pt, p) \in TablesOf(pt) /\ L[find(pt, p)] = LEVELS - 1 /\ Last(p) \in Idx
    BY <1>2, <2>1, <2>2, FindTable, Zenon
  <2>4. PICK q \in mapped : find(pt, q) = find(pt, p) /\ Last(q) = Last(p)
    BY <1>1, <2>2, <2>3, Zenon DEF Tree
  <2>5. p = q
    BY <1>2, <1>3, <2>2, <2>4, OnePage, Zenon
  <2> QED BY <2>5, Zenon
<1>8. {p \in 0 .. Span[LEVELS] - 1 : lookup(pt, p) # Invalid} = mapped
  BY <1>3, <1>6, <1>7, Zenon
\* What an entry points to: a table, or the frame of a page.
<1>9. \A e \in TablesOf(pt) : to_virt(e) \in DOMAIN pt.frames /\ pt.frames[to_virt(e)] = e /\ e \in Frames
  BY <1>2, Zenon DEF Shape, TablesOf
<1>10. \A p \in mapped, e \in TablesOf(pt) : pt.frames[p] # e
  <2> SUFFICES ASSUME NEW p \in mapped, NEW e \in TablesOf(pt), pt.frames[p] = e PROVE FALSE
    BY Zenon
  <2>1. p = to_virt(e)
    BY <1>2, <1>3, <1>9, Zenon DEF Shape
  <2> QED BY <1>2, <1>9, <2>1, MappableFacts, Zenon
<1>11. ASSUME NEW e \in TablesOf(pt), NEW i \in Idx, pt.mem[e][i] # Invalid
       PROVE  \/ /\ L[e] < LEVELS - 1
                 /\ pt.mem[e][i] \in TablesOf(pt) /\ L[pt.mem[e][i]] = L[e] + 1
              \/ \E p \in mapped : find(pt, p) = e /\ Last(p) = i /\ pt.mem[e][i] = pt.frames[p]
  <2>1. e \in Frames /\ L[e] \in 0 .. LEVELS - 1
    BY <1>2, <1>9, Zenon
  <2>2. CASE L[e] < LEVELS - 1
    BY <1>2, <1>11, <2>2, Zenon DEF Shape
  <2>3. CASE L[e] = LEVELS - 1
    <3>1. PICK p \in mapped : find(pt, p) = e /\ Last(p) = i
      BY <1>1, <1>11, <2>3, Zenon DEF Tree
    <3> QED BY <1>3, <3>1, Zenon
  <2>4. L[e] < LEVELS - 1 \/ L[e] = LEVELS - 1
    BY <2>1, LevelsAssumption, SMTT(30)
  <2> QED BY <2>2, <2>3, <2>4, Zenon
<1>12. ASSUME NEW e \in TablesOf(pt), NEW i \in Idx, pt.mem[e][i] # Invalid
       PROVE  pt.mem[e][i] \in Held(pt) /\ pt.mem[e][i] # pt.root
  <2>1. pt.root \in TablesOf(pt) /\ L[pt.root] = 0
    BY <1>2, Zenon DEF Shape
  <2>2. CASE pt.mem[e][i] \in TablesOf(pt) /\ L[pt.mem[e][i]] = L[e] + 1
    <3>1. L[e] + 1 # 0
      BY <1>2, <1>9, LevelsAssumption
    <3> QED BY <1>2, <2>1, <2>2, <3>1, TablesHeld, Zenon
  <2>3. CASE \E p \in mapped : pt.mem[e][i] = pt.frames[p]
    BY <1>3, <1>10, <2>1, <2>3, Zenon DEF Held
  <2> QED BY <1>11, <1>12, <2>2, <2>3, Zenon
<1>13. ASSUME NEW e \in TablesOf(pt), NEW d \in TablesOf(pt), NEW i \in Idx, NEW j \in Idx,
              pt.mem[e][i] # Invalid, pt.mem[e][i] = pt.mem[d][j]
       PROVE  e = d /\ i = j
  <2>1. CASE L[e] < LEVELS - 1 /\ L[d] < LEVELS - 1
    BY <1>2, <1>13, <2>1, EntryUnique, Zenon
  <2>2. CASE \E p \in mapped : find(pt, p) = e /\ Last(p) = i /\ pt.mem[e][i] = pt.frames[p]
    <3>1. PICK p \in mapped : find(pt, p) = e /\ Last(p) = i /\ pt.mem[e][i] = pt.frames[p]
      BY <2>2, Zenon
    <3>2. pt.mem[d][j] \notin TablesOf(pt)
      BY <1>10, <1>13, <3>1, Zenon
    <3>3. PICK q \in mapped : find(pt, q) = d /\ Last(q) = j /\ pt.mem[d][j] = pt.frames[q]
      BY <1>11, <1>13, <3>2, Zenon
    <3>4. p = q
      BY <1>2, <1>3, <1>13, <3>1, <3>3, Zenon DEF Shape
    <3> QED BY <3>1, <3>3, <3>4, Zenon
  <2>3. CASE \E q \in mapped : find(pt, q) = d /\ Last(q) = j /\ pt.mem[d][j] = pt.frames[q]
    <3>1. PICK q \in mapped : find(pt, q) = d /\ Last(q) = j /\ pt.mem[d][j] = pt.frames[q]
      BY <2>3, Zenon
    <3>2. pt.mem[e][i] \notin TablesOf(pt)
      BY <1>10, <1>13, <3>1, Zenon
    <3>3. \E p \in mapped : find(pt, p) = e /\ Last(p) = i /\ pt.mem[e][i] = pt.frames[p]
      BY <1>11, <1>13, <3>2, Zenon
    <3> QED BY <2>2, <3>3, Zenon
  <2> QED BY <1>11, <1>13, <2>1, <2>2, <2>3, Zenon
<1>14. Tables = TablesOf(pt)
  BY <1>0, Zenon DEF Tables, TablesOf
<1>15. \A e \in Entries : /\ e = <<e[1], e[2]>> /\ e[1] \in TablesOf(pt) /\ e[2] \in Idx
                          /\ pt.mem[e[1]][e[2]] # Invalid
  BY <1>0, <1>14 DEF Entries, Idx
<1>16. \A e \in Entries : pt.mem[e[1]][e[2]] \in Held(pt) \ {pt.root}
  BY <1>12, <1>15, Zenon
<1>17. \A e, d \in Entries : e # d => pt.mem[e[1]][e[2]] # pt.mem[d[1]][d[2]]
  <2> SUFFICES ASSUME NEW e \in Entries, NEW d \in Entries,
                      pt.mem[e[1]][e[2]] = pt.mem[d[1]][d[2]]
               PROVE  e = d
    BY Zenon
  <2>1. e[1] = d[1] /\ e[2] = d[2]
    BY <1>13, <1>15
  <2> QED BY <1>15, <2>1, Zenon
<1> QED BY <1>0, <1>3, <1>6, <1>8, <1>16, <1>17, Zenon DEF PageTreeExact

\* What the hardware finds in the kernel page table is what has been mapped and
\* not unmapped since, and no frame is used twice, for any number of levels and
\* entries and any frames, a map that fails half-way included (PageTable::map,
\* PageTable::unmap and find_or_create).
THEOREM PageTreeStaysExact == KSpec => []PageTreeExact
<1>1. KIInv => PageTreeExact
  BY TreeExact, Zenon
<1> QED BY <1>1, KInvariant, PTL

=============================================================================
