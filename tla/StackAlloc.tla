----------------------------- MODULE StackAlloc -----------------------------
(***************************************************************************)
(* StackAllocator (kern/modules/stack-alloc/src/lib.rs) as the executors   *)
(* of all CPUs share it (EXECUTOR_STACK_ALLOCATOR, multitask/executor.rs): *)
(* Executor::new allocates a stack, the drop of an Executor deallocates.   *)
(*                                                                         *)
(* Addresses count pages.  A slot <<va, size>> is the guard [va, va+Guard) *)
(* and above it the `size` pages of the stack; allocate returns the top.   *)
(* A step is what one lock protects: the cache lock is a temporary of the  *)
(* `match`, so it is held over the load and the fetch_add of `next` too;   *)
(* then the insert into `allocated`; then each page under the write lock   *)
(* of KERN_PAGE_TABLE.                                                     *)
(***************************************************************************)
EXTENDS Integers, Sequences

CONSTANTS Callers,    \* the threads of control that create and drop executors
          Requests,   \* the sizes, in bytes, that are asked for
          PAGE_SIZE,
          Guard,      \* guard_size, in pages
          Base, Length   \* the region, in pages

ASSUME RequestsAssumption == Requests \subseteq Nat \ {0}
ASSUME PageSizeAssumption == PAGE_SIZE \in Nat \ {0}
ASSUME GuardAssumption == Guard \in Nat
ASSUME RegionAssumption == Base \in Nat /\ Length \in Nat

End == Base + Length

\* size.next_multiple_of(PAGE_SIZE), in pages.
Pages(bytes) == (bytes + PAGE_SIZE - 1) \div PAGE_SIZE

Sizes == {Pages(b) : b \in Requests}

VARIABLES
  next,        \* the first address never handed out
  allocated,   \* the BTreeMap from stack tops to sizes
  cached,      \* for every size the slots given back
  mapped,      \* the pages the kernel page table maps in and after the region
  call,        \* the call each caller is in: its program point and its locals
  owned,       \* the tops of the stacks of live executors
  failed       \* a deallocate().unwrap() has panicked

vars == <<next, allocated, cached, mapped, call, owned, failed>>

Idle == [at |-> "idle", va |-> 0, size |-> 0, i |-> 0]

TopOf(va, size) == va + size + Guard
Page(va, i) == va + Guard + i

Init ==
  /\ next = Base - Guard
  /\ allocated = [t \in {} |-> 0]
  /\ cached = [s \in Sizes |-> <<>>]
  /\ mapped = {}
  /\ call = [c \in Callers |-> Idle]
  /\ owned = {}
  /\ failed = FALSE

Goto(c, at, va, size, i) ==
  call' = [call EXCEPT ![c] = [at |-> at, va |-> va, size |-> size, i |-> i]]

-----------------------------------------------------------------------------
(* allocate *)

AllocCached(c, size) ==
  /\ call[c].at = "idle"
  /\ cached[size] # <<>>
  /\ Goto(c, "insert", Head(cached[size]), size, 0)
  /\ cached' = [cached EXCEPT ![size] = Tail(@)]
  /\ UNCHANGED <<next, allocated, mapped, owned, failed>>

\* Faulty variant: no room is left for the guard.
AllocFreshNoGuard(c, size) ==
  /\ call[c].at = "idle"
  /\ cached[size] = <<>>
  /\ next + size <= End
  /\ Goto(c, "insert", next, size, 0)
  /\ next' = next + size
  /\ UNCHANGED <<allocated, cached, mapped, owned, failed>>

AllocFresh(c, size) ==
  /\ call[c].at = "idle"
  /\ cached[size] = <<>>
  /\ next + size <= End
  /\ Goto(c, "insert", next, size, 0)
  /\ next' = next + size + Guard
  /\ UNCHANGED <<allocated, cached, mapped, owned, failed>>

\* NotEnoughMem: the call returns and changes nothing.
AllocFull(c, size) ==
  /\ call[c].at = "idle"
  /\ cached[size] = <<>>
  /\ next + size > End
  /\ UNCHANGED vars

AllocInsert(c) ==
  LET l == call[c] IN
  /\ l.at = "insert"
  /\ allocated' = [t \in DOMAIN allocated \cup {TopOf(l.va, l.size)} |->
                     IF t = TopOf(l.va, l.size) THEN l.size ELSE allocated[t]]
  /\ Goto(c, "map", l.va, l.size, 0)
  /\ UNCHANGED <<next, cached, mapped, owned, failed>>

\* One page is mapped; after the last one allocate returns the top.
AllocMap(c) ==
  LET l == call[c] IN
  /\ l.at = "map"
  /\ mapped' = mapped \cup {Page(l.va, l.i)}
  /\ IF l.i + 1 < l.size
     THEN Goto(c, "map", l.va, l.size, l.i + 1) /\ UNCHANGED owned
     ELSE /\ call' = [call EXCEPT ![c] = Idle]
          /\ owned' = owned \cup {TopOf(l.va, l.size)}
  /\ UNCHANGED <<next, allocated, cached, failed>>

\* No frame is left for the page or for a table above it: `?` returns, and
\* what was done so far stays.
AllocMapFails(c) ==
  /\ call[c].at = "map"
  /\ call' = [call EXCEPT ![c] = Idle]
  /\ UNCHANGED <<next, allocated, cached, mapped, owned, failed>>

-----------------------------------------------------------------------------
(* deallocate, which Executor::drop calls with the top it was given *)

DeallocRemove(c, top) ==
  /\ call[c].at = "idle"
  /\ owned' = owned \ {top}
  /\ IF top \in DOMAIN allocated
     THEN /\ allocated' = [t \in DOMAIN allocated \ {top} |-> allocated[t]]
          /\ Goto(c, "unmap", top - allocated[top] - Guard, allocated[top], 0)
          /\ UNCHANGED failed
     ELSE failed' = TRUE /\ UNCHANGED <<allocated, call>>
  /\ UNCHANGED <<next, cached, mapped>>

\* Faulty variant: the first page is not unmapped.
DeallocUnmapSkip(c) ==
  LET l == call[c] IN
  /\ l.at = "unmap"
  /\ mapped' = IF l.i = 0 THEN mapped ELSE mapped \ {Page(l.va, l.i)}
  /\ Goto(c, IF l.i + 1 < l.size THEN "unmap" ELSE "push", l.va, l.size, l.i + 1)
  /\ UNCHANGED <<next, allocated, cached, owned, failed>>

\* One page is unmapped; after the last one the slot is given back.
DeallocUnmap(c) ==
  LET l == call[c] IN
  /\ l.at = "unmap"
  /\ mapped' = mapped \ {Page(l.va, l.i)}
  /\ Goto(c, IF l.i + 1 < l.size THEN "unmap" ELSE "push", l.va, l.size, l.i + 1)
  /\ UNCHANGED <<next, allocated, cached, owned, failed>>

\* unmap returns an error, and the unwrap of Executor::drop panics.
DeallocUnmapFails(c) ==
  /\ call[c].at = "unmap"
  /\ call' = [call EXCEPT ![c] = Idle]
  /\ failed' = TRUE
  /\ UNCHANGED <<next, allocated, cached, mapped, owned>>

DeallocPush(c) ==
  LET l == call[c] IN
  /\ l.at = "push"
  /\ cached' = [cached EXCEPT ![l.size] = <<l.va>> \o @]
  /\ call' = [call EXCEPT ![c] = Idle]
  /\ UNCHANGED <<next, allocated, mapped, owned, failed>>

-----------------------------------------------------------------------------
Allocate(c) ==
  \/ \E size \in Sizes : AllocCached(c, size) \/ AllocFresh(c, size) \/ AllocFull(c, size)
  \/ AllocInsert(c) \/ AllocMap(c) \/ AllocMapFails(c)

Deallocate(c) ==
  \/ \E top \in owned : DeallocRemove(c, top)
  \/ IF Page(call[c].va, call[c].i) \in mapped THEN DeallocUnmap(c) ELSE DeallocUnmapFails(c)
  \/ DeallocPush(c)

Next == \E c \in Callers : Allocate(c) \/ Deallocate(c)

Spec == Init /\ [][Next]_vars

-----------------------------------------------------------------------------
(* Properties. *)

\* Type invariant.
TypeOK ==
  /\ next \in Int
  /\ DOMAIN allocated \subseteq Int
  /\ \A t \in DOMAIN allocated : allocated[t] \in Sizes
  /\ cached \in [Sizes -> Seq(Int)]
  /\ mapped \subseteq Int
  /\ \A c \in Callers :
       \/ call[c] = Idle
       \/ /\ call[c] \in [at : {"insert", "map", "unmap", "push"}, va : Int, size : Sizes, i : Nat]
          /\ call[c].at \in {"map", "unmap"} => call[c].i < call[c].size
  /\ owned \subseteq Int
  /\ failed \in BOOLEAN

\* Two slots are apart: neither overlaps the other, guard included.
Apart(va, size, wa, tize) ==
  \/ va + size + Guard <= wa
  \/ wa + tize + Guard <= va

\* c holds a slot that is neither in `allocated` nor in `cached`.
Holding(c) == call[c].at \in {"insert", "unmap", "push"}

AllocVa(t) == t - allocated[t] - Guard

\* Whoever has a slot has it alone, with a guard below it that nobody else
\* touches: the slots in `allocated`, in the caches and in the hands of
\* callers between two locks are pairwise apart, whatever the interleaving.
SlotsApart ==
  /\ \A c, d \in Callers : c # d /\ Holding(c) /\ Holding(d) =>
       Apart(call[c].va, call[c].size, call[d].va, call[d].size)
  /\ \A t, u \in DOMAIN allocated : t # u =>
       Apart(AllocVa(t), allocated[t], AllocVa(u), allocated[u])
  /\ \A s, r \in Sizes : \A i \in DOMAIN cached[s], j \in DOMAIN cached[r] :
       <<s, i>> # <<r, j>> => Apart(cached[s][i], s, cached[r][j], r)
  /\ \A c \in Callers, t \in DOMAIN allocated : Holding(c) =>
       Apart(call[c].va, call[c].size, AllocVa(t), allocated[t])
  /\ \A c \in Callers, s \in Sizes : Holding(c) => \A i \in DOMAIN cached[s] :
       Apart(call[c].va, call[c].size, cached[s][i], s)
  /\ \A t \in DOMAIN allocated, s \in Sizes : \A i \in DOMAIN cached[s] :
       Apart(AllocVa(t), allocated[t], cached[s][i], s)

\* page_table.map is only called for pages that are not mapped: it would
\* silently replace the frame of a stack in use.  The unwrap of Executor::drop
\* never panics, and a live executor has its whole stack mapped.  The bound
\* check leaves the guard out, so a stack may end above the region, but by no
\* more than one guard.
StacksMapped ==
  /\ \A c \in Callers : call[c].at = "map" =>
       \A k \in call[c].i .. call[c].size - 1 : Page(call[c].va, k) \notin mapped
  /\ ~ failed
  /\ \A t \in owned : /\ t \in DOMAIN allocated
                      /\ t - allocated[t] .. t - 1 \subseteq mapped
  /\ mapped \subseteq Base .. End + Guard - 1
=============================================================================
