---------------------------- MODULE KernelStacks ----------------------------
(***************************************************************************)
(* The stack allocator on the kernel page table: EXECUTOR_STACK_ALLOCATOR  *)
(* (multitask/src/executor.rs) gives StackAlloc the two closures that map  *)
(* and unmap a page of KERN_PAGE_TABLE (vmm/src/lib.rs), each under its    *)
(* write lock.  Whether a page can be mapped is decided here by the frames *)
(* that are left, which the rest of the kernel takes and gives back at any *)
(* moment; StackAlloc leaves it open.                                      *)
(***************************************************************************)
EXTENDS StackAlloc, Paging

\* The region, and the guard a stack may exceed it by, can be translated, and is
\* apart from the linear mapping of the frames.
ASSUME StackRegionAssumption ==
  /\ End + Guard <= Span[LEVELS]
  /\ \A f \in Frames : to_virt(f) \notin Base .. End + Guard - 1

VARIABLES
  page_table,   \* KERN_PAGE_TABLE
  heap          \* how many frames the rest of the kernel has

kvars == <<vars, page_table, heap>>

KInit ==
  /\ Init
  /\ heap = 0
  /\ page_table = New(CHOOSE f \in Frames : TRUE)

-----------------------------------------------------------------------------
(* The closures. *)

MapPage(pt, va) ==
  IF Free(pt, heap) = {}
  THEN [pt |-> pt, ok |-> FALSE]
  ELSE map(pt, va, Alloc(pt, heap), heap)

KMap(c) ==
  /\ call[c].at = "map"
  /\ LET r == MapPage(page_table, Page(call[c].va, call[c].i)) IN
     /\ page_table' = r.pt
     /\ \/ r.ok /\ AllocMap(c)
        \/ ~ r.ok /\ AllocMapFails(c)
  /\ UNCHANGED heap

KUnmap(c) ==
  /\ call[c].at = "unmap"
  /\ LET r == unmap(page_table, Page(call[c].va, call[c].i)) IN
     /\ page_table' = r.pt
     /\ IF r.ok THEN DeallocUnmap(c) ELSE DeallocUnmapFails(c)
  /\ UNCHANGED heap

-----------------------------------------------------------------------------
(* The rest of the kernel. *)

HeapTake ==
  /\ Free(page_table, heap) # {}
  /\ heap' = heap + 1
  /\ UNCHANGED <<vars, page_table>>

HeapGive ==
  /\ heap > 0
  /\ heap' = heap - 1
  /\ UNCHANGED <<vars, page_table>>

-----------------------------------------------------------------------------
\* The steps that leave the page table alone.
Still == UNCHANGED <<page_table, heap>>

Bookkeeping(c) ==
  \/ \E size \in Sizes : \/ AllocCached(c, size) /\ Still
                         \/ AllocFresh(c, size) /\ Still
                         \/ AllocFull(c, size) /\ Still
  \/ AllocInsert(c) /\ Still
  \/ \E top \in owned : DeallocRemove(c, top) /\ Still
  \/ DeallocPush(c) /\ Still

KNext ==
  \/ \E c \in Callers : KMap(c) \/ KUnmap(c) \/ Bookkeeping(c)
  \/ HeapTake \/ HeapGive

KSpec == KInit /\ [][KNext]_kvars

-----------------------------------------------------------------------------
(* Properties. *)

\* The tables, which `frames` keeps under their linear addresses.
Tables == {f \in Frames : to_virt(f) \in DOMAIN page_table.frames}

Entries == {e \in Tables \X (0 .. FANOUT - 1) : page_table.mem[e[1]][e[2]] # Invalid}

\* The pages the hardware finds a frame for are those that have been mapped and
\* not unmapped since, and each finds the frame kept for it: mapping or
\* unmapping a page, and a map that fails half-way, disturb no other page.
\* No frame is used twice and none after it was dropped: every valid entry
\* points to a frame that the page table keeps, no two to the same one and none
\* to the root.
PageTreeExact ==
  /\ {p \in 0 .. Span[LEVELS] - 1 : lookup(page_table, p) # Invalid} = mapped
  /\ \A p \in mapped : p \in DOMAIN page_table.frames /\ page_table.frames[p] = lookup(page_table, p)
  /\ \A e \in Entries : page_table.mem[e[1]][e[2]] \in Held(page_table) \ {page_table.root}
  /\ \A e, d \in Entries : e # d => page_table.mem[e[1]][e[2]] # page_table.mem[d[1]][d[2]]

\* On the page table the allocator still behaves as StackAlloc says, where
\* unmapping a page that was mapped succeeds.
StackAllocSpec == Init /\ [][Next]_vars
=============================================================================
