------------------------------- MODULE Paging -------------------------------
(***************************************************************************)
(* PageTable (kern/modules/paging/src/common.rs) and the frames it is made *)
(* of (kern/modules/phys-frame/src/lib.rs), as operators on a page table   *)
(* pt = [root, mem, frames]:                                               *)
(*   mem[f]    the entries of frame f where f holds a table: the frame an  *)
(*             entry points to, or Invalid (the V bit is clear);           *)
(*   frames    the BTreeMap that keeps frames alive, keyed by the virtual  *)
(*             page for a mapped page and by the linear address of the     *)
(*             frame for a table.                                          *)
(* Virtual addresses count pages; a permission other than V decides        *)
(* nothing here.  An Arc<PhysFrame> has no owner but `frames` once map has *)
(* returned, so that a frame no key holds has been dropped.                *)
(***************************************************************************)
EXTENDS Integers, FiniteSets

CONSTANTS Frames,             \* the frames of the machine, as numbers
          LEVELS, FANOUT,     \* indexes().len() and the entries of a table
          REMAP_MEM_OFFSET    \* of the linear mapping

ASSUME FramesAssumption == Frames \subseteq Nat /\ Frames # {}
ASSUME LevelsAssumption == LEVELS \in Nat \ {0} /\ FANOUT \in Nat \ {0}
ASSUME OffsetAssumption == REMAP_MEM_OFFSET \in Nat

Invalid == -1

to_virt(f) == REMAP_MEM_OFFSET + f

\* How many pages one entry of the n-th table from the last stands for.
Span[n \in 0 .. LEVELS] == IF n = 0 THEN 1 ELSE FANOUT * Span[n - 1]

indexes(va) == [k \in 1 .. LEVELS |-> (va \div Span[LEVELS - k]) % FANOUT]

\* BTreeMap::insert: what the key held before is dropped.
Insert(m, v, f) == [u \in DOMAIN m \cup {v} |-> IF u = v THEN f ELSE m[u]]

Remove(m, v) == [u \in DOMAIN m \ {v} |-> m[u]]

-----------------------------------------------------------------------------
(* PhysFrame *)

Held(pt) == {pt.frames[v] : v \in DOMAIN pt.frames}

Zeroed == [i \in 0 .. FANOUT - 1 |-> Invalid]

\* alloc_in: some frame of those that are not in use; the rest of the kernel
\* has taken `heap` frames of the same allocator, it does not matter which.
Free(pt, heap) ==
  IF Cardinality(Held(pt)) + heap < Cardinality(Frames) THEN Frames \ Held(pt) ELSE {}
Alloc(pt, heap) == CHOOSE f \in Free(pt, heap) : TRUE

-----------------------------------------------------------------------------
(* PageTable *)

\* PageTable::new.  The root also gets the entries of the boot page table
\* (clone_kernel), which are left out: each maps a huge page of
\* REMAP_MEM_REGIONS, and none has a root index of EXECUTOR_STACK_REGION, where
\* the pages mapped here are.
New(f) == [root |-> f, mem |-> [g \in Frames |-> Zeroed], frames |-> Insert(<<>>, to_virt(f), f)]

\* find: the table that holds the last entry for va, or Invalid.
find(pt, va) ==
  LET pa[k \in 0 .. LEVELS - 1] ==
        IF k = 0 THEN pt.root
        ELSE IF pa[k - 1] = Invalid THEN Invalid
        ELSE pt.mem[pa[k - 1]][indexes(va)[k]]
  IN  pa[LEVELS - 1]

\* Faulty variant: nobody keeps the frame of the new table.
DescendUnkept(r, i, heap) ==
  IF r.pa = Invalid THEN r
  ELSE IF r.pt.mem[r.pa][i] # Invalid THEN [r EXCEPT !.pa = r.pt.mem[r.pa][i]]
  ELSE IF Free(r.pt, heap) = {} THEN [r EXCEPT !.pa = Invalid]
  ELSE LET f == Alloc(r.pt, heap) IN
       [pt |-> [r.pt EXCEPT !.mem[f] = Zeroed, !.mem[r.pa][i] = f],
        pa |-> f]

\* One turn of find_or_create's loop above the last level: the entry is
\* followed, and first filled with a new table where it is not valid.
Descend(r, i, heap) ==
  IF r.pa = Invalid THEN r
  ELSE IF r.pt.mem[r.pa][i] # Invalid THEN [r EXCEPT !.pa = r.pt.mem[r.pa][i]]
  ELSE IF Free(r.pt, heap) = {} THEN [r EXCEPT !.pa = Invalid]
  ELSE LET f == Alloc(r.pt, heap) IN
       [pt |-> [r.pt EXCEPT !.mem[f] = Zeroed, !.mem[r.pa][i] = f,
                            !.frames = Insert(@, to_virt(f), f)],
        pa |-> f]

\* The tables it creates stay when a later level finds no frame.
find_or_create(pt, va, heap) ==
  LET at[k \in 0 .. LEVELS - 1] ==
        IF k = 0 THEN [pt |-> pt, pa |-> pt.root]
        ELSE Descend(at[k - 1], indexes(va)[k], heap)
  IN  at[LEVELS - 1]

\* Faulty variant: the entry is set and the frame is not kept.
mapUnkept(pt, va, f, heap) ==
  LET r == find_or_create(pt, va, heap) IN
  IF r.pa = Invalid
  THEN [pt |-> r.pt, ok |-> FALSE]
  ELSE [pt |-> [r.pt EXCEPT !.mem[r.pa][indexes(va)[LEVELS]] = f], ok |-> TRUE]

\* map: the frame is kept before the entry is looked for, and stays kept when
\* there is none.
map(pt, va, f, heap) ==
  LET r == find_or_create([pt EXCEPT !.frames = Insert(@, va, f)], va, heap) IN
  IF r.pa = Invalid
  THEN [pt |-> r.pt, ok |-> FALSE]
  ELSE [pt |-> [r.pt EXCEPT !.mem[r.pa][indexes(va)[LEVELS]] = f], ok |-> TRUE]

unmap(pt, va) ==
  IF va \notin DOMAIN pt.frames
  THEN [pt |-> pt, ok |-> FALSE]
  ELSE LET dropped == [pt EXCEPT !.frames = Remove(@, va)]
           pa == find(pt, va)
       IN IF pa = Invalid
          THEN [pt |-> dropped, ok |-> FALSE]
          ELSE [pt |-> [dropped EXCEPT !.mem[pa][indexes(va)[LEVELS]] = Invalid], ok |-> TRUE]

\* lookup: what the hardware finds at va, the frame or Invalid.
lookup(pt, va) ==
  IF find(pt, va) = Invalid THEN Invalid
  ELSE pt.mem[find(pt, va)][indexes(va)[LEVELS]]
=============================================================================
