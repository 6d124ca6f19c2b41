------------------------------- MODULE Loader -------------------------------
(***************************************************************************)
(* ElfLoader::load (loader/src/lib.rs) with the callback that loads a      *)
(* program into the kernel page table (load_elf, kern/src/test/trap).  The *)
(* tests load one program after another, each over what is mapped already. *)
(* Addresses are bytes; a byte of memory is zero, as a frame is when it is *)
(* allocated, or byte i of the file's data of a segment.                   *)
(***************************************************************************)
EXTENDS Naturals, Sequences, SequencesExt, FiniteSets, FiniteSetsExt

CONSTANTS PAGE_SIZE, MaxVaddr, MaxMemsz, MaxSegments, Perms

ASSUME PageSizeAssumption == PAGE_SIZE \in Nat \ {0}

VARIABLES segs,    \* the PT_LOAD segments loaded so far, of all programs
          base,    \* the number of them that belong to earlier programs
          before,  \* the pages as they were when the program was begun (history)
          pages    \* the pages mapped so far: permissions and bytes

lvars == <<segs, base, before, pages>>

ProgramHeaders ==
  {h \in [vaddr : 0 .. MaxVaddr, filesz : 0 .. MaxMemsz, memsz : 0 .. MaxMemsz, perm : SUBSET Perms] :
     h.filesz <= h.memsz}

PageOf(a) == a \div PAGE_SIZE
Zero == <<0, 0>>

\* from, from + PAGE_SIZE, ... below to
StepBy(from, to) ==
  [k \in 1 .. (IF from < to THEN (to - from + PAGE_SIZE - 1) \div PAGE_SIZE ELSE 0) |->
     from + (k - 1) * PAGE_SIZE]

\* Faulty variant: the first page is always taken to be full.
FirstLenFull(h, offset) == IF offset = 0 THEN 0 ELSE PAGE_SIZE - offset

\* The bytes of the file on the page where a segment starts in its middle.
FirstLen(h, offset) == IF offset = 0 THEN 0 ELSE Min({h.filesz, PAGE_SIZE - offset})

\* load_segment: the calls of the callback, with an address, the offset in
\* its page and a number of bytes.
Calls(h) ==
  LET offset == h.vaddr % PAGE_SIZE
      len == FirstLen(h, offset)
      first == IF offset = 0 THEN <<>> ELSE <<[vaddr |-> h.vaddr, offset |-> offset, len |-> len]>>
      load == [k \in DOMAIN StepBy(len, h.filesz) |->
                 LET o == StepBy(len, h.filesz)[k]
                 IN  [vaddr |-> h.vaddr + o, offset |-> 0, len |-> Min({PAGE_SIZE, h.filesz - o})]]
      zero == [k \in DOMAIN StepBy(h.filesz, h.memsz) |->
                 [vaddr |-> h.vaddr + StepBy(h.filesz, h.memsz)[k], offset |-> 0, len |-> 0]]
  IN  first \o load \o zero

\* The callback of load_elf: the page of the address is mapped, or its
\* permissions are extended; the bytes come from the start of the segment.
Fresh == [perm |-> {}, bytes |-> [o \in 0 .. PAGE_SIZE - 1 |-> Zero]]
Callback(ps, n, h, c) ==
  LET p == PageOf(c.vaddr)
      old == IF p \in DOMAIN ps THEN ps[p] ELSE Fresh
      new == [perm  |-> old.perm \cup h.perm,
              bytes |-> [o \in DOMAIN old.bytes |->
                           IF o >= c.offset /\ o < c.offset + c.len
                           THEN <<n, o - c.offset>> ELSE old.bytes[o]]]
  IN  [q \in DOMAIN ps \cup {p} |-> IF q = p THEN new ELSE ps[q]]

LInit == segs = <<>> /\ base = 0 /\ before = <<>> /\ pages = <<>>

\* load_elf of the next program
LoadElf ==
  /\ base < Len(segs) /\ Len(segs) < MaxSegments
  /\ base' = Len(segs) /\ before' = pages
  /\ UNCHANGED <<segs, pages>>

\* The next segment of the file: their addresses ascend and do not overlap.
LoadSegment(h) ==
  /\ Len(segs) < MaxSegments
  /\ base < Len(segs) => h.vaddr >= Last(segs).vaddr + Last(segs).memsz
  /\ segs' = Append(segs, h)
  /\ pages' = FoldLeft(LAMBDA ps, c : Callback(ps, Len(segs'), h, c), pages, Calls(h))
  /\ UNCHANGED <<base, before>>

LNext == LoadElf \/ \E h \in ProgramHeaders : LoadSegment(h)

-----------------------------------------------------------------------------
(* Properties. *)

\* The segments of the program being loaded.
Program == base + 1 .. Len(segs)
InFile(n, a) == a \in segs[n].vaddr .. segs[n].vaddr + segs[n].filesz - 1

\* The calls for a segment stay within a page, and hand over every byte of
\* the file exactly once.
FileCovered(h) ==
  LET cs == Calls(h) IN
  /\ \A k \in DOMAIN cs : cs[k].offset + cs[k].len <= PAGE_SIZE
  /\ \A k \in DOMAIN cs : cs[k].len > 0 => cs[k].offset = cs[k].vaddr % PAGE_SIZE
  /\ \A a \in h.vaddr .. h.vaddr + h.filesz - 1 :
       Cardinality({k \in DOMAIN cs : a \in cs[k].vaddr .. cs[k].vaddr + cs[k].len - 1}) = 1

\* The steps through the zeroed part start at the end of the file's bytes and
\* pass over its last page when it ends on that page before the same offset.
LastPageMissed(h, p) ==
  /\ p = PageOf(h.vaddr + h.memsz - 1) /\ p # PageOf(h.vaddr + h.filesz)
  /\ h.filesz < h.memsz
  /\ (h.vaddr + h.memsz - 1) % PAGE_SIZE < (h.vaddr + h.filesz) % PAGE_SIZE

\* The pages that are mapped for a segment: those of its bytes but the one that
\* is missed, and the one it starts in the middle of, even when it is empty.
PagesOf(h) ==
  {p \in {PageOf(a) : a \in h.vaddr .. h.vaddr + h.memsz - 1} : ~LastPageMissed(h, p)}
  \cup (IF h.vaddr % PAGE_SIZE = 0 THEN {} ELSE {PageOf(h.vaddr)})

\* What is at address a after the load.  On the page a segment starts in it is
\* the byte the file has for a; every later page of the segment begins with the
\* segment's first byte again, since the callback always copies from there.
\* Whatever is not in the file is left as it was: zero on a page that is new,
\* and on a page that was mapped what the program before has left there, in the
\* part the segment wants zeroed as well.
ByteAt(a) ==
  LET in == {n \in Program : InFile(n, a)}
      p == PageOf(a)
  IN  IF in # {} THEN LET n == CHOOSE m \in in : TRUE
                      IN  <<n, a - Max({segs[n].vaddr, p * PAGE_SIZE})>>
      ELSE IF p \in DOMAIN before THEN before[p].bytes[a % PAGE_SIZE] ELSE Zero

\* After any number of segments, some on the same page, and over any program
\* loaded before: the pages mapped are those that were and the ones PagesOf
\* names, each with the permissions of all segments on it, and every byte of
\* them is the one ByteAt names.
ImageExact ==
  /\ \A n \in Program : FileCovered(segs[n])
  /\ DOMAIN pages = DOMAIN before \cup UNION {PagesOf(segs[n]) : n \in Program}
  /\ \A p \in DOMAIN pages :
       /\ pages[p].perm = (IF p \in DOMAIN before THEN before[p].perm ELSE {})
                          \cup UNION {segs[n].perm : n \in {m \in Program : p \in PagesOf(segs[m])}}
       /\ \A o \in 0 .. PAGE_SIZE - 1 : pages[p].bytes[o] = ByteAt(p * PAGE_SIZE + o)
=============================================================================
