----------------------------- MODULE SchedTable -----------------------------
(***************************************************************************)
(* The checks of RuntimeSchedTable::new (multitask/src/runtime.rs): when a *)
(* list of slots makes a schedule table.  A slot is an inspector, its      *)
(* offset in the frame, its period and its duration.                       *)
(***************************************************************************)
EXTENDS Naturals, Sequences

Slot(i, o, p, d) == [insp |-> i, offset |-> o, period |-> p, duration |-> d]

\* The slots of inspector i, as group_by yields them: in the order of offsets.
SlotsOf(table, i) == SelectSeq(table, LAMBDA s : s.insp = i)

\* Every slot starts in the frame and ends before the next one starts.
SlotsFit(frame, table) ==
  \A k \in DOMAIN table :
    /\ table[k].offset < frame
    /\ k + 1 \in DOMAIN table => table[k].offset + table[k].duration <= table[k + 1].offset

\* The slots of one inspector have one period and one duration.
SameShape(slots) ==
  \A k \in DOMAIN slots :
    slots[k].period = slots[1].period /\ slots[k].duration = slots[1].duration

\* Faulty variant: the way from the last slot to the first of the next frame
\* is not looked at.
PeriodsMatchNoWrap(frame, slots) ==
  \A k \in DOMAIN slots : k + 1 \in DOMAIN slots =>
    slots[k + 1].offset - slots[k].offset = slots[k].period

\* From each slot of an inspector to its next one, around the frame, it is
\* one period.
PeriodsMatch(frame, slots) ==
  \A k \in DOMAIN slots :
    LET this == slots[k]
        succ == slots[(k % Len(slots)) + 1]
    IN this.period = IF succ.offset <= this.offset
                     THEN (succ.offset + frame) - this.offset
                     ELSE succ.offset - this.offset

\* RuntimeSchedTable::valid, for a table sorted by offset.
Valid(frame, table) ==
  /\ SlotsFit(frame, table)
  /\ \A k \in DOMAIN table :
       LET slots == SlotsOf(table, table[k].insp)
       IN SameShape(slots) /\ PeriodsMatch(frame, slots)
=============================================================================
