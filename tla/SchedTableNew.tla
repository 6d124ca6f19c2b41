---------------------------- MODULE SchedTableNew ---------------------------
(***************************************************************************)
(* RuntimeSchedTable::new on every list of slots a caller may pass, in     *)
(* every order: the list is collected, sorted by offset and checked.       *)
(* Reference says what an accepted table means without going through the   *)
(* sorted list.                                                            *)
(***************************************************************************)
EXTENDS SchedTable, FiniteSets

CONSTANTS Inspectors, FrameSize,
          MaxSlots,      \* bound on the length of the list
          Periods, Durations

VARIABLES given,    \* the slots the iterator has yielded
          sorted,   \* the table in the order of offsets
          result    \* "collecting", or what new returns: "Ok" or "Err"

tvars == <<given, sorted, result>>

Slots == {Slot(i, o, p, d) : i \in Inspectors, o \in 0 .. FrameSize,
                             p \in Periods, d \in Durations}

TInit == given = <<>> /\ sorted = <<>> /\ result = "collecting"

Collect(s) ==
  /\ result = "collecting" /\ Len(given) < MaxSlots
  /\ given' = Append(given, s)
  /\ UNCHANGED <<sorted, result>>

\* The results sort_unstable_by_key(offset) may have on s.
Sorts(s) ==
  {t \in {[j \in DOMAIN s |-> s[p[j]]] :
            p \in {q \in [DOMAIN s -> DOMAIN s] : \A j, k \in DOMAIN s : q[j] = q[k] => j = k}} :
     \A j \in DOMAIN s : j + 1 \in DOMAIN s => t[j].offset <= t[j + 1].offset}

New ==
  /\ result = "collecting"
  /\ sorted' \in Sorts(given)
  /\ result' = IF Valid(FrameSize, sorted') THEN "Ok" ELSE "Err"
  /\ UNCHANGED given

TNext == (\E s \in Slots : Collect(s)) \/ New

-----------------------------------------------------------------------------
(* Properties. *)

\* The offsets at which inspector i is started in one frame.
Starts(i) == {given[k].offset : k \in {j \in DOMAIN given : given[j].insp = i}}

Used == {given[k].insp : k \in DOMAIN given}

\* No two slots of one frame share a moment, and all start in the frame.
Disjoint ==
  \A j, k \in DOMAIN given :
    /\ given[j].offset < FrameSize
    /\ j # k => \/ given[j].offset + given[j].duration <= given[k].offset
                \/ given[k].offset + given[k].duration <= given[j].offset

\* Inspector i is started every `period`, frame after frame: its starts are
\* one residue class of the frame, and the frame is a whole number of periods.
Regular(i) ==
  \E p \in Periods, d \in Durations :
    /\ \A k \in DOMAIN given : given[k].insp = i => given[k].period = p /\ given[k].duration = d
    /\ FrameSize % p = 0
    /\ \E o \in Starts(i) : Starts(i) = {x \in 0 .. FrameSize - 1 : x % p = o % p}
    /\ Cardinality(Starts(i)) = Cardinality({k \in DOMAIN given : given[k].insp = i})

PositiveDurations == \A k \in DOMAIN given : given[k].duration > 0

\* For slots that last, RuntimeSchedTable::new accepts exactly the tables whose
\* slots are disjoint within the frame and start each inspector regularly.
AcceptsExactly ==
  result # "collecting" /\ PositiveDurations =>
    (result = "Ok" <=> Disjoint /\ \A i \in Used : Regular(i))
=============================================================================
