------------------------------ MODULE Intervals -----------------------------
(***************************************************************************)
(* ExclusiveIntervals (util/src/interval.rs): a union of address ranges    *)
(* minus other ranges, kept as steps of a counter and swept from left to   *)
(* right.  driver/src/mem.rs uses it to hand the memory beside the kernel  *)
(* image to the heap.                                                      *)
(***************************************************************************)
EXTENDS Integers, Sequences, FiniteSets, FiniteSetsExt

CONSTANTS INFINITY,    \* outweighs every number of ranges
          MaxStart, MaxLen,
          MaxRanges    \* bound on the ranges added and subtracted

ASSUME InfinityAssumption == INFINITY > 2 * MaxRanges

Bounds == [start : 0 .. MaxStart, len : 0 .. MaxLen]

VARIABLES
  inner,          \* the steps: a position and what is added there
  iter,           \* the iterator: the sum so far and the positions that remain
  yielded,        \* the ranges it has yielded
  added, removed, \* the ranges of new, and of the subtractions
  stage           \* "new", "sub", "iter" or "done"

ivars == <<inner, iter, yielded, added, removed, stage>>

IInit ==
  /\ inner = <<>> /\ iter = [sum |-> 0, rest |-> <<>>] /\ yielded = <<>>
  /\ added = {} /\ removed = {} /\ stage = "new"

Steps(b, n) == <<<<b.start, n>>, <<b.start + b.len, -n>>>>

\* ExclusiveIntervals::new, a range of its argument at a time; its assertion
\* on the number of steps is InfinityAssumption.
AddBound(b) ==
  /\ stage = "new" /\ Len(inner) < 2 * MaxRanges
  /\ inner' = inner \o Steps(b, 1)
  /\ added' = added \cup {b}
  /\ UNCHANGED <<iter, yielded, removed, stage>>

\* Faulty variant: the counter goes down by one only.
SubAssignOne(b) ==
  /\ stage \in {"new", "sub"} /\ Len(inner) < 2 * MaxRanges
  /\ inner' = inner \o Steps(b, -1)
  /\ removed' = removed \cup {b} /\ stage' = "sub"
  /\ UNCHANGED <<iter, yielded, added>>

SubAssign(b) ==
  /\ stage \in {"new", "sub"} /\ Len(inner) < 2 * MaxRanges
  /\ inner' = inner \o Steps(b, -INFINITY)
  /\ removed' = removed \cup {b} /\ stage' = "sub"
  /\ UNCHANGED <<iter, yielded, added>>

Positions == {inner[k][1] : k \in DOMAIN inner}

\* Sorted, the steps at one position together.
IntoIter ==
  /\ stage \in {"new", "sub"}
  /\ iter' = [sum  |-> 0,
              rest |-> [j \in 1 .. Cardinality(Positions) |->
                 LET pos == CHOOSE p \in Positions : Cardinality({q \in Positions : q < p}) = j - 1
                 IN  <<pos, MapThenSumSet(LAMBDA k : inner[k][2],
                                          {k \in DOMAIN inner : inner[k][1] = pos})>>]]
  /\ stage' = "iter"
  /\ UNCHANGED <<inner, yielded, added, removed>>

\* The sum after j of the remaining steps, and where it rises above zero or
\* falls back.
SumAfter(j) == iter.sum + MapThenSumSet(LAMBDA k : iter.rest[k][2], 1 .. j)
Rises == {j \in DOMAIN iter.rest : SumAfter(j - 1) <= 0 /\ SumAfter(j) > 0}
Falls == {j \in DOMAIN iter.rest : SumAfter(j - 1) > 0 /\ SumAfter(j) <= 0}

\* ExclusiveIntervalsIter::next: up to the first fall, or to the end.
NextInterval ==
  /\ stage = "iter"
  /\ IF Falls = {}
     THEN /\ iter' = [sum |-> SumAfter(Len(iter.rest)), rest |-> <<>>]
          /\ stage' = "done" /\ UNCHANGED yielded
     ELSE LET fall == Min(Falls)
              left == iter.rest[Max({j \in Rises : j < fall})][1]
          IN  /\ yielded' = Append(yielded, [start |-> left, len |-> iter.rest[fall][1] - left])
              /\ iter' = [sum |-> SumAfter(fall), rest |-> SubSeq(iter.rest, fall + 1, Len(iter.rest))]
              /\ UNCHANGED stage
  /\ UNCHANGED <<inner, added, removed>>

INext ==
  \/ \E b \in Bounds : AddBound(b) \/ SubAssign(b)
  \/ IntoIter \/ NextInterval

-----------------------------------------------------------------------------
(* Properties. *)

Covers(bs) == UNION {b.start .. b.start + b.len - 1 : b \in bs}

\* Once it is through, the iterator has yielded exactly what is in a range of
\* new and in no subtracted one, in order, in ranges that are not empty and
\* cannot be joined: the heap gets all memory beside the kernel image, once.
IntervalsExact ==
  stage = "done" =>
    /\ Covers({yielded[k] : k \in DOMAIN yielded}) = Covers(added) \ Covers(removed)
    /\ \A k \in DOMAIN yielded :
         /\ yielded[k].len > 0
         /\ k > 1 => yielded[k - 1].start + yielded[k - 1].len < yielded[k].start
=============================================================================
