---------------------------- MODULE PriorityQueue ----------------------------
(***************************************************************************)
(* What a priority queue promises its users, with no word on how it is     *)
(* built: the pending entries form a set, every entry carries the number   *)
(* of its arrival, and a removal takes the oldest of the most urgent ones. *)
(***************************************************************************)
EXTENDS Naturals

CONSTANTS Priorities,   \* the priorities, a set of naturals
          MaxArrivals   \* bound on the number of insertions

VARIABLES pending,      \* the entries that are in the queue
          arrivals,     \* how many entries were ever inserted
          ret           \* what the last operation returned: <<>> or <<entry>>

vars == <<pending, arrivals, ret>>

Entry == [pri : Priorities, seq : Nat]

Init ==
  /\ pending = {}
  /\ arrivals = 0
  /\ ret = <<>>

Insert(p) ==
  /\ arrivals < MaxArrivals
  /\ pending' = pending \cup {[pri |-> p, seq |-> arrivals]}
  /\ arrivals' = arrivals + 1
  /\ ret' = <<>>

\* e is served before o.
Before(e, o) == e.pri > o.pri \/ (e.pri = o.pri /\ e.seq <= o.seq)

RemoveFirst ==
  /\ \E e \in pending :
       /\ \A o \in pending : Before(e, o)
       /\ pending' = pending \ {e}
       /\ ret' = <<e>>
  /\ UNCHANGED arrivals

RemoveNone ==
  /\ pending = {}
  /\ ret' = <<>>
  /\ UNCHANGED <<pending, arrivals>>

Next ==
  \/ \E p \in Priorities : Insert(p)
  \/ RemoveFirst
  \/ RemoveNone

Spec == Init /\ [][Next]_vars
=============================================================================
