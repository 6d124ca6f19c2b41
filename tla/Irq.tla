-------------------------------- MODULE Irq --------------------------------
(***************************************************************************)
(* Device interrupts on several CPUs: the PLIC driver                      *)
(* (driver/src/irq/riscv_plic.rs), the CPU's interrupt controller          *)
(* (riscv_intc.rs) and the strategy that moves the interrupts of the       *)
(* network card and the UART between CPUs (irq_dispatch.rs).               *)
(*                                                                         *)
(* A handler holds the write lock of IRQ_TABLE from the claim to the       *)
(* completion, the strategy (a timed event of the primary CPU) while it    *)
(* takes the interrupts off all CPUs and places them again.  Both run with *)
(* interrupts off.  The network handler polls the interface and waits for  *)
(* the locks of the network stack; NetLocks has them and says when it      *)
(* waits for ever.  Here a handler takes any time, or never ends.          *)
(*                                                                         *)
(* The PLIC is external: a claim returns the pending interrupt of least    *)
(* number that is enabled for the CPU (all have priority 7) and clears it; *)
(* a completion counts only if the interrupt is enabled for the CPU.       *)
(*                                                                         *)
(* Which runtimes a strategy finds Running, and the priorities it reads    *)
(* there, are arbitrary.                                                   *)
(***************************************************************************)
EXTENDS Naturals, FiniteSets, FiniteSetsExt

CONSTANTS Cpus,          \* 0 .. CPU_COUNT - 1
          Primary,       \* the CPU that runs init_strategy and the strategy
          TaskPriorities,  \* the priorities a task can have
          NetIrq, UartIrq,
          NET_LOAD, UART_LOAD,
          BYTE,          \* 256: INTERRUPT_COUNT holds u8
          MaxCount,      \* bound at which IRQ_COUNT saturates
          MaxMoves,      \* bound on the runs of the strategy
          None

ASSUME CpusAssumption == Cpus \subseteq Nat /\ IsFiniteSet(Cpus) /\ Primary \in Cpus /\ None \notin Cpus
ASSUME PrioritiesAssumption == TaskPriorities \subseteq Nat /\ TaskPriorities # {}
ASSUME IrqAssumption == NetIrq \in Nat /\ UartIrq \in Nat /\ NetIrq < UartIrq
ASSUME ByteAssumption == BYTE \in Nat \ {0}
ASSUME LoadAssumption == NET_LOAD \in Nat /\ UART_LOAD \in Nat /\ MaxCount \in Nat /\ MaxMoves \in Nat

Irqs == {NetIrq, UartIrq}

VARIABLES
  board,      \* ROOT_COMPATIBLE
  debug,      \* built with overflow checks
  pending,    \* PLIC: interrupts raised and not claimed
  service,    \* PLIC: for every interrupt the CPU that claimed it, or None
  enabled,    \* PLIC: for every CPU the interrupts enabled for it
  table,      \* the holder of IRQ_TABLE's write lock, or None
  count,      \* IRQ_COUNT
  taken,      \* INTERRUPT_COUNT
  pc,         \* "task", "intc", "handle", "strategy" or "place"
  moves,      \* runs of the strategy so far
  moved,      \* CPUs in "intc" whose interrupts were moved meanwhile (history)
  fault       \* "none", or the panic that ended the behaviour

vars == <<board, debug, pending, service, enabled, table, count, taken, pc, moves, moved, fault>>
buildvars == <<board, debug>>
plicvars == <<pending, service, enabled>>

Alive == fault = "none"
At(c, l) == Alive /\ pc[c] = l
Goto(c, l) == pc' = [pc EXCEPT ![c] = l]

\* Plic::new disables everything; register_device; init_strategy enables both
\* interrupts on the CPU that boots.
Init ==
  /\ board \in {"riscv-virtio", "sifive"} /\ debug \in BOOLEAN
  /\ pending = {}
  /\ service = [i \in Irqs |-> None]
  /\ enabled = [c \in Cpus |-> IF c = Primary THEN Irqs ELSE {}]
  /\ table = None
  /\ count = [i \in Irqs |-> 0]
  /\ taken = [c \in Cpus |-> 0]
  /\ pc = [c \in Cpus |-> "task"]
  /\ moves = 0 /\ moved = {} /\ fault = "none"

-----------------------------------------------------------------------------
(* The device. *)

Raise(i) ==
  /\ Alive /\ i \notin pending /\ service[i] = None
  /\ pending' = pending \cup {i}
  /\ UNCHANGED <<buildvars, service, enabled, table, count, taken, pc, moves, moved, fault>>

-----------------------------------------------------------------------------
(* The external interrupt: handle_kern_trap, Intc and Plic::handle_irq. *)

Trap(c) ==
  /\ At(c, "task") /\ pending \cap enabled[c] # {}
  /\ Goto(c, "intc")
  /\ moved' = moved \ {c}
  /\ UNCHANGED <<buildvars, plicvars, table, count, taken, moves, fault>>

\* IRQ_TABLE.write(), the claim and the count.  A claim of nothing returns
\* Duration zero, from which handle_kern_trap subtracts the time of the trap.
Claim(c) ==
  /\ At(c, "intc") /\ table = None
  /\ LET ready == pending \cap enabled[c] IN
     IF ready = {}
     THEN fault' = "claim zero" /\ UNCHANGED <<plicvars, table, count, pc>>
     ELSE LET i == Min(ready) IN
          /\ pending' = pending \ {i}
          /\ service' = [service EXCEPT ![i] = c]
          /\ count' = [count EXCEPT ![i] = IF @ < MaxCount THEN @ + 1 ELSE @]
          /\ table' = c /\ Goto(c, "handle")
          /\ UNCHANGED <<enabled, fault>>
  /\ UNCHANGED <<buildvars, taken, moves, moved>>

\* The end of the device's handler, end_of_interrupt, the release of IRQ_TABLE
\* and INTERRUPT_COUNT: with overflow checks the last u8 panics.
Handle(c) ==
  /\ At(c, "handle")
  /\ service' = [i \in Irqs |-> IF service[i] = c /\ i \in enabled[c] THEN None ELSE service[i]]
  /\ table' = None /\ Goto(c, "task")
  /\ taken' = [taken EXCEPT ![c] = (@ + 1) % BYTE]
  /\ fault' = IF debug /\ taken[c] = BYTE - 1 THEN "overflow" ELSE fault
  /\ UNCHANGED <<buildvars, pending, enabled, count, moves, moved>>

-----------------------------------------------------------------------------
(* min_load_strategy_event, called from the timer interrupt. *)

TimerTrap(c) ==
  /\ c = Primary /\ At(c, "task") /\ moves < MaxMoves
  /\ moves' = moves + 1
  /\ Goto(c, "strategy")
  /\ UNCHANGED <<buildvars, plicvars, table, count, taken, moved, fault>>

\* Plic::enable and Plic::disable set and clear one bit of the CPU's context.
Enable(en, c, i) == [en EXCEPT ![c] = @ \cup {i}]
Disable(en, c, i) == [en EXCEPT ![c] = @ \ {i}]

\* Faulty variant: the strategy does not take the lock of IRQ_TABLE.
StrategyDisableUnlocked(c) ==
  /\ At(c, "strategy")
  /\ enabled' = [d \in Cpus |-> {}]
  /\ table' = c /\ Goto(c, "place")
  /\ moved' = {d \in Cpus : pc[d] = "intc"}
  /\ UNCHANGED <<buildvars, pending, service, count, taken, moves, fault>>

\* Faulty variant: the CPU of the strategy itself keeps its interrupts.
StrategyDisableOthers(c) ==
  /\ At(c, "strategy") /\ table = None
  /\ enabled' = [d \in Cpus |-> IF d = c THEN enabled[d] ELSE {}]
  /\ table' = c /\ Goto(c, "place")
  /\ moved' = {d \in Cpus : pc[d] = "intc"}
  /\ UNCHANGED <<buildvars, pending, service, count, taken, moves, fault>>

\* get_context_id panics: the first hart of a sifive board has no context.
NoContext(c) == board = "sifive" /\ c = 0

\* IRQ_TABLE.write() and the loop over the CPUs, which begins with CPU 0.
StrategyDisable(c) ==
  /\ At(c, "strategy") /\ table = None
  /\ IF \E d \in Cpus : NoContext(d)
     THEN fault' = "context" /\ UNCHANGED <<enabled, table, pc, moved>>
     ELSE /\ enabled' = [d \in Cpus |-> Disable(Disable(enabled, d, UartIrq), d, NetIrq)[d]]
          /\ table' = c /\ Goto(c, "place")
          /\ moved' = {d \in Cpus : pc[d] = "intc"}
          /\ UNCHANGED fault
  /\ UNCHANGED <<buildvars, pending, service, count, taken, moves>>

\* The CPUs of prio, which maps CPUs to priorities, in the stable order of
\* their priorities: d comes before e.
Before(prio, d, e) == prio[d] < prio[e] \/ (prio[d] = prio[e] /\ d < e)

\* The entry of rank n (from 0) of cpu_task_pri_vec.
Ranked(prio, n) ==
  CHOOSE d \in DOMAIN prio : Cardinality({e \in DOMAIN prio : Before(prio, e, d)}) = n

\* Faulty variant: the second CPU gets both interrupts.
StrategyPlaceBoth(c, prio) ==
  /\ At(c, "place") /\ Cardinality(DOMAIN prio) >= 2
  /\ enabled' = [enabled EXCEPT ![Ranked(prio, 0)] = {NetIrq}, ![Ranked(prio, 1)] = Irqs]
  /\ count' = [i \in Irqs |-> 0]
  /\ table' = None /\ Goto(c, "task")
  /\ UNCHANGED <<buildvars, pending, service, taken, moves, moved, fault>>

\* Faulty variant: nothing is placed when no interrupt was counted.
StrategyPlaceBusy(c, prio) ==
  /\ At(c, "place") /\ Cardinality(DOMAIN prio) >= 2
  /\ enabled' = IF \A i \in Irqs : count[i] = 0 THEN enabled
                ELSE [enabled EXCEPT ![Ranked(prio, 0)] = {NetIrq}, ![Ranked(prio, 1)] = {UartIrq}]
  /\ count' = [i \in Irqs |-> 0]
  /\ table' = None /\ Goto(c, "task")
  /\ UNCHANGED <<buildvars, pending, service, taken, moves, moved, fault>>

\* The rest of the event: the interrupt of the larger load goes to the CPU
\* with the least priority, the other one to the next; indexing panics when
\* fewer than two CPUs were found Running.
StrategyPlace(c, prio) ==
  /\ At(c, "place")
  /\ IF Cardinality(DOMAIN prio) < 2
     THEN fault' = "index" /\ UNCHANGED <<enabled, table, count, pc>>
     ELSE LET netFirst == NET_LOAD * count[NetIrq] > UART_LOAD * count[UartIrq]
              first  == IF netFirst THEN NetIrq ELSE UartIrq
              second == IF netFirst THEN UartIrq ELSE NetIrq
          IN /\ enabled' = Enable(Enable(enabled, Ranked(prio, 0), first), Ranked(prio, 1), second)
             /\ count' = [i \in Irqs |-> 0]
             /\ table' = None /\ Goto(c, "task")
             /\ UNCHANGED fault
  /\ UNCHANGED <<buildvars, pending, service, taken, moves, moved>>

-----------------------------------------------------------------------------
PriorityMaps == UNION {[R -> TaskPriorities] : R \in SUBSET Cpus}

\* What CPU c does with interrupts off, but for the handler of a device.
KernelStep(c) == Claim(c) \/ StrategyDisable(c) \/ \E prio \in PriorityMaps : StrategyPlace(c, prio)

Next ==
  \/ \E i \in Irqs : Raise(i)
  \/ \E c \in Cpus : Trap(c) \/ TimerTrap(c) \/ Handle(c) \/ KernelStep(c)

Spec == Init /\ [][Next]_vars

\* CPUs take interrupts and run, and a spin lock that is released again and
\* again is got; a handler of a device owes nothing.
FairSpec == Spec /\ \A c \in Cpus : WF_vars(Trap(c)) /\ SF_vars(KernelStep(c))

-----------------------------------------------------------------------------
(* Properties. *)

\* Type invariant.
TypeOK ==
  /\ board \in {"riscv-virtio", "sifive"} /\ debug \in BOOLEAN
  /\ pending \subseteq Irqs
  /\ service \in [Irqs -> Cpus \cup {None}]
  /\ enabled \in [Cpus -> SUBSET Irqs]
  /\ table \in Cpus \cup {None}
  /\ count \in [Irqs -> 0 .. MaxCount]
  /\ taken \in [Cpus -> 0 .. BYTE - 1]
  /\ pc \in [Cpus -> {"task", "intc", "handle", "strategy", "place"}]
  /\ moves \in 0 .. MaxMoves /\ moved \subseteq Cpus
  /\ fault \in {"none", "claim zero", "index", "context", "overflow"}

\* Whenever IRQ_TABLE is free each interrupt is enabled on exactly one CPU:
\* none is lost by a move and no two CPUs race to claim one.
RoutedOnce ==
  table = None => \A i \in Irqs : \E c \in Cpus : \A d \in Cpus : i \in enabled[d] <=> d = c

\* An interrupt in service stays enabled on the CPU that serves it, which
\* holds IRQ_TABLE: the PLIC does not ignore the completion.
ServedWhileEnabled ==
  \A i \in Irqs : service[i] # None =>
    i \in enabled[service[i]] /\ table = service[i] /\ pc[service[i]] = "handle"

\* A CPU that waits for IRQ_TABLE after a trap finds an interrupt to claim,
\* unless a strategy has moved its interrupts in between.
ClaimsSomething ==
  \A c \in Cpus : pc[c] = "intc" /\ c \notin moved => pending \cap enabled[c] # {}

\* If no handler of a device runs for ever, a network interrupt is eventually
\* claimed, wherever it was moved to, unless the kernel panics.
EventuallyClaimed ==
  (\A c \in Cpus : []<>(pc[c] # "handle"))
    => (NetIrq \in pending ~> (NetIrq \notin pending \/ ~Alive))
=============================================================================
