# A TLA+ development of the Jrinx kernel

Jrinx is a multicore RISC-V kernel written in Rust. This directory models the
parts of it whose correctness depends on interleavings, interrupts, limits and
long sequences of calls, checks them with TLC on small instances and proves
many of the results for all instances with TLAPS.

`PROJECT.json` maps every definition to the lines it models, lists the runs,
a mutation of the code's model for every property, the hazards of the code and
the findings.

## The system

| Part | State | Operations | Concurrency and hard behaviour |
|---|---|---|---|
| Fast priority queue (`util/src/fastpq.rs`) | a bit word, one FIFO per priority | `enqueue`, `dequeue` | bit and FIFO are updated apart |
| Executor (`multitask/src/executor.rs`) | queue of ids, tasks, wakers | `spawn`, `run`, wake | wakes from other tasks and CPUs, at any time |
| Runtime, inspectors (`runtime.rs`, `inspector.rs`) | two levels of queues, statuses, contexts | the two loops, `Inspector::run`, `register`, `enact`, `revoke`, `mark_pending`, `switch_yield` | the slot-end interrupt, anywhere interrupts are on |
| Schedule table (`runtime.rs`) | slots of a frame | `new`, `next` | checks with wrap-around |
| Trap entry, context switch (`trap/src/arch/riscv`, `multitask/src/arch/riscv`) | registers, stacks, `sscratch`, CSR bits, the Context of a program | `trap_entry`, `trap_exit`, `run_user`, `switch_context` | an interrupt between any two instructions that matter; a switch inside a handler |
| Stack allocator (`stack-alloc/src/lib.rs`) | next address, caches, allocated map | `allocate`, `deallocate` | several callers, locks released between steps, failing maps |
| Page table, frames (`paging/src/common.rs`, `phys-frame/src/lib.rs`) | a tree of frames, the map that keeps them | `map`, `unmap`, `lookup` | frames run out at any level |
| Timed events (`timed-event/src/lib.rs`, `trap/src/timer_int.rs`) | heap and registry, timer register | `create`, `cancel`, `timeout`, the handler | the handler against the code it interrupts |
| Boot and halt (`main.rs`, `arch/riscv/cpus.rs`, `runtime.rs`) | `BOOT_STATE`, statuses, IPIs | start, spin, ready, halt | CPUs in any order; IPIs that come early |
| Interrupt routing (`driver/src/irq`) | PLIC enables, `IRQ_TABLE` lock | claim, handle, the strategy event | rerouting while handling |
| TCP layer (`driver/src/smoltcp_impl`) | socket states, handles, listen table, locks | `connect`, `bind`, `listen`, `accept`, `send`, `recv`, `shutdown`, drop, poll | threads sharing a socket; packets; spin locks that interrupts do not respect |
| Network buffers (`driver/src/net`) | pool, lent buffers, tokens | receive, recycle, transmit | the card completes in any order |
| ELF loader (`loader/src/lib.rs`), address ranges (`util/src/interval.rs`) | pages and their bytes; steps of a counter | `load`, `new`, `-`, `into_iter` | boundaries inside pages, ranges that touch or overlap |

How they meet: an inspector's queue and an executor's queue are fast priority
queues; an executor's stack comes from the stack allocator, which
maps its pages in the kernel page table; the end of a slot
is a timed event, and its callback switches contexts inside a trap; the
runtimes of all CPUs agree on the halt; the interrupt
strategy is a timed event too and reads the runtimes' priorities; the network
card's interrupt polls the TCP layer, which uses the buffers; a loaded program
runs through `run_user`.

## Modules

* `PriorityQueue` is the abstract specification: a set of waiting entries, of
  which `dequeue` removes the oldest of the highest priority. `FastPQ` has the
  operators of the implementation, used by `FastPQMachine` (the queue on its
  own), `Executor` and `Runtime`.
* `Executor` models one executor. The body of a future is the choice of what
  it does during a poll: spawn, yield, give its waker away, finish.
* `Runtime` models the scheduler of one CPU, with an explicit account of whose
  stack the CPU is on: a switch leaves a context behind, and the timer
  interrupt pushes a frame wherever interrupts are on. It extends `FastPQ` and
  `SchedTable` (the checks of `RuntimeSchedTable::new`).
* `SchedTableNew` builds every list of slots, slot by slot, to compare the
  checks with a definition of what a table should be.
* `Trap` is the layer below `Runtime`: where registers are while traps and
  switches save and restore them. Registers are in groups that the code saves
  together, a stack is a list of blocks, and a step is a run of instructions
  no interrupt can tell apart. `expect`, `out`, `called` and `user` remember, for
  the properties only, what was interrupted, switched away from, calling
  `run_user` and trapping from a program. A behaviour is followed up to the step
  that loses a context (`fault`). `switch_context` has four steps, with an
  interrupt possible between them: `ra` and `sp` are stored, then the saved
  registers and `satp`; the new ones are loaded, and last `ra`, to which it returns.
* `StackAlloc`: a step is what one lock protects; a caller's record says which
  slot it holds between two locks and which page it has come to.
  Whether a page can be mapped is left open.
* `Paging` has the operators of the page table on a value: the entries of the
  frames that hold tables, and the map that keeps frames alive. A frame that no
  key holds has been dropped and may be allocated again.
* `KernelStacks` composes the two: the closures the executor gives the
  allocator map and unmap pages of the kernel page table, and succeed or fail
  as the frames that are left decide, which the rest of the kernel takes and
  gives back. It implements `StackAlloc`.
* `TimedEvent`: thread and handler of one CPU, with the lock of the queue and that
  of the counter `timer_int::count` reads; the clock conversions round as the
  code does, and the timer register and the product in `get_time` wrap at `WORD`,
  as in a release build.
* `Smp`: `pc[c]` is the place of CPU `c` from power-on to `wfi`.
* `Irq`: the PLIC is external (its claim and completion rules come from its
  specification as the driver uses it); handlers and strategy hold `IRQ_TABLE`.
  `board` has both boards `init_strategy` tells apart, `debug` the builds with and
  without overflow checks, which decide what the count of interrupts does at its
  limit. The handler of a device takes any time, or never ends.
* `Tcp`: smoltcp's socket set is external. The closures of `update_state` begin
  with the compare-exchange, have one step for every access to what other threads
  see and end with the store; `accept` scans its queue socket by socket.
  `send` and `recv` are there with the handles they use; what they transfer is
  not. `seen`, `stale` and `leaked` are there for the properties only: the
  connections a scan should find, the sockets a late `poll_connect` has stored a
  state into, the handles a failed `connect` left behind.
* `NetLocks`: the critical sections of the calls of `Tcp`, of a poll, of the
  network handler and of the strategy, as the sequences of locks they take and
  release; an actor that finds its lock taken spins. The executors of a CPU take
  turns: the end of a slot may switch one away with a lock in its hands.
* `NetBuf`: the virtio queue is external; a poll is split between the check
  that yields a token and the use of the token.
* `Intervals` and `Loader` translate two algorithms and state what they should
  compute as sets: the positions covered, and the bytes and permissions of the
  image. Programs are loaded one over another, as the tests do.
* `MCParts` explores six parts that share nothing, one at a time; `MCExecutorIrq`
  two.
* `TaskProofs` (`FastPQMachine`, `Executor`, `Irq`, `NetLocks`), `RuntimeProofs`,
  `TrapProofs`, `StackProofs` (`StackAlloc`, `KernelStacks`), `HardwareProofs` (`Smp`,
  `TimedEvent`, `NetBuf`) and `TcpProofs` hold the theorems, `SwitchProofs` the
  invariant of `Trap` and the first half of its proof, `PagingProofs` the lemmas on
  page tables. The module of a proof begins with the facts on naturals and
  sequences it needs.

Each model with a panic or an `unwrap` that can fail has a variable `fault` (in
`StackAlloc`, `failed`, in `NetBuf`, `error`) that names it; behaviours end there.
Operators under the comment "Faulty variant" are mutations, used by no
specification: with one in place of the original the named property fails.

## Runs

| Run | Shows | Bounds |
|---|---|---|
| `executor_irq` | the two parts below | |
| - executor | no wake is lost, a finished task is not polled again, a task of the highest priority is polled whenever it is due | 3 tasks, 2 of the top priority; 2 queued wakes from outside |
| - irq | an interrupt is enabled on one CPU, is completed where it counts, and is claimed if no handler of a device runs for ever | 3 CPUs, 3 moves, a byte of 2 |
| `runtime` | no inspector or executor is lost or queued twice, whoever runs is the one the runtime names, a slot's end is always pending, every inspector has its turn, the CPU halts | 2 inspectors, 3 executors, a table of 2 slots, one frame, 4 nested frames |
| `runtime_slot_end` | violated: the `unwrap` at `runtime.rs:385` | the same |
| `trap` | `trap_exit` resumes exactly what was interrupted, `switch_context` what was switched away from, `run_user` returns with the caller's registers and leaves the program's in its Context, with interrupts off | 1 executor with a program and the runtime, stacks of 3 blocks |
| `trap_run_user` | violated: a Context after `run_user` holds the trap of the program | the same |
| `kernelstacks` | slots are apart whatever the interleaving; only unmapped pages are mapped, live stacks are mapped, the region is exceeded by a guard at most; the entries of the page table agree with the frames it keeps and no frame is used twice; `StackAlloc` is implemented | 2 callers, stacks of 1 and 2 pages, a region that ends inside a slot; 3 levels of tables of 3 entries, 7 frames, so that a map fails at every level |
| `timedevent` | one outcome per event, none early or out of order, the timer is armed, events are retired | 2 events, delays of 0 to 3, 5 ticks, clock and timer at a ratio of 3:2 so that both conversions round, a word of 13 so that `get_time` wraps |
| `timedevent_warning` | violated: the warning at `timer_int.rs:24` | the same |
| `smp` | initialisation before use, no halt over running work, somebody is told of the halt, and it comes | 4 CPUs, 3 valid, hart 1 boots |
| `tcp` | handles have one owner, listeners one entry, a socket is BUSY until the new state is stored unless `poll_connect` stores late, accept brings every connection it should find nearer | 2 threads, 2 sockets, 3 handles, 1 port, a SYN queue of 3; a late store to one socket at most (`OneStale`) |
| `tcp_late_poll` | violated: the SAFETY comments of `tcp.rs` | the same |
| `parts` | the six parts below | |
| - queue | bits and FIFOs agree (`BitsExact`), the abstract queue is implemented (`Refinement`) | 3 priorities, 5 arrivals: each priority can be filled, emptied and filled again |
| - table | the checks accept exactly the tables whose slots are apart and periodic (`AcceptsExactly`) | up to 3 slots, 2 inspectors, frame 4 |
| - intervals | the iterator yields exactly the difference of the ranges, in order, joined (`IntervalsExact`) | 3 ranges, empty ones included, that may touch, nest and overlap |
| - loader | the image is what the segments say, but for the three cases below (`ImageExact`) | 2 segments of up to 5 bytes, of one program or of two, pages of 3 bytes, so that a segment starts and ends everywhere in a page and spans up to 3 |
| - netbuf | no buffer is lost or lent twice and the receive queue stays full but for the packet in hand (`BufsConserved`), a token can be used (`TokensHonoured`) | queues of 3, the lengths of the code (1514 + 12 = 1526) |
| - locks | tasks and handlers block one another in the known ways only (`DeadlocksKnown`) | 2 CPUs, 3 executors, two of them (interchangeable) on the CPU of the strategy; an interrupt on top of each CPU |

Two CPUs or threads are enough for a race on one object, a third gives a
bystander (`smp`, `executor_irq`). The allocator has to run out and reuse a slot, the
clock to round and wrap, the SYN queue to overflow: the bounds let them. What
more executors, sockets, ports or CPUs could add is left to the proofs, which
cover any number of them. `OneStale` is the one bound that cuts behaviours short: a
late store voids what `BusyUntilStored` says of that socket and what
`ListenerHasEntry` says of all, so that a second one has only `HandlesOwned` and
`AcceptComesNearer` left to break, and those are proved without the bound.

`CHECK_DEADLOCK FALSE` stands where the system may stop: the machine halts
(`smp`, `runtime`), a panic or a lost context ends it (`runtime`, `executor_irq`, `tcp`, `trap`),
an executor finishes (`executor_irq`), all events are used (`timedevent`). `parts`
checks for deadlock, and names in `Over` where a part is through.

### Fairness

* `Executor`: the polling loop goes on and a poll returns. Wakers are owed
  nothing.
* `Runtime`: the CPU executes; an interrupt that is due and enabled is taken;
  an executor that runs again and again finishes (strong, per executor: it may
  be preempted in between). This last one is a promise of the tasks, not of the
  kernel: `primary_task` itself ends in `loop {}`, so the liveness results are
  about what the scheduler does for tasks that end.
* `TimedEvent`: time passes, calls and the handler go on, a pending interrupt
  is taken when interrupts are enabled again and again (strong: the hardware
  takes it at once).
* `Smp`: every CPU executes the kernel's instructions. No future need ever end
  (`EventuallyHalts` speaks of the time when all have), and timer and device
  interrupts are owed nothing.
* `Irq`: CPUs take interrupts; a spin lock released again and again is got. The
  handler of a device is owed nothing; that none runs for ever is a premise of
  `EventuallyClaimed`, and `NetLocks` says when the network handler does.

Liveness properties name the ways in which the code fails to get there as
their exceptions, so that they say these are the only ones: the self-deadlock on
the queue's lock or the counter's, the timer switched off over an event, and the
time a wrapped `get_time` never reaches (`EventuallyRetired`); the IPI taken
before the `wfi` (`EventuallyHalts`); the inspector left empty while Pending
(`Halts`); a panic (`EventuallyClaimed`).

### Findings

* `timedevent_warning`: `set_timer` rounds the time of an event down to a tick, so
  that the timer can fire before the event is due. The handler finds nothing
  outdated and the timer still pending, reports that no event is scheduled and
  switches the timer off; the event waits for the next `create` or `cancel`. The
  same happens when an event comes due between the handler's last look at the
  queue and its test of the pending bit.
* `runtime_slot_end`: `Inspector::run` has interrupts on while the inspector is
  Idle. When the slot ends there, `mark_pending().unwrap()` panics.
* `trap_run_user`: `run_user` points `sp` and then `sscratch` at the program's
  Context while interrupts may be on, and only the `sstatus` that `trap_exit`
  writes turns them off. An interrupt in between is saved over the Context, whose
  `scause`, from which `trap_reason` is computed, is then that of the interrupt of
  the kernel and not of a trap of the program.
* `tcp_late_poll`: `poll_connect` stores a state without a compare-exchange, however
  long ago its caller saw CONNECTING. When two threads are in it and the connection
  is refused, the first stores CLOSED and its thread may connect again; the second
  then stores CLOSED over BUSY, and another thread enters the closure of `connect`
  beside the first. `BusyUntilStored` says that this is the only way.

### What else the models record

No text in the repository contradicts these, so they are exceptions the
properties name and not violations:

* Trap: `with_saved_on` around `switch_yield` in the slot-end callback switches
  interrupts off again before it returns, so that nothing interrupts
  `trap_exit`; without it `TrapTransparent` fails. A slot that ends inside the
  `switch_context` of an executor, with interrupts on and once something is stored,
  stores over it (fault "switch"); the behaviour is not followed further. `run`
  returns with interrupts off and the program's `sie`, which `RunTransparent` states.
* Loader: the last page of a segment's zero part is not mapped when the zero
  part starts later in its page than it ends in that last one. The callback
  copies the first bytes of the segment to each of its pages. On a page that an
  earlier program has left, the bytes that should be zero stay as they were.
* Network locks: the handler spins on a lock of the task it interrupted, or for
  ever on a CPU one of whose executors was switched away with a lock; `connect` takes the socket set before the interface, a poll the interface
  before the set; `accept` and `unlisten` take an entry before the set, a poll
  the set before the entry.

## Proofs

Each theorem rests on an inductive invariant, and each invariant on one lemma
per action where the actions are many. The runs check the properties, not these
invariants; some of them TLC could not evaluate, as they quantify over all traces
of a sequence (`NetLocks`) or all walks through a page table (`KernelStacks`). The one
of `Trap` was confirmed with TLC, with 3 nested traps, before it was proved.

`TaskProofs`, on the queue and on `Executor`, for every positive number of priorities:

* `QueueInvariance`: `QTypeOK`, `BitsExact` and `FifoOrdered` hold always. The
  conjunction is inductive together: the head of a FIFO exists because its bit
  is set, and an appended entry is the youngest because arrivals are numbered.
* `QueueImplements`: `FastPQMachine` implements `PriorityQueue`. An enqueue maps to
  an enqueue at once; for a dequeue, the highest set bit is the highest
  priority waiting by `BitsExact`, and the head of its FIFO is the oldest by
  `FifoOrdered`.
* `WakesKept` (`NoLostWake`) and `DoneOnce` (`ReadyOnce`), for any tasks. What is
  needed is that the bits of the queue agree with its FIFOs (`Exact`), as
  otherwise `dequeue` could leave a task behind; `EnqueueFacts` and
  `DequeueFacts` say what the two operations do to the set of queued tasks.

`RuntimeProofs`, for any inspectors, executors, priorities and tables, any
nesting of interrupts:

* `ExecutorNamed` (`RunningNamed`) and `ExecutorsKept` (`ExecutorPlaced`), from
  `RInv`. The queue of an inspector holds exactly what is registered with it and
  not in the hands of `Inspector::run` (`Held`), and as far as the loop has come
  its locals, the status of the inspector and that of the runtime name the same
  executor (`Named`). An executor belongs to one inspector only (`Apart`), so
  what happens to one queue says nothing about another.
* `InspectorsKept` (`InspectorPlaced`), from `QInv`: the round robin queue lists a
  subset of the registry, each once, and the inspector in hand is not in it.
  It needs the mode of the loop to follow the place (`ModeOK`): a table enacted
  by a task must not take effect before the loop asks for the mode.
* `SlotEndAhead` (`SlotEndPending`), from `SInv`. The end of the slot is pending
  *or* has been taken and the runtime is on its way out of the slot (`Leaving`):
  the callback has marked the inspector Pending and its yield is ahead, on the
  stack that will return to `Inspector::run`. The property speaks of a task at the
  bottom of a stack and not of the handler above it; the invariant has to follow
  the handler's frames through every switch, which is why it knows that a
  task is at the bottom of its stack and nowhere else (`Bottomed`).

`SwitchProofs` and `TrapProofs`, for any number of executors, any of which run
programs, and stacks of any depth:

* `TrapsTransparent` (`TrapTransparent`), `SwitchesTransparent` (`SwitchTransparent`)
  and `RunsTransparent` (`RunTransparent`), action properties from one invariant,
  `TrapInvariant`, which holds as long as no context has been lost (`fault`). For
  every thread it says that the frame of each trap under way holds what that
  trap interrupted (`Stacked`), and that what `out` remembers are the calls of
  `switch_context` that are still open, the deepest first (`Listed`): those among
  the interrupted places, and the one the thread has switched away with, which
  is what its SwitchContext holds (`Suspended`). Inside `switch_context` the invariant
  says for each stage what is stored and what is loaded. The thread that runs is in one
  of nine phases, told by its place (`Phases`); in `trap_exit` each phase
  carries what the steps before it have restored (`Handling`).
  Two facts are not visible in the properties. A handler that
  yields must not be above a `switch_context` that has stored its registers
  (`Open`): its own switch would replace them. And the Context of a program
  holds what the program had whenever its executor is in the kernel
  (`Recorded`), but for the steps of `trap_entry` that put it there.

`HardwareProofs`, on `TimedEvent`, for any set of events, any delays and any rates of the
clock not above one tick per nanosecond, up to the tick before the timer's
largest value:

* `RaceHasOneWinner` (`OneOutcome`): who is about to invoke an event has taken it
  out of the queue, and the handler is past its first look only while nobody
  holds the lock, so the loser of the race finds the event gone.
* `OnTimeInOrder` (`DueInOrder`) and `TimerFollowsQueue` (`TimerArmed`). What is
  early is judged by the time that has really elapsed: `get_time` is never above it,
  wrapped or not (`ModBelow`, `DivMonotonic`), so an event found outdated is due,
  and stays so (`TimePasses`). Events with the same time may be first in turn, so
  the invariant speaks of every event of the least time (`Armed`).

`StackProofs`, for any number of callers, any sizes asked for, any guard and
region:

* `StacksNeverOverlap` (`SlotsApart`): pairwise apartness of the slots in
  `allocated`, in the caches and in the hands of callers, strengthened by the slots
  that are being mapped (they are in `allocated` already and have no owner
  yet) and by the bounds of what was handed out. A top can not be inserted
  twice because two slots with the same top overlap.
* `StacksStayMapped` (`StacksMapped`): for a caller in the loops of `allocate` and
  `deallocate` the pages of its slot are mapped exactly up to, or from, the one
  it has come to; cached slots have no page mapped, owned ones all. That slots
  are apart makes the pages of one slot independent of the others.

`StackProofs`, on `KernelStacks`, for any number of levels and of entries in a
table, any frames, and the rest of the kernel taking and returning frames at any
moment:

* `PageTreeStaysExact` (`PageTreeExact`), from `KIInv`: the invariant of `StackAlloc`,
  and a `Tree` under the root of the page table. A tree has a level for every table
  such that entries above the last level lead one level down (`Shape`), no two
  entries to the same table, and its last level holds exactly the pages that are
  mapped. From this follows that different pages end in different entries
  (`OnePage`): their indexes differ at some level (`IndexesDiffer`, which is the
  uniqueness of digits), and two walks that part never meet again.
  `PagingProofs` shows that writing the last entry (`EntryTree`), removing one
  (`UnmapTree`) and growing a table (`GrownTree`) keep a tree a tree;
  `find_or_create`, as a path of such steps, therefore keeps it at whatever level
  the frames run out (`FindOrCreateGood`, `MapTree`).
* `PageTableImplements` (`StackAllocSpec`): the invariant of `StackAlloc` says that a page
  about to be mapped is not mapped and one about to be unmapped is (`CallPage`);
  in a tree the page is then found, so `unmap` succeeds and the closures do to
  the page table what the actions of `StackAlloc` do to the set `mapped`.

`HardwareProofs`, on `Smp` for any number of CPUs, any primary and any set of valid
CPUs that contains it:

* `BootOrder` (`InitBeforeUse`) and `NoEarlyHalt` (`HaltsWhenFinished`), from one
  inductive invariant. `InitBeforeUse` alone is not inductive: what a stage says
  about the shared state is needed (`Staged`: nobody leaves "off" before the
  areas exist, and `BOOT_STATE` is raised by the primary first). For the halt
  the link between a runtime's status and its work is needed (`Worked`: a runtime
  at its Endpoint has no inspector registered, and stays so).
* `LastIsTold` (`SomebodyTold`), from `TInv`, which adds that who sleeps or is
  about to is at its Endpoint (`Told`): the CPU that finds itself the last one
  therefore has somebody to send an IPI to.
* `PrimaryWaitsForAll` (`AllReady`), from `BInv`: `BOOT_STATE` is the number of CPUs
  that have passed `boot_set_ready`, by cardinality, so the primary leaves its
  wait when that set is all of the valid CPUs.

`TaskProofs`, on `Irq`, for any finite set of CPUs and any priorities:

* `Routing` (`RoutedOnce`), `Completion` (`ServedWhileEnabled`) and `ClaimFinds`
  (`ClaimsSomething`), again from one invariant. Its core is `Locked`: `IRQ_TABLE`
  is held exactly between claim and completion and between the two halves of
  the strategy, and interrupts are enabled nowhere exactly while the strategy
  has it. That the strategy puts the two interrupts on different CPUs needs the
  lemma `RanksDiffer`: the ranks 0 and 1 of the sorted priorities exist and
  differ, by two uses of the least element of a set of naturals.

`TcpProofs`, for any threads, sockets, handles, ports and SYN queue:

* `OneInClosure` (`BusyUntilStored`), from `UInv`: the compare-exchange of
  `update_state` lets one thread in, and only that thread or a late
  `poll_connect`, which the ghost `stale` names, stores over BUSY.
* `OneOwner` (`HandlesOwned`), from `HInv`: what is live in the socket set and not
  left behind has one owner (`Owned`), no SYN queue lists a handle twice
  (`Orderly`), and a state that promises a connection comes with a handle
  (`Used`). Closures are not exclusive once a state is stale, so `Used` can not
  be derived from `UInv` and is carried on its own through every interleaving.
* `ListenersOwnEntries` (`ListenerHasEntry`), from `EInv`: an entry belongs to a socket
  that is LISTENING, or between the step of `listen` that makes it and the store,
  or before the step of `shutdown` or of the drop that removes it (`HasEntry`,
  `Entries`); the step of `listen` goes to a port that is the socket's (`Tabled`).
* `AcceptNearer` (`AcceptComesNearer`), an action property from `SInv`, which adds to
  `HInv` that the connections a scan should find are ahead of it (`Ahead`), while
  packets arrive and other threads work (`AheadKept`). `swap_remove_front` of the
  place found then moves down only those before it, none of which is among
  them (`Nearer`).

`TaskProofs`, on `NetLocks` for any CPUs and executors, and `HardwareProofs`, on `NetBuf` for any
queue size:

* `KnownDeadlocks` (`DeadlocksKnown`), from `KInv`: the program of every actor
  takes locks in a fixed relation to those it holds (`Order`, shown section by
  section with `Block`), and the locks an actor holds are those its program has
  yet to release. In a deadlocked group everybody waits for a lock, or for the
  handler of its CPU (`WaitsWhy`); as long as
  no handler of the group is on the CPU of a holder, who holds a lock waits for
  one (`HoldersWait`), and the order leaves no cycle but the two named (`WaitOrder`).
* `BuffersKept` (`BufsConserved`) and `TokensGood` (`TokensHonoured`), from `NInv`:
  the buffers are shared out among the two queues, the list of free ones and
  the poll (`Placed`), the descriptors of the receive queue are all lent but for
  the packet in hand (`RxFull`), and what `can_transmit` has seen stays true until
  the token is used (`Ready`).

The assumptions are those the modules name: `NUM`, the page size and the queue
size are positive naturals, the sizes asked for are not zero, the primary is one
of the CPUs, the set of CPUs is finite, there is a frame, the region of the stacks
and one guard above it can be translated and is apart from the linear mapping of
the frames (so it is for the constants of both targets), `NetIrq` is below `UartIrq`, the root task is
a task, ports are positive, header and MTU fit a buffer, and what stands for the
absence of a thing (`None`, `NoBuf`, `RT`) is not one of them.
What the proofs need of least and greatest elements of sets of naturals, of
appending to, taking the tail of and joining sequences, and of sequences that
list a set without repetition (`Lists`) is proved where it is used. That a function
given step by step exists (`Iterates`, in `PagingProofs`) stands in for induction
over the levels of a page table.

Only model-checked: `Intervals`, `Loader` and what the checks of the schedule
table accept. Liveness is outside the prover's reach and stays with TLC, and so
do facts that need induction over data (what a fold over segments or ranges
computes).

## Not modelled

* `Runtime` is not composed with `TimedEvent` and `Trap`: it has an
  abstract clock and takes a switch as one step, they have the detail. Each of
  the three needs most of the states TLC can visit in a run.
* Frames shared by several owners (`lookup` hands out clones of an Arc; only
  tests use it), permissions in the page table, the TLB (a switch to an
  executor flushes it) and the boot page table, a straight-line construction
  before there is any concurrency. The entries of that table, which `clone_kernel`
  copies into the root, are not in `Paging`: each maps a huge page of
  `REMAP_MEM_REGIONS`, and none has a root index of the stacks' region.
* Two pending ends of slots at the same time: `ends` in `Runtime` is a set of times.
  Ranges of addresses whose start and length overflow a word, in `Intervals`.
* The bytes `send` and `recv` transfer, and the packets and timers inside
  smoltcp; the interrupt strategies that are never called.
* An ELF file without segments, and a callback that fails for want of frames:
  `load` returns the error.
* CSR and SBI accesses of the HAL, per-CPU address arithmetic, device probing,
  UART, logging, heap, user programs, xtask: register I/O, wrappers of libraries,
  address constants or formatting. Their effect, where it matters, is part of
  the modules that use it.
