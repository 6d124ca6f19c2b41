-------------------------------- MODULE Smp --------------------------------
(***************************************************************************)
(* Several CPUs: how they boot and how they halt.                          *)
(*                                                                         *)
(* Boot (kern/src/main.rs): the primary lays out the per-CPU areas, starts *)
(* the other valid harts through the SBI, registers its root inspector and *)
(* raises BOOT_STATE to Ready(1).  A secondary spins while BOOT_STATE is   *)
(* Bootstrap, then does the same for itself.  The primary task spins until *)
(* the count is nproc_valid before it starts the interrupt strategy.       *)
(*                                                                         *)
(* Halt (Runtime::start, halt_if_all_finished_or_ipi): a CPU with nothing  *)
(* left to run looks, under all the status locks at once, whether every    *)
(* runtime in use is at its Endpoint; if not it wakes the least CPU that   *)
(* is, becomes Endpoint itself and sleeps in wfi.  Interrupts are on       *)
(* between the locks' release and the wfi, and the soft-interrupt handler  *)
(* only clears the pending bit: an IPI taken there is spent.               *)
(*                                                                         *)
(* What a CPU runs is the future given to runtime::init.  It may end or    *)
(* not: primary_task and secondary_task as they stand loop for ever, and   *)
(* Runtime::start is written for futures that end.                         *)
(***************************************************************************)
EXTENDS Naturals, FiniteSets

CONSTANTS NProc,    \* hal!().cpu().nproc(): CPUs the device tree lists
          Valid,    \* the ones whose status is okay, nproc_valid() of them
          Primary   \* the hart the firmware starts

ASSUME CpuAssumption ==
    /\ NProc \in Nat \ {0}
    /\ Valid \subseteq 0 .. NProc - 1
    /\ Primary \in Valid

Cpus == 0 .. NProc - 1

(***************************************************************************)
(* pc[c], where CPU c is:                                                  *)
(*   off      not started            areas    primary_init up to the boot  *)
(*   harts    cpus::start            spin     secondary_init's loop        *)
(*   init     vmm and runtime::init  ready    boot_set_ready               *)
(*   start    Runtime::start         wait     primary_task's loop          *)
(*   run      in a task              check    halt_if_all_finished_or_ipi  *)
(*   enabled  interrupts on, before wfi       wfi      asleep              *)
(***************************************************************************)
VARIABLES pc,
          areas,       \* the per-CPU areas exist (percpu::init)
          boot,        \* BOOT_STATE: 0 is Bootstrap, n > 0 is Ready(n)
          registered,  \* CPUs whose runtime holds its root inspector
          status,      \* RuntimeStatus of every per-CPU RUNTIME
          ipi,         \* CPUs with a soft interrupt pending
          spent,       \* an IPI was taken between enabling and wfi (history)
          halted

vars == <<pc, areas, boot, registered, status, ipi, spent, halted>>

Stages == {"off", "areas", "harts", "spin", "init", "ready", "start", "wait",
           "run", "check", "enabled", "wfi"}

\* halt() stops the machine: nothing happens afterwards.
At(c, l) == ~halted /\ pc[c] = l
Goto(c, l) == pc' = [pc EXCEPT ![c] = l]

Init ==
    /\ pc = [c \in Cpus |-> IF c = Primary THEN "areas" ELSE "off"]
    /\ areas = FALSE
    /\ boot = 0
    /\ registered = {}
    /\ status = [c \in Cpus |-> "Unused"]
    /\ ipi = {}
    /\ spent = {}
    /\ halted = FALSE

-----------------------------------------------------------------------------
(* Boot.                                                                   *)

\* primary_init up to probe_all: jrinx_percpu::init copies the template,
\* whose RUNTIME is Unused, to every CPU's area.
PercpuInit(c) ==
    /\ At(c, "areas")
    /\ areas' = TRUE
    /\ Goto(c, "harts")
    /\ UNCHANGED <<boot, registered, status, ipi, spent, halted>>

\* cpus::start: hart_start for one more valid CPU; the loop ends when every
\* other valid CPU has been started.
HartStart(c) ==
    /\ At(c, "harts")
    /\ LET rest == {d \in Valid \ {c} : pc[d] = "off"} IN
       \/ \E d \in rest : pc' = [pc EXCEPT ![d] = "spin"]
       \/ rest = {} /\ Goto(c, "init")
    /\ UNCHANGED <<areas, boot, registered, status, ipi, spent, halted>>

\* Faulty variant: the secondaries do not wait for BOOT_STATE.
SpinNot(c) ==
    /\ At(c, "spin")
    /\ Goto(c, "init")
    /\ UNCHANGED <<areas, boot, registered, status, ipi, spent, halted>>

\* secondary_init: while BOOT_STATE is Bootstrap the loop turns.
Spin(c) ==
    /\ At(c, "spin")
    /\ boot > 0
    /\ Goto(c, "init")
    /\ UNCHANGED <<areas, boot, registered, status, ipi, spent, halted>>

\* runtime::init: the root inspector enters this CPU's RUNTIME, whose status
\* it leaves alone (Runtime::init, which would set Init, is not called).
RuntimeInit(c) ==
    /\ At(c, "init")
    /\ registered' = registered \cup {c}
    /\ Goto(c, "ready")
    /\ UNCHANGED <<areas, boot, status, ipi, spent, halted>>

\* boot_set_ready, under the BOOT_STATE lock.
SetReady(c) ==
    /\ At(c, "ready")
    /\ boot' = boot + 1
    /\ Goto(c, "start")
    /\ UNCHANGED <<areas, registered, status, ipi, spent, halted>>

\* Runtime::start, first turn: run_without_sched_table pops the root
\* inspector, set_current_inspector makes the runtime Running.
Start(c) ==
    /\ At(c, "start")
    /\ status' = [status EXCEPT ![c] = "Running"]
    /\ Goto(c, IF c = Primary THEN "wait" ELSE "run")
    /\ UNCHANGED <<areas, boot, registered, ipi, spent, halted>>

\* primary_task leaves its loop when the count is nproc_valid().
PrimaryWait(c) ==
    /\ At(c, "wait")
    /\ boot = Cardinality(Valid)
    /\ Goto(c, "run")
    /\ UNCHANGED <<areas, boot, registered, status, ipi, spent, halted>>

-----------------------------------------------------------------------------
(* Halt.                                                                   *)

\* The last inspector of CPU c is unregistered: set_current_inspector(None).
Finish(c) ==
    /\ At(c, "run")
    /\ registered' = registered \ {c}
    /\ status' = [status EXCEPT ![c] = "Idle"]
    /\ Goto(c, "check")
    /\ UNCHANGED <<areas, boot, ipi, spent, halted>>

InUse == {c \in Cpus : status[c] # "Unused"}
Endpoints == {c \in Cpus : status[c] = "Endpoint"}

\* Faulty variant: the caller takes itself for the one that is missing.
AllFinishedOthers ==
    NProc = 1 \/ Cardinality(Endpoints) + 1 >= Cardinality(InUse)

\* Faulty variant: the runtimes that were never used count as well.
AllFinishedEver ==
    NProc = 1 \/ Cpus \subseteq Endpoints

\* guards.iter().count() == 1, or every runtime in use is at its Endpoint.
AllFinished == NProc = 1 \/ InUse \subseteq Endpoints

\* halt_if_all_finished_or_ipi, first branch.
Halt(c) ==
    /\ At(c, "check")
    /\ AllFinished
    /\ halted' = TRUE
    /\ UNCHANGED <<pc, areas, boot, registered, status, ipi, spent>>

\* Faulty variant: no CPU is told.
EndpointSilent(c) ==
    /\ At(c, "check")
    /\ ~AllFinished
    /\ status' = [status EXCEPT ![c] = "Endpoint"]
    /\ Goto(c, "enabled")
    /\ UNCHANGED <<areas, boot, registered, ipi, spent, halted>>

\* halt_if_all_finished_or_ipi, second branch, and with_saved_on's enable.
Endpoint(c) ==
    /\ At(c, "check")
    /\ ~AllFinished
    /\ ipi' = ipi \cup {d \in Endpoints \ {c} : \A e \in Endpoints : d <= e}
    /\ status' = [status EXCEPT ![c] = "Endpoint"]
    /\ Goto(c, "enabled")
    /\ UNCHANGED <<areas, boot, registered, spent, halted>>

\* soft_int: the handler clears the pending bit.  Interrupts are on in the
\* tasks, and in start() between with_saved_on's enable and the wfi.
SoftInt(c) ==
    /\ c \in ipi
    /\ ~halted /\ pc[c] \in {"wait", "run", "enabled"}
    /\ ipi' = ipi \ {c}
    /\ spent' = IF pc[c] = "enabled" THEN spent \cup {c} ELSE spent
    /\ UNCHANGED <<pc, areas, boot, registered, status, halted>>

\* The wfi instruction is reached with no soft interrupt pending.
Sleep(c) ==
    /\ At(c, "enabled")
    /\ c \notin ipi
    /\ Goto(c, "wfi")
    /\ UNCHANGED <<areas, boot, registered, status, ipi, spent, halted>>

\* wfi returns for the IPI; its handler has run when start() turns and finds
\* nothing queued.
Woken(c) ==
    /\ At(c, "wfi")
    /\ c \in ipi
    /\ ipi' = ipi \ {c}
    /\ spent' = spent \ {c}
    /\ Goto(c, "check")
    /\ UNCHANGED <<areas, boot, registered, status, halted>>

\* wfi returns for a timer or device interrupt.
OtherInterrupt(c) ==
    /\ At(c, "wfi")
    /\ c \notin ipi
    /\ spent' = spent \ {c}
    /\ Goto(c, "check")
    /\ UNCHANGED <<areas, boot, registered, status, ipi, halted>>

-----------------------------------------------------------------------------
Step(c) ==
    \/ PercpuInit(c) \/ HartStart(c) \/ Spin(c) \/ RuntimeInit(c)
    \/ SetReady(c) \/ Start(c) \/ PrimaryWait(c)
    \/ Halt(c) \/ Endpoint(c) \/ SoftInt(c) \/ Sleep(c) \/ Woken(c)

Next == \E c \in Cpus : Step(c) \/ Finish(c) \/ OtherInterrupt(c)

Spec == Init /\ [][Next]_vars

\* Every CPU runs the kernel's instructions; no future need ever end, and
\* timer and device interrupts are owed nothing.
FairSpec == Spec /\ \A c \in Cpus : WF_vars(Step(c))

-----------------------------------------------------------------------------
(* Properties.                                                             *)

\* The variables keep their types: BOOT_STATE counts at most the valid CPUs.
TypeOK ==
    /\ pc \in [Cpus -> Stages]
    /\ areas \in BOOLEAN
    /\ boot \in 0 .. Cardinality(Valid)
    /\ registered \in SUBSET Cpus
    /\ status \in [Cpus -> {"Unused", "Running", "Idle", "Endpoint"}]
    /\ ipi \in SUBSET Cpus
    /\ spent \in SUBSET Cpus
    /\ halted \in BOOLEAN

\* No CPU touches its per-CPU runtime before the primary has laid the areas
\* out and has finished its own initialisation (secondary_init's spin loop).
InitBeforeUse ==
    \A c \in Cpus : pc[c] \notin {"off", "areas", "harts", "spin"} =>
        /\ areas
        /\ c # Primary => boot > 0 /\ pc[Primary] \notin {"areas", "harts", "init"}

\* The machine halts only when no CPU whose runtime has ever run still has
\* work (halt_if_all_finished_or_ipi): a wrong halt drops running tasks.
HaltsWhenFinished ==
    halted => \A c \in InUse : c \notin registered

\* When every valid CPU sleeps at its Endpoint, somebody has been told, or
\* an IPI was spent between the enable and the wfi of its target: there is no
\* other way for all the CPUs to sleep with nobody left to halt.
SomebodyTold ==
    (\A c \in Valid : pc[c] \in {"enabled", "wfi"}) /\ Cardinality(Valid) > 1
        => ipi # {} \/ spent # {}

\* Once the future of every valid CPU has ended the machine halts, unless an
\* IPI is spent.
EventuallyHalts ==
    (\A c \in Valid : pc[c] \in {"check", "enabled", "wfi"}) ~> halted \/ spent # {}
=============================================================================
