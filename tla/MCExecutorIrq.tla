--------------------------- MODULE MCExecutorIrq ---------------------------
(* Two components that share nothing, each in behaviours of its own (`part`): *)
(* Executor with two tasks of the top priority and one below them, and Irq    *)
(* with three CPUs and two task priorities.  While Irq runs the executor is   *)
(* one that has finished.                                                     *)
EXTENDS Executor, Irq

CONSTANTS t1, t2, t3

MCTasks == {t1, t2, t3}
MCPriority == [t \in MCTasks |-> CASE t = t1 -> 1 [] t = t2 -> 1 [] t = t3 -> 0]
MCCpus == 0 .. 2

VARIABLE part

pvars == <<evars, vars, part>>

EFinished ==
  /\ queue = FPQNew /\ registry = {} /\ wakers = {} /\ status = "Finished"
  /\ current = NoTask /\ current_task_priority = Priority[Root] /\ yielded = FALSE
  /\ given = {} /\ spawned = {Root} /\ ready = {Root} /\ due = {}

PInit ==
  \/ part = "executor" /\ EInit /\ Init /\ board = "riscv-virtio" /\ ~ debug
  \/ part = "irq" /\ EFinished /\ Init

ExecutorNext == part = "executor" /\ ENext /\ UNCHANGED <<vars, part>>
IrqNext == part = "irq" /\ Next /\ UNCHANGED <<evars, part>>

PNext == ExecutorNext \/ IrqNext

\* The fairness of EFairSpec and of FairSpec.
PSpec ==
  /\ PInit /\ [][PNext]_pvars
  /\ WF_pvars(part = "executor" /\ Run /\ UNCHANGED <<vars, part>>)
  /\ WF_pvars(part = "executor" /\ PollEnds /\ UNCHANGED <<vars, part>>)
  /\ \A c \in Cpus : /\ WF_pvars(part = "irq" /\ Trap(c) /\ UNCHANGED <<evars, part>>)
                     /\ SF_pvars(part = "irq" /\ KernelStep(c) /\ UNCHANGED <<evars, part>>)
=============================================================================
