------------------------------ MODULE Executor ------------------------------
(***************************************************************************)
(* One Executor (kern/modules/multitask/src/executor.rs, lib.rs): the      *)
(* tasks it polls, its queue of ready tasks and the wakers it gives out.   *)
(*                                                                         *)
(* Two kinds of actor: the executor, whose run() polls one task at a time, *)
(* and whoever keeps a clone of a waker (another task, another CPU), who   *)
(* may wake at any moment, also when the executor has finished: the queue  *)
(* is an Arc.  A poll is several steps, in which the task may spawn, yield *)
(* (wake itself) and give its waker away; what its future computes is left *)
(* out.  The preemption of an executor is the subject of Runtime.          *)
(***************************************************************************)
EXTENDS FastPQ, FiniteSets

CONSTANTS Tasks,        \* TaskId
          Root,         \* the task Executor::new spawns
          Priority,     \* the priority of every task
          MaxQueued,    \* bound on the wakes from outside that are in the queue
          NoTask

ASSUME TasksAssumption == Root \in Tasks /\ NoTask \notin Tasks
ASSUME PriorityAssumption == Priority \in [Tasks -> Priorities]

VARIABLES
  queue,      \* task_queue
  registry,   \* the keys of task_registry
  wakers,     \* the keys of task_waker
  status,     \* ExecutorStatus
  current,    \* the task being polled
  current_task_priority,
  yielded,    \* the current poll has woken its own task
  given,      \* the tasks of whose waker a clone is kept outside
  spawned,    \* the tasks created so far
  ready,      \* the tasks that returned Poll::Ready
  due         \* the tasks spawned or woken and not polled since

evars == <<queue, registry, wakers, status, current, current_task_priority,
          yielded, given, spawned, ready, due>>

Queued == UNION {{queue.queues[p][k] : k \in DOMAIN queue.queues[p]} : p \in Priorities}

\* Executor::new: the root task is spawned before anything runs.
EInit ==
  /\ queue = FPQEnqueue(FPQNew, Priority[Root], Root)
  /\ registry = {Root} /\ wakers = {}
  /\ status = "Runnable"
  /\ current = NoTask /\ current_task_priority = 0 /\ yielded = FALSE
  /\ given = {} /\ spawned = {Root} /\ ready = {} /\ due = {Root}

\* Faulty variant: the task is registered and not put in the queue.
SpawnUnqueued(t) ==
  /\ current # NoTask /\ t \notin spawned
  /\ registry' = registry \cup {t}
  /\ spawned' = spawned \cup {t} /\ due' = due \cup {t}
  /\ UNCHANGED <<queue, wakers, status, current, current_task_priority, yielded, given, ready>>

\* Executor::spawn, which do_spawn calls from inside a poll.
Spawn(t) ==
  /\ current # NoTask /\ t \notin spawned
  /\ queue' = FPQEnqueue(queue, Priority[t], t)
  /\ registry' = registry \cup {t}
  /\ spawned' = spawned \cup {t} /\ due' = due \cup {t}
  /\ UNCHANGED <<wakers, status, current, current_task_priority, yielded, given, ready>>

-----------------------------------------------------------------------------
(* run() *)

\* Faulty variant: the registry is not looked at.
PollUnchecked ==
  /\ status = "Runnable" /\ current = NoTask /\ queue.bits # {}
  /\ LET t == FPQFront(queue) IN
     /\ queue' = FPQDequeue(queue)
     /\ wakers' = wakers \cup {t}
     /\ current' = t /\ yielded' = FALSE
     /\ current_task_priority' = Priority[t]
     /\ due' = due \ {t}
     /\ UNCHANGED <<registry, status, given, spawned, ready>>

\* The next task that is still registered is polled, with the waker it was
\* given the first time.
Poll ==
  /\ status = "Runnable" /\ current = NoTask /\ queue.bits # {}
  /\ LET t == FPQFront(queue) IN
     /\ t \in registry
     /\ queue' = FPQDequeue(queue)
     /\ wakers' = wakers \cup {t}
     /\ current' = t /\ yielded' = FALSE
     /\ current_task_priority' = Priority[t]
     /\ due' = due \ {t}
     /\ UNCHANGED <<registry, status, given, spawned, ready>>

\* A wake of a task that is gone is skipped.
Skip ==
  /\ status = "Runnable" /\ current = NoTask /\ queue.bits # {}
  /\ FPQFront(queue) \notin registry
  /\ queue' = FPQDequeue(queue)
  /\ UNCHANGED <<registry, wakers, status, current, current_task_priority,
                 yielded, given, spawned, ready, due>>

PollReady ==
  /\ current # NoTask
  /\ registry' = registry \ {current} /\ wakers' = wakers \ {current}
  /\ ready' = ready \cup {current}
  /\ current' = NoTask
  /\ UNCHANGED <<queue, status, current_task_priority, yielded, given, spawned, due>>

PollPending ==
  /\ current # NoTask
  /\ current' = NoTask
  /\ UNCHANGED <<queue, registry, wakers, status, current_task_priority,
                 yielded, given, spawned, ready, due>>

\* run() ends when the queue is empty, whether or not tasks are left.
Finish ==
  /\ status = "Runnable" /\ current = NoTask /\ queue.bits = {}
  /\ status' = "Finished"
  /\ UNCHANGED <<queue, registry, wakers, current, current_task_priority,
                 yielded, given, spawned, ready, due>>

-----------------------------------------------------------------------------
(* Wakers. *)

\* wake_task: the id is queued once more, whatever became of the task.
WakeTask(t) ==
  /\ queue' = FPQEnqueue(queue, Priority[t], t)
  /\ due' = due \cup {t}

\* do_yield: wake_by_ref from inside the poll, which then returns Pending.
Yield ==
  /\ current # NoTask /\ ~ yielded
  /\ WakeTask(current)
  /\ yielded' = TRUE
  /\ UNCHANGED <<registry, wakers, status, current, current_task_priority, given, spawned, ready>>

\* The task stores a clone of its waker somewhere.
GiveWaker ==
  /\ current # NoTask
  /\ given' = given \cup {current}
  /\ UNCHANGED <<queue, registry, wakers, status, current, current_task_priority,
                 yielded, spawned, ready, due>>

WakeOutside(t) ==
  /\ t \in given
  /\ Len(queue.queues[Priority[t]]) < MaxQueued
  /\ WakeTask(t)
  /\ UNCHANGED <<registry, wakers, status, current, current_task_priority,
                 yielded, given, spawned, ready>>

-----------------------------------------------------------------------------
Run == Poll \/ Skip \/ Finish
PollEnds == PollReady \/ PollPending

ENext ==
  \/ Run \/ PollEnds \/ Yield \/ GiveWaker
  \/ \E t \in Tasks : Spawn(t) \/ WakeOutside(t)

ESpec == EInit /\ [][ENext]_evars

\* The executor runs, and every poll ends.
EFairSpec == ESpec /\ WF_evars(Run) /\ WF_evars(PollEnds)

-----------------------------------------------------------------------------
(* Properties. *)

\* Type invariant.
ETypeOK ==
  /\ queue.bits \subseteq Priorities
  /\ queue.queues \in [Priorities -> Seq(Tasks)]
  /\ registry \subseteq spawned /\ spawned \subseteq Tasks
  /\ wakers \subseteq registry /\ given \subseteq spawned
  /\ ready \subseteq spawned /\ due \subseteq spawned
  /\ status \in {"Runnable", "Finished"}
  /\ current \in Tasks \cup {NoTask} /\ yielded \in BOOLEAN
  /\ current_task_priority \in Priorities

\* No wake is lost: a task that was spawned or woken since its last poll, and
\* that is not done, is in the queue, however many others woke it or finished
\* meanwhile.
NoLostWake == due \cap registry \subseteq Queued

\* A task that returned Ready is never polled again, though its id may still be
\* in the queue; and every other task stays registered.
ReadyOnce ==
  /\ current \notin ready
  /\ registry = spawned \ ready

\* A task no other one can overtake is polled each time it becomes due, or
\* the executor has finished.
TopPriorityPolled ==
  \A t \in Tasks :
    (\A u \in Tasks : Priority[u] <= Priority[t]) =>
      (t \in due /\ t \in registry ~> t \notin due \/ t \notin registry \/ status = "Finished")
=============================================================================
