------------------------------- MODULE Runtime ------------------------------
(***************************************************************************)
(* The scheduler of one CPU (kern/modules/multitask/src/runtime.rs,        *)
(* inspector.rs): the runtime runs inspectors, round robin or by a         *)
(* schedule table, an inspector runs its executors by priority, and the    *)
(* slot-end timed event preempts the executor that runs.                   *)
(*                                                                         *)
(* Control is modelled with the contexts arch::switch saves.  `cpu` says   *)
(* on whose stack the CPU runs, pc is the program point of the runtime's   *)
(* loops, and the stack of an executor is the sequence of what it is in    *)
(* the middle of, innermost first: "task", "fin" (run() has returned),     *)
(* "loop" (the loop of the timer handler, interrupts off) and "yield" (the *)
(* switch_yield of the slot-end callback, interrupts on).  The runtime's   *)
(* own code has interrupts off, except inside Inspector::run.              *)
(*                                                                         *)
(* What a task may do: run on, yield, mark its inspector pending, register *)
(* inspectors and executors, enact and revoke a table, finish.  Polling is *)
(* the subject of Executor, the timer of TimedEvent: here an event is due  *)
(* when its time has come.  A panic, and a switch that would overwrite a   *)
(* context with another's, end the behaviour: `fault` names it.            *)
(***************************************************************************)
EXTENDS FastPQ, SchedTable, FiniteSets

CONSTANTS Inspectors, Executors,   \* InspectorId, ExecutorId
          RootInspector, RootExecutor,   \* what runtime::init registers
          Priority,     \* the priority of every executor
          Tables,       \* the tables a task may enact: [frame, slots]
          MaxTime,      \* bound on the clock
          MaxNest,      \* bound on the frames a stack may hold
          RT, None

ASSUME RootsAssumption == RootInspector \in Inspectors /\ RootExecutor \in Executors
ASSUME NamesAssumption == RT \notin Executors /\ None \notin Executors \cup Inspectors \cup {RT}
ASSUME PriorityAssumption == Priority \in [Executors -> Priorities]
ASSUME TablesAssumption ==
  \A t \in Tables :
    /\ t.frame \in Nat
    /\ t.slots \in Seq([insp : Inspectors, offset : Nat, period : Nat, duration : Nat])
    /\ Valid(t.frame, t.slots)

VARIABLES
  rstatus,    \* RuntimeStatus: Running(inspector) is the inspector, else None
  registry,   \* the registered inspectors
  rqueue,     \* the runtime's queue of inspectors
  table,      \* the enacted table, or None
  insp,       \* for every inspector its status, registry and queue
  exec,       \* for every executor "fresh", "Runnable", "Finished" or "dropped"
  stack,      \* for every executor what it is in the middle of
  rstack,     \* the timer handler, when it has interrupted the runtime
  cpu, pc,    \* who runs, and where the runtime is
  mode,       \* the loop the runtime is in: "queue" or "table"
  cur, cex,   \* its locals: inspector_id and executor_id
  now,
  ends,       \* the times of the pending slot-end events
  tabled,     \* the inspectors enact_sched_table took out of the queue
  fault       \* "none", or why the behaviour ends

rtvars  == <<registry, rqueue, table, tabled>>
ctlvars == <<cpu, pc, mode, cur, cex, rstatus>>
ctxvars == <<stack, rstack>>
vars == <<registry, rqueue, table, tabled, cpu, pc, mode, cur, cex, rstatus,
          stack, rstack, insp, exec, now, ends, fault>>

InspectorNew(e) ==
  [st |-> "Idle", ex |-> None, reg |-> {e}, queue |-> FPQEnqueue(FPQNew, Priority[e], e)]

Absent == [st |-> "Idle", ex |-> None, reg |-> {}, queue |-> FPQNew]

\* runtime::init registers one inspector with one executor; Runtime::start.
Init ==
  /\ rstatus = None /\ registry = {RootInspector} /\ rqueue = <<RootInspector>>
  /\ table = None /\ tabled = {}
  /\ insp = [i \in Inspectors |-> IF i = RootInspector THEN InspectorNew(RootExecutor) ELSE Absent]
  /\ exec = [e \in Executors |-> IF e = RootExecutor THEN "Runnable" ELSE "fresh"]
  /\ stack = [e \in Executors |-> <<"task">>] /\ rstack = <<>>
  /\ cpu = RT /\ pc = "start" /\ mode = "queue" /\ cur = None /\ cex = None
  /\ now = 0 /\ ends = {} /\ fault = "none"

Goto(p) == pc' = p /\ UNCHANGED <<cpu, mode, cur, cex, rstatus>>

Alive == fault = "none"
AtRt(p) == Alive /\ cpu = RT /\ rstack = <<>> /\ pc = p

Fail(why) ==
  /\ fault' = why
  /\ UNCHANGED <<rtvars, ctlvars, ctxvars, insp, exec, now, ends>>

-----------------------------------------------------------------------------
(* Runtime::start and the two loops; interrupts are off. *)

Start ==
  /\ AtRt("start")
  /\ IF table # None THEN pc' = "tstart" /\ mode' = "table"
                     ELSE pc' = "qpop" /\ mode' = "queue"
  /\ UNCHANGED <<rtvars, ctxvars, cpu, cur, cex, rstatus, insp, exec, now, ends, fault>>

\* run_without_sched_table, top of the loop.
QueuePop ==
  /\ AtRt("qpop")
  /\ IF table # None THEN Goto("start") /\ UNCHANGED rqueue
     ELSE IF rqueue = <<>> THEN Goto("halt") /\ UNCHANGED rqueue
     ELSE /\ cur' = Head(rqueue) /\ rqueue' = Tail(rqueue)
          /\ rstatus' = Head(rqueue) /\ pc' = "irun"
          /\ UNCHANGED <<cpu, mode, cex>>
  /\ UNCHANGED <<registry, table, tabled, ctxvars, insp, exec, now, ends, fault>>

\* Faulty variant: the inspector is kept whatever its state.
QueuePostKeep ==
  /\ AtRt("iret") /\ mode = "queue"
  /\ rqueue' = Append(rqueue, cur)
  /\ rstatus' = None /\ pc' = "qpop"
  /\ UNCHANGED <<registry, table, tabled, ctxvars, cpu, mode, cur, cex, insp, exec, now, ends, fault>>

\* Faulty variant: the inspector goes to the front of the queue.
QueuePostFront ==
  /\ AtRt("iret") /\ mode = "queue"
  /\ IF insp[cur].reg = {} /\ insp[cur].st = "Idle"
     THEN registry' = registry \ {cur} /\ UNCHANGED rqueue
     ELSE rqueue' = <<cur>> \o rqueue /\ UNCHANGED registry
  /\ rstatus' = None /\ pc' = "qpop"
  /\ UNCHANGED <<table, tabled, ctxvars, cpu, mode, cur, cex, insp, exec, now, ends, fault>>

\* Faulty variant: an inspector that is Pending is not queued again.
QueuePostIdle ==
  /\ AtRt("iret") /\ mode = "queue"
  /\ IF insp[cur].st = "Idle"
     THEN registry' = registry \ {cur}
     ELSE UNCHANGED registry
  /\ rstatus' = None /\ pc' = "qpop"
  /\ UNCHANGED <<rqueue, table, tabled, ctxvars, cpu, mode, cur, cex, insp, exec, now, ends, fault>>

\* ... and its end: an inspector with nothing left is dropped, any other one
\* goes to the back of the queue.
QueuePost ==
  /\ AtRt("iret") /\ mode = "queue"
  /\ IF insp[cur].reg = {} /\ insp[cur].st = "Idle"
     THEN registry' = registry \ {cur} /\ UNCHANGED rqueue
     ELSE rqueue' = Append(rqueue, cur) /\ UNCHANGED registry
  /\ rstatus' = None /\ pc' = "qpop"
  /\ UNCHANGED <<table, tabled, ctxvars, cpu, mode, cur, cex, insp, exec, now, ends, fault>>

\* run_with_sched_table, sched_table_start: the datum of the first frame.
TableStart ==
  /\ AtRt("tstart")
  /\ table' = [table EXCEPT !.datum = now]
  /\ Goto("tnext")
  /\ UNCHANGED <<registry, rqueue, tabled, ctxvars, insp, exec, now, ends, fault>>

\* sched_next up to the wait.
TableNext ==
  /\ AtRt("tnext")
  /\ IF table = None THEN Goto("start") /\ UNCHANGED <<table, fault>>
     ELSE IF table.slots = <<>> THEN fault' = "index" /\ Goto("tnext") /\ UNCHANGED table
     ELSE /\ table.datum + table.slots[table.next].offset <= MaxTime
          /\ table' = [table EXCEPT !.next = @ + 1]
          /\ Goto(IF now < table.datum + table.slots[table.next].offset THEN "twait" ELSE "tslot")
          /\ UNCHANGED fault
  /\ UNCHANGED <<registry, rqueue, tabled, ctxvars, insp, exec, now, ends>>

Due == {t \in ends : t <= now}
ThisSlot == table.slots[table.next - 1]

\* wfi with interrupts off returns when the timer or any other interrupt
\* becomes pending: another one may end the wait before its time.
TableWait(other) ==
  /\ AtRt("twait")
  /\ other \/ Due # {} \/ now >= table.datum + ThisSlot.offset
  /\ Goto("tslot")
  /\ UNCHANGED <<rtvars, ctxvars, insp, exec, now, ends, fault>>

\* Faulty variant: the end of the slot is not scheduled.
TableSlotNoEnd ==
  /\ AtRt("tslot")
  /\ table' = IF table.next > Len(table.slots)
              THEN [table EXCEPT !.next = 1, !.datum = @ + table.frame] ELSE table
  /\ cur' = ThisSlot.insp /\ rstatus' = ThisSlot.insp /\ pc' = "irun"
  /\ UNCHANGED <<registry, rqueue, tabled, ctxvars, cpu, mode, cex, insp, exec, now, ends, fault>>

\* The rest of sched_next, and set_current_inspector.
TableSlot ==
  /\ AtRt("tslot")
  /\ ends' = ends \cup {table.datum + ThisSlot.offset + ThisSlot.duration}
  /\ table' = IF table.next > Len(table.slots)
              THEN [table EXCEPT !.next = 1, !.datum = @ + table.frame] ELSE table
  /\ cur' = ThisSlot.insp /\ rstatus' = ThisSlot.insp /\ pc' = "irun"
  /\ UNCHANGED <<registry, rqueue, tabled, ctxvars, cpu, mode, cex, insp, exec, now, fault>>

TablePost ==
  /\ AtRt("iret") /\ mode = "table"
  /\ rstatus' = None /\ pc' = "tnext"
  /\ UNCHANGED <<rtvars, ctxvars, cpu, mode, cur, cex, insp, exec, now, ends, fault>>

-----------------------------------------------------------------------------
(* Inspector::run; interrupts are on between its calls of with_current. *)

InspectorDequeue ==
  /\ AtRt("irun")
  /\ IF cur \notin registry THEN Fail("no inspector")
     ELSE /\ IF insp[cur].queue.bits = {}
             THEN Goto("iret") /\ UNCHANGED insp
             ELSE /\ cex' = FPQFront(insp[cur].queue)
                  /\ insp' = [insp EXCEPT ![cur].queue = FPQDequeue(@)]
                  /\ pc' = "iset" /\ UNCHANGED <<cpu, mode, cur, rstatus>>
          /\ UNCHANGED <<rtvars, ctxvars, exec, now, ends, fault>>

\* Faulty variant: only the first executor is recorded.
InspectorSetFirst ==
  /\ AtRt("iset")
  /\ insp' = [insp EXCEPT ![cur].st = "Running", ![cur].ex = IF @ = None THEN cex ELSE @]
  /\ Goto("ictx")
  /\ UNCHANGED <<rtvars, ctxvars, exec, now, ends, fault>>

\* set_current(Some(executor_id))
InspectorSet ==
  /\ AtRt("iset")
  /\ insp' = [insp EXCEPT ![cur].st = "Running", ![cur].ex = cex]
  /\ Goto("ictx")
  /\ UNCHANGED <<rtvars, ctxvars, exec, now, ends, fault>>

\* arch::switch into the executor; the runtime goes on at "iback".
InspectorSwitch ==
  /\ AtRt("ictx")
  /\ cpu' = cex /\ pc' = "iback"
  /\ UNCHANGED <<rtvars, ctxvars, mode, cur, cex, rstatus, insp, exec, now, ends, fault>>

\* set_current(None): Pending stays.
InspectorBack ==
  /\ AtRt("iback")
  /\ insp' = [insp EXCEPT ![cur].st = IF @ = "Running" THEN "Idle" ELSE @]
  /\ Goto("icheck")
  /\ UNCHANGED <<rtvars, ctxvars, exec, now, ends, fault>>

\* Faulty variant: an executor that was preempted is not queued again.
InspectorCheckDrop ==
  /\ AtRt("icheck")
  /\ IF exec[cex] = "Finished"
     THEN /\ insp' = [insp EXCEPT ![cur].reg = @ \ {cex}]
          /\ exec' = [exec EXCEPT ![cex] = "dropped"]
     ELSE /\ insp' = [insp EXCEPT ![cur].queue =
                        IF insp[cur].st = "Pending" THEN @ ELSE FPQEnqueue(@, Priority[cex], cex)]
          /\ UNCHANGED exec
  /\ Goto(IF insp[cur].st = "Pending" THEN "iret" ELSE "irun")
  /\ UNCHANGED <<rtvars, ctxvars, now, ends, fault>>

\* A finished executor is dropped, any other one queued; then out, if Pending.
InspectorCheck ==
  /\ AtRt("icheck")
  /\ IF exec[cex] = "Finished"
     THEN /\ insp' = [insp EXCEPT ![cur].reg = @ \ {cex}]
          /\ exec' = [exec EXCEPT ![cex] = "dropped"]
     ELSE /\ insp' = [insp EXCEPT ![cur].queue = FPQEnqueue(@, Priority[cex], cex)]
          /\ UNCHANGED exec
  /\ Goto(IF insp[cur].st = "Pending" THEN "iret" ELSE "irun")
  /\ UNCHANGED <<rtvars, ctxvars, now, ends, fault>>

-----------------------------------------------------------------------------
(* The executor that runs. *)

InTask(f) == Alive /\ cpu # RT /\ Head(stack[cpu]) = f

\* Executor::with_current: the executor the current inspector says is running.
CurrentExecutor == insp[rstatus].ex

\* mark_pending
MarkPending(i) == insp' = [insp EXCEPT ![i].st = IF @ = "Running" THEN "Pending" ELSE @]

TaskMarkPending ==
  /\ InTask("task")
  /\ MarkPending(rstatus)
  /\ UNCHANGED <<rtvars, ctlvars, ctxvars, exec, now, ends, fault>>

\* switch_yield saves into the context of the current executor and goes on
\* where the runtime is.
SwitchYield ==
  IF cpu = CurrentExecutor
  THEN /\ cpu' = RT
       /\ UNCHANGED <<rtvars, rstack, pc, mode, cur, cex, rstatus, insp, exec, now, ends, fault>>
  ELSE /\ fault' = "context"
       /\ UNCHANGED <<rtvars, rstack, ctlvars, insp, exec, now, ends>>

TaskYield ==
  /\ InTask("task") \/ InTask("fin")
  /\ SwitchYield
  /\ UNCHANGED stack

TaskFinish(e) ==
  /\ cpu = e /\ InTask("task")
  /\ exec' = [exec EXCEPT ![e] = "Finished"]
  /\ stack' = [stack EXCEPT ![e] = <<"fin">> \o Tail(@)]
  /\ UNCHANGED <<rtvars, ctlvars, rstack, insp, now, ends, fault>>

RegisterInspector(i, e) ==
  /\ InTask("task")
  /\ insp[i] = Absent /\ i \notin registry /\ exec[e] = "fresh"
  /\ registry' = registry \cup {i} /\ rqueue' = Append(rqueue, i)
  /\ insp' = [insp EXCEPT ![i] = InspectorNew(e)]
  /\ exec' = [exec EXCEPT ![e] = "Runnable"]
  /\ UNCHANGED <<table, tabled, ctlvars, ctxvars, now, ends, fault>>

RegisterExecutor(e) ==
  /\ InTask("task") /\ exec[e] = "fresh"
  /\ insp' = [insp EXCEPT ![rstatus].reg = @ \cup {e},
                          ![rstatus].queue = FPQEnqueue(@, Priority[e], e)]
  /\ exec' = [exec EXCEPT ![e] = "Runnable"]
  /\ UNCHANGED <<rtvars, ctlvars, ctxvars, now, ends, fault>>

Listed(t) == {t.slots[k].insp : k \in DOMAIN t.slots}

\* VecDeque::retain, of what is not in L: the k-th of the places that are kept
\* becomes place k.
Rank(kept, k) == Cardinality({m \in kept : m <= k})
Retained(q, L) ==
  LET kept == {k \in DOMAIN q : q[k] \notin L}
  IN [j \in 1 .. Cardinality(kept) |-> q[CHOOSE k \in kept : Rank(kept, k) = j]]

\* enact_sched_table: the inspectors the table lists leave the queue.
Enact(t) ==
  /\ InTask("task") /\ table = None
  /\ table' = [frame |-> t.frame, slots |-> t.slots, next |-> 1, datum |-> 0]
  /\ rqueue' = Retained(rqueue, Listed(t))
  /\ tabled' = tabled \cup (Listed(t) \cap registry)
  /\ UNCHANGED <<registry, ctlvars, ctxvars, insp, exec, now, ends, fault>>

\* revoke_sched_table, and the drop of the table it returns, which cancels
\* the pending events; the inspectors are not queued again.
Revoke ==
  /\ InTask("task") /\ table # None
  /\ table' = None /\ ends' = {}
  /\ UNCHANGED <<registry, rqueue, tabled, ctlvars, ctxvars, insp, exec, now, fault>>

Task ==
  \/ TaskMarkPending \/ TaskYield \/ Revoke
  \/ \E e \in Executors : TaskFinish(e) \/ RegisterExecutor(e)
  \/ \E i \in Inspectors, e \in Executors : RegisterInspector(i, e)
  \/ \E t \in Tables : Enact(t)

-----------------------------------------------------------------------------
(* The timer interrupt: timer_int::handle and the slot-end callback. *)

Top == IF cpu = RT THEN (IF rstack = <<>> THEN pc ELSE Head(rstack)) ELSE Head(stack[cpu])
Push(f) == IF cpu = RT THEN rstack' = <<f>> \o rstack /\ UNCHANGED stack
                       ELSE stack' = [stack EXCEPT ![cpu] = <<f>> \o @] /\ UNCHANGED rstack
Pop == IF cpu = RT THEN rstack' = Tail(rstack) /\ UNCHANGED stack
                   ELSE stack' = [stack EXCEPT ![cpu] = Tail(@)] /\ UNCHANGED rstack

InterruptsOn == Top \in {"irun", "iset", "ictx", "iback", "icheck", "task", "fin", "yield"}

Trap ==
  /\ Alive /\ InterruptsOn /\ Due # {}
  /\ Len(IF cpu = RT THEN rstack ELSE stack[cpu]) < MaxNest
  /\ Push("loop")
  /\ UNCHANGED <<rtvars, ctlvars, insp, exec, now, ends, fault>>

\* The first due event is taken out and its callback called: mark_pending
\* must not find the inspector Idle.
HandlerEvent ==
  /\ Alive /\ Top = "loop" /\ Due # {}
  /\ ends' = ends \ {CHOOSE t \in Due : \A u \in Due : t <= u}
  /\ IF rstatus \notin registry
     THEN fault' = "no inspector" /\ UNCHANGED <<insp, ctxvars>>
     ELSE IF insp[rstatus].st = "Idle"
     THEN fault' = "mark_pending" /\ UNCHANGED <<insp, ctxvars>>
     ELSE MarkPending(rstatus) /\ Push("yield") /\ UNCHANGED fault
  /\ UNCHANGED <<rtvars, ctlvars, exec, now>>

HandlerYield ==
  /\ Alive /\ Top = "yield"
  /\ SwitchYield
  /\ stack' = IF cpu = RT THEN stack ELSE [stack EXCEPT ![cpu] = Tail(@)]

HandlerReturn ==
  /\ Alive /\ Top = "loop" /\ Due = {}
  /\ Pop
  /\ UNCHANGED <<rtvars, ctlvars, insp, exec, now, ends, fault>>

Handler == Trap \/ HandlerEvent \/ HandlerYield \/ HandlerReturn

-----------------------------------------------------------------------------
Tick ==
  /\ Alive /\ now < MaxTime
  /\ now' = now + 1
  /\ UNCHANGED <<rtvars, ctlvars, ctxvars, insp, exec, ends, fault>>

RuntimeStep ==
  \/ Start \/ QueuePop \/ QueuePost
  \/ TableStart \/ TableNext \/ TableSlot \/ TablePost
  \/ \E other \in BOOLEAN : TableWait(other)
  \/ InspectorDequeue \/ InspectorSet \/ InspectorSwitch \/ InspectorBack \/ InspectorCheck

Next == RuntimeStep \/ Task \/ Handler \/ Tick

Spec == Init /\ [][Next]_vars

\* The runtime and the handler run; an executor that is run again and again
\* comes to its end.
FairSpec ==
  /\ Spec
  /\ WF_vars(RuntimeStep) /\ WF_vars(Handler) /\ WF_vars(TaskYield /\ InTask("fin"))
  /\ \A e \in Executors : SF_vars(TaskFinish(e))

-----------------------------------------------------------------------------
(* Properties. *)

\* Type invariant.
TypeOK ==
  /\ rstatus \in Inspectors \cup {None} /\ cur \in Inspectors \cup {None}
  /\ registry \subseteq Inspectors /\ tabled \subseteq Inspectors
  /\ rqueue \in Seq(Inspectors)
  /\ table # None => table.next \in 1 .. Len(table.slots) + 1
  /\ \A i \in Inspectors :
       /\ insp[i].st \in {"Idle", "Running", "Pending"}
       /\ insp[i].ex \in Executors \cup {None}
       /\ insp[i].reg \subseteq Executors
  /\ exec \in [Executors -> {"fresh", "Runnable", "Finished", "dropped"}]
  /\ cpu \in Executors \cup {RT} /\ cex \in Executors \cup {None}
  /\ mode \in {"queue", "table"}
  /\ now \in Nat /\ ends \subseteq Nat

\* The runtime is inside Inspector::run, or the executor it switched to runs.
Inside == pc \in {"irun", "iset", "ictx", "iback", "icheck", "iret"}

\* An executor is in the hands of Inspector::run.
InHand(i, e) == cur = i /\ cex = e /\ pc \in {"iset", "ictx", "iback", "icheck"}

\* How often the queue holds e.
Count(q, e) ==
  Cardinality(UNION {{<<p, k>> : k \in {j \in DOMAIN q.queues[p] : q.queues[p][j] = e}} :
                       p \in Priorities})

\* Every registered inspector is queued once, or it is the one the round robin
\* loop runs, or it is listed in a table: pop_front, push_back, register,
\* unregister and enact keep queue and registry in step.  The ones enact takes
\* out of the queue are not put back by revoke.
InspectorPlaced ==
  /\ \A j, k \in DOMAIN rqueue : rqueue[j] = rqueue[k] => j = k
  /\ \A k \in DOMAIN rqueue : rqueue[k] \in registry
  /\ mode = "queue" /\ Inside => \A k \in DOMAIN rqueue : rqueue[k] # cur
  /\ \A i \in registry \ tabled :
       (\E k \in DOMAIN rqueue : rqueue[k] = i) \/ (cur = i /\ Inside)

\* Every registered executor is either queued once or the one in the hands
\* of Inspector::run, whichever way it was switched out: none is lost, none is
\* scheduled twice, and the queue names none that was dropped.
ExecutorPlaced ==
  \A i \in registry, e \in Executors :
    IF e \in insp[i].reg
    THEN exec[e] # "dropped" /\ Count(insp[i].queue, e) = IF InHand(i, e) THEN 0 ELSE 1
    ELSE Count(insp[i].queue, e) = 0

\* While an executor runs, the runtime and its inspector name it: the unwraps
\* of Executor::with_current in switch_yield and spawn succeed, and
\* switch_yield saves into the context of the executor that calls it.
RunningNamed ==
  cpu # RT =>
    /\ rstatus = cur /\ cur \in registry /\ pc = "iback"
    /\ insp[cur].st \in {"Running", "Pending"}
    /\ insp[cur].ex = cpu /\ cex = cpu /\ cpu \in insp[cur].reg

\* The slot that the enacted table is in, and its end.
Started == table.next > 1 \/ table.datum > 0
SlotEnd ==
  IF table.next = 1
  THEN (table.datum - table.frame) + table.slots[Len(table.slots)].offset
         + table.slots[Len(table.slots)].duration
  ELSE table.datum + ThisSlot.offset + ThisSlot.duration

\* A task that runs in a slot of the table always has the end of that slot
\* ahead of it: time partitioning does not depend on the task giving way.
SlotEndPending ==
  Alive /\ mode = "table" /\ InTask("task") /\ table # None /\ Started =>
    SlotEnd \in ends

\* In round robin every queued inspector is run, provided the executors before
\* it come to their end, unless a table is enacted or the kernel panics.
QueuedRuns ==
  \A i \in Inspectors :
    (\E k \in DOMAIN rqueue : rqueue[k] = i) ~> cur = i \/ table # None \/ ~ Alive

\* When every executor comes to its end the CPU halts, unless a table is
\* enacted, the kernel panics, or an inspector is left empty while Pending:
\* such a one is queued again for ever.
Halts ==
  <>(\/ pc = "halt" \/ table # None \/ ~ Alive
     \/ \E i \in registry : insp[i].reg = {} /\ insp[i].st = "Pending")

\* The unwrap in the slot-end callback: when the end of a slot comes,
\* the current inspector is not Idle.
MarkPendingSucceeds == fault # "mark_pending"
=============================================================================
