----------------------------- MODULE TimedEvent -----------------------------
(***************************************************************************)
(* The timed events of one CPU (kern/modules/timed-event/src/lib.rs), its  *)
(* timer (hal/src/arch/riscv/cpu.rs) and the timer interrupt handler       *)
(* (trap/src/timer_int.rs).                                                *)
(*                                                                         *)
(* Two actors share the CPU: the thread of control that creates and        *)
(* cancels events, and the interrupt handler, which runs to its end before *)
(* the thread goes on.  The queue is a spin lock that create, cancel and   *)
(* timeout take without masking interrupts, so the handler may find it     *)
(* held by the thread it interrupted: the calls of RuntimeSchedTable mask  *)
(* interrupts, the ones of the time tests do not.  The same tests call     *)
(* timer_int::count, which takes the lock of the counter the handler       *)
(* writes.  A CPU's events are only created and cancelled on that CPU.     *)
(*                                                                         *)
(* Durations count units of 1/NANOS s, the time register counts 1/FREQ s;  *)
(* it wraps at WORD and so does the product in get_time, in a release      *)
(* build (a debug build panics there instead).  Both conversions truncate. *)
(* registry and heap change together under the lock and hold the same ids: *)
(* they are one set.                                                       *)
(***************************************************************************)
EXTENDS Naturals, Sequences

CONSTANTS Ids,       \* TimedEventId: the order of creation
          Delays,    \* how far ahead of get_time() an event may be asked for
          NANOS,     \* nanoseconds in a second
          FREQ,      \* timebase_freq()
          WORD,      \* 2^64: the timer register and get_time's product are u64
          MaxTick    \* bound on the time register

ASSUME IdsAssumption == Ids \subseteq Nat
ASSUME DelaysAssumption == Delays \subseteq Nat
\* cpus::init sets timebase_freq() before anything asks for the time.
ASSUME RatesAssumption == NANOS \in Nat \ {0} /\ FREQ \in 1 .. NANOS
ASSUME WordAssumption == WORD \in Nat \ {0} /\ MaxTick \in 0 .. WORD - 2

VARIABLES
  tick,      \* the time register
  timecmp,   \* the tick the timer fires at
  event,     \* for every id its time, its status and whether it has a handler
  queue,     \* the ids in TIMED_EVENT_QUEUE
  ran,       \* for every id the callbacks that were run
  lock,      \* who holds the lock of the queue: "free", "thread"
  thread,    \* the call the thread is in
  irq,       \* where the interrupt handler is
  ie,        \* the thread runs with interrupts enabled
  dropped    \* the handler switched the timer off over a scheduled event

tvars == <<tick, timecmp, event, queue, ran, lock, thread, irq, ie, dropped>>

Idle == [at |-> "idle", id |-> 0]
Doing(pc, i) == [at |-> pc, id |-> i]

-----------------------------------------------------------------------------
(* The clock. *)

\* get_time multiplies before it divides.
GetTime == IF FREQ = 0 THEN 0 ELSE ((tick * NANOS) % WORD) \div FREQ

\* Duration::MAX: as many whole seconds as a u64 holds, and all but one
\* nanosecond of another.
DurationMax == WORD * NANOS - 1

SetTimer(time) == (((time * FREQ) \div NANOS) % WORD)

TimerPending == tick >= timecmp

Tick ==
  /\ tick < MaxTick
  /\ tick' = tick + 1
  /\ UNCHANGED <<timecmp, event, queue, ran, lock, thread, irq, ie, dropped>>

-----------------------------------------------------------------------------
(* The queue: a binary heap of (time, id). *)

Earlier(i, j) ==
  \/ event[i].time < event[j].time
  \/ event[i].time = event[j].time /\ i < j

Peek(q) == CHOOSE i \in q : \A j \in q : i = j \/ Earlier(i, j)

\* peek_outdated returns an event.
Outdated == queue # {} /\ event[Peek(queue)].time <= GetTime

\* Faulty variant: the timer is left alone when the queue becomes empty.
UpdateTimerSome(q, ev) ==
  timecmp' = IF q = {} THEN timecmp
             ELSE SetTimer(ev[CHOOSE i \in q : \A j \in q : ev[i].time <= ev[j].time].time)

\* update_timer, for a queue q and events ev.
UpdateTimer(q, ev) ==
  timecmp' = SetTimer(IF q = {} THEN DurationMax
                      ELSE ev[CHOOSE i \in q : \A j \in q : ev[i].time <= ev[j].time].time)

-----------------------------------------------------------------------------
(* The thread: create, cancel and count. *)

\* TimedEventId::new hands out i next.
Fresh(i) == event[i].status = "none" /\ \A j \in Ids : j < i => event[j].status # "none"

NewEvent(delay) == [time |-> GetTime + delay, status |-> "Pending", handler |-> TRUE]

\* The lock is taken with interrupts as they are.
CreateLock(i, delay, on) ==
  /\ irq = Idle /\ thread = Idle /\ lock = "free" /\ Fresh(i)
  /\ event' = [event EXCEPT ![i] = NewEvent(delay)]
  /\ lock' = "thread" /\ thread' = Doing("add", i) /\ ie' = on
  /\ UNCHANGED <<tick, timecmp, queue, ran, irq, dropped>>

CreateAdd ==
  /\ irq = Idle /\ thread.at = "add"
  /\ queue' = queue \cup {thread.id}
  /\ UpdateTimer(queue', event)
  /\ dropped' = FALSE
  /\ lock' = "free" /\ thread' = Idle /\ ie' = TRUE
  /\ UNCHANGED <<tick, event, ran, irq>>

CancelLock(i, on) ==
  /\ irq = Idle /\ thread = Idle /\ lock = "free"
  /\ event[i].status # "none"
  /\ lock' = "thread" /\ thread' = Doing("remove", i) /\ ie' = on
  /\ UNCHANGED <<tick, timecmp, event, queue, ran, irq, dropped>>

\* Faulty variant: the event is looked up and stays where it is.
RemoveKeep(i) ==
  /\ UpdateTimer(queue \ {i}, event)
  /\ dropped' = FALSE
  /\ UNCHANGED queue

\* The event is taken out and the timer set for the next one.
Remove(i) ==
  /\ queue' = queue \ {i}
  /\ UpdateTimer(queue', event)
  /\ dropped' = FALSE

CancelRemove ==
  /\ irq = Idle /\ thread.at = "remove"
  /\ IF thread.id \in queue
     THEN Remove(thread.id) /\ thread' = Doing("invoke", thread.id) /\ UNCHANGED ie
     ELSE UNCHANGED <<queue, timecmp, dropped>> /\ thread' = Idle /\ ie' = TRUE
  /\ lock' = "free"
  /\ UNCHANGED <<tick, event, ran, irq>>

\* invoke: the handler is taken, so that it is called at most once.
Invoke(i, target) ==
  IF event[i].handler
  THEN /\ event' = [event EXCEPT ![i].status = target, ![i].handler = FALSE]
       /\ ran' = [ran EXCEPT ![i] = Append(@, target)]
  ELSE UNCHANGED <<event, ran>>

CancelInvoke ==
  /\ irq = Idle /\ thread.at = "invoke"
  /\ Invoke(thread.id, "Cancelled")
  /\ thread' = Idle /\ ie' = TRUE
  /\ UNCHANGED <<tick, timecmp, queue, lock, irq, dropped>>

\* count, which only the time tests call, with interrupts on: it holds the
\* read lock of TIMER_INT_COUNTER.
CountLock ==
  /\ irq = Idle /\ thread = Idle
  /\ thread' = Doing("count", 0)
  /\ UNCHANGED <<tick, timecmp, event, queue, ran, lock, irq, ie, dropped>>

CountUnlock ==
  /\ irq = Idle /\ thread.at = "count"
  /\ thread' = Idle
  /\ UNCHANGED <<tick, timecmp, event, queue, ran, lock, irq, ie, dropped>>

Thread ==
  \/ \E i \in Ids, on \in BOOLEAN, d \in Delays : CreateLock(i, d, on)
  \/ \E i \in Ids, on \in BOOLEAN : CancelLock(i, on)
  \/ CreateAdd \/ CancelRemove \/ CancelInvoke \/ CountLock \/ CountUnlock

-----------------------------------------------------------------------------
(* timer_int::handle *)

TimerInt ==
  /\ irq = Idle /\ ie /\ TimerPending
  /\ irq' = Doing("count", 0)
  /\ UNCHANGED <<tick, timecmp, event, queue, ran, lock, thread, ie, dropped>>

\* TIMER_INT_COUNTER.write(): spins while a reader is inside.
HandleCount ==
  /\ irq.at = "count" /\ thread.at # "count"
  /\ irq' = Doing("peek", 0)
  /\ UNCHANGED <<tick, timecmp, event, queue, ran, lock, thread, ie, dropped>>

\* Faulty variant: any event that is due is taken.
HandlePeekUnordered ==
  /\ irq.at = "peek" /\ lock = "free"
  /\ LET due == {i \in queue : event[i].time <= GetTime} IN
     irq' = IF due # {} THEN Doing("timeout", CHOOSE i \in due : \A j \in due : j <= i)
            ELSE Doing("check", 0)
  /\ UNCHANGED <<tick, timecmp, event, queue, ran, lock, thread, ie, dropped>>

\* with_current(peek_outdated): spins while the lock is held.
HandlePeek ==
  /\ irq.at = "peek" /\ lock = "free"
  /\ irq' = IF Outdated THEN Doing("timeout", Peek(queue)) ELSE Doing("check", 0)
  /\ UNCHANGED <<tick, timecmp, event, queue, ran, lock, thread, ie, dropped>>

\* tracker.timeout() up to the unlock; an event that is gone is only reported.
HandleRemove ==
  /\ irq.at = "timeout" /\ lock = "free"
  /\ IF irq.id \in queue
     THEN Remove(irq.id) /\ irq' = Doing("invoke", irq.id)
     ELSE UNCHANGED <<queue, timecmp, dropped>> /\ irq' = Doing("peek", 0)
  /\ UNCHANGED <<tick, event, ran, lock, thread, ie>>

HandleInvoke ==
  /\ irq.at = "invoke"
  /\ Invoke(irq.id, "Timeout")
  /\ irq' = Doing("peek", 0)
  /\ UNCHANGED <<tick, timecmp, queue, lock, thread, ie, dropped>>

\* The callback creates an event of its own, as min_load_strategy_event does.
HandleInvokeCreate(i, delay) ==
  /\ irq.at = "invoke" /\ event[irq.id].handler /\ Fresh(i)
  /\ event' = [event EXCEPT ![irq.id].status = "Timeout", ![irq.id].handler = FALSE,
                           ![i] = NewEvent(delay)]
  /\ ran' = [ran EXCEPT ![irq.id] = Append(@, "Timeout")]
  /\ queue' = queue \cup {i}
  /\ UpdateTimer(queue', event')
  /\ dropped' = FALSE
  /\ irq' = Doing("peek", 0)
  /\ UNCHANGED <<tick, lock, thread, ie>>

\* Faulty variant: the handler always switches the timer off before it returns.
HandleCheckAlways ==
  /\ irq.at = "check"
  /\ timecmp' = SetTimer(DurationMax)
  /\ irq' = Idle
  /\ UNCHANGED <<tick, event, queue, ran, lock, thread, ie, dropped>>

\* A timer that is pending again is taken to have no event, and switched off.
HandleCheck ==
  /\ irq.at = "check"
  /\ IF TimerPending
     THEN timecmp' = SetTimer(DurationMax) /\ dropped' = (dropped \/ queue # {})
     ELSE UNCHANGED <<timecmp, dropped>>
  /\ irq' = Idle
  /\ UNCHANGED <<tick, event, queue, ran, lock, thread, ie>>

Handler ==
  \/ HandleCount \/ HandlePeek \/ HandleRemove \/ HandleInvoke \/ HandleCheck
  \/ \E i \in Ids, d \in Delays : HandleInvokeCreate(i, d)

-----------------------------------------------------------------------------
TInit ==
  /\ tick = 0
  /\ timecmp = SetTimer(DurationMax)
  /\ event = [i \in Ids |-> [time |-> 0, status |-> "none", handler |-> FALSE]]
  /\ queue = {}
  /\ ran = [i \in Ids |-> <<>>]
  /\ lock = "free" /\ thread = Idle /\ irq = Idle /\ ie = TRUE
  /\ dropped = FALSE

TNext == Tick \/ Thread \/ TimerInt \/ Handler

TSpec == TInit /\ [][TNext]_tvars

\* Time passes, a call that was entered is left and the handler runs.  The CPU
\* takes a pending interrupt as soon as it is enabled, so a thread that goes on
\* masking and unmasking interrupts does not keep it out.
Fairness ==
  /\ WF_tvars(Tick) /\ SF_tvars(TimerInt) /\ WF_tvars(Handler)
  /\ WF_tvars(CreateAdd) /\ WF_tvars(CancelRemove) /\ WF_tvars(CancelInvoke)
  /\ WF_tvars(CountUnlock)

TFairSpec == TSpec /\ Fairness

-----------------------------------------------------------------------------
(* Properties. *)

\* Type invariant.
TTypeOK ==
  /\ tick \in Nat /\ timecmp \in Nat
  /\ event \in [Ids -> [time : Nat, status : {"none", "Pending", "Timeout", "Cancelled"},
                        handler : BOOLEAN]]
  /\ queue \subseteq Ids
  /\ ran \in [Ids -> Seq({"Timeout", "Cancelled"})]
  /\ lock \in {"free", "thread"}
  /\ \/ thread \in {Idle, Doing("count", 0)}
     \/ thread \in [at : {"add", "remove", "invoke"}, id : Ids]
  /\ \/ irq \in {Idle, Doing("count", 0), Doing("peek", 0), Doing("check", 0)}
     \/ irq \in [at : {"timeout", "invoke"}, id : Ids]
  /\ ie \in BOOLEAN /\ dropped \in BOOLEAN

\* timeout and cancel race for an event and exactly one of them wins: at most
\* one callback runs, the status names it, and an event in the queue still has
\* its callback.
OneOutcome ==
  \A i \in Ids :
    /\ event[i].status \in {"none", "Pending"} <=> ran[i] = <<>>
    /\ event[i].status \in {"Timeout", "Cancelled"} => ran[i] = <<event[i].status>>
    /\ i \in queue => event[i].status = "Pending" /\ event[i].handler

\* The time since the clock started, as get_time would give it if its product
\* did not wrap.
Elapsed == (tick * NANOS) \div FREQ

\* An event never times out before its time has come, neither when set_timer's
\* rounding lets the timer fire early nor when get_time has wrapped, and
\* events that wait together time out in the order of their times.
DueInOrder ==
  irq.at \in {"timeout", "invoke"} =>
    /\ event[irq.id].time <= Elapsed
    /\ irq.at = "timeout" => \A j \in queue : j = irq.id \/ Earlier(irq.id, j)

\* Whenever the lock is free the timer is set for the first event of the queue,
\* and never fires when there is none, except after the handler has switched
\* it off over a scheduled event.
TimerArmed ==
  lock = "free" /\ ~ dropped =>
    IF queue = {} THEN ~ TimerPending
    ELSE timecmp = SetTimer(event[Peek(queue)].time)

\* The thread was interrupted inside a critical section: the handler spins on
\* a lock that cannot be released, that of the queue or that of the counter.
SelfDeadlock ==
  \/ irq.at = "peek" /\ lock = "thread"
  \/ irq.at = "count" /\ thread.at = "count"

\* Every scheduled event is eventually retired, unless the handler deadlocks
\* with the thread it interrupted, or switches the timer off over the event:
\* because set_timer's rounding let it fire early, because the event came due
\* between its last look at the queue and its test of the timer, or because
\* get_time has wrapped and never reaches the event's time.
EventuallyRetired ==
  \A i \in Ids :
    i \in queue ~> \/ i \notin queue \/ dropped \/ SelfDeadlock
                   \/ event[i].time > (MaxTick * NANOS) \div FREQ

\* What the warning of timer_int::handle says when the timer is pending after
\* the loop: "no timed event is scheduled".
NothingScheduled == irq.at = "check" /\ TimerPending => queue = {}
=============================================================================
