------------------------------ MODULE NetLocks ------------------------------
(***************************************************************************)
(* The spin locks of the network stack and the order in which the code of  *)
(* driver/src/smoltcp_impl takes them.  The executors of a CPU take turns  *)
(* (the end of a slot may switch one away at any instruction, whatever it  *)
(* holds), and on top of the one that runs comes, at any moment, an        *)
(* interrupt: the locks do not mask them.  The handler of the network      *)
(* interrupt and the interrupt strategy are not interrupted themselves.    *)
(*                                                                         *)
(* A call of TcpSocket is one critical section after the other, with no    *)
(* lock held in between, so that a task may enter any of them next.  The   *)
(* locks are dev and iface of the interface, sockets (SOCKET_SET), entry   *)
(* (that of a port in LISTEN_TABLE), curr (get_ephemeral_port), driver     *)
(* (VirtIoNetMutex) and irq_table.                                         *)
(***************************************************************************)
EXTENDS Naturals, Sequences

CONSTANTS Executors,
          CpuOf,         \* the CPU of every executor
          StrategyCpu    \* the CPU that runs min_load_strategy_event

Harts == {CpuOf[e] : e \in Executors}
Locks == {"dev", "iface", "sockets", "entry", "curr", "driver", "irq_table"}

Task(e) == <<"task", e>>
Irq(c) == <<"irq", c>>
Actors == {Task(e) : e \in Executors} \cup {Irq(c) : c \in Harts}

VARIABLES owner,    \* who holds a lock: nobody or one actor
          todo,     \* what each actor still has to lock and unlock
          chosen    \* the executor that every CPU runs

kvars == <<owner, todo, chosen>>

KInit ==
  /\ owner = [l \in Locks |-> {}]
  /\ todo = [a \in Actors |-> <<>>]
  /\ chosen \in [Harts -> Executors] /\ \A c \in Harts : CpuOf[chosen[c]] = c

Within(l, body) == <<<<"lock", l>>>> \o body \o <<<<"unlock", l>>>>
Use1(l) == Within(l, <<>>)

-----------------------------------------------------------------------------
(* The critical sections. *)

\* InterfaceWrapper::poll; a first SYN goes to the entry of its port.
PollLocks(syn) ==
  Within("dev", Within("iface", Within("sockets",
    Use1("driver") \o IF syn THEN Use1("entry") ELSE <<>>)))

\* connect: the socket is connected with the context of the interface.
ConnectLocks == Within("sockets", Use1("iface"))

\* get_ephemeral_port asks the table.
EphemeralLocks == Within("curr", Use1("entry"))

\* accept and can_accept ask for the state of every socket in the queue.
AcceptLocks == Within("entry", Use1("sockets"))

\* unlisten drops the entry, and with it its sockets, under the lock.
UnlistenLocks == Within("entry", Use1("sockets"))

\* listen
ListenLocks == Use1("entry")

\* Faulty variant: the interfaces are polled with the socket still in hand.
SocketLocksPoll == Within("sockets", PollLocks(FALSE))

\* add, remove, close, send, recv, poll_connect and poll_stream
SocketLocks == Use1("sockets")

Sections ==
  {PollLocks(TRUE), PollLocks(FALSE), ConnectLocks, EphemeralLocks, AcceptLocks,
   UnlistenLocks, ListenLocks, SocketLocks}

\* VirtIoNetMutex::handle_irq, called with IRQ_TABLE locked.
HandlerLocks(syn) == Within("irq_table", PollLocks(syn) \o Use1("driver"))

\* min_load_strategy_event
StrategyLocks == Use1("irq_table")

InterruptSections(c) ==
  {HandlerLocks(TRUE), HandlerLocks(FALSE)} \cup IF c = StrategyCpu THEN {StrategyLocks} ELSE {}

-----------------------------------------------------------------------------
\* An interrupt is being handled on the CPU of executor e.
Covered(e) == todo[Irq(CpuOf[e])] # <<>>

\* A task stands still under a handler, and while its executor is switched away.
Running(a) == \A e \in Executors : a = Task(e) => chosen[CpuOf[e]] = e /\ ~Covered(e)

\* The callback at the end of a slot, up to the executor of the next one.
SlotEnd(e) ==
  /\ ~Covered(e) /\ chosen[CpuOf[e]] # e
  /\ chosen' = [chosen EXCEPT ![CpuOf[e]] = e]
  /\ UNCHANGED <<owner, todo>>

Begin(e, section) ==
  /\ todo[Task(e)] = <<>> /\ Running(Task(e))
  /\ todo' = [todo EXCEPT ![Task(e)] = section]
  /\ UNCHANGED <<owner, chosen>>

Interrupted(c, section) ==
  /\ todo[Irq(c)] = <<>>
  /\ todo' = [todo EXCEPT ![Irq(c)] = section]
  /\ UNCHANGED <<owner, chosen>>

Lock(a) ==
  /\ todo[a] # <<>> /\ Running(a) /\ Head(todo[a])[1] = "lock"
  /\ owner[Head(todo[a])[2]] = {}
  /\ owner' = [owner EXCEPT ![Head(todo[a])[2]] = {a}]
  /\ todo' = [todo EXCEPT ![a] = Tail(@)]
  /\ UNCHANGED chosen

Unlock(a) ==
  /\ todo[a] # <<>> /\ Running(a) /\ Head(todo[a])[1] = "unlock"
  /\ owner' = [owner EXCEPT ![Head(todo[a])[2]] = {}]
  /\ todo' = [todo EXCEPT ![a] = Tail(@)]
  /\ UNCHANGED chosen

KNext ==
  \/ \E e \in Executors : SlotEnd(e) \/ \E section \in Sections : Begin(e, section)
  \/ \E c \in Harts : \E section \in InterruptSections(c) : Interrupted(c, section)
  \/ \E a \in Actors : Lock(a) \/ Unlock(a)

KSpec == KInit /\ [][KNext]_kvars

-----------------------------------------------------------------------------
(* Properties. *)

WaitsForLock(a, l) == todo[a] # <<>> /\ Head(todo[a]) = <<"lock", l>> /\ owner[l] # {}

\* Those before whom a cannot move: the holder of the lock it spins for, and
\* the handler that covers it.  An executor that is switched away waits for no
\* one else, as slots end while no handler runs.
WaitsOn(a) ==
  {b \in Actors : todo[a] # <<>> /\ Head(todo[a])[1] = "lock" /\ b \in owner[Head(todo[a])[2]]}
  \cup {Irq(CpuOf[e]) : e \in {x \in Executors : a = Task(x) /\ Covered(x)}}

Waiting == {a \in Actors : WaitsOn(a) # {}}

\* Everyone in the group waits for someone in the group.
Deadlocked(group) == group # {} /\ \A a \in group : WaitsOn(a) \cap group # {}

Owns(a, l) == owner[l] = {a}

\* Tasks and handlers block one another for ever in these ways only: a handler
\* has interrupted a task that holds a lock; or it runs on a CPU one of whose
\* executors was switched away with a lock in its hands; or connect holds the
\* socket set and wants the interface a poll holds, which wants the set; or
\* accept or unlisten holds an entry and wants the set, while a poll holds the
\* set and wants the entry for a SYN.
DeadlocksKnown ==
  \A group \in SUBSET Waiting : Deadlocked(group) =>
    \/ \E e \in Executors : Irq(CpuOf[e]) \in group /\ \E l \in Locks : Owns(Task(e), l)
    \/ \E a, b \in group :
         \/ Owns(a, "sockets") /\ WaitsForLock(a, "iface") /\ Owns(b, "iface") /\ WaitsForLock(b, "sockets")
         \/ Owns(a, "entry") /\ WaitsForLock(a, "sockets") /\ Owns(b, "sockets") /\ WaitsForLock(b, "entry")
=============================================================================
