-------------------------------- MODULE Tcp --------------------------------
(***************************************************************************)
(* TcpSocket (driver/src/smoltcp_impl/tcp.rs), the listen table            *)
(* (listen_table.rs) and the set of smoltcp sockets both refer to by       *)
(* handle.  Threads share TcpSockets (unsafe impl Sync).                   *)
(*                                                                         *)
(* connect, bind, listen and the two halves of shutdown go through         *)
(* update_state: Enter is the compare-exchange to BUSY, the steps of the   *)
(* closure follow, one for every access to what other threads see (the     *)
(* address, the table, the set), and Store is the store of the new state.  *)
(* poll_connect looks at CONNECTING once and later stores a state without  *)
(* a compare-exchange.  accept reads the state, then the port, then scans  *)
(* the queue with the entry locked and the set locked for one socket after *)
(* the other; send, recv and poll read the state and then ask the set.  A  *)
(* loop of block_on stays where it is until its call has an answer.        *)
(*                                                                         *)
(* smoltcp is external: of its state machine only what the code looks at   *)
(* is kept, and packets make the transitions.  Who waits for which lock is *)
(* the subject of NetLocks.                                                *)
(***************************************************************************)
EXTENDS Naturals, Sequences, Functions

CONSTANTS Threads, Sockets, Handles,
          Ports,               \* a TCP port, never 0
          LISTEN_QUEUE_SIZE,
          None

ASSUME PortsAssumption == Ports \subseteq Nat \ {0}
ASSUME NoneAssumption == None \notin Handles \cup Sockets \cup Seq(Handles)
ASSUME QueueAssumption == LISTEN_QUEUE_SIZE \in Nat

VARIABLES
  state,    \* for every TcpSocket its state, "unused" when there is none
  handle,   \* its handle, or None
  port,     \* the port of its local_addr, 0 when unspecified
  net,      \* SOCKET_SET: for every handle the smoltcp state, or "free"
  table,    \* LISTEN_TABLE: for every port the SYN queue, or None
  call,     \* what each thread is in the middle of
  seen,     \* the connections a scan should find: established when it began (history)
  stale,    \* TcpSockets poll_connect stored a state into after another thread
            \* had taken them out of CONNECTING (history)
  leaked,   \* handles a failed connect() left in the set (history)
  fault     \* an unwrap on a reset connection panicked

vars == <<state, handle, port, net, table, call, seen, stale, leaked, fault>>

Idle == [op |-> "idle", s |-> None, p |-> 0, k |-> 0]
Alive == ~fault
IsIdle(t) == Alive /\ call[t] = Idle
In(t, op) == Alive /\ call[t].op = op
GotoAt(t, op, s, p, k) == call' = [call EXCEPT ![t] = [op |-> op, s |-> s, p |-> p, k |-> k]]
Goto(t, op, s, p) == GotoAt(t, op, s, p, 0)
Return(t) == call' = [call EXCEPT ![t] = Idle]

Init ==
  /\ state = [s \in Sockets |-> "unused"]
  /\ handle = [s \in Sockets |-> None]
  /\ port = [s \in Sockets |-> 0]
  /\ net = [h \in Handles |-> "free"]
  /\ table = [p \in Ports |-> None]
  /\ call = [t \in Threads |-> Idle]
  /\ seen = [t \in Threads |-> {}]
  /\ stale = {} /\ leaked = {} /\ fault = FALSE

Free == {h \in Handles : net[h] = "free"}
Listening == {p \in Ports : table[p] # None}

\* A scan of accept holds the lock of the entry.
Locked(p) == \E t \in Threads : call[t].op \in {"scan", "take"} /\ call[t].p = p

\* get_ephemeral_port: some port nobody listens on.
CanListen == Ports \ Listening

\* bound_endpoint, and when it may fail: it has found one port after the other
\* taken, the last of them just now.
BoundPorts(s) == IF port[s] # 0 THEN {port[s]} ELSE CanListen
NoPort(s) == port[s] = 0 /\ Listening # {}

New(s) ==
  /\ Alive /\ state[s] = "unused"
  /\ state' = [state EXCEPT ![s] = "CLOSED"]
  /\ UNCHANGED <<handle, port, net, table, call, seen, stale, leaked, fault>>

-----------------------------------------------------------------------------
(* update_state *)

Expect(op) == CASE op \in {"connect", "bind", "listen"} -> "CLOSED"
                [] op = "close" -> "CONNECTED"
                [] op = "unlisten" -> "LISTENING"

BusyOps == {"connect", "bind", "listen", "close", "unlisten"}

\* Faulty variant: BUSY is not told from the state expected.
EnterBusy(t, s, op) ==
  /\ IsIdle(t) /\ state[s] \in {Expect(op), "BUSY"}
  /\ state' = [state EXCEPT ![s] = "BUSY"]
  /\ Goto(t, op, s, 0)
  /\ UNCHANGED <<handle, port, net, table, seen, stale, leaked, fault>>

\* compare_exchange(expect, STATE_BUSY); a call that finds another state
\* returns and changes nothing.
Enter(t, s, op) ==
  /\ IsIdle(t) /\ state[s] = Expect(op)
  /\ state' = [state EXCEPT ![s] = "BUSY"]
  /\ Goto(t, op, s, 0)
  /\ UNCHANGED <<handle, port, net, table, seen, stale, leaked, fault>>

\* bound_endpoint, in connect and in listen, which writes the port at once.
BoundEndpoint(t, p) ==
  LET s == call[t].s IN
  /\ In(t, "connect") \/ In(t, "listen")
  /\ p \in BoundPorts(s)
  /\ port' = IF call[t].op = "listen" THEN [port EXCEPT ![s] = p] ELSE port
  /\ Goto(t, IF call[t].op = "listen" THEN "table" ELSE "dial", s, p)
  /\ UNCHANGED <<state, handle, net, table, seen, stale, leaked, fault>>

\* The handle connect() works with: its own, or one it has added, which nobody
\* else can see.
ConnectHandles(s) == IF handle[s] # None THEN {handle[s]} ELSE Free

\* smoltcp starts the connection: the socket must be closed.
ConnectOk(t, h) ==
  LET s == call[t].s IN
  /\ In(t, "dial") /\ h \in ConnectHandles(s) /\ net[h] \in {"free", "Closed"}
  /\ net' = [net EXCEPT ![h] = "SynSent"]
  /\ handle' = [handle EXCEPT ![s] = h]
  /\ port' = [port EXCEPT ![s] = call[t].p]
  /\ Goto(t, "CONNECTING", s, 0)
  /\ UNCHANGED <<state, table, seen, stale, leaked, fault>>

\* No port, an address out of reach, or a socket that is still open: the
\* handle that was added is not recorded and stays in the set.
ConnectFails(t, h) ==
  LET s == call[t].s IN
  /\ \/ In(t, "dial")
     \/ In(t, "connect") /\ NoPort(s)
  /\ h \in ConnectHandles(s)
  /\ net' = [net EXCEPT ![h] = IF @ = "free" THEN "Closed" ELSE @]
  /\ leaked' = IF handle[s] = None THEN leaked \cup {h} ELSE leaked
  /\ Goto(t, "CLOSED", s, 0)
  /\ UNCHANGED <<state, handle, port, table, seen, stale, fault>>

\* bind: an error when the socket is bound already, or (p = 0) when no port is
\* to be had.
Bind(t, p) ==
  LET s == call[t].s IN
  /\ In(t, "bind") /\ (p = 0 => Listening # {})
  /\ port' = [port EXCEPT ![s] = IF @ = 0 THEN p ELSE @]
  /\ Goto(t, "CLOSED", s, 0)
  /\ UNCHANGED <<state, handle, net, table, seen, stale, leaked, fault>>

\* Faulty variant: an entry that is there is replaced.
ListenOver(t) ==
  LET s == call[t].s IN
  /\ In(t, "table") /\ ~Locked(call[t].p)
  /\ table' = [table EXCEPT ![call[t].p] = <<>>]
  /\ Goto(t, "LISTENING", s, 0)
  /\ UNCHANGED <<state, handle, port, net, seen, stale, leaked, fault>>

\* listen of the table: an error when somebody listens on the port by now; the
\* port stays set.
Listen(t) ==
  LET s == call[t].s
      p == call[t].p
  IN
  /\ In(t, "table") /\ ~Locked(p)
  /\ table' = [table EXCEPT ![p] = IF @ = None THEN <<>> ELSE @]
  /\ Goto(t, IF table[p] = None THEN "LISTENING" ELSE "CLOSED", s, 0)
  /\ UNCHANGED <<state, handle, port, net, seen, stale, leaked, fault>>

\* listen with no port to be had.
ListenNoPort(t) ==
  /\ In(t, "listen") /\ NoPort(call[t].s)
  /\ Goto(t, "CLOSED", call[t].s, 0)
  /\ UNCHANGED <<state, handle, port, net, table, seen, stale, leaked, fault>>

\* smoltcp's close()
Closed(st) == IF st \in {"Listen", "SynSent"} THEN "Closed"
              ELSE IF st \in {"SynReceived", "Established"} THEN "Closing" ELSE st

\* shutdown of a stream
Close(t) ==
  LET s == call[t].s IN
  /\ In(t, "close")
  /\ net' = [net EXCEPT ![handle[s]] = Closed(@)]
  /\ port' = [port EXCEPT ![s] = 0]
  /\ Goto(t, "CLOSED", s, 0)
  /\ UNCHANGED <<state, handle, table, seen, stale, leaked, fault>>

\* shutdown of a listener: the port is read and the address cleared
Unlisten(t) ==
  LET s == call[t].s IN
  /\ In(t, "unlisten")
  /\ port' = [port EXCEPT ![s] = 0]
  /\ Goto(t, "drop", s, port[s])
  /\ UNCHANGED <<state, handle, net, table, seen, stale, leaked, fault>>

\* Faulty variant: the queued sockets are not removed from the set.
DropEntryKeep(p) ==
  /\ table' = [q \in Ports |-> IF q = p THEN None ELSE table[q]]
  /\ UNCHANGED net

\* unlisten, and the drop of the entry, which removes its sockets from the set.
DropEntry(p) ==
  /\ table' = [q \in Ports |-> IF q = p THEN None ELSE table[q]]
  /\ net' = [h \in Handles |->
               IF p \in Ports /\ table[p] # None /\ h \in Range(table[p]) THEN "free" ELSE net[h]]

UnlistenTable(t) ==
  /\ In(t, "drop") /\ ~Locked(call[t].p)
  /\ DropEntry(call[t].p)
  /\ Goto(t, "CLOSED", call[t].s, 0)
  /\ UNCHANGED <<state, handle, port, seen, stale, leaked, fault>>

NewStates == {"CLOSED", "CONNECTING", "LISTENING"}
ClosureOps == BusyOps \cup {"dial", "table", "drop"} \cup NewStates

\* The end of update_state.  A blocking connect() goes on to poll_connect,
\* whatever becomes of the state.
Store(t) ==
  LET s == call[t].s IN
  /\ Alive /\ call[t].op \in NewStates
  /\ state' = [state EXCEPT ![s] = call[t].op]
  /\ \/ Return(t)
     \/ call[t].op = "CONNECTING" /\ Goto(t, "poll", s, 0)
  /\ UNCHANGED <<handle, port, net, table, seen, stale, leaked, fault>>

-----------------------------------------------------------------------------
(* poll of a connecting socket *)

PollStart(t, s) ==
  /\ IsIdle(t) /\ state[s] = "CONNECTING"
  /\ Goto(t, "poll", s, 0)
  /\ UNCHANGED <<state, handle, port, net, table, seen, stale, leaked, fault>>

\* poll_connect
PollConnect(t) ==
  LET s == call[t].s
      st == net[handle[s]]
  IN
  /\ In(t, "poll")
  /\ state' = [state EXCEPT ![s] = IF st = "SynSent" THEN @
                                   ELSE IF st = "Established" THEN "CONNECTED" ELSE "CLOSED"]
  /\ port' = [port EXCEPT ![s] = IF st \in {"SynSent", "Established"} THEN @ ELSE 0]
  /\ stale' = IF st # "SynSent" /\ state[s] # "CONNECTING" THEN stale \cup {s} ELSE stale
  /\ Return(t)
  /\ UNCHANGED <<handle, net, table, seen, leaked, fault>>

-----------------------------------------------------------------------------
(* recv, send and poll of a connected socket (that of a listening one reads *)
(* the queue and changes nothing)                                           *)

\* The state is checked once; a blocking call then asks the set again and again,
\* whatever becomes of the state.
StreamStart(t, s) ==
  /\ IsIdle(t) /\ state[s] = "CONNECTED"
  /\ Goto(t, "stream", s, 0)
  /\ UNCHANGED <<state, handle, port, net, table, seen, stale, leaked, fault>>

\* The last of these questions, on the smoltcp socket of the handle: data, room
\* or the end of the connection.
StreamEnd(t) ==
  /\ In(t, "stream")
  /\ Return(t)
  /\ UNCHANGED <<state, handle, port, net, table, seen, stale, leaked, fault>>

-----------------------------------------------------------------------------
(* accept *)

AcceptStart(t, s) ==
  /\ IsIdle(t) /\ state[s] = "LISTENING"
  /\ Goto(t, "accept", s, 0)
  /\ UNCHANGED <<state, handle, port, net, table, seen, stale, leaked, fault>>

AcceptPort(t) ==
  /\ In(t, "accept")
  /\ Goto(t, "queue", call[t].s, port[call[t].s])
  /\ UNCHANGED <<state, handle, port, net, table, seen, stale, leaked, fault>>

IsConnected(h) == net[h] \notin {"Listen", "SynReceived"}

\* accept of the listen table locks the entry, unless there is none any more.
AcceptLock(t) ==
  LET p == call[t].p IN
  /\ In(t, "queue") /\ ~Locked(p)
  /\ IF p \in Listening
     THEN /\ GotoAt(t, "scan", call[t].s, p, 1)
          /\ seen' = [seen EXCEPT ![t] = {h \in Range(table[p]) : IsConnected(h)}]
     ELSE Return(t) /\ UNCHANGED seen
  /\ UNCHANGED <<state, handle, port, net, table, stale, leaked, fault>>

\* is_connected of the next socket in the queue
AcceptScan(t) ==
  LET s == call[t].s
      p == call[t].p
      k == call[t].k
  IN
  /\ In(t, "scan") /\ k \in DOMAIN table[p]
  /\ IF IsConnected(table[p][k]) THEN GotoAt(t, "take", s, p, k) ELSE GotoAt(t, "scan", s, p, k + 1)
  /\ UNCHANGED <<state, handle, port, net, table, seen, stale, leaked, fault>>

\* None was: WouldBlock, tried again when blocking.
AcceptNothing(t) ==
  LET p == call[t].p IN
  /\ In(t, "scan") /\ call[t].k \notin DOMAIN table[p]
  /\ Return(t) \/ Goto(t, "queue", call[t].s, p)
  /\ seen' = [seen EXCEPT ![t] = {}]
  /\ UNCHANGED <<state, handle, port, net, table, stale, leaked, fault>>

\* Faulty variant: swap_remove_back.
SwapRemoveBack(q, k) == SubSeq([q EXCEPT ![k] = q[Len(q)]], 1, Len(q) - 1)

\* VecDeque::swap_remove_front
SwapRemoveFront(q, k) == Tail([q EXCEPT ![k] = q[1]])

\* get_addr_tuple, where a socket that was reset has no endpoints to unwrap, and
\* the socket leaves the queue and becomes a TcpSocket.
AcceptTake(t, s) ==
  LET p == call[t].p
      k == call[t].k
      h == table[p][k]
  IN
  /\ In(t, "take") /\ state[s] = "unused"
  /\ IF net[h] = "Closed"
     THEN fault' = TRUE /\ UNCHANGED <<state, handle, port, table, call, seen>>
     ELSE /\ table' = [table EXCEPT ![p] = SwapRemoveFront(@, k)]
          /\ state' = [state EXCEPT ![s] = "CONNECTED"]
          /\ handle' = [handle EXCEPT ![s] = h]
          /\ port' = [port EXCEPT ![s] = p]
          /\ Return(t)
          /\ seen' = [seen EXCEPT ![t] = {}]
          /\ UNCHANGED fault
  /\ UNCHANGED <<net, stale, leaked>>

\* TcpSocket::drop: no thread uses the socket; shutdown, then the handle goes.
Drop(s) ==
  /\ Alive /\ state[s] # "unused" /\ \A t \in Threads : call[t].s # s
  /\ LET dead == IF handle[s] # None THEN {handle[s]} ELSE {}
         entry == IF state[s] = "LISTENING" THEN {port[s]} \cap Ports ELSE {}
         queued == UNION {Range(table[p]) : p \in entry \cap Listening}
     IN /\ \A p \in entry : ~Locked(p)
        /\ net' = [h \in Handles |-> IF h \in dead \cup queued THEN "free" ELSE net[h]]
        /\ table' = [p \in Ports |-> IF p \in entry THEN None ELSE table[p]]
  /\ state' = [state EXCEPT ![s] = "unused"]
  /\ handle' = [handle EXCEPT ![s] = None]
  /\ port' = [port EXCEPT ![s] = 0]
  /\ UNCHANGED <<call, seen, stale, leaked, fault>>

-----------------------------------------------------------------------------
(* Packets, as iface.poll handles them. *)

\* incoming_tcp_packet: a first SYN for a port somebody listens on; the new
\* socket, or one that was left listening, takes it, or (a repeated SYN) none.
Incoming(p, h, taker) ==
  /\ Alive /\ table[p] # None /\ ~Locked(p) /\ Len(table[p]) < LISTEN_QUEUE_SIZE /\ h \in Free
  /\ taker \in {h, None} \cup {g \in Range(table[p]) : net[g] = "Listen"}
  /\ table' = [table EXCEPT ![p] = Append(@, h)]
  /\ net' = [g \in Handles |-> IF g = taker THEN "SynReceived" ELSE IF g = h THEN "Listen" ELSE net[g]]
  /\ UNCHANGED <<state, handle, port, call, seen, stale, leaked, fault>>

\* The transitions of a smoltcp socket that packets cause.
Moves(st) == CASE st = "SynSent" -> {"Established", "Closed"}
               [] st = "SynReceived" -> {"Established", "Listen"}
               [] st = "Established" -> {"Closing", "Closed"}
               [] st = "Closing" -> {"Closed"}
               [] OTHER -> {}

Packet(h, st) ==
  /\ Alive /\ st \in Moves(net[h])
  /\ net' = [net EXCEPT ![h] = st]
  /\ UNCHANGED <<state, handle, port, table, call, seen, stale, leaked, fault>>

-----------------------------------------------------------------------------
Closure(t) ==
  \/ \E p \in Ports : BoundEndpoint(t, p)
  \/ \E h \in Handles : ConnectOk(t, h) \/ ConnectFails(t, h)
  \/ \E p \in Ports \cup {0} : Bind(t, p)
  \/ Listen(t) \/ ListenNoPort(t) \/ Close(t) \/ Unlisten(t) \/ UnlistenTable(t)

Accept(t) == AcceptPort(t) \/ AcceptLock(t) \/ AcceptScan(t) \/ AcceptNothing(t)

Next ==
  \/ \E s \in Sockets : New(s) \/ Drop(s)
  \/ \E t \in Threads, s \in Sockets :
       \/ \E op \in BusyOps : Enter(t, s, op)
       \/ PollStart(t, s) \/ StreamStart(t, s) \/ AcceptStart(t, s) \/ AcceptTake(t, s)
  \/ \E t \in Threads : Closure(t) \/ Store(t) \/ PollConnect(t) \/ StreamEnd(t) \/ Accept(t)
  \/ \E p \in Ports, h \in Handles, taker \in Handles \cup {None} : Incoming(p, h, taker)
  \/ \E h \in Handles, st \in {"Established", "Listen", "Closing", "Closed"} : Packet(h, st)

Spec == Init /\ [][Next]_vars

-----------------------------------------------------------------------------
(* Properties. *)

\* Type invariant.
TypeOK ==
  /\ state \in [Sockets -> {"unused", "CLOSED", "BUSY", "CONNECTING", "CONNECTED", "LISTENING"}]
  /\ handle \in [Sockets -> Handles \cup {None}]
  /\ port \in [Sockets -> Ports \cup {0}]
  /\ \A p \in Ports : table[p] = None \/ table[p] \in Seq(Handles)
  /\ \A t \in Threads : call[t] = Idle \/
       call[t] \in [op : ClosureOps \cup {"poll", "stream", "accept", "queue", "scan", "take"},
                   s : Sockets, p : Ports \cup {0}, k : Nat]
  /\ seen \in [Threads -> SUBSET Handles]
  /\ stale \subseteq Sockets /\ leaked \subseteq Handles /\ fault \in BOOLEAN

\* The owners of a handle: TcpSockets, and places in the SYN queues.
Holders(h) ==
  {<<"socket", s>> : s \in {r \in Sockets : handle[r] = h}}
  \cup UNION {{<<"queue", p, k>> : k \in {j \in DOMAIN table[p] : table[p][j] = h}} : p \in Listening}

\* Every socket of the set has exactly one owner, a TcpSocket or a place in a
\* SYN queue, except the ones failed connects leave behind; nobody keeps a
\* handle that is not in the set, on which smoltcp would panic, and a call that
\* has seen its socket connecting or connected finds a handle to unwrap.
HandlesOwned ==
  /\ \A h \in Handles :
       IF net[h] = "free" \/ h \in leaked THEN Holders(h) = {} ELSE \E x \in Holders(h) : Holders(h) = {x}
  /\ \A t \in Threads : call[t].op \in {"close", "poll", "stream"} => handle[call[t].s] # None

\* The entry of port p is that of s: s listens, listen has made the entry and
\* not yet stored the state, or shutdown has still to remove it.
HasEntry(s, p) ==
  \/ state[s] = "LISTENING" /\ port[s] = p
  \/ \E t \in Threads :
       /\ call[t].s = s
       /\ \/ call[t].op \in {"LISTENING", "unlisten"} /\ port[s] = p
          \/ call[t].op = "drop" /\ call[t].p = p

\* A socket is LISTENING only while the entry of its port is its own, and every
\* entry is that of one socket, so that none is left behind: as long as no late
\* poll_connect has stored a state over that of a socket in use.  After one has,
\* shutdown may clear the entry of another socket, or of none.
ListenerHasEntry ==
  stale = {} =>
    /\ \A s \in Sockets : state[s] = "LISTENING" => port[s] \in Listening
    /\ \A s, r \in Sockets, p \in Ports : HasEntry(s, p) /\ HasEntry(r, p) => s = r
    /\ \A p \in Listening : \E s \in Sockets : HasEntry(s, p)

InClosure(t, s) == call[t].op \in ClosureOps /\ call[t].s = s

\* Only a late poll_connect takes BUSY away from the thread in a closure of
\* update_state: on every other socket one thread at most is in a closure, and
\* the state says BUSY until it has stored the new one.
BusyUntilStored ==
  \A s \in Sockets \ stale :
    /\ \A t, u \in Threads : InClosure(t, s) /\ InClosure(u, s) => t = u
    /\ state[s] = "BUSY" <=> \E t \in Threads : InClosure(t, s)

\* What the SAFETY comments of connect, bind and shutdown say: "no other threads
\* can read or write these fields as we have changed the state to `BUSY`", so
\* that no two threads are in closures of one socket.
BusyExclusive ==
  \A s \in Sockets : \A t, u \in Threads : InClosure(t, s) /\ InClosure(u, s) => t = u

Place(p, h) == CHOOSE k \in DOMAIN table[p] : table[p][k] = h

\* No established connection is overtaken for ever: whenever accept takes one
\* from a queue, all those that were established when it began to look come
\* nearer to the front.  (One that is established while it looks may go back.)
AcceptComesNearer ==
  [][\A t \in Threads, p \in Ports :
       call[t].op = "take" /\ call[t].p = p /\ call'[t].op # "take" =>
         \A h \in seen[t] \cap Range(table'[p]) : Place(p, h)' < Place(p, h)]_vars
=============================================================================
