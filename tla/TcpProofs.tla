------------------------------ MODULE TcpProofs -----------------------------
(***************************************************************************)
(* Proofs about TcpSocket and the listen table (Tcp), for any threads,     *)
(* sockets, handles, ports and queue length.                               *)
(***************************************************************************)
EXTENDS Tcp, Integers, Sequences, TLAPS

-----------------------------------------------------------------------------
(* Sequences. *)

\* What Append does to a sequence.
LEMMA AppendFacts ==
  ASSUME NEW S, NEW s \in Seq(S), NEW x \in S
  PROVE  /\ Append(s, x) \in Seq(S)
         /\ Append(s, x) # <<>>
         /\ DOMAIN Append(s, x) = 1 .. Len(s) + 1
         /\ DOMAIN s = 1 .. Len(s)
         /\ Append(s, x)[Len(s) + 1] = x
         /\ \A i \in DOMAIN s : Append(s, x)[i] = s[i]
OBVIOUS

\* What Tail does to a non-empty sequence.
LEMMA TailFacts ==
  ASSUME NEW S, NEW s \in Seq(S), s # <<>>
  PROVE  /\ Tail(s) \in Seq(S)
         /\ Head(s) \in S
         /\ Head(s) = s[1]
         /\ 1 \in DOMAIN s
         /\ DOMAIN Tail(s) = 1 .. Len(s) - 1
         /\ DOMAIN s = 1 .. Len(s)
         /\ \A i \in DOMAIN Tail(s) : Tail(s)[i] = s[i + 1]
OBVIOUS

\* s holds every member of R, each once, and nothing else.
Lists(s, R) ==
  /\ \A k \in DOMAIN s : s[k] \in R
  /\ \A j, k \in DOMAIN s : s[j] = s[k] => j = k
  /\ \A x \in R : \E k \in DOMAIN s : s[k] = x

\* Nothing listed.
LEMMA ListsEmpty == Lists(<<>>, {})
BY DEF Lists

\* push_back of something new.
LEMMA ListsAppend ==
  ASSUME NEW S, NEW s \in Seq(S), NEW R, Lists(s, R), NEW x \in S, x \notin R
  PROVE  Lists(Append(s, x), R \cup {x})
<1> DEFINE t == Append(s, x)
           N == Len(s)
<1>1. /\ DOMAIN t = 1 .. N + 1 /\ DOMAIN s = 1 .. N
      /\ t[N + 1] = x
      /\ \A i \in DOMAIN s : t[i] = s[i]
  BY AppendFacts
<1>2. N \in Nat
  OBVIOUS
<1> HIDE DEF t, N
<1>3. \A i \in DOMAIN t : i \in DOMAIN s \/ i = N + 1
  BY <1>1, <1>2
<1>4. N + 1 \in DOMAIN t /\ \A i \in DOMAIN s : i \in DOMAIN t
  BY <1>1, <1>2
<1>5. \A k \in DOMAIN t : t[k] \in R \cup {x}
  BY <1>1, <1>3, Zenon DEF Lists
<1>6. ASSUME NEW j \in DOMAIN t, NEW k \in DOMAIN t, t[j] = t[k] PROVE j = k
  BY <1>1, <1>3, <1>6, Zenon DEF Lists
<1>7. \A y \in R \cup {x} : \E k \in DOMAIN t : t[k] = y
  BY <1>1, <1>4, Zenon DEF Lists
<1> QED BY <1>5, <1>6, <1>7, Zenon DEF Lists, t


-----------------------------------------------------------------------------
(* Tcp: types and locks. *)

States == {"unused", "CLOSED", "BUSY", "CONNECTING", "CONNECTED", "LISTENING"}
NetStates == {"free", "Closed", "SynSent", "Listen", "SynReceived", "Established", "Closing"}
CallOps == ClosureOps \cup {"poll", "stream", "accept", "queue", "scan", "take"}
CallType == [op : CallOps, s : Sockets, p : Ports \cup {0}, k : Nat]

TTyped ==
  /\ state \in [Sockets -> States]
  /\ handle \in [Sockets -> Handles \cup {None}]
  /\ port \in [Sockets -> Ports \cup {0}]
  /\ net \in [Handles -> NetStates]
  /\ table \in [Ports -> {None} \cup Seq(Handles)]
  /\ call \in [Threads -> {Idle} \cup CallType]
  /\ seen \in [Threads -> SUBSET Handles]
  /\ stale \in SUBSET Sockets /\ leaked \in SUBSET Handles

\* t has locked the entry of the port it looks at.
Scanning(t) == call[t].op \in {"scan", "take"}

\* The entry is there, nobody else has locked it, and what is to be taken is in
\* the queue.
Locking ==
  /\ \A t \in Threads : Scanning(t) => call[t].p \in Ports /\ table[call[t].p] # None
  /\ \A t \in Threads : call[t].op = "take" => call[t].k \in DOMAIN table[call[t].p]
  /\ \A t, u \in Threads : Scanning(t) /\ Scanning(u) /\ call[t].p = call[u].p => t = u

TInv == TTyped /\ Locking

\* A thread that is in the middle of a call has a socket.
LEMMA CallFacts ==
  ASSUME TTyped, NEW t \in Threads, call[t].op # "idle"
  PROVE  /\ call[t] \in CallType /\ call[t].op \in CallOps /\ call[t].s \in Sockets
         /\ call[t].p \in Ports \cup {0} /\ call[t].k \in Nat
<1>1. call[t] \in {Idle} \cup CallType
  BY Zenon DEF TTyped
<1>2. call[t] # Idle
  BY DEF Idle
<1> QED BY <1>1, <1>2, Zenon DEF CallType

\* The call of t is c from now on.
Becomes(t, c) == call' = [call EXCEPT ![t] = c]

\* Where Goto sends a thread.
LEMMA GotoFacts ==
  ASSUME NEW t, NEW op \in CallOps, NEW s \in Sockets, NEW p \in Ports \cup {0}, NEW k \in Nat,
         GotoAt(t, op, s, p, k)
  PROVE  \E c \in CallType :
           Becomes(t, c) /\ c.op = op /\ c.s = s /\ c.p = p /\ c.k = k
<1>1. PICK c : c = [op |-> op, s |-> s, p |-> p, k |-> k]
  BY Zenon
<1>2. c \in CallType /\ c.op = op /\ c.s = s /\ c.p = p /\ c.k = k
  BY <1>1 DEF CallType
<1> QED BY <1>1, <1>2, Zenon DEF GotoAt, Becomes

LEMMA GotoFacts0 ==
  ASSUME NEW t, NEW op \in CallOps, NEW s \in Sockets, NEW p \in Ports \cup {0}, Goto(t, op, s, p)
  PROVE  \E c \in CallType : Becomes(t, c) /\ c.op = op /\ c.s = s /\ c.p = p
<1>1. 0 \in Nat /\ GotoAt(t, op, s, p, 0)
  BY DEF Goto
<1> QED BY <1>1, GotoFacts

\* What a thread's move leaves alone.
LEMMA CallSet ==
  ASSUME TTyped, NEW t \in Threads, NEW c, Becomes(t, c)
  PROVE  /\ call'[t] = c /\ \A u \in Threads : u # t => call'[u] = call[u]
         /\ c \in {Idle} \cup CallType => call' \in [Threads -> {Idle} \cup CallType]
BY Zenon DEF TTyped, Becomes

LEMMA IdleIs == Idle.op = "idle" /\ Idle.op \notin ClosureOps /\ Idle.op \notin {"scan", "take"}
BY DEF Idle, ClosureOps, BusyOps, NewStates

\* VecDeque::swap_remove_front: the queue loses the one element.
LEMMA SwapRemoved ==
  ASSUME NEW X, NEW q \in Seq(X), NEW k \in DOMAIN q
  PROVE  /\ SwapRemoveFront(q, k) \in Seq(X) /\ Len(SwapRemoveFront(q, k)) = Len(q) - 1
         /\ Len(q) \in Nat /\ DOMAIN q = 1 .. Len(q)
         /\ DOMAIN SwapRemoveFront(q, k) = 1 .. Len(q) - 1
         /\ \A i \in 1 .. Len(q) - 1 : SwapRemoveFront(q, k)[i] = IF i + 1 = k THEN q[1] ELSE q[i + 1]
<1> DEFINE r == [q EXCEPT ![k] = q[1]]
           N == Len(q)
<1>1. N \in Nat /\ DOMAIN q = 1 .. N /\ k \in 1 .. N /\ q[1] \in X
  OBVIOUS
<1>2. r \in Seq(X) /\ Len(r) = N /\ r # <<>>
  <2>1. r \in [1 .. N -> X] /\ N # 0
    BY <1>1
  <2>2. r \in Seq(X) /\ Len(r) = N
    BY <1>1, <2>1
  <2> QED BY <2>1, <2>2, Zenon
<1>3. \A i \in 1 .. N : r[i] = IF i = k THEN q[1] ELSE q[i]
  BY <1>1, Zenon
<1> HIDE DEF r, N
<1>4. /\ Tail(r) \in Seq(X) /\ DOMAIN Tail(r) = 1 .. N - 1
      /\ \A i \in 1 .. N - 1 : Tail(r)[i] = r[i + 1]
  BY <1>2, TailFacts, Zenon
<1>5. Len(Tail(r)) = N - 1
  <2>1. N # 0 /\ N - 1 \in Nat
    BY <1>1
  <2> QED BY <1>2, <1>4, <2>1
<1>6. \A i \in 1 .. N - 1 : i + 1 \in 1 .. N
  BY <1>1
<1>7. \A i \in 1 .. N - 1 : Tail(r)[i] = IF i + 1 = k THEN q[1] ELSE q[i + 1]
  BY <1>3, <1>4, <1>6, Zenon
<1> QED BY <1>1, <1>4, <1>5, <1>7, Zenon DEF SwapRemoveFront, r, N

LEMMA SwapRemovedLists ==
  ASSUME NEW X, NEW q \in Seq(X), NEW k \in DOMAIN q, NEW R, Lists(q, R)
  PROVE  Lists(SwapRemoveFront(q, k), R \ {q[k]})
<1> DEFINE t == SwapRemoveFront(q, k)
           N == Len(q)
<1>1. /\ N \in Nat /\ DOMAIN q = 1 .. N /\ DOMAIN t = 1 .. N - 1
      /\ \A i \in 1 .. N - 1 : t[i] = IF i + 1 = k THEN q[1] ELSE q[i + 1]
  BY SwapRemoved, Zenon
<1> HIDE DEF t, N
<1>2. /\ \A i \in 1 .. N : q[i] \in R
      /\ \A i, j \in 1 .. N : q[i] = q[j] => i = j
      /\ \A x \in R : \E i \in 1 .. N : q[i] = x
  BY <1>1, Zenon DEF Lists
<1> DEFINE old(i) == IF i + 1 = k THEN 1 ELSE i + 1
<1>3. ASSUME NEW i \in 1 .. N - 1 PROVE old(i) \in 1 .. N /\ t[i] = q[old(i)] /\ old(i) # k
  <2>1. i + 1 \in 1 .. N /\ 1 \in 1 .. N /\ i + 1 # 1
    BY <1>1
  <2> QED BY <1>1, <2>1, Zenon
<1>4. ASSUME NEW i \in 1 .. N - 1, NEW j \in 1 .. N - 1, old(i) = old(j) PROVE i = j
  BY <1>1, <1>4
<1>5. ASSUME NEW m \in 1 .. N, m # k PROVE \E i \in 1 .. N - 1 : old(i) = m
  <2>1. CASE m = 1
    <3>1. k - 1 \in 1 .. N - 1 /\ (k - 1) + 1 = k
      BY <1>1, <1>5, <2>1
    <3> QED BY <2>1, <3>1, Zenon
  <2>2. CASE m # 1
    <3>1. m - 1 \in 1 .. N - 1 /\ (m - 1) + 1 = m
      BY <1>1, <2>2
    <3> QED BY <1>5, <3>1, Zenon
  <2> QED BY <2>1, <2>2, Zenon
<1> HIDE DEF old
<1>6. \A i \in 1 .. N - 1 : t[i] \in R \ {q[k]}
  BY <1>1, <1>2, <1>3
<1>7. \A i, j \in 1 .. N - 1 : t[i] = t[j] => i = j
  BY <1>2, <1>3, <1>4
<1>8. ASSUME NEW x \in R \ {q[k]} PROVE \E i \in 1 .. N - 1 : t[i] = x
  <2>1. PICK m \in 1 .. N : q[m] = x
    BY <1>2, Zenon
  <2>2. PICK i \in 1 .. N - 1 : old(i) = m
    BY <1>5, <2>1, Zenon
  <2> QED BY <1>3, <2>1, <2>2, Zenon
<1> QED BY <1>1, <1>6, <1>7, <1>8, Zenon DEF Lists, t

\* The closures: the thread goes on, on its socket, and has not yet stored.
LEMMA ClosureFacts ==
  ASSUME TTyped, NEW t \in Threads, Closure(t)
  PROVE  /\ call[t].s \in Sockets /\ call[t].op \in ClosureOps /\ call[t].op # "idle"
         /\ UNCHANGED <<state, seen, stale>>
         /\ \E c \in CallType : /\ Becomes(t, c) /\ c.s = call[t].s
                                /\ c.op \in {"dial", "table", "drop"} \cup NewStates
<1>1. call[t].op \in ClosureOps /\ call[t].op # "idle"
  BY Zenon DEF Closure, BoundEndpoint, ConnectFails, ConnectOk, Bind, Listen, ListenNoPort, Close, Unlisten, UnlistenTable,
               In, ClosureOps, BusyOps, NewStates
<1>2. PICK s \in Sockets : s = call[t].s
  BY <1>1, CallFacts, Zenon
<1>3. port[s] \in Ports \cup {0} /\ call[t].p \in Ports \cup {0}
  BY <1>1, <1>2, CallFacts, Zenon DEF TTyped
<1>4. UNCHANGED <<state, seen, stale>> /\ \E op \in {"dial", "table", "drop"} \cup NewStates, p \in Ports \cup {0} : Goto(t, op, s, p)
  <2>1. CASE \E p \in Ports : BoundEndpoint(t, p)
    BY <1>2, <2>1, Zenon DEF BoundEndpoint
  <2>2. CASE \E h \in Handles : ConnectOk(t, h)
    BY <1>2, <2>2, Zenon DEF ConnectOk, NewStates
  <2>3. CASE \E h \in Handles : ConnectFails(t, h)
    BY <1>2, <2>3, Zenon DEF ConnectFails, NewStates
  <2>4. CASE \E p \in Ports \cup {0} : Bind(t, p)
    BY <1>2, <2>4, Zenon DEF Bind, NewStates
  <2>5. CASE Listen(t)
    BY <1>2, <2>5, Zenon DEF Listen, NewStates
  <2>6. CASE ListenNoPort(t) \/ Close(t)
    BY <1>2, <2>6, Zenon DEF ListenNoPort, Close, NewStates
  <2>7. CASE Unlisten(t)
    BY <1>2, <1>3, <2>7, Zenon DEF Unlisten
  <2>8. CASE UnlistenTable(t)
    BY <1>2, <2>8, Zenon DEF UnlistenTable, NewStates
  <2> QED BY <2>1, <2>2, <2>3, <2>4, <2>5, <2>6, <2>7, <2>8, Zenon DEF Closure
<1>5. PICK op \in {"dial", "table", "drop"} \cup NewStates, p \in Ports \cup {0} : Goto(t, op, s, p)
  BY <1>4, Zenon
<1>6. op \in CallOps
  BY Zenon DEF CallOps, ClosureOps
<1>7. PICK c \in CallType : Becomes(t, c) /\ c.op = op /\ c.s = s
  BY <1>5, <1>6, GotoFacts0
<1> QED BY <1>1, <1>2, <1>4, <1>7, Zenon

\* The end of update_state.
LEMMA StoreFacts ==
  ASSUME TTyped, NEW t \in Threads, Store(t)
  PROVE  /\ call[t].s \in Sockets /\ call[t].op \in NewStates /\ call[t].op \in ClosureOps
         /\ state' = [state EXCEPT ![call[t].s] = call[t].op]
         /\ UNCHANGED <<handle, port, net, table, seen, stale, leaked>>
         /\ \E c \in {Idle} \cup CallType :
              /\ Becomes(t, c) /\ c.op \in {"idle", "poll"}
              /\ c.op = "poll" => c.s = call[t].s /\ call[t].op = "CONNECTING"
<1>1. call[t].op \in NewStates /\ call[t].op \in ClosureOps /\ call[t].op # "idle"
  BY Zenon DEF Store, NewStates, ClosureOps
<1>2. PICK s \in Sockets : s = call[t].s
  BY <1>1, CallFacts, Zenon
<1>3. /\ state' = [state EXCEPT ![s] = call[t].op]
      /\ Return(t) \/ (call[t].op = "CONNECTING" /\ Goto(t, "poll", s, 0))
      /\ UNCHANGED <<handle, port, net, table, seen, stale, leaked>>
  BY <1>2, Zenon DEF Store
<1>4. CASE Return(t)
  <2>1. Becomes(t, Idle) /\ Idle.op = "idle" /\ "idle" # "poll"
    BY <1>4, IdleIs, Zenon DEF Return, Becomes
  <2> QED BY <1>1, <1>2, <1>3, <2>1, Zenon
<1>5. CASE call[t].op = "CONNECTING" /\ Goto(t, "poll", s, 0)
  <2>1. PICK c \in CallType : Becomes(t, c) /\ c.op = "poll" /\ c.s = s
    BY <1>5, GotoFacts0 DEF CallOps
  <2> QED BY <1>1, <1>2, <1>3, <1>5, <2>1, Zenon
<1> QED BY <1>3, <1>4, <1>5, Zenon

\* A call begins without entering a closure.
LEMMA StartFacts ==
  ASSUME TTyped, NEW t \in Threads, NEW s \in Sockets,
         PollStart(t, s) \/ StreamStart(t, s) \/ AcceptStart(t, s)
  PROVE  /\ call[t] = Idle /\ UNCHANGED <<state, handle, port, net, table, seen, stale, leaked>>
         /\ state[s] \in {"CONNECTING", "CONNECTED", "LISTENING"}
         /\ \E c \in CallType : /\ Becomes(t, c) /\ c.s = s
                                /\ c.op \in {"poll", "stream", "accept"}
                                /\ c.op # "accept" => state[s] \in {"CONNECTING", "CONNECTED"}
<1>1. /\ call[t] = Idle /\ UNCHANGED <<state, handle, port, net, table, seen, stale, leaked>>
      /\ state[s] \in {"CONNECTING", "CONNECTED", "LISTENING"}
      /\ \E op \in {"poll", "stream", "accept"} :
           Goto(t, op, s, 0) /\ (op # "accept" => state[s] \in {"CONNECTING", "CONNECTED"})
  BY Zenon DEF PollStart, StreamStart, AcceptStart, IsIdle
<1>2. PICK op \in {"poll", "stream", "accept"} :
           Goto(t, op, s, 0) /\ (op # "accept" => state[s] \in {"CONNECTING", "CONNECTED"})
  BY <1>1, Zenon
<1>3. op \in CallOps
  BY Zenon DEF CallOps
<1>4. PICK c \in CallType : Becomes(t, c) /\ c.op = op /\ c.s = s
  BY <1>2, <1>3, GotoFacts0
<1> QED BY <1>1, <1>2, <1>4, Zenon

\* accept up to the taking changes nothing that others see, except the lock.
LEMMA AcceptSteps ==
  ASSUME TTyped, NEW t \in Threads, Accept(t)
  PROVE  /\ call[t].op \in {"accept", "queue", "scan"} /\ call[t].s \in Sockets
         /\ UNCHANGED <<state, handle, port, net, table, stale, leaked>>
         /\ seen' \in [Threads -> SUBSET Handles]
         /\ \E c \in {Idle} \cup CallType :
              /\ Becomes(t, c) /\ c.op \in {"idle", "queue", "scan", "take"}
              /\ c.op # "idle" => c.s = call[t].s
<1>1. call[t].op \in {"accept", "queue", "scan"} /\ call[t].op # "idle"
  BY Zenon DEF Accept, AcceptPort, AcceptLock, AcceptScan, AcceptNothing, In
<1>2. PICK s \in Sockets : s = call[t].s
  BY <1>1, CallFacts, Zenon
<1>3. port[s] \in Ports \cup {0} /\ call[t].p \in Ports \cup {0} /\ call[t].k \in Nat
  BY <1>1, <1>2, CallFacts, Zenon DEF TTyped
<1>k. call[t].k + 1 \in Nat /\ 0 \in Nat /\ 1 \in Nat
  BY <1>3
<1>4. UNCHANGED <<state, handle, port, net, table, stale, leaked>>
  BY Zenon DEF Accept, AcceptPort, AcceptLock, AcceptScan, AcceptNothing
<1>5. seen' \in [Threads -> SUBSET Handles]
  <2>1. CASE AcceptLock(t)
    <3> DEFINE C == {h \in Range(table[call[t].p]) : IsConnected(h)}
    <3>1. seen' = seen \/ (call[t].p \in Listening /\ seen' = [seen EXCEPT ![t] = C])
      BY <2>1, Zenon DEF AcceptLock
    <3>2. ASSUME call[t].p \in Listening PROVE C \in SUBSET Handles
      <4>1. table[call[t].p] \in Seq(Handles)
        BY <3>2, Zenon DEF Listening, TTyped
      <4> QED BY <4>1 DEF Range
    <3> HIDE DEF C
    <3> QED BY <3>1, <3>2, Zenon DEF TTyped
  <2>2. CASE AcceptPort(t) \/ AcceptScan(t) \/ AcceptNothing(t)
    BY <2>2, Zenon DEF AcceptPort, AcceptScan, AcceptNothing, TTyped
  <2> QED BY <2>1, <2>2, Zenon DEF Accept
<1>6. Return(t) \/ \E op \in {"queue", "scan", "take"}, p \in Ports \cup {0}, k \in Nat : GotoAt(t, op, s, p, k)
  <2>1. CASE AcceptPort(t)
    BY <1>2, <1>3, <1>k, <2>1, Zenon DEF AcceptPort, Goto
  <2>2. CASE AcceptLock(t)
    BY <1>2, <1>3, <1>k, <2>2, Zenon DEF AcceptLock
  <2>3. CASE AcceptScan(t)
    BY <1>2, <1>3, <1>k, <2>3, Zenon DEF AcceptScan
  <2>4. CASE AcceptNothing(t)
    BY <1>2, <1>3, <1>k, <2>4, Zenon DEF AcceptNothing, Goto
  <2> QED BY <2>1, <2>2, <2>3, <2>4, Zenon DEF Accept
<1>7. CASE Return(t)
  BY <1>1, <1>2, <1>4, <1>5, <1>7, IdleIs, Zenon DEF Return, Becomes
<1>8. CASE ~ Return(t)
  <2>1. PICK op \in {"queue", "scan", "take"}, p \in Ports \cup {0}, k \in Nat : GotoAt(t, op, s, p, k)
    BY <1>6, <1>8, Zenon
  <2>2. op \in CallOps
    BY Zenon DEF CallOps
  <2>3. PICK c \in CallType : Becomes(t, c) /\ c.op = op /\ c.s = s
    BY <2>1, <2>2, GotoFacts
  <2> QED BY <1>1, <1>2, <1>4, <1>5, <2>3, Zenon
<1> QED BY <1>7, <1>8, Zenon

\* accept goes through: the k-th of the queue of p becomes the socket of s.
Taken(t, s, p, k) ==
  /\ p = call[t].p /\ k = call[t].k
  /\ p \in Ports /\ table[p] # None /\ table[p] \in Seq(Handles)
  /\ k \in DOMAIN table[p] /\ table[p][k] \in Handles
  /\ state' = [state EXCEPT ![s] = "CONNECTED"]
  /\ handle' = [handle EXCEPT ![s] = table[p][k]]
  /\ port' = [port EXCEPT ![s] = p]
  /\ table' = [table EXCEPT ![p] = SwapRemoveFront(table[p], k)]
  /\ Becomes(t, Idle) /\ seen' = [seen EXCEPT ![t] = {}]

LEMMA AcceptFacts ==
  ASSUME TInv, NEW t \in Threads, NEW s \in Sockets, AcceptTake(t, s)
  PROVE  /\ UNCHANGED <<net, stale, leaked>>
         /\ call[t].op = "take" /\ state[s] = "unused"
         /\ UNCHANGED <<state, handle, port, table, call, seen>> \/ \E p, k : Taken(t, s, p, k)
<1>0. PICK p, k : p = call[t].p /\ k = call[t].k
  BY Zenon
<1>1. call[t].op = "take" /\ state[s] = "unused"
  BY Zenon DEF AcceptTake, In
<1>2. p \in Ports /\ table[p] # None /\ k \in DOMAIN table[p]
  BY <1>0, <1>1, Zenon DEF TInv, Locking, Scanning
<1>3. table[p] \in Seq(Handles)
  BY <1>2, Zenon DEF TInv, TTyped
<1>4. table[p][k] \in Handles
  BY <1>2, <1>3
<1>5. /\ UNCHANGED <<net, stale, leaked>>
      /\ \/ UNCHANGED <<state, handle, port, table, call, seen>>
         \/ /\ table' = [table EXCEPT ![p] = SwapRemoveFront(@, k)]
            /\ state' = [state EXCEPT ![s] = "CONNECTED"]
            /\ handle' = [handle EXCEPT ![s] = table[p][k]]
            /\ port' = [port EXCEPT ![s] = p]
            /\ Becomes(t, Idle) /\ seen' = [seen EXCEPT ![t] = {}]
  BY <1>0, Zenon DEF AcceptTake, Return, Becomes
<1>6. [table EXCEPT ![p] = SwapRemoveFront(@, k)] = [table EXCEPT ![p] = SwapRemoveFront(table[p], k)]
  BY Zenon
<1>7. UNCHANGED <<state, handle, port, table, call, seen>> \/ Taken(t, s, p, k)
  BY <1>0, <1>2, <1>3, <1>4, <1>5, <1>6, Zenon DEF Taken
<1> QED BY <1>1, <1>5, <1>7, Zenon

LEMMA InitTTyped == Init => TInv
<1> SUFFICES ASSUME Init PROVE TTyped /\ Locking
  BY Zenon DEF TInv
<1>1. TTyped
  BY DEF Init, TTyped, States, NetStates
<1>2. \A t \in Threads : ~ Scanning(t) /\ call[t].op # "take"
  BY IdleIs, Zenon DEF Init, Scanning
<1> QED BY <1>1, <1>2, Zenon DEF Locking

LEMMA ClosureTTyped ==
  ASSUME TTyped, NEW t \in Threads, Closure(t)
  PROVE  TTyped'
<1>0. PICK s \in Sockets : s = call[t].s
  BY ClosureFacts, Zenon
<1>1. /\ state' \in [Sockets -> States] /\ call' \in [Threads -> {Idle} \cup CallType]
      /\ seen' \in [Threads -> SUBSET Handles] /\ stale' \in SUBSET Sockets
  <2>1. PICK c \in CallType : Becomes(t, c)
    BY ClosureFacts, Zenon
  <2> QED BY <2>1, ClosureFacts, CallSet, Zenon DEF TTyped
<1>2. call[t].p \in Ports \cup {0}
  BY ClosureFacts, CallFacts, Zenon
<1>3. /\ handle' \in [Sockets -> Handles \cup {None}] /\ port' \in [Sockets -> Ports \cup {0}]
      /\ net' \in [Handles -> NetStates] /\ table' \in [Ports -> {None} \cup Seq(Handles)]
      /\ leaked' \in SUBSET Handles
  <2>1. ASSUME NEW p \in Ports, BoundEndpoint(t, p) PROVE <1>3!:
    BY <1>0, <2>1, Zenon DEF BoundEndpoint, TTyped
  <2>2. ASSUME NEW h \in Handles, ConnectOk(t, h) PROVE <1>3!:
    <3>1. net' = [net EXCEPT ![h] = "SynSent"] /\ handle' = [handle EXCEPT ![s] = h]
          /\ port' = [port EXCEPT ![s] = call[t].p] /\ UNCHANGED <<table, leaked>>
      BY <1>0, <2>2, Zenon DEF ConnectOk
    <3>2. net' \in [Handles -> NetStates]
      BY <3>1, Zenon DEF TTyped, NetStates
    <3> QED BY <1>2, <3>1, <3>2, Zenon DEF TTyped
  <2>3. ASSUME NEW h \in Handles, ConnectFails(t, h) PROVE <1>3!:
    <3>1. /\ net' = [net EXCEPT ![h] = IF @ = "free" THEN "Closed" ELSE @]
          /\ leaked' = leaked \/ leaked' = leaked \cup {h}
          /\ UNCHANGED <<handle, port, table>>
      BY <2>3, Zenon DEF ConnectFails
    <3>2. net' \in [Handles -> NetStates]
      BY <3>1, Zenon DEF TTyped, NetStates
    <3> QED BY <3>1, <3>2, Zenon DEF TTyped
  <2>4. ASSUME NEW p \in Ports \cup {0}, Bind(t, p) PROVE <1>3!:
    <3>1. port' = [port EXCEPT ![s] = IF @ = 0 THEN p ELSE @] /\ UNCHANGED <<handle, net, table, leaked>>
      BY <1>0, <2>4, Zenon DEF Bind
    <3> QED BY <3>1, Zenon DEF TTyped
  <2>5. CASE Listen(t)
    <3>1. PICK none : none = <<>>
      BY Zenon
    <3>2. none \in Seq(Handles)
      BY <3>1
    <3>3. table' = [table EXCEPT ![call[t].p] = IF @ = None THEN none ELSE @] /\ UNCHANGED <<handle, port, net, leaked>>
      BY <2>5, <3>1, Zenon DEF Listen
    <3> QED BY <3>2, <3>3, Zenon DEF TTyped
  <2>6. CASE ListenNoPort(t)
    BY <2>6, Zenon DEF ListenNoPort, TTyped
  <2>7. CASE Close(t)
    <3>1. /\ net' = [net EXCEPT ![handle[s]] = Closed(@)]
          /\ port' = [port EXCEPT ![s] = 0] /\ UNCHANGED <<handle, table, leaked>>
      BY <1>0, <2>7, Zenon DEF Close
    <3>2. \A st \in NetStates : Closed(st) \in NetStates
      BY Zenon DEF Closed, NetStates
    <3>3. net' \in [Handles -> NetStates]
      BY <3>1, <3>2, Zenon DEF TTyped
    <3> QED BY <3>1, <3>3, Zenon DEF TTyped
  <2>8. CASE Unlisten(t)
    BY <1>0, <2>8, Zenon DEF Unlisten, TTyped
  <2>9. CASE UnlistenTable(t)
    BY <2>9, Zenon DEF UnlistenTable, DropEntry, TTyped, NetStates
  <2> QED BY <2>1, <2>2, <2>3, <2>4, <2>5, <2>6, <2>7, <2>8, <2>9, Zenon DEF Closure
<1> QED BY <1>1, <1>3, Zenon DEF TTyped

LEMMA NextTTyped == TInv /\ [Next]_vars => TTyped'
<1> SUFFICES ASSUME TInv, [Next]_vars PROVE TTyped'
  BY Zenon
<1>0. TTyped
  BY Zenon DEF TInv
<1>1. CASE \E s \in Sockets : New(s)
  BY <1>0, <1>1, Zenon DEF New, TTyped, States
<1>2. CASE \E s \in Sockets : Drop(s)
  <2>1. PICK s \in Sockets : Drop(s)
    BY <1>2, Zenon
  <2>2. /\ state' = [state EXCEPT ![s] = "unused"] /\ handle' = [handle EXCEPT ![s] = None]
        /\ port' = [port EXCEPT ![s] = 0] /\ UNCHANGED <<call, seen, stale, leaked>>
    BY <2>1, Zenon DEF Drop
  <2>3. net' \in [Handles -> NetStates] /\ table' \in [Ports -> {None} \cup Seq(Handles)]
    BY <1>0, <2>1, Zenon DEF Drop, TTyped, NetStates
  <2> QED BY <1>0, <2>2, <2>3, Zenon DEF TTyped, States
<1>3. ASSUME NEW t \in Threads, NEW s \in Sockets, NEW op \in BusyOps, Enter(t, s, op) PROVE TTyped'
  <2>1. /\ state' = [state EXCEPT ![s] = "BUSY"] /\ Goto(t, op, s, 0)
        /\ UNCHANGED <<handle, port, net, table, seen, stale, leaked>>
    BY <1>3, Zenon DEF Enter
  <2>2. op \in CallOps
    BY Zenon DEF CallOps, ClosureOps
  <2>3. PICK c \in CallType : Becomes(t, c)
    BY <2>1, <2>2, GotoFacts0
  <2>4. call' \in [Threads -> {Idle} \cup CallType]
    BY <1>0, <2>3, CallSet, Zenon
  <2> QED BY <1>0, <2>1, <2>4, Zenon DEF TTyped, States
<1>4. ASSUME NEW t \in Threads, NEW s \in Sockets,
             PollStart(t, s) \/ StreamStart(t, s) \/ AcceptStart(t, s)
      PROVE TTyped'
  <2>1. PICK c \in CallType : Becomes(t, c)
    BY <1>0, <1>4, StartFacts, Zenon
  <2>2. call' \in [Threads -> {Idle} \cup CallType]
    BY <1>0, <2>1, CallSet, Zenon
  <2> QED BY <1>0, <1>4, <2>2, StartFacts, Zenon DEF TTyped
<1>5. ASSUME NEW t \in Threads, NEW s \in Sockets, AcceptTake(t, s) PROVE TTyped'
  <2>1. CASE UNCHANGED <<state, handle, port, table, call, seen>>
    BY <1>0, <1>5, <2>1, AcceptFacts, Zenon DEF TTyped
  <2>2. CASE ~ UNCHANGED <<state, handle, port, table, call, seen>>
    <3>1. PICK p, k : Taken(t, s, p, k)
      BY <1>5, <2>2, AcceptFacts, Zenon
    <3>2. UNCHANGED <<net, stale, leaked>>
      BY <1>5, AcceptFacts, Zenon
    <3>3. /\ p \in Ports /\ k \in DOMAIN table[p] /\ table[p] \in Seq(Handles) /\ table[p][k] \in Handles
          /\ state' = [state EXCEPT ![s] = "CONNECTED"] /\ Becomes(t, Idle) /\ seen' = [seen EXCEPT ![t] = {}]
          /\ handle' = [handle EXCEPT ![s] = table[p][k]]
          /\ port' = [port EXCEPT ![s] = p]
          /\ table' = [table EXCEPT ![p] = SwapRemoveFront(table[p], k)]
      BY <3>1, Zenon DEF Taken
    <3>4. SwapRemoveFront(table[p], k) \in Seq(Handles)
      BY <3>3, SwapRemoved, Zenon
    <3>5. table' \in [Ports -> {None} \cup Seq(Handles)]
      BY <1>0, <3>3, <3>4, Zenon DEF TTyped
    <3>6. call' \in [Threads -> {Idle} \cup CallType]
      BY <1>0, <3>3, CallSet, Zenon
    <3> QED BY <1>0, <3>2, <3>3, <3>5, <3>6, Zenon DEF TTyped, States
  <2> QED BY <2>1, <2>2, Zenon
<1>6. ASSUME NEW t \in Threads, PollConnect(t) PROVE TTyped'
  <2>1. PICK s \in Sockets : s = call[t].s
    BY <1>0, <1>6, CallFacts, Zenon DEF PollConnect, In
  <2>2. /\ \E v \in {state[s], "CONNECTED", "CLOSED"} : state' = [state EXCEPT ![s] = v]
        /\ \E v \in {port[s], 0} : port' = [port EXCEPT ![s] = v]
        /\ stale' \in {stale, stale \cup {s}}
        /\ Becomes(t, Idle) /\ UNCHANGED <<handle, net, table, seen, leaked>>
    BY <1>6, <2>1, Zenon DEF PollConnect, Return, Becomes
  <2>3. call' \in [Threads -> {Idle} \cup CallType]
    BY <1>0, <2>2, CallSet, Zenon
  <2>4. state' \in [Sockets -> States] /\ port' \in [Sockets -> Ports \cup {0}]
    <3>1. state[s] \in States /\ port[s] \in Ports \cup {0}
      BY <1>0, <2>1, Zenon DEF TTyped
    <3>2. PICK v \in States : state' = [state EXCEPT ![s] = v]
      BY <2>2, <3>1, Zenon DEF States
    <3>3. PICK w \in Ports \cup {0} : port' = [port EXCEPT ![s] = w]
      BY <2>2, <3>1, Zenon
    <3> QED BY <1>0, <3>2, <3>3, Zenon DEF TTyped
  <2>5. stale' \in SUBSET Sockets
    BY <1>0, <2>1, <2>2, Zenon DEF TTyped
  <2> QED BY <1>0, <2>2, <2>3, <2>4, <2>5, Zenon DEF TTyped
<1>7. ASSUME NEW t \in Threads, StreamEnd(t) PROVE TTyped'
  <2>1. Becomes(t, Idle) /\ UNCHANGED <<state, handle, port, net, table, seen, stale, leaked>>
    BY <1>7, Zenon DEF StreamEnd, Return, Becomes
  <2>2. call' \in [Threads -> {Idle} \cup CallType]
    BY <1>0, <2>1, CallSet, Zenon
  <2> QED BY <1>0, <2>1, <2>2, Zenon DEF TTyped
<1>8. ASSUME NEW t \in Threads, Accept(t) PROVE TTyped'
  <2>1. PICK c \in {Idle} \cup CallType : Becomes(t, c)
    BY <1>0, <1>8, AcceptSteps, Zenon
  <2>2. call' \in [Threads -> {Idle} \cup CallType]
    BY <1>0, <2>1, CallSet, Zenon
  <2> QED BY <1>0, <1>8, <2>2, AcceptSteps, Zenon DEF TTyped
<1>9. ASSUME NEW t \in Threads, Store(t) PROVE TTyped'
  <2>1. PICK c \in {Idle} \cup CallType : Becomes(t, c)
    BY <1>0, <1>9, StoreFacts, Zenon
  <2>2. call' \in [Threads -> {Idle} \cup CallType]
    BY <1>0, <2>1, CallSet, Zenon
  <2>3. state' \in [Sockets -> States]
    <3>1. PICK s \in Sockets, v \in NewStates : state' = [state EXCEPT ![s] = v]
      BY <1>0, <1>9, StoreFacts, Zenon
    <3> QED BY <1>0, <3>1, Zenon DEF TTyped, States, NewStates
  <2> QED BY <1>0, <1>9, <2>2, <2>3, StoreFacts, Zenon DEF TTyped
<1>10. ASSUME NEW p \in Ports, NEW h \in Handles, NEW taker \in Handles \cup {None}, Incoming(p, h, taker)
       PROVE  TTyped'
  <2>1. /\ table[p] \in Seq(Handles) /\ table' = [table EXCEPT ![p] = Append(table[p], h)]
        /\ net' = [g \in Handles |-> IF g = taker THEN "SynReceived" ELSE IF g = h THEN "Listen" ELSE net[g]]
        /\ UNCHANGED <<state, handle, port, call, seen, stale, leaked>>
    BY <1>0, <1>10, Zenon DEF Incoming, TTyped
  <2>2. Append(table[p], h) \in Seq(Handles)
    BY <2>1
  <2> QED BY <1>0, <2>1, <2>2, Zenon DEF TTyped, NetStates
<1>11. ASSUME NEW h \in Handles, NEW st \in {"Established", "Listen", "Closing", "Closed"}, Packet(h, st)
       PROVE  TTyped'
  BY <1>0, <1>11, Zenon DEF Packet, TTyped, NetStates
<1>12. CASE UNCHANGED vars
  BY <1>0, <1>12, Zenon DEF vars, TTyped
<1> QED BY <1>0, <1>1, <1>2, <1>3, <1>4, <1>5, <1>6, <1>7, <1>8, <1>9, <1>10, <1>11, <1>12, ClosureTTyped, Zenon DEF Next

\* A step that begins, moves and ends no scan, leaves the locked entries alone,
\* and after which whatever was connected still is.
Quiet ==
  /\ UNCHANGED seen
  /\ \A u \in Threads : Scanning(u) \/ Scanning(u)' => call'[u] = call[u]
  /\ \A p \in Ports : Locked(p) => table'[p] = table[p]
  /\ \A h \in Handles : net[h] # "free" /\ IsConnected(h) => IsConnected(h)'

LEMMA QuietCall ==
  ASSUME TTyped, NEW t \in Threads, NEW c, Becomes(t, c), ~ Scanning(t), c.op \notin {"scan", "take"}
  PROVE  \A u \in Threads : Scanning(u) \/ Scanning(u)' => call'[u] = call[u]
<1>1. call'[t] = c /\ \A u \in Threads : u # t => call'[u] = call[u]
  BY CallSet, Zenon
<1> QED BY <1>1, Zenon DEF Scanning

LEMMA ClosureQuiet ==
  ASSUME TTyped, NEW t \in Threads, Closure(t)
  PROVE  Quiet
<1>1. UNCHANGED seen
  BY ClosureFacts, Zenon
<1>2. \A u \in Threads : Scanning(u) \/ Scanning(u)' => call'[u] = call[u]
  <2>1. PICK c \in CallType : Becomes(t, c) /\ c.op \in {"dial", "table", "drop"} \cup NewStates
    BY ClosureFacts, Zenon
  <2>2. ~ Scanning(t) /\ c.op \notin {"scan", "take"}
    BY <2>1, ClosureFacts, Zenon DEF Scanning, ClosureOps, BusyOps, NewStates
  <2> QED BY <2>1, <2>2, QuietCall, Zenon
<1>3. \A p \in Ports : Locked(p) => table'[p] = table[p]
  <2>1. CASE Listen(t)
    <3>1. PICK none : none = <<>>
      BY Zenon
    <3>2. ~ Locked(call[t].p) /\ table' = [table EXCEPT ![call[t].p] = IF @ = None THEN none ELSE @]
      BY <2>1, <3>1, Zenon DEF Listen
    <3> QED BY <3>2, Zenon DEF TTyped
  <2>2. CASE UnlistenTable(t)
    BY <2>2, Zenon DEF UnlistenTable, DropEntry
  <2>3. CASE ~ Listen(t) /\ ~ UnlistenTable(t)
    BY <2>3, Zenon DEF Closure, BoundEndpoint, ConnectOk, ConnectFails, Bind, ListenNoPort, Close, Unlisten
  <2> QED BY <2>1, <2>2, <2>3, Zenon
<1>4. \A h \in Handles : net[h] # "free" /\ IsConnected(h) => IsConnected(h)'
  <2>1. ASSUME NEW h \in Handles, ConnectOk(t, h) PROVE <1>4!:
    <3>1. net' = [net EXCEPT ![h] = "SynSent"]
      BY <2>1, Zenon DEF ConnectOk
    <3> QED BY <3>1, Zenon DEF TTyped, IsConnected
  <2>2. ASSUME NEW h \in Handles, ConnectFails(t, h) PROVE <1>4!:
    <3>1. net' = [net EXCEPT ![h] = IF @ = "free" THEN "Closed" ELSE @]
      BY <2>2, Zenon DEF ConnectFails
    <3> QED BY <3>1, Zenon DEF TTyped, IsConnected
  <2>3. CASE Close(t)
    <3>1. PICK g : net' = [net EXCEPT ![g] = Closed(@)]
      BY <2>3, Zenon DEF Close
    <3>2. \A st : st \notin {"Listen", "SynReceived"} => Closed(st) \notin {"Listen", "SynReceived"}
      BY Zenon DEF Closed
    <3> QED BY <3>1, <3>2, Zenon DEF TTyped, IsConnected
  <2>4. CASE UnlistenTable(t)
    BY <2>4, Zenon DEF UnlistenTable, DropEntry, IsConnected
  <2>5. CASE UNCHANGED net
    BY <2>5, Zenon DEF IsConnected
  <2> QED BY <2>1, <2>2, <2>3, <2>4, <2>5, Zenon DEF Closure, BoundEndpoint, Bind, Listen, ListenNoPort, Unlisten
<1> QED BY <1>1, <1>2, <1>3, <1>4, Zenon DEF Quiet

\* Only accept itself begins, moves or ends a scan.
LEMMA QuietOrAccept ==
  ASSUME TTyped, [Next]_vars
  PROVE  \/ Quiet
         \/ \E t \in Threads : AcceptLock(t) \/ AcceptScan(t) \/ AcceptNothing(t)
         \/ \E t \in Threads, s \in Sockets : AcceptTake(t, s)
<1>n. UNCHANGED net => \A h \in Handles : IsConnected(h) => IsConnected(h)'
  BY Zenon DEF IsConnected
<1>c. UNCHANGED call => \A u \in Threads : Scanning(u) \/ Scanning(u)' => call'[u] = call[u]
  BY Zenon
<1>1. CASE \E s \in Sockets : New(s)
  BY <1>n, <1>c, <1>1, Zenon DEF New, Quiet
<1>2. CASE \E s \in Sockets : Drop(s)
  <2>1. PICK s \in Sockets : Drop(s)
    BY <1>2, Zenon
  <2> DEFINE dead == IF handle[s] # None THEN {handle[s]} ELSE {}
             E == IF state[s] = "LISTENING" THEN {port[s]} \cap Ports ELSE {}
             queued == UNION {Range(table[p]) : p \in E \cap Listening}
             F == dead \cup queued
  <2>2. /\ \A p \in E : ~ Locked(p)
        /\ table' = [p \in Ports |-> IF p \in E THEN None ELSE table[p]]
        /\ net' = [h \in Handles |-> IF h \in F THEN "free" ELSE net[h]]
        /\ UNCHANGED <<call, seen>>
    BY <2>1, Zenon DEF Drop
  <2> HIDE DEF E, F
  <2>3. \A h \in Handles : IsConnected(h) => IsConnected(h)'
    BY <2>2, Zenon DEF IsConnected
  <2>4. \A p \in Ports : Locked(p) => table'[p] = table[p]
    BY <2>2, Zenon
  <2> QED BY <1>c, <2>2, <2>3, <2>4, Zenon DEF Quiet
<1>3. ASSUME NEW t \in Threads, NEW c, Becomes(t, c), ~ Scanning(t), c.op \notin {"scan", "take"},
             UNCHANGED <<net, table, seen>>
      PROVE  Quiet
  BY <1>n, <1>3, QuietCall, Zenon DEF Quiet
<1>i. \A t \in Threads : call[t] = Idle => ~ Scanning(t)
  BY IdleIs, Zenon DEF Scanning
<1>4. ASSUME NEW t \in Threads, NEW s \in Sockets, NEW op \in BusyOps, Enter(t, s, op) PROVE Quiet
  <2>1. Goto(t, op, s, 0) /\ call[t] = Idle /\ UNCHANGED <<net, table, seen>>
    BY <1>4, Zenon DEF Enter, IsIdle
  <2>2. op \in CallOps /\ op \notin {"scan", "take"}
    BY Zenon DEF CallOps, ClosureOps, BusyOps
  <2>3. PICK c \in CallType : Becomes(t, c) /\ c.op = op
    BY <2>1, <2>2, GotoFacts0
  <2> QED BY <1>3, <1>i, <2>1, <2>2, <2>3, Zenon
<1>5. ASSUME NEW t \in Threads, NEW s \in Sockets, PollStart(t, s) \/ StreamStart(t, s) \/ AcceptStart(t, s) PROVE Quiet
  <2>1. PICK c \in CallType : Becomes(t, c) /\ c.op \in {"poll", "stream", "accept"}
    BY <1>5, StartFacts, Zenon
  <2>2. c.op \notin {"scan", "take"}
    BY <2>1, Zenon
  <2> QED BY <1>3, <1>i, <1>5, <2>1, <2>2, StartFacts, Zenon
<1>6. ASSUME NEW t \in Threads, PollConnect(t) \/ StreamEnd(t) PROVE Quiet
  <2>1. Becomes(t, Idle) /\ ~ Scanning(t) /\ UNCHANGED <<net, table, seen>>
    BY <1>6, Zenon DEF PollConnect, StreamEnd, In, Return, Becomes, Scanning
  <2> QED BY <1>3, <2>1, IdleIs, Zenon
<1>7. ASSUME NEW t \in Threads, Store(t) PROVE Quiet
  <2>1. PICK c : Becomes(t, c) /\ c.op \in {"idle", "poll"}
    BY <1>7, StoreFacts, Zenon
  <2>2. c.op \notin {"scan", "take"} /\ ~ Scanning(t)
    BY <1>7, <2>1, Zenon DEF Store, NewStates, Scanning
  <2> QED BY <1>3, <1>7, <2>1, <2>2, StoreFacts, Zenon
<1>8. ASSUME NEW t \in Threads, AcceptPort(t) PROVE Quiet
  <2>0. Accept(t) /\ call[t].op = "accept" /\ UNCHANGED <<net, table, seen>>
    BY <1>8, Zenon DEF Accept, AcceptPort, In
  <2>1. Goto(t, "queue", call[t].s, port[call[t].s]) /\ call[t].s \in Sockets /\ "queue" \in CallOps
    BY <1>8, <2>0, AcceptSteps, Zenon DEF AcceptPort, CallOps
  <2>2. port[call[t].s] \in Ports \cup {0}
    BY <2>1, Zenon DEF TTyped
  <2>3. PICK c : Becomes(t, c) /\ c.op = "queue"
    BY <2>1, <2>2, GotoFacts0
  <2> QED BY <1>3, <2>0, <2>3, Zenon DEF Scanning
<1>9. ASSUME NEW p \in Ports, NEW h \in Handles, NEW taker \in Handles \cup {None}, Incoming(p, h, taker) PROVE Quiet
  <2>1. /\ ~ Locked(p) /\ h \in Free /\ taker \in {h, None} \cup {g \in Range(table[p]) : net[g] = "Listen"}
        /\ table' = [table EXCEPT ![p] = Append(@, h)]
        /\ net' = [g \in Handles |-> IF g = taker THEN "SynReceived" ELSE IF g = h THEN "Listen" ELSE net[g]]
        /\ UNCHANGED <<call, seen>>
    BY <1>9, Zenon DEF Incoming
  <2>2. \A q \in Ports : Locked(q) => table'[q] = table[q]
    BY <2>1, Zenon DEF TTyped
  <2>3. ASSUME NEW g \in Handles, net[g] # "free", IsConnected(g) PROVE IsConnected(g)'
    <3>1. g # h /\ g # taker
      BY <2>1, <2>3, NoneAssumption, Zenon DEF Free, IsConnected
    <3> QED BY <2>1, <2>3, <3>1, Zenon DEF IsConnected
  <2> QED BY <1>c, <2>1, <2>2, <2>3, Zenon DEF Quiet
<1>10. ASSUME NEW h \in Handles, NEW st \in {"Established", "Listen", "Closing", "Closed"}, Packet(h, st) PROVE Quiet
  <2>1. st \in Moves(net[h]) /\ net' = [net EXCEPT ![h] = st] /\ UNCHANGED <<table, call, seen>>
    BY <1>10, Zenon DEF Packet
  <2>2. IsConnected(h) => st \notin {"Listen", "SynReceived"}
    BY <2>1, Zenon DEF Moves, IsConnected
  <2>3. \A g \in Handles : IsConnected(g) => IsConnected(g)'
    BY <2>1, <2>2, Zenon DEF TTyped, IsConnected
  <2> QED BY <1>c, <2>1, <2>3, Zenon DEF Quiet
<1>11. CASE UNCHANGED vars
  BY <1>n, <1>c, <1>11, Zenon DEF vars, Quiet
<1> QED BY <1>1, <1>2, <1>4, <1>5, <1>6, <1>7, <1>8, <1>9, <1>10, <1>11, ClosureQuiet, Zenon DEF Next, Accept

LEMMA NextTInv == TInv /\ [Next]_vars => TInv'
<1> SUFFICES ASSUME TInv, [Next]_vars PROVE Locking'
  BY NextTTyped, Zenon DEF TInv
<1>0. TTyped /\ Locking
  BY Zenon DEF TInv
<1>1. CASE Quiet
  <2>1. \A u \in Threads : Scanning(u)' =>
          Scanning(u) /\ call'[u] = call[u] /\ call[u].p \in Ports /\ table'[call[u].p] = table[call[u].p]
    <3> SUFFICES ASSUME NEW u \in Threads, Scanning(u)'
                 PROVE  Scanning(u) /\ call'[u] = call[u] /\ call[u].p \in Ports /\ table'[call[u].p] = table[call[u].p]
      BY Zenon
    <3>1. call'[u] = call[u] /\ Scanning(u)
      BY <1>1, Zenon DEF Quiet, Scanning
    <3>2. call[u].p \in Ports /\ Locked(call[u].p)
      BY <1>0, <3>1, Zenon DEF Locking, Scanning, Locked
    <3> QED BY <1>1, <3>1, <3>2, Zenon DEF Quiet
  <2>2. \A u \in Threads : call'[u].op = "take" => Scanning(u)'
    BY Zenon DEF Scanning
  <2> QED BY <1>0, <2>1, <2>2, Zenon DEF Locking
<1>2. ASSUME NEW t \in Threads, AcceptLock(t) \/ AcceptScan(t) \/ AcceptNothing(t) PROVE Locking'
  <2>0. Accept(t) /\ UNCHANGED table
    BY <1>2, Zenon DEF Accept, AcceptLock, AcceptScan, AcceptNothing
  <2>1. PICK c \in {Idle} \cup CallType : Becomes(t, c)
    BY <1>0, <2>0, AcceptSteps, Zenon
  <2>2. call'[t] = c /\ \A u \in Threads : u # t => call'[u] = call[u]
    BY <1>0, <2>1, CallSet, Zenon
  <2>3. ASSUME Scanning(t)'
        PROVE  /\ call'[t].p \in Ports /\ table[call'[t].p] # None
               /\ call'[t].op = "take" => call'[t].k \in DOMAIN table[call'[t].p]
               /\ \A u \in Threads : Scanning(u) /\ call[u].p = call'[t].p => u = t
    <3>s. call[t].s \in Sockets /\ call[t].p \in Ports \cup {0} /\ call[t].k \in Nat /\ call[t].k + 1 \in Nat /\ 1 \in Nat /\ 0 \in Nat
      <4>1. call[t].s \in Sockets /\ call[t].p \in Ports \cup {0} /\ call[t].k \in Nat
        BY <1>0, <2>0, AcceptSteps, CallFacts, Zenon
      <4> QED BY <4>1
    <3>o. "scan" \in CallOps /\ "take" \in CallOps /\ "queue" \in CallOps
      BY Zenon DEF CallOps
    <3>1. CASE AcceptLock(t)
      <4>1. ~ Return(t)
        BY <1>0, <2>3, CallSet, IdleIs, Zenon DEF Return, Becomes, Scanning
      <4>2. ~ Locked(call[t].p) /\ call[t].p \in Listening /\ GotoAt(t, "scan", call[t].s, call[t].p, 1)
        BY <3>1, <4>1, Zenon DEF AcceptLock
      <4>3. PICK d \in CallType : Becomes(t, d) /\ d.op = "scan" /\ d.p = call[t].p
        BY <3>s, <3>o, <4>2, GotoFacts
      <4>4. call'[t] = d /\ "scan" # "take"
        BY <1>0, <4>3, CallSet, Zenon
      <4>5. \A u \in Threads : Scanning(u) => call[u].p # call[t].p
        BY <4>2, Zenon DEF Locked, Scanning
      <4> QED BY <4>2, <4>3, <4>4, <4>5, Zenon DEF Listening
    <3>2. CASE AcceptScan(t)
      <4>0. call[t].op = "scan" /\ Scanning(t) /\ call[t].k \in DOMAIN table[call[t].p]
        BY <3>2, Zenon DEF AcceptScan, In, Scanning
      <4>1. \/ GotoAt(t, "take", call[t].s, call[t].p, call[t].k)
            \/ GotoAt(t, "scan", call[t].s, call[t].p, call[t].k + 1)
        BY <3>2, Zenon DEF AcceptScan
      <4>2. \E d : Becomes(t, d) /\ d.p = call[t].p /\ (d.op = "take" => d.k = call[t].k)
        <5>1. CASE GotoAt(t, "take", call[t].s, call[t].p, call[t].k)
          BY <3>s, <3>o, <5>1, GotoFacts
        <5>2. CASE GotoAt(t, "scan", call[t].s, call[t].p, call[t].k + 1)
          <6>1. PICK d \in CallType : Becomes(t, d) /\ d.op = "scan" /\ d.p = call[t].p
            BY <3>s, <3>o, <5>2, GotoFacts
          <6> QED BY <6>1, Zenon
        <5> QED BY <4>1, <5>1, <5>2, Zenon
      <4>3. PICK d : Becomes(t, d) /\ d.p = call[t].p /\ (d.op = "take" => d.k = call[t].k)
        BY <4>2, Zenon
      <4>4. call'[t] = d
        BY <1>0, <4>3, CallSet, Zenon
      <4> QED BY <1>0, <4>0, <4>3, <4>4, Zenon DEF Locking
    <3>3. CASE AcceptNothing(t)
      <4>1. Return(t) \/ Goto(t, "queue", call[t].s, call[t].p)
        BY <3>3, Zenon DEF AcceptNothing
      <4>2. CASE Return(t)
        BY <1>0, <2>3, <4>2, CallSet, IdleIs, Zenon DEF Return, Becomes, Scanning
      <4>3. CASE Goto(t, "queue", call[t].s, call[t].p)
        <5>1. PICK d \in CallType : Becomes(t, d) /\ d.op = "queue"
          BY <3>s, <3>o, <4>3, GotoFacts0
        <5> QED BY <1>0, <2>3, <5>1, CallSet, Zenon DEF Scanning
      <4> QED BY <4>1, <4>2, <4>3, Zenon
    <3> QED BY <1>2, <3>1, <3>2, <3>3, Zenon
  <2>4. \A u \in Threads : u # t => (Scanning(u)' <=> Scanning(u))
    BY <2>2, Zenon DEF Scanning
  <2>5. \A u \in Threads : call'[u].op = "take" => Scanning(u)'
    BY Zenon DEF Scanning
  <2>6. \A u \in Threads : Scanning(u)' => call'[u].p \in Ports /\ table[call'[u].p] # None
    BY <1>0, <2>2, <2>3, <2>4, Zenon DEF Locking
  <2>7. \A u \in Threads : call'[u].op = "take" => call'[u].k \in DOMAIN table[call'[u].p]
    BY <1>0, <2>2, <2>3, <2>5, Zenon DEF Locking
  <2>8. ASSUME NEW u \in Threads, NEW v \in Threads, Scanning(u)', Scanning(v)', call'[u].p = call'[v].p PROVE u = v
    BY <1>0, <2>2, <2>3, <2>4, <2>8, Zenon DEF Locking
  <2> QED BY <2>0, <2>6, <2>7, <2>8, Zenon DEF Locking
<1>3. ASSUME NEW t \in Threads, NEW s \in Sockets, AcceptTake(t, s) PROVE Locking'
  <2>1. CASE UNCHANGED <<state, handle, port, table, call, seen>>
    BY <1>0, <2>1, Zenon DEF Locking, Scanning
  <2>2. CASE ~ UNCHANGED <<state, handle, port, table, call, seen>>
    <3>0. PICK q, k : Taken(t, s, q, k)
      BY <1>3, <2>2, AcceptFacts, Zenon
    <3>1. Becomes(t, Idle) /\ call[t].op = "take"
      BY <1>3, <3>0, AcceptFacts, Zenon DEF Taken
    <3>2. PICK p, r : p = call[t].p /\ table' = [table EXCEPT ![p] = r]
      BY <3>0, Zenon DEF Taken
    <3>3. call'[t] = Idle /\ \A u \in Threads : u # t => call'[u] = call[u]
      BY <1>0, <3>1, CallSet, Zenon
    <3>4. ASSUME NEW u \in Threads, Scanning(u)'
          PROVE  Scanning(u) /\ call'[u] = call[u] /\ call[u].p \in Ports /\ table'[call[u].p] = table[call[u].p]
      <4>1. u # t
        BY <3>3, <3>4, IdleIs, Zenon DEF Scanning
      <4>2. Scanning(u) /\ call'[u] = call[u]
        BY <3>3, <3>4, <4>1, Zenon DEF Scanning
      <4>3. call[u].p # p /\ call[u].p \in Ports
        BY <1>0, <3>1, <3>2, <4>1, <4>2, Zenon DEF Locking, Scanning
      <4> QED BY <1>0, <3>2, <4>2, <4>3, Zenon DEF TTyped
    <3>5. \A u \in Threads : call'[u].op = "take" => Scanning(u)'
      BY Zenon DEF Scanning
    <3> QED BY <1>0, <3>4, <3>5, Zenon DEF Locking
  <2> QED BY <2>1, <2>2, Zenon
<1> QED BY <1>0, <1>1, <1>2, <1>3, QuietOrAccept, Zenon

-----------------------------------------------------------------------------
(* Tcp: update_state. *)

\* One thread at most is in a closure on s, and the state says so.
Busy(s) ==
  /\ \A t, u \in Threads : InClosure(t, s) /\ InClosure(u, s) => t = u
  /\ state[s] = "BUSY" <=> \E t \in Threads : InClosure(t, s)

UInv == TInv /\ \A s \in Sockets : s \notin stale => Busy(s)

\* A step on which nobody enters or leaves a closure.
LEMMA OutsideBusy ==
  ASSUME UInv, stale \subseteq stale',
         \A u \in Threads, s \in Sockets : InClosure(u, s)' <=> InClosure(u, s),
         \A s \in Sockets : s \notin stale' => (state'[s] = "BUSY" <=> state[s] = "BUSY")
  PROVE  \A s \in Sockets : s \notin stale' => Busy(s)'
<1> SUFFICES ASSUME NEW s \in Sockets, s \notin stale' PROVE Busy(s)'
  BY Zenon
<1>1. Busy(s)
  BY Zenon DEF UInv
<1> QED BY <1>1, Zenon DEF Busy

LEMMA OutsideCall ==
  ASSUME TTyped, NEW t \in Threads, NEW c, Becomes(t, c),
         \/ call[t].op \notin ClosureOps /\ c.op \notin ClosureOps
         \/ call[t].op \in ClosureOps /\ c.op \in ClosureOps /\ c.s = call[t].s
  PROVE  \A u \in Threads, s \in Sockets : InClosure(u, s)' <=> InClosure(u, s)
<1>1. call'[t] = c /\ \A u \in Threads : u # t => call'[u] = call[u]
  BY CallSet, Zenon
<1> QED BY <1>1, Zenon DEF InClosure

LEMMA NextUInv == UInv /\ [Next]_vars => UInv'
<1> SUFFICES ASSUME UInv, [Next]_vars PROVE \A s \in Sockets : s \notin stale' => Busy(s)'
  BY NextTInv, Zenon DEF UInv
<1>0. TInv /\ TTyped /\ state \in [Sockets -> States]
  BY Zenon DEF UInv, TInv, TTyped
<1>u. ASSUME UNCHANGED call PROVE \A u \in Threads, s \in Sockets : InClosure(u, s)' <=> InClosure(u, s)
  BY <1>u, Zenon DEF InClosure
<1>o. \A op \in {"idle", "poll", "stream", "accept", "queue", "scan", "take"} : op \notin ClosureOps
  BY DEF ClosureOps, BusyOps, NewStates
<1>1. CASE \E s \in Sockets : New(s) \/ Drop(s)
  <2>1. PICK s \in Sockets : New(s) \/ Drop(s)
    BY <1>1, Zenon
  <2>2. /\ UNCHANGED <<call, stale>>
        /\ \E v \in {"CLOSED", "unused"} : state' = [state EXCEPT ![s] = v]
    BY <2>1, Zenon DEF New, Drop
  <2>3. s \notin stale => state[s] # "BUSY"
    <3>1. CASE New(s)
      BY <3>1, Zenon DEF New
    <3>2. CASE Drop(s)
      BY <3>2, Zenon DEF Drop, UInv, Busy, InClosure
    <3> QED BY <2>1, <3>1, <3>2, Zenon
  <2>4. \A r \in Sockets : r \notin stale' => (state'[r] = "BUSY" <=> state[r] = "BUSY")
    BY <1>0, <2>2, <2>3, Zenon
  <2> QED BY <1>u, <2>2, <2>4, OutsideBusy, Zenon
<1>2. ASSUME NEW t \in Threads, NEW s \in Sockets, NEW op \in BusyOps, Enter(t, s, op)
      PROVE  \A r \in Sockets : r \notin stale' => Busy(r)'
  <2>1. /\ state[s] = Expect(op) /\ state' = [state EXCEPT ![s] = "BUSY"] /\ UNCHANGED stale
        /\ Goto(t, op, s, 0) /\ call[t] = Idle
    BY <1>2, Zenon DEF Enter, IsIdle
  <2>2. state[s] # "BUSY" /\ call[t].op \notin ClosureOps
    BY <2>1, IdleIs, Zenon DEF Expect, BusyOps
  <2>c. op \in CallOps /\ op \in ClosureOps
    BY Zenon DEF CallOps, ClosureOps
  <2>d. PICK c \in CallType : Becomes(t, c) /\ c.op = op /\ c.s = s
    BY <2>1, <2>c, GotoFacts0
  <2>3. /\ call'[t].op = op /\ call'[t].s = s /\ \A u \in Threads : u # t => call'[u] = call[u]
        /\ state'[s] = "BUSY" /\ \A r \in Sockets : r # s => state'[r] = state[r]
    BY <1>0, <2>1, <2>d, CallSet, Zenon
  <2>4. ASSUME NEW r \in Sockets, r \notin stale' PROVE Busy(r)'
    <3>1. Busy(r)
      BY <2>1, <2>4, Zenon DEF UInv
    <3>2. \A u \in Threads : InClosure(u, r)' <=> InClosure(u, r) \/ (u = t /\ r = s)
      BY <2>2, <2>c, <2>3, Zenon DEF InClosure
    <3> QED BY <2>2, <2>3, <3>1, <3>2, Zenon DEF Busy
  <2> QED BY <2>4, Zenon
<1>3. ASSUME NEW t \in Threads, Closure(t)
      PROVE  \A r \in Sockets : r \notin stale' => Busy(r)'
  <2>1. PICK c \in CallType : Becomes(t, c) /\ c.s = call[t].s /\ c.op \in {"dial", "table", "drop"} \cup NewStates
    BY <1>0, <1>3, ClosureFacts, Zenon
  <2>2. call[t].op \in ClosureOps /\ c.op \in ClosureOps /\ UNCHANGED <<state, stale>>
    BY <1>0, <1>3, <2>1, ClosureFacts, Zenon DEF ClosureOps
  <2>3. \A u \in Threads, r \in Sockets : InClosure(u, r)' <=> InClosure(u, r)
    BY <1>0, <2>1, <2>2, OutsideCall, Zenon
  <2> QED BY <2>2, <2>3, OutsideBusy, Zenon
<1>4. ASSUME NEW t \in Threads, Store(t)
      PROVE  \A r \in Sockets : r \notin stale' => Busy(r)'
  <2>0. PICK s \in Sockets : s = call[t].s
    BY <1>0, <1>4, StoreFacts, Zenon
  <2>1. /\ call[t].op \in ClosureOps /\ UNCHANGED stale
        /\ \E v \in NewStates : state' = [state EXCEPT ![s] = v]
    BY <1>0, <1>4, <2>0, StoreFacts, Zenon
  <2>c. PICK c : Becomes(t, c) /\ c.op \in {"idle", "poll"}
    BY <1>0, <1>4, StoreFacts, Zenon
  <2>2. InClosure(t, s)
    BY <2>0, <2>1, Zenon DEF InClosure
  <2>v. PICK v \in NewStates : state' = [state EXCEPT ![s] = v]
    BY <2>1, Zenon
  <2>w. state'[s] # "BUSY" /\ \A r \in Sockets : r # s => state'[r] = state[r]
    BY <1>0, <2>v, Zenon DEF NewStates
  <2>3. /\ call'[t].op \notin ClosureOps /\ \A u \in Threads : u # t => call'[u] = call[u]
        /\ state'[s] # "BUSY" /\ \A r \in Sockets : r # s => state'[r] = state[r]
    <3>1. call'[t] = c /\ \A u \in Threads : u # t => call'[u] = call[u]
      BY <1>0, <2>c, CallSet, Zenon
    <3>2. c.op \notin ClosureOps
      BY <1>o, <2>c, Zenon
    <3> QED BY <2>w, <3>1, <3>2, Zenon
  <2>4. ASSUME NEW r \in Sockets, r \notin stale' PROVE Busy(r)'
    <3>1. Busy(r)
      BY <2>1, <2>4, Zenon DEF UInv
    <3>2. \A u \in Threads : InClosure(u, r)' <=> InClosure(u, r) /\ u # t
      BY <2>3, Zenon DEF InClosure
    <3>3. r # s => ~ InClosure(t, r)
      BY <2>2, Zenon DEF InClosure
    <3> QED BY <2>2, <2>3, <3>1, <3>2, <3>3, Zenon DEF Busy
  <2> QED BY <2>4, Zenon
<1>5. ASSUME NEW t \in Threads, NEW s \in Sockets, PollStart(t, s) \/ StreamStart(t, s) \/ AcceptStart(t, s)
      PROVE  \A r \in Sockets : r \notin stale' => Busy(r)'
  <2>1. PICK c : Becomes(t, c) /\ c.op \in {"poll", "stream", "accept"}
    BY <1>0, <1>5, StartFacts, Zenon
  <2>2. call[t].op \notin ClosureOps /\ c.op \notin ClosureOps /\ UNCHANGED <<state, stale>>
    BY <1>0, <1>o, <1>5, <2>1, IdleIs, StartFacts, Zenon
  <2>3. \A u \in Threads, r \in Sockets : InClosure(u, r)' <=> InClosure(u, r)
    BY <1>0, <2>1, <2>2, OutsideCall, Zenon
  <2> QED BY <2>2, <2>3, OutsideBusy, Zenon
<1>6. ASSUME NEW t \in Threads, NEW s \in Sockets, AcceptTake(t, s)
      PROVE  \A r \in Sockets : r \notin stale' => Busy(r)'
  <2>1. UNCHANGED stale /\ call[t].op \notin ClosureOps /\ state[s] = "unused"
    BY <1>0, <1>o, <1>6, AcceptFacts, Zenon
  <2>2. UNCHANGED <<state, call>> \/ (Becomes(t, Idle) /\ state' = [state EXCEPT ![s] = "CONNECTED"])
    BY <1>0, <1>6, AcceptFacts, Zenon DEF Taken
  <2>3. \A u \in Threads, r \in Sockets : InClosure(u, r)' <=> InClosure(u, r)
    BY <1>0, <1>u, <2>1, <2>2, IdleIs, OutsideCall, Zenon
  <2>4. \A r \in Sockets : state'[r] = "BUSY" <=> state[r] = "BUSY"
    BY <1>0, <2>1, <2>2, Zenon
  <2> QED BY <2>1, <2>3, <2>4, OutsideBusy, Zenon
<1>7. ASSUME NEW t \in Threads, PollConnect(t)
      PROVE  \A r \in Sockets : r \notin stale' => Busy(r)'
  <2> DEFINE s == call[t].s
             st == net[handle[s]]
  <2>1. s \in Sockets /\ call[t].op = "poll"
    BY <1>0, <1>7, CallFacts, Zenon DEF PollConnect, In
  <2>2. /\ state' = [state EXCEPT ![s] = IF st = "SynSent" THEN @
                                         ELSE IF st = "Established" THEN "CONNECTED" ELSE "CLOSED"]
        /\ stale' = IF st # "SynSent" /\ state[s] # "CONNECTING" THEN stale \cup {s} ELSE stale
        /\ Becomes(t, Idle)
    BY <1>7, Zenon DEF PollConnect, Return, Becomes
  <2> HIDE DEF s, st
  <2>3. \A u \in Threads, r \in Sockets : InClosure(u, r)' <=> InClosure(u, r)
    BY <1>0, <1>o, <2>1, <2>2, IdleIs, OutsideCall, Zenon
  <2>4. \A r \in Sockets : r \notin stale' => (state'[r] = "BUSY" <=> state[r] = "BUSY")
    BY <1>0, <2>1, <2>2, Zenon
  <2>5. stale \subseteq stale'
    BY <2>2, Zenon
  <2> QED BY <2>3, <2>4, <2>5, OutsideBusy, Zenon
<1>8. ASSUME NEW t \in Threads, StreamEnd(t)
      PROVE  \A r \in Sockets : r \notin stale' => Busy(r)'
  <2>1. call[t].op = "stream" /\ Becomes(t, Idle) /\ UNCHANGED <<state, stale>>
    BY <1>8, Zenon DEF StreamEnd, In, Return, Becomes
  <2>2. \A u \in Threads, r \in Sockets : InClosure(u, r)' <=> InClosure(u, r)
    BY <1>0, <1>o, <2>1, IdleIs, OutsideCall, Zenon
  <2> QED BY <2>1, <2>2, OutsideBusy, Zenon
<1>9. ASSUME NEW t \in Threads, Accept(t)
      PROVE  \A r \in Sockets : r \notin stale' => Busy(r)'
  <2>1. PICK c : Becomes(t, c) /\ c.op \in {"idle", "queue", "scan", "take"}
    BY <1>0, <1>9, AcceptSteps, Zenon
  <2>2. call[t].op \notin ClosureOps /\ c.op \notin ClosureOps /\ UNCHANGED <<state, stale>>
    BY <1>0, <1>o, <1>9, <2>1, AcceptSteps, Zenon
  <2>3. \A u \in Threads, r \in Sockets : InClosure(u, r)' <=> InClosure(u, r)
    BY <1>0, <2>1, <2>2, OutsideCall, Zenon
  <2> QED BY <2>2, <2>3, OutsideBusy, Zenon
<1>10. ASSUME UNCHANGED <<state, stale, call>>
       PROVE  \A r \in Sockets : r \notin stale' => Busy(r)'
  BY <1>10, <1>u, OutsideBusy, Zenon
<1>11. CASE (\E p \in Ports, h \in Handles, taker \in Handles \cup {None} : Incoming(p, h, taker))
            \/ (\E h \in Handles, st \in {"Established", "Listen", "Closing", "Closed"} : Packet(h, st))
            \/ UNCHANGED vars
  BY <1>10, <1>11, Zenon DEF Incoming, Packet, vars
<1> QED BY <1>1, <1>2, <1>3, <1>4, <1>5, <1>6, <1>7, <1>8, <1>9, <1>11, Zenon DEF Next

LEMMA InitUInv == Init => UInv
<1> SUFFICES ASSUME Init PROVE \A s \in Sockets : Busy(s)
  BY InitTTyped, Zenon DEF UInv
<1>1. \A t \in Threads, s \in Sockets : ~ InClosure(t, s)
  BY IdleIs, Zenon DEF Init, InClosure
<1> QED BY <1>1, Zenon DEF Busy, Init

\* Two threads are in closures of update_state on one socket only after a late
\* poll_connect has stored a state over BUSY, and until then the state says BUSY
\* as long as a closure runs: for any number of threads and sockets.
THEOREM OneInClosure == Spec => []BusyUntilStored
<1>1. UInv => BusyUntilStored
  BY Zenon DEF UInv, Busy, BusyUntilStored
<1> QED BY <1>1, InitUInv, NextUInv, PTL DEF Spec

-----------------------------------------------------------------------------
(* Tcp: the handles. *)

Live == {h \in Handles : net[h] # "free"}
Queued(p) == IF table[p] = None THEN {} ELSE Range(table[p])

\* What is live and not left behind has one owner, a socket or a queue.
Owned ==
  /\ leaked \subseteq Live
  /\ \A s \in Sockets : handle[s] # None => handle[s] \in Live /\ handle[s] \notin leaked
  /\ \A p \in Ports : Queued(p) \subseteq Live /\ Queued(p) \cap leaked = {}
  /\ \A s, r \in Sockets : handle[s] # None /\ handle[s] = handle[r] => s = r
  /\ \A s \in Sockets, p \in Ports : handle[s] \notin Queued(p)
  /\ \A p, q \in Ports : p # q => Queued(p) \cap Queued(q) = {}
  /\ \A h \in Live : h \in leaked \/ (\E s \in Sockets : handle[s] = h) \/ (\E p \in Ports : h \in Queued(p))

\* No queue holds a handle twice.
Orderly == \A p \in Ports : table[p] # None => Lists(table[p], Queued(p))

\* The calls that have seen, or made, a connection on their socket.
UseOps == {"close", "CONNECTING", "poll", "stream"}

\* What the states and the calls say of the handle.
Used ==
  /\ \A s \in Sockets : state[s] = "unused" => handle[s] = None
  /\ \A s \in Sockets : state[s] \in {"CONNECTING", "CONNECTED"} => handle[s] # None
  /\ \A t \in Threads : call[t].op \in UseOps => handle[call[t].s] # None
  /\ \A t \in Threads : call[t].op # "idle" => state[call[t].s] # "unused"

HInv == TInv /\ Owned /\ Orderly /\ Used

LEMMA LiveIs ==
  ASSUME TTyped, NEW h
  PROVE  /\ h \in Live <=> h \in Handles /\ net[h] # "free"
         /\ h \in Live' <=> h \in Handles /\ net'[h] # "free"
         /\ \A p \in Ports : Queued(p) \in SUBSET Handles
         /\ None \notin Handles /\ None \notin Sockets
<1>1. \A p \in Ports : Queued(p) \in SUBSET Handles
  <2> SUFFICES ASSUME NEW p \in Ports, table[p] # None PROVE Range(table[p]) \in SUBSET Handles
    BY Zenon DEF Queued
  <2>1. table[p] \in Seq(Handles)
    BY Zenon DEF TTyped
  <2> QED BY <2>1 DEF Range
<1> QED BY <1>1, NoneAssumption, Zenon DEF Live

LEMMA OwnedKept ==
  ASSUME Owned, Live' = Live, UNCHANGED <<leaked, handle>>, \A p \in Ports : Queued(p)' = Queued(p)
  PROVE  Owned'
BY DEF Owned

\* A socket takes a handle that is new, or the first of a queue; or connect
\* leaves a new one behind.
LEMMA OwnedAdded ==
  ASSUME TTyped, Owned, NEW s \in Sockets, handle[s] = None, NEW h \in Handles, h \notin Live,
         Live' = Live \cup {h}, \A p \in Ports : Queued(p)' = Queued(p),
         \/ handle' = [handle EXCEPT ![s] = h] /\ leaked' = leaked
         \/ handle' = handle /\ leaked' = leaked \cup {h}
  PROVE  Owned'
<1>1. /\ \A r \in Sockets : handle[r] # h
      /\ \A p \in Ports : h \notin Queued(p) /\ None \notin Queued(p)
      /\ h \notin leaked /\ None \notin Handles
  BY LiveIs, Zenon DEF Owned
<1>2. CASE handle' = [handle EXCEPT ![s] = h] /\ leaked' = leaked
  <2>1. handle'[s] = h /\ \A r \in Sockets : r # s => handle'[r] = handle[r]
    BY <1>2, Zenon DEF TTyped
  <2>2. /\ leaked' \subseteq Live'
        /\ \A r \in Sockets : handle'[r] # None => handle'[r] \in Live' /\ handle'[r] \notin leaked'
        /\ \A p \in Ports : Queued(p)' \subseteq Live' /\ Queued(p)' \cap leaked' = {}
    BY <1>1, <1>2, <2>1 DEF Owned
  <2>3. /\ \A r, q \in Sockets : handle'[r] # None /\ handle'[r] = handle'[q] => r = q
        /\ \A r \in Sockets, p \in Ports : handle'[r] \notin Queued(p)'
        /\ \A p, q \in Ports : p # q => Queued(p)' \cap Queued(q)' = {}
    BY <1>1, <2>1 DEF Owned
  <2>4. \A g \in Live' : g \in leaked' \/ (\E r \in Sockets : handle'[r] = g) \/ (\E p \in Ports : g \in Queued(p)')
    <3> SUFFICES ASSUME NEW g \in Live, g \notin leaked, g # h
                 PROVE  (\E r \in Sockets : handle'[r] = g) \/ (\E p \in Ports : g \in Queued(p)')
      BY <1>2, <2>1, Zenon
    <3>1. (\E r \in Sockets : handle[r] = g) \/ (\E p \in Ports : g \in Queued(p))
      BY Zenon DEF Owned
    <3>2. g # None
      BY <1>1, Zenon DEF Live
    <3> QED BY <2>1, <3>1, <3>2, Zenon
  <2> QED BY <2>2, <2>3, <2>4, Zenon DEF Owned
<1>3. CASE handle' = handle /\ leaked' = leaked \cup {h}
  BY <1>1, <1>3 DEF Owned
<1> QED BY <1>2, <1>3, Zenon

\* A SYN adds a new handle to a queue.
LEMMA OwnedIncoming ==
  ASSUME TTyped, Owned, NEW p \in Ports, NEW h \in Handles, h \notin Live,
         Live' = Live \cup {h}, UNCHANGED <<handle, leaked>>,
         \A q \in Ports : Queued(q)' = IF q = p THEN Queued(p) \cup {h} ELSE Queued(q)
  PROVE  Owned'
<1>1. /\ \A r \in Sockets : handle[r] # h
      /\ \A q \in Ports : h \notin Queued(q)
      /\ h \notin leaked
  BY LiveIs, Zenon DEF Owned
<1>2. /\ leaked' \subseteq Live'
      /\ \A r \in Sockets : handle'[r] # None => handle'[r] \in Live' /\ handle'[r] \notin leaked'
      /\ \A q \in Ports : Queued(q)' \subseteq Live' /\ Queued(q)' \cap leaked' = {}
  BY <1>1 DEF Owned
<1>3. /\ \A r, q \in Sockets : handle'[r] # None /\ handle'[r] = handle'[q] => r = q
      /\ \A r \in Sockets, q \in Ports : handle'[r] \notin Queued(q)'
      /\ \A q, o \in Ports : q # o => Queued(q)' \cap Queued(o)' = {}
  BY <1>1 DEF Owned
<1>4. \A g \in Live' : g \in leaked' \/ (\E r \in Sockets : handle'[r] = g) \/ (\E q \in Ports : g \in Queued(q)')
  BY DEF Owned
<1> QED BY <1>2, <1>3, <1>4, Zenon DEF Owned

\* accept moves a handle from a queue to a socket.
LEMMA OwnedAccepted ==
  ASSUME TTyped, Owned, NEW s \in Sockets, handle[s] = None, NEW p \in Ports, NEW h \in Queued(p),
         Live' = Live, leaked' = leaked, handle' = [handle EXCEPT ![s] = h],
         \A q \in Ports : Queued(q)' = IF q = p THEN Queued(p) \ {h} ELSE Queued(q)
  PROVE  Owned'
<1>1. /\ \A r \in Sockets : handle[r] # h
      /\ \A q \in Ports : q # p => h \notin Queued(q)
      /\ h \notin leaked /\ h \in Live /\ None \notin Live
  BY LiveIs, Zenon DEF Owned
<1>2. handle'[s] = h /\ \A r \in Sockets : r # s => handle'[r] = handle[r]
  BY Zenon DEF TTyped
<1>3. /\ leaked' \subseteq Live'
      /\ \A r \in Sockets : handle'[r] # None => handle'[r] \in Live' /\ handle'[r] \notin leaked'
      /\ \A q \in Ports : Queued(q)' \subseteq Live' /\ Queued(q)' \cap leaked' = {}
  BY <1>1, <1>2 DEF Owned
<1>4. /\ \A r, q \in Sockets : handle'[r] # None /\ handle'[r] = handle'[q] => r = q
      /\ \A r \in Sockets, q \in Ports : handle'[r] \notin Queued(q)'
      /\ \A q, o \in Ports : q # o => Queued(q)' \cap Queued(o)' = {}
  BY <1>1, <1>2 DEF Owned
<1>5. ASSUME NEW g \in Live', g \notin leaked', g # h
      PROVE  (\E r \in Sockets : handle'[r] = g) \/ (\E q \in Ports : g \in Queued(q)')
  <2>1. (\E r \in Sockets : handle[r] = g) \/ (\E q \in Ports : g \in Queued(q))
    BY <1>5, Zenon DEF Owned
  <2>2. g # None
    BY <1>1, <1>5, Zenon
  <2> QED BY <1>2, <1>5, <2>1, <2>2, Zenon
<1> QED BY <1>2, <1>3, <1>4, <1>5, Zenon DEF Owned

\* The drop of entries, and of a socket, removes what they own from the set.
LEMMA OwnedFreed ==
  ASSUME TTyped, Owned, NEW s \in Sockets, NEW E \in SUBSET Ports, leaked' = leaked,
         \/ handle' = handle /\ Live' = {h \in Live : \A p \in E : h \notin Queued(p)}
         \/ /\ handle' = [handle EXCEPT ![s] = None]
            /\ Live' = {h \in Live : h # handle[s] /\ \A p \in E : h \notin Queued(p)},
         \A q \in Ports : Queued(q)' = IF q \in E THEN {} ELSE Queued(q)
  PROVE  Owned'
<1>1. \A r \in Sockets : handle'[r] = handle[r] \/ (r = s /\ handle'[r] = None)
  BY Zenon DEF TTyped
<1>2. \A g \in Live' : g \in Live /\ \A p \in E : g \notin Queued(p)
  BY Zenon
<1>3. /\ leaked' \subseteq Live'
      /\ \A q \in Ports : Queued(q)' \subseteq Live' /\ Queued(q)' \cap leaked' = {}
  <2>1. \A h \in leaked : h \in Live /\ h # handle[s] /\ \A p \in Ports : h \notin Queued(p)
    BY LiveIs DEF Owned
  <2>2. leaked' \subseteq Live'
    BY <2>1, Zenon
  <2>3. ASSUME NEW q \in Ports, q \notin E, NEW h \in Queued(q)
        PROVE  h \in Live /\ h # handle[s] /\ \A p \in E : h \notin Queued(p)
    BY <2>3, Zenon DEF Owned
  <2>4. \A q \in Ports : Queued(q)' \subseteq Live'
    BY <2>3, Zenon
  <2>5. \A q \in Ports : Queued(q)' \cap leaked' = {}
    BY Zenon DEF Owned
  <2> QED BY <2>2, <2>4, <2>5, Zenon
<1>4. ASSUME NEW r \in Sockets, handle'[r] # None PROVE handle'[r] \in Live' /\ handle'[r] \notin leaked'
  <2>1. /\ handle'[r] = handle[r] /\ handle[r] # None /\ handle[r] \in Live /\ handle[r] \notin leaked
        /\ \A p \in E : handle[r] \notin Queued(p)
    BY <1>1, <1>4, Zenon DEF Owned
  <2>2. handle' = [handle EXCEPT ![s] = None] => handle[r] # handle[s]
    BY <1>4, <2>1, Zenon DEF Owned, TTyped
  <2> QED BY <2>1, <2>2, Zenon
<1>5. /\ \A r, q \in Sockets : handle'[r] # None /\ handle'[r] = handle'[q] => r = q
      /\ \A r \in Sockets, q \in Ports : handle'[r] \notin Queued(q)'
      /\ \A q, o \in Ports : q # o => Queued(q)' \cap Queued(o)' = {}
  <2>1. \A q \in Ports : None \notin Queued(q)
    BY LiveIs, Zenon
  <2> QED BY <1>1, <2>1 DEF Owned
<1>6. ASSUME NEW g \in Live', g \notin leaked'
      PROVE  (\E r \in Sockets : handle'[r] = g) \/ (\E q \in Ports : g \in Queued(q)')
  <2>1. (\E r \in Sockets : handle[r] = g) \/ (\E q \in Ports : g \in Queued(q))
    BY <1>2, <1>6, Zenon DEF Owned
  <2>2. g # None
    BY LiveIs, <1>2, Zenon
  <2>3. CASE \E q \in Ports : g \in Queued(q)
    BY <1>2, <2>3, Zenon
  <2>4. CASE \E r \in Sockets : handle[r] = g
    <3>1. PICK r \in Sockets : handle[r] = g
      BY <2>4, Zenon
    <3>2. handle' = [handle EXCEPT ![s] = None] => r # s
      BY <3>1, <2>2, <1>6, Zenon DEF TTyped
    <3>3. handle'[r] = g
      BY <3>1, <3>2, Zenon DEF TTyped
    <3> QED BY <3>3, Zenon
  <2> QED BY <2>1, <2>3, <2>4, Zenon
<1> QED BY <1>3, <1>4, <1>5, <1>6, Zenon DEF Owned

LEMMA ListsSet ==
  ASSUME NEW q, NEW R, Lists(q, R)
  PROVE  Range(q) = R
BY DEF Lists, Range

\* The entries stand still, or an empty one is new.
LEMMA TableKept ==
  ASSUME TTyped, Orderly, NEW p, table' = table \/ (p \in Ports /\ table[p] = None /\ table' = [table EXCEPT ![p] = <<>>])
  PROVE  Orderly' /\ \A q \in Ports : Queued(q)' = Queued(q)
<1>1. CASE table' = table
  BY <1>1, Zenon DEF Orderly, Queued
<1>2. CASE p \in Ports /\ table[p] = None /\ table' = [table EXCEPT ![p] = <<>>]
  <2>1. table'[p] = <<>> /\ \A q \in Ports : q # p => table'[q] = table[q]
    BY <1>2, Zenon DEF TTyped
  <2>2. <<>> # None
    <3>1. <<>> \in Seq(Handles)
      OBVIOUS
    <3> QED BY <3>1, NoneAssumption, Zenon
  <2>3. Lists(<<>>, {}) /\ Range(<<>>) = {}
    BY ListsEmpty, ListsSet, Zenon
  <2>4. Queued(p)' = {} /\ Queued(p) = {}
    BY <1>2, <2>1, <2>2, <2>3, Zenon DEF Queued
  <2>5. \A q \in Ports : q # p => Queued(q)' = Queued(q)
    BY <2>1, Zenon DEF Queued
  <2> QED BY <2>1, <2>2, <2>3, <2>4, <2>5, Zenon DEF Orderly
<1> QED BY <1>1, <1>2, Zenon

\* Entries are dropped.
LEMMA TableDropped ==
  ASSUME Orderly, NEW E, table' = [q \in Ports |-> IF q \in E THEN None ELSE table[q]]
  PROVE  Orderly' /\ \A q \in Ports : Queued(q)' = IF q \in E THEN {} ELSE Queued(q)
<1>1. \A q \in Ports : table'[q] = IF q \in E THEN None ELSE table[q]
  BY Zenon
<1>2. \A q \in Ports : Queued(q)' = IF q \in E THEN {} ELSE Queued(q)
  BY <1>1, Zenon DEF Queued
<1> QED BY <1>1, <1>2, Zenon DEF Orderly

\* One entry gets another queue.
LEMMA TableChanged ==
  ASSUME TTyped, Orderly, NEW p \in Ports, NEW q \in Seq(Handles), NEW R, Lists(q, R),
         table' = [table EXCEPT ![p] = q]
  PROVE  Orderly' /\ \A o \in Ports : Queued(o)' = IF o = p THEN R ELSE Queued(o)
<1>1. table'[p] = q /\ \A o \in Ports : o # p => table'[o] = table[o]
  BY Zenon DEF TTyped
<1>2. q # None /\ Range(q) = R
  BY NoneAssumption, ListsSet, Zenon
<1>3. Queued(p)' = R /\ \A o \in Ports : o # p => Queued(o)' = Queued(o)
  BY <1>1, <1>2 DEF Queued
<1> QED BY <1>1, <1>3, Zenon DEF Orderly

\* The call of one thread ends, goes on or begins, with the handles as they are.
LEMMA UsedCall ==
  ASSUME TTyped, Used, UNCHANGED handle, NEW t \in Threads, NEW c, Becomes(t, c),
         \A s \in Sockets : state[s] = "unused" <=> state'[s] = "unused",
         \A s \in Sockets : state'[s] \in {"CONNECTING", "CONNECTED"} => handle[s] # None,
         c.op # "idle" => c.s \in Sockets /\ state[c.s] # "unused",
         c.op \in UseOps => handle[c.s] # None
  PROVE  Used'
<1>1. call'[t] = c /\ \A u \in Threads : u # t => call'[u] = call[u]
  BY CallSet, Zenon
<1>2. \A u \in Threads : call[u].op # "idle" => call[u].s \in Sockets
  BY CallFacts, Zenon
<1>3. /\ call'[t].op \in UseOps => handle'[call'[t].s] # None
      /\ call'[t].op # "idle" => state'[call'[t].s] # "unused"
  BY <1>1, Zenon
<1>4. \A s \in Sockets : state'[s] = "unused" => handle'[s] = None
  BY Zenon DEF Used
<1>5. \A u \in Threads : u # t =>
        /\ call'[u].op \in UseOps => handle'[call'[u].s] # None
        /\ call'[u].op # "idle" => state'[call'[u].s] # "unused"
  <2>1. \A u \in Threads : /\ call[u].op \in UseOps => handle[call[u].s] # None
                           /\ call[u].op # "idle" => state[call[u].s] # "unused"
    BY Zenon DEF Used
  <2> QED BY <1>1, <1>2, <2>1, Zenon
<1> QED BY <1>3, <1>4, <1>5, Zenon DEF Used

\* A handle is added, in connect and in accept.
LEMMA UsedHandle ==
  ASSUME TTyped, Used, NEW t \in Threads, NEW s \in Sockets, NEW h \in Handles, NEW c,
         handle' = [handle EXCEPT ![s] = h], Becomes(t, c), c.op # "idle" => c.s = s,
         state'[s] # "unused", \A r \in Sockets : r # s => state'[r] = state[r]
  PROVE  Used'
<1>1. /\ handle'[s] = h /\ h # None
      /\ \A r \in Sockets : r # s => handle'[r] = handle[r]
  BY NoneAssumption, Zenon DEF TTyped
<1>2. call'[t] = c /\ \A u \in Threads : u # t => call'[u] = call[u]
  BY CallSet, Zenon
<1>3. UseOps \cap {"idle"} = {}
  BY DEF UseOps
<1>4. \A u \in Threads : call[u].op # "idle" => call[u].s \in Sockets
  BY CallFacts, Zenon
<1>5. /\ \A r \in Sockets : state'[r] = "unused" => handle'[r] = None
      /\ \A r \in Sockets : state'[r] \in {"CONNECTING", "CONNECTED"} => handle'[r] # None
  BY <1>1, Zenon DEF Used
<1>6. \A u \in Threads : u # t =>
        /\ call'[u].op \in UseOps => handle'[call'[u].s] # None
        /\ call'[u].op # "idle" => state'[call'[u].s] # "unused"
  BY <1>1, <1>2, <1>3, <1>4, Zenon DEF Used
<1>7. /\ call'[t].op \in UseOps => handle'[call'[t].s] # None
      /\ call'[t].op # "idle" => state'[call'[t].s] # "unused"
  BY <1>1, <1>2, <1>3, Zenon
<1> QED BY <1>5, <1>6, <1>7, Zenon DEF Used

LEMMA ClosureHInv ==
  ASSUME HInv, NEW t \in Threads, Closure(t)
  PROVE  Owned' /\ Orderly' /\ Used'
<1>0. TInv /\ TTyped /\ Owned /\ Orderly /\ Used
  BY Zenon DEF HInv, TInv
<1>s. PICK s \in Sockets : s = call[t].s
  BY <1>0, ClosureFacts, Zenon
<1>1. UNCHANGED state /\ state[s] # "unused"
  BY <1>0, <1>s, ClosureFacts, Zenon DEF Used
<1>2. \A r \in Sockets : state[r] \in {"CONNECTING", "CONNECTED"} => handle[r] # None
  BY <1>0, Zenon DEF Used
<1>c. PICK c \in CallType : Becomes(t, c) /\ c.s = s
  BY <1>0, <1>s, ClosureFacts, Zenon
<1>d. call'[t] = c
  BY <1>0, <1>c, CallSet, Zenon
<1>3. ASSUME NEW op \in CallOps \ UseOps, NEW p \in Ports \cup {0}, Goto(t, op, s, p), UNCHANGED handle
      PROVE  Used'
  <2>1. PICK d \in CallType : Becomes(t, d) /\ d.op = op
    BY <1>3, GotoFacts0
  <2>2. c.op \notin UseOps
    BY <1>0, <1>d, <2>1, CallSet, Zenon
  <2> QED BY <1>0, <1>1, <1>2, <1>3, <1>c, <2>2, UsedCall, Zenon
<1>o. \A op \in {"dial", "table", "drop", "CLOSED", "LISTENING"} : op \in CallOps \ UseOps
  BY DEF CallOps, ClosureOps, NewStates, UseOps
<1>4. ASSUME NEW h \in Handles, ConnectOk(t, h) PROVE Owned' /\ Orderly' /\ Used'
  <2>2. /\ h \in ConnectHandles(s) /\ net' = [net EXCEPT ![h] = "SynSent"]
        /\ handle' = [handle EXCEPT ![s] = h] /\ UNCHANGED <<table, leaked>>
    BY <1>s, <1>4, Zenon DEF ConnectOk
  <2>3. Orderly' /\ \A q \in Ports : Queued(q)' = Queued(q)
    BY <1>0, <2>2, TableKept, Zenon
  <2>4. Live' = Live \cup {h}
    BY <1>0, <2>2, Zenon DEF Live, TTyped
  <2>u. Used'
    BY <1>0, <1>1, <1>c, <2>2, UsedHandle, Zenon
  <2>5. CASE handle[s] = None
    <3>1. h \notin Live
      BY <2>2, <2>5, Zenon DEF ConnectHandles, Free, Live
    <3>2. Owned'
      BY <1>0, <2>2, <2>3, <2>4, <2>5, <3>1, OwnedAdded, Zenon
    <3> QED BY <2>3, <2>u, <3>2, Zenon
  <2>6. CASE handle[s] # None
    <3>1. h = handle[s]
      BY <2>2, <2>6, Zenon DEF ConnectHandles
    <3>2. handle' = handle /\ h \in Live
      BY <1>0, <2>2, <2>6, <3>1, Zenon DEF TTyped, Owned
    <3>3. Live' = Live
      BY <2>4, <3>2, Zenon
    <3>4. Owned'
      BY <1>0, <2>2, <2>3, <3>2, <3>3, OwnedKept, Zenon
    <3> QED BY <2>3, <2>u, <3>4, Zenon
  <2> QED BY <2>5, <2>6, Zenon
<1>5. ASSUME NEW h \in Handles, ConnectFails(t, h) PROVE Owned' /\ Orderly' /\ Used'
  <2>2. /\ h \in ConnectHandles(s) /\ net' = [net EXCEPT ![h] = IF @ = "free" THEN "Closed" ELSE @]
        /\ leaked' = IF handle[s] = None THEN leaked \cup {h} ELSE leaked
        /\ Goto(t, "CLOSED", s, 0) /\ UNCHANGED <<handle, table>>
    BY <1>s, <1>5, Zenon DEF ConnectFails
  <2>3. Used'
    BY <1>3, <1>o, <2>2, Zenon
  <2>4. Orderly' /\ \A q \in Ports : Queued(q)' = Queued(q)
    BY <1>0, <2>2, TableKept, Zenon
  <2>5. Live' = Live \cup {h}
    BY <1>0, <2>2, Zenon DEF Live, TTyped
  <2>6. CASE handle[s] = None
    <3>1. h \notin Live
      BY <2>2, <2>6, Zenon DEF ConnectHandles, Free, Live
    <3>2. Owned'
      BY <1>0, <2>2, <2>4, <2>5, <2>6, <3>1, OwnedAdded, Zenon
    <3> QED BY <2>3, <2>4, <3>2, Zenon
  <2>7. CASE handle[s] # None
    <3>1. h = handle[s] /\ h \in Live
      BY <1>0, <2>2, <2>7 DEF ConnectHandles, Owned
    <3>2. Live' = Live /\ leaked' = leaked
      BY <2>2, <2>5, <2>7, <3>1, Zenon
    <3>3. Owned'
      BY <1>0, <2>2, <2>4, <3>2, OwnedKept, Zenon
    <3> QED BY <2>3, <2>4, <3>3, Zenon
  <2> QED BY <2>6, <2>7, Zenon
<1>6. ASSUME UNCHANGED <<handle, leaked>>, Live' = Live,
             NEW op \in CallOps \ UseOps, NEW p \in Ports \cup {0}, Goto(t, op, s, p),
             NEW q, table' = table \/ (q \in Ports /\ table[q] = None /\ table' = [table EXCEPT ![q] = <<>>])
      PROVE  Owned' /\ Orderly' /\ Used'
  <2>1. Used'
    BY <1>3, <1>6, Zenon
  <2>2. Orderly' /\ \A o \in Ports : Queued(o)' = Queued(o)
    BY <1>0, <1>6, TableKept, Zenon
  <2> QED BY <1>0, <1>6, <2>1, <2>2, OwnedKept, Zenon
<1>n. UNCHANGED net => Live' = Live
  BY Zenon DEF Live
<1>p. port[s] \in Ports \cup {0} /\ call[t].p \in Ports \cup {0}
  BY <1>0, ClosureFacts, CallFacts, Zenon DEF TTyped
<1>7. ASSUME NEW p \in Ports, BoundEndpoint(t, p) PROVE Owned' /\ Orderly' /\ Used'
  <2>1. /\ UNCHANGED <<handle, net, table, leaked>>
        /\ Goto(t, "table", s, p) \/ Goto(t, "dial", s, p)
    BY <1>s, <1>7, Zenon DEF BoundEndpoint
  <2> QED BY <1>6, <1>n, <1>o, <2>1, Zenon
<1>8. CASE (\E p \in Ports \cup {0} : Bind(t, p)) \/ ListenNoPort(t)
  <2>1. UNCHANGED <<handle, net, table, leaked>> /\ Goto(t, "CLOSED", s, 0)
    BY <1>s, <1>8, Zenon DEF Bind, ListenNoPort
  <2> QED BY <1>6, <1>n, <1>o, <2>1, Zenon
<1>9. CASE Listen(t)
  <2>0. PICK q \in Ports \cup {0} : q = call[t].p
    BY <1>p, Zenon
  <2>1. /\ UNCHANGED <<handle, net, leaked>>
        /\ Goto(t, "LISTENING", s, 0) \/ Goto(t, "CLOSED", s, 0)
        /\ table' = [table EXCEPT ![q] = IF @ = None THEN <<>> ELSE @]
    BY <1>s, <1>9, <2>0, Zenon DEF Listen
  <2>2. table' = table \/ (q \in Ports /\ table[q] = None /\ table' = [table EXCEPT ![q] = <<>>])
    BY <1>0, <2>1, Zenon DEF TTyped
  <2> QED BY <1>6, <1>n, <1>o, <2>1, <2>2, Zenon
<1>10. CASE Close(t)
  <2>1. /\ net' = [net EXCEPT ![handle[s]] = Closed(@)]
        /\ Goto(t, "CLOSED", s, 0) /\ UNCHANGED <<handle, table, leaked>>
    BY <1>s, <1>10, Zenon DEF Close
  <2>4. \A st \in NetStates : Closed(st) = "free" <=> st = "free"
    BY Zenon DEF Closed, NetStates
  <2>5. Live' = Live
    BY <1>0, <2>1, <2>4, Zenon DEF Live, TTyped
  <2> QED BY <1>6, <1>o, <2>1, <2>5, Zenon
<1>11. CASE Unlisten(t)
  <2>1. Goto(t, "drop", s, port[s]) /\ UNCHANGED <<handle, net, table, leaked>>
    BY <1>s, <1>11, Zenon DEF Unlisten
  <2> QED BY <1>6, <1>n, <1>o, <1>p, <2>1, Zenon
<1>12. CASE UnlistenTable(t)
  <2>0. PICK p : p = call[t].p
    BY Zenon
  <2>e. PICK E : E = {p} \cap Ports
    BY Zenon
  <2>1. DropEntry(p) /\ Goto(t, "CLOSED", s, 0) /\ UNCHANGED <<handle, leaked>>
    BY <1>s, <1>12, <2>0, Zenon DEF UnlistenTable
  <2>2. Used'
    BY <1>3, <1>o, <2>1, Zenon
  <2>3. table' = [q \in Ports |-> IF q \in E THEN None ELSE table[q]]
    BY <2>1, <2>e, Zenon DEF DropEntry
  <2>4. Orderly' /\ \A q \in Ports : Queued(q)' = IF q \in E THEN {} ELSE Queued(q)
    BY <1>0, <2>3, TableDropped, Zenon
  <2>5. Live' = {h \in Live : \A q \in E : h \notin Queued(q)}
    BY <1>0, <2>1, <2>e, Zenon DEF DropEntry, Live, Queued
  <2>6. Owned'
    BY <1>0, <2>1, <2>e, <2>4, <2>5, OwnedFreed, Zenon
  <2> QED BY <2>2, <2>4, <2>6, Zenon
<1> QED BY <1>4, <1>5, <1>7, <1>8, <1>9, <1>10, <1>11, <1>12, Zenon DEF Closure

LEMMA AcceptHInv ==
  ASSUME HInv, NEW t \in Threads, NEW s \in Sockets, AcceptTake(t, s)
  PROVE  Owned' /\ Orderly' /\ Used'
<1>0. TInv /\ TTyped /\ Owned /\ Orderly /\ Used
  BY Zenon DEF HInv, TInv
<1>1. UNCHANGED <<net, leaked>> /\ Live' = Live /\ state[s] = "unused" /\ handle[s] = None
  BY <1>0, AcceptFacts, Zenon DEF Live, Used
<1>2. CASE UNCHANGED <<state, handle, port, table, call, seen>>
  <2>1. Orderly' /\ \A q \in Ports : Queued(q)' = Queued(q)
    BY <1>0, <1>2, TableKept, Zenon
  <2>2. Used'
    BY <1>0, <1>2, Zenon DEF Used
  <2> QED BY <1>0, <1>1, <1>2, <2>1, <2>2, OwnedKept, Zenon
<1>3. CASE ~ UNCHANGED <<state, handle, port, table, call, seen>>
  <2>1. PICK p, k : Taken(t, s, p, k)
    BY <1>0, <1>3, AcceptFacts, Zenon
  <2>2. /\ p \in Ports /\ k \in DOMAIN table[p] /\ table[p] # None /\ table[p] \in Seq(Handles)
        /\ table[p][k] \in Handles
        /\ handle' = [handle EXCEPT ![s] = table[p][k]]
        /\ table' = [table EXCEPT ![p] = SwapRemoveFront(table[p], k)]
        /\ Becomes(t, Idle) /\ state' = [state EXCEPT ![s] = "CONNECTED"]
    BY <2>1, Zenon DEF Taken
  <2>3. Lists(table[p], Queued(p))
    BY <1>0, <2>2, Zenon DEF Orderly
  <2>4. PICK h : h = table[p][k]
    BY Zenon
  <2>5. h \in Queued(p) /\ h \in Handles /\ handle' = [handle EXCEPT ![s] = h]
    BY <2>2, <2>3, <2>4, Zenon DEF Lists
  <2>6. /\ SwapRemoveFront(table[p], k) \in Seq(Handles)
        /\ Lists(SwapRemoveFront(table[p], k), Queued(p) \ {h})
    BY <2>2, <2>3, <2>4, SwapRemoved, SwapRemovedLists, Zenon
  <2>7. Orderly' /\ \A q \in Ports : Queued(q)' = IF q = p THEN Queued(p) \ {h} ELSE Queued(q)
    BY <1>0, <2>2, <2>6, TableChanged, Zenon
  <2>8. Owned'
    BY <1>0, <1>1, <2>2, <2>5, <2>7, OwnedAccepted, Zenon
  <2>9. state'[s] # "unused" /\ \A r \in Sockets : r # s => state'[r] = state[r]
    BY <1>0, <2>2, Zenon DEF TTyped
  <2>10. Used'
    BY <1>0, <2>2, <2>5, <2>9, IdleIs, UsedHandle, Zenon
  <2> QED BY <2>7, <2>8, <2>10, Zenon
<1> QED BY <1>2, <1>3, Zenon

LEMMA DropHInv ==
  ASSUME HInv, NEW s \in Sockets, Drop(s)
  PROVE  Owned' /\ Orderly' /\ Used'
<1>0. TInv /\ TTyped /\ Owned /\ Orderly /\ Used
  BY Zenon DEF HInv, TInv
<1> DEFINE dead == IF handle[s] # None THEN {handle[s]} ELSE {}
           entry == IF state[s] = "LISTENING" THEN {port[s]} \cap Ports ELSE {}
           queued == UNION {Range(table[p]) : p \in entry \cap Listening}
<1>1. /\ net' = [h \in Handles |-> IF h \in dead \cup queued THEN "free" ELSE net[h]]
      /\ table' = [p \in Ports |-> IF p \in entry THEN None ELSE table[p]]
      /\ state' = [state EXCEPT ![s] = "unused"] /\ handle' = [handle EXCEPT ![s] = None]
      /\ \A t \in Threads : call[t].s # s
      /\ UNCHANGED <<call, leaked>>
  BY Zenon DEF Drop
<1>2. \A h : h \in queued <=> \E p \in entry : h \in Queued(p)
  BY DEF Queued, Listening
<1>3. \A h \in Handles : h \in dead <=> h = handle[s]
  BY NoneAssumption, Zenon
<1>4. entry \in SUBSET Ports
  BY Zenon
<1> HIDE DEF dead, entry, queued
<1>5. Live' = {h \in Live : h # handle[s] /\ \A p \in entry : h \notin Queued(p)}
  BY <1>1, <1>2, <1>3, Zenon DEF Live
<1>6. Orderly' /\ \A q \in Ports : Queued(q)' = IF q \in entry THEN {} ELSE Queued(q)
  BY <1>0, <1>1, TableDropped, Zenon
<1>7. Owned'
  BY <1>0, <1>1, <1>4, <1>5, <1>6, OwnedFreed, Zenon
<1>8. Used'
  <2>1. /\ handle'[s] = None /\ state'[s] = "unused"
        /\ \A r \in Sockets : r # s => handle'[r] = handle[r] /\ state'[r] = state[r]
    BY <1>0, <1>1, Zenon DEF TTyped
  <2>2. \A t \in Threads : call[t].op # "idle" => call[t].s \in Sockets
    BY <1>0, CallFacts, Zenon
  <2>3. \A t \in Threads : call[t].op \in UseOps => handle'[call'[t].s] # None
    <3>1. \A t \in Threads : call[t].op \in UseOps => call[t].op # "idle"
      BY DEF UseOps
    <3>2. \A t \in Threads : call[t].op # "idle" => call[t].s # s
      BY <1>1, Zenon
    <3>3. \A t \in Threads : call[t].op \in UseOps => handle[call[t].s] # None
      BY <1>0, Zenon DEF Used
    <3>4. call' = call
      BY <1>1, Zenon
    <3> QED BY <2>1, <2>2, <3>1, <3>2, <3>3, <3>4, Zenon
  <2>4. \A t \in Threads : call[t].op # "idle" => state'[call'[t].s] # "unused"
    BY <1>0, <1>1, <2>1, <2>2 DEF Used
  <2>5. \A r \in Sockets : /\ state'[r] = "unused" => handle'[r] = None
                           /\ state'[r] \in {"CONNECTING", "CONNECTED"} => handle'[r] # None
    BY <1>0, <2>1, Zenon DEF Used
  <2> QED BY <1>1, <2>3, <2>4, <2>5, Zenon DEF Used
<1> QED BY <1>6, <1>7, <1>8, Zenon

LEMMA IncomingHInv ==
  ASSUME HInv, NEW p \in Ports, NEW h \in Handles, NEW taker \in Handles \cup {None}, Incoming(p, h, taker)
  PROVE  Owned' /\ Orderly' /\ Used'
<1>0. TInv /\ TTyped /\ Owned /\ Orderly /\ Used
  BY Zenon DEF HInv, TInv
<1>1. /\ table[p] # None /\ h \in Free
      /\ taker \in {h, None} \cup {g \in Range(table[p]) : net[g] = "Listen"}
      /\ table' = [table EXCEPT ![p] = Append(table[p], h)]
      /\ net' = [g \in Handles |-> IF g = taker THEN "SynReceived" ELSE IF g = h THEN "Listen" ELSE net[g]]
      /\ UNCHANGED <<state, handle, port, call, seen, stale, leaked>>
  BY Zenon DEF Incoming
<1>2. table[p] \in Seq(Handles) /\ Lists(table[p], Queued(p)) /\ Queued(p) = Range(table[p])
  BY <1>0, <1>1, Zenon DEF TTyped, Orderly, Queued
<1>3. h \notin Live /\ h \notin Queued(p)
  BY <1>0, <1>1, Zenon DEF Free, Live, Owned
<1>4. Append(table[p], h) \in Seq(Handles) /\ Lists(Append(table[p], h), Queued(p) \cup {h})
  BY <1>2, <1>3, ListsAppend
<1>5. Orderly' /\ \A q \in Ports : Queued(q)' = IF q = p THEN Queued(p) \cup {h} ELSE Queued(q)
  BY <1>0, <1>1, <1>4, TableChanged, Zenon
<1>6. taker \in Handles => taker = h \/ taker \in Live
  BY <1>1, NoneAssumption, Zenon DEF Live
<1>7. Live' = Live \cup {h}
  BY <1>1, <1>6, Zenon DEF Live
<1>8. Owned'
  BY <1>0, <1>1, <1>3, <1>5, <1>7, OwnedIncoming, Zenon
<1>9. Used'
  BY <1>0, <1>1, Zenon DEF Used
<1> QED BY <1>5, <1>8, <1>9, Zenon

LEMMA NextHInv == HInv /\ [Next]_vars => HInv'
<1> SUFFICES ASSUME HInv, [Next]_vars PROVE Owned' /\ Orderly' /\ Used'
  BY NextTInv, Zenon DEF HInv
<1>0. TInv /\ TTyped /\ Owned /\ Orderly /\ Used
  BY Zenon DEF HInv, TInv
<1>1. ASSUME UNCHANGED <<handle, table, leaked>>, Live' = Live PROVE Owned' /\ Orderly'
  <2>1. Orderly' /\ \A q \in Ports : Queued(q)' = Queued(q)
    BY <1>0, <1>1, TableKept, Zenon
  <2> QED BY <1>0, <1>1, <2>1, OwnedKept, Zenon
<1>2. UNCHANGED net => Live' = Live
  BY Zenon DEF Live
<1>3. CASE \E s \in Sockets : New(s)
  <2>1. PICK s \in Sockets : New(s)
    BY <1>3, Zenon
  <2>2. /\ state[s] = "unused" /\ state' = [state EXCEPT ![s] = "CLOSED"]
        /\ UNCHANGED <<handle, net, table, call, leaked>>
    BY <2>1, Zenon DEF New
  <2>3. state'[s] = "CLOSED" /\ \A r \in Sockets : r # s => state'[r] = state[r]
    BY <1>0, <2>2, Zenon DEF TTyped
  <2>4. \A t \in Threads : call[t].op # "idle" => call[t].s \in Sockets /\ state[call[t].s] # "unused"
    BY <1>0, CallFacts, Zenon DEF Used
  <2>5. Used'
    BY <1>0, <2>2, <2>3, <2>4, Zenon DEF Used
  <2> QED BY <1>1, <1>2, <2>2, <2>5, Zenon
<1>4. CASE \E s \in Sockets : Drop(s)
  BY <1>4, DropHInv, Zenon
<1>k. \A r \in Sockets : state[r] \in {"CONNECTING", "CONNECTED"} => handle[r] # None
  BY <1>0, Zenon DEF Used
<1>i. Idle.op \notin UseOps /\ "idle" \notin UseOps
  BY IdleIs DEF UseOps
<1>5. ASSUME NEW t \in Threads, NEW s \in Sockets, NEW op \in BusyOps, Enter(t, s, op)
      PROVE  Owned' /\ Orderly' /\ Used'
  <2>1. /\ state[s] = Expect(op) /\ state' = [state EXCEPT ![s] = "BUSY"] /\ Goto(t, op, s, 0)
        /\ UNCHANGED <<handle, net, table, leaked>>
    BY <1>5, Zenon DEF Enter
  <2>2. state[s] # "unused" /\ (op \in UseOps => state[s] = "CONNECTED")
    BY <2>1, Zenon DEF Expect, BusyOps, UseOps
  <2>3. op \in UseOps => handle[s] # None
    BY <1>k, <2>2, Zenon
  <2>4. /\ \A r \in Sockets : state[r] = "unused" <=> state'[r] = "unused"
        /\ \A r \in Sockets : state'[r] \in {"CONNECTING", "CONNECTED"} => handle[r] # None
    BY <1>0, <1>k, <2>1, <2>2, Zenon DEF TTyped
  <2>c. op \in CallOps
    BY Zenon DEF CallOps, ClosureOps
  <2>d. PICK c \in CallType : Becomes(t, c) /\ c.op = op /\ c.s = s
    BY <2>1, <2>c, GotoFacts0
  <2>5. Used'
    BY <1>0, <2>1, <2>2, <2>3, <2>4, <2>d, UsedCall, Zenon
  <2> QED BY <1>1, <1>2, <2>1, <2>5, Zenon
<1>6. ASSUME NEW t \in Threads, NEW s \in Sockets, PollStart(t, s) \/ StreamStart(t, s) \/ AcceptStart(t, s)
      PROVE  Owned' /\ Orderly' /\ Used'
  <2>1. /\ UNCHANGED <<state, handle, net, table, leaked>>
        /\ state[s] \in {"CONNECTING", "CONNECTED", "LISTENING"} /\ state[s] # "unused"
    <3>1. UNCHANGED <<state, handle, net, table, leaked>> /\ state[s] \in {"CONNECTING", "CONNECTED", "LISTENING"}
      BY <1>0, <1>6, StartFacts, Zenon
    <3> QED BY <3>1, Zenon
  <2>2. PICK c \in CallType : /\ Becomes(t, c) /\ c.s = s /\ c.op \in {"poll", "stream", "accept"}
                              /\ c.op # "accept" => state[s] \in {"CONNECTING", "CONNECTED"}
    BY <1>0, <1>6, StartFacts
  <2>x. "accept" \notin UseOps
    BY DEF UseOps
  <2>3. c.op \in UseOps => handle[s] # None
    BY <1>k, <2>2, <2>x, Zenon
  <2>4. Used'
    BY <1>0, <1>k, <2>1, <2>2, <2>3, UsedCall, Zenon
  <2> QED BY <1>1, <1>2, <2>1, <2>4, Zenon
<1>7. ASSUME NEW t \in Threads, PollConnect(t) PROVE Owned' /\ Orderly' /\ Used'
  <2> DEFINE s == call[t].s
  <2>1. s \in Sockets /\ call[t].op = "poll"
    BY <1>0, <1>7, CallFacts, Zenon DEF PollConnect, In
  <2>2. /\ \E v \in {state[s], "CONNECTED", "CLOSED"} : state' = [state EXCEPT ![s] = v]
        /\ Becomes(t, Idle) /\ UNCHANGED <<handle, net, table, leaked>>
    BY <1>7, Zenon DEF PollConnect, Return, Becomes
  <2>3. state[s] # "unused" /\ handle[s] # None
    BY <1>0, <2>1, Zenon DEF Used, UseOps
  <2> HIDE DEF s
  <2>4. /\ \A r \in Sockets : state[r] = "unused" <=> state'[r] = "unused"
        /\ \A r \in Sockets : state'[r] \in {"CONNECTING", "CONNECTED"} => handle[r] # None
    BY <1>0, <1>k, <2>1, <2>2, <2>3, Zenon DEF TTyped
  <2>5. Used'
    BY <1>0, <1>i, <2>2, <2>4, IdleIs, UsedCall, Zenon
  <2> QED BY <1>1, <1>2, <2>2, <2>5, Zenon
<1>8. ASSUME NEW t \in Threads, StreamEnd(t) PROVE Owned' /\ Orderly' /\ Used'
  <2>1. Becomes(t, Idle) /\ UNCHANGED <<state, handle, net, table, leaked>>
    BY <1>8, Zenon DEF StreamEnd, Return, Becomes
  <2>3. Used'
    BY <1>0, <1>i, <1>k, <2>1, IdleIs, UsedCall, Zenon
  <2> QED BY <1>1, <1>2, <2>1, <2>3, Zenon
<1>a. ASSUME NEW t \in Threads, Accept(t) PROVE Owned' /\ Orderly' /\ Used'
  <2>1. /\ UNCHANGED <<state, handle, net, table, leaked>>
        /\ call[t].s \in Sockets /\ call[t].op # "idle" /\ state[call[t].s] # "unused"
    BY <1>0, <1>a, AcceptSteps, Zenon DEF Used
  <2>2. PICK c : /\ Becomes(t, c) /\ c.op \in {"idle", "queue", "scan", "take"}
                 /\ c.op # "idle" => c.s = call[t].s
    BY <1>0, <1>a, AcceptSteps, Zenon
  <2>3. c.op \notin UseOps
    BY <2>2, Zenon DEF UseOps
  <2>4. Used'
    BY <1>0, <1>k, <2>1, <2>2, <2>3, UsedCall, Zenon
  <2> QED BY <1>1, <1>2, <2>1, <2>4, Zenon
<1>b. ASSUME NEW t \in Threads, Store(t) PROVE Owned' /\ Orderly' /\ Used'
  <2>s. PICK s \in Sockets, v \in NewStates : s = call[t].s /\ v = call[t].op
    BY <1>0, <1>b, StoreFacts, Zenon
  <2>1. state' = [state EXCEPT ![s] = v] /\ UNCHANGED <<handle, net, table, leaked>>
    BY <1>0, <1>b, <2>s, StoreFacts, Zenon
  <2>2. PICK c : /\ Becomes(t, c) /\ c.op \in {"idle", "poll"}
                 /\ c.op = "poll" => c.s = s /\ v = "CONNECTING"
    BY <1>0, <1>b, <2>s, StoreFacts, Zenon
  <2>3. (v = "CONNECTING" => handle[s] # None) /\ state[s] # "unused"
    BY <1>0, <2>s, Zenon DEF Used, UseOps, NewStates
  <2>4. /\ \A r \in Sockets : state[r] = "unused" <=> state'[r] = "unused"
        /\ \A r \in Sockets : state'[r] \in {"CONNECTING", "CONNECTED"} => handle[r] # None
    <3>1. /\ state'[s] = v /\ v \notin {"unused", "CONNECTED"} /\ \A r \in Sockets : r # s => state'[r] = state[r]
      BY <1>0, <2>1, Zenon DEF TTyped, NewStates
    <3> QED BY <1>k, <2>3, <3>1, Zenon
  <2>5. /\ c.op # "idle" => c.s \in Sockets /\ state[c.s] # "unused"
        /\ c.op \in UseOps => handle[c.s] # None
    BY <1>i, <2>2, <2>3, Zenon
  <2>6. Used'
    BY <1>0, <2>1, <2>2, <2>4, <2>5, UsedCall, Zenon
  <2> QED BY <1>1, <1>2, <2>1, <2>6, Zenon
<1>9. ASSUME NEW h \in Handles, NEW st \in {"Established", "Listen", "Closing", "Closed"}, Packet(h, st)
      PROVE  Owned' /\ Orderly' /\ Used'
  <2>1. /\ st \in Moves(net[h]) /\ net' = [net EXCEPT ![h] = st]
        /\ UNCHANGED <<state, handle, table, call, leaked>>
    BY <1>9, Zenon DEF Packet
  <2>2. net[h] # "free" /\ st # "free"
    BY <2>1, Zenon DEF Moves
  <2>3. Live' = Live
    BY <1>0, <2>1, <2>2, Zenon DEF Live, TTyped
  <2>4. Used'
    BY <1>0, <2>1, Zenon DEF Used
  <2> QED BY <1>1, <2>1, <2>3, <2>4, Zenon
<1>10. CASE UNCHANGED vars
  BY <1>0, <1>1, <1>2, <1>10, Zenon DEF vars, Used
<1> QED BY <1>3, <1>4, <1>5, <1>6, <1>7, <1>8, <1>9, <1>10, <1>a, <1>b, ClosureHInv, AcceptHInv, IncomingHInv, Zenon DEF Next

LEMMA InitHInv == Init => HInv
<1> SUFFICES ASSUME Init PROVE Owned /\ Orderly /\ Used
  BY InitTTyped, Zenon DEF HInv
<1>1. Live = {} /\ \A p \in Ports : Queued(p) = {}
  BY Zenon DEF Init, Live, Queued
<1>2. \A t \in Threads : call[t].op = "idle" /\ call[t].op \notin UseOps
  BY IdleIs, Zenon DEF Init, UseOps
<1> QED BY <1>1, <1>2, Zenon DEF Init, Owned, Orderly, Used

\* Every socket of the set has one owner, a TcpSocket or a place in a SYN
\* queue, except the ones failed connects left behind, and nobody keeps a
\* handle that is not in the set: for any number of threads, sockets, ports
\* and handles and any length of the queues.
THEOREM OneOwner == Spec => []HandlesOwned
<1>1. HInv => HandlesOwned
  <2> SUFFICES ASSUME HInv PROVE HandlesOwned
    BY Zenon
  <2>0. TTyped /\ Owned /\ Orderly /\ Used
    BY Zenon DEF HInv, TInv
  <2> DEFINE S(h) == {<<"socket", s>> : s \in {r \in Sockets : handle[r] = h}}
             Q(h) == UNION {{<<"queue", p, k>> : k \in {j \in DOMAIN table[p] : table[p][j] = h}} : p \in Listening}
  <2>1. ASSUME NEW h \in Handles, NEW x
        PROVE  /\ x \in S(h) <=> \E s \in Sockets : x = <<"socket", s>> /\ handle[s] = h
               /\ x \in Q(h) <=> \E p \in Ports : table[p] # None /\ \E k \in DOMAIN table[p] : x = <<"queue", p, k>> /\ table[p][k] = h
               /\ x \in Holders(h) <=> x \in S(h) \/ x \in Q(h)
    BY DEF Holders, Listening
  <2> HIDE DEF S, Q
  <2>2. ASSUME NEW h \in Handles, NEW p \in Ports, table[p] # None, NEW k \in DOMAIN table[p], table[p][k] = h
        PROVE  h \in Queued(p)
    BY <2>2, <2>0, Zenon DEF Orderly, Lists
  <2>3. ASSUME NEW h \in Handles, net[h] = "free" \/ h \in leaked PROVE Holders(h) = {}
    <3>1. /\ \A s \in Sockets : handle[s] # h
          /\ \A p \in Ports : h \notin Queued(p)
      BY <2>0, <2>3, NoneAssumption, Zenon DEF Owned, Live
    <3>2. \A x : x \notin Holders(h)
      BY <2>1, <2>2, <3>1, Zenon
    <3> QED BY <3>2, Zenon
  <2>4. ASSUME NEW h \in Handles, net[h] # "free", h \notin leaked
        PROVE  \E x \in Holders(h) : Holders(h) = {x}
    <3>1. (\E s \in Sockets : handle[s] = h) \/ (\E p \in Ports : h \in Queued(p))
      BY <2>0, <2>4, Zenon DEF Owned, Live
    <3>2. CASE \E s \in Sockets : handle[s] = h
      <4>1. PICK s \in Sockets : handle[s] = h
        BY <3>2, Zenon
      <4>2. /\ \A r \in Sockets : handle[r] = h => r = s
            /\ \A p \in Ports : h \notin Queued(p)
        BY <2>0, <4>1, NoneAssumption, Zenon DEF Owned
      <4> DEFINE x == <<"socket", s>>
      <4>3. \A y : y \in Holders(h) <=> y = x
        BY <2>1, <2>2, <4>1, <4>2, Zenon
      <4> HIDE DEF x
      <4> QED BY <4>3
    <3>3. CASE \E p \in Ports : h \in Queued(p)
      <4>1. PICK p \in Ports : h \in Queued(p)
        BY <3>3, Zenon
      <4>2. /\ \A s \in Sockets : handle[s] # h
            /\ \A q \in Ports : h \in Queued(q) => q = p
        BY <2>0, <4>1 DEF Owned
      <4>3. table[p] # None /\ Lists(table[p], Queued(p))
        BY <2>0, <4>1, Zenon DEF Queued, Orderly
      <4>4. PICK k \in DOMAIN table[p] : table[p][k] = h
        BY <4>1, <4>3, Zenon DEF Lists
      <4>5. \A j \in DOMAIN table[p] : table[p][j] = h => j = k
        BY <4>3, <4>4, Zenon DEF Lists
      <4> DEFINE x == <<"queue", p, k>>
      <4>6. x \in Holders(h)
        BY <2>1, <4>3, <4>4, Zenon
      <4>7. ASSUME NEW y \in Holders(h) PROVE y = x
        BY <2>1, <2>2, <4>2, <4>5, Zenon
      <4> HIDE DEF x
      <4> QED BY <4>6, <4>7, Zenon
    <3> QED BY <3>1, <3>2, <3>3, Zenon
  <2>5. \A t \in Threads : call[t].op \in {"close", "poll", "stream"} => handle[call[t].s] # None
    BY <2>0, Zenon DEF Used, UseOps
  <2> QED BY <2>3, <2>4, <2>5, Zenon DEF HandlesOwned
<1> QED BY InitHInv, NextHInv, <1>1, PTL DEF Spec

-----------------------------------------------------------------------------
(* Tcp: the listen table. *)

\* A call that holds, or has still to remove, the entry of port p for s, whose
\* address says q.
Wanted(c, s, q, p) ==
  /\ c.s = s
  /\ \/ c.op \in {"LISTENING", "unlisten"} /\ q = p
     \/ c.op = "drop" /\ c.p = p

\* Every listener has an entry, to itself, and every entry has a listener.
Entries ==
  /\ \A s \in Sockets, p \in Ports \cup {0} : HasEntry(s, p) => p \in Ports /\ table[p] # None
  /\ \A s, r \in Sockets, p \in Ports : HasEntry(s, p) /\ HasEntry(r, p) => s = r
  /\ \A p \in Ports : table[p] # None => \E s \in Sockets : HasEntry(s, p)

\* listen still has the port it has chosen when it comes to the table.
Tabled == \A t \in Threads : call[t].op = "table" => call[t].p \in Ports /\ port[call[t].s] = call[t].p

EInv == UInv /\ (stale = {} => Entries /\ Tabled)

LEMMA EntryWanted ==
  \A s, p : HasEntry(s, p) <=> (state[s] = "LISTENING" /\ port[s] = p) \/ \E t \in Threads : Wanted(call[t], s, port[s], p)
BY Zenon DEF HasEntry, Wanted

LEMMA WantedOps ==
  ASSUME NEW c, c.op \notin {"LISTENING", "unlisten", "drop"}
  PROVE  \A s, q, p : ~ Wanted(c, s, q, p)
BY Zenon DEF Wanted

LEMMA WantedIn ==
  ASSUME NEW s, NEW t \in Threads, ~ InClosure(t, s)
  PROVE  \A q, p : ~ Wanted(call[t], s, q, p)
BY Zenon DEF Wanted, InClosure, ClosureOps, BusyOps, NewStates

LEMMA EntriesKept ==
  ASSUME Entries,
         \A s \in Sockets, p \in Ports \cup {0} : HasEntry(s, p)' <=> HasEntry(s, p),
         \A p \in Ports : table'[p] = None <=> table[p] = None
  PROVE  Entries'
BY Zenon DEF Entries

LEMMA EntryAdded ==
  ASSUME Entries, NEW s \in Sockets, NEW p \in Ports,
         \A q \in Ports \cup {0} : HasEntry(s, q)' <=> q = p,
         \A r \in Sockets, q \in Ports \cup {0} : r # s => (HasEntry(r, q)' <=> HasEntry(r, q)),
         \A q \in Ports \cup {0} : ~ HasEntry(s, q),
         table[p] = None, table'[p] # None, \A q \in Ports : q # p => table'[q] = table[q]
  PROVE  Entries'
<1>1. \A r \in Sockets : ~ HasEntry(r, p)
  BY Zenon DEF Entries
<1>2. \A r \in Sockets, q \in Ports \cup {0} : HasEntry(r, q)' => q \in Ports /\ table'[q] # None
  BY <1>1, Zenon DEF Entries
<1>3. \A r, o \in Sockets, q \in Ports : HasEntry(r, q)' /\ HasEntry(o, q)' => r = o
  BY <1>1, Zenon DEF Entries
<1>4. \A q \in Ports : table'[q] # None => \E r \in Sockets : HasEntry(r, q)'
  BY <1>1 DEF Entries
<1> QED BY <1>2, <1>3, <1>4, Zenon DEF Entries

LEMMA EntryRemoved ==
  ASSUME Entries, NEW s \in Sockets, NEW p \in Ports \cup {0},
         \A q \in Ports \cup {0} : HasEntry(s, q) <=> q = p,
         \A r \in Sockets, q \in Ports \cup {0} : HasEntry(r, q)' <=> HasEntry(r, q) /\ r # s,
         \A q \in Ports : table'[q] = IF q = p THEN None ELSE table[q]
  PROVE  Entries'
<1>1. \A r \in Sockets, q \in Ports : r # s /\ HasEntry(r, q) => q # p
  BY Zenon DEF Entries
<1>2. \A r \in Sockets, q \in Ports \cup {0} : HasEntry(r, q)' => q \in Ports /\ table'[q] # None
  BY <1>1, Zenon DEF Entries
<1>3. \A r, o \in Sockets, q \in Ports : HasEntry(r, q)' /\ HasEntry(o, q)' => r = o
  BY Zenon DEF Entries
<1>4. \A q \in Ports : table'[q] # None => \E r \in Sockets : HasEntry(r, q)'
  BY DEF Entries
<1> QED BY <1>2, <1>3, <1>4, Zenon DEF Entries

\* A step of a thread on s leaves the entries of other sockets what they are.
LEMMA EntryOthers ==
  ASSUME TTyped, NEW s, NEW t \in Threads, NEW c, Becomes(t, c),
         call[t].s = s \/ call[t].op \notin {"LISTENING", "unlisten", "drop"},
         c.s = s \/ c.op \notin {"LISTENING", "unlisten", "drop"},
         \A r \in Sockets : r # s => state'[r] = state[r] /\ port'[r] = port[r]
  PROVE  \A r \in Sockets, p \in Ports \cup {0} : r # s => (HasEntry(r, p)' <=> HasEntry(r, p))
<1> SUFFICES ASSUME NEW r \in Sockets, NEW p \in Ports \cup {0}, r # s PROVE HasEntry(r, p)' <=> HasEntry(r, p)
  BY Zenon
<1>1. call'[t] = c /\ \A u \in Threads : u # t => call'[u] = call[u]
  BY CallSet, Zenon
<1>2. \A q : ~ Wanted(call[t], r, q, p) /\ ~ Wanted(c, r, q, p)
  BY Zenon DEF Wanted
<1>3. state'[r] = state[r] /\ port'[r] = port[r]
  BY Zenon
<1>4. \A u \in Threads : Wanted(call'[u], r, port'[r], p) <=> Wanted(call[u], r, port[r], p)
  BY <1>1, <1>2, <1>3, Zenon
<1>5. HasEntry(r, p)' <=> (state'[r] = "LISTENING" /\ port'[r] = p) \/ \E u \in Threads : Wanted(call'[u], r, port'[r], p)
  BY Zenon DEF HasEntry, Wanted
<1> QED BY <1>3, <1>4, <1>5, EntryWanted, Zenon

\* The entry of s itself, when no other thread is in a closure on it.
LEMMA EntryOwn ==
  ASSUME TTyped, NEW s, NEW t \in Threads, NEW c, Becomes(t, c),
         \A u \in Threads : u # t => ~ InClosure(u, s)
  PROVE  \A p \in Ports \cup {0} :
           /\ HasEntry(s, p) <=> (state[s] = "LISTENING" /\ port[s] = p) \/ Wanted(call[t], s, port[s], p)
           /\ HasEntry(s, p)' <=> (state'[s] = "LISTENING" /\ port'[s] = p) \/ Wanted(c, s, port'[s], p)
<1> SUFFICES ASSUME NEW p \in Ports \cup {0}
             PROVE /\ HasEntry(s, p) <=> (state[s] = "LISTENING" /\ port[s] = p) \/ Wanted(call[t], s, port[s], p)
                   /\ HasEntry(s, p)' <=> (state'[s] = "LISTENING" /\ port'[s] = p) \/ Wanted(c, s, port'[s], p)
  BY Zenon
<1>1. call'[t] = c /\ \A u \in Threads : u # t => call'[u] = call[u]
  BY CallSet, Zenon
<1>2. \A u \in Threads : u # t => \A q : ~ Wanted(call[u], s, q, p)
  BY WantedIn, Zenon
<1>3. \A u \in Threads : u # t => ~ Wanted(call'[u], s, port'[s], p)
  BY <1>1, <1>2, Zenon
<1>5. HasEntry(s, p)' <=> (state'[s] = "LISTENING" /\ port'[s] = p) \/ \E u \in Threads : Wanted(call'[u], s, port'[s], p)
  BY Zenon DEF HasEntry, Wanted
<1> QED BY <1>1, <1>2, <1>3, <1>5, EntryWanted, Zenon

LEMMA TabledStep ==
  ASSUME TTyped, Tabled, NEW s \in Sockets, NEW t \in Threads, NEW c, Becomes(t, c),
         \A r \in Sockets : r # s => port'[r] = port[r],
         port'[s] = port[s] \/ \A u \in Threads : u # t => ~ InClosure(u, s),
         c.op = "table" => c.p \in Ports /\ port'[c.s] = c.p
  PROVE  Tabled'
<1> SUFFICES ASSUME NEW u \in Threads, call'[u].op = "table"
             PROVE  call'[u].p \in Ports /\ port'[call'[u].s] = call'[u].p
  BY Zenon DEF Tabled
<1>1. call'[t] = c /\ \A v \in Threads : v # t => call'[v] = call[v]
  BY CallSet, Zenon
<1>2. CASE u = t
  BY <1>1, <1>2, Zenon
<1>3. CASE u # t
  <2>1. call'[u] = call[u] /\ call[u].op = "table" /\ call[u].op # "idle"
    BY <1>1, <1>3, Zenon
  <2>2. call[u].s \in Sockets /\ InClosure(u, call[u].s)
    BY <2>1, CallFacts, Zenon DEF InClosure, ClosureOps
  <2>3. port'[call[u].s] = port[call[u].s]
    BY <1>3, <2>2
  <2> QED BY <2>1, <2>3, Zenon DEF Tabled
<1> QED BY <1>2, <1>3, Zenon

LEMMA ClosureEntries ==
  ASSUME UInv, stale = {}, Entries, Tabled, NEW t \in Threads, Closure(t)
  PROVE  Entries' /\ Tabled'
<1>0. PICK s : s = call[t].s
  BY Zenon
<1>1. s \in Sockets /\ call[t].op \in ClosureOps /\ UNCHANGED state /\ TTyped
  BY <1>0, ClosureFacts, Zenon DEF UInv, TInv
<1>c. PICK c \in CallType : Becomes(t, c) /\ c.s = s
  BY <1>0, <1>1, ClosureFacts, Zenon
<1>d. call'[t] = c
  BY <1>1, <1>c, CallSet, Zenon
<1>2. InClosure(t, s) /\ Busy(s)
  BY <1>0, <1>1, Zenon DEF UInv, InClosure
<1>3. state[s] = "BUSY" /\ \A u \in Threads : u # t => ~ InClosure(u, s)
  BY <1>2, Zenon DEF Busy
<1>4. \A p \in Ports \cup {0} : /\ HasEntry(s, p) <=> Wanted(call[t], s, port[s], p)
                                /\ HasEntry(s, p)' <=> Wanted(c, s, port'[s], p)
  <2>1. state'[s] # "LISTENING" /\ state[s] # "LISTENING"
    BY <1>1, <1>3, Zenon
  <2> QED BY <1>1, <1>c, <1>3, <2>1, EntryOwn, Zenon
<1>5. ASSUME \A r \in Sockets : r # s => port'[r] = port[r]
      PROVE  \A r \in Sockets, p \in Ports \cup {0} : r # s => (HasEntry(r, p)' <=> HasEntry(r, p))
  BY <1>0, <1>1, <1>c, <1>5, EntryOthers, Zenon
<1>6. ASSUME \A r \in Sockets : r # s => port'[r] = port[r], c.op = "table" => c.p \in Ports /\ port'[s] = c.p
      PROVE  Tabled'
  BY <1>1, <1>c, <1>3, <1>6, TabledStep, Zenon
<1>p. port[s] \in Ports \cup {0} /\ call[t].p \in Ports \cup {0}
  BY <1>0, <1>1, ClosureFacts, CallFacts, Zenon DEF TTyped
<1>o. /\ {"dial", "table", "drop", "CLOSED", "CONNECTING", "LISTENING"} \subseteq CallOps
  BY DEF CallOps, ClosureOps, NewStates
<1>g. ASSUME NEW op \in CallOps, NEW p \in Ports \cup {0}, Goto(t, op, s, p)
      PROVE  c.op = op /\ c.p = p
  <2>1. PICK d \in CallType : Becomes(t, d) /\ d.op = op /\ d.p = p
    BY <1>1, <1>g, GotoFacts0
  <2> QED BY <1>1, <1>d, <2>1, CallSet, Zenon
<1>7. ASSUME call[t].op \notin {"LISTENING", "unlisten", "drop"}, c.op \notin {"LISTENING", "unlisten", "drop"},
             \A r \in Sockets : r # s => port'[r] = port[r],
             \A p \in Ports : table'[p] = None <=> table[p] = None
      PROVE  Entries'
  <2>1. \A p \in Ports \cup {0} : HasEntry(s, p)' <=> HasEntry(s, p)
    BY <1>4, <1>7, WantedOps, Zenon
  <2>2. \A r \in Sockets, p \in Ports \cup {0} : r # s => (HasEntry(r, p)' <=> HasEntry(r, p))
    BY <1>5, <1>7, Zenon
  <2>3. \A r \in Sockets, p \in Ports \cup {0} : HasEntry(r, p)' <=> HasEntry(r, p)
    BY <2>1, <2>2, Zenon
  <2> QED BY <1>7, <2>3, EntriesKept, Zenon
<1>8. ASSUME NEW p \in Ports, BoundEndpoint(t, p) PROVE Entries' /\ Tabled'
  <2>1. /\ call[t].op \in {"connect", "listen"} /\ UNCHANGED table
        /\ \/ call[t].op = "listen" /\ port' = [port EXCEPT ![s] = p] /\ Goto(t, "table", s, p)
           \/ UNCHANGED port /\ Goto(t, "dial", s, p)
    BY <1>0, <1>8, Zenon DEF BoundEndpoint, In
  <2>2. /\ \A r \in Sockets : r # s => port'[r] = port[r]
        /\ (c.op = "table" /\ port'[s] = p) \/ c.op = "dial"
        /\ c.p = p
    BY <1>1, <1>g, <1>o, <2>1, Zenon DEF TTyped
  <2>3. Entries'
    BY <1>7, <2>1, <2>2, Zenon
  <2> QED BY <1>6, <2>2, <2>3, Zenon
<1>9. CASE \/ \E h \in Handles : ConnectOk(t, h) \/ ConnectFails(t, h)
           \/ \E p \in Ports \cup {0} : Bind(t, p)
           \/ ListenNoPort(t) \/ Close(t)
  <2>1. /\ call[t].op \in {"dial", "connect", "bind", "listen", "close"} /\ UNCHANGED table
        /\ Goto(t, "CLOSED", s, 0) \/ Goto(t, "CONNECTING", s, 0)
        /\ port' = port \/ \E v : port' = [port EXCEPT ![s] = v]
    BY <1>0, <1>9, Zenon DEF ConnectFails, ConnectOk, Bind, ListenNoPort, Close, In
  <2>2. c.op \in {"CLOSED", "CONNECTING"}
    BY <1>g, <1>o, <2>1, Zenon
  <2>3. \A r \in Sockets : r # s => port'[r] = port[r]
    BY <1>1, <2>1, Zenon DEF TTyped
  <2>4. Entries'
    BY <1>7, <2>1, <2>2, <2>3, Zenon
  <2> QED BY <1>6, <2>2, <2>3, <2>4, Zenon
<1>10. CASE Listen(t)
  <2>0. PICK p : p = call[t].p
    BY Zenon
  <2>1. /\ call[t].op = "table" /\ UNCHANGED port
        /\ table' = [table EXCEPT ![p] = IF @ = None THEN <<>> ELSE @]
        /\ \/ table[p] = None /\ Goto(t, "LISTENING", s, 0)
           \/ table[p] # None /\ Goto(t, "CLOSED", s, 0)
    BY <1>0, <1>10, <2>0, Zenon DEF Listen, In
  <2>2. p \in Ports /\ port[s] = p
    BY <1>0, <2>0, <2>1, Zenon DEF Tabled
  <2>3. Tabled'
    <3>1. c.op \in {"LISTENING", "CLOSED"}
      BY <1>g, <1>o, <2>1, Zenon
    <3> QED BY <1>6, <2>1, <3>1, Zenon
  <2>4. CASE table[p] = None
    <3>1. c.op = "LISTENING"
      BY <1>g, <1>o, <2>1, <2>4, Zenon
    <3>2. <<>> \in Seq(Handles)
      OBVIOUS
    <3>3. table'[p] # None /\ \A q \in Ports : q # p => table'[q] = table[q]
      BY <1>1, <2>1, <2>2, <2>4, <3>2, NoneAssumption, Zenon DEF TTyped
    <3>4. \A q \in Ports \cup {0} : (HasEntry(s, q)' <=> q = p) /\ ~ HasEntry(s, q)
      BY <1>c, <1>4, <2>1, <2>2, <3>1, Zenon DEF Wanted
    <3>5. \A r \in Sockets, q \in Ports \cup {0} : r # s => (HasEntry(r, q)' <=> HasEntry(r, q))
      BY <1>5, <2>1, Zenon
    <3>6. Entries'
      BY <1>1, <2>2, <2>4, <3>3, <3>4, <3>5, EntryAdded, Zenon
    <3> QED BY <2>3, <3>6, Zenon
  <2>5. CASE table[p] # None
    <3>1. c.op = "CLOSED" /\ table' = table
      BY <1>1, <1>g, <1>o, <2>1, <2>5, Zenon DEF TTyped
    <3>2. Entries'
      BY <1>7, <2>1, <3>1, Zenon
    <3> QED BY <2>3, <3>2, Zenon
  <2> QED BY <2>4, <2>5, Zenon
<1>11. CASE Unlisten(t)
  <2>1. /\ call[t].op = "unlisten" /\ Goto(t, "drop", s, port[s]) /\ port' = [port EXCEPT ![s] = 0] /\ UNCHANGED table
    BY <1>0, <1>11, Zenon DEF Unlisten, In
  <2>2. c.op = "drop" /\ c.p = port[s]
    BY <1>g, <1>o, <1>p, <2>1, Zenon
  <2>3. \A r \in Sockets : r # s => port'[r] = port[r]
    BY <1>1, <2>1, Zenon DEF TTyped
  <2>4. \A p \in Ports \cup {0} : HasEntry(s, p)' <=> HasEntry(s, p)
    BY <1>0, <1>c, <1>4, <2>1, <2>2, Zenon DEF Wanted
  <2>5. \A r \in Sockets, q \in Ports \cup {0} : r # s => (HasEntry(r, q)' <=> HasEntry(r, q))
    BY <1>5, <2>3, Zenon
  <2>6. \A r \in Sockets, q \in Ports \cup {0} : HasEntry(r, q)' <=> HasEntry(r, q)
    BY <2>4, <2>5, Zenon
  <2>7. Entries'
    BY <2>1, <2>6, EntriesKept, Zenon
  <2> QED BY <1>6, <2>2, <2>3, <2>7, Zenon
<1>12. CASE UnlistenTable(t)
  <2>0. PICK p \in Ports \cup {0} : p = call[t].p
    BY <1>p, Zenon
  <2>1. call[t].op = "drop" /\ DropEntry(p) /\ Goto(t, "CLOSED", s, 0) /\ UNCHANGED port
    BY <1>0, <1>12, <2>0, Zenon DEF UnlistenTable, In
  <2>2. c.op = "CLOSED"
    BY <1>g, <1>o, <2>1, Zenon
  <2>3. \A q \in Ports \cup {0} : HasEntry(s, q) <=> q = p
    BY <1>0, <1>4, <2>0, <2>1, Zenon DEF Wanted
  <2>4. \A q \in Ports \cup {0} : ~ HasEntry(s, q)'
    BY <1>4, <2>2, Zenon DEF Wanted
  <2>5. \A r \in Sockets, q \in Ports \cup {0} : r # s => (HasEntry(r, q)' <=> HasEntry(r, q))
    BY <1>5, <2>1, Zenon
  <2>6. \A r \in Sockets, q \in Ports \cup {0} : HasEntry(r, q)' <=> HasEntry(r, q) /\ r # s
    BY <2>4, <2>5, Zenon
  <2>7. \A q \in Ports : table'[q] = IF q = p THEN None ELSE table[q]
    BY <2>1, Zenon DEF DropEntry
  <2>8. Entries'
    BY <1>1, <2>3, <2>6, <2>7, EntryRemoved, Zenon
  <2> QED BY <1>6, <2>1, <2>2, <2>8, Zenon
<1> QED BY <1>8, <1>9, <1>10, <1>11, <1>12, Zenon DEF Closure

LEMMA StoreEntries ==
  ASSUME UInv, stale = {}, Entries, Tabled, NEW t \in Threads, Store(t)
  PROVE  Entries' /\ Tabled'
<1>t. TTyped
  BY Zenon DEF UInv, TInv
<1>0. PICK s \in Sockets, v \in NewStates : s = call[t].s /\ v = call[t].op
  BY <1>t, StoreFacts, Zenon
<1>1. call[t].op \in ClosureOps /\ state' = [state EXCEPT ![s] = v] /\ UNCHANGED <<port, table>>
  BY <1>t, <1>0, StoreFacts, Zenon
<1>c. PICK c : Becomes(t, c) /\ c.op \in {"idle", "poll"}
  BY <1>t, StoreFacts, Zenon
<1>2. InClosure(t, s) /\ Busy(s)
  BY <1>0, <1>1, Zenon DEF UInv, InClosure
<1>3. state[s] = "BUSY" /\ \A u \in Threads : u # t => ~ InClosure(u, s)
  BY <1>2, Zenon DEF Busy
<1>4. \A p \in Ports \cup {0} :
        /\ HasEntry(s, p) <=> (state[s] = "LISTENING" /\ port[s] = p) \/ Wanted(call[t], s, port[s], p)
        /\ HasEntry(s, p)' <=> (state'[s] = "LISTENING" /\ port'[s] = p) \/ Wanted(c, s, port'[s], p)
  BY <1>t, <1>c, <1>3, EntryOwn, Zenon
<1>5. state'[s] = v /\ \A r \in Sockets : r # s => state'[r] = state[r] /\ port'[r] = port[r]
  BY <1>t, <1>1, Zenon DEF TTyped
<1>6. c.op \notin {"LISTENING", "unlisten", "drop", "table"}
  BY <1>c, Zenon
<1>7. \A p \in Ports \cup {0} : HasEntry(s, p)' <=> HasEntry(s, p)
  <2>1. \A p : Wanted(call[t], s, port[s], p) <=> v = "LISTENING" /\ port[s] = p
    BY <1>0, Zenon DEF Wanted, NewStates
  <2>2. \A p : ~ Wanted(c, s, port'[s], p)
    BY <1>6, Zenon DEF Wanted
  <2> QED BY <1>1, <1>3, <1>4, <1>5, <2>1, <2>2, Zenon
<1>8. \A r \in Sockets, p \in Ports \cup {0} : r # s => (HasEntry(r, p)' <=> HasEntry(r, p))
  BY <1>t, <1>0, <1>c, <1>5, <1>6, EntryOthers, Zenon
<1>9. \A r \in Sockets, p \in Ports \cup {0} : HasEntry(r, p)' <=> HasEntry(r, p)
  BY <1>7, <1>8, Zenon
<1>10. Entries'
  BY <1>1, <1>9, EntriesKept, Zenon
<1>11. Tabled'
  BY <1>t, <1>1, <1>c, <1>5, <1>6, TabledStep, Zenon
<1> QED BY <1>10, <1>11, Zenon

LEMMA EnterEntries ==
  ASSUME UInv, stale = {}, Entries, Tabled, NEW t \in Threads, NEW s \in Sockets, NEW op \in BusyOps, Enter(t, s, op)
  PROVE  Entries' /\ Tabled'
<1>t. TTyped
  BY Zenon DEF UInv, TInv
<1>1. /\ state[s] = Expect(op) /\ state' = [state EXCEPT ![s] = "BUSY"] /\ UNCHANGED <<port, table>>
      /\ Goto(t, op, s, 0) /\ call[t] = Idle
  BY Zenon DEF Enter, IsIdle
<1>o. op \in CallOps
  BY Zenon DEF CallOps, ClosureOps
<1>c. PICK c \in CallType : Becomes(t, c) /\ c.op = op /\ c.s = s
  BY <1>1, <1>o, GotoFacts0
<1>2. (op = "unlisten" <=> state[s] = "LISTENING") /\ state[s] # "BUSY" /\ op \notin {"LISTENING", "drop", "table"}
  BY <1>1, Zenon DEF Expect, BusyOps
<1>3. \A u \in Threads : ~ InClosure(u, s)
  BY <1>2, Zenon DEF UInv, Busy
<1>4. \A p \in Ports \cup {0} :
        /\ HasEntry(s, p) <=> (state[s] = "LISTENING" /\ port[s] = p) \/ Wanted(call[t], s, port[s], p)
        /\ HasEntry(s, p)' <=> (state'[s] = "LISTENING" /\ port'[s] = p) \/ Wanted(c, s, port'[s], p)
  BY <1>t, <1>c, <1>3, EntryOwn, Zenon
<1>5. state'[s] = "BUSY" /\ \A r \in Sockets : r # s => state'[r] = state[r] /\ port'[r] = port[r]
  BY <1>t, <1>1, Zenon DEF TTyped
<1>6. \A p \in Ports \cup {0} : HasEntry(s, p)' <=> HasEntry(s, p)
  <2>1. \A p : ~ Wanted(call[t], s, port[s], p)
    BY <1>3, WantedIn, Zenon
  <2>2. \A p : Wanted(c, s, port'[s], p) <=> op = "unlisten" /\ port[s] = p
    BY <1>1, <1>c, <1>2, Zenon DEF Wanted
  <2> QED BY <1>2, <1>4, <1>5, <2>1, <2>2, Zenon
<1>7. call[t].op \notin {"LISTENING", "unlisten", "drop"}
  BY <1>1, IdleIs, Zenon
<1>8. \A r \in Sockets, p \in Ports \cup {0} : r # s => (HasEntry(r, p)' <=> HasEntry(r, p))
  BY <1>t, <1>c, <1>5, <1>7, EntryOthers, Zenon
<1>9. \A r \in Sockets, p \in Ports \cup {0} : HasEntry(r, p)' <=> HasEntry(r, p)
  BY <1>6, <1>8, Zenon
<1>10. Entries'
  BY <1>1, <1>9, EntriesKept, Zenon
<1>11. Tabled'
  BY <1>t, <1>1, <1>c, <1>2, <1>5, TabledStep, Zenon
<1> QED BY <1>10, <1>11, Zenon

LEMMA PollEntries ==
  ASSUME UInv, stale' = {}, Entries, Tabled, NEW t \in Threads, PollConnect(t)
  PROVE  Entries' /\ Tabled'
<1>t. TTyped
  BY Zenon DEF UInv, TInv
<1>0. PICK s : s = call[t].s
  BY Zenon
<1>1. s \in Sockets /\ call[t].op = "poll" /\ Becomes(t, Idle) /\ UNCHANGED table
  BY <1>t, <1>0, CallFacts, Zenon DEF PollConnect, In, Return, Becomes
<1>2. \/ state' = [state EXCEPT ![s] = @] /\ port' = [port EXCEPT ![s] = @]
      \/ /\ state[s] = "CONNECTING"
         /\ \E v \in {"CONNECTED", "CLOSED"} : state' = [state EXCEPT ![s] = v]
         /\ \E v : port' = [port EXCEPT ![s] = v]
  BY <1>0, Zenon DEF PollConnect
<1>3. \A r \in Sockets : r # s => state'[r] = state[r] /\ port'[r] = port[r]
  BY <1>t, <1>2, Zenon DEF TTyped
<1>4. \/ state'[s] = state[s] /\ port'[s] = port[s]
      \/ state[s] = "CONNECTING" /\ state'[s] \in {"CONNECTED", "CLOSED"}
  BY <1>t, <1>1, <1>2, Zenon DEF TTyped
<1>5. Idle.op \notin {"LISTENING", "unlisten", "drop", "table"}
  BY IdleIs, Zenon
<1>6. \A r \in Sockets, p \in Ports \cup {0} : r # s => (HasEntry(r, p)' <=> HasEntry(r, p))
  BY <1>t, <1>0, <1>1, <1>3, <1>5, EntryOthers, Zenon
<1>7. ASSUME \A p \in Ports \cup {0} : HasEntry(s, p)' <=> HasEntry(s, p) PROVE Entries'
  <2>1. \A r \in Sockets, p \in Ports \cup {0} : HasEntry(r, p)' <=> HasEntry(r, p)
    BY <1>6, <1>7, Zenon
  <2> QED BY <1>1, <2>1, EntriesKept, Zenon
<1>8. CASE state'[s] = state[s] /\ port'[s] = port[s]
  <2>1. \A r \in Sockets : state'[r] = state[r] /\ port'[r] = port[r]
    BY <1>3, <1>8, Zenon
  <2>2. \A r \in Sockets, p \in Ports \cup {0} : r # None => (HasEntry(r, p)' <=> HasEntry(r, p))
    BY <1>t, <1>1, <1>5, <2>1, EntryOthers, Zenon
  <2>3. s # None
    BY <1>1, NoneAssumption, Zenon
  <2>4. \A p \in Ports \cup {0} : HasEntry(s, p)' <=> HasEntry(s, p)
    BY <1>1, <2>2, <2>3, Zenon
  <2>5. Tabled'
    BY <1>t, <1>1, <1>3, <1>5, <1>8, TabledStep, Zenon
  <2> QED BY <1>7, <2>4, <2>5, Zenon
<1>9. CASE state[s] = "CONNECTING" /\ state'[s] \in {"CONNECTED", "CLOSED"}
  <2>1. stale = {}
    BY Zenon DEF PollConnect
  <2>2. \A u \in Threads : ~ InClosure(u, s)
    BY <1>1, <1>9, <2>1, Zenon DEF UInv, Busy
  <2>3. \A p \in Ports \cup {0} :
          /\ HasEntry(s, p) <=> (state[s] = "LISTENING" /\ port[s] = p) \/ Wanted(call[t], s, port[s], p)
          /\ HasEntry(s, p)' <=> (state'[s] = "LISTENING" /\ port'[s] = p) \/ Wanted(Idle, s, port'[s], p)
    BY <1>t, <1>1, <2>2, EntryOwn, Zenon
  <2>4. \A q, p : ~ Wanted(call[t], s, q, p) /\ ~ Wanted(Idle, s, q, p)
    BY <1>1, <1>5, Zenon DEF Wanted
  <2>5. \A p \in Ports \cup {0} : HasEntry(s, p)' <=> HasEntry(s, p)
    BY <1>9, <2>3, <2>4, Zenon
  <2>6. Tabled'
    BY <1>t, <1>1, <1>3, <1>5, <2>2, TabledStep, Zenon
  <2> QED BY <1>7, <2>5, <2>6, Zenon
<1> QED BY <1>4, <1>8, <1>9, Zenon

\* The calls that do not touch the states, the addresses or the entries.
LEMMA OutsideEntries ==
  ASSUME TTyped, Entries, Tabled, NEW t \in Threads, NEW c, Becomes(t, c), UNCHANGED <<state, port>>,
         call[t].op \notin ClosureOps, c.op \notin ClosureOps,
         \A p \in Ports : table'[p] = None <=> table[p] = None
  PROVE  Entries' /\ Tabled'
<1>1. {"LISTENING", "unlisten", "drop", "table"} \subseteq ClosureOps
  BY DEF ClosureOps, BusyOps, NewStates
<1>2. \A r \in Sockets, p \in Ports \cup {0} : r # None => (HasEntry(r, p)' <=> HasEntry(r, p))
  BY <1>1, EntryOthers, Zenon
<1>3. \A r \in Sockets, p \in Ports \cup {0} : HasEntry(r, p)' <=> HasEntry(r, p)
  BY <1>2, NoneAssumption, Zenon
<1>4. Entries'
  BY <1>3, EntriesKept, Zenon
<1>5. CASE Sockets = {}
  <2>1. call'[t] = c /\ \A u \in Threads : u # t => call'[u] = call[u]
    BY CallSet, Zenon
  <2> QED BY <1>1, <1>4, <2>1, Zenon DEF Tabled
<1>6. CASE \E s \in Sockets : TRUE
  BY <1>1, <1>4, <1>6, TabledStep, Zenon
<1> QED BY <1>5, <1>6, Zenon

LEMMA AcceptEntries ==
  ASSUME UInv, stale = {}, Entries, Tabled, NEW t \in Threads, NEW s \in Sockets, AcceptTake(t, s)
  PROVE  Entries' /\ Tabled'
<1>0. TInv /\ TTyped
  BY Zenon DEF UInv, TInv
<1>1. call[t].op = "take" /\ state[s] = "unused"
  BY <1>0, AcceptFacts, Zenon
<1>2. CASE UNCHANGED <<state, port, table, call>>
  <2>1. \A r \in Sockets, p \in Ports \cup {0} : HasEntry(r, p)' <=> HasEntry(r, p)
    BY <1>2, Zenon DEF HasEntry
  <2>2. Entries'
    BY <1>2, <2>1, EntriesKept, Zenon
  <2> QED BY <1>2, <2>2, Zenon DEF Tabled
<1>3. CASE ~ UNCHANGED <<state, port, table, call>>
  <2>1. PICK p, k : Taken(t, s, p, k)
    BY <1>0, <1>3, AcceptFacts, Zenon
  <2>2. /\ p \in Ports /\ table[p] # None /\ table[p] \in Seq(Handles) /\ k \in DOMAIN table[p]
        /\ table' = [table EXCEPT ![p] = SwapRemoveFront(table[p], k)]
        /\ state' = [state EXCEPT ![s] = "CONNECTED"] /\ port' = [port EXCEPT ![s] = p]
        /\ Becomes(t, Idle)
    BY <2>1, Zenon DEF Taken
  <2>3. SwapRemoveFront(table[p], k) \in Seq(Handles)
    BY <2>2, SwapRemoved, Zenon
  <2>4. \A q \in Ports : table'[q] = None <=> table[q] = None
    BY <1>0, <2>2, <2>3, NoneAssumption, Zenon DEF TTyped
  <2>5. \A u \in Threads : ~ InClosure(u, s)
    BY <1>1, Zenon DEF UInv, Busy
  <2>6. \A q \in Ports \cup {0} :
          /\ HasEntry(s, q) <=> (state[s] = "LISTENING" /\ port[s] = q) \/ Wanted(call[t], s, port[s], q)
          /\ HasEntry(s, q)' <=> (state'[s] = "LISTENING" /\ port'[s] = q) \/ Wanted(Idle, s, port'[s], q)
    BY <1>0, <2>2, <2>5, EntryOwn, Zenon
  <2>7. Idle.op \notin {"LISTENING", "unlisten", "drop", "table"}
    BY IdleIs, Zenon
  <2>8. \A r, q : ~ Wanted(call[t], s, r, q) /\ ~ Wanted(Idle, s, r, q)
    BY <1>1, <2>7, Zenon DEF Wanted
  <2>9. state'[s] = "CONNECTED" /\ \A r \in Sockets : r # s => state'[r] = state[r] /\ port'[r] = port[r]
    BY <1>0, <2>2, Zenon DEF TTyped
  <2>10. \A q \in Ports \cup {0} : HasEntry(s, q)' <=> HasEntry(s, q)
    BY <1>1, <2>6, <2>8, <2>9, Zenon
  <2>11. \A r \in Sockets, q \in Ports \cup {0} : r # s => (HasEntry(r, q)' <=> HasEntry(r, q))
    BY <1>0, <1>1, <2>2, <2>7, <2>9, EntryOthers, Zenon
  <2>12. \A r \in Sockets, q \in Ports \cup {0} : HasEntry(r, q)' <=> HasEntry(r, q)
    BY <2>10, <2>11, Zenon
  <2>13. Entries'
    BY <2>4, <2>12, EntriesKept, Zenon
  <2>14. Tabled'
    BY <1>0, <2>2, <2>5, <2>7, <2>9, TabledStep, Zenon
  <2> QED BY <2>13, <2>14, Zenon
<1> QED BY <1>2, <1>3, Zenon

LEMMA NewDropEntries ==
  ASSUME UInv, stale = {}, Entries, Tabled, NEW s \in Sockets, New(s) \/ Drop(s)
  PROVE  Entries' /\ Tabled'
<1>t. TTyped
  BY Zenon DEF UInv, TInv
<1>u. UNCHANGED call
  BY Zenon DEF New, Drop
<1>n. ASSUME NEW r \in Sockets, NEW p
      PROVE HasEntry(r, p)' <=> (state'[r] = "LISTENING" /\ port'[r] = p) \/ \E u \in Threads : Wanted(call[u], r, port'[r], p)
  BY <1>u, Zenon DEF HasEntry, Wanted
<1>o. ASSUME \A r \in Sockets : r # s => state'[r] = state[r] /\ port'[r] = port[r]
      PROVE  \A r \in Sockets, p \in Ports \cup {0} : r # s => (HasEntry(r, p)' <=> HasEntry(r, p))
  BY <1>o, <1>n, EntryWanted, Zenon
<1>1. CASE New(s)
  <2>1. state[s] = "unused" /\ state' = [state EXCEPT ![s] = "CLOSED"] /\ UNCHANGED <<port, table>>
    BY <1>1, Zenon DEF New
  <2>2. state'[s] = "CLOSED" /\ \A r \in Sockets : r # s => state'[r] = state[r] /\ port'[r] = port[r]
    BY <1>t, <2>1, Zenon DEF TTyped
  <2>3. \A p : HasEntry(s, p)' <=> HasEntry(s, p)
    BY <1>n, <2>1, <2>2, EntryWanted, Zenon
  <2>4. \A r \in Sockets, p \in Ports \cup {0} : HasEntry(r, p)' <=> HasEntry(r, p)
    BY <1>o, <2>2, <2>3, Zenon
  <2>5. Entries'
    BY <2>1, <2>4, EntriesKept, Zenon
  <2> QED BY <1>u, <2>1, <2>5, Zenon DEF Tabled
<1>2. CASE Drop(s)
  <2>1. /\ state' = [state EXCEPT ![s] = "unused"] /\ port' = [port EXCEPT ![s] = 0]
        /\ \A t \in Threads : call[t].s # s
        /\ table' = [p \in Ports |-> IF p \in (IF state[s] = "LISTENING" THEN {port[s]} \cap Ports ELSE {})
                                     THEN None ELSE table[p]]
    BY <1>2, Zenon DEF Drop
  <2>2. /\ state'[s] = "unused" /\ \A r \in Sockets : r # s => state'[r] = state[r] /\ port'[r] = port[r]
    BY <1>t, <2>1, Zenon DEF TTyped
  <2>3. \A u \in Threads : \A q, p : ~ Wanted(call[u], s, q, p)
    BY <2>1, Zenon DEF Wanted
  <2>4. \A p : HasEntry(s, p) <=> state[s] = "LISTENING" /\ port[s] = p
    BY <2>3, EntryWanted, Zenon
  <2>5. \A p : ~ HasEntry(s, p)'
    BY <1>n, <2>2, <2>3, Zenon
  <2>6. \A r \in Sockets, p \in Ports \cup {0} : r # s => (HasEntry(r, p)' <=> HasEntry(r, p))
    BY <1>o, <2>2, Zenon
  <2>7. Tabled'
    <3> SUFFICES ASSUME NEW t \in Threads, call[t].op = "table" PROVE call[t].p \in Ports /\ port'[call[t].s] = call[t].p
      BY <1>u, Zenon DEF Tabled
    <3>1. call[t].s \in Sockets
      BY <1>t, CallFacts, Zenon
    <3> QED BY <2>1, <2>2, <3>1, Zenon DEF Tabled
  <2>8. CASE state[s] = "LISTENING"
    <3>0. PICK p \in Ports \cup {0} : p = port[s]
      BY <1>t, Zenon DEF TTyped
    <3>1. \A q \in Ports : table'[q] = IF q = p THEN None ELSE table[q]
      BY <2>1, <2>8, <3>0, Zenon
    <3>2. \A q \in Ports \cup {0} : HasEntry(s, q) <=> q = p
      BY <2>4, <2>8, <3>0, Zenon
    <3>3. \A r \in Sockets, q \in Ports \cup {0} : HasEntry(r, q)' <=> HasEntry(r, q) /\ r # s
      BY <2>5, <2>6, Zenon
    <3>4. Entries'
      BY <3>1, <3>2, <3>3, EntryRemoved, Zenon
    <3> QED BY <2>7, <3>4, Zenon
  <2>9. CASE state[s] # "LISTENING"
    <3>1. \A q \in Ports : table'[q] = table[q]
      BY <2>1, <2>9, Zenon
    <3>2. \A r \in Sockets, q \in Ports \cup {0} : HasEntry(r, q)' <=> HasEntry(r, q)
      BY <2>4, <2>5, <2>6, <2>9, Zenon
    <3>3. Entries'
      BY <3>1, <3>2, EntriesKept, Zenon
    <3> QED BY <2>7, <3>3, Zenon
  <2> QED BY <2>8, <2>9, Zenon
<1> QED BY <1>1, <1>2, Zenon

LEMMA NextEInv == EInv /\ [Next]_vars => EInv'
<1> SUFFICES ASSUME EInv, [Next]_vars, stale' = {} PROVE Entries' /\ Tabled'
  BY NextUInv, Zenon DEF EInv
<1>0. UInv /\ TInv /\ TTyped
  BY Zenon DEF EInv, UInv, TInv
<1>s. stale = {}
  <2>1. ASSUME NEW t \in Threads, Closure(t) \/ Store(t) \/ Accept(t) PROVE stale \subseteq stale'
    BY <1>0, <2>1, ClosureFacts, StoreFacts, AcceptSteps, Zenon
  <2>2. CASE \/ \E s \in Sockets : New(s) \/ Drop(s)
             \/ \E t \in Threads, s \in Sockets :
                  \/ \E op \in BusyOps : Enter(t, s, op)
                  \/ PollStart(t, s) \/ StreamStart(t, s) \/ AcceptStart(t, s) \/ AcceptTake(t, s)
             \/ \E t \in Threads : PollConnect(t) \/ StreamEnd(t)
             \/ \E p \in Ports, h \in Handles, taker \in Handles \cup {None} : Incoming(p, h, taker)
             \/ \E h \in Handles, st \in {"Established", "Listen", "Closing", "Closed"} : Packet(h, st)
             \/ UNCHANGED vars
    BY <2>2, Zenon DEF vars, New, Drop, Enter, PollStart, StreamStart, AcceptStart, AcceptTake, PollConnect, StreamEnd,
                       Incoming, Packet
  <2>3. stale \subseteq stale'
    BY <2>1, <2>2, Zenon DEF Next
  <2> QED BY <2>3, Zenon
<1>e. Entries /\ Tabled
  BY <1>s, Zenon DEF EInv
<1>k. ASSUME UNCHANGED <<state, port, call>>, \A p \in Ports : table'[p] = None <=> table[p] = None
      PROVE  Entries' /\ Tabled'
  <2>1. \A r \in Sockets, p \in Ports \cup {0} : HasEntry(r, p)' <=> HasEntry(r, p)
    BY <1>k, Zenon DEF HasEntry
  <2>2. Entries'
    BY <1>e, <1>k, <2>1, EntriesKept, Zenon
  <2> QED BY <1>e, <1>k, <2>2, Zenon DEF Tabled
<1>o. \A op \in {"idle", "poll", "stream", "accept", "queue", "scan", "take"} : op \notin ClosureOps
  BY DEF ClosureOps, BusyOps, NewStates
<1>1. ASSUME NEW s \in Sockets, New(s) \/ Drop(s) PROVE Entries' /\ Tabled'
  BY <1>0, <1>s, <1>e, <1>1, NewDropEntries, Zenon
<1>2. ASSUME NEW t \in Threads, Store(t) PROVE Entries' /\ Tabled'
  BY <1>0, <1>s, <1>e, <1>2, StoreEntries, Zenon
<1>3. ASSUME NEW t \in Threads, NEW s \in Sockets, NEW op \in BusyOps, Enter(t, s, op) PROVE Entries' /\ Tabled'
  BY <1>0, <1>s, <1>e, <1>3, EnterEntries, Zenon
<1>4. ASSUME NEW t \in Threads, Closure(t) PROVE Entries' /\ Tabled'
  BY <1>0, <1>s, <1>e, <1>4, ClosureEntries, Zenon
<1>5. ASSUME NEW t \in Threads, NEW s \in Sockets, PollStart(t, s) \/ StreamStart(t, s) \/ AcceptStart(t, s)
      PROVE  Entries' /\ Tabled'
  <2>1. call[t].op \notin ClosureOps /\ UNCHANGED <<state, port, table>>
    BY <1>0, <1>5, IdleIs, StartFacts, Zenon
  <2>2. PICK c : Becomes(t, c) /\ c.op \in {"poll", "stream", "accept"}
    BY <1>0, <1>5, StartFacts, Zenon
  <2>3. c.op \notin ClosureOps
    BY <1>o, <2>2, Zenon
  <2> QED BY <1>0, <1>e, <2>1, <2>2, <2>3, OutsideEntries, Zenon
<1>6. ASSUME NEW t \in Threads, StreamEnd(t) PROVE Entries' /\ Tabled'
  <2>1. Becomes(t, Idle) /\ UNCHANGED <<state, port, table>> /\ call[t].op = "stream"
    BY <1>6, Zenon DEF StreamEnd, In, Return, Becomes
  <2>2. call[t].op \notin ClosureOps /\ Idle.op \notin ClosureOps
    BY <1>o, <2>1, IdleIs, Zenon
  <2> QED BY <1>0, <1>e, <2>1, <2>2, OutsideEntries, Zenon
<1>7. ASSUME NEW t \in Threads, Accept(t) PROVE Entries' /\ Tabled'
  <2>1. call[t].op \in {"accept", "queue", "scan"} /\ UNCHANGED <<state, port, table>>
    BY <1>0, <1>7, AcceptSteps, Zenon
  <2>2. PICK c : Becomes(t, c) /\ c.op \in {"idle", "queue", "scan", "take"}
    BY <1>0, <1>7, AcceptSteps, Zenon
  <2>3. call[t].op \notin ClosureOps /\ c.op \notin ClosureOps
    BY <1>o, <2>1, <2>2, Zenon
  <2> QED BY <1>0, <1>e, <2>1, <2>2, <2>3, OutsideEntries, Zenon
<1>8. ASSUME NEW t \in Threads, NEW s \in Sockets, AcceptTake(t, s) PROVE Entries' /\ Tabled'
  BY <1>0, <1>s, <1>e, <1>8, AcceptEntries, Zenon
<1>9. ASSUME NEW t \in Threads, PollConnect(t) PROVE Entries' /\ Tabled'
  BY <1>0, <1>e, <1>9, PollEntries, Zenon
<1>10. ASSUME NEW p \in Ports, NEW h \in Handles, NEW taker \in Handles \cup {None}, Incoming(p, h, taker)
      PROVE  Entries' /\ Tabled'
  <2>1. table[p] # None /\ table' = [table EXCEPT ![p] = Append(@, h)] /\ UNCHANGED <<state, port, call>>
    BY <1>10, Zenon DEF Incoming
  <2>2. Append(table[p], h) \in Seq(Handles)
    BY <1>0, <2>1 DEF TTyped
  <2>3. \A q \in Ports : table'[q] = None <=> table[q] = None
    BY <1>0, <2>1, <2>2, NoneAssumption, Zenon DEF TTyped
  <2> QED BY <1>k, <2>1, <2>3, Zenon
<1>11. ASSUME NEW h \in Handles, NEW st, Packet(h, st) PROVE Entries' /\ Tabled'
  BY <1>k, <1>11, Zenon DEF Packet
<1>12. CASE UNCHANGED vars
  BY <1>k, <1>12, Zenon DEF vars
<1> QED BY <1>1, <1>2, <1>3, <1>4, <1>5, <1>6, <1>7, <1>8, <1>9, <1>10, <1>11, <1>12, Zenon DEF Next

\* LISTEN_TABLE and the states agree: whoever is LISTENING has the entry of its
\* port to itself, and an entry without a listener is being made or removed, as
\* long as no late poll_connect has overwritten a state.
THEOREM ListenersOwnEntries == Spec => []ListenerHasEntry
<1>1. Init => EInv
  <2> SUFFICES ASSUME Init PROVE Entries /\ Tabled
    BY InitUInv, Zenon DEF EInv
  <2>1. \A t \in Threads : call[t].op = "idle"
    BY IdleIs, Zenon DEF Init
  <2>2. \A s \in Sockets, p \in Ports \cup {0} : ~ HasEntry(s, p)
    BY <2>1, Zenon DEF HasEntry, Init
  <2> QED BY <2>1, <2>2, Zenon DEF Entries, Tabled, Init
<1>2. EInv => ListenerHasEntry
  <2> SUFFICES ASSUME EInv, stale = {} PROVE ListenerHasEntry
    BY Zenon DEF ListenerHasEntry
  <2>1. Entries /\ TTyped
    BY Zenon DEF EInv, UInv, TInv
  <2>2. \A s \in Sockets : state[s] = "LISTENING" => port[s] \in Listening
    BY <2>1, Zenon DEF Entries, HasEntry, Listening, TTyped
  <2> QED BY <2>1, <2>2, Zenon DEF Entries, Listening, ListenerHasEntry
<1> QED BY <1>1, <1>2, NextEInv, PTL DEF Spec

-----------------------------------------------------------------------------
(* Tcp: the queue comes forward. *)

\* What a scan of port p, now at place k, should find (S) is in the queue and
\* connected, and none of it has been passed over.
Ahead(S, p, k) ==
  /\ S \subseteq Queued(p) /\ \A h \in S : IsConnected(h)
  /\ \A j \in DOMAIN table[p] : j < k => table[p][j] \notin S

Scans == \A t \in Threads : Scanning(t) => Ahead(seen[t], call[t].p, call[t].k)

SInv == HInv /\ Scans

LEMMA AheadKept ==
  ASSUME HInv, NEW S, NEW p \in Ports, NEW k, Ahead(S, p, k), table'[p] = table[p],
         \A h \in Handles : net[h] # "free" /\ IsConnected(h) => IsConnected(h)'
  PROVE  Ahead(S, p, k)'
<1>1. Queued(p)' = Queued(p)
  BY Zenon DEF Queued
<1>2. \A h \in S : h \in Handles /\ net[h] # "free"
  BY Zenon DEF Ahead, HInv, Owned, Live
<1> QED BY <1>1, <1>2, Zenon DEF Ahead

LEMMA Passed == \A j, k \in Nat : j < k + 1 => j < k \/ j = k
  OBVIOUS

LEMMA ScanScans ==
  ASSUME SInv, NEW t \in Threads, AcceptLock(t) \/ AcceptScan(t) \/ AcceptNothing(t)
  PROVE  Scans'
<1>0. HInv /\ TInv /\ TTyped /\ Scans
  BY Zenon DEF SInv, HInv, TInv
<1>1. /\ UNCHANGED <<table, net>> /\ call[t].s \in Sockets /\ call[t].op # "idle"
      /\ \E c \in {Idle} \cup CallType : Becomes(t, c)
      /\ call[t].op \in {"queue", "scan"}
  <2>1. Accept(t)
    BY Zenon DEF Accept
  <2>2. call[t].op \in {"queue", "scan"} /\ call[t].op # "idle"
    BY Zenon DEF AcceptLock, AcceptScan, AcceptNothing, In
  <2> QED BY <1>0, <2>1, <2>2, AcceptSteps, Zenon
<1>2. PICK c \in {Idle} \cup CallType : Becomes(t, c)
  BY <1>1, Zenon
<1>3. call'[t] = c /\ \A u \in Threads : u # t => call'[u] = call[u]
  BY <1>0, <1>2, CallSet, Zenon
<1>4. \A u \in Threads : u # t => seen'[u] = seen[u]
  <2>1. seen' = seen \/ \E S : seen' = [seen EXCEPT ![t] = S]
    BY Zenon DEF AcceptLock, AcceptScan, AcceptNothing
  <2> QED BY <1>0, <2>1, Zenon DEF TTyped
<1>5. \A S, p, k : Ahead(S, p, k)' <=> Ahead(S, p, k)
  BY <1>1, Zenon DEF Ahead, Queued, IsConnected
<1>6. \A u \in Threads : u # t /\ Scanning(u)' => Ahead(seen[u], call[u].p, call[u].k)
  BY <1>0, <1>3, Zenon DEF Scans, Scanning
<1>7. ASSUME Scanning(t)' PROVE Ahead(seen'[t], call'[t].p, call'[t].k)
  <2>p. PICK p \in Ports \cup {0}, k \in Nat, s \in Sockets : p = call[t].p /\ k = call[t].k /\ s = call[t].s
    BY <1>0, <1>1, CallFacts, Zenon
  <2>o. {"scan", "take", "queue"} \subseteq CallOps /\ 1 \in Nat /\ k + 1 \in Nat /\ Idle.op \notin {"scan", "take"}
    BY IdleIs DEF CallOps
  <2>g. ASSUME NEW op \in CallOps, NEW m \in Nat, GotoAt(t, op, s, p, m)
        PROVE  c.op = op /\ c.p = p /\ c.k = m
    <3>1. PICK d \in CallType : Becomes(t, d) /\ d.op = op /\ d.p = p /\ d.k = m
      BY <2>g, GotoFacts
    <3> QED BY <1>0, <1>3, <3>1, CallSet, Zenon
  <2>i. ~ Return(t)
    <3>1. Return(t) => call'[t] = Idle
      BY <1>0, Zenon DEF Return, TTyped
    <3> QED BY <1>7, <2>o, <3>1, Zenon DEF Scanning
  <2>1. CASE AcceptLock(t)
    <3>1. /\ p \in Listening /\ GotoAt(t, "scan", s, p, 1)
          /\ seen' = [seen EXCEPT ![t] = {h \in Range(table[p]) : IsConnected(h)}]
      BY <2>1, <2>i, <2>p, Zenon DEF AcceptLock
    <3>2. c.p = p /\ c.k = 1 /\ seen'[t] = {h \in Range(table[p]) : IsConnected(h)} /\ p \in Ports /\ table[p] # None
      BY <1>0, <2>g, <2>o, <3>1, Zenon DEF TTyped, Listening
    <3>3. \A j \in DOMAIN table[p] : ~ (j < 1)
      BY <1>0, <3>2, SMTT(30) DEF TTyped
    <3>4. Ahead(seen'[t], p, 1)
      BY <3>2, <3>3, Zenon DEF Ahead, Queued
    <3> QED BY <1>3, <3>2, <3>4, Zenon
  <2>2. CASE AcceptScan(t)
    <3>1. /\ call[t].op = "scan" /\ k \in DOMAIN table[p] /\ UNCHANGED seen
          /\ \/ GotoAt(t, "take", s, p, k)
             \/ ~ IsConnected(table[p][k]) /\ GotoAt(t, "scan", s, p, k + 1)
      BY <2>2, <2>p, Zenon DEF AcceptScan, In
    <3>2. Ahead(seen[t], p, k) /\ p \in Ports /\ table[p] # None
      BY <1>0, <2>p, <3>1, Zenon DEF Scans, Scanning, TInv, Locking
    <3>3. CASE GotoAt(t, "take", s, p, k)
      <4>1. c.p = p /\ c.k = k
        BY <2>g, <2>o, <3>3, Zenon
      <4> QED BY <1>3, <3>1, <3>2, <4>1, Zenon
    <3>4. CASE ~ IsConnected(table[p][k]) /\ GotoAt(t, "scan", s, p, k + 1)
      <4>1. c.p = p /\ c.k = k + 1
        BY <2>g, <2>o, <3>4, Zenon
      <4>2. \A j \in DOMAIN table[p] : j \in Nat
        BY <1>0, <3>2, SMTT(30) DEF TTyped
      <4>3. \A j \in DOMAIN table[p] : j < k + 1 => table[p][j] \notin seen[t]
        BY <3>2, <3>4, <4>2, Passed, Zenon DEF Ahead
      <4>4. Ahead(seen[t], p, k + 1)
        BY <3>2, <4>3, Zenon DEF Ahead
      <4> QED BY <1>3, <3>1, <4>1, <4>4, Zenon
    <3> QED BY <3>1, <3>3, <3>4, Zenon
  <2>3. CASE AcceptNothing(t)
    <3>1. GotoAt(t, "queue", s, p, 0)
      BY <2>3, <2>i, <2>p, Zenon DEF AcceptNothing, Goto
    <3>2. 0 \in Nat
      OBVIOUS
    <3>3. c.op = "queue"
      BY <2>g, <2>o, <3>1, <3>2, Zenon
    <3> QED BY <1>3, <1>7, <3>3, Zenon DEF Scanning
  <2> QED BY <2>1, <2>2, <2>3, Zenon
<1>8. \A u \in Threads : Scanning(u)' => Ahead(seen'[u], call'[u].p, call'[u].k)
  BY <1>3, <1>4, <1>6, <1>7, Zenon
<1> QED BY <1>5, <1>8, Zenon DEF Scans, Ahead, Queued, IsConnected

LEMMA TakeScans ==
  ASSUME SInv, NEW t \in Threads, NEW s \in Sockets, AcceptTake(t, s)
  PROVE  Scans'
<1>0. HInv /\ TInv /\ TTyped /\ Scans
  BY Zenon DEF SInv, HInv, TInv
<1>1. UNCHANGED net /\ call[t].op = "take"
  BY <1>0, AcceptFacts, Zenon
<1>2. CASE UNCHANGED <<table, call, seen>>
  BY <1>0, <1>1, <1>2, Zenon DEF Scans, Scanning, Ahead, Queued, IsConnected
<1>3. CASE ~ UNCHANGED <<table, call, seen>>
  <2>1. PICK p, k : Taken(t, s, p, k)
    BY <1>0, <1>3, AcceptFacts, Zenon
  <2>2. /\ p = call[t].p /\ p \in Ports /\ Becomes(t, Idle) /\ seen' = [seen EXCEPT ![t] = {}]
        /\ table' = [table EXCEPT ![p] = SwapRemoveFront(table[p], k)]
    BY <2>1, Zenon DEF Taken
  <2>3. /\ call'[t] = Idle /\ \A u \in Threads : u # t => call'[u] = call[u]
        /\ \A u \in Threads : u # t => seen'[u] = seen[u]
        /\ \A q \in Ports : q # p => table'[q] = table[q]
    BY <1>0, <2>2, CallSet, Zenon DEF TTyped
  <2>4. SUFFICES ASSUME NEW u \in Threads, Scanning(u)' PROVE Ahead(seen[u], call[u].p, call[u].k)'
    BY Zenon DEF Scans, Ahead
  <2>5. u # t /\ Scanning(u)
    BY <2>3, <2>4, IdleIs, Zenon DEF Scanning
  <2>6. call[u].p \in Ports /\ call[u].p # p /\ Ahead(seen[u], call[u].p, call[u].k)
    BY <1>0, <1>1, <2>2, <2>5, Zenon DEF Scans, TInv, Locking, Scanning
  <2>7. PICK S, q, m : S = seen[u] /\ q = call[u].p /\ m = call[u].k
    BY Zenon
  <2>8. Ahead(S, q, m)'
    <3>1. \A h \in Handles : net[h] # "free" /\ IsConnected(h) => IsConnected(h)'
      BY <1>1, Zenon DEF IsConnected
    <3> QED BY <1>0, <2>3, <2>6, <2>7, <3>1, AheadKept, Zenon
  <2> QED BY <2>3, <2>5, <2>7, <2>8, Zenon DEF Ahead
<1> QED BY <1>2, <1>3, Zenon

LEMMA NextSInv == SInv /\ [Next]_vars => SInv'
<1> SUFFICES ASSUME SInv, [Next]_vars PROVE Scans'
  BY NextHInv, Zenon DEF SInv
<1>0. HInv /\ TInv /\ TTyped /\ Scans
  BY Zenon DEF SInv, HInv, TInv
<1>1. CASE Quiet
  <2> SUFFICES ASSUME NEW u \in Threads, Scanning(u)' PROVE Ahead(seen[u], call[u].p, call[u].k)'
    BY Zenon DEF Scans, Ahead
  <2>1. call'[u] = call[u] /\ seen' = seen /\ Scanning(u)
    BY <1>1, Zenon DEF Quiet, Scanning
  <2>2. PICK S, q, m : S = seen[u] /\ q = call[u].p /\ m = call[u].k
    BY Zenon
  <2>3. q \in Ports /\ Locked(q) /\ Ahead(S, q, m)
    BY <1>0, <2>1, <2>2, Zenon DEF Scans, TInv, Locking, Scanning, Locked
  <2>4. Ahead(S, q, m)'
    BY <1>0, <1>1, <2>3, AheadKept, Zenon DEF Quiet
  <2> QED BY <2>1, <2>2, <2>4, Zenon DEF Ahead
<1> QED BY <1>0, <1>1, QuietOrAccept, ScanScans, TakeScans, Zenon

\* What swap_remove_front leaves of a queue without repetitions: nothing behind
\* the place taken stays where it was, and nothing in front of it is in S.
LEMMA Nearer ==
  ASSUME NEW q \in Seq(Handles), NEW R, Lists(q, R), NEW k \in DOMAIN q, NEW S,
         \A j \in DOMAIN q : j < k => q[j] \notin S,
         NEW i \in DOMAIN SwapRemoveFront(q, k), NEW j \in DOMAIN q,
         SwapRemoveFront(q, k)[i] = q[j], q[j] \in S
  PROVE  i < j
<1> DEFINE r == SwapRemoveFront(q, k)
<1>0. /\ Len(q) \in Nat /\ DOMAIN q = 1 .. Len(q) /\ DOMAIN r = 1 .. Len(q) - 1
      /\ \A m \in 1 .. Len(q) - 1 : r[m] = IF m + 1 = k THEN q[1] ELSE q[m + 1]
  BY SwapRemoved, Zenon
<1>1. /\ Len(q) \in Nat /\ DOMAIN q = 1 .. Len(q) /\ i \in 1 .. Len(q) - 1
      /\ q[j] = IF i + 1 = k THEN q[1] ELSE q[i + 1]
  <2> HIDE DEF r
  <2>1. i \in DOMAIN r /\ r[i] = q[j]
    BY Zenon DEF r
  <2> QED BY <1>0, <2>1, Zenon
<1> HIDE DEF r
<1>2. \A a, b \in 1 .. Len(q) : q[a] = q[b] => a = b
  BY <1>1, Zenon DEF Lists
<1>3. i \in Nat /\ i + 1 \in 1 .. Len(q) /\ 1 \in 1 .. Len(q) /\ j \in Nat /\ k \in Nat
  BY <1>1
<1>4. CASE i + 1 = k
  <2>1. j = 1 /\ 1 < k
    BY <1>1, <1>2, <1>3, <1>4
  <2> QED BY <2>1, Zenon
<1>5. CASE i + 1 # k
  <2>1. j = i + 1
    BY <1>1, <1>2, <1>3, <1>5, Zenon
  <2> QED BY <1>3, <2>1, SMTT(30)
<1> QED BY <1>4, <1>5, Zenon

\* When accept takes a connection out of a SYN queue, every other one that was
\* established when it locked the entry comes nearer to the front, whatever the
\* packets that arrive between the looks at two sockets of the queue make of
\* the rest, so none is overtaken for ever.
THEOREM AcceptNearer == Spec => AcceptComesNearer
<1> DEFINE A == \A t \in Threads, p \in Ports :
                  call[t].op = "take" /\ call[t].p = p /\ call'[t].op # "take" =>
                    \A h \in seen[t] \cap Range(table'[p]) : Place(p, h)' < Place(p, h)
<1>1. SInv /\ [Next]_vars => A
  <2> SUFFICES ASSUME SInv, [Next]_vars, NEW t \in Threads, NEW p \in Ports,
                      call[t].op = "take", call[t].p = p, call'[t].op # "take",
                      NEW h \in seen[t] \cap Range(table'[p])
               PROVE  Place(p, h)' < Place(p, h)
    BY Zenon DEF A
  <2>0. HInv /\ TInv /\ TTyped /\ Scans /\ Orderly
    BY Zenon DEF SInv, HInv, TInv
  <2>1. ~ Quiet
    BY Zenon DEF Quiet, Scanning
  <2>2. ~ \E u \in Threads : AcceptLock(u) \/ AcceptScan(u) \/ AcceptNothing(u)
    <3> SUFFICES ASSUME NEW u \in Threads, AcceptLock(u) \/ AcceptScan(u) \/ AcceptNothing(u) PROVE FALSE
      BY Zenon
    <3>1. u # t
      BY Zenon DEF AcceptLock, AcceptScan, AcceptNothing, In
    <3>2. Accept(u)
      BY Zenon DEF Accept
    <3>3. PICK c : Becomes(u, c)
      BY <2>0, <3>2, AcceptSteps, Zenon
    <3> QED BY <2>0, <3>1, <3>3, CallSet, Zenon
  <2>3. PICK u \in Threads, s \in Sockets : AcceptTake(u, s)
    BY <2>0, <2>1, <2>2, QuietOrAccept, Zenon
  <2>4. ~ UNCHANGED call
    BY Zenon
  <2>5. PICK r, k : Taken(u, s, r, k)
    BY <2>0, <2>3, <2>4, AcceptFacts, Zenon
  <2>6. u = t
    BY <2>0, <2>5, CallSet, Zenon DEF Taken
  <2>7. /\ r = p /\ k = call[t].k /\ table[p] # None /\ table[p] \in Seq(Handles) /\ k \in DOMAIN table[p]
        /\ table' = [table EXCEPT ![p] = SwapRemoveFront(table[p], k)]
    BY <2>5, <2>6, Zenon DEF Taken
  <2>8. table'[p] = SwapRemoveFront(table[p], k) /\ Lists(table[p], Queued(p))
    BY <2>0, <2>7, Zenon DEF TTyped, Orderly
  <2>9. Ahead(seen[t], p, k)
    BY <2>0, <2>7, Zenon DEF Scans, Scanning
  <2>10. \E j \in DOMAIN table[p] : table[p][j] = h
    BY <2>7, <2>9, Zenon DEF Ahead, Queued, Range
  <2>11. \E i \in DOMAIN table'[p] : table'[p][i] = h
    BY Zenon DEF Range
  <2>12. Place(p, h) \in DOMAIN table[p] /\ table[p][Place(p, h)] = h
    BY <2>10, Zenon DEF Place
  <2>13. Place(p, h)' \in DOMAIN table'[p] /\ table'[p][Place(p, h)'] = h
    BY <2>11, Zenon DEF Place
  <2>14. \A j \in DOMAIN table[p] : j < k => table[p][j] \notin seen[t]
    BY <2>9, Zenon DEF Ahead
  <2>15. PICK q, S, i, j : q = table[p] /\ S = seen[t] /\ i = Place(p, h)' /\ j = Place(p, h)
    BY Zenon
  <2>16. /\ i \in DOMAIN SwapRemoveFront(q, k) /\ j \in DOMAIN q /\ q[j] \in S
         /\ SwapRemoveFront(q, k)[i] = q[j]
    BY <2>8, <2>12, <2>13, <2>15, Zenon
  <2>x. PICK R : q \in Seq(Handles) /\ Lists(q, R) /\ k \in DOMAIN q /\ \A m \in DOMAIN q : m < k => q[m] \notin S
    BY <2>7, <2>8, <2>14, <2>15, Zenon
  <2>17. i < j
    BY <2>16, <2>x, Nearer, SMTT(30)
  <2> QED BY <2>15, <2>17, Zenon
<1> HIDE DEF A
<1>2. Init => SInv
  <2> SUFFICES ASSUME Init PROVE Scans
    BY InitHInv, Zenon DEF SInv
  <2>1. \A t \in Threads : ~ Scanning(t)
    BY IdleIs, Zenon DEF Init, Scanning
  <2> QED BY <2>1, Zenon DEF Scans
<1>3. Spec => [][A]_vars
  BY <1>1, <1>2, NextSInv, PTL DEF Spec
<1> QED BY <1>3, Zenon DEF AcceptComesNearer, A

=============================================================================
