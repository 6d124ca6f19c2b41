------------------------------- MODULE NetBuf -------------------------------
(***************************************************************************)
(* The buffers of the network card: the pool (driver/src/net/net_buf.rs),  *)
(* the driver that lends them to the virtio queues (virtio_net.rs) and the *)
(* tokens through which smoltcp receives and sends                         *)
(* (driver/src/smoltcp_impl/mod.rs).                                       *)
(*                                                                         *)
(* One poll of the interface at a time uses the driver, under the lock of  *)
(* the device wrapper; the card completes descriptors at any moment.  A    *)
(* token is handed out by a check that is over when the token is used.     *)
(* A poll's reply to a packet is sent while the packet's buffer is held.   *)
(*                                                                         *)
(* The virtio queue is external: adding a buffer takes some free           *)
(* descriptor, whose number is the token; the card returns descriptors in  *)
(* any order; can_send wants two free descriptors.                         *)
(***************************************************************************)
EXTENDS Naturals, Sequences, Functions, FiniteSets

CONSTANTS QS,                 \* queue size
          NET_BUF_LEN,        \* capacity of a buffer
          HDR_LEN,            \* what fill_buffer_header returns
          MTU,                \* capabilities().max_transmission_unit
          Lengths,            \* the lengths of packets smoltcp sends
          NoBuf

ASSUME QSAssumption == QS \in Nat \ {0}
ASSUME LengthsAssumption == Lengths \subseteq 0 .. MTU
ASSUME FitsAssumption == {HDR_LEN, MTU, NET_BUF_LEN} \subseteq Nat /\ HDR_LEN + MTU <= NET_BUF_LEN
ASSUME NoBufAssumption == NoBuf \notin 0 .. 2 * QS

Tokens == 0 .. QS - 1
Bufs == 1 .. 2 * QS

VARIABLES
  free_list,     \* the pool's buffers nobody has
  rx_buffers,    \* for every token the buffer lent to the receive queue, or NoBuf
  tx_buffers,    \* ... to the transmit queue
  free_tx_bufs,  \* buffers ready to be filled
  rxq, txq,      \* the virtio queues: the buffer of each descriptor, the used ones
  poll,          \* what the poll is doing: its place, the buffers it holds
  error          \* an unwrap or an error of the driver that ended the behaviour

nvars == <<free_list, rx_buffers, tx_buffers, free_tx_bufs, rxq, txq, poll, error>>

Resting == [at |-> "idle", rx |-> NoBuf, tx |-> NoBuf]

\* VirtIoNetInner::new fills the receive queue and the list of free buffers
\* from a pool of 2 * QS.
NInit ==
  /\ free_list = <<>>
  /\ rx_buffers = [t \in Tokens |-> t + 1]
  /\ tx_buffers = [t \in Tokens |-> NoBuf]
  /\ free_tx_bufs = [k \in 1 .. QS |-> QS + k]
  /\ rxq = [desc |-> rx_buffers, used |-> <<>>]
  /\ txq = [desc |-> tx_buffers, used |-> <<>>]
  /\ poll = Resting /\ error = "none"

Works == error = "none"

-----------------------------------------------------------------------------
(* The virtio queue. *)

FreeDesc(q) == {t \in Tokens : q.desc[t] = NoBuf}
Posted(q) == {t \in Tokens : q.desc[t] # NoBuf /\ t \notin Range(q.used)}
Add(q, t, b) == [q EXCEPT !.desc[t] = b]
Complete(q) == [desc |-> [q.desc EXCEPT ![Head(q.used)] = NoBuf], used |-> Tail(q.used)]
Use(q, t) == [q EXCEPT !.used = Append(@, t)]

\* The card has filled, or sent, the buffer of a descriptor.
CardReceives(t) ==
  /\ Works /\ t \in Posted(rxq)
  /\ rxq' = Use(rxq, t)
  /\ UNCHANGED <<free_list, rx_buffers, tx_buffers, free_tx_bufs, txq, poll, error>>

CardSends(t) ==
  /\ Works /\ t \in Posted(txq)
  /\ txq' = Use(txq, t)
  /\ UNCHANGED <<free_list, rx_buffers, tx_buffers, free_tx_bufs, rxq, poll, error>>

-----------------------------------------------------------------------------
(* The driver. *)

CanTransmit(freeTx, q) == freeTx # <<>> /\ Cardinality(FreeDesc(q)) >= 2

\* recycle_tx_buffers: everything the card has sent.
Recycled(freeTx) == freeTx \o [k \in DOMAIN txq.used |-> tx_buffers[txq.used[k]]]
RecycledTx == [t \in Tokens |-> IF t \in Range(txq.used) THEN NoBuf ELSE tx_buffers[t]]
RecycledQ == [desc |-> [t \in Tokens |-> IF t \in Range(txq.used) THEN NoBuf ELSE txq.desc[t]],
              used |-> <<>>]

RecycleTx ==
  /\ free_tx_bufs' = Recycled(free_tx_bufs)
  /\ tx_buffers' = RecycledTx
  /\ txq' = RecycledQ

\* Faulty variant: the token for the reply is handed out unchecked.
ReceiveUnchecked ==
  /\ Works /\ poll = Resting
  /\ RecycleTx
  /\ rxq.used # <<>>
  /\ LET t == Head(rxq.used) IN
     /\ poll' = [at |-> "received", rx |-> rx_buffers[t], tx |-> NoBuf]
     /\ rx_buffers' = [rx_buffers EXCEPT ![t] = NoBuf]
     /\ rxq' = Complete(rxq)
  /\ UNCHANGED <<free_list, error>>

\* Device::receive: a packet, and a token to answer it with; without one the
\* packet stays in the queue.
Receive ==
  /\ Works /\ poll = Resting
  /\ RecycleTx
  /\ IF CanTransmit(Recycled(free_tx_bufs), RecycledQ) /\ rxq.used # <<>>
     THEN LET t == Head(rxq.used) IN
          /\ poll' = [at |-> "received", rx |-> rx_buffers[t], tx |-> NoBuf]
          /\ rx_buffers' = [rx_buffers EXCEPT ![t] = NoBuf]
          /\ rxq' = Complete(rxq)
     ELSE UNCHANGED <<poll, rx_buffers, rxq>>
  /\ UNCHANGED <<free_list, error>>

\* Device::transmit
Transmit ==
  /\ Works /\ poll = Resting
  /\ RecycleTx
  /\ poll' = IF CanTransmit(Recycled(free_tx_bufs), RecycledQ)
             THEN [poll EXCEPT !.at = "token"] ELSE poll
  /\ UNCHANGED <<free_list, rx_buffers, rxq, error>>

\* NetTxToken::consume, alloc_tx_buffer: the last free buffer; one that is too
\* small is dropped, which returns it to the pool.
TxAlloc(len) ==
  LET n == Len(free_tx_bufs) IN
  /\ Works /\ poll.at \in {"received", "token"}
  /\ IF free_tx_bufs = <<>>
     THEN error' = "no buffer" /\ UNCHANGED <<free_list, free_tx_bufs, poll>>
     ELSE /\ free_tx_bufs' = SubSeq(free_tx_bufs, 1, n - 1)
          /\ IF HDR_LEN + len > NET_BUF_LEN
             THEN /\ free_list' = Append(free_list, free_tx_bufs[n])
                  /\ error' = "too long" /\ UNCHANGED poll
             ELSE /\ poll' = [poll EXCEPT !.at = "filled", !.tx = free_tx_bufs[n]]
                  /\ UNCHANGED <<free_list, error>>
  /\ UNCHANGED <<rx_buffers, tx_buffers, rxq, txq>>

\* Faulty variant: the buffer that is being sent is offered again.
TxSendAgain(t) ==
  /\ Works /\ poll.at = "filled" /\ t \in FreeDesc(txq)
  /\ tx_buffers' = [tx_buffers EXCEPT ![t] = poll.tx]
  /\ txq' = Add(txq, t, poll.tx)
  /\ free_tx_bufs' = Append(free_tx_bufs, poll.tx)
  /\ poll' = [poll EXCEPT !.at = IF poll.rx = NoBuf THEN "idle" ELSE "replied", !.tx = NoBuf]
  /\ UNCHANGED <<free_list, rx_buffers, rxq, error>>

\* ... transmit, whose transmit_begin must find a free descriptor.
TxSend(t) ==
  /\ Works /\ poll.at = "filled"
  /\ IF FreeDesc(txq) = {}
     THEN error' = "queue full" /\ UNCHANGED <<tx_buffers, txq, poll>>
     ELSE /\ t \in FreeDesc(txq)
          /\ tx_buffers' = [tx_buffers EXCEPT ![t] = poll.tx]
          /\ txq' = Add(txq, t, poll.tx)
          /\ poll' = [poll EXCEPT !.at = IF poll.rx = NoBuf THEN "idle" ELSE "replied", !.tx = NoBuf]
          /\ UNCHANGED error
  /\ UNCHANGED <<free_list, rx_buffers, free_tx_bufs, rxq>>

\* A token that is not used.
TxDrop ==
  /\ Works /\ poll.at = "token"
  /\ poll' = Resting
  /\ UNCHANGED <<free_list, rx_buffers, tx_buffers, free_tx_bufs, rxq, txq, error>>

\* The end of NetRxToken::consume, recycle_rx_buffer: the buffer goes back to
\* the card; its place must be empty.
RxRecycle(t) ==
  /\ Works /\ poll.at \in {"received", "replied"} /\ t \in FreeDesc(rxq)
  /\ rxq' = Add(rxq, t, poll.rx)
  /\ IF rx_buffers[t] # NoBuf
     THEN error' = "bad state" /\ UNCHANGED <<rx_buffers, poll>>
     ELSE /\ rx_buffers' = [rx_buffers EXCEPT ![t] = poll.rx]
          /\ poll' = Resting /\ UNCHANGED error
  /\ UNCHANGED <<free_list, tx_buffers, free_tx_bufs, txq>>

-----------------------------------------------------------------------------
PollStep ==
  \/ Receive \/ Transmit \/ TxDrop
  \/ \E len \in Lengths : TxAlloc(len)
  \/ \E t \in Tokens : TxSend(t) \/ RxRecycle(t)

NNext == PollStep \/ \E t \in Tokens : CardReceives(t) \/ CardSends(t)

NSpec == NInit /\ [][NNext]_nvars

-----------------------------------------------------------------------------
(* Properties. *)

Lent(f, b) == {t \in Tokens : f[t] = b}
Times(s, b) == Cardinality({k \in DOMAIN s : s[k] = b})

\* Every buffer of the pool is in one place: free in the pool, lent to the card
\* for receiving or sending, ready to be filled, or held by the poll; and the
\* card holds exactly the buffers the driver has lent it, so that it never
\* writes or reads a buffer somebody else uses.  The card can fill all its
\* receive descriptors but the one of the packet that is being processed.
BufsConserved ==
  /\ \A b \in Bufs :
       Times(free_list, b) + Cardinality(Lent(rx_buffers, b)) + Cardinality(Lent(tx_buffers, b))
         + Times(free_tx_bufs, b) + (IF poll.rx = b THEN 1 ELSE 0) + (IF poll.tx = b THEN 1 ELSE 0) = 1
  /\ rxq.desc = rx_buffers /\ txq.desc = tx_buffers
  /\ Cardinality(FreeDesc(rxq)) = IF poll.rx = NoBuf THEN 0 ELSE 1

\* A token that was handed out can be used: the check of can_transmit still
\* holds when smoltcp answers or sends, the longest packet fits behind the
\* header, and no unwrap of the driver fails.
TokensHonoured == Works
=============================================================================
