------------------------------ MODULE XskPlanes ------------------------------
(***************************************************************************)
(* Who calls the ring operations of XskWakeup, and when: Socket::send and  *)
(* UdpPlane::recv_into for UDP; for TCP the pass that ends every call,     *)
(* TcpPlane::poll, in which smoltcp drives XskDevice and its tokens.       *)
(*                                                                         *)
(* A pass works off everything the RX ring has, answering from inside a    *)
(* received frame, then sends what smoltcp has to send; the driver is told *)
(* of all this only when the pass is over.  Until then the TX pool must    *)
(* last: UDP drops a datagram it has no frame for, TCP panics.             *)
(***************************************************************************)
EXTENDS XskWakeup

CONSTANTS
  Protos, \* the protocols a socket may be built for
  WINDOW, \* TCP: segments the peer may send before it hears from us again
  SEGS,   \* TCP: segments smoltcp's send buffer may become in one pass
  CHUNKS  \* UDP: datagrams one send may become

ASSUME PlanesAssumption ==
  /\ Protos \subseteq {"tcp", "udp"}
  /\ WINDOW \in Nat /\ SEGS \in Nat /\ CHUNKS \in Nat \ {0}

VARIABLES
  proto,  \* which plane the socket has
  call,   \* where its caller is: "idle" between two calls
  todo,   \* datagrams or segments the call has still to emit
  window, \* TCP: segments the peer may still send
  room    \* TCP: frames of the TX pool that were free when the pass began

plane == <<proto, call, todo, window, room>>
all   == <<vars, plane>>

PlanesInit ==
  /\ Init
  /\ proto \in Protos
  /\ call = "idle" /\ todo = 0 /\ window = WINDOW /\ room = 0

-----------------------------------------------------------------------------
(* Steps both planes are made of.  None is taken inside kick_tx.           *)

\* The caller goes from a to b.
Goes(a, b) == pc = "loop" /\ call = a /\ call' = b

\* kick_rx looks at FILL's flag, then the caller goes on.
KickRx(a, b) ==
  /\ Goes(a, b)
  /\ kick_rx \/ (~starved /\ UNCHANGED vars)

\* kick_tx, which does nothing unless frames were submitted.
KickTx(a, b) ==
  /\ Goes(a, b)
  /\ kick_tx \/ (~tx_pending /\ UNCHANGED vars)

\* TxToken::consume: tx_alloc, build, tx_submit; no frame is a panic.
Consume(a, b) ==
  \/ Goes(a, b) /\ tx_submit
  \/ Goes(a, "panicked") /\ free = 0 /\ UNCHANGED vars

-----------------------------------------------------------------------------
(* TcpPlane::poll *)

PollStart ==
  /\ proto = "tcp" /\ Goes("idle", "receive")
  /\ room' = free
  /\ UNCHANGED <<vars, proto, todo, window>>

\* XskDevice::receive: kick_rx ...
Receive ==
  /\ KickRx("receive", "peek") /\ proto = "tcp"
  /\ UNCHANGED <<proto, todo, window, room>>

\* Mutant: receive takes the frame for an answer at once.
Peek_Eager ==
  /\ proto = "tcp" /\ hand > 0 /\ free > 0
  /\ Goes("peek", "frame")
  /\ free' = free - 1 /\ wire' = wire + 1
  /\ UNCHANGED <<zerocopy, pc, tx_pending, stored, queued, tx_flag, driver,
                 rxv, proto, todo, window, room>>

\* ... and rx_peek.  With RX empty smoltcp turns to what it has to send.
Peek ==
  /\ proto = "tcp"
  /\ \/ hand > 0 /\ Goes("peek", "frame") /\ UNCHANGED todo
     \/ hand = 0 /\ Goes("peek", "transmit") /\ todo' \in 0 .. SEGS
  /\ UNCHANGED <<vars, proto, window, room>>

\* smoltcp answers the segment it is being given.
Answer ==
  /\ Consume("frame", "answered")
  /\ UNCHANGED <<proto, todo, window, room>>

\* RxToken::consume gives the frame back when smoltcp is done with it.
GiveBack ==
  /\ call \in {"frame", "answered"} /\ Goes(call, "receive")
  /\ recycle
  /\ UNCHANGED <<proto, todo, window, room>>

\* XskDevice::transmit always has a token.
Transmit ==
  /\ todo > 0 /\ todo' = todo - 1
  /\ Consume("transmit", "transmit")
  /\ UNCHANGED <<proto, window, room>>

\* Mutant: the pass is over without telling the driver.
PollKick_Forgotten ==
  /\ todo = 0 /\ Goes("transmit", "poll_rx")
  /\ window' = WINDOW - hand
  /\ UNCHANGED <<vars, proto, todo, room>>

\* After iface.poll: the peer hears of what was worked off, and may send that
\* much again.
PollKick ==
  /\ todo = 0 /\ KickTx("transmit", "poll_rx")
  /\ window' = WINDOW - hand
  /\ UNCHANGED <<proto, todo, room>>

PollEnd ==
  /\ KickRx("poll_rx", "idle")
  /\ UNCHANGED <<proto, todo, window, room>>

-----------------------------------------------------------------------------
(* The UDP plane *)

SendStart ==
  /\ proto = "udp" /\ Goes("idle", "chunks")
  /\ todo' \in 1 .. CHUNKS
  /\ UNCHANGED <<vars, proto, window, room>>

\* UdpPlane::send of one chunk; a chunk without a frame is dropped.
Chunk ==
  /\ Goes("chunks", "chunks")
  /\ todo > 0 /\ todo' = todo - 1
  /\ tx_submit \/ (free = 0 /\ UNCHANGED vars)
  /\ UNCHANGED <<proto, window, room>>

SendKick ==
  /\ todo = 0 /\ KickTx("chunks", "idle")
  /\ UNCHANGED <<proto, todo, window, room>>

\* Mutant: recv looks at the ring only.
RecvStart_NoKick ==
  /\ proto = "udp" /\ Goes("idle", "recv")
  /\ UNCHANGED <<vars, proto, todo, window, room>>

\* recv_into: kick_rx, then one packet at most.
RecvStart ==
  /\ proto = "udp" /\ KickRx("idle", "recv")
  /\ UNCHANGED <<proto, todo, window, room>>

RecvEnd ==
  /\ Goes("recv", "idle")
  /\ recycle \/ (hand = 0 /\ UNCHANGED vars)
  /\ UNCHANGED <<proto, todo, window, room>>

-----------------------------------------------------------------------------
Poll == PollStart \/ Receive \/ Peek \/ Answer \/ GiveBack \/ Transmit
          \/ PollKick \/ PollEnd
Udp  == SendStart \/ Chunk \/ SendKick \/ RecvStart \/ RecvEnd

\* The steps inside kick_tx.
InKick == (needs_wakeup \/ sendto) /\ UNCHANGED plane
User   == Poll \/ Udp \/ InKick

\* A TCP peer keeps within the window it was told of.
Arrival ==
  /\ proto = "tcp" => window > 0
  /\ DriverReceive
  /\ window' = IF proto = "tcp" THEN window - 1 ELSE window
  /\ UNCHANGED <<proto, call, todo, room>>

Drain     == (DrainTxStore \/ DrainFillStore) /\ UNCHANGED plane
Transmits == (DriverTake \/ DriverFlag \/ DriverPark) /\ UNCHANGED plane
Completes == Complete /\ UNCHANGED plane

PlanesNext == User \/ Arrival \/ Drain \/ Transmits \/ Completes

\* The thread does not stop inside a call and its caller keeps calling; a UDP
\* caller that sends all the time still comes back to recv.  A store buffer
\* drains and a driver that was woken runs.  Nobody is obliged to send.
PlanesSpec ==
  /\ PlanesInit /\ [][PlanesNext]_all
  /\ WF_all(Poll \/ InKick \/ (call # "idle" /\ Udp)) /\ SF_all(RecvStart)
  /\ WF_all(Drain) /\ WF_all(Transmits)

-----------------------------------------------------------------------------
(* Properties *)

\* Between two calls nothing waits on the TX ring for a driver that sleeps:
\* "Mandatory after tx_submit: nothing leaves the ring on its own"
\* (socket.rs:1180), and both planes see to it before they return.
HandedOver == call = "idle" /\ pc = "loop" /\ stored + queued > 0 => driver # "idle"

\* TxToken::consume panics only in a pass that began with fewer free frames
\* than smoltcp's buffers allow it to emit: if the driver has caught up when
\* a pass begins, the pool lasts until the driver is told.
PanicBound == call = "panicked" => room < WINDOW + SEGS

\* A published frame does not wait on the TX ring for ever: while any waits,
\* the driver keeps putting frames on the wire.
TxServed == stored + queued > 0 ~> wire > 0 \/ call = "panicked"

\* The driver does not stay starved of FILL frames: both planes look at its
\* flag on every pass.
FillServed == starved ~> ~starved \/ call = "panicked"

=============================================================================
