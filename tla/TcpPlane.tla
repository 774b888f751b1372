------------------------------ MODULE TcpPlane ------------------------------
(***************************************************************************)
(* The TCP side of a socket (socket.rs: TcpPlane and the Tcp arms of       *)
(* Socket::connect, poll_connect, send, recv and close) over a network     *)
(* that loses what we send.                                                *)
(*                                                                         *)
(* Nothing runs between the caller's calls: every call ends in poll, and   *)
(* only poll lets smoltcp see what has arrived, send, and look at its      *)
(* timers, which it does against a clock that is read once in CLOCK_TICKS  *)
(* polls.                                                                  *)
(*                                                                         *)
(* smoltcp is modelled from how the code uses it: its connection states,   *)
(* its two buffers and its one timer.  The peer is a kernel TCP, so what   *)
(* it sends arrives in order; what we send may be lost until retransmitted.*)
(* A byte is its number in its stream.                                     *)
(***************************************************************************)
EXTENDS Naturals, Sequences, FiniteSets

CONSTANTS
  TX_CAP,      \* bytes of smoltcp's send buffer
  RX_CAP,      \* bytes of its receive buffer
  CLOCK_TICKS, \* polls served from one clock reading
  MSG,         \* bound: bytes the caller sends
  PEER_MSG,    \* bound: bytes the peer sends
  BUF,         \* the caller's buffer, for send and for recv
  PeerCloses,  \* does the peer close its side by itself?
  PeerResets   \* may the peer reset the connection?

ASSUME TcpAssumption ==
  /\ TX_CAP \in Nat \ {0} /\ RX_CAP \in Nat \ {0} /\ CLOCK_TICKS \in Nat \ {0}
  /\ MSG \in Nat /\ PEER_MSG \in Nat /\ BUF \in Nat \ {0}
  /\ PeerCloses \in BOOLEAN /\ PeerResets \in BOOLEAN

VARIABLES
  tcp,        \* the smoltcp socket
  timer,      \* its timer, in real time: "idle", "running" or "passed"
  ticks_left, \* polls left before the clock is read again
  connected,  \* Socket.connected
  told,       \* bytes send has reported as taken
  got,        \* bytes recv has given the caller
  handshake,  \* what poll_connect last said
  ended,      \* has recv returned Some(0)?
  shut,       \* has the caller called close?
  arrived,    \* segments that have come in and were not polled yet
  lost,       \* is what we last sent lost?
  peer,       \* "listen", "open", "closed" (FIN sent) or "gone"
  peer_sent,  \* bytes the peer has sent
  peer_got    \* bytes the peer's application has read

ours  == <<tcp, timer, ticks_left, connected, told, got, handshake, ended, shut>>
theirs == <<peer, peer_sent, peer_got>>
vars  == <<ours, arrived, lost, theirs>>

-----------------------------------------------------------------------------
(* smoltcp's socket: its state, what it has yet to see acknowledged (tx),  *)
(* how much of that it has sent (nxt), its receive buffer (rx), and, an    *)
(* auxiliary count, the unread bytes a reset has thrown away (cut).        *)

States == {"Closed", "SynSent", "Established", "FinWait1", "FinWait2",
           "Closing", "TimeWait", "CloseWait", "LastAck"}

Syn == <<"syn">>
Fin == <<"fin">>
Byte(b) == <<"byte", b>>

\* How many of that kind there are in a sequence of items or segments.
Count(s, kind) == Cardinality({i \in 1 .. Len(s) : s[i][1] = kind})

may_send(s) == s.st \in {"Established", "CloseWait"}
can_recv(s) == s.rx # <<>>
is_active(s) == s.st \notin {"Closed", "TimeWait"}

\* Room for bytes in the send buffer.
Room(s) == TX_CAP - Count(s.tx, "byte")

\* An RST or the last acknowledgement: what has come in can still be read.
Closed(s) == [s EXCEPT !.st = "Closed", !.tx = <<>>, !.nxt = 0]

\* The end of TIME-WAIT: smoltcp's reset empties both buffers.
Reset(s) == [Closed(s) EXCEPT !.rx = <<>>, !.cut = Len(s.rx)]

\* The peer acknowledges the oldest thing outstanding.
OnAck(s) ==
  LET fin  == Head(s.tx) = Fin
      next == CASE s.st = "SynSent" -> "Established"
                [] s.st = "FinWait1" /\ fin -> "FinWait2"
                [] s.st = "Closing" /\ fin -> "TimeWait"
                [] s.st = "LastAck" /\ fin -> "Closed"
                [] OTHER -> s.st
  IN  [s EXCEPT !.st = next, !.tx = Tail(s.tx), !.nxt = s.nxt - 1]

OnFin(s) ==
  [s EXCEPT !.st = CASE s.st = "Established" -> "CloseWait"
                     [] s.st = "FinWait1" -> "Closing"
                     [] s.st = "FinWait2" -> "TimeWait"
                     [] OTHER -> s.st]

\* One segment.  A closed socket takes nothing.
Process(s, seg) ==
  IF s.st = "Closed" THEN s
  ELSE CASE seg[1] = "rst"  -> Closed(s)
         [] seg[1] = "ack"  -> OnAck(s)
         [] seg[1] = "byte" -> [s EXCEPT !.rx = Append(s.rx, seg[2])]
         [] seg[1] = "fin"  -> OnFin(s)

-----------------------------------------------------------------------------
(* TcpPlane::poll *)

\* Mutant: the count of served polls is not run down.
now_Frozen == ticks_left' = IF ticks_left = 0 THEN CLOCK_TICKS ELSE ticks_left

\* now: the clock is read when no poll is left of the last reading.
now == ticks_left' = (IF ticks_left = 0 THEN CLOCK_TICKS ELSE ticks_left) - 1

\* smoltcp acts on its timer only when it sees, on the clock, that it passed.
Expired == ticks_left = 0 /\ timer = "passed"

\* Socket s when it has seen everything that has arrived.
Ingress(s) ==
  LET after[i \in 0 .. Len(arrived)] ==
        IF i = 0 THEN s ELSE Process(after[i - 1], arrived[i])
  IN  after[Len(arrived)]

\* iface.poll on socket s: everything that has arrived, then everything
\* that can be sent.
Polled(s) ==
  LET in   == Ingress(s)
      over == tcp.st = "TimeWait" /\ in.st = "TimeWait" /\ Expired
      out  == IF over THEN Reset(in) ELSE in
  IN  [out EXCEPT !.nxt = Len(out.tx)]

\* Its timer afterwards; a retransmission sends again all that is unacked.
NextTimer(s) ==
  LET acked == \E i \in 1 .. Len(arrived) : arrived[i][1] = "ack" IN
  CASE s.st = "TimeWait" -> IF tcp.st = "TimeWait" THEN timer ELSE "running"
    [] s.st # "TimeWait" /\ s.tx = <<>> -> "idle"
    [] s.st # "TimeWait" /\ s.tx # <<>> ->
         IF Expired \/ acked \/ timer = "idle" THEN "running" ELSE timer

\* The two kicks at the end of poll are XskWakeup's.
poll(s) ==
  /\ now
  /\ arrived' = <<>>
  /\ timer' = NextTimer(Polled(s))
  /\ lost' = (lost /\ ~Expired /\ Polled(s).tx # <<>>)

-----------------------------------------------------------------------------
(* The caller's calls *)

Init ==
  /\ tcp = [st |-> "Closed", tx |-> <<>>, nxt |-> 0, rx |-> <<>>, cut |-> 0]
  /\ timer = "idle" /\ ticks_left = 0
  /\ connected = FALSE /\ told = 0 /\ got = <<>> /\ handshake = "none"
  /\ ended = FALSE /\ shut = FALSE
  /\ arrived = <<>> /\ lost = FALSE
  /\ peer = "listen" /\ peer_sent = 0 /\ peer_got = <<>>

\* connect with start_connect; once in the life of a socket (bound).
connect ==
  LET s == [tcp EXCEPT !.st = "SynSent", !.tx = <<Syn>>] IN
  /\ ~connected
  /\ poll(s)
  /\ tcp' = Polled(s)
  /\ connected' = TRUE
  /\ UNCHANGED <<told, got, handshake, ended, shut, theirs>>

poll_connect ==
  /\ connected
  /\ poll(tcp)
  /\ tcp' = Polled(tcp)
  /\ handshake' = CASE tcp'.st = "Established" -> "true"
                    [] tcp'.st = "Closed" -> "refused"
                    [] OTHER -> "false"
  /\ UNCHANGED <<connected, told, got, ended, shut, theirs>>

\* The bytes of the caller's next buffer that smoltcp has room for.
Taken(k) ==
  CASE ~may_send(tcp) -> 0
    [] may_send(tcp) /\ k <= Room(tcp) -> k
    [] may_send(tcp) /\ k > Room(tcp) -> Room(tcp)

\* Queue n bytes of the caller's buffer, then poll.
Queue(n) ==
  LET s == [tcp EXCEPT !.tx = @ \o [i \in 1 .. n |-> Byte(told + i)]] IN
  /\ poll(s)
  /\ tcp' = Polled(s)

\* Mutant: the whole buffer is reported as sent.
send_All(k) ==
  /\ connected /\ told + k <= MSG
  /\ Queue(Taken(k))
  /\ told' = told + k
  /\ UNCHANGED <<connected, got, handshake, ended, shut, theirs>>

\* send of the next k bytes: the loop stops when smoltcp takes no more, and
\* the caller is told how far it got.
send(k) ==
  /\ connected /\ told + k <= MSG
  /\ Queue(Taken(k))
  /\ told' = told + Taken(k)
  /\ UNCHANGED <<connected, got, handshake, ended, shut, theirs>>

\* What a buffer of BUF bytes takes off the receive buffer.
Slice(s) == SubSeq(s.rx, 1, IF BUF < Len(s.rx) THEN BUF ELSE Len(s.rx))
Rest(s)  == SubSeq(s.rx, Len(Slice(s)) + 1, Len(s.rx))

\* Mutant: the bytes given to the caller stay in the buffer.
recv_Peeks ==
  /\ connected
  /\ poll(tcp)
  /\ tcp' = Polled(tcp)
  /\ got' = got \o Slice(Polled(tcp))
  /\ ended' = (ended \/ (~can_recv(Polled(tcp)) /\ ~is_active(Polled(tcp))))
  /\ UNCHANGED <<connected, told, handshake, shut, theirs>>

\* Mutant: the end of the connection is looked at before the buffer.
recv_EndFirst ==
  LET s == Polled(tcp) IN
  /\ connected
  /\ poll(tcp)
  /\ IF is_active(s)
     THEN /\ got' = got \o Slice(s) /\ tcp' = [s EXCEPT !.rx = Rest(s)]
          /\ UNCHANGED ended
     ELSE ended' = TRUE /\ tcp' = s /\ UNCHANGED got
  /\ UNCHANGED <<connected, told, handshake, shut, theirs>>

\* Mutant: recv never says Some(0).
recv_Endless ==
  LET s == Polled(tcp) IN
  /\ connected
  /\ poll(tcp)
  /\ got' = got \o Slice(s)
  /\ tcp' = [s EXCEPT !.rx = Rest(s)]
  /\ UNCHANGED <<connected, told, handshake, ended, shut, theirs>>

\* recv: what there is, else Some(0) on a connection that is not active,
\* else None.
recv ==
  LET s == Polled(tcp) IN
  /\ connected
  /\ poll(tcp)
  /\ got' = got \o Slice(s)
  /\ tcp' = [s EXCEPT !.rx = Rest(s)]
  /\ ended' = (ended \/ (~can_recv(s) /\ ~is_active(s)))
  /\ UNCHANGED <<connected, told, handshake, shut, theirs>>

\* close: smoltcp queues a FIN behind what it still has to send.
close ==
  LET fin == [tcp EXCEPT !.tx = Append(@, Fin)]
      s   == CASE tcp.st = "SynSent" -> Closed(tcp)
               [] tcp.st = "Established" -> [fin EXCEPT !.st = "FinWait1"]
               [] tcp.st = "CloseWait" -> [fin EXCEPT !.st = "LastAck"]
               [] OTHER -> tcp
  IN  /\ connected /\ ~shut
      /\ poll(s)
      /\ tcp' = Polled(s)
      /\ shut' = TRUE
      /\ UNCHANGED <<connected, told, got, handshake, ended, theirs>>

-----------------------------------------------------------------------------
(* Time, the network and the peer (external) *)

Tick ==
  /\ timer = "running"
  /\ timer' = "passed"
  /\ UNCHANGED <<tcp, ticks_left, connected, told, got, handshake, ended, shut,
                 arrived, lost, theirs>>

\* What the peer has taken and we do not know of yet.
Acks == Count(arrived, "ack")

\* The oldest thing of ours that the peer can see, if there is one.
OnWire == ~lost /\ Acks < tcp.nxt /\ peer # "gone"
Oldest == tcp.tx[Acks + 1]

Lose ==
  /\ OnWire
  /\ lost' = TRUE
  /\ UNCHANGED <<ours, arrived, theirs>>

PeerAnswer ==
  /\ peer = "listen" /\ OnWire
  /\ \/ peer' = "open" /\ arrived' = Append(arrived, <<"ack">>)
     \/ peer' = "gone" /\ arrived' = Append(arrived, <<"rst">>)
  /\ UNCHANGED <<ours, lost, peer_sent, peer_got>>

PeerTake ==
  /\ peer \in {"open", "closed"} /\ OnWire
  /\ arrived' = Append(arrived, <<"ack">>)
  /\ peer_got' = IF Oldest = Fin THEN peer_got ELSE Append(peer_got, Oldest[2])
  /\ UNCHANGED <<ours, lost, peer, peer_sent>>

\* Within the window we advertise.
PeerSend ==
  /\ peer = "open" /\ peer_sent < PEER_MSG
  /\ Len(tcp.rx) + Count(arrived, "byte") < RX_CAP
  /\ peer_sent' = peer_sent + 1
  /\ arrived' = Append(arrived, Byte(peer_sent + 1))
  /\ UNCHANGED <<ours, lost, peer, peer_got>>

PeerClose ==
  /\ PeerCloses /\ peer = "open"
  /\ peer' = "closed"
  /\ arrived' = Append(arrived, Fin)
  /\ UNCHANGED <<ours, lost, peer_sent, peer_got>>

PeerReset ==
  /\ PeerResets /\ peer \in {"open", "closed"}
  /\ peer' = "gone"
  /\ arrived' = Append(arrived, <<"rst">>)
  /\ UNCHANGED <<ours, lost, peer_sent, peer_got>>

-----------------------------------------------------------------------------
Caller == connect \/ poll_connect \/ recv \/ close \/ \E k \in 1 .. BUF : send(k)
Peer == PeerAnswer \/ PeerTake \/ PeerSend \/ PeerClose \/ PeerReset

Next == Caller \/ Tick \/ Lose \/ Peer

Spec == Init /\ [][Next]_vars

Answered == handshake \in {"true", "refused"}

\* The caller owns the loop: it calls poll_connect until it has an answer,
\* then recv for as long as it lives.
Pump == IF Answered THEN recv ELSE poll_connect

\* The loop runs, time passes, the network does not lose every retransmission,
\* and the peer answers and reads.
FairSpec ==
  Spec /\ WF_vars(Pump) /\ WF_vars(Tick) /\ SF_vars(PeerAnswer \/ PeerTake)

-----------------------------------------------------------------------------
(* Properties *)

Items == {Syn, Fin} \cup {Byte(b) : b \in 1 .. MSG}

TypeOK ==
  /\ tcp.st \in States /\ tcp.nxt \in 0 .. Len(tcp.tx)
  /\ tcp.tx \in Seq(Items) /\ Count(tcp.tx, "byte") <= TX_CAP
  /\ tcp.rx \in Seq(1 .. PEER_MSG) /\ Len(tcp.rx) <= RX_CAP
  /\ tcp.cut \in Nat
  /\ timer \in {"idle", "running", "passed"} /\ ticks_left \in 0 .. CLOCK_TICKS - 1
  /\ told \in 0 .. MSG /\ peer_sent \in 0 .. PEER_MSG
  /\ got \in Seq(1 .. PEER_MSG) /\ peer_got \in Seq(1 .. MSG)
  /\ handshake \in {"none", "true", "false", "refused"}
  /\ {connected, ended, shut, lost} \subseteq BOOLEAN
  /\ peer \in {"listen", "open", "closed", "gone"}

\* s is the beginning of a stream of which n bytes exist.
StreamOf(s, n) == Len(s) <= n /\ \A i \in 1 .. Len(s) : s[i] = i

\* The peer reads the bytes that send has reported as taken, each once and in
\* order, although send takes buffers in part and segments are sent again.
StreamOut == StreamOf(peer_got, told)

\* recv gives the peer's bytes, each once and in order.
StreamIn == StreamOf(got, peer_sent)

\* Some(0) is the end: on a connection that was established, everything the
\* peer sent has been given to the caller before, except what the end of
\* TIME-WAIT found unread, and that takes a caller that has closed
\* (TcpPlane::recv looks at the buffer before it looks at the state).
EndIsComplete ==
  ended /\ handshake = "true" =>
    /\ Len(got) + tcp.cut = peer_sent
    /\ tcp.cut > 0 => shut

\* "Ok(true) once the peer answers and ConnectionRefused on an RST"
\* (spec.md:136): a caller that polls is answered, even if SYNs are lost and
\* the clock is read seldom.  The one exception is a peer that closes: when
\* its SYN-ACK and FIN are seen by the same poll, the state is CloseWait and
\* poll_connect says Ok(false) until the connection is reset.
HandshakeEnds == connected ~> Answered \/ shut \/ peer = "closed"

\* What send has taken reaches a peer that stays, even if it is lost on the
\* way: retransmission does not stop with the clock that is read so seldom.
TakenArrives ==
  \A n \in 1 .. MSG : told >= n ~> Len(peer_got) >= n \/ peer = "gone"

\* A connection the peer has reset ends for the caller of recv.
ResetReported == peer = "gone" ~> ended

\* "Some(0) is end of stream" (socket.rs:338): the caller of recv comes to
\* know that the peer has closed its side.
EndReported == peer = "closed" ~> ended

=============================================================================
